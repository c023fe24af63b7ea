------------------------------ MODULE ByteStream ------------------------------
(***************************************************************************)
(* What a pipe promises: a bounded channel.  Items come out in the order    *)
(* they went in, each once; a reader gets a prefix of what is there.  Where *)
(* the channel keeps packets, what a short read leaves of a packet is lost. *)
(***************************************************************************)
EXTENDS Integers, Sequences

CONSTANT Bound      \* the most the channel holds

VARIABLES chan,     \* written and not yet taken
          out,      \* what the last read returned
          lossy     \* TRUE: a read may discard the rest of a packet

Init == chan = <<>> /\ out = <<>> /\ lossy \in BOOLEAN

Put == \E n \in 1 .. Bound - Len(chan) :
         /\ Len(chan') = Len(chan) + n /\ SubSeq(chan', 1, Len(chan)) = chan
         /\ UNCHANGED out
Take == \E n \in 1 .. Len(chan) : \E d \in n .. (IF lossy THEN Len(chan) ELSE n) :
          /\ out' = SubSeq(chan, 1, n)
          /\ chan' = SubSeq(chan, d + 1, Len(chan))
(* A packet whose copy to user space failed half way is gone as well. *)
Drop == /\ lossy /\ UNCHANGED out
        /\ \E d \in 1 .. Len(chan) : chan' = SubSeq(chan, d + 1, Len(chan))

Next == (Put \/ Take \/ Drop) /\ UNCHANGED lossy
Spec == Init /\ [][Next]_<<chan, out, lossy>>
=============================================================================
