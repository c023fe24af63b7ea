------------------------------ MODULE Frames ------------------------------
(***************************************************************************)
(* The physical frame allocator (impl-stack/src/lib.rs): a stack of recycled   *)
(* frames over a range never used yet, reference counts, and the pool of       *)
(* frames zeroed in advance.  The allocator and the pool have a lock each and  *)
(* no call holds both, so an allocation that misses the pool, the refill by an *)
(* idle CPU and the drain when memory runs out are several steps each, with    *)
(* frames in a CPU's own array in between.                                     *)
(***************************************************************************)
EXTENDS Integers, FiniteSets, FiniteSetsExt, Sequences, SequencesExt

CONSTANTS FCpu,      \* CPUs
          NFrame,    \* frames 1 .. NFrame
          Reserved,  \* a set of consecutive frames that are never handed out
          Capacity,  \* ZEROED_POOL_CAPACITY, also the high watermark
          LowMark,   \* ZEROED_POOL_LOW_WATERMARK
          Batch,     \* ZEROED_SYNC_BATCH, and the batch of idle and drain
          MaxRef     \* references a frame may get

(* The reserved frames are consecutive; a batch is at least one frame.         *)
ASSUME FrameAssumption ==
  /\ IsFiniteSet(FCpu) /\ NFrame \in Nat /\ Capacity \in Nat /\ LowMark \in Nat
  /\ Batch \in Nat \ {0} /\ MaxRef \in Nat \ {0}
  /\ Reserved \subseteq 1 .. NFrame
  /\ \A x, y \in Reserved : x .. y \subseteq Reserved

VARIABLES recycled, next_novel, ref_counts,   \* the allocator; allocated is ref_counts # 0
          pool, in_flight, refill_active,     \* the pool; pool is frames[0 .. len - 1]
          fcall,     \* fcall[c]: the call under way on c: pc, claimed, frames
          users,     \* users[f]: references that callers hold
          dirty      \* dirty[f]: the contents are not zero
fvars == <<recycled, next_novel, ref_counts, pool, in_flight, refill_active, fcall, users, dirty>>
allocator == <<recycled, next_novel, ref_counts>>
poolvars == <<pool, in_flight, refill_active>>

Ppn == 1 .. NFrame
None == [pc |-> "idle", claimed |-> 0, frames |-> <<>>]
FIn(c, l) == fcall[c].pc = l
FGo(c, l, n, fs) == fcall' = [fcall EXCEPT ![c] = [pc |-> l, claimed |-> n, frames |-> fs]]
FDone(c) == fcall' = [fcall EXCEPT ![c] = None]
Give(f) == users' = [users EXCEPT ![f] = @ + 1]

-----------------------------------------------------------------------------
(* The allocator, on a record [rec, nov, cnt].                                *)
Alloc == [rec |-> recycled, nov |-> next_novel, cnt |-> ref_counts]
SetAlloc(A) == recycled' = A.rec /\ next_novel' = A.nov /\ ref_counts' = A.cnt
(* The range shrinks from above and steps over the reserved frames.            *)
below(n) == IF n - 1 \in Reserved THEN Min(Reserved) - 1 ELSE n - 1
can_alloc(A) == A.rec # <<>> \/ below(A.nov) >= 1
next_frame(A) == IF A.rec # <<>> THEN Last(A.rec) ELSE below(A.nov)
alloc_frame(A) ==
  [rec |-> IF A.rec # <<>> THEN Front(A.rec) ELSE A.rec,
   nov |-> IF A.rec # <<>> THEN A.nov ELSE below(A.nov),
   cnt |-> [A.cnt EXCEPT ![next_frame(A)] = 1]]
dealloc_frame_at_once(A, f) == [A EXCEPT !.cnt[f] = @ - 1, !.rec = Append(@, f)]
dealloc_frame(A, f) ==
  [A EXCEPT !.cnt[f] = @ - 1, !.rec = IF A.cnt[f] = 1 THEN Append(@, f) ELSE @]
(* As many as there are, up to n; and the frames of an array, one by one.      *)
alloc_next(x) ==
  IF can_alloc(x.a) THEN [a |-> alloc_frame(x.a), got |-> Append(x.got, next_frame(x.a))] ELSE x
alloc_batch(n) ==
  LET after[i \in 0 .. n] == IF i = 0 THEN [a |-> Alloc, got |-> <<>>] ELSE alloc_next(after[i - 1])
  IN after[n]
dealloc_batch(A, fs) ==
  LET after[i \in 0 .. Len(fs)] == IF i = 0 THEN A ELSE dealloc_frame(after[i - 1], fs[i])
  IN after[Len(fs)]

(* The pool.  effective is what it holds and what is promised to it.           *)
update_refill_state(len, fl) ==
  refill_active' = IF len + fl < LowMark THEN TRUE ELSE IF len + fl >= Capacity THEN FALSE ELSE refill_active
take(keep) == Len(pool) # 0 /\ ~(keep /\ Len(pool) <= LowMark)
Taken == /\ pool' = Front(pool) /\ UNCHANGED in_flight /\ update_refill_state(Len(pool) - 1, in_flight)
finish_claim(n, fs) ==
  /\ pool' = pool \o fs /\ in_flight' = in_flight - n
  /\ update_refill_state(Len(pool) + Len(fs), in_flight - n)

-----------------------------------------------------------------------------
FrInit ==
  /\ recycled = <<>> /\ next_novel = NFrame + 1 /\ ref_counts = [f \in Ppn |-> 0]
  /\ pool = <<>> /\ in_flight = 0 /\ refill_active = TRUE
  /\ fcall = [c \in FCpu |-> None] /\ users = [f \in Ppn |-> 0] /\ dirty = [f \in Ppn |-> TRUE]

(* frame_alloc_result: the raw frame, or the pool is drained, then the frames  *)
(* go back and one of them is taken.                                          *)
frame_alloc_result(c) ==
  /\ FIn(c, "idle")
  /\ \/ /\ can_alloc(Alloc) /\ SetAlloc(alloc_frame(Alloc)) /\ Give(next_frame(Alloc)) /\ UNCHANGED fcall
     \/ /\ ~can_alloc(Alloc) /\ FGo(c, "drain", 0, <<>>) /\ UNCHANGED <<allocator, users>>
  /\ UNCHANGED <<poolvars, dirty>>
drain(c) ==
  /\ FIn(c, "drain")
  /\ LET n == Min({Len(pool), Batch}) IN
     /\ pool' = SubSeq(pool, 1, Len(pool) - n) /\ update_refill_state(Len(pool) - n, in_flight)
     /\ IF n = 0 THEN FDone(c) ELSE FGo(c, "giveback", 0, SubSeq(pool, Len(pool) - n + 1, Len(pool)))
  /\ UNCHANGED <<allocator, in_flight, users, dirty>>
give_back(c) ==
  /\ FIn(c, "giveback")
  /\ LET A == dealloc_batch(Alloc, fcall[c].frames) IN
     SetAlloc(alloc_frame(A)) /\ Give(next_frame(A))
  /\ FDone(c) /\ UNCHANGED <<poolvars, dirty>>

(* frame_alloc_zeroed_result: from the pool; or claim slots, take a batch,     *)
(* zero it without a lock, keep one and publish the others.                    *)
take_zeroed(c, keep) ==
  /\ FIn(c, "idle") \/ (FIn(c, "retry") /\ ~keep)
  /\ \/ /\ take(keep) /\ Taken /\ Give(Last(pool)) /\ FDone(c)
     \/ /\ ~take(keep) /\ UNCHANGED <<poolvars, users>>
        /\ IF keep \/ FIn(c, "retry") THEN FDone(c) ELSE FGo(c, "claim", 0, <<>>)
  /\ UNCHANGED <<allocator, dirty>>
claim_sync_publish_slots(c) ==
  /\ FIn(c, "claim")
  /\ LET n == Min({Batch - 1, Max({0, Capacity - Len(pool) - in_flight})}) IN
     in_flight' = in_flight + n /\ FGo(c, "batch", n, <<>>)
  /\ UNCHANGED <<allocator, pool, refill_active, users, dirty>>
batch(c) ==
  /\ FIn(c, "batch")
  /\ LET x == alloc_batch(fcall[c].claimed + 1) IN
     SetAlloc(x.a) /\ FGo(c, IF x.got = <<>> THEN "unclaim" ELSE "zero", fcall[c].claimed, x.got)
  /\ UNCHANGED <<poolvars, users, dirty>>
unclaim(c) ==
  /\ FIn(c, "unclaim") /\ finish_claim(fcall[c].claimed, <<>>) /\ FGo(c, "retry", 0, <<>>)
  /\ UNCHANGED <<allocator, users, dirty>>
zero_frames(c) ==
  /\ fcall[c].pc \in {"zero", "idlezero"}
  /\ dirty' = [f \in Ppn |-> dirty[f] /\ f \notin Range(fcall[c].frames)]
  /\ FGo(c, IF FIn(c, "zero") THEN "publish" ELSE "idlepublish", fcall[c].claimed, fcall[c].frames)
  /\ UNCHANGED <<allocator, poolvars, users>>
publish(c) ==
  /\ FIn(c, "publish") /\ finish_claim(fcall[c].claimed, Tail(fcall[c].frames))
  /\ Give(Head(fcall[c].frames)) /\ FDone(c) /\ UNCHANGED <<allocator, dirty>>

(* The idle task: it never waits for the allocator's lock.                     *)
claim_idle_publish_slots(c) ==
  /\ FIn(c, "idle") /\ (refill_active \/ Len(pool) + in_flight < LowMark)
  /\ LET n == Min({Batch, Max({0, Capacity - Len(pool) - in_flight})}) IN
     /\ n > 0 /\ in_flight' = in_flight + n /\ FGo(c, "idlebatch", n, <<>>)
     /\ refill_active' = (Len(pool) + in_flight + n < Capacity)
  /\ UNCHANGED <<allocator, pool, users, dirty>>
idle_batch(c) ==
  /\ FIn(c, "idlebatch")
  /\ \/ LET x == alloc_batch(fcall[c].claimed) IN
        SetAlloc(x.a) /\ FGo(c, IF x.got = <<>> THEN "idlepublish" ELSE "idlezero", fcall[c].claimed, x.got)
     \/ UNCHANGED allocator /\ FGo(c, "idlepublish", fcall[c].claimed, <<>>)
  /\ UNCHANGED <<poolvars, users, dirty>>
idle_publish(c) ==
  /\ FIn(c, "idlepublish") /\ finish_claim(fcall[c].claimed, fcall[c].frames) /\ FDone(c)
  /\ UNCHANGED <<allocator, users, dirty>>

frame_inc_ref(c, f) ==
  /\ FIn(c, "idle") /\ users[f] \in 1 .. MaxRef - 1
  /\ ref_counts' = [ref_counts EXCEPT ![f] = @ + 1] /\ Give(f)
  /\ UNCHANGED <<recycled, next_novel, poolvars, fcall, dirty>>
frame_dealloc_result(c, f) ==
  /\ FIn(c, "idle") /\ users[f] > 0
  /\ SetAlloc(dealloc_frame(Alloc, f)) /\ users' = [users EXCEPT ![f] = @ - 1]
  /\ UNCHANGED <<poolvars, fcall, dirty>>
(* An owner writes to its frame.                                              *)
Write(f) == users[f] > 0 /\ dirty' = [dirty EXCEPT ![f] = TRUE] /\ UNCHANGED <<allocator, poolvars, fcall, users>>

FrNext ==
  \/ \E c \in FCpu :
       \/ frame_alloc_result(c) \/ drain(c) \/ give_back(c)
       \/ (\E keep \in BOOLEAN : take_zeroed(c, keep)) \/ claim_sync_publish_slots(c) \/ batch(c) \/ unclaim(c)
       \/ zero_frames(c) \/ publish(c) \/ claim_idle_publish_slots(c) \/ idle_batch(c) \/ idle_publish(c)
       \/ \E f \in Ppn : frame_inc_ref(c, f) \/ frame_dealloc_result(c, f)
  \/ \E f \in Ppn : Write(f)
FrSpec == FrInit /\ [][FrNext]_fvars

-----------------------------------------------------------------------------
Calls == [pc : {"idle", "drain", "giveback", "retry", "claim", "batch", "unclaim", "zero", "publish",
               "idlebatch", "idlezero", "idlepublish"},
          claimed : 0 .. Batch, frames : Seq(Ppn)]
FrTypeOK ==
  /\ next_novel \in 1 .. NFrame + 1 /\ ref_counts \in [Ppn -> 0 .. MaxRef] /\ users \in [Ppn -> 0 .. MaxRef]
  /\ recycled \in Seq(Ppn) /\ pool \in Seq(Ppn) /\ in_flight \in Nat /\ refill_active \in BOOLEAN
  /\ fcall \in [FCpu -> Calls] /\ dirty \in [Ppn -> BOOLEAN]

(* Every frame is in exactly one place, whatever the interleaving of pool and  *)
(* allocator: free, in the pool, in one CPU's batch, or with its users, whose  *)
(* references are its count; a reserved frame is nowhere.                      *)
InBatch(f) == {x \in FCpu \X (1 .. Batch) : x[2] <= Len(fcall[x[1]].frames) /\ fcall[x[1]].frames[x[2]] = f}
Places(f) ==
  Cardinality({i \in DOMAIN recycled : recycled[i] = f}) + Cardinality({i \in DOMAIN pool : pool[i] = f})
    + Cardinality(InBatch(f)) + (IF users[f] > 0 THEN 1 ELSE 0)
    + (IF f < next_novel /\ f \notin Reserved THEN 1 ELSE 0)
FramePartition ==
  \A f \in Ppn :
    /\ Places(f) = IF f \in Reserved THEN 0 ELSE 1
    /\ ref_counts[f] = IF users[f] > 0 THEN users[f]
                       ELSE IF f \in Range(pool) \/ InBatch(f) # {} THEN 1 ELSE 0

(* What the pool hands out is zero, and it never holds, nor is promised, more   *)
(* than its capacity, though claim, batch and publish are separate steps; what  *)
(* is promised to it are the slots that the calls under way have claimed.      *)
Claims == {x \in FCpu \X (1 .. Batch) : x[2] <= fcall[x[1]].claimed}
PoolSound ==
  /\ \A i \in DOMAIN pool : ~dirty[pool[i]]
  /\ Len(pool) + in_flight <= Capacity
  /\ in_flight = Cardinality(Claims)

(* Every frame is free, pooled, in one batch, or with users whose references    *)
(* are its count; the pool is zeroed and never over its capacity.             *)
FramesAccounted == FramePartition /\ PoolSound
=============================================================================
