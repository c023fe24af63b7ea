--------------------------------- MODULE Pipe ---------------------------------
(***************************************************************************)
(* A pipe or FIFO: the ring buffer with its segments and its read           *)
(* reservation (kernel_pipe.rs), and the endpoints (endpoint.rs).  A        *)
(* handler changes the state under the pipe's lock and calls wake_all after *)
(* it has released it; a sleeper's condition is evaluated again under the   *)
(* scheduler's lock.  The bytes are numbered modulo Mod in the order they   *)
(* are written, so that their order can be told.                           *)
(***************************************************************************)
EXTENDS Integers, Sequences, FiniteSets, SequencesExt

CONSTANTS PTask,    \* tasks
          PCap,     \* capacities set_capacity may set; the first is the default
          PBuf,     \* PIPE_BUF
          PMaxLen,  \* the longest read and write
          PModes,   \* of O_DIRECT, TRUE for packets: what pipe2 is called with
          POps      \* the calls user code makes in this instance

(* A capacity is a number of bytes above 0 and there is a largest one, with    *)
(* which a pipe begins.                                                      *)
ASSUME PipeAssumption ==
  /\ IsFiniteSet(PTask) /\ PModes \subseteq BOOLEAN /\ PMaxLen \in Nat /\ PBuf \in Nat \ {0}
  /\ PCap \subseteq Nat \ {0} /\ \E c \in PCap : \A d \in PCap : d <= c

VARIABLES buf, cap, segments,
          direct,        \* the pipe was created with O_DIRECT; F_SETFL cannot change it
          reservation,   \* of the reader that is copying, NoRes if none
          refs,          \* read_refs and write_refs
          open,          \* read_open and write_open
          seq,           \* number of the next byte written
          task,          \* task[t]: the call t is in, what it holds
          ends,          \* the endpoints t owns
          todo,          \* the wake_all calls t still has to make
          out            \* what the last finished read returned
pvars == <<buf, cap, segments, direct, reservation, refs, open, seq, task, ends, todo, out>>
state == <<buf, cap, segments, direct, reservation, refs, open, seq, out>>

Mod == 5
NoRes == [id |-> 0, exposed |-> 0, consume |-> 0, packet |-> FALSE]
Off == [pc |-> "user", n |-> 0, id |-> 0, data |-> <<>>]
PMin(a, b) == IF a < b THEN a ELSE b
PMax(S) == CHOOSE x \in S : \A y \in S : y <= x
Ends == {"r", "w"}

PTypeOK ==
  /\ buf \in BoundedSeq(0 .. Mod - 1, PMax(PCap)) /\ cap \in PCap /\ Len(buf) <= cap
  /\ \A i \in 1 .. Len(segments) : segments[i].len \in 1 .. cap /\ segments[i].packet \in BOOLEAN
  /\ refs \in [Ends -> 0 .. Cardinality(PTask)] /\ open \in [Ends -> BOOLEAN]
  /\ seq \in 0 .. Mod - 1 /\ ends \in [PTask -> SUBSET Ends]
  /\ \A t \in PTask : /\ task[t].pc \in {"user", "read", "rsleep", "rblocked", "lease", "lsleep",
                            "lblocked", "held", "write", "wsleep", "wblocked",
                            "openr", "openrblocked", "openw", "openwblocked"}
                      /\ task[t].n \in 0 .. PMaxLen /\ todo[t] \in BoundedSeq(Ends, 2)

Fifo == "fifo" \in POps
PInit ==
  /\ direct \in PModes /\ (Fifo => ~direct)
  /\ buf = <<>> /\ cap = PMax(PCap) /\ segments = <<>> /\ reservation = NoRes /\ out = <<>>
  /\ seq = 0 /\ task = [t \in PTask |-> Off] /\ todo = [t \in PTask |-> <<>>]
  /\ \/ Fifo /\ ends = [t \in PTask |-> {}]
     \/ ~Fifo /\ \E t \in PTask : ends = [u \in PTask |-> IF u = t THEN Ends ELSE {}]
  /\ refs = [e \in Ends |-> Cardinality({t \in PTask : e \in ends[t]})]
  /\ open = [e \in Ends |-> refs[e] # 0]

free_len_one_more == cap - Len(buf) + 1
free_len == cap - Len(buf)
is_empty == buf = <<>>
is_full == Len(buf) = cap
Idle(t) == todo[t] = <<>>
At(t, p) == Idle(t) /\ task[t].pc = p
Go(t, p) == task' = [task EXCEPT ![t].pc = p]
Start(t, p, n) == task' = [task EXCEPT ![t] = [Off EXCEPT !.pc = p, !.n = n]]
End(t) == task' = [task EXCEPT ![t] = Off]
Wake(t, q) == todo' = [todo EXCEPT ![t] = q]

(* wake_all of one of the two queues, outside the pipe's lock. *)
Asleep(e) == IF e = "r" THEN {"rblocked", "lblocked", "openrblocked"}
             ELSE {"wblocked", "openwblocked"}
Awake(p) == CASE p = "rblocked" -> "read" [] p = "lblocked" -> "lease" [] p = "wblocked" -> "write"
              [] OTHER -> "user"
wake_all(t) ==
  /\ ~Idle(t)
  /\ task' = [u \in PTask |-> IF task[u].pc \in Asleep(Head(todo[t]))
                              THEN [task[u] EXCEPT !.pc = Awake(@)] ELSE task[u]]
  /\ todo' = [todo EXCEPT ![t] = Tail(@)]
  /\ UNCHANGED state /\ UNCHANGED ends

-----------------------------------------------------------------------------
(* The ring buffer. *)
read_plan(max) ==
  LET s == Head(segments)
      x == IF segments = <<>> THEN 0 ELSE PMin(s.len, max)
  IN [exposed |-> x, consume |-> IF x > 0 /\ s.packet THEN s.len ELSE x,
      packet |-> segments # <<>> /\ s.packet]
copy_head(n) == SubSeq(buf, 1, n)
consume_all(n) == buf' = <<>> /\ segments' = <<>>
consume(n) ==        \* never more than the first segment: a plan stays within it
  /\ buf' = SubSeq(buf, n + 1, Len(buf))
  /\ segments' = IF n = 0 THEN segments
                 ELSE IF n = Head(segments).len THEN Tail(segments)
                 ELSE [segments EXCEPT ![1].len = @ - n]
record_segment(n) ==
  LET k == Len(segments) IN
  IF ~direct /\ k > 0 /\ ~segments[k].packet THEN [segments EXCEPT ![k].len = @ + n]
  ELSE Append(segments, [len |-> n, packet |-> direct])
write_from(n) ==
  /\ buf' = buf \o [i \in 1 .. n |-> (seq + i - 1) % Mod]
  /\ seq' = (seq + n) % Mod /\ segments' = record_segment(n)

-----------------------------------------------------------------------------
(* Reading: try_read in a loop around the wait. *)
read(t, n) == /\ "read" \in POps /\ At(t, "user") /\ "r" \in ends[t] /\ Start(t, "read", n)
              /\ UNCHANGED <<ends, todo>> /\ UNCHANGED state
read_blocked == reservation # NoRes \/ (is_empty /\ open["w"])
try_read(t) ==
  /\ At(t, "read")
  /\ \/ /\ read_blocked /\ Go(t, "rsleep") /\ UNCHANGED todo /\ UNCHANGED state
     \/ /\ ~read_blocked /\ is_empty /\ End(t) /\ UNCHANGED todo /\ UNCHANGED state
     \/ /\ ~read_blocked /\ ~is_empty
        /\ LET p == read_plan(task[t].n) IN out' = copy_head(p.exposed) /\ consume(p.consume)
        /\ End(t) /\ Wake(t, <<"w">>)
        /\ UNCHANGED <<cap, direct, reservation, refs, open, seq>>
  /\ UNCHANGED ends
(* wait_current_while on the read queue, for read, the lease and poll. *)
ReadSleep_unchecked(t) ==
  /\ At(t, "rsleep") /\ Go(t, "rblocked") /\ UNCHANGED <<ends, todo>> /\ UNCHANGED state
ReadSleep(t) ==
  /\ At(t, "rsleep") /\ Go(t, IF read_blocked THEN "rblocked" ELSE "read")
  /\ UNCHANGED <<ends, todo>> /\ UNCHANGED state
LeaseSleep(t) ==
  /\ At(t, "lsleep") /\ Go(t, IF read_blocked THEN "lblocked" ELSE "lease")
  /\ UNCHANGED <<ends, todo>> /\ UNCHANGED state

(* The lease: the head is copied out under the lock and stays reserved until *)
(* the copy to user space is finished or given up.                          *)
read_lease(t, n) ==
  /\ "lease" \in POps /\ At(t, "user") /\ "r" \in ends[t] /\ Start(t, "lease", n)
  /\ UNCHANGED <<ends, todo>> /\ UNCHANGED state
FreshId == CHOOSE i \in 1 .. Cardinality(PTask) + 1 : \A u \in PTask : task[u].id # i
begin_read(t) ==
  LET p == read_plan(task[t].n) IN
  /\ reservation' = [id |-> FreshId, exposed |-> p.exposed, consume |-> p.consume,
                     packet |-> p.packet]
  /\ task' = [task EXCEPT ![t] = [@ EXCEPT !.pc = "held", !.id = FreshId,
                                           !.data = copy_head(p.exposed)]]
acquire_read_lease(t) ==
  /\ At(t, "lease")
  /\ \/ read_blocked /\ Go(t, "lsleep") /\ UNCHANGED reservation
     \/ ~read_blocked /\ is_empty /\ End(t) /\ UNCHANGED reservation
     \/ ~read_blocked /\ ~is_empty /\ begin_read(t)
  /\ UNCHANGED <<ends, todo, buf, cap, direct, segments, refs, open, seq, out>>

(* What a finish takes: all of a packet unless nothing was copied. *)
Taken(copied, complete) ==
  IF ~reservation.packet THEN copied
  ELSE IF complete \/ copied > 0 THEN reservation.consume ELSE 0
finish_read(t, copied) ==
  LET complete == copied = Len(task[t].data)
      n == Taken(copied, complete)
      got == copied > 0 /\ (complete \/ ~reservation.packet)
  IN
  /\ At(t, "held") /\ reservation.id = task[t].id
  /\ reservation' = NoRes /\ consume(n)
  /\ out' = IF got THEN SubSeq(task[t].data, 1, copied) ELSE out
  /\ Wake(t, IF n > 0 THEN <<"r", "w">> ELSE <<"r">>) /\ End(t)
  /\ UNCHANGED <<ends, cap, direct, refs, open, seq>>
cancel_read(t) ==
  /\ At(t, "held") /\ Wake(t, <<"r", "w">>) /\ End(t)
  /\ reservation' = IF reservation.id = task[t].id THEN NoRes ELSE reservation
  /\ UNCHANGED <<ends, buf, cap, direct, segments, refs, open, seq, out>>

-----------------------------------------------------------------------------
(* Writing, a stream or packets of at most PIPE_BUF. *)
write(t, n) == /\ "write" \in POps /\ At(t, "user") /\ "w" \in ends[t] /\ Start(t, "write", n)
               /\ UNCHANGED <<ends, todo>> /\ UNCHANGED state
packet_len(n) == PMin(PMin(n, PBuf), cap)
try_write_mode(t) ==
  LET n == IF direct THEN packet_len(task[t].n) ELSE PMin(task[t].n, free_len) IN
  /\ At(t, "write") /\ open["r"] /\ ~is_full /\ free_len >= n
  /\ write_from(n) /\ Wake(t, <<"r">>)
  /\ task' = [task EXCEPT ![t] = IF @.n = n THEN Off ELSE [@ EXCEPT !.n = task[t].n - n]]
  /\ UNCHANGED <<ends, cap, direct, reservation, refs, open, out>>
BrokenPipe(t) ==
  /\ At(t, "write") /\ ~open["r"] /\ End(t)
  /\ UNCHANGED <<ends, todo>> /\ UNCHANGED state
WouldBlock(t) ==
  /\ At(t, "write") /\ open["r"]
  /\ is_full \/ (direct /\ free_len < packet_len(task[t].n))
  /\ Go(t, "wsleep")
  /\ UNCHANGED <<ends, todo>> /\ UNCHANGED state
write_blocked(t) == free_len < (IF direct THEN packet_len(task[t].n) ELSE 1) /\ open["r"]
write_mode(t) ==
  /\ At(t, "wsleep") /\ Go(t, IF write_blocked(t) THEN "wblocked" ELSE "write")
  /\ UNCHANGED <<ends, todo>> /\ UNCHANGED state

(* A signal: the call ends, with what it has written so far. *)
Interrupted(t) ==
  /\ "signal" \in POps /\ task[t].pc \in Asleep("r") \cup Asleep("w") /\ End(t)
  /\ LET e == IF task[t].pc = "openrblocked" THEN "r" ELSE "w"
         failed == task[t].pc \in {"openrblocked", "openwblocked"} IN
     IF failed THEN /\ ends' = [ends EXCEPT ![t] = @ \ {e}]
                    /\ refs' = [refs EXCEPT ![e] = @ - 1]
                    /\ open' = [open EXCEPT ![e] = refs[e] # 1]
                    /\ reservation' = IF e = "r" /\ refs[e] = 1 THEN NoRes ELSE reservation
                    /\ Wake(t, IF refs[e] # 1 THEN <<>> ELSE IF e = "r" THEN <<"r", "w">> ELSE <<"r">>)
               ELSE UNCHANGED <<ends, refs, open, reservation, todo>>
  /\ UNCHANGED <<buf, cap, direct, segments, seq, out>>

set_capacity(t, c) ==
  /\ "setcap" \in POps /\ At(t, "user") /\ ends[t] # {} /\ is_empty
  /\ cap' = c /\ segments' = <<>>
  /\ UNCHANGED <<buf, direct, reservation, refs, open, seq, task, ends, todo, out>>

-----------------------------------------------------------------------------
(* Endpoints.  acquire: a clone inherited by fork, or the open of a FIFO,     *)
(* which then waits for the other side.                                      *)
acquire(t, e) ==
  /\ refs' = [refs EXCEPT ![e] = @ + 1] /\ open' = [open EXCEPT ![e] = TRUE]
  /\ ends' = [ends EXCEPT ![t] = @ \cup {e}]
  /\ Wake(t, IF refs[e] # 0 THEN <<>> ELSE IF e = "r" THEN <<"w">> ELSE <<"r">>)
  /\ UNCHANGED <<buf, cap, direct, segments, reservation, seq, out>>
Clone(t, u, e) ==
  /\ "fork" \in POps /\ At(t, "user") /\ e \in ends[u] /\ e \notin ends[t]
  /\ acquire(t, e) /\ UNCHANGED task
open_read(t) ==
  /\ Fifo /\ At(t, "user") /\ "r" \notin ends[t] /\ acquire(t, "r") /\ Go(t, "openr")
open_write(t) ==
  /\ Fifo /\ At(t, "user") /\ "w" \notin ends[t] /\ acquire(t, "w") /\ Go(t, "openw")
wait_for_writer(t) ==
  /\ At(t, "openr") /\ Go(t, IF refs["w"] = 0 THEN "openrblocked" ELSE "user")
  /\ UNCHANGED <<ends, todo>> /\ UNCHANGED state
wait_for_reader(t) ==
  /\ At(t, "openw") /\ Go(t, IF refs["r"] = 0 THEN "openwblocked" ELSE "user")
  /\ UNCHANGED <<ends, todo>> /\ UNCHANGED state
(* The last reader also gives up the reservation. *)
release_read(t) ==
  /\ "close" \in POps /\ At(t, "user") /\ "r" \in ends[t]
  /\ ends' = [ends EXCEPT ![t] = @ \ {"r"}] /\ refs' = [refs EXCEPT !["r"] = @ - 1]
  /\ IF refs["r"] = 1 THEN /\ open' = [open EXCEPT !["r"] = FALSE] /\ reservation' = NoRes
                           /\ Wake(t, <<"r", "w">>)
     ELSE UNCHANGED <<open, reservation, todo>>
  /\ UNCHANGED <<buf, cap, direct, segments, seq, out, task>>
release_write(t) ==
  /\ "close" \in POps /\ At(t, "user") /\ "w" \in ends[t]
  /\ ends' = [ends EXCEPT ![t] = @ \ {"w"}] /\ refs' = [refs EXCEPT !["w"] = @ - 1]
  /\ IF refs["w"] = 1 THEN open' = [open EXCEPT !["w"] = FALSE] /\ Wake(t, <<"r">>)
     ELSE UNCHANGED <<open, todo>>
  /\ UNCHANGED <<buf, cap, direct, segments, reservation, seq, out, task>>

-----------------------------------------------------------------------------
PCalls(t) ==
  \/ \E n \in 1 .. PMaxLen : read(t, n) \/ read_lease(t, n) \/ write(t, n)
  \/ \E n \in 0 .. Len(task[t].data) : finish_read(t, n)
  \/ \E c \in PCap : set_capacity(t, c)
  \/ \E u \in PTask, e \in Ends : Clone(t, u, e)
  \/ open_read(t) \/ open_write(t) \/ release_read(t) \/ release_write(t)
PSteps(t) ==
  \/ wake_all(t) \/ try_read(t) \/ ReadSleep(t) \/ acquire_read_lease(t) \/ LeaseSleep(t)
  \/ cancel_read(t) \/ try_write_mode(t) \/ BrokenPipe(t) \/ WouldBlock(t)
  \/ write_mode(t) \/ wait_for_writer(t) \/ wait_for_reader(t)
PNext == \E t \in PTask : PCalls(t) \/ PSteps(t) \/ Interrupted(t)
PSpec == PInit /\ [][PNext]_pvars

-----------------------------------------------------------------------------
(* Nobody sleeps on what is already there: a blocked reader whose condition   *)
(* has become false, or a blocked writer with room or without a reader, is   *)
(* about to be woken by a task that has released the pipe's lock and not yet *)
(* called wake_all.                                                          *)
Owed(e) == \E u \in PTask : \E i \in 1 .. Len(todo[u]) : todo[u][i] = e
NoSleeperForgotten ==
  \A t \in PTask :
    /\ (task[t].pc \in {"rblocked", "lblocked"} /\ ~read_blocked) => Owed("r")
    /\ (task[t].pc = "wblocked" /\ ~write_blocked(t)) => Owed("w")

(* The pipe implements the bounded channel: what a reader is given is what    *)
(* leaves the buffer, in order, even while another reader closes, cancels or *)
(* tries to read in the middle of a lease.                                   *)
Stream == INSTANCE ByteStream WITH chan <- buf, Bound <- PMax(PCap), lossy <- direct
ImplementsStream == Stream!Spec

(* A reader is told end of file, and a writer EPIPE, only when nobody holds    *)
(* the other end: the open flags agree with the endpoints that exist.         *)
OpenAgrees ==
  \A e \in Ends : /\ refs[e] = Cardinality({t \in PTask : e \in ends[t]})
                  /\ open[e] <=> refs[e] # 0
PipeSound == OpenAgrees /\ NoSleeperForgotten
=============================================================================
