------------------------------ MODULE EventFd ------------------------------
(***************************************************************************)
(* eventfd2 (sys/ipc/eventfd.rs): a counter that readers take and writers add  *)
(* to.  A read is two-phase: it reserves a value under the lock, copies it to  *)
(* the user without the lock, and commits or gives back.  wake_all comes       *)
(* after the lock is released, and wait_current_while looks at the condition   *)
(* again under the scheduler's lock, so that every step below interleaves.     *)
(***************************************************************************)
EXTENDS Integers

CONSTANTS ETask,       \* tasks with the descriptor open
          MaxCounter,  \* MAX_COUNTER, u64::MAX - 1 in the code
          Semaphore    \* EFD_SEMAPHORE

VARIABLES counter, nonblocking,
          lease,       \* read_reservation: its reader and value
          ecall,       \* ecall[t]: where t is and its argument
          owed         \* written and not yet read by a user
evars == <<counter, nonblocking, lease, ecall, owed>>

Free == [by |-> 0, value |-> 0]
In(t, l) == ecall[t].pc = l
EGoto(t, l, a) == ecall' = [ecall EXCEPT ![t] = [pc |-> l, arg |-> a]]
Sleeping == {"rsleep", "wsleep", "psleep"}

ETypeOK ==
  /\ counter \in 0 .. MaxCounter /\ nonblocking \in BOOLEAN /\ owed \in Int
  /\ lease \in [by : ETask \cup {0}, value : 0 .. MaxCounter]
  /\ \A t \in ETask : ecall[t].pc \in Sleeping \cup {"user", "read", "rblock", "copy", "write", "wblock",
                                                      "pblock", "wake"}
EInit ==
  /\ counter \in 0 .. 1 /\ nonblocking = FALSE /\ lease = Free /\ owed = counter
  /\ ecall = [t \in ETask |-> [pc |-> "user", arg |-> 0]]

(* What the readers, the writers and the pollers wait for. *)
Readable == lease.by = 0 /\ counter # 0
Writable(v) == counter <= MaxCounter - v
ready(events) == (events = 1 /\ Readable) \/ (events = 2 /\ counter < MaxCounter)

Enter(t) ==
  /\ In(t, "user")
  /\ \/ EGoto(t, "read", 0)
     \/ \E v \in 0 .. MaxCounter : EGoto(t, "write", v)
     \/ \E e \in {1, 2} : ~ready(e) /\ EGoto(t, "pblock", e)
  /\ UNCHANGED <<counter, nonblocking, lease, owed>>
set_open_status_flags ==
  nonblocking' = ~nonblocking /\ UNCHANGED <<counter, lease, ecall, owed>>

reserve_read(t) ==
  /\ In(t, "read")
  /\ \/ /\ Readable
        /\ lease' = [by |-> t, value |-> IF Semaphore THEN 1 ELSE counter]
        /\ EGoto(t, "copy", 0)
     \/ /\ ~Readable /\ UNCHANGED lease
        /\ EGoto(t, IF nonblocking THEN "user" ELSE "rblock", 0)
  /\ UNCHANGED <<counter, nonblocking, owed>>
(* The copy is done, or faults and the value stays.                          *)
finish_read_resets(t, commit) ==
  /\ In(t, "copy") /\ lease.by = t
  /\ counter' = IF commit THEN 0 ELSE counter
  /\ owed' = IF commit THEN owed - lease.value ELSE owed
  /\ lease' = Free /\ EGoto(t, "wake", 0) /\ UNCHANGED nonblocking
finish_read(t, commit) ==
  /\ In(t, "copy") /\ lease.by = t
  /\ counter' = IF commit THEN counter - lease.value ELSE counter
  /\ owed' = IF commit THEN owed - lease.value ELSE owed
  /\ lease' = Free /\ EGoto(t, "wake", 0) /\ UNCHANGED nonblocking
write(t) ==
  /\ In(t, "write")
  /\ LET v == ecall[t].arg IN
     \/ /\ Writable(v) /\ counter' = counter + v /\ owed' = owed + v /\ EGoto(t, "wake", 0)
     \/ ~Writable(v) /\ EGoto(t, IF nonblocking THEN "user" ELSE "wblock", v) /\ UNCHANGED <<counter, owed>>
  /\ UNCHANGED <<nonblocking, lease>>

(* wait_current_while: the second look, then the sleep or another round.       *)
StillWaits(t) ==
  CASE In(t, "rblock") -> ~Readable
    [] In(t, "wblock") -> ~Writable(ecall[t].arg)
    [] OTHER -> ~ready(ecall[t].arg)
Asleep == [rblock |-> "rsleep", wblock |-> "wsleep", pblock |-> "psleep"]
Again == [rblock |-> "read", wblock |-> "write", pblock |-> "user",
          rsleep |-> "read", wsleep |-> "write", psleep |-> "user"]
wait_current_while(t) ==
  /\ ecall[t].pc \in DOMAIN Asleep
  /\ EGoto(t, IF StillWaits(t) THEN Asleep[ecall[t].pc] ELSE Again[ecall[t].pc], ecall[t].arg)
  /\ UNCHANGED <<counter, nonblocking, lease, owed>>
wake_all(t) ==
  /\ In(t, "wake")
  /\ ecall' = [u \in ETask |-> IF u = t THEN [pc |-> "user", arg |-> 0]
                               ELSE IF ecall[u].pc \in Sleeping
                                    THEN [ecall[u] EXCEPT !.pc = Again[@]] ELSE ecall[u]]
  /\ UNCHANGED <<counter, nonblocking, lease, owed>>
(* A signal, or the timeout of a poll.                                       *)
Interrupt(t) ==
  /\ ecall[t].pc \in Sleeping /\ EGoto(t, "user", 0) /\ UNCHANGED <<counter, nonblocking, lease, owed>>

ENext ==
  \/ \E t \in ETask : \/ Enter(t) \/ reserve_read(t) \/ (\E c \in BOOLEAN : finish_read(t, c))
                      \/ write(t) \/ wait_current_while(t) \/ wake_all(t) \/ Interrupt(t)
  \/ set_open_status_flags
ESpec == EInit /\ [][ENext]_evars

-----------------------------------------------------------------------------
(* Nothing written is lost or read twice, whatever copies fault and whatever   *)
(* is written while one is under way; a reservation never exceeds the counter. *)
Conserved ==
  /\ counter = owed /\ lease.value <= counter
  /\ lease.by # 0 => In(lease.by, "copy")

(* Nobody sleeps on a counter that is ready for it, unless a wake_all is on     *)
(* its way; wake_all comes after the unlock, so this rests on the second look. *)
NobodySleepsReady ==
  \A t \in ETask :
    (\/ In(t, "rsleep") /\ Readable
     \/ In(t, "wsleep") /\ Writable(ecall[t].arg)
     \/ In(t, "psleep") /\ ready(ecall[t].arg)) => \E u \in ETask : In(u, "wake")
=============================================================================
