------------------------------ MODULE TimerFd ------------------------------
(***************************************************************************)
(* timerfd (sys/time/timerfd.rs).  Expirations are settled when somebody      *)
(* looks (refresh); a read reserves the count, copies it and commits or gives *)
(* it back, and a timerfd_settime between starts a new generation.  Every     *)
(* call reads the clock before it takes the lock.                            *)
(***************************************************************************)
EXTENDS Integers

CONSTANTS RTask,     \* tasks with the descriptor open
          TfMaxNow,  \* bound of the clock
          TfMaxSpan, \* longest value and interval
          TfMaxGen   \* bound of the generations

VARIABLES clock, tf,
          rcall,     \* rcall[t]: where t is, the clock or the reservation it holds
          told       \* expirations of this generation that a reader has got
tfvars == <<clock, tf, rcall, told>>

None == -1
NoRead == [by |-> 0, gen |-> 0, n |-> 0]
Forever == 1000
Idle == [pc |-> "user", at |-> 0, until |-> 0]
RGoto(t, l, at, until) == rcall' = [rcall EXCEPT ![t] = [pc |-> l, at |-> at, until |-> until]]

TfTypeOK ==
  /\ clock \in 0 .. TfMaxNow /\ told \in Nat
  /\ tf.next \in None .. TfMaxNow + 2 * TfMaxSpan /\ tf.pending \in Nat /\ tf.gen \in 1 .. TfMaxGen
  /\ \A t \in RTask : rcall[t].pc \in {"user", "read", "block", "sleep", "copy", "set", "wake"}
TfInit ==
  /\ clock = 0 /\ told = 0
  /\ tf = [next |-> None, interval |-> 0, pending |-> 0, gen |-> 1, res |-> NoRead, first |-> None]
  /\ rcall = [t \in RTask |-> Idle]

(* Time passes; a sleeper whose ticks are over looks again.                    *)
Advance ==
  /\ clock < TfMaxNow /\ clock' = clock + 1
  /\ rcall' = [t \in RTask |-> IF rcall[t].pc = "sleep" /\ rcall[t].until <= clock'
                               THEN [Idle EXCEPT !.pc = "read", !.at = clock'] ELSE rcall[t]]
  /\ UNCHANGED <<tf, told>>

refresh(s, now) ==
  LET k == IF s.interval = 0 THEN 1 ELSE 1 + (now - s.next) \div s.interval IN
  IF s.next = None \/ now < s.next THEN s
  ELSE [s EXCEPT !.pending = @ + k, !.next = IF s.interval = 0 THEN None ELSE @ + k * s.interval]
now_ns(t) ==
  /\ rcall[t].pc = "user" /\ \E l \in {"read", "set"} : RGoto(t, l, clock, 0)
  /\ UNCHANGED <<clock, tf, told>>
reserve_read(t) ==
  LET s == refresh(tf, rcall[t].at)
      ticks == IF s.next = None THEN Forever
               ELSE IF s.next > rcall[t].at THEN s.next ELSE rcall[t].at + 1 IN
  /\ rcall[t].pc = "read"
  /\ IF s.res = NoRead /\ s.pending # 0
     THEN /\ tf' = [s EXCEPT !.res = [by |-> t, gen |-> s.gen, n |-> s.pending], !.pending = 0]
          /\ RGoto(t, "copy", 0, 0)
     ELSE tf' = s /\ \/ RGoto(t, "block", 0, ticks)
                     \/ RGoto(t, "user", 0, 0)            \* nonblocking
  /\ UNCHANGED <<clock, told>>
(* should_wait under the scheduler's lock; the timeout is the one read before. *)
should_wait(t) ==
  LET s == refresh(tf, clock) IN
  /\ rcall[t].pc = "block" /\ tf' = s
  /\ IF s.res # NoRead \/ s.pending = 0 THEN RGoto(t, "sleep", 0, rcall[t].until)
     ELSE RGoto(t, "read", clock, 0)
  /\ UNCHANGED <<clock, told>>
(* finish and the drop of a lease that was not finished (cancel_read).         *)
finish_read(t, commit) ==
  /\ rcall[t].pc = "copy" /\ tf.res.by = t
  /\ tf' = [tf EXCEPT !.pending = IF ~commit /\ tf.res.gen = tf.gen THEN @ + tf.res.n ELSE @,
                      !.res = NoRead]
  /\ told' = IF commit /\ tf.res.gen = tf.gen THEN told + tf.res.n ELSE told
  /\ RGoto(t, "wake", 0, 0) /\ UNCHANGED clock
cancel_read(t) == finish_read(t, FALSE)
settime(t, value, interval, absolute) ==
  LET now == rcall[t].at
      d == IF value = 0 THEN None ELSE IF absolute THEN value ELSE now + value
      new == [tf EXCEPT !.gen = @ + 1, !.pending = 0, !.interval = interval, !.next = d, !.first = d] IN
  /\ rcall[t].pc = "set" /\ tf.gen < TfMaxGen
  /\ tf' = refresh(new, now) /\ told' = 0
  /\ RGoto(t, "wake", 0, 0) /\ UNCHANGED clock
(* poll, timerfd_gettime. *)
ready(t) ==
  /\ rcall[t].pc = "read" /\ tf' = refresh(tf, rcall[t].at) /\ RGoto(t, "user", 0, 0)
  /\ UNCHANGED <<clock, told>>
wake_all(t) ==
  /\ rcall[t].pc = "wake"
  /\ rcall' = [u \in RTask |-> IF u = t THEN Idle
                               ELSE IF rcall[u].pc = "sleep" THEN [Idle EXCEPT !.pc = "read", !.at = clock]
                               ELSE rcall[u]]
  /\ UNCHANGED <<clock, tf, told>>
Interrupted(t) ==
  /\ rcall[t].pc = "sleep" /\ RGoto(t, "user", 0, 0) /\ UNCHANGED <<clock, tf, told>>

TfNext ==
  \/ Advance
  \/ \E t \in RTask :
       \/ now_ns(t) \/ reserve_read(t) \/ should_wait(t) \/ finish_read(t, TRUE) \/ cancel_read(t)
       \/ ready(t) \/ wake_all(t) \/ Interrupted(t)
       \/ \E v, i \in 0 .. TfMaxSpan, abs \in BOOLEAN : settime(t, v, i, abs)
TfSpec == TfInit /\ [][TfNext]_tfvars

-----------------------------------------------------------------------------
(* Expirations are exact: those told, reserved and pending together are the    *)
(* periods that the deadline has moved past since the last timerfd_settime,    *)
(* and a copy that faults across a settime does not bring old ones back.       *)
Passed == IF tf.first = None THEN 0
          ELSE IF tf.next = None THEN 1
          ELSE IF tf.interval = 0 THEN 0 ELSE (tf.next - tf.first) \div tf.interval
ExpirationsExact ==
  told + tf.pending + (IF tf.res # NoRead /\ tf.res.gen = tf.gen THEN tf.res.n ELSE 0) = Passed

(* A reader asleep on an idle descriptor wakes by the next expiration: its     *)
(* timeout is no later, or a wake_all is on its way.                         *)
SleepEndsByDeadline ==
  \A t \in RTask : (rcall[t].pc = "sleep" /\ tf.res = NoRead /\ tf.next # None) =>
    rcall[t].until <= tf.next \/ \E u \in RTask : rcall[u].pc = "wake"
=============================================================================
