-------------------------------- MODULE Futex --------------------------------
(***************************************************************************)
(* Futexes: FutexRegistry, the wait, wake and requeue services over it, and *)
(* the handlers of the futex system call.  The registry's lock and the      *)
(* scheduler's lock are never held together: a wait or a wake takes first   *)
(* the one, then the other, then the first again, and one step below is one *)
(* critical section.  User code follows the usual protocol: it changes a    *)
(* word and then wakes everybody who waits on it.                           *)
(*                                                                         *)
(* The two sequence numbers a waiter compares before it sleeps (of the      *)
(* queue and its own) are abstracted to hit[t]: one of them has moved since *)
(* t read them.                                                            *)
(***************************************************************************)
EXTENDS Integers, Sequences, FiniteSets, FiniteSetsExt, SequencesExt

CONSTANTS FTask,    \* tasks, 1..n
          FKey,     \* futex words, 1..m
          FOps      \* the operations user code uses in this instance

VARIABLES word,     \* user memory
          call,     \* call[t]: where t's system call is, and its arguments
          reg,      \* waiting_tasks: the key and the bitset t is registered with
          hit,      \* a wake sequence t has read has moved since
          users,    \* active_users of each queue
          queue     \* the scheduler's wait queue of each key, "none" if there is none
fvars == <<word, call, reg, hit, users, queue>>

NoReg == [key |-> 0, bits |-> 0]
NoCall == [pc |-> "user", key |-> 0, to |-> 0, n |-> 0, bits |-> 0, val |-> 0, sel |-> {}]
FPCs == {"user", "wait", "reg", "sleep", "blocked", "ret", "stored", "wake", "bump", "loop",
         "pick", "done", "requeue", "move", "moved", "dead"}

FTypeOK ==
  /\ word \in [FKey -> 0 .. 1] /\ hit \in [FTask -> BOOLEAN]
  /\ \A t \in FTask : /\ call[t].pc \in FPCs /\ call[t].key \in FKey \cup {0}
                      /\ call[t].to \in FKey \cup {0} /\ call[t].sel \subseteq FTask
                      /\ reg[t].key \in FKey \cup {0} /\ reg[t].bits \in 0 .. 1
  /\ users \in [FKey -> 0 .. 2 * Cardinality(FTask)]
  /\ \A k \in FKey : queue[k].live \in BOOLEAN /\ queue[k].q \in BoundedSeq(FTask, Cardinality(FTask))

FInit ==
  /\ word = [k \in FKey |-> 0] /\ call = [t \in FTask |-> NoCall]
  /\ reg = [t \in FTask |-> NoReg] /\ hit = [t \in FTask |-> FALSE]
  /\ users = [k \in FKey |-> 0] /\ queue = [k \in FKey |-> [live |-> FALSE, q |-> <<>>]]

At(t, p) == call[t].pc = p
Goto(t, p) == call' = [call EXCEPT ![t].pc = p]
Return(t) == call' = [call EXCEPT ![t] = NoCall]

-----------------------------------------------------------------------------
(* The registry, as functions of <<users, queue, reg>>. *)
cleanup_empty_queue(R, k) ==
  IF R.users[k] = 0 /\ R.queue[k].q = <<>> THEN [R EXCEPT !.queue[k].live = FALSE] ELSE R
release_queue(R, k) == cleanup_empty_queue([R EXCEPT !.users[k] = IF @ = 0 THEN 0 ELSE @ - 1], k)
acquire_queue(R, k) == [R EXCEPT !.users[k] = @ + 1, !.queue[k].live = TRUE]
register_waiting_task(R, t, k, bits) ==
  LET S == [R EXCEPT !.reg[t] = [key |-> k, bits |-> bits]]
  IN IF R.reg[t] = NoReg THEN S ELSE release_queue(S, R.reg[t].key)
finish_waiting_task(R, t, k) ==
  IF R.reg[t].key = k THEN release_queue([R EXCEPT !.reg[t] = NoReg], k) ELSE R
cancel_waiting_task(R, t) ==
  IF R.reg[t] = NoReg THEN R ELSE release_queue([R EXCEPT !.reg[t] = NoReg], R.reg[t].key)
(* The registered tasks of k whose bitset meets the waker's, lowest ids first. *)
matching_waiters(k, max) ==
  LET M == {t \in FTask : reg[t].key = k /\ reg[t].bits # 0}
  IN {t \in M : Cardinality({u \in M : u < t}) < max}
(* Only the registrations that still name the source follow their tasks. *)
migrate_waiting_tasks(R, M, from, to) ==
  LET S == {t \in M : R.reg[t].key = from}
      moved == [R EXCEPT !.reg = [t \in FTask |-> IF t \in S THEN [R.reg[t] EXCEPT !.key = to]
                                                  ELSE R.reg[t]],
                         !.users[to] = @ + Cardinality(S),
                         !.users[from] = @ - Cardinality(S)]
  IN IF S = {} THEN R ELSE cleanup_empty_queue(moved, from)

Registry == [users |-> users, queue |-> queue, reg |-> reg]
Update(R) == users' = R.users /\ queue' = R.queue /\ reg' = R.reg
SameRegistry == UNCHANGED <<users, queue, reg>>

-----------------------------------------------------------------------------
(* FUTEX_WAIT and FUTEX_WAIT_BITSET.  The word is compared before the        *)
(* registration, after it, and never under the scheduler's lock.            *)
futex_wait(t, k, bits) ==
  /\ "wait" \in FOps /\ At(t, "user")
  /\ call' = [call EXCEPT ![t] = [NoCall EXCEPT !.pc = "wait", !.key = k, !.bits = bits,
                                                !.val = word[k]]]
  /\ UNCHANGED <<word, hit>> /\ SameRegistry

(* wait_while: register and read both sequences in one critical section. *)
Register(t) ==
  LET k == call[t].key IN
  /\ At(t, "wait")
  /\ IF word[k] # call[t].val THEN Return(t) /\ SameRegistry /\ UNCHANGED hit
     ELSE /\ Goto(t, "reg") /\ hit' = [hit EXCEPT ![t] = FALSE]
          /\ Update(register_waiting_task(acquire_queue(Registry, k), t, k, call[t].bits))
  /\ UNCHANGED word
wait_while(t) ==
  /\ At(t, "reg")
  /\ IF word[call[t].key] # call[t].val
     THEN Return(t) /\ Update(finish_waiting_task(Registry, t, call[t].key))
     ELSE Goto(t, "sleep") /\ SameRegistry
  /\ UNCHANGED <<word, hit>>
(* Under the scheduler's lock: sleep unless a sequence has moved. *)
Sleep(t) ==
  /\ At(t, "sleep")
  /\ IF hit[t] THEN Goto(t, "ret") /\ UNCHANGED queue
     ELSE Goto(t, "blocked") /\ queue' = [queue EXCEPT ![call[t].key].q = Append(@, t)]
  /\ UNCHANGED <<word, hit, users, reg>>
(* A timeout or a signal takes the task out of whatever queue it is in now. *)
Without(Q, S) == [k \in FKey |-> [Q[k] EXCEPT !.q = SelectSeq(@, LAMBDA u : u \notin S)]]
TimedOut(t) ==
  /\ "timeout" \in FOps /\ At(t, "blocked") /\ Goto(t, "ret") /\ queue' = Without(queue, {t})
  /\ UNCHANGED <<word, hit, users, reg>>
(* The registration ends if it still names the key of the call. *)
FinishWait(t) ==
  /\ At(t, "ret") /\ Return(t) /\ Update(finish_waiting_task(Registry, t, call[t].key))
  /\ UNCHANGED <<word, hit>>

-----------------------------------------------------------------------------
(* The protocol's writer: change the word, then wake everybody. *)
Store(t, k) ==
  /\ "store" \in FOps /\ At(t, "user")
  /\ word' = [word EXCEPT ![k] = 1 - @]
  /\ call' = [call EXCEPT ![t] = [NoCall EXCEPT !.pc = "stored", !.key = k,
                                                !.n = Cardinality(FTask)]]
  /\ UNCHANGED hit /\ SameRegistry
(* FUTEX_WAKE_OP: change the second word, wake on the first, then, if the     *)
(* comparison of the old value holds, on the second.  User code that        *)
(* changes the word asks for a comparison that holds.                       *)
futex_wake_op(t, k, k2, d, holds) ==
  /\ "wakeop" \in FOps /\ At(t, "user") /\ k # k2 /\ (d = 1 => holds)
  /\ word' = [word EXCEPT ![k2] = (@ + d) % 2]
  /\ call' = [call EXCEPT ![t] = [NoCall EXCEPT !.pc = "stored", !.key = k, !.n = 1,
                                                !.to = IF holds THEN k2 ELSE 0]]
  /\ UNCHANGED hit /\ SameRegistry

(* FUTEX_WAKE and FUTEX_WAKE_BITSET. *)
futex_wake(t, k, n) ==
  /\ "wake" \in FOps /\ At(t, "user")
  /\ call' = [call EXCEPT ![t] = [NoCall EXCEPT !.pc = "wake", !.key = k, !.n = n]]
  /\ UNCHANGED <<word, hit>> /\ SameRegistry
NextWake(t) == call' = [call EXCEPT ![t] = IF @.to = 0 THEN NoCall
                          ELSE [NoCall EXCEPT !.pc = "stored", !.key = call[t].to,
                                              !.n = Cardinality(FTask)]]
(* wake: take a reference to an existing queue, ... *)
acquire_existing_queue(t) ==
  LET k == call[t].key IN
  /\ call[t].pc \in {"stored", "wake"}
  /\ IF queue[k].live
     THEN Goto(t, "bump") /\ Update([Registry EXCEPT !.users[k] = @ + 1])
     ELSE NextWake(t) /\ SameRegistry
  /\ UNCHANGED <<word, hit>>
(* ... publish the wake to those on their way to sleep, ... *)
OnQueue(k) == {t \in FTask : call[t].pc \in {"reg", "sleep"} /\ call[t].key = k}
Bump(t) ==
  /\ At(t, "bump") /\ Goto(t, "loop")
  /\ hit' = [u \in FTask |-> hit[u] \/ u \in OnQueue(call[t].key)]
  /\ UNCHANGED word /\ SameRegistry
(* ... wake one after the other, and give the reference back. *)
wake(t) ==
  LET q == queue[call[t].key].q IN
  /\ At(t, "loop")
  /\ IF call[t].n = 0 \/ q = <<>> THEN Goto(t, "done") /\ UNCHANGED queue
     ELSE /\ call' = [call EXCEPT ![t].n = @ - 1, ![Head(q)].pc = "ret"]
          /\ queue' = Without(queue, {Head(q)})
  /\ UNCHANGED <<word, hit, users, reg>>
ReleaseAfterWake(t) ==
  /\ At(t, "done") /\ NextWake(t) /\ Update(release_queue(Registry, call[t].key))
  /\ UNCHANGED <<word, hit>>

(* wake_bitset selects from the registrations, then wakes each task wherever *)
(* it sleeps.                                                               *)
SelectWaiters(t, k, n) ==
  /\ "bitset" \in FOps /\ At(t, "user") /\ queue[k].live
  /\ call' = [call EXCEPT ![t] = [NoCall EXCEPT !.pc = "pick", !.key = k,
                                                !.sel = matching_waiters(k, n)]]
  /\ Update([Registry EXCEPT !.users[k] = @ + 1])
  /\ UNCHANGED <<word, hit>>
wake_bitset(t) ==
  /\ At(t, "pick")
  /\ IF call[t].sel = {} THEN Goto(t, "done") /\ UNCHANGED <<queue, hit>>
     ELSE LET u == Min(call[t].sel) IN
          /\ hit' = [hit EXCEPT ![u] = TRUE]
          /\ queue' = Without(queue, {u})
          /\ call' = [call EXCEPT ![t].sel = @ \ {u},
                                  ![u].pc = IF @ = "blocked" THEN "ret" ELSE @]
  /\ UNCHANGED <<word, users, reg>>

-----------------------------------------------------------------------------
(* FUTEX_REQUEUE and FUTEX_CMP_REQUEUE: wake n, move one.  The comparison is *)
(* made in the same critical section as the move.                           *)
futex_requeue(t, k, k2, n, cmp) ==
  /\ "requeue" \in FOps /\ At(t, "user") /\ k # k2 /\ queue[k].live
  /\ call' = [call EXCEPT ![t] = [NoCall EXCEPT !.pc = "requeue", !.key = k, !.to = k2, !.n = n,
                                     !.bits = IF cmp THEN 1 ELSE 0, !.val = word[k]]]
  /\ Update(acquire_queue([Registry EXCEPT !.users[k] = @ + 1], k2))
  /\ UNCHANGED <<word, hit>>
requeue_if(t) ==
  LET k == call[t].key   q == queue[k].q
      n == IF call[t].n < Len(q) THEN call[t].n ELSE Len(q)
      awake == {q[i] : i \in 1 .. n}
      moved == IF n < Len(q) THEN {q[n + 1]} ELSE {}
  IN
  /\ At(t, "requeue")
  /\ IF call[t].bits = 1 /\ word[k] # call[t].val
     THEN Goto(t, "moved") /\ UNCHANGED <<queue, hit>>
     ELSE /\ hit' = [u \in FTask |-> hit[u] \/ u \in OnQueue(k)]
          /\ queue' = [Without(queue, awake \cup moved) EXCEPT
                         ![call[t].to].q = IF moved = {} THEN @ ELSE Append(@, q[n + 1])]
          /\ call' = [u \in FTask |-> IF u \in awake THEN [call[u] EXCEPT !.pc = "ret"]
                        ELSE IF u \in moved THEN [call[u] EXCEPT !.to = call[t].to]
                        ELSE IF u = t THEN [call[t] EXCEPT !.pc = "moved", !.sel = moved]
                        ELSE call[u]]
  /\ UNCHANGED <<word, users, reg>>
MigrateAndRelease(t) ==
  LET c == call[t] IN
  /\ At(t, "moved") /\ Return(t)
  /\ Update(release_queue(release_queue(migrate_waiting_tasks(Registry, c.sel, c.key, c.to),
                                        c.key), c.to))
  /\ UNCHANGED <<word, hit>>

(* Exit: the registration a task still has is cancelled. *)
cancel_task_wait(t) ==
  /\ "exit" \in FOps /\ At(t, "user") /\ Goto(t, "dead")
  /\ Update(cancel_waiting_task(Registry, t))
  /\ UNCHANGED <<word, hit>>

-----------------------------------------------------------------------------
Calls(t) ==
  \/ \E k \in FKey, b \in 0 .. 1 : futex_wait(t, k, b)
  \/ \E k \in FKey : Store(t, k) \/ (\E n \in 0 .. 1 : futex_wake(t, k, n) \/ SelectWaiters(t, k, n))
  \/ \E k, k2 \in FKey : \E n \in 0 .. 1, c \in BOOLEAN : futex_wake_op(t, k, k2, n, c)
                                                        \/ futex_requeue(t, k, k2, n, c)
  \/ cancel_task_wait(t)
Steps(t) == \/ Register(t) \/ wait_while(t) \/ Sleep(t) \/ FinishWait(t)
            \/ acquire_existing_queue(t) \/ Bump(t) \/ wake(t) \/ ReleaseAfterWake(t)
            \/ wake_bitset(t) \/ requeue_if(t) \/ MigrateAndRelease(t)
FNext == \E t \in FTask : Calls(t) \/ Steps(t) \/ TimedOut(t)
FSpec == FInit /\ [][FNext]_fvars

-----------------------------------------------------------------------------
(* No wake is lost between the comparison and the sleep: whoever sleeps on a  *)
(* word that no longer has the value he compared it with is about to be     *)
(* woken, because the task that changed it has not finished its FUTEX_WAKE.  *)
(* (A task that was moved to another word no longer waits for its own.)     *)
Waking(t, k) == \/ call[t].key = k /\ call[t].pc \in {"stored", "bump"}
                \/ call[t].key = k /\ At(t, "loop") /\ call[t].n > 0
                \/ call[t].to = k /\ call[t].pc \in {"stored", "bump", "loop", "done"}
NoLostWake ==
  \A k \in FKey : \A i \in 1 .. Len(queue[k].q) :
    LET t == queue[k].q[i] IN
    (call[t].to = 0 /\ call[t].val # word[k]) => \E u \in FTask : Waking(u, k)

(* active_users of a queue is the number of registrations with its key and of *)
(* operations under way that hold it, so its WaitQueueId is released when and *)
(* only when nobody can reach it any more.                                   *)
Holders(k) == {t \in FTask : \/ call[t].key = k /\ call[t].pc \in {"bump", "loop", "pick", "done",
                                                                  "requeue", "moved"}
                             \/ call[t].to = k /\ call[t].pc \in {"requeue", "moved"}}
UsersCounted ==
  \A k \in FKey :
    /\ users[k] = Cardinality({t \in FTask : reg[t].key = k}) + Cardinality(Holders(k))
    /\ users[k] > 0 => queue[k].live
    /\ queue[k].q # <<>> => queue[k].live

(* A task that is not in a futex wait is not registered as waiting. *)
RegistrationEnds == \A t \in FTask : At(t, "user") => reg[t] = NoReg
=============================================================================
