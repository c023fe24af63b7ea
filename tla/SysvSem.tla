------------------------------ MODULE SysvSem ------------------------------
(***************************************************************************)
(* SysV semaphore sets (syscall-impl sys/ipc/sysv_sem.rs): semget, semop and   *)
(* semtimedop, semctl, and the replay of SEM_UNDO when a task exits.  Every    *)
(* attempt holds the registry's lock; a caller that must wait sleeps a tick    *)
(* outside the lock and tries again.                                          *)
(***************************************************************************)
EXTENDS Integers, Sequences, FiniteSets, FiniteSetsExt, SequencesExt

CONSTANTS STask, NSem, SemMax, NextIds,  \* SemMax is SEMVMX; identifiers 1 .. NextIds
          SemCalls,   \* operation arrays: sequences of [num, op, undo, nowait]
          SOps        \* subset of {"exit", "rmid", "setval", "setall", "signal", "timeout"}

VARIABLES sem,        \* sem[id]: values and waiter counts, or NoSet
          next_id, key_id,       \* by_key of the one key, 0 if absent
          undo,       \* undo[t][id][i]: adjustment
          scall,      \* scall[t]: the call in progress
          base        \* base[id][i]: what the calls without SEM_UNDO made of the value
svars == <<sem, next_id, key_id, undo, scall, base>>

Num == 1 .. NSem
SemId == 1 .. NextIds
Zeros == [i \in Num |-> 0]
NoUndo == [id \in SemId |-> Zeros]
NoSet == [live |-> FALSE, values |-> Zeros, wait_nonzero |-> Zeros, wait_zero |-> Zeros]
NoCall == [pc |-> "idle", id |-> 0, ops |-> <<>>, observed |-> FALSE, on |-> 0, zero |-> FALSE]
SIn(t, l) == scall[t].pc = l
SReturn(t) == scall' = [scall EXCEPT ![t] = NoCall]

SInit ==
  /\ sem = [id \in SemId |-> NoSet] /\ next_id = 1 /\ key_id = 0
  /\ undo = [t \in STask |-> NoUndo] /\ base = NoUndo
  /\ scall = [t \in STask |-> NoCall]

(* The key's set, or a new one under the next identifier.                      *)
create_set == /\ sem' = [sem EXCEPT ![next_id] = [NoSet EXCEPT !.live = TRUE]]
              /\ key_id' = next_id /\ next_id' = next_id + 1
sys_semget(t) ==
  /\ SIn(t, "idle") /\ key_id = 0 /\ next_id \in SemId /\ create_set
  /\ UNCHANGED <<undo, scall, base>>

-----------------------------------------------------------------------------
(* The whole array is tried on a copy; it stops at the first operation that    *)
(* must wait or is out of range.                                              *)
simulate(values, ops) ==
  LET one(x, o) ==
        IF x.stop # "" THEN x
        ELSE IF o.op > 0 THEN IF x.v[o.num] + o.op > SemMax THEN [x EXCEPT !.stop = "ERANGE"]
                              ELSE [x EXCEPT !.v[o.num] = @ + o.op]
        ELSE IF o.op < 0 THEN IF x.v[o.num] < -o.op THEN [x EXCEPT !.stop = "wait", !.at = o]
                              ELSE [x EXCEPT !.v[o.num] = @ + o.op]
        ELSE IF x.v[o.num] # 0 THEN [x EXCEPT !.stop = "wait", !.at = o] ELSE x
  IN FoldLeft(one, [v |-> values, stop |-> "", at |-> [num |-> 0]], ops)
undo_delta(ops) ==
  [i \in Num |-> -FoldLeft(LAMBDA n, o : IF o.undo /\ o.num = i THEN n + o.op ELSE n, 0, ops)]
Adjusted(t, id, delta) == [i \in Num |-> undo[t][id][i] + delta[i]]
undo_in_range(t, id, delta) == \A i \in Num : Adjusted(t, id, delta)[i] \in -SemMax .. SemMax

do_semop(t, id, ops) ==
  /\ SIn(t, "idle")
  /\ scall' = [scall EXCEPT ![t] = [NoCall EXCEPT !.pc = "try", !.id = id, !.ops = ops]]
  /\ UNCHANGED <<sem, next_id, key_id, undo, base>>
semop_gone(t) ==
  /\ SIn(t, "try") /\ ~sem[scall[t].id].live
  /\ SReturn(t)   \* EIDRM if the set was seen before, else EINVAL
  /\ UNCHANGED <<sem, next_id, key_id, undo, base>>
semop_commit(t) ==
  LET id == scall[t].id  x == simulate(sem[id].values, scall[t].ops)  d == undo_delta(scall[t].ops) IN
  /\ SIn(t, "try") /\ sem[id].live /\ x.stop = ""
  /\ IF undo_in_range(t, id, d)
     THEN /\ sem' = [sem EXCEPT ![id].values = x.v]
          /\ undo' = [undo EXCEPT ![t][id] = Adjusted(t, id, d)]
          /\ base' = [base EXCEPT ![id] = [i \in Num |-> @[i] + x.v[i] - sem[id].values[i] + d[i]]]
     ELSE UNCHANGED <<sem, undo, base>>
  /\ SReturn(t) /\ UNCHANGED <<next_id, key_id>>
semop_refused(t) ==
  LET id == scall[t].id  x == simulate(sem[id].values, scall[t].ops) IN
  /\ SIn(t, "try") /\ sem[id].live
  /\ x.stop = "ERANGE" \/ (x.stop = "wait" /\ x.at.nowait)
  /\ SReturn(t)
  /\ UNCHANGED <<sem, next_id, key_id, undo, base>>
Waiting(S, id, zero, i, n) ==
  IF zero THEN [S EXCEPT ![id].wait_zero[i] = @ + n] ELSE [S EXCEPT ![id].wait_nonzero[i] = @ + n]
semop_wait(t) ==
  LET id == scall[t].id  x == simulate(sem[id].values, scall[t].ops) IN
  /\ SIn(t, "try") /\ sem[id].live /\ x.stop = "wait" /\ ~x.at.nowait
  /\ sem' = Waiting(sem, id, x.at.op = 0, x.at.num, 1)
  /\ scall' = [scall EXCEPT ![t] = [@ EXCEPT !.pc = "sleep", !.observed = TRUE, !.on = x.at.num, !.zero = x.at.op = 0]]
  /\ UNCHANGED <<next_id, key_id, undo, base>>
(* After the tick, a signal or the deadline: the count is given back, then the *)
(* call returns or tries again.                                               *)
decrement_waiter(t) ==
  LET id == scall[t].id IN
  sem' = IF sem[id].live THEN Waiting(sem, id, scall[t].zero, scall[t].on, -1) ELSE sem
semop_wakes(t, why) ==
  /\ SIn(t, "sleep") /\ why \in SOps \cup {"tick"} /\ decrement_waiter(t)
  /\ \/ why = "tick" /\ scall' = [scall EXCEPT ![t] = [@ EXCEPT !.pc = "try", !.on = 0]]
     \/ why # "tick" /\ SReturn(t)
  /\ UNCHANGED <<next_id, key_id, undo, base>>

-----------------------------------------------------------------------------
(* semctl.  Setting a value forgets what tasks would have undone to it.        *)
forget(u, id, I) == [t \in STask |-> [u[t] EXCEPT ![id] = [i \in Num |-> IF i \in I THEN 0 ELSE @[i]]]]
ctl_rmid(t, id) ==
  /\ "rmid" \in SOps /\ SIn(t, "idle") /\ sem[id].live
  /\ sem' = [sem EXCEPT ![id] = NoSet] /\ key_id' = IF key_id = id THEN 0 ELSE key_id
  /\ undo' = forget(undo, id, Num) /\ base' = [base EXCEPT ![id] = Zeros]
  /\ UNCHANGED <<next_id, scall>>
ctl_setval(t, id, i, v) ==
  /\ "setval" \in SOps /\ SIn(t, "idle") /\ sem[id].live
  /\ sem' = [sem EXCEPT ![id].values[i] = v] /\ undo' = forget(undo, id, {i})
  /\ base' = [base EXCEPT ![id][i] = v] /\ UNCHANGED <<next_id, key_id, scall>>
(* The values are copied from the user between two looks at the set.           *)
set_all(t, id, v) ==
  /\ "setall" \in SOps
  /\ \/ /\ SIn(t, "idle") /\ sem[id].live
        /\ scall' = [scall EXCEPT ![t] = [NoCall EXCEPT !.pc = "copy", !.id = id]] /\ UNCHANGED <<sem, undo, base>>
     \/ /\ SIn(t, "copy") /\ scall[t].id = id
        /\ IF sem[id].live
           THEN /\ sem' = [sem EXCEPT ![id].values = [i \in Num |-> v]] /\ undo' = forget(undo, id, Num)
                /\ base' = [base EXCEPT ![id] = [i \in Num |-> v]]
           ELSE UNCHANGED <<sem, undo, base>>
        /\ SReturn(t)
  /\ UNCHANGED <<next_id, key_id>>
clamp(n) == IF n < 0 THEN 0 ELSE IF n > SemMax THEN SemMax ELSE n
task_exit(t) ==
  /\ "exit" \in SOps /\ SIn(t, "idle") /\ undo[t] # NoUndo
  /\ sem' = [id \in SemId |-> IF sem[id].live THEN [sem[id] EXCEPT !.values = [i \in Num |-> clamp(@[i] + undo[t][id][i])]]
                              ELSE sem[id]]
  /\ undo' = [undo EXCEPT ![t] = NoUndo]
  /\ base' = [id \in SemId |-> [i \in Num |-> base[id][i] + sem'[id].values[i] - sem[id].values[i] - undo[t][id][i]]]
  /\ UNCHANGED <<next_id, key_id, scall>>

SNext ==
  \E t \in STask :
    \/ sys_semget(t)
    \/ \E id \in SemId : \/ \E ops \in SemCalls : do_semop(t, id, ops)
                         \/ ctl_rmid(t, id) \/ \E v \in 0 .. 1 : set_all(t, id, v) \/ \E i \in Num : ctl_setval(t, id, i, v)
    \/ semop_gone(t) \/ semop_commit(t) \/ semop_refused(t) \/ semop_wait(t)
    \/ (\E why \in {"tick", "signal", "timeout"} : semop_wakes(t, why)) \/ task_exit(t)
SSpec == SInit /\ [][SNext]_svars

-----------------------------------------------------------------------------
STypeOK ==
  /\ \A id \in SemId : sem[id].values \in [Num -> 0 .. SemMax] /\ (sem[id].live => id < next_id)
  /\ key_id \in SemId \cup {0} /\ \A t \in STask : scall[t].pc \in {"idle", "try", "sleep", "copy"}

(* GETNCNT and GETZCNT count the sleeping callers: every caller is counted once *)
(* on the semaphore it waits for, and given back whether the tick, a signal, a *)
(* deadline or the removal of the set ends the wait.                           *)
Sleepers(id, zero, i) == {t \in STask : SIn(t, "sleep") /\ scall[t].id = id /\ scall[t].zero = zero /\ scall[t].on = i}
WaitersCounted ==
  \A id \in SemId, i \in Num :
    sem[id].live => /\ sem[id].wait_nonzero[i] = Cardinality(Sleepers(id, FALSE, i))
                    /\ sem[id].wait_zero[i] = Cardinality(Sleepers(id, TRUE, i))

(* When every task has exited and given back what it took with SEM_UNDO, the    *)
(* values are those the calls without SEM_UNDO left (an exit that would leave   *)
(* the range 0 .. SEMVMX is cut off there): no SETVAL, SETALL, removal or       *)
(* refused call leaves an adjustment behind that a later exit would apply.      *)
UndoExact ==
  \A id \in SemId, i \in Num :
    sem[id].live => sem[id].values[i] + MapThenSumSet(LAMBDA t : undo[t][id][i], STask) = base[id][i]
=============================================================================
