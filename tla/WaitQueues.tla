----------------------------- MODULE WaitQueues -----------------------------
(***************************************************************************)
(* WaitQueues of the WaterOS scheduler: where a task is while it waits -   *)
(* the explicit wait queues, the waits for the exit of a task or of a      *)
(* child, the manual block, the sleepers, the timeouts - and where it is   *)
(* once it exited.  The TCB keeps its own account of the same (TaskState,  *)
(* wait_result); every operation runs under the scheduler lock, so it is   *)
(* one step.                                                               *)
(*                                                                         *)
(* Time is kept relative: a record holds wake_tick - current_tick, and     *)
(* advancing the tick by n subtracts n from all of them.                   *)
(*                                                                         *)
(* Abstracted: ready and running are one state, "active" (Scheduler tells  *)
(* them apart), so an active task may call any operation.                  *)
(***************************************************************************)
EXTENDS Integers, Sequences, SequencesExt

CONSTANTS
  Task,
  Parent,      \* parent_id of a task, NoTask for a root
  Leader,      \* the leader task of the process of a task
  MaxQueues,   \* bound: how many wait queues are in use at once
  Timeout,     \* the timeouts and sleeps, in ticks, that tasks ask for
  MaxElapsed,  \* the most ticks the timekeeper catches up at once
  Ops,         \* the groups of operations of this instance, see AllOps
  NoTask, NoTarget, NoTimeout

AllOps == {"queue", "exit", "manual"}

ASSUME TaskAssumption ==
  /\ Parent \in [Task -> Task \cup {NoTask}] /\ NoTask \notin Task
  /\ Leader \in [Task -> Task]
ASSUME QueueAssumption == MaxQueues \in Nat
ASSUME TimeAssumption ==
  /\ Timeout \subseteq Nat \ {0} /\ NoTimeout \notin Int
  /\ MaxElapsed \in Nat \ {0}
ASSUME OpsAssumption == Ops \subseteq AllOps

VARIABLES
  wq,       \* the containers and the TCBs
  deadline  \* history: what is left of the timeout of the last wait on a queue

vars == <<wq, deadline>>

QueueId == 0 .. (MaxQueues - 1)

(***************************************************************************)
(* TaskWaitTarget                                                          *)
(***************************************************************************)
WaitQueue(q) == <<"queue", q>>
TaskExit(t) == <<"exit", t>>
ChildExit(t) == <<"child", t>>
Manual == <<"manual", NoTask>>

Target == {WaitQueue(q) : q \in QueueId} \cup {TaskExit(t) : t \in Task}
            \cup {ChildExit(t) : t \in Task} \cup {Manual}

TaskStates == {"active", "blocked", "sleeping", "exited", "reaped"}
Results == {"none", "woken", "timed_out", "interrupted"}

(***************************************************************************)
(* struct WaitQueues: queue holds wait_queues, exit_wait_queues,           *)
(* child_exit_wait_queues and blocked_queue, len is the length of the      *)
(* vector, free the ids to use again; of the TCB: state, the target of     *)
(* Blocking, wait_result.                                                  *)
(***************************************************************************)
Sleeper == [task : Task, left : Nat]
TimeoutTask == [task : Task, target : Target, left : Nat]

WaitQueuesType ==
  [queue    : [Target -> Seq(Task)],
   len      : Nat,
   free     : SUBSET QueueId,
   timeouts : Seq(TimeoutTask),
   sleepers : Seq(Sleeper),
   exited   : Seq(Task),
   state    : [Task -> TaskStates],
   target   : [Task -> Target \cup {NoTarget}],
   result   : [Task -> Results]]

Allocated(W, q) == q < W.len /\ q \notin W.free
Waiting(W, t) == W.state[t] \in {"blocked", "sleeping"}

(***************************************************************************)
(* Helpers on the containers                                               *)
(***************************************************************************)
\* The elements of s that are not in S.
Without(s, S) ==
  LET kept[i \in 0 .. Len(s)] ==
        IF i = 0 THEN <<>> ELSE IF s[i] \in S THEN kept[i - 1] ELSE Append(kept[i - 1], s[i])
  IN  kept[Len(s)]

take_task_id_by_id(s, t) == Without(s, {t})
NotOf(s, t) == Without(s, {e \in ToSet(s) : e.task = t})

\* Before the first record that is due later.
insert_by_wake(s, e) ==
  LET at == SelectInSeq(s, LAMBDA x : x.left > e.left)
  IN  IF at = 0 THEN Append(s, e) ELSE InsertAt(s, at, e)

enqueue_wait_task(W, t, g) == [W EXCEPT !.queue[g] = Append(@, t)]

\* Mutant: the timeout records stay.
detach_task_from_run_queues_keep_timeouts(W, t) ==
  [W EXCEPT !.queue = [g \in Target |-> IF g \in {TaskExit(t), ChildExit(t)} THEN <<>>
                                        ELSE take_task_id_by_id(W.queue[g], t)],
            !.sleepers = NotOf(@, t)]

\* t leaves every container, and the queues of those that wait for t are removed.
detach_task_from_run_queues(W, t) ==
  [W EXCEPT !.queue = [g \in Target |-> IF g \in {TaskExit(t), ChildExit(t)} THEN <<>>
                                        ELSE take_task_id_by_id(W.queue[g], t)],
            !.sleepers = NotOf(@, t),
            !.timeouts = NotOf(@, t)]

remove_task_from_any_queue(W, t) ==
  [W EXCEPT !.queue = [g \in Target |-> take_task_id_by_id(W.queue[g], t)],
            !.sleepers = NotOf(@, t),
            !.timeouts = NotOf(@, t)]

\* finish_wait(r) and activate_ready_task of the tasks T.
activate(W, T, r) ==
  [W EXCEPT !.state = [t \in Task |-> IF t \in T THEN "active" ELSE @[t]],
            !.target = [t \in Task |-> IF t \in T THEN NoTarget ELSE @[t]],
            !.result = [t \in Task |-> IF t \in T THEN r ELSE @[t]]]

(***************************************************************************)
(* The timekeeper                                                          *)
(***************************************************************************)
\* How many records at the front of s are due.
due(s) ==
  LET later == SelectInSeq(s, LAMBDA e : e.left > 0)
  IN  IF later = 0 THEN Len(s) ELSE later - 1

FirstN(s, n) == SubSeq(s, 1, n)
WithoutFirstN(s, n) == SubSeq(s, n + 1, Len(s))

\* Sleepers wake without a result.
woken_tasks(W) ==
  LET n == due(W.sleepers)
      T == {e.task : e \in ToSet(FirstN(W.sleepers, n))}
  IN  [W EXCEPT !.sleepers = WithoutFirstN(@, n),
                !.state = [t \in Task |-> IF t \in T THEN "active" ELSE @[t]]]

\* A record that is due ends the wait only if its task is in the queue it names.
timeout_tasks(W) ==
  LET n == due(W.timeouts)
      D == ToSet(FirstN(W.timeouts, n))
      T == {e.task : e \in {d \in D : Contains(W.queue[d.target], d.task)
                                       /\ W.state[d.task] = "blocked"
                                       /\ W.target[d.task] = d.target}}
      Q == [W EXCEPT !.timeouts = WithoutFirstN(@, n),
                     !.queue = [g \in Target |->
                        Without(W.queue[g], {d.task : d \in {x \in D : x.target = g}})]]
  IN  activate(Q, T, "timed_out")

\* The result, as a set of one, so that TLC evaluates each stage once.
activate_woken_and_timeout_tasks(W) == {timeout_tasks(V) : V \in {woken_tasks(W)}}

\* A scheduling entry does it only on the timekeeper's CPU.
Entered == {wq} \cup activate_woken_and_timeout_tasks(wq)

Minus(s, n) == [i \in DOMAIN s |-> [s[i] EXCEPT !.left = @ - n]]

advance_ticks(W, n) ==
  [W EXCEPT !.timeouts = Minus(@, n), !.sleepers = Minus(@, n)]

\* What is left of a timeout after n ticks; the tick after a wait forgets it.
left_after(t, n) ==
  IF deadline[t] = NoTimeout \/ ~Waiting(wq, t) THEN NoTimeout
  ELSE IF deadline[t] > n THEN deadline[t] - n ELSE 0

\* Mutant: the records that became due are left for the next tick.
Tick_no_activation(n) ==
  /\ wq' = advance_ticks(wq, n)
  /\ deadline' = [t \in Task |-> left_after(t, n)]

Tick(n) ==
  /\ \E W \in {advance_ticks(wq, n)} : wq' \in activate_woken_and_timeout_tasks(W)
  /\ deadline' = [t \in Task |-> left_after(t, n)]

(***************************************************************************)
(* Waiting                                                                 *)
(***************************************************************************)
\* schedule_wait once the target is known not to be ready.
block(W, t, g, d) ==
  LET B == enqueue_wait_task([W EXCEPT !.state[t] = "blocked", !.target[t] = g,
                                       !.result[t] = "none"], t, g)
  IN  IF d = NoTimeout THEN B
      ELSE [B EXCEPT !.timeouts =
              insert_by_wake(@, [task |-> t, target |-> g, left |-> d])]

wait_target_ready(W, g) == \E x \in Task : g = TaskExit(x) /\ W.state[x] = "exited"

schedule_wait(t, g, d) ==
  /\ wq.state[t] = "active"
  /\ \E W \in Entered :
       wq' = IF wait_target_ready(W, g) THEN [W EXCEPT !.result[t] = "woken"]
             ELSE block(W, t, g, d)

\* wait_current_timeout* on a wait queue its user still owns.
WaitOnQueue(t, q, d) ==
  /\ "queue" \in Ops
  /\ Allocated(wq, q)
  /\ schedule_wait(t, WaitQueue(q), d)
  /\ deadline' = [deadline EXCEPT ![t] = d]

\* wait_for_task_exit and wait_for_task_exit_for_ticks.
WaitForExit(t, x, d) ==
  /\ "exit" \in Ops
  /\ x # t
  /\ schedule_wait(t, TaskExit(x), d)
  /\ deadline' = [deadline EXCEPT ![t] = NoTimeout]

\* wait_for_child_event: any thread of a process waits in the leader's queue.
WaitForChild(t) ==
  /\ "exit" \in Ops
  /\ schedule_wait(t, ChildExit(Leader[t]), NoTimeout)
  /\ deadline' = [deadline EXCEPT ![t] = NoTimeout]

\* block_current(Manual).
BlockManual(t) ==
  /\ "manual" \in Ops
  /\ wq.state[t] = "active"
  /\ \E W \in Entered : wq' = block(W, t, Manual, NoTimeout)
  /\ deadline' = [deadline EXCEPT ![t] = NoTimeout]

\* sleep_current_for_ticks.
Sleep(t, d) ==
  /\ "manual" \in Ops
  /\ wq.state[t] = "active"
  /\ \E W \in Entered :
       wq' = [W EXCEPT !.state[t] = "sleeping", !.result[t] = "none",
                       !.sleepers = insert_by_wake(@, [task |-> t, left |-> d])]
  /\ deadline' = [deadline EXCEPT ![t] = NoTimeout]

(***************************************************************************)
(* Waking                                                                  *)
(***************************************************************************)
\* wake_task and interrupt_task, of any task.
WakeTask(t, r) ==
  /\ wq' = LET R == remove_task_from_any_queue(wq, t)
               found == \/ \E g \in Target : Contains(wq.queue[g], t)
                        \/ \E e \in ToSet(wq.sleepers) : e.task = t
           IN  IF found /\ Waiting(wq, t) THEN activate(R, {t}, r) ELSE R
  /\ UNCHANGED deadline

\* The first n tasks of q are popped with their timeouts; those that really wait
\* in q are woken.
wake_n(W, q, n) ==
  LET g == WaitQueue(q)
      popped == ToSet(FirstN(W.queue[g], n))
  IN  activate([W EXCEPT !.queue[g] = WithoutFirstN(@, n),
                         !.timeouts = Without(@, {e \in ToSet(@) : e.task \in popped /\ e.target = g})],
               {t \in popped : W.state[t] = "blocked" /\ W.target[t] = g}, "woken")

\* wake_one_in_wait_queue: pops until it finds one that really waits there.
WakeOne(q) ==
  /\ Allocated(wq, q)
  /\ LET Q == wq.queue[WaitQueue(q)]
         first == SelectInSeq(Q, LAMBDA t : wq.state[t] = "blocked"
                                             /\ wq.target[t] = WaitQueue(q))
     IN  wq' = wake_n(wq, q, IF first = 0 THEN Len(Q) ELSE first)
  /\ UNCHANGED deadline

WakeAll(q) ==
  /\ Allocated(wq, q)
  /\ wq' = wake_n(wq, q, Len(wq.queue[WaitQueue(q)]))
  /\ UNCHANGED deadline

\* Mutant: the timeouts keep the old queue.
move_tasks_between_queues_only(W, p, q, n) ==
  LET g == WaitQueue(p)
      h == WaitQueue(q)
      moved == Without(FirstN(W.queue[g], n), {t \in Task : W.target[t] # g})
  IN  [W EXCEPT !.queue[g] = WithoutFirstN(@, n), !.queue[h] = @ \o moved,
                !.target = [t \in Task |-> IF t \in ToSet(moved) THEN h ELSE @[t]]]

\* The first n tasks of p go to the end of q, their timeouts with them; a stale
\* one is dropped.
move_tasks_between_queues(W, p, q, n) ==
  LET g == WaitQueue(p)
      h == WaitQueue(q)
      moved == Without(FirstN(W.queue[g], n), {t \in Task : W.target[t] # g})
  IN  [W EXCEPT !.queue[g] = WithoutFirstN(@, n), !.queue[h] = @ \o moved,
                !.target = [t \in Task |-> IF t \in ToSet(moved) THEN h ELSE @[t]],
                !.timeouts = [i \in DOMAIN @ |->
                   IF @[i].task \in ToSet(moved) /\ @[i].target = g
                   THEN [@[i] EXCEPT !.target = h] ELSE @[i]]]

\* requeue_wait_queue*, as futex uses it: wake some, move some of the rest.
Requeue(p, q, wake, move) ==
  /\ Allocated(wq, p) /\ Allocated(wq, q)
  /\ LET Len1 == Len(wq.queue[WaitQueue(p)])
         n == IF wake > Len1 THEN Len1 ELSE wake
         m == IF move > Len1 - n THEN Len1 - n ELSE move
         W == wake_n(wq, p, n)
     IN  wq' = IF p = q THEN W ELSE move_tasks_between_queues(W, p, q, m)
  /\ UNCHANGED deadline

\* Everyone in the queue, whatever its state; the timeouts stay.
wake_all_waiters(W, g) ==
  activate([W EXCEPT !.queue[g] = <<>>], ToSet(W.queue[g]), "woken")

\* wake_parent_child_waiters: a child stopped, continued or ended.
WakeChildExit(p) ==
  /\ "exit" \in Ops
  /\ wq' = wake_all_waiters(wq, ChildExit(p))
  /\ UNCHANGED deadline

(***************************************************************************)
(* The ends of tasks and of queues                                         *)
(***************************************************************************)
mark_exited(W, t) ==
  [W EXCEPT !.exited = Append(@, t), !.state[t] = "exited", !.target[t] = NoTarget]

\* schedule(Exit): those that wait for this task, then those that wait for a
\* child of its parent.
Exit(t) ==
  /\ "exit" \in Ops
  /\ wq.state[t] = "active"
  /\ \E W \in Entered :
       LET E == wake_all_waiters(W, TaskExit(t))
           C == IF Parent[t] = NoTask THEN E
                ELSE wake_all_waiters(E, ChildExit(Parent[t]))
       IN  wq' = mark_exited(detach_task_from_run_queues(C, t), t)
  /\ UNCHANGED deadline

\* kill_task, of a task that is not running: nobody is woken.
Kill(t) ==
  /\ "exit" \in Ops
  /\ wq.state[t] \notin {"exited", "reaped"}
  /\ wq' = mark_exited(detach_task_from_run_queues(wq, t), t)
  /\ UNCHANGED deadline

\* reap_exited_task, reap_one_exited_task.
Reap(t) ==
  /\ "exit" \in Ops
  /\ Contains(wq.exited, t)
  /\ wq' = [detach_task_from_run_queues(wq, t) EXCEPT
              !.exited = take_task_id_by_id(@, t), !.state[t] = "reaped"]
  /\ UNCHANGED deadline

Allocate ==
  /\ "queue" \in Ops
  /\ \/ \E q \in wq.free :
          /\ \A p \in wq.free : q <= p
          /\ wq' = [wq EXCEPT !.free = @ \ {q}, !.queue[WaitQueue(q)] = <<>>]
     \/ /\ wq.free = {} /\ wq.len \in QueueId
        /\ wq' = [wq EXCEPT !.len = @ + 1]
  /\ UNCHANGED deadline

\* Mutant: a queue with waiters can be released.
TryRelease_unchecked(q) ==
  /\ Allocated(wq, q)
  /\ wq' = [wq EXCEPT !.free = @ \cup {q},
                      !.timeouts = Without(@, {e \in ToSet(@) : e.target = WaitQueue(q)})]
  /\ UNCHANGED deadline

\* try_release_wait_queue.
TryRelease(q) ==
  /\ Allocated(wq, q)
  /\ wq.queue[WaitQueue(q)] = <<>>
  /\ wq' = [wq EXCEPT !.free = @ \cup {q},
                      !.timeouts = Without(@, {e \in ToSet(@) : e.target = WaitQueue(q)})]
  /\ UNCHANGED deadline

-----------------------------------------------------------------------------
Init ==
  /\ wq = [queue |-> [g \in Target |-> <<>>], len |-> 0, free |-> {},
           timeouts |-> <<>>, sleepers |-> <<>>, exited |-> <<>>,
           state |-> [t \in Task |-> "active"],
           target |-> [t \in Task |-> NoTarget],
           result |-> [t \in Task |-> "none"]]
  /\ deadline = [t \in Task |-> NoTimeout]

TaskStep(t) ==
  \/ \E d \in Timeout \cup {NoTimeout} :
       \/ \E q \in QueueId : WaitOnQueue(t, q, d)
       \/ \E x \in Task : WaitForExit(t, x, d)
  \/ WaitForChild(t) \/ BlockManual(t) \/ \E d \in Timeout : Sleep(t, d)
  \/ \E r \in {"woken", "interrupted"} : WakeTask(t, r)
  \/ WakeChildExit(t) \/ Exit(t) \/ Kill(t) \/ Reap(t)

QueueStep(q) ==
  \/ WakeOne(q) \/ WakeAll(q) \/ TryRelease(q)
  \/ \E p \in QueueId : \E wake, move \in 0 .. 1 : Requeue(q, p, wake, move)

TimerTick == \E n \in 1 .. MaxElapsed : Tick(n)

Next ==
  \/ \E t \in Task : TaskStep(t)
  \/ \E q \in QueueId : QueueStep(q)
  \/ Allocate
  \/ TimerTick

Spec == Init /\ [][Next]_vars

\* The timer interrupt of the timekeeper's CPU keeps firing.
FairSpec == Spec /\ WF_vars(TimerTick)

(***************************************************************************)
(* Properties                                                              *)
(***************************************************************************)
\* The task a target names is gone.
TargetGone(g) == \E x \in Task : g \in {TaskExit(x), ChildExit(x)}
                                  /\ wq.state[x] \in {"exited", "reaped"}

\* Every variable has its type.
TypeOK ==
  /\ wq \in WaitQueuesType
  /\ deadline \in [Task -> Nat \cup {NoTimeout}]

\* Every task is in the one container its TCB speaks of, once: no task is in two
\* queues, in a queue and active, or queued after it exited, and a queue that may
\* be handed out again is empty.  A task whose target is gone may be in none.
OnePlace ==
  /\ \A g \in Target :
       /\ IsInjective(wq.queue[g])
       /\ \A t \in ToSet(wq.queue[g]) : wq.state[t] = "blocked" /\ wq.target[t] = g
  /\ \A t \in Task : wq.state[t] = "blocked" =>
       Contains(wq.queue[wq.target[t]], t) \/ TargetGone(wq.target[t])
  /\ IsInjective([i \in DOMAIN wq.sleepers |-> wq.sleepers[i].task])
  /\ {e.task : e \in ToSet(wq.sleepers)} = {t \in Task : wq.state[t] = "sleeping"}
  /\ IsInjective(wq.exited)
  /\ ToSet(wq.exited) = {t \in Task : wq.state[t] = "exited"}
  /\ \A q \in wq.free : wq.queue[WaitQueue(q)] = <<>>

\* A timed wait on a queue has exactly one timeout record, with the queue the task
\* is in now and the time that is really left, through wakes and requeues; no
\* other record exists, but for those of waits for an exit that has happened.
TimersArmed ==
  /\ \A t \in Task :
       wq.state[t] = "blocked" /\ deadline[t] # NoTimeout =>
         \E i \in DOMAIN wq.timeouts :
           /\ wq.timeouts[i] = [task |-> t, target |-> wq.target[t], left |-> deadline[t]]
           /\ \A j \in DOMAIN wq.timeouts :
                wq.timeouts[j].task = t /\ ~TargetGone(wq.timeouts[j].target) <=> j = i
  /\ \A e \in ToSet(wq.timeouts) :
       Contains(wq.queue[e.target], e.task) \/ TargetGone(e.target)

\* A wait on a queue times out only when its own timeout is over.
NeverEarly ==
  \A t \in Task : wq.result[t] = "timed_out" /\ deadline[t] # NoTimeout => deadline[t] = 0

\* What a waiter relies on: it is in the one place its TCB names, with its own
\* timeout record, and no record that outlived its wait ends a later one.
WaitersSound == OnePlace /\ TimersArmed /\ NeverEarly

\* No wake, timeout or requeue brings back a task that exited.
ExitIsFinal ==
  [][\A t \in Task : wq.state[t] \in {"exited", "reaped"} =>
        wq'.state[t] \in {"exited", "reaped"}]_vars

\* A sleep and a timed wait on a queue end, also for a task that others move from
\* queue to queue.
TimedWaitEnds ==
  \A t \in Task : (\/ wq.state[t] = "sleeping"
                   \/ wq.state[t] = "blocked" /\ deadline[t] # NoTimeout)
                  ~> ~Waiting(wq, t)

(***************************************************************************)
(* What the documentation says and the code does not keep.                 *)
(***************************************************************************)
\* An ordinary task is always in one of the containers: a blocked task is in the
\* queue of its target, where a wake, an interrupt or a timeout finds it.
BlockedIsQueued ==
  \A t \in Task : wq.state[t] = "blocked" => Contains(wq.queue[wq.target[t]], t)

=============================================================================
