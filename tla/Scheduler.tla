----------------------------- MODULE Scheduler -----------------------------
(***************************************************************************)
(* The SMP scheduler of WaterOS (impl-multi-class): one global structure,  *)
(* protected by one lock, that says which task every CPU runs and which    *)
(* tasks wait in every CPU's ready queue, and the path outside the lock    *)
(* that really moves a CPU from one kernel stack to another (__switch).    *)
(*                                                                         *)
(* A critical section (with_scheduler) is one step.  What happens after    *)
(* the lock is dropped - the send of inter-processor interrupts, __switch, *)
(* the publication of a task that migrates - are steps of their own, and   *)
(* the other CPUs run between them.                                        *)
(*                                                                         *)
(* Abstracted: which queued task the policies choose (any of them may be   *)
(* chosen), the ring that breaks ties between equally loaded CPUs (any of  *)
(* them), what a blocked task waits for (any blocked task may be woken).   *)
(***************************************************************************)
EXTENDS Integers, FiniteSets, FiniteSetsExt

CONSTANTS
  Task,        \* the task ids that can be allocated; an id is never reused
  CPU,         \* the configured CPUs
  BootCpu,     \* the CPU that calls scheduler::init; also the timekeeper
  Masks,       \* the affinity masks user programs ask for
  AdminOps,    \* the optional operations of this instance, see AllOps
  TransitOps,  \* the ones that may hit a task nobody has published yet
  Idle,        \* the idle task of a CPU (each CPU has its own)
  Boot,        \* the boot stack of a CPU
  NoTask, NoCpu

AllOps == {"affinity", "policy", "notify", "kill"}

ASSUME CpuAssumption ==
  /\ IsFiniteSet(CPU)
  /\ BootCpu \in CPU
  /\ NoCpu \notin CPU
ASSUME TaskAssumption ==
  /\ Idle \notin Task /\ Boot \notin Task /\ NoTask \notin Task
  /\ Idle # NoTask /\ Idle # Boot
ASSUME MaskAssumption == Masks \subseteq SUBSET CPU
ASSUME OpsAssumption == AdminOps \subseteq AllOps /\ TransitOps \subseteq AllOps

VARIABLES
  sched,      \* the structure behind the scheduler lock
  phase,      \* what every CPU is doing
  next,       \* the task a CPU that left the lock is about to switch to
  hw,         \* the context whose stack every CPU really executes on
  frame_cpu,  \* the cpu_id kept in the frame of a task that was switched out
  ipi,        \* the CPUs with an IPI that makes them call schedule_reschedule
  unstarted   \* created tasks the creator has not published yet

vars == <<sched, phase, next, hw, frame_cpu, ipi, unstarted>>

(***************************************************************************)
(* "run": executes its current task, interrupts on.  "call": the same, and *)
(* the next step of the current context is a call of schedule_reschedule.  *)
(* "switch": schedule() returned a SwitchPair, __switch has not happened;  *)
(* interrupts off.  "post": __switch happened, the deferred task is not    *)
(* published yet.  "yield": a policy change decided that the caller must   *)
(* yield; interrupts off.                                                  *)
(***************************************************************************)
Phases == {"run", "call", "switch", "post", "yield"}

TaskStates == {"none", "ready", "running", "blocked", "exited", "reaped"}

(***************************************************************************)
(* The assertions of the code; "none" while none of them failed.           *)
(***************************************************************************)
Asserts == {"none", "no_task", "no_cpu", "target", "publish_running",
            "already_running", "deferred", "need_resched"}

(***************************************************************************)
(* MultiClassScheduler: the fields of the TCBs (registry) and of the       *)
(* CPUStates.  cached is the affinity in a CPU's current_snapshot, which   *)
(* set_affinity does not refresh.                                          *)
(***************************************************************************)
SchedType ==
  [state       : [Task -> TaskStates],
   ready_cpu   : [Task -> CPU \cup {NoCpu}],
   running_cpu : [Task -> CPU \cup {NoCpu}],
   last_cpu    : [Task -> CPU \cup {NoCpu}],
   affinity    : [Task -> SUBSET CPU],
   rq          : [CPU -> SUBSET Task],
   current     : [CPU -> Task \cup {Idle}],
   cached      : [CPU -> SUBSET CPU],
   deferred    : [CPU -> Task \cup {NoTask}],
   need_resched : [CPU -> BOOLEAN],
   pending     : SUBSET CPU,
   online      : SUBSET CPU,
   boot        : SUBSET CPU,
   panic       : Asserts]

Exists(S, t) == S.state[t] \notin {"none", "reaped"}
Panic(S, a) == IF S.panic = "none" THEN [S EXCEPT !.panic = a] ELSE S

(***************************************************************************)
(* Rescheduling requests                                                   *)
(***************************************************************************)
\* Mutant: only the IPI is requested.
mark_need_resched_ipi_only(S, c) == [S EXCEPT !.pending = @ \cup {c}]

mark_need_resched(S, c) ==
  [S EXCEPT !.need_resched[c] = TRUE, !.pending = @ \cup {c}]

\* Mutant: an idle CPU is compared like a busy one.
cpu_should_reschedule_no_idle(S, c, forced, b) == c \notin S.cached[c] \/ forced \/ b

\* b is the outcome of the policy comparison, made only when a task runs.
cpu_should_reschedule(S, c, forced, b) ==
  \/ c \notin S.cached[c]
  \/ forced
  \/ IF S.current[c] = Idle THEN S.rq[c] # {} ELSE b

request_reschedule(S, c, forced, b) ==
  IF cpu_should_reschedule(S, c, forced, b) THEN mark_need_resched(S, c) ELSE S

take_need_resched(S, c) == [S EXCEPT !.need_resched[c] = FALSE]

take_pending_reschedule_cpus(S) == [S EXCEPT !.pending = {}]

\* Mutant: the local request is consumed, the pending mask is not.
drain_local_keep_pending(S, c) == take_need_resched(S, c)

\* The epilogue of the scheduling entries: the request a schedule() of this CPU
\* made for this CPU is consumed, and must be there.
drain_local(S, c) ==
  LET D == take_pending_reschedule_cpus(S)
  IN  IF c \notin S.pending THEN D
      ELSE IF S.need_resched[c] THEN take_need_resched(D, c)
      ELSE Panic(D, "need_resched")

(***************************************************************************)
(* Placement                                                               *)
(***************************************************************************)
load(S, c) == Cardinality(S.rq[c]) + (IF S.current[c] = Idle THEN 0 ELSE 1)

cpu_is_overloaded(S, c) ==
  /\ load(S, c) # 0
  /\ \/ \E d \in S.online : load(S, d) = 0
     \/ /\ S.online # {}
        /\ load(S, c) > SumFunctionOnSet([d \in CPU |-> load(S, d)], S.online)
                          \div Cardinality(S.online) + 1

\* ReadyPlacement, as the set of preferred CPUs.
LeastLoaded == {}
LastCpu(S, t) ==
  {c \in CPU : c = S.last_cpu[t] /\ ~cpu_is_overloaded(S, c)}
Prefer(c) == {c}

pick_ready_cpu(S, t, preferred) ==
  LET usable == S.online \cap S.affinity[t]
  IN  IF preferred \cap usable # {} THEN preferred \cap usable
      ELSE {c \in usable : \A d \in usable : load(S, c) <= load(S, d)}

(***************************************************************************)
(* Ready queues                                                            *)
(***************************************************************************)
dequeue_from_all_cpus(S, t) ==
  [S EXCEPT !.rq = [c \in CPU |-> S.rq[c] \ {t}]]

\* TCB::mark_ready and CPUState::enqueue, after leaving the old queue.
insert_ready(S, t, c) ==
  [S EXCEPT !.state[t] = "ready",
            !.ready_cpu[t] = c,
            !.running_cpu[t] = NoCpu,
            !.rq = [d \in CPU |-> IF d = c THEN S.rq[d] \cup {t}
                                  ELSE IF d = S.ready_cpu[t] THEN S.rq[d] \ {t}
                                  ELSE S.rq[d]]]

RunsElsewhere(S, t, c) ==
  \E d \in CPU \ {c} : S.running_cpu[t] = d /\ S.current[d] = t

enqueue_ready_on_cpu(S, t, c) ==
  IF c \notin S.online \/ c \notin S.affinity[t] THEN Panic(S, "target")
  ELSE IF RunsElsewhere(S, t, c) THEN Panic(S, "publish_running")
  ELSE insert_ready(S, t, c)

activate_on(S, t, c, b) ==
  request_reschedule(enqueue_ready_on_cpu(S, t, c), c, FALSE, b)

\* The results of activating t: one for every CPU that may be chosen and every
\* outcome b in B of the preemption test on it.
activate_ready_task(S, t, preferred, B) ==
  IF ~Exists(S, t) THEN {Panic(S, "no_task")}
  ELSE IF S.online \cap S.affinity[t] = {} THEN {Panic(S, "no_cpu")}
  ELSE UNION {{activate_on(S, t, c, b) : b \in B} : c \in pick_ready_cpu(S, t, preferred)}

\* The timekeeper wakes the sleepers and waiters whose time has come; bound: at
\* most one of them in a step.
activate_woken_and_timeout_tasks(S, c) ==
  {S} \cup IF c # BootCpu THEN {}
           ELSE UNION {activate_ready_task(S, t, LastCpu(S, t), BOOLEAN) :
                         t \in {u \in Task : S.state[u] = "blocked"}}

enqueue_deferred_task(S, c) ==
  IF S.deferred[c] = NoTask THEN {S}
  ELSE activate_ready_task([S EXCEPT !.deferred[c] = NoTask],
                           S.deferred[c], LeastLoaded, BOOLEAN)

(***************************************************************************)
(* Choosing and installing the next task                                   *)
(***************************************************************************)
pick_next_runnable(S, c) == IF S.rq[c] = {} THEN {Idle} ELSE S.rq[c]

\* Mutant: a CPU without work has no current task.
set_current_none(S, c) == [S EXCEPT !.current[c] = NoTask, !.cached[c] = CPU]

set_current_idle(S, c) ==
  [S EXCEPT !.current[c] = Idle, !.cached[c] = CPU]

\* Mutant: the chosen task stays in the queue.
mark_running_queued(S, c, t) ==
  [S EXCEPT !.state[t] = "running", !.ready_cpu[t] = NoCpu, !.running_cpu[t] = c,
            !.last_cpu[t] = c, !.current[c] = t, !.cached[c] = S.affinity[t]]

mark_running(S, c, t) ==
  [S EXCEPT !.state[t] = "running",
            !.ready_cpu[t] = NoCpu,
            !.running_cpu[t] = c,
            !.last_cpu[t] = c,
            !.rq[c] = @ \ {t},
            !.current[c] = t,
            !.cached[c] = S.affinity[t]]

set_current_task(S, c, n) ==
  IF n = Idle THEN set_current_idle(S, c)
  ELSE IF S.running_cpu[n] \notin {NoCpu, c} THEN Panic(S, "already_running")
  ELSE mark_running(S, c, n)

install_next(S, c) ==
  {set_current_task(S, c, n) : n \in pick_next_runnable(S, c)}

\* QueueTarget::Ready: the current task t of c goes back to c's queue, or, when
\* its affinity excludes c, to the slot that is published after __switch.
requeue_current(S, c, t, b) ==
  IF c \in S.affinity[t] THEN activate_ready_task(S, t, Prefer(c), {b})
  ELSE IF S.deferred[c] # NoTask THEN {Panic(S, "deferred")}
  ELSE {[S EXCEPT !.rq[c] = @ \ {t}, !.deferred[c] = t]}

\* schedule(Yield | Tick | Reschedule | Sleep(0)).  A task that must give way to
\* a queued one is not chosen again, except on a tick that ends an RR quantum.
schedule_ready(S, c, quantum) ==
  LET t == S.current[c]
  IN  IF t = Idle THEN install_next(S, c)
      ELSE UNION {{R \in UNION {install_next(Q, c) :
                                  Q \in requeue_current(S, c, t, b)} :
                     b /\ ~quantum => R.current[c] # t \/ c \notin S.cached[c]} :
                   b \in BOOLEAN}

\* schedule(Block | Sleep) and schedule_wait.
mark_blocking(S, c) ==
  LET t == S.current[c]
  IN  [S EXCEPT !.state[t] = "blocked",
                !.ready_cpu[t] = NoCpu,
                !.running_cpu[t] = NoCpu,
                !.rq[c] = @ \ {t}]

mark_exited(S, t) ==
  [S EXCEPT !.state[t] = "exited",
            !.ready_cpu[t] = NoCpu,
            !.running_cpu[t] = NoCpu]

\* schedule(Exit): a task that waits for this exit is woken first; bound: at
\* most one of them.
schedule_exit(S, c) ==
  LET t == S.current[c]
      Woken == {S} \cup UNION {activate_ready_task(S, w, LastCpu(S, w), BOOLEAN) :
                                 w \in {u \in Task : S.state[u] = "blocked"}}
  IN  UNION {install_next(mark_exited(Q, t), c) : Q \in Woken}

(***************************************************************************)
(* Leaving the lock                                                        *)
(***************************************************************************)
\* Any of the IPIs may fail.
send_ipi(targets, waiting) == \E sent \in SUBSET targets : ipi' = waiting \cup sent

\* dispatch_reschedules(targets, self) on CPU c, whose phase is p if there is no
\* request for self: that request is a call.
dispatch_reschedules(c, self, targets, p) ==
  /\ send_ipi(targets \ {self}, ipi)
  /\ phase' = [phase EXCEPT ![c] = IF self \in targets THEN "call" ELSE p]

\* Mutant: a CPU that goes idle does not switch.
leave_idle_in_place(c, S, p) ==
  /\ sched' = S
  /\ IF S.current[c] \in {sched.current[c], Idle}
     THEN phase' = [phase EXCEPT ![c] = p] /\ UNCHANGED next
     ELSE /\ phase' = [phase EXCEPT ![c] = "switch"]
          /\ next' = [next EXCEPT ![c] = S.current[c]]
  /\ UNCHANGED <<hw, frame_cpu, unstarted>>

\* The lock is dropped with the structure S; if the current task changed, a
\* __switch follows, otherwise the phase is p.  A context that is switched out
\* before its call of schedule_reschedule makes it when it resumes; that call,
\* which only repeats what the switch did, is left out.
leave(c, S, p) ==
  /\ sched' = S
  /\ IF S.current[c] = sched.current[c]
     THEN phase' = [phase EXCEPT ![c] = p] /\ UNCHANGED next
     ELSE /\ phase' = [phase EXCEPT ![c] = "switch"]
          /\ next' = [next EXCEPT ![c] = S.current[c]]
  /\ UNCHANGED <<hw, frame_cpu, unstarted>>

\* ... after the epilogue of the entries that is not schedule_tick's.
finish(c, S, p, waiting) ==
  /\ leave(c, drain_local(S, c), p)
  /\ send_ipi(S.pending \ {c}, waiting)

\* The lock is dropped by an operation that does not schedule on this CPU.
release(c, S) ==
  /\ sched' = take_pending_reschedule_cpus(S)
  /\ dispatch_reschedules(c, c, S.pending, phase[c])
  /\ UNCHANGED <<next, hw, frame_cpu>>

\* Mutant: interrupts are on again when the lock is dropped.
Interruptible_unguarded(c) ==
  /\ sched.panic = "none"
  /\ phase[c] \in {"run", "call", "switch"}
  /\ c \notin sched.boot

\* CPU c executes its current task or idles, interrupts on.
Interruptible(c) ==
  /\ sched.panic = "none"
  /\ phase[c] \in {"run", "call"}
  /\ c \notin sched.boot

\* CPU c executes its current task, which may start a system call.
RunsTask(c) == Interruptible(c) /\ phase[c] = "run" /\ sched.current[c] \in Task

\* CPU c executes its boot code.
Booting(c) ==
  /\ sched.panic = "none"
  /\ phase[c] = "run"
  /\ c \in sched.boot \cap sched.online

(***************************************************************************)
(* Scheduling entries of CPU c                                             *)
(***************************************************************************)
\* suspend_current_and_run_next and sleep(0).
Yield(c) ==
  /\ RunsTask(c) \/ (phase[c] = "yield" /\ sched.panic = "none")
  /\ \E Q \in activate_woken_and_timeout_tasks(sched, c) :
       \E R \in schedule_ready(Q, c, FALSE) : finish(c, R, "run", ipi)

\* block_current, sleep_current_for_ticks, wait_current*.
Block(c) ==
  /\ RunsTask(c)
  /\ \E Q \in activate_woken_and_timeout_tasks(sched, c) :
       \E R \in install_next(mark_blocking(Q, c), c) : finish(c, R, "run", ipi)

\* wait_current* when the target is ready already: nothing is scheduled.
WaitReady(c) ==
  /\ RunsTask(c)
  /\ \E Q \in activate_woken_and_timeout_tasks(sched, c) : finish(c, Q, "run", ipi)

\* exit_current.
Exit(c) ==
  /\ RunsTask(c)
  /\ \E Q \in activate_woken_and_timeout_tasks(sched, c) :
       \E R \in schedule_exit(Q, c) : finish(c, R, "run", ipi)

\* The first schedule(Tick) of schedule_tick; b is the policy's verdict.
schedule_on_tick(S, c, b) ==
  UNION {IF cpu_should_reschedule(S, c, FALSE, b) THEN schedule_ready(Q, c, TRUE)
         ELSE {Q} : Q \in activate_woken_and_timeout_tasks(S, c)}

\* The timer path is also the fallback for a lost or late IPI: it consumes
\* need_resched and schedules once more.
after_tick(S, c) ==
  LET D == take_need_resched(take_pending_reschedule_cpus(S), c)
  IN  IF S.need_resched[c] /\ S.current[c] = sched.current[c]
      THEN schedule_ready(D, c, FALSE)
      ELSE {D}

Tick(c) ==
  /\ Interruptible(c)
  /\ \E b \in BOOLEAN : \E Q \in schedule_on_tick(sched, c, b) :
       \E R \in after_tick(Q, c) :
         /\ leave(c, R, phase[c])
         /\ send_ipi(Q.pending \ {c}, ipi)

\* schedule_reschedule; on a boot stack nothing may be scheduled.
schedule_reschedule(c, p, waiting) ==
  IF c \in sched.boot
  THEN /\ ipi' = waiting /\ phase' = [phase EXCEPT ![c] = p]
       /\ UNCHANGED <<sched, next, hw, frame_cpu, unstarted>>
  ELSE \E R \in IF sched.need_resched[c]
                THEN schedule_ready(take_need_resched(sched, c), c, FALSE)
                ELSE {sched} : finish(c, R, p, waiting)

\* ... in the handler of an IPI,
RescheduleIpi(c) ==
  /\ sched.panic = "none" /\ phase[c] \in {"run", "call"}
  /\ c \in ipi
  /\ schedule_reschedule(c, phase[c], ipi \ {c})

\* ... or for a local request.
RescheduleCall(c) ==
  /\ sched.panic = "none" /\ phase[c] = "call"
  /\ schedule_reschedule(c, "run", ipi)

(***************************************************************************)
(* The switch itself                                                       *)
(***************************************************************************)
\* __switch: the old context is saved, the new one restored.  The frame of the
\* old task keeps the cpu_id switch_and_unlock read before the switch.
Switch(c) ==
  /\ sched.panic = "none"
  /\ phase[c] = "switch"
  /\ hw' = [hw EXCEPT ![c] = next[c]]
  /\ frame_cpu' = [t \in Task |-> IF t = hw[c] THEN c ELSE frame_cpu[t]]
  /\ next' = [next EXCEPT ![c] = NoTask]
  /\ phase' = [phase EXCEPT ![c] = "post"]
  /\ UNCHANGED <<sched, ipi, unstarted>>

\* The cpu_id the code after __switch uses: the one of the resumed frame; a task
\* that enters for the first time reads the register, and idle never moves.
resumed_cpu_id(c) ==
  IF hw[c] \in Task /\ frame_cpu[hw[c]] # NoCpu THEN frame_cpu[hw[c]] ELSE c

PostSwitch(c) ==
  /\ sched.panic = "none"
  /\ phase[c] = "post"
  /\ \E R \in enqueue_deferred_task(sched, resumed_cpu_id(c)) :
       /\ sched' = take_pending_reschedule_cpus(R)
       /\ dispatch_reschedules(c, resumed_cpu_id(c), R.pending, "run")
  /\ UNCHANGED <<next, hw, frame_cpu, unstarted>>

(***************************************************************************)
(* Operations on other tasks                                               *)
(***************************************************************************)
\* wake_task, interrupt_task, wake_one_in_wait_queue and the other wakes.
Wake(c, t) ==
  /\ Interruptible(c)
  /\ sched.state[t] = "blocked"
  /\ \E R \in activate_ready_task(sched, t, LastCpu(sched, t), BOOLEAN) : release(c, R)
  /\ UNCHANGED unstarted

\* wake_one_in_wait_queue_deferred, for interrupt handlers and callbacks that hold
\* locks: even the request for this CPU is only an IPI.
WakeDeferred(c, t) ==
  /\ Interruptible(c)
  /\ sched.state[t] = "blocked"
  /\ \E R \in activate_ready_task(sched, t, LastCpu(sched, t), BOOLEAN) :
       /\ sched' = take_pending_reschedule_cpus(R)
       /\ send_ipi(R.pending, ipi)
  /\ UNCHANGED <<phase, next, hw, frame_cpu, unstarted>>

\* Is t on its way between two owners: created and not published, or parked in
\* the deferred slot of the CPU it leaves?
InTransit(t) == t \in unstarted \/ \E d \in CPU : sched.deferred[d] = t

\* A queued task moves to an allowed CPU, a running one is asked to leave its CPU.
set_affinity(S, t, mask) ==
  LET A == [S EXCEPT !.affinity[t] = mask]
  IN  IF S.state[t] = "ready" /\ S.ready_cpu[t] \in CPU \ mask
      THEN activate_ready_task(A, t, LeastLoaded, BOOLEAN)
      ELSE IF S.state[t] = "running" /\ S.running_cpu[t] \notin mask
      THEN {request_reschedule(A, S.running_cpu[t], TRUE, FALSE)}
      ELSE {A}

SetAffinity(c, t, mask) ==
  /\ RunsTask(c)
  /\ "affinity" \in AdminOps
  /\ mask \cap sched.online # {}
  /\ sched.state[t] \in {"ready", "running", "blocked"}
  /\ \E R \in set_affinity(sched, t, mask) : release(c, R)
  /\ UNCHANGED unstarted

\* apply_sched_policy_change: the CPU whose queue or current task is affected ...
policy_cpu(S, c, t) ==
  IF S.state[t] = "running" THEN S.running_cpu[t]
  ELSE IF S.ready_cpu[t] # NoCpu THEN S.ready_cpu[t] ELSE c

\* ... where the task is queued again under its new policy, or its snapshot is
\* taken again.
refresh_task(S, t, d) ==
  LET D == dequeue_from_all_cpus(S, t)
  IN  IF S.state[t] = "ready" THEN enqueue_ready_on_cpu(D, t, d)
      ELSE [D EXCEPT !.current[d] = t, !.cached[d] = S.affinity[t]]

\* The request for another CPU stays in pending; the request for this CPU becomes
\* a yield of the caller.
PolicyChange(c, t) ==
  /\ RunsTask(c)
  /\ "policy" \in AdminOps
  /\ InTransit(t) => "policy" \in TransitOps
  /\ sched.state[t] \in {"ready", "running"}
  /\ LET d == policy_cpu(sched, c, t)
         Q == refresh_task(sched, t, d)
     IN  \E b \in BOOLEAN :
           LET preempt == cpu_should_reschedule(Q, d, FALSE, b)
           IN  /\ sched' = IF preempt /\ d # c THEN mark_need_resched(Q, d) ELSE Q
               /\ phase' = [phase EXCEPT ![c] = IF preempt /\ d = c THEN "yield" ELSE "run"]
  /\ UNCHANGED <<next, hw, frame_cpu, ipi, unstarted>>

\* request_task_reschedule, of a sibling thread: a remote CPU gets a TaskNotify
\* IPI; a request for this CPU is consumed without scheduling.
RequestTaskReschedule(c, t) ==
  /\ RunsTask(c)
  /\ "notify" \in AdminOps
  /\ t # sched.current[c]
  /\ sched.running_cpu[t] # NoCpu
  /\ LET R == request_reschedule(sched, sched.running_cpu[t], TRUE, FALSE)
         D == take_pending_reschedule_cpus(R)
     IN  /\ sched' = IF c \in R.pending THEN take_need_resched(D, c) ELSE D
         /\ send_ipi(R.pending \ {c}, ipi)
  /\ UNCHANGED <<phase, next, hw, frame_cpu, unstarted>>

\* Mutant: a current task is killed too.
Kill_current(c, t) ==
  /\ RunsTask(c)
  /\ "kill" \in AdminOps
  /\ InTransit(t) => "kill" \in TransitOps
  /\ sched.state[t] \in {"ready", "running", "blocked"}
  /\ sched' = mark_exited(dequeue_from_all_cpus(sched, t), t)
  /\ UNCHANGED <<phase, next, hw, frame_cpu, ipi, unstarted>>

\* kill_task: refused for a task some CPU has as its current task.
Kill(c, t) ==
  /\ RunsTask(c)
  /\ "kill" \in AdminOps
  /\ InTransit(t) => "kill" \in TransitOps
  /\ sched.state[t] \in {"ready", "running", "blocked"}
  /\ \A d \in CPU : sched.current[d] # t
  /\ sched' = mark_exited(dequeue_from_all_cpus(sched, t), t)
  /\ UNCHANGED <<phase, next, hw, frame_cpu, ipi, unstarted>>

\* reap_exited_task and its variants: the TCB and its kernel stack are freed.
Reap(c, t) ==
  /\ RunsTask(c)
  /\ sched.state[t] = "exited"
  /\ sched' = [sched EXCEPT !.state[t] = "reaped"]
  /\ UNCHANGED <<phase, next, hw, frame_cpu, ipi, unstarted>>

(***************************************************************************)
(* Creation                                                                *)
(***************************************************************************)
\* A child of fork and clone inherits the affinity of its creator, a spawned
\* task may run anywhere.
new_task(S, c, t) ==
  {[S EXCEPT !.state[t] = "ready", !.affinity[t] = m] :
     m \in {CPU} \cup {S.affinity[p] : p \in {S.current[c]} \cap Task}}

\* create_user_task_spec, create_fork_child, create_clone_thread.
Create(c, t) ==
  /\ RunsTask(c) \/ Booting(c)
  /\ sched.state[t] = "none"
  /\ sched' \in new_task(sched, c, t)
  /\ unstarted' = unstarted \cup {t}
  /\ UNCHANGED <<phase, next, hw, frame_cpu, ipi>>

\* enqueue_ready_task, the second half of spawn, fork and clone.
Start(c, t) ==
  /\ RunsTask(c) \/ Booting(c)
  /\ t \in unstarted
  /\ \E R \in activate_ready_task(sched, t, LeastLoaded, BOOLEAN) : release(c, R)
  /\ unstarted' = unstarted \ {t}

\* spawn_kernel_task, spawn_user_task_spec: both halves in one critical section.
Spawn(c, t) ==
  /\ RunsTask(c) \/ Booting(c)
  /\ sched.state[t] = "none"
  /\ \E N \in new_task(sched, c, t) :
       \E R \in activate_ready_task(N, t, LeastLoaded, BOOLEAN) : release(c, R)
  /\ UNCHANGED unstarted

\* discard_unstarted_task, when fork or clone fails half way.
discard_task(S, t) ==
  [dequeue_from_all_cpus(S, t) EXCEPT !.state[t] = "reaped", !.ready_cpu[t] = NoCpu]

Discard(c, t) ==
  /\ RunsTask(c) \/ Booting(c)
  /\ t \in unstarted
  /\ sched' = discard_task(sched, t)
  /\ unstarted' = unstarted \ {t}
  /\ UNCHANGED <<phase, next, hw, frame_cpu, ipi>>

(***************************************************************************)
(* Bring-up                                                                *)
(***************************************************************************)
\* set_cpu_online, by an application processor on its boot stack.
SetCpuOnline(c) ==
  /\ sched.panic = "none"
  /\ c \notin sched.online
  /\ sched' = [sched EXCEPT !.online = @ \cup {c}]
  /\ UNCHANGED <<phase, next, hw, frame_cpu, ipi, unstarted>>

\* run_first_task: the boot stack is left for good.
RunFirstTask(c) ==
  /\ Booting(c)
  /\ \E R \in install_next([sched EXCEPT !.boot = @ \ {c}], c) :
       /\ sched' = R
       /\ next' = [next EXCEPT ![c] = R.current[c]]
  /\ phase' = [phase EXCEPT ![c] = "switch"]
  /\ UNCHANGED <<hw, frame_cpu, ipi, unstarted>>

\* A failed assertion stops the kernel: the lock is never released.
Halt == sched.panic # "none" /\ UNCHANGED vars

-----------------------------------------------------------------------------
InitSched ==
  [state |-> [t \in Task |-> "none"],
   ready_cpu |-> [t \in Task |-> NoCpu],
   running_cpu |-> [t \in Task |-> NoCpu],
   last_cpu |-> [t \in Task |-> NoCpu],
   affinity |-> [t \in Task |-> CPU],
   rq |-> [c \in CPU |-> {}],
   current |-> [c \in CPU |-> Idle],
   cached |-> [c \in CPU |-> CPU],
   deferred |-> [c \in CPU |-> NoTask],
   need_resched |-> [c \in CPU |-> FALSE],
   pending |-> {},
   online |-> {BootCpu},
   boot |-> CPU,
   panic |-> "none"]

Init ==
  /\ sched = InitSched
  /\ phase = [c \in CPU |-> "run"]
  /\ next = [c \in CPU |-> NoTask]
  /\ hw = [c \in CPU |-> Boot]
  /\ frame_cpu = [t \in Task |-> NoCpu]
  /\ ipi = {}
  /\ unstarted = {}

CpuStep(c) ==
  \/ Yield(c) \/ Block(c) \/ WaitReady(c) \/ Exit(c)
  \/ Tick(c) \/ RescheduleIpi(c) \/ RescheduleCall(c)
  \/ Switch(c) \/ PostSwitch(c)
  \/ SetCpuOnline(c) \/ RunFirstTask(c)

TaskOp(c, t) ==
  \/ Wake(c, t) \/ WakeDeferred(c, t) \/ Kill(c, t) \/ Reap(c, t)
  \/ PolicyChange(c, t) \/ RequestTaskReschedule(c, t)
  \/ \E mask \in Masks : SetAffinity(c, t, mask)
  \/ Create(c, t) \/ Start(c, t) \/ Spawn(c, t) \/ Discard(c, t)

Next ==
  \/ \E c \in CPU : CpuStep(c) \/ \E t \in Task : TaskOp(c, t)
  \/ Halt

Spec == Init /\ [][Next]_vars

\* The timer of a CPU keeps firing, a started switch completes, a call is made,
\* and a CPU that is online leaves its boot stack.  Nothing is assumed of IPIs.
Fairness ==
  \A c \in CPU : /\ WF_vars(Tick(c)) /\ WF_vars(Switch(c)) /\ WF_vars(PostSwitch(c))
                 /\ WF_vars(RescheduleCall(c)) /\ WF_vars(RunFirstTask(c))

FairSpec == Spec /\ Fairness

(***************************************************************************)
(* Safety                                                                  *)
(***************************************************************************)
\* Every variable has its type.
TypeOK ==
  /\ sched \in SchedType
  /\ phase \in [CPU -> Phases]
  /\ next \in [CPU -> Task \cup {Idle, NoTask}]
  /\ hw \in [CPU -> Task \cup {Idle, Boot}]
  /\ frame_cpu \in [Task -> CPU \cup {NoCpu}]
  /\ ipi \subseteq CPU
  /\ unstarted \subseteq Task

\* A task is in the queue of a CPU exactly when its TCB says so.
QueuesMatchTasks(S) ==
  \A t \in Task : \A c \in CPU :
    t \in S.rq[c] <=> S.state[t] = "ready" /\ S.ready_cpu[t] = c

\* A running task is the current task of the CPU its TCB names, or parked there.
CurrentMatchesTasks(S) ==
  /\ \A c \in CPU : S.current[c] \in Task =>
       S.state[S.current[c]] = "running" /\ S.running_cpu[S.current[c]] = c
  /\ \A c \in CPU : S.deferred[c] \in Task =>
       /\ S.state[S.deferred[c]] = "running"
       /\ S.running_cpu[S.deferred[c]] = c
       /\ S.current[c] # S.deferred[c]
  /\ \A t \in Task :
       IF S.state[t] = "running"
       THEN \E c \in CPU : S.running_cpu[t] = c /\ t \in {S.current[c], S.deferred[c]}
       ELSE S.running_cpu[t] = NoCpu

\* A queue holds only tasks that may run on its CPU, and every task may run on
\* some CPU.
PlacementRespected(S) ==
  /\ \A c \in CPU : \A t \in S.rq[c] : c \in S.online /\ c \in S.affinity[t]
  /\ \A t \in Task : S.online \cap S.affinity[t] # {}

\* The ready tasks in no queue are the ones their creators have not published.
UnstartedAreUnpublished(S, U) ==
  \A t \in Task : t \in U <=> S.state[t] = "ready" /\ S.ready_cpu[t] = NoCpu

\* The checks of the code that are about placing, publishing and installing a
\* task (task_snapshot's expect, pick_ready_cpu's expect, the assertions of
\* enqueue_ready_on_cpu and of set_current_task) never fail, and the TCBs, the
\* queues, the current tasks and the deferred slots agree: no task is in two
\* queues, in a queue and on a CPU, or on two CPUs' current slots.
OneOwner ==
  /\ sched.panic \in {"none", "deferred", "need_resched"}
  /\ sched.panic = "none" =>
       /\ QueuesMatchTasks(sched)
       /\ CurrentMatchesTasks(sched)
       /\ PlacementRespected(sched)
       /\ UnstartedAreUnpublished(sched, unstarted)

\* When interrupts are on, the task the scheduler takes for current is the one
\* whose stack the CPU is on: switch_and_unlock keeps them off until __switch.
CurrentIsHardware ==
  \A c \in CPU : phase[c] \in {"run", "call"} /\ c \notin sched.boot => hw[c] = sched.current[c]

\* An idle CPU with a queued task has a reschedule request, so whatever becomes
\* of the IPI the next tick or IPI runs the task.
IdleSeesWork ==
  sched.panic = "none" =>
    \A c \in CPU : sched.current[c] = Idle /\ sched.rq[c] # {} => sched.need_resched[c]

\* The need_resched assertions of the scheduling entries never fail: outside the
\* lock a pending CPU is one that is about to switch and still has its request.
RequestsDrained ==
  sched.panic = "none" =>
    \A c \in sched.pending : sched.need_resched[c] /\ phase[c] \in {"switch", "post"}

\* A task that exited never runs, waits or queues again.
ExitIsFinal ==
  [][\A t \in Task : sched.state[t] \in {"exited", "reaped"} =>
        sched'.state[t] \in {"exited", "reaped"}]_vars

OwnSwitch ==
  \A c \in CPU : sched'.current[c] # sched.current[c] =>
    phase[c] \in {"run", "call", "yield"} /\ phase'[c] = "switch"

\* Only a CPU itself replaces its current task, and it goes through __switch.
OwnCpuSwitches == [][OwnSwitch]_vars

\* An idle CPU that has work takes it up, even if every IPI is lost.
IdleRunsWork ==
  \A c \in CPU : (c \in sched.online /\ sched.current[c] = Idle /\ sched.rq[c] # {})
                 ~> (sched.current[c] # Idle \/ sched.rq[c] = {})

(***************************************************************************)
(* What the documentation and the assertions say and this design does not  *)
(* guarantee; the README gives for each the instance that refutes it.      *)
(***************************************************************************)
\* "Until its context is really saved, the old task must not be published to
\* another CPU": two CPUs never execute on the stack of one task.
NoSharedContext ==
  \A c, d \in CPU : c # d /\ hw[c] \in Task => hw[c] # hw[d]

\* A TCB is freed only when no CPU executes on its stack any more.
LiveContextKept ==
  \A c \in CPU : hw[c] \in Task => sched.state[hw[c]] # "reaped"

\* Once a CPU has finished a switch, the task that migrates off it is published.
DeferredPublished ==
  \A c \in CPU : phase[c] \in {"run", "call"} => sched.deferred[c] = NoTask

\* A CPU that runs a task whose affinity excludes it still has the request that
\* makes it give the task away.
AffinityPursued ==
  \A c \in CPU : phase[c] = "run" /\ sched.current[c] \in Task =>
    c \in sched.affinity[sched.current[c]] \/ sched.need_resched[c]

\* assert!(scheduler.take_need_resched(cpu_id)) holds in every scheduling entry.
NeedReschedAsserted == sched.panic # "need_resched"

\* A child does not run before its creator has filled in its side tables and
\* started it.
ChildWaitsForStart == \A t \in unstarted : \A c \in CPU : sched.current[c] # t

=============================================================================
