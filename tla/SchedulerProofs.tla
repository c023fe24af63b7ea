-------------------------- MODULE SchedulerProofs --------------------------
(***************************************************************************)
(* Every scheduler operation keeps the task table, the ready queues, the   *)
(* current tasks and the deferred slots in agreement (OneOwner), for any   *)
(* number of tasks and CPUs; a task that exited never comes back           *)
(* (ExitIsFinal), rescheduling requests are not lost (IdleSeesWork), and   *)
(* the need_resched assertions hold (RequestsDrained).                     *)
(***************************************************************************)
EXTENDS Scheduler, TLAPS

(***************************************************************************)
(* The inductive invariant.  Inside a critical section the current slot of *)
(* the CPU that schedules is stale between the moment its task is moved    *)
(* and the moment the next one is installed: K is the set of such CPUs, {} *)
(* whenever the lock is free.                                              *)
(***************************************************************************)
CurrentAgrees(S, K) ==
  \A d \in CPU \ K : S.current[d] \in Task =>
    S.state[S.current[d]] = "running" /\ S.running_cpu[S.current[d]] = d /\ d \in S.online

DeferredAgrees(S, K) ==
  \A d \in CPU : S.deferred[d] \in Task =>
    /\ S.state[S.deferred[d]] = "running"
    /\ S.running_cpu[S.deferred[d]] = d
    /\ d \in K \/ S.current[d] # S.deferred[d]

RunningAgrees(S, K) ==
  \A t \in Task :
    IF S.state[t] = "running"
    THEN \E d \in CPU : /\ S.running_cpu[t] = d
                        /\ S.deferred[d] = t \/ (d \notin K /\ S.current[d] = t)
    ELSE S.running_cpu[t] = NoCpu

BootIsIdle(S) == \A d \in S.boot : S.current[d] = Idle

FreshIsUnplaced(S) ==
  \A t \in Task : S.state[t] = "none" => S.ready_cpu[t] = NoCpu

Struct(S, U, K) ==
  /\ QueuesMatchTasks(S)
  /\ CurrentAgrees(S, K)
  /\ DeferredAgrees(S, K)
  /\ RunningAgrees(S, K)
  /\ PlacementRespected(S)
  /\ UnstartedAreUnpublished(S, U)
  /\ BootIsIdle(S)
  /\ FreshIsUnplaced(S)

OkPanics == {"none", "deferred", "need_resched"}

Good(S, U, K) ==
  /\ S \in SchedType
  /\ S.panic \in OkPanics
  /\ S.panic = "none" => Struct(S, U, K)

\* Outside a switch a CPU is on the stack of its current task; during one, on
\* its way to it.
HwAgrees ==
  \A c \in CPU :
    /\ c \in sched.boot => phase[c] \in {"run", "call"}
    /\ IF phase[c] = "switch" THEN next[c] = sched.current[c]
       ELSE c \in sched.boot \/ hw[c] = sched.current[c]

Inv == TypeOK /\ Good(sched, unstarted, {}) /\ HwAgrees

\* A critical section of CPU c leaves the current tasks of the others alone.
OnlyOwn(R, S, c) ==
  R.boot = S.boot /\ \A d \in CPU \ {c} : R.current[d] = S.current[d]

(***************************************************************************)
(* Structures that differ only in their reschedule requests.               *)
(***************************************************************************)
SameCore(R, S) ==
  /\ R.state = S.state /\ R.ready_cpu = S.ready_cpu
  /\ R.running_cpu = S.running_cpu
  /\ R.affinity = S.affinity /\ R.rq = S.rq
  /\ R.current = S.current /\ R.deferred = S.deferred
  /\ R.online = S.online /\ R.boot = S.boot /\ R.panic = S.panic

\* The agreement does not depend on the requests.
LEMMA SameCoreGood ==
  ASSUME NEW S, NEW R \in SchedType, NEW U, NEW K, Good(S, U, K), SameCore(R, S)
  PROVE  Good(R, U, K)
  BY DEF Good, SameCore, Struct, QueuesMatchTasks, CurrentAgrees, DeferredAgrees,
         RunningAgrees, PlacementRespected, UnstartedAreUnpublished, BootIsIdle,
         FreshIsUnplaced

\* Recording a request touches nothing else.
LEMMA RequestSameCore ==
  ASSUME NEW S \in SchedType, NEW c \in CPU, NEW f \in BOOLEAN, NEW b \in BOOLEAN
  PROVE  /\ request_reschedule(S, c, f, b) \in SchedType
         /\ SameCore(request_reschedule(S, c, f, b), S)
<1>1. CASE cpu_should_reschedule(S, c, f, b)
  <2>1. request_reschedule(S, c, f, b) = mark_need_resched(S, c)
    BY <1>1 DEF request_reschedule
  <2>2. mark_need_resched(S, c) \in SchedType /\ SameCore(mark_need_resched(S, c), S)
    BY DEF mark_need_resched, SameCore, SchedType
  <2> QED BY <2>1, <2>2
<1>2. CASE ~cpu_should_reschedule(S, c, f, b)
  BY <1>2 DEF request_reschedule, SameCore
<1> QED BY <1>1, <1>2

\* Neither does consuming requests.
LEMMA TakeSameCore ==
  ASSUME NEW S \in SchedType, NEW c \in CPU
  PROVE  /\ take_need_resched(S, c) \in SchedType
         /\ SameCore(take_need_resched(S, c), S)
         /\ take_pending_reschedule_cpus(S) \in SchedType
         /\ SameCore(take_pending_reschedule_cpus(S), S)
  BY DEF take_need_resched, take_pending_reschedule_cpus, SameCore, SchedType

\* A failing assertion changes only the panic field, and only the first counts.
LEMMA PanicFields ==
  ASSUME NEW S \in SchedType, NEW a \in Asserts
  PROVE  /\ Panic(S, a) \in SchedType
         /\ Panic(S, a).panic = IF S.panic = "none" THEN a ELSE S.panic
         /\ Panic(S, a).current = S.current /\ Panic(S, a).boot = S.boot
  BY DEF Panic, SchedType

\* The epilogue of the scheduling entries keeps the agreement.
LEMMA DrainGood ==
  ASSUME NEW S, NEW U, NEW K, NEW c \in CPU, Good(S, U, K)
  PROVE  /\ Good(drain_local(S, c), U, K)
         /\ drain_local(S, c).current = S.current /\ drain_local(S, c).boot = S.boot
<1> DEFINE D == take_pending_reschedule_cpus(S)
<1>1. S \in SchedType
  BY DEF Good
<1>2. D \in SchedType /\ SameCore(D, S) /\ Good(D, U, K)
  BY <1>1, TakeSameCore, SameCoreGood
<1>3. /\ take_need_resched(D, c) \in SchedType
      /\ SameCore(take_need_resched(D, c), D)
      /\ Good(take_need_resched(D, c), U, K)
  BY <1>2, TakeSameCore, SameCoreGood
<1>4. /\ Good(Panic(D, "need_resched"), U, K)
      /\ Panic(D, "need_resched").current = D.current
      /\ Panic(D, "need_resched").boot = D.boot
  <2>1. "need_resched" \in Asserts
    BY DEF Asserts
  <2>2. CASE D.panic = "none"
    BY <2>1, <2>2, <1>2, PanicFields DEF Good, OkPanics
  <2>3. CASE D.panic # "none"
    BY <2>3, <1>2 DEF Panic
  <2> QED BY <2>2, <2>3
<1> HIDE DEF D
<1>5. D = take_pending_reschedule_cpus(S)
  BY DEF D
<1> QED BY <1>2, <1>3, <1>4, <1>5 DEF drain_local, SameCore

(***************************************************************************)
(* Activation.  Loose: the agreement for every task but t, which no CPU    *)
(* outside K has as current and no slot holds; t is in no queue but the    *)
(* one its TCB names.                                                      *)
(***************************************************************************)
Loose(S, U, K, t) ==
  /\ \A u \in Task \ {t} : \A c \in CPU :
       u \in S.rq[c] <=> S.state[u] = "ready" /\ S.ready_cpu[u] = c
  /\ \A c \in CPU : t \in S.rq[c] => S.ready_cpu[t] = c
  /\ \A d \in CPU \ K : S.current[d] # t
  /\ CurrentAgrees(S, K)
  /\ \A d \in CPU : S.deferred[d] # t
  /\ DeferredAgrees(S, K)
  /\ \A u \in Task \ {t} :
       IF S.state[u] = "running"
       THEN \E d \in CPU : /\ S.running_cpu[u] = d
                           /\ S.deferred[d] = u \/ (d \notin K /\ S.current[d] = u)
       ELSE S.running_cpu[u] = NoCpu
  /\ \A c \in CPU : \A u \in S.rq[c] \ {t} : c \in S.online /\ c \in S.affinity[u]
  /\ \A u \in Task : S.online \cap S.affinity[u] # {}
  /\ \A u \in Task \ {t} : u \in U <=> S.state[u] = "ready" /\ S.ready_cpu[u] = NoCpu
  /\ BootIsIdle(S)
  /\ FreshIsUnplaced(S)

\* What insert_ready changes.
LEMMA InsertFields ==
  ASSUME NEW S \in SchedType, NEW t \in Task, NEW c \in CPU
  PROVE  LET R == insert_ready(S, t, c) IN
         /\ R \in SchedType
         /\ R.state = [S.state EXCEPT ![t] = "ready"]
         /\ R.ready_cpu = [S.ready_cpu EXCEPT ![t] = c]
         /\ R.running_cpu = [S.running_cpu EXCEPT ![t] = NoCpu]
         /\ R.rq = [d \in CPU |-> IF d = c THEN S.rq[d] \cup {t}
                                  ELSE IF d = S.ready_cpu[t] THEN S.rq[d] \ {t}
                                  ELSE S.rq[d]]
         /\ R.affinity = S.affinity /\ R.current = S.current
         /\ R.deferred = S.deferred /\ R.online = S.online
         /\ R.boot = S.boot /\ R.panic = S.panic
  BY DEF insert_ready, SchedType, TaskStates

\* What it keeps.
LEMMA InsertKeeps ==
  ASSUME NEW S \in SchedType, NEW t \in Task, NEW c \in CPU
  PROVE  /\ insert_ready(S, t, c) \in SchedType
         /\ insert_ready(S, t, c).current = S.current
         /\ insert_ready(S, t, c).boot = S.boot
         /\ insert_ready(S, t, c).panic = S.panic
  BY DEF insert_ready, SchedType, TaskStates

\* Publishing t on a CPU it may run on completes the agreement.
LEMMA InsertStruct ==
  ASSUME NEW S \in SchedType, NEW U, NEW K, NEW t \in Task, NEW c \in CPU,
         Loose(S, U, K, t), c \in S.online, c \in S.affinity[t]
  PROVE  Struct(insert_ready(S, t, c), U \ {t}, K)
<1> DEFINE R == insert_ready(S, t, c)
<1>1. /\ R.state = [S.state EXCEPT ![t] = "ready"]
      /\ R.ready_cpu = [S.ready_cpu EXCEPT ![t] = c]
      /\ R.running_cpu = [S.running_cpu EXCEPT ![t] = NoCpu]
      /\ R.rq = [d \in CPU |-> IF d = c THEN S.rq[d] \cup {t}
                               ELSE IF d = S.ready_cpu[t] THEN S.rq[d] \ {t}
                               ELSE S.rq[d]]
      /\ R.affinity = S.affinity /\ R.current = S.current
      /\ R.deferred = S.deferred /\ R.online = S.online
      /\ R.boot = S.boot
  BY InsertFields
<1> HIDE DEF R
<1>2. /\ S.state \in [Task -> TaskStates] /\ S.rq \in [CPU -> SUBSET Task]
      /\ S.ready_cpu \in [Task -> CPU \cup {NoCpu}]
      /\ S.running_cpu \in [Task -> CPU \cup {NoCpu}]
  BY DEF SchedType
<1>3. QueuesMatchTasks(R)
  BY <1>1, <1>2 DEF QueuesMatchTasks, Loose
<1>4. CurrentAgrees(R, K)
  BY <1>1, <1>2 DEF CurrentAgrees, Loose
<1>5. DeferredAgrees(R, K)
  BY <1>1, <1>2 DEF DeferredAgrees, Loose
<1>6. RunningAgrees(R, K)
  BY <1>1, <1>2 DEF RunningAgrees, Loose
<1>7. PlacementRespected(R)
  BY <1>1, <1>2 DEF PlacementRespected, Loose
<1>8. UnstartedAreUnpublished(R, U \ {t})
  BY <1>1, <1>2, CpuAssumption DEF UnstartedAreUnpublished, Loose
<1>9. BootIsIdle(R) /\ FreshIsUnplaced(R)
  BY <1>1, <1>2 DEF BootIsIdle, FreshIsUnplaced, Loose
<1> QED BY <1>3, <1>4, <1>5, <1>6, <1>7, <1>8, <1>9 DEF Struct, R

\* A chosen CPU is online and allowed.
LEMMA PickUsable ==
  ASSUME NEW S \in SchedType, NEW t \in Task, NEW P,
         NEW c \in pick_ready_cpu(S, t, P)
  PROVE  c \in CPU /\ c \in S.online /\ c \in S.affinity[t]
<1>1. S.online \cap S.affinity[t] \subseteq CPU
  BY DEF SchedType
<1> QED BY <1>1 DEF pick_ready_cpu

\* Publication keeps the type, the current tasks and an earlier failure.
LEMMA EnqueueFields ==
  ASSUME NEW S \in SchedType, NEW t \in Task, NEW c \in CPU
  PROVE  LET R == enqueue_ready_on_cpu(S, t, c) IN
         /\ R \in SchedType /\ R.current = S.current /\ R.boot = S.boot
         /\ S.panic # "none" => R.panic = S.panic
<1>1. "target" \in Asserts /\ "publish_running" \in Asserts
  BY DEF Asserts
<1>2. CASE enqueue_ready_on_cpu(S, t, c) = insert_ready(S, t, c)
  BY <1>2, InsertKeeps
<1>3. CASE enqueue_ready_on_cpu(S, t, c) = Panic(S, "target")
  BY <1>1, <1>3, PanicFields
<1>4. CASE enqueue_ready_on_cpu(S, t, c) = Panic(S, "publish_running")
  BY <1>1, <1>4, PanicFields
<1> QED BY <1>2, <1>3, <1>4 DEF enqueue_ready_on_cpu

\* The outcomes of activating a task that exists and may run somewhere.
LEMMA Activations ==
  ASSUME NEW S \in SchedType, NEW t \in Task, NEW P, NEW B \in SUBSET BOOLEAN,
         NEW R \in activate_ready_task(S, t, P, B), Exists(S, t), S.online \cap S.affinity[t] # {}
  PROVE  \E c \in pick_ready_cpu(S, t, P) : \E b \in B :
           R = activate_on(S, t, c, b)
<1>1. PICK c \in pick_ready_cpu(S, t, P) :
        R \in {activate_on(S, t, c, b) : b \in B}
  BY DEF activate_ready_task
<1> QED BY <1>1

\* So does activation.
LEMMA ActivateFields ==
  ASSUME NEW S \in SchedType, NEW t \in Task, NEW P, NEW B \in SUBSET BOOLEAN,
         NEW R \in activate_ready_task(S, t, P, B)
  PROVE  /\ R \in SchedType /\ R.current = S.current /\ R.boot = S.boot
         /\ S.panic # "none" => R.panic = S.panic
<1>1. "no_task" \in Asserts /\ "no_cpu" \in Asserts
  BY DEF Asserts
<1>2. CASE ~Exists(S, t)
  BY <1>1, <1>2, PanicFields DEF activate_ready_task
<1>3. CASE Exists(S, t) /\ S.online \cap S.affinity[t] = {}
  BY <1>1, <1>3, PanicFields DEF activate_ready_task
<1>4. CASE Exists(S, t) /\ S.online \cap S.affinity[t] # {}
  <2>1. PICK c \in pick_ready_cpu(S, t, P) : \E b \in B :
          R = activate_on(S, t, c, b)
    BY <1>4, Activations
  <2>b. PICK b \in B :
          R = activate_on(S, t, c, b)
    BY <2>1
  <2>2. c \in CPU /\ b \in BOOLEAN
    BY <2>1, PickUsable
  <2> DEFINE Q == enqueue_ready_on_cpu(S, t, c)
  <2>3. /\ Q \in SchedType /\ Q.current = S.current /\ Q.boot = S.boot
        /\ S.panic # "none" => Q.panic = S.panic
    BY <2>2, EnqueueFields
  <2> HIDE DEF Q
  <2>4. R = request_reschedule(Q, c, FALSE, b)
    BY <2>b DEF Q, activate_on
  <2>5. R \in SchedType /\ SameCore(R, Q)
    BY <2>2, <2>3, <2>4, RequestSameCore
  <2> QED BY <2>3, <2>5 DEF SameCore
<1> QED BY <1>2, <1>3, <1>4

\* Activating t keeps the agreement when no other CPU than the chosen one still
\* has t as its current task.
LEMMA ActivateGood ==
  ASSUME NEW S \in SchedType, NEW U, NEW K, NEW t \in Task, NEW P,
         NEW B \in SUBSET BOOLEAN, NEW R \in activate_ready_task(S, t, P, B),
         S.panic = "none", Exists(S, t), Loose(S, U, K, t),
         \A c \in pick_ready_cpu(S, t, P) : ~RunsElsewhere(S, t, c)
  PROVE  Good(R, U \ {t}, K)
<1>1. S.online \cap S.affinity[t] # {}
  BY DEF Loose
<1>2. PICK c \in pick_ready_cpu(S, t, P) : \E b \in B :
        R = activate_on(S, t, c, b)
  BY <1>1, Activations
<1>b. PICK b \in B :
        R = activate_on(S, t, c, b)
  BY <1>2
<1>3. c \in CPU /\ c \in S.online /\ c \in S.affinity[t] /\ b \in BOOLEAN
  BY <1>2, PickUsable
<1> DEFINE Q == insert_ready(S, t, c)
<1>4. enqueue_ready_on_cpu(S, t, c) = Q
  BY <1>2, <1>3 DEF enqueue_ready_on_cpu
<1>5. Q \in SchedType /\ Q.panic = "none"
  BY <1>3, InsertKeeps
<1>6. Struct(Q, U \ {t}, K)
  BY <1>3, InsertStruct
<1> HIDE DEF Q
<1>7. R \in SchedType /\ SameCore(R, Q)
  BY <1>b, <1>3, <1>4, <1>5, RequestSameCore DEF activate_on
<1>8. Good(Q, U \ {t}, K)
  BY <1>5, <1>6 DEF Good, OkPanics
<1> QED BY <1>7, <1>8, SameCoreGood

\* A blocked task, and a created one, are loose.
LEMMA OffCpuLoose ==
  ASSUME NEW S \in SchedType, NEW U, NEW t \in Task, Struct(S, U, {}),
         S.state[t] \in {"blocked", "ready"}
  PROVE  Loose(S, U, {}, t)
<1>1. \A d \in CPU : S.current[d] # t /\ S.deferred[d] # t
  BY DEF Struct, CurrentAgrees, DeferredAgrees
<1> QED BY <1>1 DEF Loose, Struct, QueuesMatchTasks, CurrentAgrees, DeferredAgrees,
             RunningAgrees, PlacementRespected, UnstartedAreUnpublished

\* A loose task runs nowhere else.
LEMMA LooseRunsNowhere ==
  ASSUME NEW S, NEW U, NEW t \in Task, Loose(S, U, {}, t), NEW c \in CPU
  PROVE  ~RunsElsewhere(S, t, c)
  BY DEF Loose, RunsElsewhere

\* Waking a blocked task keeps the agreement.
LEMMA WakeGood ==
  ASSUME NEW S, NEW U, NEW t \in Task, Good(S, U, {}), S.state[t] = "blocked",
         NEW P, NEW B \in SUBSET BOOLEAN, NEW R \in activate_ready_task(S, t, P, B)
  PROVE  Good(R, U, {}) /\ R.current = S.current /\ R.boot = S.boot
<1>1. S \in SchedType
  BY DEF Good
<1>2. R \in SchedType /\ R.current = S.current /\ R.boot = S.boot
      /\ (S.panic # "none" => R.panic = S.panic)
  BY <1>1, ActivateFields
<1>3. CASE S.panic # "none"
  BY <1>2, <1>3 DEF Good
<1>4. CASE S.panic = "none"
  <2>1. Struct(S, U, {}) /\ Exists(S, t)
    BY <1>4 DEF Good, Exists
  <2>2. Loose(S, U, {}, t)
    BY <1>1, <2>1, OffCpuLoose
  <2>3. \A c \in pick_ready_cpu(S, t, P) : ~RunsElsewhere(S, t, c)
    BY <1>1, <2>2, LooseRunsNowhere, PickUsable
  <2>4. Good(R, U \ {t}, {})
    BY <1>1, <1>4, <2>1, <2>2, <2>3, ActivateGood
  <2>5. t \notin U
    BY <2>1 DEF Struct, UnstartedAreUnpublished
  <2>6. U \ {t} = U
    BY <2>5
  <2> QED BY <1>2, <2>4, <2>6
<1> QED BY <1>3, <1>4

\* So does the timekeeper's wake of a due task.
LEMMA DueGood ==
  ASSUME NEW S, NEW U, NEW c \in CPU, Good(S, U, {}),
         NEW R \in activate_woken_and_timeout_tasks(S, c)
  PROVE  Good(R, U, {}) /\ R.current = S.current /\ R.boot = S.boot
<1>1. CASE R = S
  BY <1>1
<1>2. CASE R # S
  <2>1. PICK t \in {u \in Task : S.state[u] = "blocked"} :
          R \in activate_ready_task(S, t, LastCpu(S, t), BOOLEAN)
    BY <1>2 DEF activate_woken_and_timeout_tasks
  <2> QED BY <2>1, WakeGood
<1> QED BY <1>1, <1>2

\* Publishing a created task keeps the agreement and ends its creation.
LEMMA StartGood ==
  ASSUME NEW S, NEW U, NEW t \in Task, Good(S, U, {}), S.panic = "none", t \in U,
         NEW R \in activate_ready_task(S, t, LeastLoaded, BOOLEAN)
  PROVE  Good(R, U \ {t}, {}) /\ R.current = S.current /\ R.boot = S.boot
<1>1. S \in SchedType /\ Struct(S, U, {})
  BY DEF Good
<1>2. S.state[t] = "ready"
  BY <1>1 DEF Struct, UnstartedAreUnpublished
<1>3. Exists(S, t)
  BY <1>2 DEF Exists
<1>4. Loose(S, U, {}, t)
  BY <1>1, <1>2, OffCpuLoose
<1>5. \A c \in pick_ready_cpu(S, t, LeastLoaded) : ~RunsElsewhere(S, t, c)
  BY <1>1, <1>4, LooseRunsNowhere, PickUsable
<1>6. R.current = S.current /\ R.boot = S.boot
  BY <1>1, ActivateFields
<1> QED BY <1>1, <1>3, <1>4, <1>5, <1>6, ActivateGood

\* Publishing the deferred task of a CPU keeps the agreement.
LEMMA DeferredGood ==
  ASSUME NEW S, NEW U, NEW c \in CPU, Good(S, U, {}), S.panic = "none",
         NEW R \in enqueue_deferred_task(S, c)
  PROVE  Good(R, U, {}) /\ R.current = S.current /\ R.boot = S.boot
<1>1. S \in SchedType /\ Struct(S, U, {})
  BY DEF Good
<1>2. CASE S.deferred[c] = NoTask
  BY <1>2 DEF enqueue_deferred_task
<1>3. CASE S.deferred[c] # NoTask
  <2> DEFINE t == S.deferred[c]
             Q == [S EXCEPT !.deferred[c] = NoTask]
  <2>1. t \in Task /\ R \in activate_ready_task(Q, t, LeastLoaded, BOOLEAN)
    BY <1>1, <1>3 DEF enqueue_deferred_task, SchedType
  <2>2. /\ Q \in SchedType /\ Q.deferred = [S.deferred EXCEPT ![c] = NoTask]
        /\ Q.state = S.state /\ Q.ready_cpu = S.ready_cpu
        /\ Q.running_cpu = S.running_cpu /\ Q.affinity = S.affinity
        /\ Q.rq = S.rq /\ Q.current = S.current /\ Q.online = S.online
        /\ Q.boot = S.boot /\ Q.panic = S.panic
    BY <1>1 DEF SchedType
  <2>3. S.deferred \in [CPU -> Task \cup {NoTask}]
    BY <1>1 DEF SchedType
  <2>4. S.state[t] = "running" /\ S.running_cpu[t] = c /\ S.current[c] # t
    BY <1>1, <2>1 DEF Struct, DeferredAgrees
  <2>5. \A d \in CPU : S.current[d] # t
    BY <1>1, <2>1, <2>4 DEF Struct, CurrentAgrees
  <2>6. \A d \in CPU \ {c} : S.deferred[d] # t
    BY <1>1, <2>1, <2>4 DEF Struct, DeferredAgrees
  <2> HIDE DEF Q
  <2>7. \A d \in CPU : Q.deferred[d] # t
    BY <2>1, <2>2, <2>3, <2>6, TaskAssumption
  <2>8. Loose(Q, U, {}, t)
    <3>1. DeferredAgrees(Q, {})
      BY <1>1, <2>2, <2>3, TaskAssumption DEF Struct, DeferredAgrees
    <3>2. \A u \in Task \ {t} :
            IF Q.state[u] = "running"
            THEN \E d \in CPU : /\ Q.running_cpu[u] = d
                                /\ Q.deferred[d] = u \/ (d \notin {} /\ Q.current[d] = u)
            ELSE Q.running_cpu[u] = NoCpu
      BY <1>1, <2>2, <2>3 DEF Struct, RunningAgrees
    <3>3. /\ \A u \in Task : \A d \in CPU :
               u \in Q.rq[d] <=> Q.state[u] = "ready" /\ Q.ready_cpu[u] = d
          /\ \A d \in CPU : t \in Q.rq[d] => Q.ready_cpu[t] = d
      BY <1>1, <2>1, <2>2 DEF Struct, QueuesMatchTasks
    <3>4. CurrentAgrees(Q, {}) /\ (\A d \in CPU : Q.current[d] # t) /\ BootIsIdle(Q)
          /\ FreshIsUnplaced(Q)
      BY <1>1, <2>2, <2>5 DEF Struct, CurrentAgrees, BootIsIdle, FreshIsUnplaced
    <3>5. /\ \A d \in CPU : \A u \in Q.rq[d] : d \in Q.online /\ d \in Q.affinity[u]
          /\ \A u \in Task : Q.online \cap Q.affinity[u] # {}
          /\ \A u \in Task : u \in U <=> Q.state[u] = "ready" /\ Q.ready_cpu[u] = NoCpu
      BY <1>1, <2>2 DEF Struct, PlacementRespected, UnstartedAreUnpublished
    <3> HIDE DEF t
    <3> QED BY <2>7, <3>1, <3>2, <3>3, <3>4, <3>5 DEF Loose
  <2>9. Exists(Q, t) /\ t \notin U
    BY <1>1, <2>1, <2>2, <2>4 DEF Exists, Struct, UnstartedAreUnpublished
  <2>10. \A d \in pick_ready_cpu(Q, t, LeastLoaded) : ~RunsElsewhere(Q, t, d)
    BY <2>1, <2>2, <2>8, LooseRunsNowhere, PickUsable
  <2> HIDE DEF t
  <2>11. Good(R, U \ {t}, {})
    BY <2>1, <2>2, <2>8, <2>9, <2>10, ActivateGood
  <2>12. U \ {t} = U
    BY <2>9
  <2>13. R.current = Q.current /\ R.boot = Q.boot
    BY <2>1, <2>2, ActivateFields
  <2> QED BY <2>2, <2>11, <2>12, <2>13
<1> QED BY <1>2, <1>3

(***************************************************************************)
(* Scheduling: the current task of c is moved (K becomes {c}), then the    *)
(* next one is installed (K becomes {}).                                   *)
(***************************************************************************)
\* The slot of a CPU that idles may be taken as stale.
LEMMA IdleStale ==
  ASSUME NEW S, NEW U, NEW c \in CPU, Good(S, U, {}), S.current[c] = Idle
  PROVE  Good(S, U, {c})
  BY TaskAssumption DEF Good, Struct, CurrentAgrees, DeferredAgrees, RunningAgrees

\* What installing a task changes.
LEMMA MarkRunningFields ==
  ASSUME NEW S \in SchedType, NEW c \in CPU, NEW n \in Task
  PROVE  LET R == mark_running(S, c, n) IN
         /\ R \in SchedType
         /\ R.state = [S.state EXCEPT ![n] = "running"]
         /\ R.ready_cpu = [S.ready_cpu EXCEPT ![n] = NoCpu]
         /\ R.running_cpu = [S.running_cpu EXCEPT ![n] = c]
         /\ R.rq = [S.rq EXCEPT ![c] = S.rq[c] \ {n}]
         /\ R.current = [S.current EXCEPT ![c] = n]
         /\ R.affinity = S.affinity /\ R.deferred = S.deferred
         /\ R.online = S.online /\ R.boot = S.boot /\ R.panic = S.panic
  BY DEF mark_running, SchedType, TaskStates

\* Installing a task fails no assertion.
LEMMA MarkRunningType ==
  ASSUME NEW S \in SchedType, NEW c \in CPU, NEW n \in Task
  PROVE  mark_running(S, c, n) \in SchedType /\ mark_running(S, c, n).panic = S.panic
  BY DEF mark_running, SchedType, TaskStates

\* Installing a task of c's queue makes the slot of c good again.
LEMMA MarkRunningStruct ==
  ASSUME NEW S \in SchedType, NEW U, NEW c \in CPU, NEW n \in S.rq[c],
         Struct(S, U, {c}), c \notin S.boot
  PROVE  Struct(mark_running(S, c, n), U, {})
<1> DEFINE R == mark_running(S, c, n)
<1>1. n \in Task
  BY DEF SchedType
<1>2. /\ R.state = [S.state EXCEPT ![n] = "running"]
      /\ R.ready_cpu = [S.ready_cpu EXCEPT ![n] = NoCpu]
      /\ R.running_cpu = [S.running_cpu EXCEPT ![n] = c]
      /\ R.rq = [S.rq EXCEPT ![c] = S.rq[c] \ {n}]
      /\ R.current = [S.current EXCEPT ![c] = n]
      /\ R.affinity = S.affinity /\ R.deferred = S.deferred
      /\ R.online = S.online /\ R.boot = S.boot
  BY <1>1 DEF mark_running, SchedType
<1> HIDE DEF R
<1>3. /\ S.state \in [Task -> TaskStates] /\ S.rq \in [CPU -> SUBSET Task]
      /\ S.ready_cpu \in [Task -> CPU \cup {NoCpu}]
      /\ S.running_cpu \in [Task -> CPU \cup {NoCpu}]
      /\ S.current \in [CPU -> Task \cup {Idle}]
      /\ S.deferred \in [CPU -> Task \cup {NoTask}]
      /\ S.boot \subseteq CPU
  BY DEF SchedType
<1>4. /\ S.state[n] = "ready" /\ S.ready_cpu[n] = c /\ n \notin U
      /\ c \in S.online
  <2>1. S.state[n] = "ready" /\ S.ready_cpu[n] = c
    BY <1>1 DEF Struct, QueuesMatchTasks
  <2>2. n \notin U
    BY <1>1, <2>1, CpuAssumption DEF Struct, UnstartedAreUnpublished
  <2>3. c \in S.online
    BY DEF Struct, PlacementRespected
  <2> QED BY <2>1, <2>2, <2>3
<1>5. QueuesMatchTasks(R)
  BY <1>1, <1>2, <1>3, <1>4 DEF Struct, QueuesMatchTasks
<1>6. CurrentAgrees(R, {})
  BY <1>1, <1>2, <1>3, <1>4 DEF Struct, CurrentAgrees
<1>7. DeferredAgrees(R, {})
  BY <1>1, <1>2, <1>3, <1>4 DEF Struct, DeferredAgrees
<1>8. RunningAgrees(R, {})
  BY <1>1, <1>2, <1>3, <1>4 DEF Struct, RunningAgrees
<1>9. PlacementRespected(R)
  BY <1>1, <1>2, <1>3 DEF Struct, PlacementRespected
<1>10. UnstartedAreUnpublished(R, U)
  BY <1>1, <1>2, <1>3, <1>4 DEF Struct, UnstartedAreUnpublished
<1>11. BootIsIdle(R) /\ FreshIsUnplaced(R)
  BY <1>1, <1>2, <1>3, <1>4 DEF Struct, BootIsIdle, FreshIsUnplaced
<1> QED BY <1>5, <1>6, <1>7, <1>8, <1>9, <1>10, <1>11 DEF Struct, R

\* Going idle makes it good again too.
LEMMA IdleGood ==
  ASSUME NEW S, NEW U, NEW c \in CPU, Good(S, U, {c})
  PROVE  Good(set_current_idle(S, c), U, {})
<1> DEFINE R == set_current_idle(S, c)
<1>1. S \in SchedType
  BY DEF Good
<1>2. /\ R \in SchedType
      /\ R.state = S.state /\ R.ready_cpu = S.ready_cpu
      /\ R.running_cpu = S.running_cpu /\ R.affinity = S.affinity
      /\ R.rq = S.rq /\ R.current = [S.current EXCEPT ![c] = Idle]
      /\ R.deferred = S.deferred /\ R.online = S.online
      /\ R.boot = S.boot /\ R.panic = S.panic
  BY <1>1 DEF set_current_idle, SchedType
<1> HIDE DEF R
<1>3. S.current \in [CPU -> Task \cup {Idle}] /\ S.boot \subseteq CPU
  BY <1>1 DEF SchedType
<1>4. ASSUME Struct(S, U, {c}) PROVE Struct(R, U, {})
  <2>1. CurrentAgrees(R, {}) /\ BootIsIdle(R)
    BY <1>2, <1>3, <1>4, TaskAssumption DEF Struct, CurrentAgrees, BootIsIdle
  <2>2. DeferredAgrees(R, {})
    BY <1>2, <1>3, <1>4, TaskAssumption DEF Struct, DeferredAgrees
  <2>3. RunningAgrees(R, {})
    BY <1>2, <1>3, <1>4 DEF Struct, RunningAgrees
  <2>4. QueuesMatchTasks(R) /\ PlacementRespected(R) /\ UnstartedAreUnpublished(R, U)
    BY <1>2, <1>4 DEF Struct, QueuesMatchTasks, PlacementRespected, UnstartedAreUnpublished
  <2>5. FreshIsUnplaced(R)
    BY <1>2, <1>4 DEF Struct, FreshIsUnplaced
  <2> QED BY <2>1, <2>2, <2>3, <2>4, <2>5 DEF Struct
<1> QED BY <1>2, <1>4 DEF Good, R

\* Whatever is chosen, the agreement is complete after the choice; the assertion
\* of set_current_task holds because a queued task runs nowhere.
LEMMA InstallGood ==
  ASSUME NEW S, NEW U, NEW c \in CPU, Good(S, U, {c}), c \notin S.boot,
         NEW R \in install_next(S, c)
  PROVE  Good(R, U, {})
<1>1. S \in SchedType
  BY DEF Good
<1>2. PICK n \in pick_next_runnable(S, c) : R = set_current_task(S, c, n)
  BY DEF install_next
<1>3. CASE n = Idle
  BY <1>2, <1>3, IdleGood DEF set_current_task
<1>4. CASE n # Idle
  <2>1. n \in S.rq[c] /\ n \in Task
    BY <1>1, <1>2, <1>4 DEF pick_next_runnable, SchedType
  <2>2. CASE S.panic # "none"
    <3>1. "already_running" \in Asserts
      BY DEF Asserts
    <3>2. mark_running(S, c, n) \in SchedType /\ mark_running(S, c, n).panic = S.panic
      BY <1>1, <2>1, MarkRunningType
    <3>3. R = Panic(S, "already_running") \/ R = mark_running(S, c, n)
      BY <1>2, <1>4 DEF set_current_task
    <3> QED BY <1>1, <2>2, <3>1, <3>2, <3>3, PanicFields DEF Good
  <2>3. CASE S.panic = "none"
    <3>1. Struct(S, U, {c})
      BY <2>3 DEF Good
    <3>2. S.running_cpu[n] = NoCpu
      BY <2>1, <3>1 DEF Struct, QueuesMatchTasks, RunningAgrees
    <3>3. R = mark_running(S, c, n)
      BY <1>2, <1>4, <3>2 DEF set_current_task
    <3>4. mark_running(S, c, n) \in SchedType /\ mark_running(S, c, n).panic = S.panic
      BY <1>1, <2>1, MarkRunningType
    <3>5. Struct(R, U, {})
      BY <1>1, <2>1, <3>1, <3>3, MarkRunningStruct
    <3> QED BY <2>3, <3>3, <3>4, <3>5 DEF Good, OkPanics
  <2> QED BY <2>2, <2>3
<1> QED BY <1>3, <1>4

\* The current task of c is loose once the slot of c counts as stale.
LEMMA CurrentLoose ==
  ASSUME NEW S \in SchedType, NEW U, NEW c \in CPU, NEW t \in Task,
         Struct(S, U, {}), S.current[c] = t
  PROVE  /\ Loose(S, U, {c}, t)
         /\ S.state[t] = "running" /\ S.running_cpu[t] = c /\ c \in S.online
         /\ t \notin U
<1>1. S.state[t] = "running" /\ S.running_cpu[t] = c /\ c \in S.online
  BY DEF Struct, CurrentAgrees
<1>2. /\ \A d \in CPU \ {c} : S.current[d] # t
      /\ \A d \in CPU : S.deferred[d] # t
  BY <1>1 DEF Struct, CurrentAgrees, DeferredAgrees
<1>3. t \notin U
  BY <1>1 DEF Struct, UnstartedAreUnpublished
<1>4. CurrentAgrees(S, {c}) /\ DeferredAgrees(S, {c}) /\ BootIsIdle(S) /\ FreshIsUnplaced(S)
  BY DEF Struct, CurrentAgrees, DeferredAgrees
<1>5. \A u \in Task \ {t} :
        IF S.state[u] = "running"
        THEN \E d \in CPU : /\ S.running_cpu[u] = d
                            /\ S.deferred[d] = u \/ (d \notin {c} /\ S.current[d] = u)
        ELSE S.running_cpu[u] = NoCpu
  BY DEF Struct, RunningAgrees
<1>6. Loose(S, U, {c}, t)
  BY <1>2, <1>4, <1>5
     DEF Loose, Struct, QueuesMatchTasks, PlacementRespected, UnstartedAreUnpublished
<1> QED BY <1>1, <1>3, <1>6

\* It concerns nobody else.
LEMMA InstallOwn ==
  ASSUME NEW S \in SchedType, NEW c \in CPU, NEW R \in install_next(S, c)
  PROVE  OnlyOwn(R, S, c)
<1>1. PICK n \in pick_next_runnable(S, c) : R = set_current_task(S, c, n)
  BY DEF install_next
<1>2. S.current \in [CPU -> Task \cup {Idle}]
  BY DEF SchedType
<1>3. CASE R = set_current_idle(S, c)
  <2>1. R.boot = S.boot /\ R.current = [S.current EXCEPT ![c] = Idle]
    BY <1>3 DEF set_current_idle, SchedType
  <2> QED BY <1>2, <2>1 DEF OnlyOwn
<1>4. CASE R = Panic(S, "already_running")
  BY <1>4, PanicFields DEF OnlyOwn, Asserts
<1>5. CASE n \in Task /\ R = mark_running(S, c, n)
  <2>1. R.boot = S.boot /\ R.current = [S.current EXCEPT ![c] = n]
    BY <1>5 DEF mark_running, SchedType
  <2> QED BY <1>2, <2>1 DEF OnlyOwn
<1>6. n \in Task \/ n = Idle
  BY <1>1 DEF pick_next_runnable, SchedType
<1> QED BY <1>1, <1>3, <1>4, <1>5, <1>6 DEF set_current_task

\* Going back to the own queue, or to the deferred slot, leaves the slot stale.
LEMMA RequeueGood ==
  ASSUME NEW S, NEW U, NEW c \in CPU, NEW t \in Task, NEW b \in BOOLEAN,
         Good(S, U, {}), S.current[c] = t, NEW Q \in requeue_current(S, c, t, b)
  PROVE  Good(Q, U, {c}) /\ Q.current = S.current /\ Q.boot = S.boot
<1>1. S \in SchedType
  BY DEF Good
<1>2. CASE c \in S.affinity[t]
  <2>1. Q \in activate_ready_task(S, t, Prefer(c), {b}) /\ {b} \in SUBSET BOOLEAN
    BY <1>2 DEF requeue_current
  <2>2. /\ Q \in SchedType /\ Q.current = S.current /\ Q.boot = S.boot
        /\ S.panic # "none" => Q.panic = S.panic
    BY <1>1, <2>1, ActivateFields
  <2>3. CASE S.panic # "none"
    BY <2>2, <2>3 DEF Good
  <2>4. CASE S.panic = "none"
    <3>1. Struct(S, U, {})
      BY <2>4 DEF Good
    <3>2. /\ Loose(S, U, {c}, t) /\ S.state[t] = "running" /\ S.running_cpu[t] = c
          /\ c \in S.online /\ t \notin U
      BY <1>1, <3>1, CurrentLoose
    <3>4. Exists(S, t)
      BY <3>2 DEF Exists
    <3>6. pick_ready_cpu(S, t, Prefer(c)) = {c}
      BY <1>2, <3>2 DEF pick_ready_cpu, Prefer
    <3>7. \A d \in pick_ready_cpu(S, t, Prefer(c)) : ~RunsElsewhere(S, t, d)
      BY <3>2, <3>6, CpuAssumption DEF RunsElsewhere
    <3>8. Good(Q, U \ {t}, {c})
      BY <1>1, <2>1, <2>4, <3>2, <3>4, <3>7, ActivateGood
    <3>9. U \ {t} = U
      BY <3>2
    <3> QED BY <2>2, <3>8, <3>9
  <2> QED BY <2>3, <2>4
<1>3. CASE c \notin S.affinity[t] /\ S.deferred[c] # NoTask
  <2>1. "deferred" \in Asserts /\ Q = Panic(S, "deferred")
    BY <1>3 DEF requeue_current, Asserts
  <2>2. Q.panic \in OkPanics \ {"none"}
    BY <1>1, <2>1, PanicFields DEF Good, OkPanics
  <2> QED BY <1>1, <2>1, <2>2, PanicFields DEF Good
<1>4. CASE c \notin S.affinity[t] /\ S.deferred[c] = NoTask
  <2>1. Q = [S EXCEPT !.rq[c] = @ \ {t}, !.deferred[c] = t]
    BY <1>4 DEF requeue_current
  <2>2. /\ Q \in SchedType /\ Q.deferred = [S.deferred EXCEPT ![c] = t]
        /\ Q.rq = [S.rq EXCEPT ![c] = S.rq[c] \ {t}]
        /\ Q.state = S.state /\ Q.ready_cpu = S.ready_cpu
        /\ Q.running_cpu = S.running_cpu /\ Q.affinity = S.affinity
        /\ Q.current = S.current /\ Q.online = S.online
        /\ Q.boot = S.boot /\ Q.panic = S.panic
    BY <1>1, <2>1 DEF SchedType
  <2>3. S.deferred \in [CPU -> Task \cup {NoTask}] /\ S.rq \in [CPU -> SUBSET Task]
    BY <1>1 DEF SchedType
  <2>4. ASSUME Struct(S, U, {}) PROVE Struct(Q, U, {c})
    <3>1. S.state[t] = "running" /\ S.running_cpu[t] = c /\ t \notin S.rq[c]
      BY <2>4 DEF Struct, CurrentAgrees, QueuesMatchTasks
    <3>2. \A d \in CPU : Q.rq[d] = S.rq[d]
      BY <2>2, <2>3, <3>1
    <3>3. CurrentAgrees(Q, {c}) /\ BootIsIdle(Q) /\ FreshIsUnplaced(Q)
      BY <2>2, <2>4 DEF Struct, CurrentAgrees, BootIsIdle, FreshIsUnplaced
    <3>4. DeferredAgrees(Q, {c})
      BY <2>2, <2>3, <2>4, <3>1 DEF Struct, DeferredAgrees
    <3>5. RunningAgrees(Q, {c})
      BY <1>4, <2>2, <2>3, <2>4, <3>1, TaskAssumption DEF Struct, RunningAgrees
    <3> QED BY <2>2, <2>4, <3>2, <3>3, <3>4, <3>5
            DEF Struct, QueuesMatchTasks, PlacementRespected, UnstartedAreUnpublished
  <2> QED BY <2>2, <2>4 DEF Good
<1> QED BY <1>2, <1>3, <1>4

\* A loose task that leaves its queue for good, or until it is woken.
LEMMA RetireStruct ==
  ASSUME NEW S \in SchedType, NEW R \in SchedType, NEW U, NEW K, NEW t \in Task,
         Loose(S, U, K, t), t \notin U,
         NEW x \in {"blocked", "exited"},
         R.state = [S.state EXCEPT ![t] = x],
         R.ready_cpu = [S.ready_cpu EXCEPT ![t] = NoCpu],
         R.running_cpu = [S.running_cpu EXCEPT ![t] = NoCpu],
         \A d \in CPU : R.rq[d] = S.rq[d] \ {t},
         R.affinity = S.affinity, R.current = S.current,
         R.deferred = S.deferred, R.online = S.online, R.boot = S.boot
  PROVE  Struct(R, U, K)
<1>2. /\ S.state \in [Task -> TaskStates] /\ S.rq \in [CPU -> SUBSET Task]
      /\ S.ready_cpu \in [Task -> CPU \cup {NoCpu}]
      /\ S.running_cpu \in [Task -> CPU \cup {NoCpu}]
  BY DEF SchedType
<1>3. QueuesMatchTasks(R)
  BY <1>2 DEF QueuesMatchTasks, Loose
<1>4. CurrentAgrees(R, K)
  BY <1>2 DEF CurrentAgrees, Loose
<1>5. DeferredAgrees(R, K)
  BY <1>2 DEF DeferredAgrees, Loose
<1>6. RunningAgrees(R, K)
  BY <1>2 DEF RunningAgrees, Loose
<1>7. PlacementRespected(R)
  BY <1>2 DEF PlacementRespected, Loose
<1>8. UnstartedAreUnpublished(R, U)
  BY <1>2 DEF UnstartedAreUnpublished, Loose
<1>9. BootIsIdle(R) /\ FreshIsUnplaced(R)
  BY <1>2 DEF BootIsIdle, FreshIsUnplaced, Loose
<1> QED BY <1>3, <1>4, <1>5, <1>6, <1>7, <1>8, <1>9 DEF Struct

\* Blocking the current task leaves the slot stale.
LEMMA BlockGood ==
  ASSUME NEW S, NEW U, NEW c \in CPU, Good(S, U, {}), S.current[c] \in Task
  PROVE  LET R == mark_blocking(S, c) IN
         Good(R, U, {c}) /\ R.current = S.current /\ R.boot = S.boot
<1> DEFINE t == S.current[c]
           R == mark_blocking(S, c)
<1>1. S \in SchedType
  BY DEF Good
<1>2. /\ R \in SchedType /\ R.state = [S.state EXCEPT ![t] = "blocked"]
      /\ R.ready_cpu = [S.ready_cpu EXCEPT ![t] = NoCpu]
      /\ R.running_cpu = [S.running_cpu EXCEPT ![t] = NoCpu]
      /\ R.rq = [S.rq EXCEPT ![c] = S.rq[c] \ {t}]
      /\ R.affinity = S.affinity /\ R.current = S.current
      /\ R.deferred = S.deferred /\ R.online = S.online
      /\ R.boot = S.boot /\ R.panic = S.panic
  BY <1>1 DEF mark_blocking, SchedType, TaskStates
<1> HIDE DEF R
<1>3. ASSUME Struct(S, U, {}) PROVE Struct(R, U, {c})
  <2>1. /\ Loose(S, U, {c}, t) /\ S.state[t] = "running" /\ t \notin U
    BY <1>1, <1>3, CurrentLoose
  <2>2. \A d \in CPU : t \notin S.rq[d]
    BY <1>3, <2>1 DEF Struct, QueuesMatchTasks
  <2>3. \A d \in CPU : R.rq[d] = S.rq[d] \ {t}
    <3>1. S.rq \in [CPU -> SUBSET Task]
      BY <1>1 DEF SchedType
    <3> QED BY <1>2, <2>2, <3>1
  <2> HIDE DEF t
  <2>4. t \in Task
    BY DEF t
  <2> QED BY <1>1, <1>2, <2>1, <2>3, <2>4, RetireStruct
<1>4. R.panic = S.panic /\ R \in SchedType
  BY <1>2
<1> QED BY <1>2, <1>3, <1>4 DEF Good, R

\* What mark_exited changes.
LEMMA ExitedFields ==
  ASSUME NEW S \in SchedType, NEW t \in Task
  PROVE  LET R == mark_exited(S, t) IN
         /\ R \in SchedType /\ R.state = [S.state EXCEPT ![t] = "exited"]
         /\ R.ready_cpu = [S.ready_cpu EXCEPT ![t] = NoCpu]
         /\ R.running_cpu = [S.running_cpu EXCEPT ![t] = NoCpu]
         /\ R.rq = S.rq
         /\ R.affinity = S.affinity /\ R.current = S.current
         /\ R.deferred = S.deferred /\ R.online = S.online
         /\ R.boot = S.boot /\ R.panic = S.panic
  BY DEF mark_exited, SchedType, TaskStates

\* So does its exit.
LEMMA ExitGood ==
  ASSUME NEW S, NEW U, NEW c \in CPU, NEW t \in Task, Good(S, U, {}), S.current[c] = t
  PROVE  LET R == mark_exited(S, t) IN
         Good(R, U, {c}) /\ R.current = S.current /\ R.boot = S.boot
<1> DEFINE R == mark_exited(S, t)
<1>1. S \in SchedType
  BY DEF Good
<1>2. /\ R \in SchedType /\ R.state = [S.state EXCEPT ![t] = "exited"]
      /\ R.ready_cpu = [S.ready_cpu EXCEPT ![t] = NoCpu]
      /\ R.running_cpu = [S.running_cpu EXCEPT ![t] = NoCpu]
      /\ R.rq = S.rq
      /\ R.affinity = S.affinity /\ R.current = S.current
      /\ R.deferred = S.deferred /\ R.online = S.online
      /\ R.boot = S.boot /\ R.panic = S.panic
  BY <1>1, ExitedFields, ZenonT(60)
<1> HIDE DEF R
<1>3. ASSUME Struct(S, U, {}) PROVE Struct(R, U, {c})
  <2>1. /\ Loose(S, U, {c}, t) /\ S.state[t] = "running" /\ t \notin U
    BY <1>1, <1>3, CurrentLoose
  <2>2. \A d \in CPU : t \notin S.rq[d]
    BY <1>3, <2>1 DEF Struct, QueuesMatchTasks
  <2>3. \A d \in CPU : R.rq[d] = S.rq[d] \ {t}
    BY <1>2, <2>2
  <2>4. Loose(S, U, {c}, t) /\ t \notin U /\ "exited" \in {"blocked", "exited"}
    BY <2>1
  <2> QED BY <1>1, <1>2, <2>3, <2>4, RetireStruct, ZenonT(60)
<1> QED BY <1>2, <1>3 DEF Good, R

\* A reschedule that keeps its task ready keeps the agreement.
LEMMA ScheduleReadyGood ==
  ASSUME NEW S, NEW U, NEW c \in CPU, NEW q \in BOOLEAN, Good(S, U, {}),
         c \notin S.boot, NEW R \in schedule_ready(S, c, q)
  PROVE  Good(R, U, {}) /\ OnlyOwn(R, S, c)
<1>1. S \in SchedType
  BY DEF Good
<1>2. CASE S.current[c] = Idle
  <2>1. Good(S, U, {c})
    BY <1>2, IdleStale
  <2>2. R \in install_next(S, c)
    BY <1>2 DEF schedule_ready
  <2> QED BY <1>1, <2>1, <2>2, InstallGood, InstallOwn
<1>3. CASE S.current[c] # Idle
  <2> DEFINE t == S.current[c]
  <2>1. t \in Task
    BY <1>1, <1>3 DEF SchedType
  <2>2. PICK b \in BOOLEAN :
          R \in UNION {install_next(Q, c) : Q \in requeue_current(S, c, t, b)}
    BY <1>3 DEF schedule_ready
  <2>3. PICK Q \in requeue_current(S, c, t, b) : R \in install_next(Q, c)
    BY <2>2
  <2>4. Good(Q, U, {c}) /\ Q.boot = S.boot /\ Q.current = S.current
    BY <2>1, <2>3, RequeueGood
  <2>5. Good(R, U, {})
    BY <2>3, <2>4, InstallGood
  <2>6. OnlyOwn(R, Q, c)
    BY <2>3, <2>4, InstallOwn DEF Good
  <2> QED BY <2>4, <2>5, <2>6 DEF OnlyOwn
<1> QED BY <1>2, <1>3

\* So do an exit and the wake of a task that waited for it.
LEMMA ScheduleExitGood ==
  ASSUME NEW S, NEW U, NEW c \in CPU, Good(S, U, {}), S.current[c] \in Task,
         c \notin S.boot, NEW R \in schedule_exit(S, c)
  PROVE  Good(R, U, {}) /\ OnlyOwn(R, S, c)
<1> DEFINE t == S.current[c]
           Woken == {S} \cup UNION {activate_ready_task(S, w, LastCpu(S, w), BOOLEAN) :
                                      w \in {u \in Task : S.state[u] = "blocked"}}
<1>1. PICK Q \in Woken : R \in install_next(mark_exited(Q, t), c)
  BY DEF schedule_exit
<1>2. Good(Q, U, {}) /\ Q.current = S.current /\ Q.boot = S.boot
  <2>1. CASE Q = S
    BY <2>1
  <2>2. CASE Q # S
    <3>1. PICK w \in {u \in Task : S.state[u] = "blocked"} :
            Q \in activate_ready_task(S, w, LastCpu(S, w), BOOLEAN)
      BY <1>1, <2>2
    <3> QED BY <3>1, WakeGood
  <2> QED BY <2>1, <2>2
<1>3. t \in Task
  OBVIOUS
<1> HIDE DEF t, Woken
<1>4. Q.current[c] = t
  BY <1>2 DEF t
<1> DEFINE E == mark_exited(Q, t)
<1>5. Good(E, U, {c}) /\ E.boot = Q.boot /\ E.current = Q.current
  BY <1>2, <1>3, <1>4, ExitGood, ZenonT(60)
<1> HIDE DEF E
<1>6. R \in install_next(E, c)
  BY <1>1 DEF E
<1>7. Good(R, U, {})
  BY <1>2, <1>5, <1>6, InstallGood
<1>8. OnlyOwn(R, E, c)
  BY <1>5, <1>6, InstallOwn DEF Good
<1> QED BY <1>2, <1>5, <1>7, <1>8 DEF OnlyOwn

(***************************************************************************)
(* Operations on other tasks                                               *)
(***************************************************************************)
\* Leaving every queue keeps a task loose.
LEMMA DequeueLoose ==
  ASSUME NEW S \in SchedType, NEW U, NEW K, NEW t \in Task, Loose(S, U, K, t)
  PROVE  LET R == dequeue_from_all_cpus(S, t) IN
         /\ R \in SchedType /\ Loose(R, U, K, t) /\ \A d \in CPU : t \notin R.rq[d]
         /\ R.state = S.state /\ R.ready_cpu = S.ready_cpu
         /\ R.running_cpu = S.running_cpu /\ R.affinity = S.affinity
         /\ R.current = S.current /\ R.deferred = S.deferred
         /\ R.online = S.online /\ R.boot = S.boot /\ R.panic = S.panic
<1> DEFINE R == dequeue_from_all_cpus(S, t)
<1>1. /\ R \in SchedType
      /\ R.rq = [d \in CPU |-> S.rq[d] \ {t}]
      /\ R.state = S.state /\ R.ready_cpu = S.ready_cpu
      /\ R.running_cpu = S.running_cpu /\ R.affinity = S.affinity
      /\ R.current = S.current /\ R.deferred = S.deferred
      /\ R.online = S.online /\ R.boot = S.boot /\ R.panic = S.panic
  BY DEF dequeue_from_all_cpus, SchedType
<1> HIDE DEF R
<1>2. Loose(R, U, K, t)
  <2>1. /\ CurrentAgrees(R, K) /\ DeferredAgrees(R, K) /\ BootIsIdle(R) /\ FreshIsUnplaced(R)
    BY <1>1 DEF Loose, CurrentAgrees, DeferredAgrees, BootIsIdle, FreshIsUnplaced
  <2>2. /\ \A u \in Task \ {t} : \A c \in CPU :
             u \in R.rq[c] <=> R.state[u] = "ready" /\ R.ready_cpu[u] = c
        /\ \A c \in CPU : t \notin R.rq[c]
        /\ \A c \in CPU : \A u \in R.rq[c] \ {t} : c \in R.online /\ c \in R.affinity[u]
    BY <1>1 DEF Loose
  <2> QED BY <1>1, <2>1, <2>2 DEF Loose
<1>3. \A d \in CPU : t \notin R.rq[d]
  BY <1>1
<1> QED BY <1>1, <1>2, <1>3 DEF R

\* Killing a task that no CPU runs, and that is not in transit, keeps the
\* agreement.
LEMMA KillGood ==
  ASSUME NEW S, NEW U, NEW t \in Task, Good(S, U, {}), S.panic = "none",
         S.state[t] \in {"ready", "blocked"}, t \notin U
  PROVE  Good(mark_exited(dequeue_from_all_cpus(S, t), t), U, {})
<1> DEFINE Q == dequeue_from_all_cpus(S, t)
           R == mark_exited(Q, t)
<1>1. S \in SchedType /\ Struct(S, U, {})
  BY DEF Good
<1>2. Loose(S, U, {}, t)
  BY <1>1, OffCpuLoose
<1>3. /\ Q \in SchedType /\ Loose(Q, U, {}, t) /\ \A d \in CPU : t \notin Q.rq[d]
      /\ Q.panic = S.panic
  BY <1>1, <1>2, DequeueLoose, ZenonT(60)
<1> HIDE DEF Q
<1>4. /\ R \in SchedType /\ R.state = [Q.state EXCEPT ![t] = "exited"]
      /\ R.ready_cpu = [Q.ready_cpu EXCEPT ![t] = NoCpu]
      /\ R.running_cpu = [Q.running_cpu EXCEPT ![t] = NoCpu]
      /\ R.rq = Q.rq
      /\ R.affinity = Q.affinity /\ R.current = Q.current
      /\ R.deferred = Q.deferred /\ R.online = Q.online
      /\ R.boot = Q.boot /\ R.panic = Q.panic
  BY <1>3, ExitedFields, ZenonT(60)
<1> HIDE DEF R
<1>5. \A d \in CPU : R.rq[d] = Q.rq[d] \ {t}
  BY <1>3, <1>4
<1>6. Struct(R, U, {})
  BY <1>3, <1>4, <1>5, RetireStruct
<1>7. Good(R, U, {})
  BY <1>3, <1>4, <1>6 DEF Good, OkPanics
<1> QED BY <1>7 DEF Q, R

\* Freeing an exited task keeps the agreement.
LEMMA ReapGood ==
  ASSUME NEW S, NEW U, NEW t \in Task, Good(S, U, {}), S.panic = "none",
         S.state[t] = "exited"
  PROVE  Good([S EXCEPT !.state[t] = "reaped"], U, {})
<1> DEFINE R == [S EXCEPT !.state[t] = "reaped"]
<1>1. S \in SchedType /\ Struct(S, U, {})
  BY DEF Good
<1>2. /\ R \in SchedType /\ R.state = [S.state EXCEPT ![t] = "reaped"]
      /\ R.ready_cpu = S.ready_cpu
      /\ R.running_cpu = S.running_cpu /\ R.affinity = S.affinity
      /\ R.rq = S.rq /\ R.current = S.current
      /\ R.deferred = S.deferred /\ R.online = S.online
      /\ R.boot = S.boot /\ R.panic = S.panic
  BY <1>1 DEF SchedType, TaskStates
<1> HIDE DEF R
<1>3. S.state \in [Task -> TaskStates]
  BY <1>1 DEF SchedType
<1>4. QueuesMatchTasks(R) /\ PlacementRespected(R) /\ UnstartedAreUnpublished(R, U)
  BY <1>1, <1>2, <1>3 DEF Struct, QueuesMatchTasks, PlacementRespected, UnstartedAreUnpublished
<1>5. CurrentAgrees(R, {}) /\ BootIsIdle(R) /\ FreshIsUnplaced(R)
  BY <1>1, <1>2, <1>3 DEF Struct, CurrentAgrees, BootIsIdle, FreshIsUnplaced
<1>6. DeferredAgrees(R, {})
  BY <1>1, <1>2, <1>3 DEF Struct, DeferredAgrees
<1>7. RunningAgrees(R, {})
  BY <1>1, <1>2, <1>3 DEF Struct, RunningAgrees
<1>8. Good(R, U, {})
  BY <1>2, <1>4, <1>5, <1>6, <1>7 DEF Good, OkPanics, Struct
<1> QED BY <1>8 DEF R

\* A policy change of a published task keeps the agreement.
LEMMA PolicyGood ==
  ASSUME NEW S, NEW U, NEW c \in CPU, NEW t \in Task, Good(S, U, {}), S.panic = "none",
         S.state[t] \in {"ready", "running"}, t \notin U, \A d \in CPU : S.deferred[d] # t
  PROVE  LET d == policy_cpu(S, c, t)
             R == refresh_task(S, t, d)
         IN  /\ d \in CPU /\ Good(R, U, {}) /\ R.boot = S.boot
             /\ \A e \in CPU : R.current[e] = S.current[e]
<1> DEFINE d == policy_cpu(S, c, t)
           D == dequeue_from_all_cpus(S, t)
<1>1. S \in SchedType /\ Struct(S, U, {})
  BY DEF Good
<1>2. CASE S.state[t] = "ready"
  <2>1. S.ready_cpu[t] # NoCpu /\ S.ready_cpu[t] \in CPU \cup {NoCpu}
    BY <1>1, <1>2 DEF Struct, UnstartedAreUnpublished, SchedType
  <2>2. d = S.ready_cpu[t] /\ d \in CPU
    BY <1>2, <2>1 DEF policy_cpu
  <2>3. d \in S.online /\ d \in S.affinity[t]
    BY <1>1, <1>2, <2>2 DEF Struct, QueuesMatchTasks, PlacementRespected
  <2>4. Loose(S, U, {}, t)
    BY <1>1, <1>2, OffCpuLoose
  <2>5. /\ D \in SchedType /\ Loose(D, U, {}, t)
        /\ D.online = S.online /\ D.affinity = S.affinity /\ D.panic = S.panic
        /\ D.current = S.current /\ D.boot = S.boot
    <3>1. S \in SchedType
      BY <1>1
    <3> QED BY <3>1, <2>4, DequeueLoose, ZenonT(60)
  <2>6. refresh_task(S, t, d) = enqueue_ready_on_cpu(D, t, d)
    BY <1>2 DEF refresh_task
  <2> HIDE DEF d, D
  <2>7. ~RunsElsewhere(D, t, d)
    BY <2>2, <2>5, LooseRunsNowhere
  <2>8. refresh_task(S, t, d) = insert_ready(D, t, d)
    BY <2>3, <2>5, <2>6, <2>7 DEF enqueue_ready_on_cpu
  <2>9. Struct(insert_ready(D, t, d), U \ {t}, {})
    BY <2>2, <2>3, <2>5, InsertStruct
  <2>10. U \ {t} = U
    OBVIOUS
  <2>11. /\ insert_ready(D, t, d) \in SchedType
         /\ insert_ready(D, t, d).panic = D.panic
         /\ insert_ready(D, t, d).current = D.current
         /\ insert_ready(D, t, d).boot = D.boot
    BY <2>2, <2>5, InsertKeeps
  <2>12. /\ Good(refresh_task(S, t, d), U, {})
         /\ refresh_task(S, t, d).current = S.current
         /\ refresh_task(S, t, d).boot = S.boot
    BY <2>5, <2>8, <2>9, <2>10, <2>11 DEF Good, OkPanics
  <2> QED BY <2>2, <2>12 DEF d
<1>3. CASE S.state[t] = "running"
  <2>1. S.running_cpu[t] \in CPU /\ S.current[S.running_cpu[t]] = t
    BY <1>1, <1>3 DEF Struct, RunningAgrees
  <2>2. d = S.running_cpu[t] /\ d \in CPU /\ S.current[d] = t
    BY <1>3, <2>1 DEF policy_cpu
  <2> DEFINE R == [D EXCEPT !.current[d] = t, !.cached[d] = S.affinity[t]]
  <2>3. refresh_task(S, t, d) = R
    BY <1>3 DEF refresh_task
  <2> HIDE DEF d
  <2>4. \A e \in CPU : t \notin S.rq[e]
    BY <1>1, <1>3 DEF Struct, QueuesMatchTasks
  <2>5. /\ R \in SchedType /\ R.rq = [e \in CPU |-> S.rq[e] \ {t}]
        /\ R.state = S.state /\ R.ready_cpu = S.ready_cpu
        /\ R.running_cpu = S.running_cpu /\ R.affinity = S.affinity
        /\ R.current = [S.current EXCEPT ![d] = t]
        /\ R.deferred = S.deferred /\ R.online = S.online
        /\ R.boot = S.boot /\ R.panic = S.panic
    BY <1>1, <2>2 DEF dequeue_from_all_cpus, SchedType
  <2> HIDE DEF R
  <2>6. \A e \in CPU : R.rq[e] = S.rq[e]
    BY <2>4, <2>5
  <2>7. \A e \in CPU : R.current[e] = S.current[e]
    BY <1>1, <2>2, <2>5 DEF SchedType
  <2>8. S.boot \subseteq CPU
    BY <1>1 DEF SchedType
  <2>9. QueuesMatchTasks(R) /\ PlacementRespected(R) /\ UnstartedAreUnpublished(R, U)
    BY <1>1, <2>5, <2>6 DEF Struct, QueuesMatchTasks, PlacementRespected, UnstartedAreUnpublished
  <2>10. CurrentAgrees(R, {}) /\ BootIsIdle(R) /\ FreshIsUnplaced(R)
    BY <1>1, <2>5, <2>7, <2>8 DEF Struct, CurrentAgrees, BootIsIdle, FreshIsUnplaced
  <2>11. DeferredAgrees(R, {}) /\ RunningAgrees(R, {})
    BY <1>1, <2>5, <2>7 DEF Struct, DeferredAgrees, RunningAgrees
  <2>12. Good(R, U, {})
    BY <2>5, <2>9, <2>10, <2>11 DEF Good, OkPanics, Struct
  <2> QED BY <2>2, <2>3, <2>5, <2>7, <2>12 DEF d
<1> QED BY <1>2, <1>3

\* A change of affinity to a mask with an online CPU keeps the agreement, for a
\* task in transit too.
LEMMA AffinityGood ==
  ASSUME NEW S, NEW U, NEW t \in Task, NEW mask \in SUBSET CPU,
         Good(S, U, {}), S.panic = "none", mask \cap S.online # {},
         NEW R \in set_affinity(S, t, mask)
  PROVE  Good(R, U, {}) /\ R.current = S.current /\ R.boot = S.boot
<1> DEFINE A == [S EXCEPT !.affinity[t] = mask]
<1>1. S \in SchedType /\ Struct(S, U, {})
  BY DEF Good
<1>2. /\ A \in SchedType /\ A.affinity = [S.affinity EXCEPT ![t] = mask]
      /\ A.state = S.state /\ A.ready_cpu = S.ready_cpu
      /\ A.running_cpu = S.running_cpu /\ A.rq = S.rq
      /\ A.current = S.current /\ A.deferred = S.deferred
      /\ A.online = S.online /\ A.boot = S.boot /\ A.panic = S.panic
  BY <1>1 DEF SchedType
<1>a. /\ S.state[t] = "ready" /\ S.ready_cpu[t] \in CPU \ mask
         => R \in activate_ready_task(A, t, LeastLoaded, BOOLEAN)
      /\ ~(S.state[t] = "ready" /\ S.ready_cpu[t] \in CPU \ mask)
         => R = A \/ (/\ S.state[t] = "running"
                       /\ R = request_reschedule(A, S.running_cpu[t], TRUE, FALSE))
  BY DEF set_affinity
<1> HIDE DEF A
<1>3. /\ S.affinity \in [Task -> SUBSET CPU] /\ S.rq \in [CPU -> SUBSET Task]
      /\ S.running_cpu \in [Task -> CPU \cup {NoCpu}]
  BY <1>1 DEF SchedType
<1>4. \A u \in Task : A.online \cap A.affinity[u] # {}
  BY <1>1, <1>2, <1>3 DEF Struct, PlacementRespected
<1>5. /\ CurrentAgrees(A, {}) /\ BootIsIdle(A) /\ FreshIsUnplaced(A)
      /\ DeferredAgrees(A, {}) /\ RunningAgrees(A, {})
      /\ QueuesMatchTasks(A) /\ UnstartedAreUnpublished(A, U)
  BY <1>1, <1>2 DEF Struct, CurrentAgrees, BootIsIdle, FreshIsUnplaced, DeferredAgrees,
     RunningAgrees, QueuesMatchTasks, UnstartedAreUnpublished
<1>6. CASE S.state[t] = "ready" /\ S.ready_cpu[t] \in CPU \ mask
  <2>1. \A d \in CPU : A.current[d] # t /\ A.deferred[d] # t
    BY <1>2, <1>5, <1>6 DEF CurrentAgrees, DeferredAgrees
  <2>2. \A d \in CPU : \A u \in A.rq[d] \ {t} : d \in A.online /\ d \in A.affinity[u]
    BY <1>1, <1>2, <1>3 DEF Struct, PlacementRespected
  <2>3. Loose(A, U, {}, t)
    BY <1>4, <1>5, <2>1, <2>2 DEF Loose, QueuesMatchTasks, RunningAgrees, UnstartedAreUnpublished
  <2>4. \A d \in pick_ready_cpu(A, t, LeastLoaded) : ~RunsElsewhere(A, t, d)
    BY <1>2, <2>3, LooseRunsNowhere, PickUsable
  <2>5. Exists(A, t) /\ t \notin U
    BY <1>1, <1>2, <1>6, CpuAssumption DEF Exists, Struct, UnstartedAreUnpublished
  <2>6. R \in activate_ready_task(A, t, LeastLoaded, BOOLEAN)
    BY <1>a, <1>6
  <2>7. Good(R, U \ {t}, {})
    BY <1>2, <2>3, <2>4, <2>5, <2>6, ActivateGood
  <2>8. U \ {t} = U
    BY <2>5
  <2>9. R.current = A.current /\ R.boot = A.boot
    BY <1>2, <2>6, ActivateFields
  <2> QED BY <1>2, <2>7, <2>8, <2>9
<1>7. CASE ~(S.state[t] = "ready" /\ S.ready_cpu[t] \in CPU \ mask)
  <2>1. PlacementRespected(A)
    <3>1. \A d \in CPU : \A u \in A.rq[d] : d \in A.online /\ d \in A.affinity[u]
      BY <1>1, <1>2, <1>3, <1>7 DEF Struct, PlacementRespected, QueuesMatchTasks
    <3> QED BY <1>4, <3>1 DEF PlacementRespected
  <2>2. Good(A, U, {})
    BY <1>2, <1>5, <2>1 DEF Good, OkPanics, Struct
  <2>3. CASE R = A
    BY <1>2, <2>2, <2>3
  <2>4. CASE S.state[t] = "running" /\ R = request_reschedule(A, S.running_cpu[t], TRUE, FALSE)
    <3>1. S.running_cpu[t] \in CPU
      BY <1>1, <2>4 DEF Struct, RunningAgrees
    <3>2. R \in SchedType /\ SameCore(R, A)
      BY <1>2, <2>4, <3>1, RequestSameCore
    <3>3. Good(R, U, {})
      BY <2>2, <3>2, SameCoreGood
    <3> QED BY <1>2, <3>2, <3>3 DEF SameCore
  <2> QED BY <1>a, <1>7, <2>3, <2>4
<1> QED BY <1>6, <1>7

(***************************************************************************)
(* Creation and bring-up                                                   *)
(***************************************************************************)
\* A created task is ready, in no queue, and allowed on an online CPU.
LEMMA CreateGood ==
  ASSUME NEW S, NEW U, NEW c \in CPU, NEW t \in Task, Good(S, U, {}), S.panic = "none",
         S.state[t] = "none", NEW R \in new_task(S, c, t)
  PROVE  Good(R, U \cup {t}, {}) /\ R.panic = "none" /\ R.current = S.current /\ t \notin U
<1>1. S \in SchedType /\ Struct(S, U, {})
  BY DEF Good
<1>2. PICK m \in {CPU} \cup {S.affinity[p] : p \in {S.current[c]} \cap Task} :
        R = [S EXCEPT !.state[t] = "ready", !.affinity[t] = m]
  BY DEF new_task
<1>3. m \in SUBSET CPU /\ m \cap S.online # {}
  <2>1. \A u \in Task : S.affinity[u] \subseteq CPU /\ S.online \cap S.affinity[u] # {}
    BY <1>1 DEF Struct, PlacementRespected, SchedType
  <2> QED BY <1>2, <2>1
<1>4. /\ R \in SchedType /\ R.affinity = [S.affinity EXCEPT ![t] = m]
      /\ R.state = [S.state EXCEPT ![t] = "ready"] /\ R.ready_cpu = S.ready_cpu
      /\ R.running_cpu = S.running_cpu /\ R.rq = S.rq
      /\ R.current = S.current /\ R.deferred = S.deferred
      /\ R.online = S.online /\ R.boot = S.boot /\ R.panic = S.panic
  BY <1>1, <1>2, <1>3 DEF SchedType, TaskStates
<1>5. /\ S.state \in [Task -> TaskStates] /\ S.affinity \in [Task -> SUBSET CPU]
      /\ S.rq \in [CPU -> SUBSET Task]
  BY <1>1 DEF SchedType
<1>6. S.ready_cpu[t] = NoCpu /\ t \notin U /\ \A d \in CPU : t \notin S.rq[d]
  BY <1>1 DEF Struct, FreshIsUnplaced, UnstartedAreUnpublished, QueuesMatchTasks
<1>7. QueuesMatchTasks(R)
  BY <1>1, <1>4, <1>5, <1>6, CpuAssumption DEF Struct, QueuesMatchTasks
<1>8. PlacementRespected(R)
  BY <1>1, <1>3, <1>4, <1>5, <1>6 DEF Struct, PlacementRespected
<1>9. UnstartedAreUnpublished(R, U \cup {t})
  BY <1>1, <1>4, <1>5, <1>6 DEF Struct, UnstartedAreUnpublished
<1>10. CurrentAgrees(R, {}) /\ BootIsIdle(R) /\ FreshIsUnplaced(R)
  BY <1>1, <1>4, <1>5 DEF Struct, CurrentAgrees, BootIsIdle, FreshIsUnplaced
<1>11. DeferredAgrees(R, {})
  BY <1>1, <1>4, <1>5 DEF Struct, DeferredAgrees
<1>12. RunningAgrees(R, {})
  BY <1>1, <1>4, <1>5 DEF Struct, RunningAgrees
<1> QED BY <1>4, <1>6, <1>7, <1>8, <1>9, <1>10, <1>11, <1>12 DEF Good, OkPanics, Struct

\* A discarded task leaves no trace.
LEMMA DiscardGood ==
  ASSUME NEW S, NEW U, NEW t \in Task, Good(S, U, {}), S.panic = "none", t \in U
  PROVE  Good(discard_task(S, t), U \ {t}, {})
<1> DEFINE R == discard_task(S, t)
<1>1. S \in SchedType /\ Struct(S, U, {})
  BY DEF Good
<1>2. /\ R \in SchedType /\ R.rq = [d \in CPU |-> S.rq[d] \ {t}]
      /\ R.state = [S.state EXCEPT ![t] = "reaped"]
      /\ R.ready_cpu = [S.ready_cpu EXCEPT ![t] = NoCpu]
      /\ R.running_cpu = S.running_cpu /\ R.affinity = S.affinity
      /\ R.current = S.current /\ R.deferred = S.deferred
      /\ R.online = S.online /\ R.boot = S.boot /\ R.panic = S.panic
  BY <1>1 DEF discard_task, dequeue_from_all_cpus, SchedType, TaskStates
<1> HIDE DEF R
<1>3. /\ S.state \in [Task -> TaskStates] /\ S.rq \in [CPU -> SUBSET Task]
      /\ S.ready_cpu \in [Task -> CPU \cup {NoCpu}]
  BY <1>1 DEF SchedType
<1>4. S.state[t] = "ready" /\ S.ready_cpu[t] = NoCpu
  BY <1>1 DEF Struct, UnstartedAreUnpublished
<1>5. QueuesMatchTasks(R)
  BY <1>1, <1>2, <1>3 DEF Struct, QueuesMatchTasks
<1>6. PlacementRespected(R)
  BY <1>1, <1>2, <1>3 DEF Struct, PlacementRespected
<1>7. UnstartedAreUnpublished(R, U \ {t})
  BY <1>1, <1>2, <1>3 DEF Struct, UnstartedAreUnpublished
<1>8. CurrentAgrees(R, {}) /\ BootIsIdle(R) /\ FreshIsUnplaced(R)
  BY <1>1, <1>2, <1>3, <1>4 DEF Struct, CurrentAgrees, BootIsIdle, FreshIsUnplaced
<1>9. DeferredAgrees(R, {})
  BY <1>1, <1>2, <1>3, <1>4 DEF Struct, DeferredAgrees
<1>10. RunningAgrees(R, {})
  BY <1>1, <1>2, <1>3, <1>4 DEF Struct, RunningAgrees
<1>11. Good(R, U \ {t}, {})
  BY <1>2, <1>5, <1>6, <1>7, <1>8, <1>9, <1>10 DEF Good, OkPanics, Struct
<1> QED BY <1>11 DEF R

\* A CPU that comes online takes nothing from anybody.
LEMMA OnlineGood ==
  ASSUME NEW S, NEW U, NEW c \in CPU, Good(S, U, {}), S.panic = "none"
  PROVE  Good([S EXCEPT !.online = @ \cup {c}], U, {})
<1> DEFINE R == [S EXCEPT !.online = @ \cup {c}]
<1>1. S \in SchedType /\ Struct(S, U, {})
  BY DEF Good
<1>2. /\ R \in SchedType /\ R.rq = S.rq /\ R.state = S.state
      /\ R.ready_cpu = S.ready_cpu
      /\ R.running_cpu = S.running_cpu /\ R.affinity = S.affinity
      /\ R.current = S.current /\ R.deferred = S.deferred
      /\ R.online = S.online \cup {c} /\ R.boot = S.boot /\ R.panic = S.panic
  BY <1>1 DEF SchedType
<1> HIDE DEF R
<1>3. QueuesMatchTasks(R) /\ PlacementRespected(R) /\ UnstartedAreUnpublished(R, U)
  BY <1>1, <1>2 DEF Struct, QueuesMatchTasks, PlacementRespected, UnstartedAreUnpublished
<1>4. CurrentAgrees(R, {}) /\ BootIsIdle(R) /\ FreshIsUnplaced(R)
  BY <1>1, <1>2 DEF Struct, CurrentAgrees, BootIsIdle, FreshIsUnplaced
<1>5. DeferredAgrees(R, {}) /\ RunningAgrees(R, {})
  BY <1>1, <1>2 DEF Struct, DeferredAgrees, RunningAgrees
<1>6. Good(R, U, {})
  BY <1>2, <1>3, <1>4, <1>5 DEF Good, OkPanics, Struct
<1> QED BY <1>6 DEF R

\* Leaving the boot stack.
LEMMA LeaveBootGood ==
  ASSUME NEW S, NEW U, NEW c \in CPU, Good(S, U, {}), S.panic = "none"
  PROVE  LET R == [S EXCEPT !.boot = @ \ {c}] IN
         Good(R, U, {}) /\ c \notin R.boot /\ R.current = S.current
<1> DEFINE R == [S EXCEPT !.boot = @ \ {c}]
<1>1. S \in SchedType /\ Struct(S, U, {})
  BY DEF Good
<1>2. /\ R \in SchedType /\ R.rq = S.rq /\ R.state = S.state
      /\ R.ready_cpu = S.ready_cpu
      /\ R.running_cpu = S.running_cpu /\ R.affinity = S.affinity
      /\ R.current = S.current /\ R.deferred = S.deferred
      /\ R.online = S.online /\ R.boot = S.boot \ {c} /\ R.panic = S.panic
  BY <1>1 DEF SchedType
<1> HIDE DEF R
<1>3. QueuesMatchTasks(R) /\ PlacementRespected(R) /\ UnstartedAreUnpublished(R, U)
  BY <1>1, <1>2 DEF Struct, QueuesMatchTasks, PlacementRespected, UnstartedAreUnpublished
<1>4. CurrentAgrees(R, {}) /\ BootIsIdle(R) /\ FreshIsUnplaced(R)
  BY <1>1, <1>2 DEF Struct, CurrentAgrees, BootIsIdle, FreshIsUnplaced
<1>5. DeferredAgrees(R, {}) /\ RunningAgrees(R, {})
  BY <1>1, <1>2 DEF Struct, DeferredAgrees, RunningAgrees
<1>6. Good(R, U, {})
  BY <1>2, <1>3, <1>4, <1>5 DEF Good, OkPanics, Struct
<1> QED BY <1>2, <1>6 DEF R

(***************************************************************************)
(* The steps                                                               *)
(***************************************************************************)
\* A scheduling entry that leaves the lock with a good structure.
LEMMA LeaveInv ==
  ASSUME Inv, NEW c \in CPU, NEW S, Good(S, unstarted, {}), OnlyOwn(S, sched, c),
         NEW p \in {"run", "call"}, leave(c, S, p),
         phase[c] \in {"run", "call", "yield"}, c \notin sched.boot,
         NEW T \in SUBSET CPU, NEW W \in SUBSET CPU, send_ipi(T, W)
  PROVE  Inv' /\ OwnSwitch
<1>1. S \in SchedType /\ S.current[c] \in Task \cup {Idle} /\ TypeOK
  BY DEF Good, SchedType, Inv
<1>2. sched' = S /\ unstarted' = unstarted /\ hw' = hw /\ frame_cpu' = frame_cpu
  BY DEF leave
<1>3. phase' \in [CPU -> Phases] /\ next' \in [CPU -> Task \cup {Idle, NoTask}]
  BY <1>1 DEF TypeOK, leave, Phases
<1>4. ipi' \subseteq CPU
  BY DEF send_ipi
<1>5. \A d \in CPU \ {c} : phase'[d] = phase[d] /\ next'[d] = next[d]
  BY <1>1 DEF TypeOK, leave
<1>6. IF S.current[c] = sched.current[c] THEN phase'[c] = p
      ELSE phase'[c] = "switch" /\ next'[c] = S.current[c]
  BY <1>1 DEF TypeOK, leave
<1>7. HwAgrees'
  BY <1>2, <1>5, <1>6 DEF Inv, HwAgrees, OnlyOwn
<1>8. OwnSwitch
  BY <1>2, <1>6 DEF OwnSwitch, OnlyOwn
<1> QED BY <1>1, <1>2, <1>3, <1>4, <1>7, <1>8 DEF Inv, TypeOK

\* An operation that leaves the current tasks alone.
LEMMA PlainInv ==
  ASSUME Inv, NEW S, NEW U \in SUBSET Task, unstarted' = U, sched' = S, Good(S, U, {}),
         S.boot = sched.boot, \A d \in CPU : S.current[d] = sched.current[d],
         UNCHANGED <<next, hw, frame_cpu>>, ipi' \subseteq CPU,
         phase' \in [CPU -> Phases],
         \A d \in CPU : phase'[d] = phase[d] \/ (/\ phase[d] # "switch" /\ phase'[d] # "switch"
                                               /\ (d \in sched.boot => phase'[d] \in {"run", "call"}))
  PROVE  Inv' /\ OwnSwitch
<1>1. HwAgrees'
  BY DEF Inv, HwAgrees
<1>2. TypeOK'
  BY DEF Inv, TypeOK, Good
<1>3. OwnSwitch
  BY DEF OwnSwitch
<1> QED BY <1>1, <1>2, <1>3 DEF Inv

\* ... and dispatches the requests it made.
LEMMA ReleaseInv ==
  ASSUME Inv, NEW c \in CPU, NEW S, NEW U \in SUBSET Task, unstarted' = U,
         Good(S, U, {}), S.boot = sched.boot, S.current = sched.current,
         phase[c] # "switch", release(c, S)
  PROVE  Inv' /\ OwnSwitch
<1> DEFINE D == take_pending_reschedule_cpus(S)
<1>1. S \in SchedType /\ S.pending \subseteq CPU
  BY DEF Good, SchedType
<1>2. D \in SchedType /\ SameCore(D, S)
  BY <1>1, TakeSameCore, CpuAssumption
<1>3. Good(D, U, {}) /\ D.boot = S.boot /\ D.current = S.current
  BY <1>2, SameCoreGood DEF SameCore
<1>4. /\ send_ipi(S.pending \ {c}, ipi) /\ ipi \subseteq CPU
      /\ phase' = [phase EXCEPT ![c] = IF c \in S.pending THEN "call" ELSE phase[c]]
      /\ sched' = D /\ UNCHANGED <<next, hw, frame_cpu>>
  BY DEF release, dispatch_reschedules, Inv, TypeOK
<1>5. ipi' \subseteq CPU
  BY <1>1, <1>4 DEF send_ipi
<1>6. phase' = [phase EXCEPT ![c] = "call"] \/ phase' = phase
  BY <1>4 DEF Inv, TypeOK
<1>7. /\ phase' \in [CPU -> Phases]
      /\ \A d \in CPU : phase'[d] = phase[d] \/ (/\ phase[d] # "switch" /\ phase'[d] # "switch"
                                                /\ (d \in sched.boot => phase'[d] \in {"run", "call"}))
  BY <1>6 DEF Inv, TypeOK, Phases
<1> HIDE DEF D
<1>8. \A d \in CPU : D.current[d] = sched.current[d]
  BY <1>3
<1> QED BY <1>3, <1>4, <1>5, <1>7, <1>8, PlainInv

\* The epilogue of a scheduling entry of c whose section ended with R.
LEMMA EntryInv ==
  ASSUME Inv, NEW c \in CPU, NEW R, Good(R, unstarted, {}), OnlyOwn(R, sched, c),
         NEW p \in {"run", "call"}, NEW W \in SUBSET CPU, finish(c, R, p, W),
         phase[c] \in {"run", "call", "yield"}, c \notin sched.boot
  PROVE  Inv' /\ OwnSwitch
<1> DEFINE D == drain_local(R, c)
<1>1. Good(D, unstarted, {}) /\ D.current = R.current /\ D.boot = R.boot
  BY DrainGood
<1>2. R.pending \ {c} \in SUBSET CPU
  BY DEF Good, SchedType
<1> HIDE DEF D
<1>3. OnlyOwn(D, sched, c)
  BY <1>1 DEF OnlyOwn
<1>4. leave(c, D, p) /\ send_ipi(R.pending \ {c}, W)
  BY DEF D, finish
<1> QED BY <1>1, <1>2, <1>3, <1>4, LeaveInv

\* suspend_current_and_run_next and sleep(0).
LEMMA YieldInv ==
  ASSUME Inv, NEW c \in CPU, Yield(c) PROVE Inv' /\ OwnSwitch
<1>1. /\ Good(sched, unstarted, {}) /\ c \notin sched.boot
      /\ ipi \in SUBSET CPU /\ phase[c] \in {"run", "call", "yield"}
  BY DEF Inv, TypeOK, HwAgrees, Yield, RunsTask, Interruptible
<1>2. PICK Q \in activate_woken_and_timeout_tasks(sched, c) :
        \E R \in schedule_ready(Q, c, FALSE) :
          finish(c, R, "run", ipi)
  BY DEF Yield
<1>3. PICK R \in schedule_ready(Q, c, FALSE) :
          finish(c, R, "run", ipi)
  BY <1>2
<1>4. Good(Q, unstarted, {}) /\ Q.boot = sched.boot /\ Q.current = sched.current
  BY <1>1, <1>2, DueGood
<1>5. Good(R, unstarted, {}) /\ OnlyOwn(R, Q, c)
  BY <1>1, <1>3, <1>4, ScheduleReadyGood
<1>6. OnlyOwn(R, sched, c)
  BY <1>4, <1>5 DEF OnlyOwn
<1> QED BY <1>1, <1>3, <1>5, <1>6, EntryInv

\* block_current, sleep_current_for_ticks, wait_current*.
LEMMA BlockInv ==
  ASSUME Inv, NEW c \in CPU, Block(c) PROVE Inv' /\ OwnSwitch
<1>1. /\ Good(sched, unstarted, {}) /\ c \notin sched.boot /\ sched.current[c] \in Task
      /\ ipi \in SUBSET CPU /\ phase[c] \in {"run", "call", "yield"}
  BY DEF Inv, TypeOK, Block, RunsTask, Interruptible
<1>2. PICK Q \in activate_woken_and_timeout_tasks(sched, c) :
        \E R \in install_next(mark_blocking(Q, c), c) :
          finish(c, R, "run", ipi)
  BY DEF Block
<1>3. PICK R \in install_next(mark_blocking(Q, c), c) :
          finish(c, R, "run", ipi)
  BY <1>2
<1>4. Good(Q, unstarted, {}) /\ Q.current = sched.current /\ Q.boot = sched.boot
  BY <1>1, <1>2, DueGood
<1> DEFINE M == mark_blocking(Q, c)
<1>5. Good(M, unstarted, {c}) /\ M.boot = Q.boot /\ M.current = Q.current
  <2>1. Q.current[c] \in Task
    BY <1>1, <1>4
  <2> QED BY <1>4, <2>1, BlockGood, ZenonT(60)
<1> HIDE DEF M
<1>6. R \in install_next(M, c)
  BY <1>3 DEF M
<1>7. Good(R, unstarted, {})
  BY <1>1, <1>4, <1>5, <1>6, InstallGood
<1>8. OnlyOwn(R, M, c)
  BY <1>5, <1>6, InstallOwn DEF Good
<1>9. OnlyOwn(R, sched, c)
  BY <1>4, <1>5, <1>8 DEF OnlyOwn
<1> QED BY <1>1, <1>3, <1>7, <1>9, EntryInv

\* wait_current* on a target that is ready.
LEMMA WaitReadyInv ==
  ASSUME Inv, NEW c \in CPU, WaitReady(c) PROVE Inv' /\ OwnSwitch
<1>1. /\ Good(sched, unstarted, {}) /\ c \notin sched.boot
      /\ ipi \in SUBSET CPU /\ phase[c] \in {"run", "call", "yield"}
  BY DEF Inv, TypeOK, WaitReady, RunsTask, Interruptible
<1>2. PICK Q \in activate_woken_and_timeout_tasks(sched, c) :
        finish(c, Q, "run", ipi)
  BY DEF WaitReady
<1>3. Good(Q, unstarted, {}) /\ OnlyOwn(Q, sched, c)
  BY <1>1, <1>2, DueGood DEF OnlyOwn
<1> QED BY <1>1, <1>2, <1>3, EntryInv

\* exit_current.
LEMMA ExitInv ==
  ASSUME Inv, NEW c \in CPU, Exit(c) PROVE Inv' /\ OwnSwitch
<1>1. /\ Good(sched, unstarted, {}) /\ c \notin sched.boot /\ sched.current[c] \in Task
      /\ ipi \in SUBSET CPU /\ phase[c] \in {"run", "call", "yield"}
  BY DEF Inv, TypeOK, Exit, RunsTask, Interruptible
<1>2. PICK Q \in activate_woken_and_timeout_tasks(sched, c) :
        \E R \in schedule_exit(Q, c) :
          finish(c, R, "run", ipi)
  BY DEF Exit
<1>3. PICK R \in schedule_exit(Q, c) :
          finish(c, R, "run", ipi)
  BY <1>2
<1>4. /\ Good(Q, unstarted, {}) /\ Q.current = sched.current /\ Q.boot = sched.boot
  BY <1>1, <1>2, DueGood
<1>5. Good(R, unstarted, {}) /\ OnlyOwn(R, Q, c)
  BY <1>1, <1>3, <1>4, ScheduleExitGood
<1>6. OnlyOwn(R, sched, c)
  BY <1>4, <1>5 DEF OnlyOwn
<1> QED BY <1>1, <1>3, <1>5, <1>6, EntryInv

\* The first schedule(Tick) ...
LEMMA OnTickGood ==
  ASSUME NEW S, NEW U, NEW c \in CPU, NEW b, Good(S, U, {}), c \notin S.boot,
         NEW R \in schedule_on_tick(S, c, b)
  PROVE  Good(R, U, {}) /\ OnlyOwn(R, S, c)
<1>1. PICK Q \in activate_woken_and_timeout_tasks(S, c) :
        R \in schedule_ready(Q, c, TRUE) \/ R = Q
  BY DEF schedule_on_tick
<1>2. Good(Q, U, {}) /\ Q.boot = S.boot /\ Q.current = S.current
  BY <1>1, DueGood
<1>3. CASE R = Q
  BY <1>2, <1>3 DEF OnlyOwn
<1>4. CASE R \in schedule_ready(Q, c, TRUE)
  <2>1. Good(R, U, {}) /\ OnlyOwn(R, Q, c)
    BY <1>2, <1>4, ScheduleReadyGood
  <2> QED BY <1>2, <2>1 DEF OnlyOwn
<1> QED BY <1>1, <1>3, <1>4

\* ... and the second one, for a request that no IPI served.
LEMMA AfterTickGood ==
  ASSUME NEW S, NEW U, NEW c \in CPU, Good(S, U, {}), c \notin S.boot,
         NEW R \in after_tick(S, c)
  PROVE  Good(R, U, {}) /\ OnlyOwn(R, S, c)
<1> DEFINE P == take_pending_reschedule_cpus(S)
           D == take_need_resched(P, c)
<1>1. S \in SchedType
  BY DEF Good
<1>2. P \in SchedType /\ SameCore(P, S)
  BY <1>1, TakeSameCore
<1>3. Good(P, U, {})
  BY <1>2, SameCoreGood
<1>4. D \in SchedType /\ SameCore(D, P)
  BY <1>2, TakeSameCore
<1>5. Good(D, U, {}) /\ D.boot = S.boot /\ D.current = S.current
  BY <1>2, <1>3, <1>4, SameCoreGood DEF SameCore
<1>6. R \in schedule_ready(D, c, FALSE) \/ R = D
  BY DEF after_tick
<1> HIDE DEF D
<1>7. CASE R = D
  BY <1>5, <1>7 DEF OnlyOwn
<1>8. CASE R \in schedule_ready(D, c, FALSE)
  <2>1. Good(R, U, {}) /\ OnlyOwn(R, D, c)
    BY <1>5, <1>8, ScheduleReadyGood
  <2> QED BY <1>5, <2>1 DEF OnlyOwn
<1> QED BY <1>6, <1>7, <1>8

\* schedule_tick.
LEMMA TickInv ==
  ASSUME Inv, NEW c \in CPU, Tick(c) PROVE Inv' /\ OwnSwitch
<1>1. /\ Good(sched, unstarted, {}) /\ c \notin sched.boot
      /\ ipi \in SUBSET CPU /\ phase[c] \in {"run", "call", "yield"}
  BY DEF Inv, TypeOK, Tick, Interruptible
<1>2. PICK b \in BOOLEAN : \E Q \in schedule_on_tick(sched, c, b) :
        \E R \in after_tick(Q, c) :
          /\ leave(c, R, phase[c])
          /\ send_ipi(Q.pending \ {c}, ipi)
  BY DEF Tick
<1>3. PICK Q \in schedule_on_tick(sched, c, b) :
        \E R \in after_tick(Q, c) :
          /\ leave(c, R, phase[c])
          /\ send_ipi(Q.pending \ {c}, ipi)
  BY <1>2
<1>4. PICK R \in after_tick(Q, c) :
          /\ leave(c, R, phase[c])
          /\ send_ipi(Q.pending \ {c}, ipi)
  BY <1>3
<1>5. Good(Q, unstarted, {}) /\ OnlyOwn(Q, sched, c)
  BY <1>1, <1>3, OnTickGood
<1>6. Good(R, unstarted, {}) /\ OnlyOwn(R, Q, c)
  <2>1. c \notin Q.boot
    BY <1>1, <1>5 DEF OnlyOwn
  <2> QED BY <1>4, <1>5, <2>1, AfterTickGood
<1>7. OnlyOwn(R, sched, c)
  BY <1>5, <1>6 DEF OnlyOwn
<1>8. Q.pending \ {c} \in SUBSET CPU
  BY <1>5 DEF Good, SchedType
<1>9. phase[c] \in {"run", "call"}
  BY DEF Tick, Interruptible
<1> QED BY <1>1, <1>4, <1>6, <1>7, <1>8, <1>9, LeaveInv

\* schedule_reschedule ...
LEMMA ScheduleRescheduleInv ==
  ASSUME Inv, NEW c \in CPU, NEW p \in {"run", "call"}, NEW W \in SUBSET CPU,
         phase[c] \in {"run", "call"}, schedule_reschedule(c, p, W)
  PROVE  Inv' /\ OwnSwitch
<1>1. Good(sched, unstarted, {}) /\ TypeOK
  BY DEF Inv
<1>2. CASE c \in sched.boot
  <2>1. /\ ipi' = W /\ phase' = [phase EXCEPT ![c] = p]
        /\ UNCHANGED <<sched, next, hw, frame_cpu, unstarted>>
    BY <1>2 DEF schedule_reschedule
  <2>2. TypeOK'
    BY <1>1, <2>1 DEF TypeOK, Phases
  <2>3. \A d \in CPU : phase'[d] = phase[d] \/ (phase[d] # "switch" /\ phase'[d] \in {"run", "call"})
    BY <1>1, <2>1 DEF TypeOK
  <2>4. HwAgrees'
    BY <1>1, <1>2, <2>1 DEF Inv, HwAgrees, TypeOK
  <2> QED BY <1>1, <2>1, <2>2, <2>4 DEF Inv, OwnSwitch
<1>3. CASE c \notin sched.boot
  <2>1. PICK R \in IF sched.need_resched[c]
                    THEN schedule_ready(take_need_resched(sched, c), c, FALSE)
                    ELSE {sched} : finish(c, R, p, W)
    BY <1>3 DEF schedule_reschedule
  <2>2. Good(R, unstarted, {}) /\ OnlyOwn(R, sched, c)
    <3>1. CASE ~sched.need_resched[c]
      BY <1>1, <2>1, <3>1 DEF OnlyOwn
    <3>2. CASE sched.need_resched[c]
      <4> DEFINE D == take_need_resched(sched, c)
      <4>1. D \in SchedType /\ SameCore(D, sched)
        BY <1>1, TakeSameCore DEF Good
      <4>2. Good(D, unstarted, {}) /\ D.boot = sched.boot /\ D.current = sched.current
        BY <1>1, <4>1, SameCoreGood DEF SameCore
      <4> HIDE DEF D
      <4>3. R \in schedule_ready(D, c, FALSE)
        BY <2>1, <3>2 DEF D
      <4>4. Good(R, unstarted, {}) /\ OnlyOwn(R, D, c)
        BY <1>3, <4>2, <4>3, ScheduleReadyGood
      <4> QED BY <4>2, <4>4 DEF OnlyOwn
    <3> QED BY <3>1, <3>2
  <2> QED BY <1>3, <2>1, <2>2, EntryInv
<1> QED BY <1>2, <1>3

\* ... for an IPI,
LEMMA RescheduleIpiInv ==
  ASSUME Inv, NEW c \in CPU, RescheduleIpi(c) PROVE Inv' /\ OwnSwitch
<1>1. phase[c] \in {"run", "call"} /\ ipi \ {c} \in SUBSET CPU
  BY DEF RescheduleIpi, Inv, TypeOK
<1> QED BY <1>1, ScheduleRescheduleInv DEF RescheduleIpi

\* ... and for a local request.
LEMMA RescheduleCallInv ==
  ASSUME Inv, NEW c \in CPU, RescheduleCall(c) PROVE Inv' /\ OwnSwitch
<1>1. ipi \in SUBSET CPU
  BY DEF Inv, TypeOK
<1> QED BY <1>1, ScheduleRescheduleInv DEF RescheduleCall

\* __switch ...
LEMMA SwitchInv ==
  ASSUME Inv, NEW c \in CPU, Switch(c) PROVE Inv' /\ OwnSwitch
<1>1. TypeOK /\ Good(sched, unstarted, {})
  BY DEF Inv
<1>2. next[c] = sched.current[c] /\ next[c] \in Task \cup {Idle} /\ c \notin sched.boot
  BY <1>1 DEF Inv, HwAgrees, Switch, Good, SchedType
<1>3. HwAgrees'
  BY <1>1, <1>2 DEF Inv, TypeOK, HwAgrees, Switch
<1>4. TypeOK'
  BY <1>1, <1>2 DEF TypeOK, Switch, Phases
<1> QED BY <1>1, <1>3, <1>4 DEF Inv, Switch, OwnSwitch

\* ... and what follows it.
LEMMA PostSwitchInv ==
  ASSUME Inv, NEW c \in CPU, PostSwitch(c) PROVE Inv' /\ OwnSwitch
<1>1. TypeOK /\ Good(sched, unstarted, {}) /\ sched.panic = "none"
  BY DEF Inv, PostSwitch
<1> DEFINE d == resumed_cpu_id(c)
<1>2. d \in CPU
  BY <1>1 DEF resumed_cpu_id, TypeOK
<1> HIDE DEF d
<1>3. PICK R \in enqueue_deferred_task(sched, d) :
        /\ sched' = take_pending_reschedule_cpus(R)
        /\ dispatch_reschedules(c, d, R.pending, "run")
  BY DEF PostSwitch, d
<1>4. Good(R, unstarted, {}) /\ R.current = sched.current /\ R.boot = sched.boot
  BY <1>1, <1>2, <1>3, DeferredGood
<1>5. R \in SchedType /\ R.pending \subseteq CPU
  BY <1>4 DEF Good, SchedType
<1> DEFINE P == take_pending_reschedule_cpus(R)
<1>6. /\ Good(P, unstarted, {}) /\ P.boot = sched.boot /\ P.current = sched.current
  <2>1. P \in SchedType /\ SameCore(P, R)
    BY <1>2, <1>5, TakeSameCore
  <2> QED BY <1>4, <2>1, SameCoreGood DEF SameCore
<1>7. ipi' \subseteq CPU
  BY <1>1, <1>2, <1>3, <1>5 DEF dispatch_reschedules, send_ipi, TypeOK
<1>8. /\ UNCHANGED <<next, hw, frame_cpu>> /\ unstarted' = unstarted /\ phase[c] = "post"
      /\ \/ phase' = [phase EXCEPT ![c] = "call"]
         \/ phase' = [phase EXCEPT ![c] = "run"]
  BY <1>3 DEF PostSwitch, dispatch_reschedules
<1>9. unstarted \in SUBSET Task
  BY <1>1 DEF TypeOK
<1>10. phase' \in [CPU -> Phases]
  BY <1>1, <1>8 DEF TypeOK, Phases
<1>11. \A e \in CPU : phase'[e] = phase[e] \/ (/\ phase[e] # "switch" /\ phase'[e] # "switch"
                                              /\ (e \in sched.boot => phase'[e] \in {"run", "call"}))
  BY <1>1, <1>8 DEF TypeOK
<1> HIDE DEF P
<1>12. sched' = P /\ \A e \in CPU : P.current[e] = sched.current[e]
  BY <1>3, <1>6 DEF P
<1> QED BY <1>6, <1>7, <1>8, <1>9, <1>10, <1>11, <1>12, PlainInv

\* The wakes.
LEMMA WakeInv ==
  ASSUME Inv, NEW c \in CPU, NEW t \in Task, Wake(c, t) PROVE Inv' /\ OwnSwitch
<1>1. /\ Good(sched, unstarted, {}) /\ sched.state[t] = "blocked"
      /\ unstarted' = unstarted /\ unstarted \in SUBSET Task /\ phase[c] # "switch"
  BY DEF Inv, TypeOK, Wake, Interruptible
<1>2. PICK R \in activate_ready_task(sched, t, LastCpu(sched, t), BOOLEAN) : release(c, R)
  BY DEF Wake
<1>3. Good(R, unstarted, {}) /\ R.current = sched.current /\ R.boot = sched.boot
  BY <1>1, <1>2, WakeGood
<1> QED BY <1>1, <1>2, <1>3, ReleaseInv

\* set_affinity.
LEMMA SetAffinityInv ==
  ASSUME Inv, NEW c \in CPU, NEW t \in Task, NEW mask \in Masks, SetAffinity(c, t, mask)
  PROVE  Inv' /\ OwnSwitch
<1>1. /\ Good(sched, unstarted, {}) /\ sched.panic = "none"
      /\ unstarted' = unstarted /\ unstarted \in SUBSET Task
      /\ mask \cap sched.online # {} /\ mask \in SUBSET CPU /\ phase[c] # "switch"
  BY MaskAssumption DEF Inv, TypeOK, SetAffinity, RunsTask, Interruptible
<1>2. PICK R \in set_affinity(sched, t, mask) : release(c, R)
  BY DEF SetAffinity
<1>3. Good(R, unstarted, {}) /\ R.current = sched.current /\ R.boot = sched.boot
  BY <1>1, <1>2, AffinityGood
<1> QED BY <1>1, <1>2, <1>3, ReleaseInv

\* apply_sched_policy_change, of a task that is not in transit.
LEMMA PolicyChangeInv ==
  ASSUME Inv, TransitOps = {}, NEW c \in CPU, NEW t \in Task, PolicyChange(c, t)
  PROVE  Inv' /\ OwnSwitch
<1> DEFINE d == policy_cpu(sched, c, t)
           Q == refresh_task(sched, t, d)
<1>1. /\ Good(sched, unstarted, {}) /\ sched.panic = "none" /\ c \notin sched.boot
      /\ unstarted' = unstarted /\ unstarted \in SUBSET Task /\ phase[c] = "run"
      /\ sched.state[t] \in {"ready", "running"} /\ phase \in [CPU -> Phases]
      /\ ipi' = ipi /\ ipi \subseteq CPU /\ UNCHANGED <<next, hw, frame_cpu>>
  BY DEF Inv, TypeOK, PolicyChange, RunsTask, Interruptible
<1>2. t \notin unstarted /\ \A e \in CPU : sched.deferred[e] # t
  BY DEF PolicyChange, InTransit
<1>3. /\ d \in CPU /\ Good(Q, unstarted, {}) /\ Q.boot = sched.boot
      /\ \A e \in CPU : Q.current[e] = sched.current[e]
  BY <1>1, <1>2, PolicyGood
<1>4. PICK b \in BOOLEAN :
        LET preempt == cpu_should_reschedule(Q, d, FALSE, b)
        IN  /\ sched' = IF preempt /\ d # c THEN mark_need_resched(Q, d) ELSE Q
            /\ phase' = [phase EXCEPT ![c] = IF preempt /\ d = c THEN "yield" ELSE "run"]
  BY DEF PolicyChange
<1> HIDE DEF Q, d
<1>5. mark_need_resched(Q, d) \in SchedType /\ SameCore(mark_need_resched(Q, d), Q)
  BY <1>3 DEF Good, mark_need_resched, SameCore, SchedType
<1>6. sched' = mark_need_resched(Q, d) \/ sched' = Q
  BY <1>4
<1>7. /\ Good(sched', unstarted, {}) /\ sched'.boot = sched.boot
      /\ \A e \in CPU : sched'.current[e] = sched.current[e]
  <2>1. CASE sched' = Q
    BY <1>3, <2>1
  <2>2. CASE sched' = mark_need_resched(Q, d)
    <3>1. Good(mark_need_resched(Q, d), unstarted, {})
      BY <1>3, <1>5, SameCoreGood
    <3> QED BY <1>3, <1>5, <2>2, <3>1 DEF SameCore
  <2> QED BY <1>6, <2>1, <2>2
<1>8. phase' = [phase EXCEPT ![c] = "yield"] \/ phase' = [phase EXCEPT ![c] = "run"]
  BY <1>4
<1>9. /\ phase' \in [CPU -> Phases]
      /\ \A e \in CPU : phase'[e] = phase[e] \/ (/\ phase[e] # "switch" /\ phase'[e] # "switch"
                                                /\ (e \in sched.boot => phase'[e] \in {"run", "call"}))
  BY <1>1, <1>8 DEF Phases
<1> QED BY <1>1, <1>7, <1>9, PlainInv

\* An operation that only changes the structure, and no current task.
LEMMA QuietInv ==
  ASSUME Inv, NEW U \in SUBSET Task, unstarted' = U, Good(sched', U, {}),
         sched'.boot = sched.boot, sched'.current = sched.current,
         UNCHANGED <<phase, next, hw, frame_cpu>>, ipi' \subseteq CPU
  PROVE  Inv' /\ OwnSwitch
<1>1. phase' \in [CPU -> Phases] /\ \A d \in CPU : phase'[d] = phase[d]
  BY DEF Inv, TypeOK
<1>2. \A d \in CPU : sched'.current[d] = sched.current[d]
  OBVIOUS
<1> QED BY <1>1, <1>2, PlainInv

\* The wake that only sends IPIs.
LEMMA WakeDeferredInv ==
  ASSUME Inv, NEW c \in CPU, NEW t \in Task, WakeDeferred(c, t) PROVE Inv' /\ OwnSwitch
<1>1. /\ Good(sched, unstarted, {}) /\ sched.state[t] = "blocked"
      /\ unstarted' = unstarted /\ unstarted \in SUBSET Task /\ ipi \subseteq CPU
      /\ UNCHANGED <<phase, next, hw, frame_cpu>>
  BY DEF Inv, TypeOK, WakeDeferred
<1>2. PICK R \in activate_ready_task(sched, t, LastCpu(sched, t), BOOLEAN) :
        /\ sched' = take_pending_reschedule_cpus(R)
        /\ send_ipi(R.pending, ipi)
  BY DEF WakeDeferred
<1>3. Good(R, unstarted, {}) /\ R.current = sched.current /\ R.boot = sched.boot
  BY <1>1, <1>2, WakeGood
<1>4. R \in SchedType /\ R.pending \subseteq CPU
  BY <1>3 DEF Good, SchedType
<1>5. sched' \in SchedType /\ SameCore(sched', R)
  BY <1>2, <1>4, TakeSameCore
<1>6. Good(sched', unstarted, {})
  BY <1>3, <1>5, SameCoreGood
<1>7. ipi' \subseteq CPU
  BY <1>1, <1>2, <1>4 DEF send_ipi
<1>8. sched'.boot = sched.boot /\ sched'.current = sched.current
  BY <1>3, <1>5 DEF SameCore
<1> QED BY <1>1, <1>6, <1>7, <1>8, QuietInv

\* request_task_reschedule.
LEMMA RequestTaskRescheduleInv ==
  ASSUME Inv, NEW c \in CPU, NEW t \in Task, RequestTaskReschedule(c, t)
  PROVE  Inv' /\ OwnSwitch
<1> DEFINE r == sched.running_cpu[t]
           R == request_reschedule(sched, r, TRUE, FALSE)
           D == take_pending_reschedule_cpus(R)
<1>1. /\ Good(sched, unstarted, {}) /\ sched \in SchedType
      /\ unstarted' = unstarted /\ unstarted \in SUBSET Task /\ ipi \subseteq CPU
      /\ UNCHANGED <<phase, next, hw, frame_cpu>> /\ r # NoCpu
  BY DEF Inv, TypeOK, RequestTaskReschedule
<1>2. r \in CPU
  BY <1>1 DEF SchedType
<1>3. R \in SchedType /\ SameCore(R, sched)
  BY <1>1, <1>2, RequestSameCore
<1>4. /\ sched' = IF c \in R.pending THEN take_need_resched(D, c) ELSE D
      /\ send_ipi(R.pending \ {c}, ipi)
  BY DEF RequestTaskReschedule
<1> HIDE DEF R
<1>5. D \in SchedType /\ SameCore(D, R)
  BY <1>3, TakeSameCore
<1> HIDE DEF D
<1>6. take_need_resched(D, c) \in SchedType /\ SameCore(take_need_resched(D, c), D)
  BY <1>5, TakeSameCore
<1>7. sched' \in SchedType /\ SameCore(sched', sched)
  BY <1>3, <1>4, <1>5, <1>6 DEF SameCore
<1>8. Good(sched', unstarted, {})
  BY <1>1, <1>7, SameCoreGood
<1>9. ipi' \subseteq CPU
  <2>1. R.pending \subseteq CPU
    BY <1>3 DEF SchedType
  <2> QED BY <1>1, <1>4, <2>1 DEF send_ipi
<1> QED BY <1>1, <1>7, <1>8, <1>9, QuietInv DEF SameCore

\* kill_task, of a task that is not in transit.
LEMMA KillInv ==
  ASSUME Inv, TransitOps = {}, NEW c \in CPU, NEW t \in Task, Kill(c, t)
  PROVE  Inv' /\ OwnSwitch
<1> DEFINE Q == dequeue_from_all_cpus(sched, t)
           R == mark_exited(Q, t)
<1>1. /\ Good(sched, unstarted, {}) /\ sched.panic = "none" /\ sched \in SchedType
      /\ unstarted' = unstarted /\ unstarted \in SUBSET Task /\ ipi' \subseteq CPU
      /\ UNCHANGED <<phase, next, hw, frame_cpu>> /\ sched' = R
      /\ sched.state[t] \in {"ready", "running", "blocked"}
      /\ \A d \in CPU : sched.current[d] # t
  BY DEF Inv, TypeOK, Kill, RunsTask, Interruptible
<1>2. t \notin unstarted /\ \A e \in CPU : sched.deferred[e] # t
  BY DEF Kill, InTransit
<1>3. sched.state[t] # "running"
  BY <1>1, <1>2 DEF Good, Struct, RunningAgrees
<1>4. Good(R, unstarted, {})
  BY <1>1, <1>2, <1>3, KillGood
<1>5. Q \in SchedType /\ Q.boot = sched.boot /\ Q.current = sched.current
  BY <1>1 DEF dequeue_from_all_cpus, SchedType
<1> HIDE DEF Q
<1>6. R.boot = Q.boot /\ R.current = Q.current
  BY <1>5 DEF mark_exited, SchedType
<1> HIDE DEF R
<1> QED BY <1>1, <1>4, <1>5, <1>6, QuietInv

\* reap_exited_task.
LEMMA ReapInv ==
  ASSUME Inv, NEW c \in CPU, NEW t \in Task, Reap(c, t) PROVE Inv' /\ OwnSwitch
<1> DEFINE R == [sched EXCEPT !.state[t] = "reaped"]
<1>1. /\ Good(sched, unstarted, {}) /\ sched.panic = "none" /\ sched \in SchedType
      /\ unstarted' = unstarted /\ unstarted \in SUBSET Task /\ ipi' \subseteq CPU
      /\ UNCHANGED <<phase, next, hw, frame_cpu>> /\ sched' = R /\ sched.state[t] = "exited"
  BY DEF Inv, TypeOK, Reap, RunsTask, Interruptible
<1>2. Good(R, unstarted, {})
  BY <1>1, ReapGood
<1>3. R.boot = sched.boot /\ R.current = sched.current
  BY <1>1 DEF SchedType
<1> HIDE DEF R
<1> QED BY <1>1, <1>2, <1>3, QuietInv

\* create_*, the first half of fork and clone.
LEMMA CreateInv ==
  ASSUME Inv, NEW c \in CPU, NEW t \in Task, Create(c, t) PROVE Inv' /\ OwnSwitch
<1>1. /\ Good(sched, unstarted, {}) /\ sched.panic = "none" /\ sched.state[t] = "none"
      /\ unstarted' = unstarted \cup {t} /\ unstarted \cup {t} \in SUBSET Task
      /\ ipi' \subseteq CPU /\ UNCHANGED <<phase, next, hw, frame_cpu>>
      /\ sched' \in new_task(sched, c, t)
  BY DEF Inv, TypeOK, Create, RunsTask, Interruptible, Booting
<1>2. Good(sched', unstarted \cup {t}, {}) /\ sched'.current = sched.current
  BY <1>1, CreateGood
<1>3. sched'.boot = sched.boot
  BY <1>1 DEF new_task, Good, SchedType
<1> QED BY <1>1, <1>2, <1>3, QuietInv

\* enqueue_ready_task, the second half.
LEMMA StartInv ==
  ASSUME Inv, NEW c \in CPU, NEW t \in Task, Start(c, t) PROVE Inv' /\ OwnSwitch
<1>1. /\ Good(sched, unstarted, {}) /\ sched.panic = "none" /\ t \in unstarted
      /\ unstarted' = unstarted \ {t} /\ unstarted \ {t} \in SUBSET Task
      /\ phase[c] # "switch"
  BY DEF Inv, TypeOK, Start, RunsTask, Interruptible, Booting
<1>2. PICK R \in activate_ready_task(sched, t, LeastLoaded, BOOLEAN) : release(c, R)
  BY DEF Start
<1>3. /\ Good(R, unstarted \ {t}, {}) /\ R.current = sched.current /\ R.boot = sched.boot
  BY <1>1, <1>2, StartGood
<1> QED BY <1>1, <1>2, <1>3, ReleaseInv

\* spawn_*, both halves.
LEMMA SpawnInv ==
  ASSUME Inv, NEW c \in CPU, NEW t \in Task, Spawn(c, t) PROVE Inv' /\ OwnSwitch
<1>1. /\ Good(sched, unstarted, {}) /\ sched.panic = "none" /\ sched.state[t] = "none"
      /\ unstarted' = unstarted /\ unstarted \in SUBSET Task /\ phase[c] # "switch"
  BY DEF Inv, TypeOK, Spawn, RunsTask, Interruptible, Booting
<1>2. PICK N \in new_task(sched, c, t) :
        \E R \in activate_ready_task(N, t, LeastLoaded, BOOLEAN) : release(c, R)
  BY DEF Spawn
<1>3. PICK R \in activate_ready_task(N, t, LeastLoaded, BOOLEAN) : release(c, R)
  BY <1>2
<1>4. /\ Good(N, unstarted \cup {t}, {}) /\ N.panic = "none" /\ N.current = sched.current
      /\ t \notin unstarted
  BY <1>1, <1>2, CreateGood
<1>5. N.boot = sched.boot
  BY <1>1, <1>2 DEF new_task, Good, SchedType
<1>6. /\ Good(R, (unstarted \cup {t}) \ {t}, {}) /\ R.current = N.current /\ R.boot = N.boot
  BY <1>3, <1>4, StartGood
<1>7. (unstarted \cup {t}) \ {t} = unstarted
  BY <1>4
<1> QED BY <1>1, <1>3, <1>4, <1>5, <1>6, <1>7, ReleaseInv

\* discard_unstarted_task.
LEMMA DiscardInv ==
  ASSUME Inv, NEW c \in CPU, NEW t \in Task, Discard(c, t) PROVE Inv' /\ OwnSwitch
<1> DEFINE R == discard_task(sched, t)
<1>1. /\ Good(sched, unstarted, {}) /\ sched.panic = "none" /\ t \in unstarted
      /\ unstarted' = unstarted \ {t} /\ unstarted \ {t} \in SUBSET Task
      /\ ipi' \subseteq CPU /\ UNCHANGED <<phase, next, hw, frame_cpu>>
      /\ sched' = R /\ sched \in SchedType
  BY DEF Inv, TypeOK, Discard, RunsTask, Interruptible, Booting
<1>2. Good(R, unstarted \ {t}, {})
  BY <1>1, DiscardGood
<1>3. R.boot = sched.boot /\ R.current = sched.current
  BY <1>1 DEF discard_task, dequeue_from_all_cpus, SchedType
<1> HIDE DEF R
<1> QED BY <1>1, <1>2, <1>3, QuietInv

\* set_cpu_online.
LEMMA SetCpuOnlineInv ==
  ASSUME Inv, NEW c \in CPU, SetCpuOnline(c) PROVE Inv' /\ OwnSwitch
<1> DEFINE R == [sched EXCEPT !.online = @ \cup {c}]
<1>1. /\ Good(sched, unstarted, {}) /\ sched.panic = "none"
      /\ unstarted' = unstarted /\ unstarted \in SUBSET Task
      /\ ipi' \subseteq CPU /\ UNCHANGED <<phase, next, hw, frame_cpu>>
      /\ sched' = R /\ sched \in SchedType
  BY DEF Inv, TypeOK, SetCpuOnline
<1>2. Good(R, unstarted, {})
  BY <1>1, OnlineGood
<1>3. R.boot = sched.boot /\ R.current = sched.current
  BY <1>1 DEF SchedType
<1> HIDE DEF R
<1> QED BY <1>1, <1>2, <1>3, QuietInv

\* run_first_task.
LEMMA RunFirstTaskInv ==
  ASSUME Inv, NEW c \in CPU, RunFirstTask(c) PROVE Inv' /\ OwnSwitch
<1> DEFINE L == [sched EXCEPT !.boot = @ \ {c}]
<1>1. /\ TypeOK /\ Good(sched, unstarted, {}) /\ sched.panic = "none" /\ phase[c] = "run"
      /\ c \in sched.boot /\ sched \in SchedType
      /\ phase' = [phase EXCEPT ![c] = "switch"]
      /\ UNCHANGED <<hw, frame_cpu, ipi, unstarted>>
  BY DEF Inv, TypeOK, RunFirstTask, Booting
<1>2. PICK R \in install_next(L, c) :
        sched' = R /\ next' = [next EXCEPT ![c] = R.current[c]]
  BY DEF RunFirstTask
<1>3. Good(L, unstarted, {}) /\ c \notin L.boot /\ L.current = sched.current
  BY <1>1, LeaveBootGood, ZenonT(60)
<1>4. L.boot = sched.boot \ {c} /\ L \in SchedType
  BY <1>1 DEF SchedType
<1>5. sched.current[c] = Idle
  BY <1>1 DEF Good, Struct, BootIsIdle
<1> HIDE DEF L
<1>6. Good(L, unstarted, {c})
  BY <1>3, <1>5, IdleStale
<1>7. Good(R, unstarted, {}) /\ OnlyOwn(R, L, c)
  BY <1>2, <1>3, <1>4, <1>6, InstallGood, InstallOwn
<1>8. R \in SchedType /\ R.current[c] \in Task \cup {Idle}
  BY <1>7 DEF Good, SchedType
<1>9. TypeOK'
  BY <1>1, <1>2, <1>8 DEF TypeOK, Phases
<1>10. R.boot = sched.boot \ {c} /\ \A d \in CPU \ {c} : R.current[d] = sched.current[d]
  BY <1>3, <1>4, <1>7 DEF OnlyOwn
<1>11. /\ phase'[c] = "switch" /\ next'[c] = R.current[c]
       /\ \A d \in CPU \ {c} : phase'[d] = phase[d] /\ next'[d] = next[d]
  BY <1>1, <1>2 DEF TypeOK
<1>12. HwAgrees'
  BY <1>1, <1>2, <1>10, <1>11 DEF Inv, HwAgrees
<1>13. OwnSwitch
  BY <1>1, <1>2, <1>10, <1>11 DEF OwnSwitch
<1> QED BY <1>1, <1>2, <1>7, <1>9, <1>12, <1>13 DEF Inv

-----------------------------------------------------------------------------
\* The initial state: every CPU on its boot stack, no task.
LEMMA InitInv == Init => Inv
<1> SUFFICES ASSUME Init PROVE Inv
  OBVIOUS
<1>1. /\ sched = InitSched /\ phase = [c \in CPU |-> "run"]
      /\ next = [c \in CPU |-> NoTask] /\ hw = [c \in CPU |-> Boot]
      /\ frame_cpu = [t \in Task |-> NoCpu] /\ ipi = {} /\ unstarted = {}
  BY DEF Init
<1>2. InitSched \in SchedType
  BY CpuAssumption DEF InitSched, SchedType, TaskStates, Asserts
<1>3. TypeOK
  BY <1>1, <1>2 DEF TypeOK, Phases
<1> DEFINE S == InitSched
<1>4. /\ S.state = [t \in Task |-> "none"] /\ S.ready_cpu = [t \in Task |-> NoCpu]
      /\ S.running_cpu = [t \in Task |-> NoCpu] /\ S.affinity = [t \in Task |-> CPU]
      /\ S.rq = [c \in CPU |-> {}] /\ S.current = [c \in CPU |-> Idle]
      /\ S.deferred = [c \in CPU |-> NoTask] /\ S.online = {BootCpu}
      /\ S.boot = CPU /\ S.panic = "none"
  BY DEF InitSched
<1> HIDE DEF S
<1>5. QueuesMatchTasks(S) /\ UnstartedAreUnpublished(S, {}) /\ FreshIsUnplaced(S)
  BY <1>4 DEF QueuesMatchTasks, UnstartedAreUnpublished, FreshIsUnplaced
<1>6. CurrentAgrees(S, {}) /\ DeferredAgrees(S, {}) /\ BootIsIdle(S)
  BY <1>4, TaskAssumption DEF CurrentAgrees, DeferredAgrees, BootIsIdle
<1>7. RunningAgrees(S, {}) /\ PlacementRespected(S)
  BY <1>4, CpuAssumption DEF RunningAgrees, PlacementRespected
<1>8. Good(S, {}, {})
  BY <1>2, <1>4, <1>5, <1>6, <1>7 DEF Good, Struct, OkPanics, S
<1>9. HwAgrees
  BY <1>1, <1>4 DEF HwAgrees, S
<1> QED BY <1>1, <1>3, <1>8, <1>9 DEF Inv, S

\* Every step of a CPU, and every operation on a task, keeps the invariant.
LEMMA NextInv ==
  ASSUME Inv, TransitOps = {}, Next PROVE Inv' /\ OwnSwitch
<1>1. CASE Halt
  BY <1>1 DEF Halt, vars, Inv, TypeOK, HwAgrees, OwnSwitch
<1>2. ASSUME NEW c \in CPU, CpuStep(c) PROVE Inv' /\ OwnSwitch
  BY <1>2, YieldInv, BlockInv, WaitReadyInv, ExitInv, TickInv, RescheduleIpiInv,
     RescheduleCallInv,     SwitchInv, PostSwitchInv, SetCpuOnlineInv, RunFirstTaskInv DEF CpuStep
<1>3. ASSUME NEW c \in CPU, NEW t \in Task, TaskOp(c, t) PROVE Inv' /\ OwnSwitch
  <2>1. ASSUME NEW mask \in Masks, SetAffinity(c, t, mask) PROVE Inv' /\ OwnSwitch
    BY <2>1, SetAffinityInv
  <2> QED BY <1>3, <2>1, WakeInv, WakeDeferredInv, KillInv, ReapInv, PolicyChangeInv,
             RequestTaskRescheduleInv, CreateInv, StartInv, SpawnInv, DiscardInv DEF TaskOp
<1> QED BY <1>1, <1>2, <1>3 DEF Next

\* The inductive invariant holds in every state, when no operation hits a task
\* in transit.
THEOREM Invariance == ASSUME TransitOps = {} PROVE Spec => []Inv
<1>1. Inv /\ UNCHANGED vars => Inv'
  BY DEF vars, Inv, TypeOK, HwAgrees
<1>2. Inv /\ [Next]_vars => Inv'
  BY <1>1, NextInv
<1> QED BY <1>2, InitInv, PTL DEF Spec

\* The agreement says what OneOwner says.
LEMMA InvOneOwner == Inv => OneOwner
<1> SUFFICES ASSUME Inv PROVE OneOwner
  OBVIOUS
<1>1. sched.panic \in {"none", "deferred", "need_resched"}
  BY DEF Inv, Good, OkPanics
<1>2. ASSUME sched.panic = "none"
      PROVE  /\ QueuesMatchTasks(sched) /\ PlacementRespected(sched)
             /\ UnstartedAreUnpublished(sched, unstarted)
             /\ CurrentAgrees(sched, {}) /\ DeferredAgrees(sched, {})
             /\ RunningAgrees(sched, {})
  BY <1>2 DEF Inv, Good, Struct
<1>3. ASSUME sched.panic = "none" PROVE CurrentMatchesTasks(sched)
  <2>1. \A t \in Task :
          IF sched.state[t] = "running"
          THEN \E c \in CPU : sched.running_cpu[t] = c
                              /\ t \in {sched.current[c], sched.deferred[c]}
          ELSE sched.running_cpu[t] = NoCpu
    BY <1>2, <1>3 DEF RunningAgrees
  <2> QED BY <1>2, <1>3, <2>1 DEF CurrentMatchesTasks, CurrentAgrees, DeferredAgrees
<1> QED BY <1>1, <1>2, <1>3 DEF OneOwner

\* Every variable keeps its type.
THEOREM TypeCorrect == ASSUME TransitOps = {} PROVE Spec => []TypeOK
<1>1. Inv => TypeOK
  BY DEF Inv
<1> QED BY <1>1, Invariance, PTL

\* No task is in two queues, in a queue and on a CPU, or current on two CPUs, and
\* the checks of placement, publication and installation never fail, whatever
\* the number of CPUs and tasks: the scheduler lock is enough for this.
THEOREM OneOwnerHolds == ASSUME TransitOps = {} PROVE Spec => []OneOwner
  BY InvOneOwner, Invariance, PTL

\* While interrupts are on, a CPU executes on the stack of the task the scheduler
\* takes for its current one.
THEOREM CurrentIsHardwareHolds == ASSUME TransitOps = {} PROVE Spec => []CurrentIsHardware
<1>1. Inv => CurrentIsHardware
  BY DEF Inv, HwAgrees, CurrentIsHardware
<1> QED BY <1>1, Invariance, PTL

\* No CPU takes the current slot of another one, and none changes its own without
\* going through __switch.
THEOREM OwnCpuSwitchesHolds == ASSUME TransitOps = {} PROVE Spec => OwnCpuSwitches
<1>1. Inv /\ [Next]_vars => [OwnSwitch]_vars
  BY NextInv
<1> QED BY <1>1, Invariance, PTL DEF Spec, OwnCpuSwitches

-----------------------------------------------------------------------------
(***************************************************************************)
(* Exits.  Whatever a critical section publishes or installs is alive: the  *)
(* agreement above says so when the section begins; Live carries it        *)
(* through the section, a failing assertion included.                      *)
(***************************************************************************)
Dead == {"exited", "reaped"}

QueuedLive(S) == \A d \in CPU : \A t \in S.rq[d] : S.state[t] \notin Dead

SlotsLive(S) ==
  \A d \in CPU :
    /\ S.current[d] \in Task => S.state[S.current[d]] \notin Dead
    /\ S.deferred[d] \in Task => S.state[S.deferred[d]] \notin Dead

Live(S) == QueuedLive(S) /\ SlotsLive(S)

\* No dead task of S is alive in R.
DeadKept(S, R) == \A t \in Task : S.state[t] \in Dead => R.state[t] \in Dead

(***************************************************************************)
(* The operations                                                          *)
(***************************************************************************)
\* The agreement names only live tasks.
LEMMA StructLive ==
  ASSUME NEW S \in SchedType, NEW U, Struct(S, U, {})
  PROVE  Live(S)
<1>1. S.rq \in [CPU -> SUBSET Task]
  BY DEF SchedType
<1>2. QueuedLive(S)
  BY <1>1 DEF QueuedLive, Struct, QueuesMatchTasks, Dead
<1>3. SlotsLive(S)
  BY DEF SlotsLive, Struct, CurrentAgrees, DeferredAgrees, Dead
<1> QED BY <1>2, <1>3 DEF Live

\* Requests and failing assertions concern no task.
LEMMA SameTasksLive ==
  ASSUME NEW S, NEW R, R.state = S.state, R.rq = S.rq, R.current = S.current,
         R.deferred = S.deferred
  PROVE  DeadKept(S, R) /\ (Live(S) => Live(R)) /\ (QueuedLive(S) => QueuedLive(R))
  BY DEF DeadKept, Live, QueuedLive, SlotsLive

\* What the activation of t can change.
LEMMA ActivateEffect ==
  ASSUME NEW S \in SchedType, NEW t \in Task, NEW P, NEW B \in SUBSET BOOLEAN,
         NEW R \in activate_ready_task(S, t, P, B)
  PROVE  /\ R \in SchedType /\ R.current = S.current /\ R.deferred = S.deferred
         /\ R.state = S.state \/ R.state = [S.state EXCEPT ![t] = "ready"]
         /\ \A d \in CPU : R.rq[d] \subseteq S.rq[d] \cup {t}
<1> DEFINE Effect(Q) ==
             /\ Q \in SchedType /\ Q.current = S.current /\ Q.deferred = S.deferred
             /\ Q.state = S.state \/ Q.state = [S.state EXCEPT ![t] = "ready"]
             /\ \A d \in CPU : Q.rq[d] \subseteq S.rq[d] \cup {t}
<1>1. ASSUME NEW a \in Asserts PROVE Effect(Panic(S, a))
  BY DEF Panic, SchedType
<1>2. ASSUME NEW c \in CPU PROVE Effect(insert_ready(S, t, c))
  <2> DEFINE Q == insert_ready(S, t, c)
  <2>1. /\ Q \in SchedType /\ Q.current = S.current /\ Q.deferred = S.deferred
        /\ Q.state = [S.state EXCEPT ![t] = "ready"]
        /\ Q.rq = [d \in CPU |-> IF d = c THEN S.rq[d] \cup {t}
                                 ELSE IF d = S.ready_cpu[t] THEN S.rq[d] \ {t}
                                 ELSE S.rq[d]]
    BY InsertFields, ZenonT(60)
  <2> HIDE DEF Q
  <2> QED BY <2>1 DEF Q
<1>3. /\ "no_task" \in Asserts /\ "no_cpu" \in Asserts
      /\ "target" \in Asserts /\ "publish_running" \in Asserts
  BY DEF Asserts
<1>4. CASE ~Exists(S, t) \/ S.online \cap S.affinity[t] = {}
  <2>1. R = Panic(S, "no_task") \/ R = Panic(S, "no_cpu")
    BY <1>4 DEF activate_ready_task
  <2> QED BY <1>1, <1>3, <2>1
<1>5. CASE Exists(S, t) /\ S.online \cap S.affinity[t] # {}
  <2>1. PICK c \in pick_ready_cpu(S, t, P) : \E b \in B : R = activate_on(S, t, c, b)
    BY <1>5, Activations
  <2>2. PICK b \in B : R = activate_on(S, t, c, b)
    BY <2>1
  <2>3. c \in CPU /\ b \in BOOLEAN
    BY <2>1, <2>2, PickUsable
  <2> DEFINE Q == enqueue_ready_on_cpu(S, t, c)
  <2>4. Effect(Q)
    <3>1. Q \in {Panic(S, "target"), Panic(S, "publish_running"), insert_ready(S, t, c)}
      BY DEF enqueue_ready_on_cpu
    <3> HIDE DEF Q, Effect
    <3> QED BY <1>1, <1>2, <1>3, <2>3, <3>1
  <2> HIDE DEF Q
  <2>5. R = request_reschedule(Q, c, FALSE, b)
    BY <2>2 DEF Q, activate_on
  <2>6. R \in SchedType /\ SameCore(R, Q)
    BY <2>3, <2>4, <2>5, RequestSameCore
  <2> QED BY <2>4, <2>6 DEF SameCore
<1> QED BY <1>4, <1>5

\* Activating a live task.
LEMMA ActivateLive ==
  ASSUME NEW S \in SchedType, NEW t \in Task, NEW P, NEW B \in SUBSET BOOLEAN,
         NEW R \in activate_ready_task(S, t, P, B), S.state[t] \notin Dead
  PROVE  R \in SchedType /\ DeadKept(S, R) /\ (Live(S) => Live(R))
<1>1. /\ R \in SchedType /\ R.current = S.current /\ R.deferred = S.deferred
      /\ R.state = S.state \/ R.state = [S.state EXCEPT ![t] = "ready"]
      /\ \A d \in CPU : R.rq[d] \subseteq S.rq[d] \cup {t}
  BY ActivateEffect
<1>2. S.state \in [Task -> TaskStates] /\ R.rq \in [CPU -> SUBSET Task]
  BY <1>1 DEF SchedType
<1>3. \A u \in Task : S.state[u] \notin Dead <=> R.state[u] \notin Dead
  BY <1>1, <1>2 DEF Dead
<1>4. DeadKept(S, R)
  BY <1>3 DEF DeadKept
<1>5. ASSUME Live(S) PROVE Live(R)
  <2>1. QueuedLive(R)
    BY <1>1, <1>2, <1>3, <1>5 DEF Live, QueuedLive
  <2>2. SlotsLive(R)
    BY <1>1, <1>3, <1>5 DEF Live, SlotsLive
  <2> QED BY <2>1, <2>2 DEF Live
<1> QED BY <1>1, <1>4, <1>5

\* The timekeeper wakes blocked tasks only.
LEMMA DueLive ==
  ASSUME NEW S \in SchedType, NEW c \in CPU, Live(S),
         NEW R \in activate_woken_and_timeout_tasks(S, c)
  PROVE  /\ R \in SchedType /\ DeadKept(S, R) /\ Live(R)
<1>1. CASE R = S
  BY <1>1 DEF DeadKept
<1>2. CASE R # S
  <2>1. PICK t \in {u \in Task : S.state[u] = "blocked"} :
          R \in activate_ready_task(S, t, LastCpu(S, t), BOOLEAN)
    BY <1>2 DEF activate_woken_and_timeout_tasks
  <2> QED BY <2>1, ActivateLive DEF Dead
<1> QED BY <1>1, <1>2

\* A CPU installs a task of its queue.
LEMMA InstallLive ==
  ASSUME NEW S \in SchedType, NEW c \in CPU, QueuedLive(S), NEW R \in install_next(S, c)
  PROVE  R \in SchedType /\ DeadKept(S, R) /\ (Live(S) => Live(R))
<1>1. PICK n \in pick_next_runnable(S, c) : R = set_current_task(S, c, n)
  BY DEF install_next
<1>2. CASE n = Idle
  <2>1. R = set_current_idle(S, c)
    BY <1>1, <1>2 DEF set_current_task
  <2>2. /\ R \in SchedType /\ R.state = S.state /\ R.rq = S.rq /\ R.deferred = S.deferred
        /\ R.current = [S.current EXCEPT ![c] = Idle]
    BY <2>1 DEF set_current_idle, SchedType
  <2>3. S.current \in [CPU -> Task \cup {Idle}]
    BY DEF SchedType
  <2> QED BY <2>2, <2>3, TaskAssumption DEF DeadKept, Live, QueuedLive, SlotsLive
<1>3. CASE n # Idle
  <2>1. n \in S.rq[c] /\ n \in Task
    BY <1>1, <1>3 DEF pick_next_runnable, SchedType
  <2>2. S.state[n] \notin Dead
    BY <2>1 DEF QueuedLive
  <2>3. CASE R = Panic(S, "already_running")
    <3>1. /\ R \in SchedType /\ R.state = S.state /\ R.rq = S.rq
          /\ R.current = S.current /\ R.deferred = S.deferred
      BY <2>3 DEF Panic, SchedType, Asserts
    <3> QED BY <3>1, SameTasksLive
  <2>4. CASE R = mark_running(S, c, n)
    <3>1. /\ R \in SchedType /\ R.state = [S.state EXCEPT ![n] = "running"]
          /\ R.rq = [S.rq EXCEPT ![c] = S.rq[c] \ {n}]
          /\ R.current = [S.current EXCEPT ![c] = n] /\ R.deferred = S.deferred
      BY <2>1, <2>4 DEF mark_running, SchedType, TaskStates
    <3>2. /\ S.state \in [Task -> TaskStates] /\ S.rq \in [CPU -> SUBSET Task]
          /\ S.current \in [CPU -> Task \cup {Idle}]
      BY DEF SchedType
    <3>3. \A u \in Task : S.state[u] \notin Dead <=> R.state[u] \notin Dead
      BY <2>1, <2>2, <3>1, <3>2 DEF Dead
    <3>4. \A d \in CPU : R.rq[d] \subseteq S.rq[d]
      BY <3>1, <3>2
    <3>5. \A d \in CPU : R.current[d] = IF d = c THEN n ELSE S.current[d]
      BY <3>1, <3>2
    <3>6. ASSUME Live(S) PROVE QueuedLive(R)
      BY <3>2, <3>3, <3>4, <3>6 DEF Live, QueuedLive
    <3>7. ASSUME Live(S) PROVE SlotsLive(R)
      BY <2>1, <2>2, <3>1, <3>3, <3>5, <3>7 DEF Live, SlotsLive
    <3> QED BY <3>1, <3>3, <3>6, <3>7 DEF Live, DeadKept
  <2> QED BY <1>1, <1>3, <2>3, <2>4 DEF set_current_task
<1> QED BY <1>2, <1>3

\* The current task goes back to a queue, or to the deferred slot, alive.
LEMMA RequeueLive ==
  ASSUME NEW S \in SchedType, NEW c \in CPU, NEW t \in Task, NEW b \in BOOLEAN,
         Live(S), S.current[c] = t, NEW Q \in requeue_current(S, c, t, b)
  PROVE  Q \in SchedType /\ Live(Q) /\ DeadKept(S, Q)
<1>1. S.state[t] \notin Dead
  BY DEF Live, SlotsLive
<1>2. CASE c \in S.affinity[t]
  <2>1. Q \in activate_ready_task(S, t, Prefer(c), {b}) /\ {b} \in SUBSET BOOLEAN
    BY <1>2 DEF requeue_current
  <2> QED BY <1>1, <2>1, ActivateLive
<1>3. CASE Q = Panic(S, "deferred")
  <2>1. /\ Q \in SchedType /\ Q.state = S.state /\ Q.rq = S.rq
        /\ Q.current = S.current /\ Q.deferred = S.deferred
    BY <1>3 DEF Panic, SchedType, Asserts
  <2> QED BY <2>1, SameTasksLive
<1>4. CASE Q = [S EXCEPT !.rq[c] = @ \ {t}, !.deferred[c] = t]
  <2>1. /\ Q \in SchedType /\ Q.state = S.state /\ Q.current = S.current
        /\ Q.rq = [S.rq EXCEPT ![c] = S.rq[c] \ {t}]
        /\ Q.deferred = [S.deferred EXCEPT ![c] = t]
    BY <1>4 DEF SchedType
  <2>2. S.rq \in [CPU -> SUBSET Task] /\ S.deferred \in [CPU -> Task \cup {NoTask}]
    BY DEF SchedType
  <2>3. QueuedLive(Q)
    BY <2>1, <2>2 DEF Live, QueuedLive
  <2>4. SlotsLive(Q)
    BY <1>1, <2>1, <2>2 DEF Live, SlotsLive
  <2> QED BY <2>1, <2>3, <2>4 DEF Live, DeadKept
<1> QED BY <1>2, <1>3, <1>4 DEF requeue_current

\* schedule(Yield | Tick | Reschedule).
LEMMA ScheduleReadyLive ==
  ASSUME NEW S \in SchedType, NEW c \in CPU, NEW q \in BOOLEAN, Live(S),
         NEW R \in schedule_ready(S, c, q)
  PROVE  R \in SchedType /\ Live(R) /\ DeadKept(S, R)
<1>1. CASE S.current[c] = Idle
  BY <1>1, InstallLive DEF schedule_ready, Live
<1>2. CASE S.current[c] # Idle
  <2> DEFINE t == S.current[c]
  <2>1. t \in Task
    BY <1>2 DEF SchedType
  <2>2. PICK b \in BOOLEAN :
          R \in UNION {install_next(Q, c) : Q \in requeue_current(S, c, t, b)}
    BY <1>2 DEF schedule_ready
  <2>3. PICK Q \in requeue_current(S, c, t, b) : R \in install_next(Q, c)
    BY <2>2
  <2>4. Q \in SchedType /\ Live(Q) /\ DeadKept(S, Q)
    BY <2>1, <2>3, RequeueLive
  <2>5. R \in SchedType /\ Live(R) /\ DeadKept(Q, R)
    BY <2>3, <2>4, InstallLive DEF Live
  <2> QED BY <2>4, <2>5 DEF DeadKept
<1> QED BY <1>1, <1>2

\* schedule(Exit): the task that exits is in no queue, so the one that follows it
\* and the one that waited for it are others.
LEMMA ScheduleExitLive ==
  ASSUME NEW S \in SchedType, NEW c \in CPU, Live(S), S.current[c] \in Task,
         S.state[S.current[c]] = "running", \A d \in CPU : S.current[c] \notin S.rq[d],
         NEW R \in schedule_exit(S, c)
  PROVE  DeadKept(S, R)
<1> DEFINE t == S.current[c]
           Woken == {S} \cup UNION {activate_ready_task(S, w, LastCpu(S, w), BOOLEAN) :
                                      w \in {u \in Task : S.state[u] = "blocked"}}
<1>1. PICK Q \in Woken : R \in install_next(mark_exited(Q, t), c)
  BY DEF schedule_exit
<1>2. Q \in SchedType /\ Live(Q) /\ DeadKept(S, Q) /\ \A d \in CPU : t \notin Q.rq[d]
  <2>1. CASE Q = S
    BY <2>1 DEF DeadKept
  <2>2. CASE Q # S
    <3>1. PICK w \in {u \in Task : S.state[u] = "blocked"} :
            Q \in activate_ready_task(S, w, LastCpu(S, w), BOOLEAN)
      BY <1>1, <2>2
    <3>2. \A d \in CPU : Q.rq[d] \subseteq S.rq[d] \cup {w}
      BY <3>1, ActivateEffect
    <3>3. w # t
      BY <3>1
    <3> QED BY <3>1, <3>2, <3>3, ActivateLive DEF Dead
  <2> QED BY <2>1, <2>2
<1>3. t \in Task
  OBVIOUS
<1> HIDE DEF t, Woken
<1> DEFINE E == mark_exited(Q, t)
<1>4. E \in SchedType /\ E.state = [Q.state EXCEPT ![t] = "exited"] /\ E.rq = Q.rq
  BY <1>2, <1>3 DEF mark_exited, SchedType, TaskStates
<1> HIDE DEF E
<1>5. Q.state \in [Task -> TaskStates] /\ Q.rq \in [CPU -> SUBSET Task]
  BY <1>2 DEF SchedType
<1>6. DeadKept(Q, E)
  BY <1>3, <1>4, <1>5 DEF DeadKept, Dead
<1>7. QueuedLive(E)
  BY <1>2, <1>4, <1>5 DEF QueuedLive, Live
<1>8. R \in install_next(E, c)
  BY <1>1 DEF E
<1>9. DeadKept(E, R)
  BY <1>4, <1>7, <1>8, InstallLive
<1> QED BY <1>2, <1>6, <1>9 DEF DeadKept

\* The epilogues only consume requests.
LEMMA DrainStates ==
  ASSUME NEW S \in SchedType, NEW c \in CPU
  PROVE  drain_local(S, c).state = S.state
<1> DEFINE D == take_pending_reschedule_cpus(S)
<1>1. D \in SchedType /\ D.state = S.state
  BY TakeSameCore DEF SameCore
<1> HIDE DEF D
<1>2. take_need_resched(D, c).state = D.state
  BY <1>1, TakeSameCore DEF SameCore
<1>3. Panic(D, "need_resched").state = D.state
  BY <1>1 DEF Panic, SchedType
<1> QED BY <1>1, <1>2, <1>3 DEF drain_local, D

(***************************************************************************)
(* The steps                                                               *)
(***************************************************************************)
\* What the agreement says when a critical section begins.
LEMMA BeginLive ==
  ASSUME Inv, sched.panic = "none"
  PROVE  /\ sched \in SchedType /\ Live(sched)
         /\ \A c \in CPU : sched.current[c] \in Task =>
              /\ sched.state[sched.current[c]] = "running"
              /\ \A d \in CPU : sched.current[c] \notin sched.rq[d]
         /\ \A t \in unstarted : t \in Task /\ sched.state[t] = "ready"
<1>1. sched \in SchedType /\ Struct(sched, unstarted, {}) /\ unstarted \subseteq Task
  BY DEF Inv, Good, TypeOK
<1>2. Live(sched)
  BY <1>1, StructLive
<1> QED BY <1>1, <1>2 DEF Struct, CurrentAgrees, QueuesMatchTasks, UnstartedAreUnpublished

\* The scheduling entries.
LEMMA EntryKept ==
  ASSUME Inv, NEW c \in CPU, Yield(c) \/ Block(c) \/ WaitReady(c) \/ Exit(c)
  PROVE  DeadKept(sched, sched')
<1>1. sched.panic = "none"
  BY DEF Yield, Block, WaitReady, Exit, RunsTask, Interruptible
<1>2. sched \in SchedType /\ Live(sched)
  BY <1>1, BeginLive
<1>3. ASSUME NEW Q \in activate_woken_and_timeout_tasks(sched, c)
      PROVE  Q \in SchedType /\ DeadKept(sched, Q) /\ Live(Q)
  BY <1>2, <1>3, DueLive
<1>4. ASSUME NEW R \in SchedType, DeadKept(sched, R), finish(c, R, "run", ipi)
      PROVE  DeadKept(sched, sched')
  BY <1>4, DrainStates DEF finish, leave, DeadKept
<1>5. CASE Yield(c)
  <2>1. PICK Q \in activate_woken_and_timeout_tasks(sched, c) :
          \E R \in schedule_ready(Q, c, FALSE) : finish(c, R, "run", ipi)
    BY <1>5 DEF Yield
  <2>2. PICK R \in schedule_ready(Q, c, FALSE) : finish(c, R, "run", ipi)
    BY <2>1
  <2>3. R \in SchedType /\ DeadKept(Q, R)
    BY <1>3, <2>1, <2>2, ScheduleReadyLive
  <2> QED BY <1>3, <1>4, <2>1, <2>2, <2>3 DEF DeadKept
<1>6. CASE Block(c)
  <2>1. PICK Q \in activate_woken_and_timeout_tasks(sched, c) :
          \E R \in install_next(mark_blocking(Q, c), c) : finish(c, R, "run", ipi)
    BY <1>6 DEF Block
  <2>2. PICK R \in install_next(mark_blocking(Q, c), c) : finish(c, R, "run", ipi)
    BY <2>1
  <2>3. Good(Q, unstarted, {}) /\ Q.current = sched.current
    BY <2>1, DueGood DEF Inv
  <2>4. Q \in SchedType /\ DeadKept(sched, Q) /\ Live(Q)
    BY <1>3, <2>1
  <2> DEFINE t == Q.current[c]
             M == mark_blocking(Q, c)
  <2>5. t \in Task
    BY <1>6, <2>3 DEF Block, RunsTask
  <2>6. Q.state[t] \notin Dead
    BY <2>4, <2>5 DEF Live, SlotsLive
  <2>7. /\ M \in SchedType /\ M.state = [Q.state EXCEPT ![t] = "blocked"]
        /\ M.rq = [Q.rq EXCEPT ![c] = Q.rq[c] \ {t}]
    BY <2>4, <2>5 DEF mark_blocking, SchedType, TaskStates
  <2> HIDE DEF M, t
  <2>8. Q.state \in [Task -> TaskStates] /\ Q.rq \in [CPU -> SUBSET Task]
    BY <2>4 DEF SchedType
  <2>9. DeadKept(Q, M)
    BY <2>5, <2>6, <2>7, <2>8 DEF DeadKept, Dead
  <2>10. QueuedLive(M)
    BY <2>4, <2>5, <2>7, <2>8 DEF QueuedLive, Live, Dead
  <2>11. R \in install_next(M, c)
    BY <2>2 DEF M
  <2>12. R \in SchedType /\ DeadKept(M, R)
    BY <2>7, <2>10, <2>11, InstallLive
  <2> QED BY <1>4, <2>2, <2>4, <2>9, <2>12 DEF DeadKept
<1>7. CASE WaitReady(c)
  <2>1. PICK Q \in activate_woken_and_timeout_tasks(sched, c) : finish(c, Q, "run", ipi)
    BY <1>7 DEF WaitReady
  <2> QED BY <1>3, <1>4, <2>1
<1>8. CASE Exit(c)
  <2>1. PICK Q \in activate_woken_and_timeout_tasks(sched, c) :
          \E R \in schedule_exit(Q, c) : finish(c, R, "run", ipi)
    BY <1>8 DEF Exit
  <2>2. PICK R \in schedule_exit(Q, c) : finish(c, R, "run", ipi)
    BY <2>1
  <2>3. /\ sched.current[c] \in Task /\ sched.state[sched.current[c]] = "running"
        /\ \A d \in CPU : sched.current[c] \notin sched.rq[d] /\ c \notin sched.boot
    BY <1>1, <1>8, BeginLive DEF Exit, RunsTask, Interruptible
  <2>4. Q \in SchedType /\ DeadKept(sched, Q) /\ Live(Q)
    BY <1>3, <2>1
  <2>5. /\ Good(Q, unstarted, {}) /\ Q.current = sched.current /\ Q.boot = sched.boot
    BY <2>1, DueGood DEF Inv
  <2>6. /\ Q.state[sched.current[c]] = "running"
        /\ \A d \in CPU : sched.current[c] \notin Q.rq[d]
    <3>1. CASE Q = sched
      BY <2>3, <3>1
    <3>2. CASE Q # sched
      <4>1. PICK w \in {u \in Task : sched.state[u] = "blocked"} :
              Q \in activate_ready_task(sched, w, LastCpu(sched, w), BOOLEAN)
        BY <2>1, <3>2 DEF activate_woken_and_timeout_tasks
      <4>2. /\ Q.state = sched.state \/ Q.state = [sched.state EXCEPT ![w] = "ready"]
            /\ \A d \in CPU : Q.rq[d] \subseteq sched.rq[d] \cup {w}
        BY <1>2, <4>1, ActivateEffect
      <4>3. w # sched.current[c] /\ sched.state \in [Task -> TaskStates]
        BY <1>2, <2>3, <4>1 DEF SchedType
      <4> QED BY <2>3, <4>2, <4>3
    <3> QED BY <3>1, <3>2
  <2>7. DeadKept(Q, R)
    BY <2>2, <2>3, <2>4, <2>5, <2>6, ScheduleExitLive
  <2>8. R \in SchedType
    BY <2>2, <2>3, <2>5, ScheduleExitGood DEF Good
  <2> QED BY <1>4, <2>2, <2>4, <2>7, <2>8 DEF DeadKept
<1> QED BY <1>5, <1>6, <1>7, <1>8

\* schedule_tick.
LEMMA TickKept ==
  ASSUME Inv, NEW c \in CPU, Tick(c) PROVE DeadKept(sched, sched')
<1>1. sched.panic = "none" /\ c \notin sched.boot
  BY DEF Tick, Interruptible
<1>2. sched \in SchedType /\ Live(sched)
  BY <1>1, BeginLive
<1>3. PICK b \in BOOLEAN : \E Q \in schedule_on_tick(sched, c, b) :
        \E R \in after_tick(Q, c) : leave(c, R, phase[c])
  BY DEF Tick
<1>4. PICK Q \in schedule_on_tick(sched, c, b) :
        \E R \in after_tick(Q, c) : leave(c, R, phase[c])
  BY <1>3
<1>5. PICK R \in after_tick(Q, c) : leave(c, R, phase[c])
  BY <1>4
<1>6. PICK W \in activate_woken_and_timeout_tasks(sched, c) :
        Q \in schedule_ready(W, c, TRUE) \/ Q = W
  BY <1>4 DEF schedule_on_tick
<1>7. W \in SchedType /\ DeadKept(sched, W) /\ Live(W)
  BY <1>2, <1>6, DueLive
<1>8. Q \in SchedType /\ DeadKept(W, Q) /\ Live(Q)
  <2>1. CASE Q = W
    BY <1>7, <2>1 DEF DeadKept
  <2>2. CASE Q \in schedule_ready(W, c, TRUE)
    BY <1>7, <2>2, ScheduleReadyLive
  <2> QED BY <1>6, <2>1, <2>2
<1> DEFINE P == take_pending_reschedule_cpus(Q)
           D == take_need_resched(P, c)
<1>9. P \in SchedType /\ Live(P) /\ P.state = Q.state
  BY <1>8, TakeSameCore, SameTasksLive DEF SameCore
<1> HIDE DEF P
<1>10. D \in SchedType /\ Live(D) /\ D.state = P.state
  BY <1>9, TakeSameCore, SameTasksLive DEF SameCore
<1> HIDE DEF D
<1>11. R = D \/ R \in schedule_ready(D, c, FALSE)
  BY <1>5 DEF after_tick, D, P
<1>12. DeadKept(D, R)
  BY <1>10, <1>11, ScheduleReadyLive DEF DeadKept
<1> QED BY <1>5, <1>7, <1>8, <1>9, <1>10, <1>12 DEF DeadKept, leave

\* schedule_reschedule.
LEMMA RescheduleKept ==
  ASSUME Inv, NEW c \in CPU, NEW p, NEW W, sched.panic = "none",
         schedule_reschedule(c, p, W)
  PROVE  DeadKept(sched, sched')
<1>1. sched \in SchedType /\ Live(sched)
  BY BeginLive
<1>2. CASE c \in sched.boot
  BY <1>2 DEF schedule_reschedule, DeadKept
<1>3. CASE c \notin sched.boot
  <2>1. PICK R \in IF sched.need_resched[c]
                    THEN schedule_ready(take_need_resched(sched, c), c, FALSE)
                    ELSE {sched} : finish(c, R, p, W)
    BY <1>3 DEF schedule_reschedule
  <2> DEFINE D == take_need_resched(sched, c)
  <2>2. D \in SchedType /\ Live(D) /\ D.state = sched.state
    BY <1>1, TakeSameCore, SameTasksLive DEF SameCore
  <2> HIDE DEF D
  <2>3. R = sched \/ R \in schedule_ready(D, c, FALSE)
    BY <2>1 DEF D
  <2>4. R \in SchedType /\ DeadKept(sched, R)
    BY <1>1, <2>2, <2>3, ScheduleReadyLive DEF DeadKept
  <2> QED BY <2>1, <2>4, DrainStates DEF finish, leave, DeadKept
<1> QED BY <1>2, <1>3

\* The sections that publish one task t: the wakes, the second half of a creation,
\* and the publication of a deferred task.
LEMMA PublishKept ==
  ASSUME NEW S \in SchedType, NEW t \in Task, NEW P, S.state[t] \notin Dead,
         DeadKept(sched, S), NEW R \in activate_ready_task(S, t, P, BOOLEAN),
         sched' = take_pending_reschedule_cpus(R)
  PROVE  DeadKept(sched, sched')
<1>1. R \in SchedType /\ DeadKept(S, R)
  BY ActivateLive
<1>2. take_pending_reschedule_cpus(R).state = R.state
  BY <1>1 DEF take_pending_reschedule_cpus, SchedType
<1> QED BY <1>1, <1>2 DEF DeadKept

\* What follows __switch.
LEMMA PostSwitchKept ==
  ASSUME Inv, NEW c \in CPU, PostSwitch(c) PROVE DeadKept(sched, sched')
<1>1. sched \in SchedType /\ Live(sched) /\ TypeOK
  BY BeginLive DEF PostSwitch, Inv
<1> DEFINE d == resumed_cpu_id(c)
<1>2. d \in CPU
  BY <1>1 DEF resumed_cpu_id, TypeOK
<1> HIDE DEF d
<1>3. PICK R \in enqueue_deferred_task(sched, d) : sched' = take_pending_reschedule_cpus(R)
  BY DEF PostSwitch, d
<1>4. CASE sched.deferred[d] = NoTask
  <2>1. R = sched
    BY <1>3, <1>4 DEF enqueue_deferred_task
  <2>2. take_pending_reschedule_cpus(R).state = R.state
    BY <1>1, <2>1 DEF take_pending_reschedule_cpus, SchedType
  <2> QED BY <1>3, <2>1, <2>2 DEF DeadKept
<1>5. CASE sched.deferred[d] # NoTask
  <2> DEFINE t == sched.deferred[d]
             Q == [sched EXCEPT !.deferred[d] = NoTask]
  <2>1. t \in Task /\ R \in activate_ready_task(Q, t, LeastLoaded, BOOLEAN)
    BY <1>1, <1>2, <1>3, <1>5 DEF enqueue_deferred_task, SchedType
  <2>2. Q \in SchedType /\ Q.state = sched.state
    BY <1>1 DEF SchedType
  <2>3. sched.state[t] \notin Dead
    BY <1>1, <1>2, <2>1 DEF Live, SlotsLive
  <2> HIDE DEF Q, t
  <2> QED BY <1>3, <2>1, <2>2, <2>3, PublishKept DEF DeadKept
<1> QED BY <1>4, <1>5

\* The wakes, and the publication of a created task.
LEMMA WakeKept ==
  ASSUME Inv, NEW c \in CPU, NEW t \in Task,
         Wake(c, t) \/ WakeDeferred(c, t) \/ Start(c, t)
  PROVE  DeadKept(sched, sched')
<1>1. sched.panic = "none"
  BY DEF Wake, WakeDeferred, Start, RunsTask, Booting, Interruptible
<1>2. sched \in SchedType /\ (t \in unstarted => sched.state[t] = "ready")
  BY <1>1, BeginLive
<1>3. sched.state[t] \notin Dead
  BY <1>2 DEF Wake, WakeDeferred, Start, Dead
<1>4. PICK P : \E R \in activate_ready_task(sched, t, P, BOOLEAN) :
                 sched' = take_pending_reschedule_cpus(R)
  BY DEF Wake, WakeDeferred, Start, release
<1> QED BY <1>2, <1>3, <1>4, PublishKept DEF DeadKept

\* A new task was not dead.
LEMMA CreateKept ==
  ASSUME Inv, NEW c \in CPU, NEW t \in Task, Create(c, t) \/ Spawn(c, t)
  PROVE  DeadKept(sched, sched')
<1>1. sched \in SchedType /\ sched.panic = "none" /\ sched.state[t] = "none"
  BY DEF Create, Spawn, RunsTask, Booting, Interruptible, Inv, TypeOK
<1>2. ASSUME NEW N \in new_task(sched, c, t)
      PROVE  N \in SchedType /\ DeadKept(sched, N) /\ N.state[t] = "ready"
  <2>1. N \in SchedType
    BY <1>1, CreateGood DEF Inv, Good
  <2>2. N.state = [sched.state EXCEPT ![t] = "ready"]
    BY <1>1 DEF new_task, SchedType
  <2>3. sched.state \in [Task -> TaskStates]
    BY <1>1 DEF SchedType
  <2> QED BY <1>1, <2>1, <2>2, <2>3 DEF DeadKept, Dead
<1>3. CASE Create(c, t)
  BY <1>2, <1>3 DEF Create
<1>4. CASE Spawn(c, t)
  <2>1. PICK N \in new_task(sched, c, t) :
          \E R \in activate_ready_task(N, t, LeastLoaded, BOOLEAN) :
            sched' = take_pending_reschedule_cpus(R)
    BY <1>4 DEF Spawn, release
  <2> QED BY <1>2, <2>1, PublishKept DEF Dead
<1> QED BY <1>3, <1>4

\* A queued task that must move is published again.
LEMMA SetAffinityKept ==
  ASSUME Inv, NEW c \in CPU, NEW t \in Task, NEW mask \in Masks, SetAffinity(c, t, mask)
  PROVE  DeadKept(sched, sched')
<1>1. sched \in SchedType /\ sched.panic = "none"
  BY DEF SetAffinity, RunsTask, Interruptible, Inv, TypeOK
<1>2. PICK R \in set_affinity(sched, t, mask) : sched' = take_pending_reschedule_cpus(R)
  BY DEF SetAffinity, release
<1> DEFINE A == [sched EXCEPT !.affinity[t] = mask]
<1>3. A \in SchedType /\ A.state = sched.state
  BY <1>1, MaskAssumption DEF SchedType
<1> HIDE DEF A
<1>4. CASE R \in activate_ready_task(A, t, LeastLoaded, BOOLEAN) /\ sched.state[t] = "ready"
  BY <1>2, <1>3, <1>4, PublishKept DEF DeadKept, Dead
<1>5. CASE /\ sched.running_cpu[t] \in CPU
           /\ R = request_reschedule(A, sched.running_cpu[t], TRUE, FALSE)
  <2>1. R \in SchedType /\ R.state = A.state
    BY <1>3, <1>5, RequestSameCore DEF SameCore
  <2>2. take_pending_reschedule_cpus(R).state = R.state
    BY <2>1 DEF take_pending_reschedule_cpus, SchedType
  <2> QED BY <1>2, <1>3, <2>1, <2>2 DEF DeadKept
<1>6. CASE R = A
  <2>1. take_pending_reschedule_cpus(R).state = R.state
    BY <1>3, <1>6 DEF take_pending_reschedule_cpus, SchedType
  <2> QED BY <1>2, <1>3, <1>6, <2>1 DEF DeadKept
<1>7. sched.state[t] = "running" => sched.running_cpu[t] \in CPU
  BY <1>1 DEF Inv, Good, Struct, RunningAgrees
<1> QED BY <1>2, <1>4, <1>5, <1>6, <1>7 DEF set_affinity, A

\* A policy change queues a ready task again or refreshes a running one.
LEMMA PolicyKept ==
  ASSUME Inv, NEW c \in CPU, NEW t \in Task, PolicyChange(c, t)
  PROVE  DeadKept(sched, sched')
<1> DEFINE d == policy_cpu(sched, c, t)
           Q == refresh_task(sched, t, d)
           D == dequeue_from_all_cpus(sched, t)
<1>1. /\ sched \in SchedType /\ sched.panic = "none"
      /\ sched.state[t] \in {"ready", "running"}
  BY DEF PolicyChange, RunsTask, Interruptible, Inv, TypeOK
<1>2. d \in CPU
  BY <1>1 DEF policy_cpu, Inv, Good, Struct, RunningAgrees, SchedType
<1>3. D \in SchedType /\ D.state = sched.state
  BY <1>1 DEF dequeue_from_all_cpus, SchedType
<1> HIDE DEF D
<1>4. /\ Q \in {Panic(D, "target"), Panic(D, "publish_running"), insert_ready(D, t, d),
                [D EXCEPT !.current[d] = t, !.cached[d] = sched.affinity[t]]}
  BY DEF refresh_task, enqueue_ready_on_cpu, D
<1>5. sched' = Q \/ sched' = mark_need_resched(Q, d)
  BY DEF PolicyChange
<1> HIDE DEF Q, d
<1>6. Q \in SchedType /\ (Q.state = D.state \/ Q.state = [D.state EXCEPT ![t] = "ready"])
  <2>1. CASE Q = insert_ready(D, t, d)
    <3>1. /\ insert_ready(D, t, d) \in SchedType
          /\ insert_ready(D, t, d).state = [D.state EXCEPT ![t] = "ready"]
      BY <1>2, <1>3, InsertFields, ZenonT(60)
    <3> QED BY <2>1, <3>1
  <2>2. CASE Q = [D EXCEPT !.current[d] = t, !.cached[d] = sched.affinity[t]]
    <3>1. sched.affinity[t] \in SUBSET CPU
      BY <1>1 DEF SchedType
    <3> QED BY <1>2, <1>3, <2>2, <3>1 DEF SchedType
  <2>3. CASE Q = Panic(D, "target") \/ Q = Panic(D, "publish_running")
    BY <1>3, <2>3 DEF Panic, SchedType, Asserts
  <2> QED BY <1>4, <2>1, <2>2, <2>3
<1>7. mark_need_resched(Q, d).state = Q.state
  BY <1>6 DEF mark_need_resched, SchedType
<1>8. sched.state \in [Task -> TaskStates]
  BY <1>1 DEF SchedType
<1> QED BY <1>1, <1>3, <1>5, <1>6, <1>7, <1>8 DEF DeadKept, Dead

\* kill, reap, discard and request_task_reschedule.
LEMMA EndKept ==
  ASSUME Inv, NEW c \in CPU, NEW t \in Task,
         Kill(c, t) \/ Reap(c, t) \/ Discard(c, t) \/ RequestTaskReschedule(c, t)
  PROVE  DeadKept(sched, sched')
<1>1. sched \in SchedType /\ sched.state \in [Task -> TaskStates]
  BY DEF Inv, TypeOK, SchedType
<1> DEFINE D == dequeue_from_all_cpus(sched, t)
<1>2. D \in SchedType /\ D.state = sched.state
  BY <1>1 DEF dequeue_from_all_cpus, SchedType
<1> HIDE DEF D
<1>3. CASE Kill(c, t)
  <2>1. sched'.state = [sched.state EXCEPT ![t] = "exited"]
    BY <1>2, <1>3 DEF Kill, mark_exited, SchedType, D
  <2> QED BY <1>1, <2>1 DEF DeadKept, Dead
<1>4. CASE Reap(c, t)
  <2>1. sched'.state = [sched.state EXCEPT ![t] = "reaped"]
    BY <1>1, <1>4 DEF Reap, SchedType
  <2> QED BY <1>1, <2>1 DEF DeadKept, Dead
<1>5. CASE Discard(c, t)
  <2>1. sched'.state = [sched.state EXCEPT ![t] = "reaped"]
    BY <1>2, <1>5 DEF Discard, discard_task, SchedType, D
  <2> QED BY <1>1, <2>1 DEF DeadKept, Dead
<1>6. CASE RequestTaskReschedule(c, t)
  <2> DEFINE R == request_reschedule(sched, sched.running_cpu[t], TRUE, FALSE)
             P == take_pending_reschedule_cpus(R)
  <2>1. sched.running_cpu[t] \in CPU
    BY <1>1, <1>6 DEF RequestTaskReschedule, SchedType
  <2>2. R \in SchedType /\ R.state = sched.state
    BY <1>1, <2>1, RequestSameCore DEF SameCore
  <2>3. sched' = P \/ sched' = take_need_resched(P, c)
    BY <1>6 DEF RequestTaskReschedule
  <2> HIDE DEF R
  <2>4. P \in SchedType /\ P.state = R.state
    BY <2>2, TakeSameCore DEF SameCore
  <2> HIDE DEF P
  <2>5. take_need_resched(P, c).state = P.state
    BY <2>4, TakeSameCore DEF SameCore
  <2> QED BY <2>2, <2>3, <2>4, <2>5 DEF DeadKept
<1> QED BY <1>3, <1>4, <1>5, <1>6

\* Bring-up, and __switch itself, which the scheduler does not see.
LEMMA BringUpKept ==
  ASSUME Inv, NEW c \in CPU, Switch(c) \/ SetCpuOnline(c) \/ RunFirstTask(c)
  PROVE  DeadKept(sched, sched')
<1>1. sched \in SchedType /\ Live(sched)
  BY BeginLive DEF Switch, SetCpuOnline, RunFirstTask, Booting
<1>2. CASE Switch(c)
  BY <1>2 DEF Switch, DeadKept
<1>3. CASE SetCpuOnline(c)
  <2>1. sched'.state = sched.state
    BY <1>1, <1>3 DEF SetCpuOnline, SchedType
  <2> QED BY <2>1 DEF DeadKept
<1>4. CASE RunFirstTask(c)
  <2> DEFINE L == [sched EXCEPT !.boot = @ \ {c}]
  <2>1. sched' \in install_next(L, c)
    BY <1>4 DEF RunFirstTask
  <2>2. L \in SchedType /\ L.state = sched.state /\ L.rq = sched.rq
    BY <1>1 DEF SchedType
  <2> HIDE DEF L
  <2>3. QueuedLive(L)
    BY <1>1, <2>2 DEF QueuedLive, Live
  <2> QED BY <2>1, <2>2, <2>3, InstallLive DEF DeadKept
<1> QED BY <1>2, <1>3, <1>4

\* Every step.
LEMMA NextKept ==
  ASSUME Inv, Next PROVE DeadKept(sched, sched')
<1>1. CASE Halt
  BY <1>1 DEF Halt, vars, DeadKept
<1>2. ASSUME NEW c \in CPU, CpuStep(c) PROVE DeadKept(sched, sched')
  <2>1. CASE RescheduleIpi(c) \/ RescheduleCall(c)
    BY <2>1, RescheduleKept DEF RescheduleIpi, RescheduleCall
  <2> QED BY <1>2, <2>1, EntryKept, TickKept, PostSwitchKept, BringUpKept DEF CpuStep
<1>3. ASSUME NEW c \in CPU, NEW t \in Task, TaskOp(c, t) PROVE DeadKept(sched, sched')
  BY <1>3, WakeKept, EndKept, PolicyKept, SetAffinityKept, CreateKept DEF TaskOp
<1> QED BY <1>1, <1>2, <1>3 DEF Next

\* A task that exited never runs, waits or queues again, for any number of CPUs
\* and tasks: no wake, no late publication and no queue entry revives it.
THEOREM ExitIsFinalHolds == ASSUME TransitOps = {} PROVE Spec => ExitIsFinal
<1>1. Inv /\ [Next]_vars =>
        [\A t \in Task : sched.state[t] \in {"exited", "reaped"} =>
           sched'.state[t] \in {"exited", "reaped"}]_vars
  BY NextKept DEF DeadKept, Dead
<1> QED BY <1>1, Invariance, PTL DEF Spec, ExitIsFinal

-----------------------------------------------------------------------------
(***************************************************************************)
(* Requests.  Heed is carried through a critical section.  K is the set of  *)
(* CPUs whose idle slot need not be covered by a request: the CPU that is   *)
(* about to choose its next task, or the one whose request is about to be   *)
(* made.                                                                   *)
(***************************************************************************)
IdleAnswered(S, K) ==
  \A d \in CPU \ K : S.current[d] = Idle /\ S.rq[d] # {} => S.need_resched[d]

RequestsKept(S) == \A d \in S.pending : S.need_resched[d]

\* The affinity a CPU remembers of its current task includes the CPU.
SnapshotsOwn(S) == \A d \in CPU : d \in S.cached[d]

\* A policy change leaves its request pending and may refresh the snapshot of a
\* task that has to leave: what is proved of the pending mask is proved without it.
Strict == "policy" \notin AdminOps

Heed(S, K) ==
  /\ Strict => S.panic # "need_resched"
  /\ S.panic = "none" =>
       /\ IdleAnswered(S, K)
       /\ Strict => RequestsKept(S) /\ SnapshotsOwn(S)

\* CPU c idles only if it has nothing to run.
Settled(S, c) == S.panic = "none" /\ S.current[c] = Idle => S.rq[c] = {}

PendingSwitches ==
  Strict /\ sched.panic = "none" => \A c \in sched.pending : phase[c] \in {"switch", "post"}

RequestInv == Heed(sched, {}) /\ PendingSwitches

(***************************************************************************)
(* The operations                                                          *)
(***************************************************************************)
\* Queues may shrink, and the queues of K may grow.
LEMMA HeedMono ==
  ASSUME NEW S, NEW R, NEW J, NEW K, Heed(S, J), J \subseteq K, R.panic = S.panic,
         R.current = S.current, R.need_resched = S.need_resched,
         R.pending = S.pending, R.cached = S.cached,
         \A d \in CPU \ K : R.rq[d] \subseteq S.rq[d]
  PROVE  Heed(R, K)
<1>1. IdleAnswered(S, J) => IdleAnswered(R, K)
  BY DEF IdleAnswered
<1> QED BY <1>1 DEF Heed, RequestsKept, SnapshotsOwn

\* The first failing assertion ends what is promised.
LEMMA PanicHeed ==
  ASSUME NEW S \in SchedType, NEW J, NEW K, Heed(S, J),
         NEW a \in Asserts \ {"none", "need_resched"}
  PROVE  Heed(Panic(S, a), K)
<1>1. Panic(S, a).panic = IF S.panic = "none" THEN a ELSE S.panic
  BY PanicFields
<1> QED BY <1>1 DEF Heed

\* A request.
LEMMA MarkHeed ==
  ASSUME NEW S \in SchedType, NEW c \in CPU, NEW K, Heed(S, K \cup {c})
  PROVE  Heed(mark_need_resched(S, c), K)
<1> DEFINE R == mark_need_resched(S, c)
<1>1. /\ R.panic = S.panic /\ R.current = S.current /\ R.rq = S.rq /\ R.cached = S.cached
      /\ R.need_resched = [S.need_resched EXCEPT ![c] = TRUE]
      /\ R.pending = S.pending \cup {c}
  BY DEF mark_need_resched, SchedType
<1>2. S.need_resched \in [CPU -> BOOLEAN] /\ S.pending \subseteq CPU
  BY DEF SchedType
<1> HIDE DEF R
<1>3. IdleAnswered(S, K \cup {c}) => IdleAnswered(R, K)
  BY <1>1, <1>2 DEF IdleAnswered
<1>4. RequestsKept(S) => RequestsKept(R)
  BY <1>1, <1>2 DEF RequestsKept
<1>5. SnapshotsOwn(S) => SnapshotsOwn(R)
  BY <1>1 DEF SnapshotsOwn
<1>6. Heed(R, K)
  BY <1>1, <1>3, <1>4, <1>5 DEF Heed
<1> QED BY <1>6 DEF R

\* The test that decides about a request covers an idle CPU with work.
LEMMA RequestHeed ==
  ASSUME NEW S \in SchedType, NEW c \in CPU, NEW f \in BOOLEAN, NEW b \in BOOLEAN, NEW K,
         Heed(S, K \cup {c})
  PROVE  Heed(request_reschedule(S, c, f, b), K)
<1>1. CASE cpu_should_reschedule(S, c, f, b)
  BY <1>1, MarkHeed DEF request_reschedule
<1>2. CASE ~cpu_should_reschedule(S, c, f, b)
  <2>1. S.current[c] = Idle => S.rq[c] = {}
    BY <1>2 DEF cpu_should_reschedule
  <2>2. IdleAnswered(S, K \cup {c}) => IdleAnswered(S, K)
    BY <2>1 DEF IdleAnswered
  <2> QED BY <1>2, <2>2 DEF request_reschedule, Heed
<1> QED BY <1>1, <1>2

\* A publication on c, before the request for c.
LEMMA EnqueueHeed ==
  ASSUME NEW S \in SchedType, NEW t \in Task, NEW c \in CPU, NEW K, Heed(S, K)
  PROVE  Heed(enqueue_ready_on_cpu(S, t, c), K \cup {c})
<1>1. CASE enqueue_ready_on_cpu(S, t, c) = insert_ready(S, t, c)
  <2> DEFINE R == insert_ready(S, t, c)
  <2>1. /\ R.panic = S.panic /\ R.current = S.current /\ R.need_resched = S.need_resched
        /\ R.pending = S.pending /\ R.cached = S.cached
        /\ R.rq = [d \in CPU |-> IF d = c THEN S.rq[d] \cup {t}
                                 ELSE IF d = S.ready_cpu[t] THEN S.rq[d] \ {t}
                                 ELSE S.rq[d]]
    BY DEF insert_ready, SchedType
  <2> HIDE DEF R
  <2>2. \A d \in CPU \ (K \cup {c}) : R.rq[d] \subseteq S.rq[d]
    BY <2>1
  <2>3. Heed(R, K \cup {c})
    BY <2>1, <2>2, HeedMono
  <2> QED BY <1>1, <2>3 DEF R
<1>2. CASE enqueue_ready_on_cpu(S, t, c) \in {Panic(S, "target"), Panic(S, "publish_running")}
  <2>1. /\ "target" \in Asserts \ {"none", "need_resched"}
        /\ "publish_running" \in Asserts \ {"none", "need_resched"}
    BY DEF Asserts
  <2> QED BY <1>2, <2>1, PanicHeed
<1> QED BY <1>1, <1>2 DEF enqueue_ready_on_cpu

\* An activation.
LEMMA ActivateHeed ==
  ASSUME NEW S \in SchedType, NEW t \in Task, NEW P, NEW B \in SUBSET BOOLEAN, NEW K,
         NEW R \in activate_ready_task(S, t, P, B), Heed(S, K)
  PROVE  Heed(R, K)
<1>1. /\ "no_task" \in Asserts \ {"none", "need_resched"}
      /\ "no_cpu" \in Asserts \ {"none", "need_resched"}
  BY DEF Asserts
<1>2. CASE ~Exists(S, t) \/ S.online \cap S.affinity[t] = {}
  <2>1. R \in {Panic(S, "no_task"), Panic(S, "no_cpu")}
    BY <1>2 DEF activate_ready_task
  <2> QED BY <1>1, <2>1, PanicHeed
<1>3. CASE Exists(S, t) /\ S.online \cap S.affinity[t] # {}
  <2>1. PICK c \in pick_ready_cpu(S, t, P) : \E b \in B : R = activate_on(S, t, c, b)
    BY <1>3, Activations
  <2>2. PICK b \in B : R = activate_on(S, t, c, b)
    BY <2>1
  <2>3. c \in CPU /\ b \in BOOLEAN
    BY <2>1, <2>2, PickUsable
  <2> DEFINE Q == enqueue_ready_on_cpu(S, t, c)
  <2>4. Q \in SchedType
    BY <2>3, EnqueueFields, ZenonT(60)
  <2>5. Heed(Q, K \cup {c})
    BY <2>3, EnqueueHeed
  <2> HIDE DEF Q
  <2>6. R = request_reschedule(Q, c, FALSE, b)
    BY <2>2 DEF Q, activate_on
  <2> QED BY <2>3, <2>4, <2>5, <2>6, RequestHeed
<1> QED BY <1>2, <1>3

\* The wakes of the timekeeper.
LEMMA DueHeed ==
  ASSUME NEW S \in SchedType, NEW c \in CPU, NEW K, Heed(S, K),
         NEW R \in activate_woken_and_timeout_tasks(S, c)
  PROVE  Heed(R, K)
<1>1. CASE R = S
  BY <1>1
<1>2. CASE R # S
  <2>1. PICK t \in {u \in Task : S.state[u] = "blocked"} :
          R \in activate_ready_task(S, t, LastCpu(S, t), BOOLEAN)
    BY <1>2 DEF activate_woken_and_timeout_tasks
  <2> QED BY <2>1, ActivateHeed
<1> QED BY <1>1, <1>2

\* CPU c chooses its next task: it idles only if its queue is empty.
LEMMA InstallHeed ==
  ASSUME NEW S, NEW U, NEW c \in CPU, Good(S, U, {c}), Heed(S, {c}),
         NEW R \in install_next(S, c)
  PROVE  Heed(R, {}) /\ Settled(R, c) /\ R.pending = S.pending
<1>1. S \in SchedType
  BY DEF Good
<1>2. PICK n \in pick_next_runnable(S, c) : R = set_current_task(S, c, n)
  BY DEF install_next
<1>3. CASE n = Idle
  <2>1. R = set_current_idle(S, c)
    BY <1>2, <1>3 DEF set_current_task
  <2>2. /\ R.panic = S.panic /\ R.current = [S.current EXCEPT ![c] = Idle] /\ R.rq = S.rq
        /\ R.need_resched = S.need_resched /\ R.pending = S.pending
        /\ R.cached = [S.cached EXCEPT ![c] = CPU]
    BY <1>1, <2>1 DEF set_current_idle, SchedType
  <2>3. S.rq[c] = {}
    BY <1>1, <1>2, <1>3, TaskAssumption DEF pick_next_runnable, SchedType
  <2>4. S.current \in [CPU -> Task \cup {Idle}] /\ S.cached \in [CPU -> SUBSET CPU]
    BY <1>1 DEF SchedType
  <2>5. IdleAnswered(S, {c}) => IdleAnswered(R, {})
    BY <2>2, <2>3, <2>4 DEF IdleAnswered
  <2>6. SnapshotsOwn(S) => SnapshotsOwn(R)
    BY <2>2, <2>4 DEF SnapshotsOwn
  <2>7. RequestsKept(S) => RequestsKept(R)
    BY <2>2 DEF RequestsKept
  <2> QED BY <2>2, <2>3, <2>5, <2>6, <2>7 DEF Heed, Settled
<1>4. CASE n # Idle
  <2>1. n \in S.rq[c] /\ n \in Task
    BY <1>1, <1>2, <1>4 DEF pick_next_runnable, SchedType
  <2>2. CASE R = Panic(S, "already_running")
    <3>1. "already_running" \in Asserts \ {"none", "need_resched"}
      BY DEF Asserts
    <3>2. Heed(R, {})
      BY <1>1, <2>2, <3>1, PanicHeed
    <3>3. R.panic # "none"
      BY <1>1, <2>2, <3>1, PanicFields
    <3>4. R.pending = S.pending
      BY <1>1, <2>2 DEF Panic, SchedType
    <3> QED BY <3>2, <3>3, <3>4 DEF Settled
  <2>3. CASE R = mark_running(S, c, n)
    <3>1. /\ R.panic = S.panic /\ R.current = [S.current EXCEPT ![c] = n]
          /\ R.rq = [S.rq EXCEPT ![c] = S.rq[c] \ {n}]
          /\ R.need_resched = S.need_resched /\ R.pending = S.pending
          /\ R.cached = [S.cached EXCEPT ![c] = S.affinity[n]]
      BY <1>1, <2>1, <2>3 DEF mark_running, SchedType
    <3>2. /\ S.current \in [CPU -> Task \cup {Idle}] /\ S.cached \in [CPU -> SUBSET CPU]
          /\ S.rq \in [CPU -> SUBSET Task] /\ n # Idle
      BY <1>1, <1>4 DEF SchedType
    <3>3. IdleAnswered(S, {c}) => IdleAnswered(R, {})
      BY <3>1, <3>2 DEF IdleAnswered
    <3>4. S.panic = "none" => c \in S.affinity[n]
      BY <2>1 DEF Good, Struct, PlacementRespected
    <3>5. S.panic = "none" /\ SnapshotsOwn(S) => SnapshotsOwn(R)
      BY <3>1, <3>2, <3>4 DEF SnapshotsOwn
    <3>6. RequestsKept(S) => RequestsKept(R)
      BY <3>1 DEF RequestsKept
    <3>7. R.current[c] # Idle
      BY <3>1, <3>2
    <3> QED BY <3>1, <3>3, <3>5, <3>6, <3>7 DEF Heed, Settled
  <2> QED BY <1>2, <1>4, <2>2, <2>3 DEF set_current_task
<1> QED BY <1>3, <1>4

\* The current task of c is queued again or parked.
LEMMA RequeueHeed ==
  ASSUME NEW S \in SchedType, NEW c \in CPU, NEW t \in Task, NEW b \in BOOLEAN,
         Heed(S, {c}), NEW Q \in requeue_current(S, c, t, b)
  PROVE  Heed(Q, {c})
<1>1. CASE c \in S.affinity[t]
  <2>1. Q \in activate_ready_task(S, t, Prefer(c), {b}) /\ {b} \in SUBSET BOOLEAN
    BY <1>1 DEF requeue_current
  <2> QED BY <2>1, ActivateHeed
<1>2. CASE Q = Panic(S, "deferred")
  <2>1. "deferred" \in Asserts \ {"none", "need_resched"}
    BY DEF Asserts
  <2> QED BY <1>2, <2>1, PanicHeed
<1>3. CASE Q = [S EXCEPT !.rq[c] = @ \ {t}, !.deferred[c] = t]
  <2>1. /\ Q.panic = S.panic /\ Q.current = S.current /\ Q.need_resched = S.need_resched
        /\ Q.pending = S.pending /\ Q.cached = S.cached
        /\ Q.rq = [S.rq EXCEPT ![c] = S.rq[c] \ {t}]
    BY <1>3 DEF SchedType
  <2>2. \A d \in CPU \ {c} : Q.rq[d] \subseteq S.rq[d]
    BY <2>1 DEF SchedType
  <2> QED BY <2>1, <2>2, HeedMono
<1> QED BY <1>1, <1>2, <1>3 DEF requeue_current

\* schedule(Yield | Tick | Reschedule).
LEMMA ScheduleReadyHeed ==
  ASSUME NEW S, NEW U, NEW c \in CPU, NEW q \in BOOLEAN, Good(S, U, {}), Heed(S, {c}),
         NEW R \in schedule_ready(S, c, q)
  PROVE  Heed(R, {}) /\ Settled(R, c)
<1>1. S \in SchedType
  BY DEF Good
<1>2. CASE S.current[c] = Idle
  <2>1. Good(S, U, {c})
    BY <1>2, IdleStale
  <2> QED BY <1>2, <2>1, InstallHeed DEF schedule_ready
<1>3. CASE S.current[c] # Idle
  <2> DEFINE t == S.current[c]
  <2>1. t \in Task
    BY <1>1, <1>3 DEF SchedType
  <2>2. PICK b \in BOOLEAN :
          R \in UNION {install_next(Q, c) : Q \in requeue_current(S, c, t, b)}
    BY <1>3 DEF schedule_ready
  <2>3. PICK Q \in requeue_current(S, c, t, b) : R \in install_next(Q, c)
    BY <2>2
  <2>4. Good(Q, U, {c})
    BY <2>1, <2>3, RequeueGood
  <2>5. Heed(Q, {c})
    BY <1>1, <2>1, <2>3, RequeueHeed
  <2> QED BY <2>3, <2>4, <2>5, InstallHeed
<1> QED BY <1>2, <1>3

\* The only request such a section makes is for its own CPU, by a task that must
\* give way; it is then not the one that is chosen.
LEMMA ReadyPending ==
  ASSUME NEW S, NEW U, NEW c \in CPU, Good(S, U, {}), S.panic = "none", S.pending = {},
         c \in S.cached[c], Heed(S, {c}), NEW R \in schedule_ready(S, c, FALSE)
  PROVE  R.pending \subseteq {c} /\ (R.pending # {} => R.current[c] # S.current[c])
<1>1. S \in SchedType /\ Struct(S, U, {})
  BY DEF Good
<1>2. CASE S.current[c] = Idle
  <2>1. Good(S, U, {c})
    BY <1>2, IdleStale
  <2> QED BY <1>2, <2>1, InstallHeed DEF schedule_ready
<1>3. CASE S.current[c] # Idle
  <2> DEFINE t == S.current[c]
  <2>1. t \in Task
    BY <1>1, <1>3 DEF SchedType
  <2>2. PICK b \in BOOLEAN :
          R \in {V \in UNION {install_next(Q, c) : Q \in requeue_current(S, c, t, b)} :
                   b => V.current[c] # t \/ c \notin S.cached[c]}
    BY <1>3 DEF schedule_ready
  <2>3. b => R.current[c] # t
    BY <2>2
  <2>4. PICK Q \in requeue_current(S, c, t, b) : R \in install_next(Q, c)
    BY <2>2
  <2>5. Good(Q, U, {c}) /\ Heed(Q, {c})
    BY <1>1, <2>1, <2>4, RequeueGood, RequeueHeed
  <2>6. R.pending = Q.pending
    BY <2>4, <2>5, InstallHeed
  <2>7. Q.pending \subseteq {c} /\ (Q.pending # {} => b)
    <3>1. CASE c \in S.affinity[t]
      <4>1. Q \in activate_ready_task(S, t, Prefer(c), {b}) /\ {b} \in SUBSET BOOLEAN
        BY <2>4, <3>1 DEF requeue_current
      <4>2. c \in S.online /\ S.state[t] = "running"
        BY <1>1, <2>1, CurrentLoose
      <4>3. pick_ready_cpu(S, t, Prefer(c)) = {c} /\ S.online \cap S.affinity[t] # {}
        BY <3>1, <4>2 DEF pick_ready_cpu, Prefer
      <4>4. Exists(S, t)
        BY <4>2 DEF Exists
      <4>5. Q = activate_on(S, t, c, b)
        BY <1>1, <2>1, <4>1, <4>3, <4>4, Activations
      <4> DEFINE E == enqueue_ready_on_cpu(S, t, c)
      <4>6. /\ E \in SchedType /\ E.current = S.current
            /\ E.pending = S.pending /\ E.cached = S.cached
        <5>1. E \in {Panic(S, "target"), Panic(S, "publish_running"), insert_ready(S, t, c)}
          BY DEF enqueue_ready_on_cpu
        <5>2. E \in SchedType /\ E.current = S.current
          BY <1>1, <2>1, EnqueueFields, ZenonT(60)
        <5>3. /\ insert_ready(S, t, c).pending = S.pending
              /\ insert_ready(S, t, c).cached = S.cached
          BY <1>1 DEF insert_ready, SchedType
        <5>4. \A a : Panic(S, a).pending = S.pending /\ Panic(S, a).cached = S.cached
          BY <1>1 DEF Panic, SchedType
        <5> QED BY <5>1, <5>2, <5>3, <5>4
      <4> HIDE DEF E
      <4>7. Q = request_reschedule(E, c, FALSE, b)
        BY <4>5 DEF activate_on, E
      <4>8. CASE b
        <5>1. mark_need_resched(E, c).pending = E.pending \cup {c}
          BY <4>6 DEF mark_need_resched, SchedType
        <5> QED BY <4>6, <4>7, <4>8, <5>1 DEF request_reschedule
      <4>9. CASE ~b
        <5>1. ~cpu_should_reschedule(E, c, FALSE, b)
          BY <1>3, <4>6, <4>9 DEF cpu_should_reschedule
        <5> QED BY <4>6, <4>7, <5>1 DEF request_reschedule
      <4> QED BY <4>8, <4>9
    <3>2. CASE Q = Panic(S, "deferred")
      BY <1>1, <3>2 DEF Panic, SchedType
    <3>3. CASE Q = [S EXCEPT !.rq[c] = @ \ {t}, !.deferred[c] = t]
      BY <1>1, <3>3 DEF SchedType
    <3> QED BY <2>4, <3>1, <3>2, <3>3 DEF requeue_current
  <2> QED BY <2>3, <2>6, <2>7
<1> QED BY <1>2, <1>3

\* Consuming the pending mask.
LEMMA TakePendingHeed ==
  ASSUME NEW S \in SchedType, NEW K, Heed(S, K)
  PROVE  /\ Heed(take_pending_reschedule_cpus(S), K)
         /\ take_pending_reschedule_cpus(S).pending = {}
<1> DEFINE D == take_pending_reschedule_cpus(S)
<1>1. /\ D.pending = {} /\ D.panic = S.panic /\ D.current = S.current /\ D.rq = S.rq
      /\ D.need_resched = S.need_resched /\ D.cached = S.cached
  BY DEF take_pending_reschedule_cpus, SchedType
<1> HIDE DEF D
<1>2. Heed(D, K)
  BY <1>1 DEF Heed, IdleAnswered, RequestsKept, SnapshotsOwn
<1> QED BY <1>1, <1>2 DEF D

\* Consuming the request of a CPU whose pending request is consumed already.
LEMMA TakeNeedHeed ==
  ASSUME NEW S \in SchedType, NEW c \in CPU, NEW K, Heed(S, K), Strict => c \notin S.pending
  PROVE  Heed(take_need_resched(S, c), K \cup {c})
<1> DEFINE D == take_need_resched(S, c)
<1>1. /\ D.pending = S.pending /\ D.panic = S.panic /\ D.current = S.current /\ D.rq = S.rq
      /\ D.need_resched = [S.need_resched EXCEPT ![c] = FALSE] /\ D.cached = S.cached
  BY DEF take_need_resched, SchedType
<1>2. S.need_resched \in [CPU -> BOOLEAN] /\ S.pending \subseteq CPU
  BY DEF SchedType
<1> HIDE DEF D
<1>3. IdleAnswered(S, K) => IdleAnswered(D, K \cup {c})
  BY <1>1, <1>2 DEF IdleAnswered
<1>4. Strict /\ RequestsKept(S) => RequestsKept(D)
  BY <1>1, <1>2 DEF RequestsKept
<1>5. Heed(D, K \cup {c})
  BY <1>1, <1>3, <1>4 DEF Heed, SnapshotsOwn
<1> QED BY <1>5 DEF D

\* A settled CPU needs no request.
LEMMA SettledHeed ==
  ASSUME NEW S, NEW c \in CPU, Heed(S, {c}), Settled(S, c)
  PROVE  Heed(S, {})
<1>1. S.panic = "none" /\ IdleAnswered(S, {c}) => IdleAnswered(S, {})
  BY DEF IdleAnswered, Settled
<1> QED BY <1>1 DEF Heed

\* The epilogue of a scheduling entry: the assertion holds, and nothing is left
\* in the pending mask.
LEMMA DrainHeed ==
  ASSUME NEW S \in SchedType, NEW c \in CPU, Heed(S, {}), Settled(S, c)
  PROVE  Heed(drain_local(S, c), {}) /\ drain_local(S, c).pending = {}
<1> DEFINE D == take_pending_reschedule_cpus(S)
           T == take_need_resched(D, c)
<1>1. /\ D \in SchedType /\ D.pending = {} /\ D.panic = S.panic /\ D.current = S.current
      /\ D.rq = S.rq
  BY DEF take_pending_reschedule_cpus, SchedType
<1>2. Heed(D, {})
  BY TakePendingHeed
<1> HIDE DEF D
<1>3. /\ T.pending = {} /\ T.panic = S.panic /\ T.current = S.current /\ T.rq = S.rq
  BY <1>1 DEF take_need_resched, SchedType
<1>4. Heed(T, {c})
  <2>1. Heed(T, {} \cup {c})
    BY <1>1, <1>2, TakeNeedHeed
  <2>2. {} \cup {c} = {c}
    OBVIOUS
  <2> QED BY <2>1, <2>2
<1> HIDE DEF T
<1>5. Heed(T, {})
  BY <1>3, <1>4, SettledHeed DEF Settled
<1>6. CASE c \notin S.pending \/ S.need_resched[c]
  BY <1>1, <1>2, <1>3, <1>5, <1>6 DEF drain_local, D, T
<1>7. CASE c \in S.pending /\ ~S.need_resched[c]
  <2>1. drain_local(S, c) = Panic(D, "need_resched")
    BY <1>7 DEF drain_local, D
  <2>2. /\ Panic(D, "need_resched").panic = IF D.panic = "none" THEN "need_resched" ELSE D.panic
        /\ Panic(D, "need_resched").pending = {}
    BY <1>1 DEF Panic, SchedType
  <2>3. Strict => S.panic # "none"
    BY <1>7 DEF Heed, RequestsKept
  <2> QED BY <1>1, <1>2, <2>1, <2>2, <2>3 DEF Heed
<1> QED BY <1>6, <1>7

(***************************************************************************)
(* The steps                                                               *)
(***************************************************************************)
\* What holds when a critical section begins.
LEMMA BeginHeed ==
  ASSUME Inv, RequestInv, sched.panic = "none"
  PROVE  /\ sched \in SchedType /\ Good(sched, unstarted, {}) /\ phase \in [CPU -> Phases]
         /\ Heed(sched, {}) /\ IdleAnswered(sched, {})
         /\ Strict => /\ SnapshotsOwn(sched)
                      /\ \A c \in sched.pending : phase[c] \in {"switch", "post"}
<1>1. sched \in SchedType /\ Good(sched, unstarted, {}) /\ phase \in [CPU -> Phases]
  BY DEF Inv, Good, TypeOK
<1> QED BY <1>1 DEF RequestInv, Heed, PendingSwitches

\* Nothing is pending when the lock is dropped.
LEMMA NothingPending ==
  ASSUME Heed(sched', {}), sched'.pending = {}
  PROVE  RequestInv'
<1>1. PendingSwitches'
  BY DEF PendingSwitches
<1>2. Heed(sched, {})'
  BY DEF Heed, IdleAnswered, RequestsKept, SnapshotsOwn, Strict
<1> QED BY <1>1, <1>2 DEF RequestInv

\* What is pending stays so, and the CPUs concerned are still on their way.
LEMMA SamePending ==
  ASSUME RequestInv, Heed(sched', {}), sched.panic = "none",
         sched'.pending = sched.pending,
         \A d \in CPU : phase[d] \in {"switch", "post"} => phase'[d] \in {"switch", "post"},
         sched.pending \subseteq CPU
  PROVE  RequestInv'
<1>1. PendingSwitches'
  BY DEF PendingSwitches, RequestInv, Strict
<1>2. Heed(sched, {})'
  BY DEF Heed, IdleAnswered, RequestsKept, SnapshotsOwn, Strict
<1> QED BY <1>1, <1>2 DEF RequestInv

\* The epilogue of a scheduling entry.
LEMMA FinishHeed ==
  ASSUME NEW c \in CPU, NEW R \in SchedType, Heed(R, {}), Settled(R, c), NEW p, NEW W,
         finish(c, R, p, W)
  PROVE  RequestInv'
<1>1. sched' = drain_local(R, c)
  BY DEF finish, leave
<1>2. Heed(drain_local(R, c), {}) /\ drain_local(R, c).pending = {}
  BY DrainHeed
<1> QED BY <1>1, <1>2, NothingPending

\* schedule(Exit).
LEMMA ScheduleExitHeed ==
  ASSUME NEW S, NEW U, NEW c \in CPU, Good(S, U, {}), S.current[c] \in Task, Heed(S, {}),
         NEW R \in schedule_exit(S, c)
  PROVE  Heed(R, {}) /\ Settled(R, c)
<1> DEFINE t == S.current[c]
           Woken == {S} \cup UNION {activate_ready_task(S, w, LastCpu(S, w), BOOLEAN) :
                                      w \in {u \in Task : S.state[u] = "blocked"}}
<1>1. PICK Q \in Woken : R \in install_next(mark_exited(Q, t), c)
  BY DEF schedule_exit
<1>2. Good(Q, U, {}) /\ Q.current = S.current /\ Heed(Q, {})
  <2>1. CASE Q = S
    BY <2>1
  <2>2. CASE Q # S
    <3>1. PICK w \in {u \in Task : S.state[u] = "blocked"} :
            Q \in activate_ready_task(S, w, LastCpu(S, w), BOOLEAN)
      BY <1>1, <2>2
    <3>2. S \in SchedType
      BY DEF Good
    <3>3. Good(Q, U, {}) /\ Q.current = S.current
      BY <3>1, WakeGood
    <3>4. Heed(Q, {})
      BY <3>1, <3>2, ActivateHeed
    <3> QED BY <3>3, <3>4
  <2> QED BY <2>1, <2>2
<1>3. t \in Task
  OBVIOUS
<1> HIDE DEF t, Woken
<1>4. Q.current[c] = t /\ Q \in SchedType
  BY <1>2 DEF t, Good
<1> DEFINE E == mark_exited(Q, t)
<1>5. Good(E, U, {c})
  BY <1>2, <1>3, <1>4, ExitGood, ZenonT(60)
<1>6. /\ E.panic = Q.panic /\ E.current = Q.current /\ E.need_resched = Q.need_resched
      /\ E.pending = Q.pending /\ E.cached = Q.cached /\ E.rq = Q.rq
  BY <1>4 DEF mark_exited, SchedType
<1> HIDE DEF E
<1>7. Heed(E, {c})
  BY <1>2, <1>6, HeedMono
<1>8. R \in install_next(E, c)
  BY <1>1 DEF E
<1> QED BY <1>5, <1>7, <1>8, InstallHeed

\* The scheduling entries a task makes itself.
LEMMA EntryHeed ==
  ASSUME Inv, RequestInv, NEW c \in CPU, Yield(c) \/ Block(c) \/ WaitReady(c) \/ Exit(c)
  PROVE  RequestInv'
<1>1. sched.panic = "none" /\ c \notin sched.boot
  BY DEF Yield, Block, WaitReady, Exit, RunsTask, Interruptible, Inv, HwAgrees
<1>2. sched \in SchedType /\ Good(sched, unstarted, {}) /\ Heed(sched, {})
  BY <1>1, BeginHeed
<1>3. ASSUME NEW Q \in activate_woken_and_timeout_tasks(sched, c)
      PROVE  /\ Q \in SchedType /\ Good(Q, unstarted, {}) /\ Q.current = sched.current
             /\ Q.boot = sched.boot /\ Heed(Q, {})
  <2>1. Good(Q, unstarted, {}) /\ Q.current = sched.current /\ Q.boot = sched.boot
    BY <1>2, <1>3, DueGood
  <2>2. Heed(Q, {})
    BY <1>2, <1>3, DueHeed
  <2> QED BY <2>1, <2>2 DEF Good
<1>4. CASE Yield(c)
  <2>1. PICK Q \in activate_woken_and_timeout_tasks(sched, c) :
          \E R \in schedule_ready(Q, c, FALSE) : finish(c, R, "run", ipi)
    BY <1>4 DEF Yield
  <2>2. PICK R \in schedule_ready(Q, c, FALSE) : finish(c, R, "run", ipi)
    BY <2>1
  <2>3. Good(Q, unstarted, {}) /\ c \notin Q.boot /\ Heed(Q, {c})
    BY <1>1, <1>3, <2>1, HeedMono
  <2>4. R \in SchedType
    BY <2>2, <2>3, ScheduleReadyGood DEF Good
  <2>5. Heed(R, {}) /\ Settled(R, c)
    BY <2>2, <2>3, ScheduleReadyHeed
  <2> QED BY <2>2, <2>4, <2>5, FinishHeed
<1>5. CASE Block(c)
  <2>1. PICK Q \in activate_woken_and_timeout_tasks(sched, c) :
          \E R \in install_next(mark_blocking(Q, c), c) : finish(c, R, "run", ipi)
    BY <1>5 DEF Block
  <2>2. PICK R \in install_next(mark_blocking(Q, c), c) : finish(c, R, "run", ipi)
    BY <2>1
  <2>3. /\ Q \in SchedType /\ Good(Q, unstarted, {}) /\ Heed(Q, {}) /\ Q.current[c] \in Task
        /\ c \notin Q.boot
    BY <1>1, <1>3, <1>5, <2>1 DEF Block, RunsTask
  <2> DEFINE M == mark_blocking(Q, c)
  <2>4. Good(M, unstarted, {c}) /\ M.boot = Q.boot
    BY <2>3, BlockGood, ZenonT(60)
  <2>5. /\ M.panic = Q.panic /\ M.current = Q.current /\ M.need_resched = Q.need_resched
        /\ M.pending = Q.pending /\ M.cached = Q.cached
        /\ \A d \in CPU \ {c} : M.rq[d] = Q.rq[d]
    BY <2>3 DEF mark_blocking, SchedType
  <2> HIDE DEF M
  <2>6. Heed(M, {c})
    BY <2>3, <2>5, HeedMono
  <2>7. R \in install_next(M, c)
    BY <2>2 DEF M
  <2>8. Heed(R, {}) /\ Settled(R, c)
    BY <2>4, <2>6, <2>7, InstallHeed
  <2>9. R \in SchedType
    BY <2>3, <2>4, <2>7, InstallGood DEF Good
  <2> QED BY <2>2, <2>8, <2>9, FinishHeed
<1>6. CASE WaitReady(c)
  <2>1. PICK Q \in activate_woken_and_timeout_tasks(sched, c) : finish(c, Q, "run", ipi)
    BY <1>6 DEF WaitReady
  <2>2. Q.current[c] # Idle
    BY <1>3, <1>6, <2>1, TaskAssumption DEF WaitReady, RunsTask
  <2>3. Settled(Q, c)
    BY <2>2 DEF Settled
  <2> QED BY <1>3, <2>1, <2>3, FinishHeed
<1>7. CASE Exit(c)
  <2>1. PICK Q \in activate_woken_and_timeout_tasks(sched, c) :
          \E R \in schedule_exit(Q, c) : finish(c, R, "run", ipi)
    BY <1>7 DEF Exit
  <2>2. PICK R \in schedule_exit(Q, c) : finish(c, R, "run", ipi)
    BY <2>1
  <2>3. Good(Q, unstarted, {}) /\ Heed(Q, {}) /\ Q.current[c] \in Task /\ c \notin Q.boot
    BY <1>1, <1>3, <1>7, <2>1 DEF Exit, RunsTask
  <2>4. R \in SchedType
    BY <2>2, <2>3, ScheduleExitGood DEF Good
  <2>5. Heed(R, {}) /\ Settled(R, c)
    BY <2>2, <2>3, ScheduleExitHeed
  <2> QED BY <2>2, <2>4, <2>5, FinishHeed
<1> QED BY <1>4, <1>5, <1>6, <1>7

\* schedule_reschedule.
LEMMA RescheduleHeed ==
  ASSUME Inv, RequestInv, NEW c \in CPU, sched.panic = "none",
         phase[c] \in {"run", "call"}, NEW p, NEW W, schedule_reschedule(c, p, W)
  PROVE  RequestInv'
<1>1. /\ sched \in SchedType /\ Good(sched, unstarted, {}) /\ phase \in [CPU -> Phases]
      /\ Heed(sched, {}) /\ IdleAnswered(sched, {}) /\ sched.pending \subseteq CPU
      /\ Strict => c \notin sched.pending
  BY BeginHeed DEF SchedType
<1>2. CASE c \in sched.boot
  <2>1. sched' = sched /\ phase' = [phase EXCEPT ![c] = p]
    BY <1>2 DEF schedule_reschedule
  <2> QED BY <1>1, <2>1, SamePending
<1>3. CASE c \notin sched.boot
  <2>1. PICK R \in IF sched.need_resched[c]
                    THEN schedule_ready(take_need_resched(sched, c), c, FALSE)
                    ELSE {sched} : finish(c, R, p, W)
    BY <1>3 DEF schedule_reschedule
  <2> DEFINE D == take_need_resched(sched, c)
  <2>2. D \in SchedType /\ Good(D, unstarted, {}) /\ D.boot = sched.boot
    BY <1>1, TakeSameCore, SameCoreGood DEF SameCore
  <2>3. Heed(D, {c})
    <3>1. Heed(D, {} \cup {c})
      BY <1>1, TakeNeedHeed
    <3>2. {} \cup {c} = {c}
      OBVIOUS
    <3> QED BY <3>1, <3>2
  <2> HIDE DEF D
  <2>4. CASE sched.need_resched[c]
    <3>1. R \in schedule_ready(D, c, FALSE)
      BY <2>1, <2>4 DEF D
    <3>2. R \in SchedType
      BY <1>3, <2>2, <3>1, ScheduleReadyGood DEF Good
    <3>3. Heed(R, {}) /\ Settled(R, c)
      BY <2>2, <2>3, <3>1, ScheduleReadyHeed
    <3> QED BY <2>1, <3>2, <3>3, FinishHeed
  <2>5. CASE ~sched.need_resched[c]
    <3>1. Settled(sched, c)
      BY <1>1, <2>5 DEF Settled, IdleAnswered
    <3> QED BY <1>1, <2>1, <2>5, <3>1, FinishHeed
  <2> QED BY <2>4, <2>5
<1> QED BY <1>2, <1>3

\* A failed assertion is not forgotten within a section.
LEMMA PanicStays ==
  ASSUME NEW S \in SchedType, NEW c \in CPU, NEW q \in BOOLEAN, S.panic # "none",
         NEW R \in schedule_ready(S, c, q)
  PROVE  R.panic # "none"
<1>1. ASSUME NEW Q \in SchedType, Q.panic # "none", NEW V \in install_next(Q, c)
      PROVE  V.panic # "none"
  <2>1. PICK n \in pick_next_runnable(Q, c) : V = set_current_task(Q, c, n)
    BY <1>1 DEF install_next
  <2>2. set_current_idle(Q, c).panic = Q.panic /\ mark_running(Q, c, n).panic = Q.panic
    BY <1>1 DEF set_current_idle, mark_running, SchedType
  <2>3. Panic(Q, "already_running") = Q
    BY <1>1 DEF Panic
  <2> QED BY <1>1, <2>1, <2>2, <2>3 DEF set_current_task
<1>2. CASE S.current[c] = Idle
  BY <1>1, <1>2 DEF schedule_ready
<1>3. CASE S.current[c] # Idle
  <2> DEFINE t == S.current[c]
  <2>1. t \in Task
    BY <1>3 DEF SchedType
  <2>2. PICK b \in BOOLEAN :
          R \in UNION {install_next(Q, c) : Q \in requeue_current(S, c, t, b)}
    BY <1>3 DEF schedule_ready
  <2>3. PICK Q \in requeue_current(S, c, t, b) : R \in install_next(Q, c)
    BY <2>2
  <2>4. Q \in SchedType /\ Q.panic # "none"
    <3>1. CASE c \in S.affinity[t]
      <4>1. Q \in activate_ready_task(S, t, Prefer(c), {b}) /\ {b} \in SUBSET BOOLEAN
        BY <2>3, <3>1 DEF requeue_current
      <4> QED BY <2>1, <4>1, ActivateFields
    <3>2. CASE Q = Panic(S, "deferred")
      BY <3>2 DEF Panic
    <3>3. CASE Q = [S EXCEPT !.rq[c] = @ \ {t}, !.deferred[c] = t]
      BY <2>1, <3>3 DEF SchedType
    <3> QED BY <2>3, <3>1, <3>2, <3>3 DEF requeue_current
  <2> QED BY <1>1, <2>3, <2>4
<1> QED BY <1>2, <1>3

\* schedule_tick: the second schedule() may leave a request of its own CPU pending,
\* but only when it switches.
LEMMA TickHeed ==
  ASSUME Inv, RequestInv, NEW c \in CPU, Tick(c) PROVE RequestInv'
<1>1. sched.panic = "none" /\ c \notin sched.boot
  BY DEF Tick, Interruptible
<1>2. /\ sched \in SchedType /\ Good(sched, unstarted, {}) /\ phase \in [CPU -> Phases]
      /\ Heed(sched, {})
  BY <1>1, BeginHeed
<1>3. PICK b \in BOOLEAN : \E Q \in schedule_on_tick(sched, c, b) :
        \E R \in after_tick(Q, c) : leave(c, R, phase[c])
  BY DEF Tick
<1>4. PICK Q \in schedule_on_tick(sched, c, b) :
        \E R \in after_tick(Q, c) : leave(c, R, phase[c])
  BY <1>3
<1>5. PICK R \in after_tick(Q, c) : leave(c, R, phase[c])
  BY <1>4
<1>6. PICK W \in activate_woken_and_timeout_tasks(sched, c) :
        Q \in schedule_ready(W, c, TRUE) \/ Q = W
  BY <1>4 DEF schedule_on_tick
<1>7. /\ Good(W, unstarted, {}) /\ W.current = sched.current /\ W.boot = sched.boot
      /\ Heed(W, {})
  <2>1. Heed(W, {})
    BY <1>2, <1>6, DueHeed
  <2> QED BY <1>2, <1>6, <2>1, DueGood
<1>8. /\ Good(Q, unstarted, {}) /\ c \notin Q.boot /\ Heed(Q, {})
      /\ Q.current[c] # sched.current[c] => Settled(Q, c)
  <2>1. CASE Q = W
    BY <1>1, <1>7, <2>1
  <2>2. CASE Q \in schedule_ready(W, c, TRUE)
    <3>1. Heed(W, {c})
      BY <1>7, HeedMono
    <3>2. Heed(Q, {}) /\ Settled(Q, c)
      BY <1>7, <2>2, <3>1, ScheduleReadyHeed
    <3>3. Good(Q, unstarted, {}) /\ Q.boot = W.boot
      BY <1>1, <1>7, <2>2, ScheduleReadyGood DEF OnlyOwn
    <3> QED BY <1>1, <1>7, <3>2, <3>3
  <2> QED BY <1>6, <2>1, <2>2
<1> DEFINE P == take_pending_reschedule_cpus(Q)
           D == take_need_resched(P, c)
<1>9. P \in SchedType /\ SameCore(P, Q) /\ Heed(P, {}) /\ P.pending = {}
  BY <1>8, TakeSameCore, TakePendingHeed DEF Good
<1> HIDE DEF P
<1>10. /\ D \in SchedType /\ SameCore(D, P) /\ Heed(D, {c})
       /\ D.pending = {}
  <2>1. D \in SchedType /\ SameCore(D, P)
    BY <1>9, TakeSameCore
  <2>2. Heed(D, {} \cup {c})
    BY <1>9, TakeNeedHeed
  <2>3. {} \cup {c} = {c}
    OBVIOUS
  <2>4. D.pending = {}
    BY <1>9 DEF take_need_resched, SchedType
  <2> QED BY <2>1, <2>2, <2>3, <2>4
<1>11. /\ D.current = Q.current /\ D.rq = Q.rq /\ D.panic = Q.panic
       /\ Good(D, unstarted, {}) /\ c \notin D.boot
  <2>1. SameCore(D, Q)
    BY <1>9, <1>10 DEF SameCore
  <2> QED BY <1>8, <1>10, <2>1, SameCoreGood DEF SameCore
<1>12. IF Q.need_resched[c] /\ Q.current[c] = sched.current[c]
       THEN R \in schedule_ready(D, c, FALSE) ELSE R = D
  BY <1>5 DEF after_tick, D, P
<1> HIDE DEF D
<1>13. sched' = R
  BY <1>5 DEF leave
<1>14. CASE Q.need_resched[c] /\ Q.current[c] = sched.current[c]
  <2>1. R \in schedule_ready(D, c, FALSE) /\ D.current[c] = sched.current[c]
    BY <1>11, <1>12, <1>14
  <2>2. Heed(R, {})
    BY <1>10, <1>11, <2>1, ScheduleReadyHeed
  <2>3. ASSUME Strict, R.panic = "none"
        PROVE  \A d \in R.pending : phase'[d] \in {"switch", "post"}
    <3>1. D.panic = "none"
      BY <1>10, <2>1, <2>3, PanicStays
    <3>2. c \in D.cached[c]
      BY <1>10, <2>3, <3>1 DEF Heed, SnapshotsOwn
    <3>3. Good(D, unstarted, {}) /\ D.pending = {} /\ Heed(D, {c})
      BY <1>10, <1>11
    <3>4. R.pending \subseteq {c} /\ (R.pending # {} => R.current[c] # D.current[c])
      BY <2>1, <3>1, <3>2, <3>3, ReadyPending
    <3>5. R.current[c] # sched.current[c] => phase'[c] = "switch"
      BY <1>2, <1>5 DEF leave
    <3> QED BY <2>1, <3>4, <3>5
  <2>4. PendingSwitches'
    BY <1>13, <2>3 DEF PendingSwitches, Strict
  <2>5. Heed(sched, {})'
    BY <1>13, <2>2 DEF Heed, IdleAnswered, RequestsKept, SnapshotsOwn, Strict
  <2> QED BY <2>4, <2>5 DEF RequestInv
<1>15. CASE ~(Q.need_resched[c] /\ Q.current[c] = sched.current[c])
  <2>1. R = D
    BY <1>12, <1>15
  <2>2. Settled(Q, c)
    <3>1. CASE Q.current[c] # sched.current[c]
      BY <1>8, <3>1
    <3>2. CASE Q.current[c] = sched.current[c]
      BY <1>8, <1>15, <3>2 DEF Heed, IdleAnswered, Settled
    <3> QED BY <3>1, <3>2
  <2>3. Settled(D, c)
    BY <1>11, <2>2 DEF Settled
  <2>4. Heed(D, {})
    BY <1>10, <2>3, SettledHeed
  <2> QED BY <1>10, <1>13, <2>1, <2>4, NothingPending
<1> QED BY <1>14, <1>15

\* The sections that make requests and dispatch them.
LEMMA DispatchHeed ==
  ASSUME NEW S \in SchedType, Heed(S, {}), sched' = take_pending_reschedule_cpus(S)
  PROVE  RequestInv'
  BY TakePendingHeed, NothingPending

\* The publication of the deferred task.
LEMMA PostSwitchHeed ==
  ASSUME Inv, RequestInv, NEW c \in CPU, PostSwitch(c) PROVE RequestInv'
<1>1. sched.panic = "none"
  BY DEF PostSwitch
<1>2. sched \in SchedType /\ Heed(sched, {})
  BY <1>1, BeginHeed
<1> DEFINE d == resumed_cpu_id(c)
<1>3. d \in CPU
  BY DEF resumed_cpu_id, Inv, TypeOK
<1> HIDE DEF d
<1>4. PICK R \in enqueue_deferred_task(sched, d) :
        sched' = take_pending_reschedule_cpus(R)
  BY DEF PostSwitch, d
<1>5. CASE sched.deferred[d] = NoTask
  BY <1>2, <1>4, <1>5, DispatchHeed DEF enqueue_deferred_task
<1>6. CASE sched.deferred[d] # NoTask
  <2> DEFINE C == [sched EXCEPT !.deferred[d] = NoTask]
  <2>1. sched.deferred[d] \in Task
    BY <1>2, <1>3, <1>6 DEF SchedType
  <2>2. /\ C \in SchedType /\ C.panic = sched.panic /\ C.current = sched.current
        /\ C.need_resched = sched.need_resched /\ C.pending = sched.pending
        /\ C.cached = sched.cached /\ C.rq = sched.rq
    BY <1>2, <1>3 DEF SchedType
  <2> HIDE DEF C
  <2>3. Heed(C, {})
    BY <1>2, <2>2, HeedMono
  <2>4. R \in activate_ready_task(C, sched.deferred[d], LeastLoaded, BOOLEAN)
    BY <1>4, <1>6 DEF enqueue_deferred_task, C
  <2>5. R \in SchedType /\ Heed(R, {})
    BY <2>1, <2>2, <2>3, <2>4, ActivateFields, ActivateHeed
  <2> QED BY <1>4, <2>5, DispatchHeed
<1> QED BY <1>5, <1>6

\* The wakes and the second half of a creation.
LEMMA WakeHeed ==
  ASSUME Inv, RequestInv, NEW c \in CPU, NEW t \in Task,
         Wake(c, t) \/ WakeDeferred(c, t) \/ Start(c, t)
  PROVE  RequestInv'
<1>1. sched.panic = "none"
  BY DEF Wake, WakeDeferred, Start, RunsTask, Interruptible, Booting
<1>2. sched \in SchedType /\ Heed(sched, {})
  BY <1>1, BeginHeed
<1>3. PICK R \in UNION {activate_ready_task(sched, t, P, BOOLEAN) :
                          P \in {LastCpu(sched, t), LeastLoaded}} :
        sched' = take_pending_reschedule_cpus(R)
  BY DEF Wake, WakeDeferred, Start, release
<1>4. PICK P \in {LastCpu(sched, t), LeastLoaded} : R \in activate_ready_task(sched, t, P, BOOLEAN)
  BY <1>3
<1>5. R \in SchedType /\ Heed(R, {})
  BY <1>2, <1>4, ActivateFields, ActivateHeed
<1> QED BY <1>3, <1>5, DispatchHeed

\* The creation of a task, published at once or not.
LEMMA CreateHeed ==
  ASSUME Inv, RequestInv, NEW c \in CPU, NEW t \in Task, Create(c, t) \/ Spawn(c, t)
  PROVE  RequestInv'
<1>1. sched.panic = "none"
  BY DEF Create, Spawn, RunsTask, Interruptible, Booting
<1>2. sched \in SchedType /\ Heed(sched, {})
  BY <1>1, BeginHeed
<1>3. ASSUME NEW N \in new_task(sched, c, t)
      PROVE  N \in SchedType /\ Heed(N, {}) /\ N.pending = sched.pending
  <2>1. PICK m \in {CPU} \cup {sched.affinity[p] : p \in {sched.current[c]} \cap Task} :
          N = [sched EXCEPT !.state[t] = "ready", !.affinity[t] = m]
    BY <1>3 DEF new_task
  <2>2. m \in SUBSET CPU
    BY <1>2, <2>1 DEF SchedType
  <2>3. /\ N \in SchedType /\ N.panic = sched.panic /\ N.current = sched.current
        /\ N.need_resched = sched.need_resched /\ N.pending = sched.pending
        /\ N.cached = sched.cached /\ N.rq = sched.rq
    BY <1>2, <2>1, <2>2 DEF SchedType, TaskStates
  <2> QED BY <1>2, <2>3, HeedMono
<1>4. CASE Create(c, t)
  <2>1. sched' \in new_task(sched, c, t) /\ phase' = phase /\ sched.pending \subseteq CPU
    BY <1>2, <1>4 DEF Create, SchedType
  <2>2. Heed(sched', {}) /\ sched'.pending = sched.pending
    BY <1>3, <2>1
  <2> QED BY <1>1, <2>1, <2>2, SamePending
<1>5. CASE Spawn(c, t)
  <2>1. PICK N \in new_task(sched, c, t) :
          \E R \in activate_ready_task(N, t, LeastLoaded, BOOLEAN) : release(c, R)
    BY <1>5 DEF Spawn
  <2>2. PICK R \in activate_ready_task(N, t, LeastLoaded, BOOLEAN) : release(c, R)
    BY <2>1
  <2>3. R \in SchedType /\ Heed(R, {})
    BY <1>3, <2>1, <2>2, ActivateFields, ActivateHeed
  <2> QED BY <2>2, <2>3, DispatchHeed DEF release
<1> QED BY <1>4, <1>5

\* sched_setaffinity.
LEMMA SetAffinityHeed ==
  ASSUME Inv, RequestInv, NEW c \in CPU, NEW t \in Task, NEW mask \in Masks,
         SetAffinity(c, t, mask)
  PROVE  RequestInv'
<1>1. sched.panic = "none"
  BY DEF SetAffinity, RunsTask, Interruptible
<1>2. sched \in SchedType /\ Heed(sched, {}) /\ Struct(sched, unstarted, {})
  BY <1>1, BeginHeed DEF Good
<1>3. PICK R \in set_affinity(sched, t, mask) : sched' = take_pending_reschedule_cpus(R)
  BY DEF SetAffinity, release
<1> DEFINE A == [sched EXCEPT !.affinity[t] = mask]
<1>4. /\ A \in SchedType /\ A.panic = sched.panic /\ A.current = sched.current
      /\ A.need_resched = sched.need_resched /\ A.pending = sched.pending
      /\ A.cached = sched.cached /\ A.rq = sched.rq
  BY <1>2, MaskAssumption DEF SchedType
<1>5. \/ R \in activate_ready_task(A, t, LeastLoaded, BOOLEAN)
      \/ /\ sched.state[t] = "running"
         /\ R = request_reschedule(A, sched.running_cpu[t], TRUE, FALSE)
      \/ R = A
  BY <1>3 DEF set_affinity
<1> HIDE DEF A
<1>6. Heed(A, {})
  BY <1>2, <1>4, HeedMono
<1>7. CASE R \in activate_ready_task(A, t, LeastLoaded, BOOLEAN)
  <2>1. R \in SchedType /\ Heed(R, {})
    BY <1>4, <1>6, <1>7, ActivateFields, ActivateHeed
  <2> QED BY <1>3, <2>1, DispatchHeed
<1>8. CASE sched.state[t] = "running" /\ R = request_reschedule(A, sched.running_cpu[t], TRUE, FALSE)
  <2> DEFINE d == sched.running_cpu[t]
  <2>1. d \in CPU
    BY <1>2, <1>8 DEF Struct, RunningAgrees
  <2> HIDE DEF d
  <2>2. Heed(A, {} \cup {d})
    BY <1>4, <1>6, HeedMono
  <2>3. R = request_reschedule(A, d, TRUE, FALSE)
    BY <1>8 DEF d
  <2>4. R \in SchedType /\ Heed(R, {})
    BY <1>4, <2>1, <2>2, <2>3, RequestSameCore, RequestHeed
  <2> QED BY <1>3, <2>4, DispatchHeed
<1>9. CASE R = A
  BY <1>3, <1>4, <1>6, <1>9, DispatchHeed
<1> QED BY <1>5, <1>7, <1>8, <1>9

\* request_task_reschedule: the caller keeps running, so its own request may go.
LEMMA NotifyHeed ==
  ASSUME Inv, RequestInv, NEW c \in CPU, NEW t \in Task, RequestTaskReschedule(c, t)
  PROVE  RequestInv'
<1>1. sched.panic = "none" /\ sched.current[c] \in Task
  BY DEF RequestTaskReschedule, RunsTask, Interruptible
<1>2. sched \in SchedType /\ Heed(sched, {})
  BY <1>1, BeginHeed
<1> DEFINE d == sched.running_cpu[t]
           R == request_reschedule(sched, d, TRUE, FALSE)
           D == take_pending_reschedule_cpus(R)
           T == take_need_resched(D, c)
<1>3. d \in CPU
  BY <1>2 DEF RequestTaskReschedule, SchedType
<1>4. sched' = IF c \in R.pending THEN T ELSE D
  BY DEF RequestTaskReschedule
<1> HIDE DEF d
<1>5. Heed(sched, {} \cup {d})
  BY <1>2, HeedMono
<1>6. R \in SchedType /\ Heed(R, {}) /\ SameCore(R, sched)
  BY <1>2, <1>3, <1>5, RequestSameCore, RequestHeed
<1> HIDE DEF R
<1>7. D \in SchedType /\ Heed(D, {}) /\ D.pending = {} /\ SameCore(D, R)
  BY <1>6, TakeSameCore, TakePendingHeed
<1> HIDE DEF D
<1>8. Heed(T, {}) /\ T.pending = {}
  <2>1. Heed(T, {} \cup {c})
    BY <1>7, TakeNeedHeed
  <2>2. {} \cup {c} = {c}
    OBVIOUS
  <2>3. T.current[c] # Idle
    BY <1>1, <1>6, <1>7, TakeSameCore, TaskAssumption DEF SameCore
  <2>4. T.pending = {}
    BY <1>7 DEF take_need_resched, SchedType
  <2>5. Settled(T, c)
    BY <2>3 DEF Settled
  <2> HIDE DEF T
  <2> QED BY <2>1, <2>2, <2>4, <2>5, SettledHeed
<1> QED BY <1>4, <1>7, <1>8, NothingPending

\* apply_sched_policy_change: the CPU whose current task or queue is concerned gets
\* a request, unless it is the caller's own.
LEMMA PolicyHeed ==
  ASSUME Inv, RequestInv, TransitOps = {}, NEW c \in CPU, NEW t \in Task, PolicyChange(c, t)
  PROVE  RequestInv'
<1> DEFINE d == policy_cpu(sched, c, t)
           D == dequeue_from_all_cpus(sched, t)
           Q == refresh_task(sched, t, d)
<1>1. /\ sched.panic = "none" /\ sched.current[c] \in Task /\ ~Strict
      /\ sched.state[t] \in {"ready", "running"}
      /\ t \notin unstarted /\ \A e \in CPU : sched.deferred[e] # t
  BY DEF PolicyChange, RunsTask, Interruptible, InTransit, Strict
<1>2. sched \in SchedType /\ Good(sched, unstarted, {}) /\ Heed(sched, {})
  BY <1>1, BeginHeed
<1>3. /\ d \in CPU /\ Good(Q, unstarted, {})
      /\ \A e \in CPU : Q.current[e] = sched.current[e]
  BY <1>1, <1>2, PolicyGood
<1>4. PICK b \in BOOLEAN :
        sched' = IF cpu_should_reschedule(Q, d, FALSE, b) /\ d # c
                 THEN mark_need_resched(Q, d) ELSE Q
  BY DEF PolicyChange
<1> HIDE DEF d
<1>5. /\ D \in SchedType /\ D.panic = sched.panic /\ D.current = sched.current
      /\ D.need_resched = sched.need_resched /\ D.pending = sched.pending
      /\ D.cached = sched.cached /\ \A e \in CPU : D.rq[e] \subseteq sched.rq[e]
  BY <1>2 DEF dequeue_from_all_cpus, SchedType
<1>6. Q = IF sched.state[t] = "ready" THEN enqueue_ready_on_cpu(D, t, d)
          ELSE [D EXCEPT !.current[d] = t, !.cached[d] = sched.affinity[t]]
  BY DEF refresh_task
<1> HIDE DEF D, Q
<1>7. Heed(D, {})
  BY <1>2, <1>5, HeedMono
<1>8. Heed(Q, {d})
  <2>1. CASE sched.state[t] = "ready"
    <3>1. Heed(enqueue_ready_on_cpu(D, t, d), {} \cup {d})
      BY <1>3, <1>5, <1>7, EnqueueHeed
    <3>2. {} \cup {d} = {d}
      OBVIOUS
    <3> QED BY <1>6, <2>1, <3>1, <3>2
  <2>2. CASE sched.state[t] # "ready"
    <3>1. /\ Q.panic = D.panic /\ Q.need_resched = D.need_resched /\ Q.rq = D.rq
          /\ \A e \in CPU \ {d} : Q.current[e] = D.current[e]
      BY <1>3, <1>5, <1>6, <2>2 DEF SchedType
    <3>2. IdleAnswered(D, {}) => IdleAnswered(Q, {d})
      BY <3>1 DEF IdleAnswered
    <3> QED BY <1>1, <1>7, <3>1, <3>2 DEF Heed
  <2> QED BY <2>1, <2>2
<1>9. CASE cpu_should_reschedule(Q, d, FALSE, b) /\ d # c
  <2>1. Heed(Q, {} \cup {d}) /\ Q \in SchedType
    <3>1. {} \cup {d} = {d}
      OBVIOUS
    <3> QED BY <1>3, <1>8, <3>1 DEF Good
  <2>2. Heed(mark_need_resched(Q, d), {})
    BY <1>3, <2>1, MarkHeed
  <2>3. Heed(sched', {})
    BY <1>4, <1>9, <2>2
  <2> QED BY <1>1, <2>3 DEF RequestInv, PendingSwitches, Heed, Strict, IdleAnswered
<1>10. CASE ~(cpu_should_reschedule(Q, d, FALSE, b) /\ d # c)
  <2>1. Settled(Q, d)
    <3>1. CASE d = c
      BY <1>1, <1>3, <3>1, TaskAssumption DEF Settled
    <3>2. CASE ~cpu_should_reschedule(Q, d, FALSE, b)
      BY <3>2 DEF Settled, cpu_should_reschedule
    <3> QED BY <1>10, <3>1, <3>2
  <2>2. Heed(sched', {})
    BY <1>3, <1>4, <1>8, <1>10, <2>1, SettledHeed
  <2> QED BY <1>1, <2>2 DEF RequestInv, PendingSwitches, Heed, Strict, IdleAnswered
<1> QED BY <1>9, <1>10

\* The operations that make no request.
LEMMA QuietHeed ==
  ASSUME Inv, RequestInv, NEW c \in CPU, NEW t \in Task,
         Kill(c, t) \/ Reap(c, t) \/ Discard(c, t)
  PROVE  RequestInv'
<1>1. sched.panic = "none"
  BY DEF Kill, Reap, Discard, RunsTask, Interruptible, Booting
<1>2. /\ sched \in SchedType /\ Heed(sched, {}) /\ sched.pending \subseteq CPU
      /\ phase \in [CPU -> Phases]
  BY <1>1, BeginHeed DEF SchedType
<1>3. /\ sched'.panic = sched.panic /\ sched'.current = sched.current
      /\ sched'.need_resched = sched.need_resched /\ sched'.pending = sched.pending
      /\ sched'.cached = sched.cached /\ \A d \in CPU : sched'.rq[d] \subseteq sched.rq[d]
  <2>1. CASE Kill(c, t)
    BY <1>2, <2>1 DEF Kill, mark_exited, dequeue_from_all_cpus, SchedType
  <2>2. CASE Discard(c, t)
    BY <1>2, <2>2 DEF Discard, discard_task, dequeue_from_all_cpus, SchedType
  <2>3. CASE Reap(c, t)
    BY <1>2, <2>3 DEF Reap, SchedType
  <2> QED BY <2>1, <2>2, <2>3
<1>4. Heed(sched', {})
  BY <1>2, <1>3, HeedMono
<1>5. \A d \in CPU : phase[d] \in {"switch", "post"} => phase'[d] \in {"switch", "post"}
  BY <1>2 DEF Kill, Reap, Discard
<1> QED BY <1>1, <1>2, <1>3, <1>4, <1>5, SamePending

\* set_cpu_online and __switch itself.
LEMMA OnlineSwitchHeed ==
  ASSUME Inv, RequestInv, NEW c \in CPU, SetCpuOnline(c) \/ Switch(c) PROVE RequestInv'
<1>1. sched.panic = "none"
  BY DEF SetCpuOnline, Switch
<1>2. /\ sched \in SchedType /\ Heed(sched, {}) /\ sched.pending \subseteq CPU
      /\ phase \in [CPU -> Phases]
  BY <1>1, BeginHeed DEF SchedType
<1>3. /\ sched'.panic = sched.panic /\ sched'.current = sched.current
      /\ sched'.need_resched = sched.need_resched /\ sched'.pending = sched.pending
      /\ sched'.cached = sched.cached /\ sched'.rq = sched.rq
  BY <1>2 DEF SetCpuOnline, Switch, SchedType
<1>4. Heed(sched', {})
  BY <1>2, <1>3, HeedMono
<1>5. \A d \in CPU : phase[d] \in {"switch", "post"} => phase'[d] \in {"switch", "post"}
  BY <1>2 DEF SetCpuOnline, Switch
<1> QED BY <1>1, <1>2, <1>3, <1>4, <1>5, SamePending

\* run_first_task.
LEMMA RunFirstTaskHeed ==
  ASSUME Inv, RequestInv, NEW c \in CPU, RunFirstTask(c) PROVE RequestInv'
<1> DEFINE L == [sched EXCEPT !.boot = @ \ {c}]
<1>1. sched.panic = "none" /\ c \in sched.boot
  BY DEF RunFirstTask, Booting
<1>2. /\ sched \in SchedType /\ Good(sched, unstarted, {}) /\ Heed(sched, {})
      /\ phase \in [CPU -> Phases] /\ sched.pending \subseteq CPU
  BY <1>1, BeginHeed DEF SchedType
<1>3. PICK R \in install_next(L, c) : sched' = R /\ phase' = [phase EXCEPT ![c] = "switch"]
  BY DEF RunFirstTask
<1>4. Good(L, unstarted, {}) /\ L.current = sched.current
  BY <1>1, <1>2, LeaveBootGood, ZenonT(60)
<1>5. /\ L.panic = sched.panic /\ L.need_resched = sched.need_resched
      /\ L.pending = sched.pending /\ L.cached = sched.cached /\ L.rq = sched.rq
  BY <1>2 DEF SchedType
<1>6. sched.current[c] = Idle
  BY <1>1, <1>2 DEF Good, Struct, BootIsIdle
<1> HIDE DEF L
<1>7. Good(L, unstarted, {c})
  BY <1>4, <1>6, IdleStale
<1>8. Heed(L, {c})
  BY <1>2, <1>4, <1>5, HeedMono
<1>9. Heed(sched', {}) /\ sched'.pending = sched.pending
  BY <1>3, <1>5, <1>7, <1>8, InstallHeed
<1> QED BY <1>1, <1>2, <1>3, <1>9, SamePending

-----------------------------------------------------------------------------
\* No task, no request.
LEMMA InitHeed == Init => RequestInv
<1> SUFFICES ASSUME Init PROVE RequestInv
  OBVIOUS
<1>1. /\ sched.panic = "none" /\ sched.pending = {}
      /\ sched.rq = [c \in CPU |-> {}] /\ sched.cached = [c \in CPU |-> CPU]
  BY DEF Init, InitSched
<1> QED BY <1>1 DEF RequestInv, PendingSwitches, Heed, IdleAnswered, RequestsKept, SnapshotsOwn

\* Every step.
LEMMA NextHeed ==
  ASSUME Inv, RequestInv, TransitOps = {}, Next PROVE RequestInv'
<1>1. CASE Halt
  BY <1>1 DEF Halt, vars, RequestInv, PendingSwitches, Heed, IdleAnswered, RequestsKept,
              SnapshotsOwn, Strict
<1>2. ASSUME NEW c \in CPU, CpuStep(c) PROVE RequestInv'
  <2>1. CASE RescheduleIpi(c) \/ RescheduleCall(c)
    BY <2>1, RescheduleHeed DEF RescheduleIpi, RescheduleCall
  <2> QED BY <1>2, <2>1, EntryHeed, TickHeed, PostSwitchHeed, RunFirstTaskHeed,
             OnlineSwitchHeed DEF CpuStep
<1>3. ASSUME NEW c \in CPU, NEW t \in Task, TaskOp(c, t) PROVE RequestInv'
  BY <1>3, WakeHeed, QuietHeed, PolicyHeed, SetAffinityHeed, NotifyHeed, CreateHeed DEF TaskOp
<1> QED BY <1>1, <1>2, <1>3 DEF Next

\* The requests in every state.
THEOREM RequestInvariance == ASSUME TransitOps = {} PROVE Spec => []RequestInv
<1>1. RequestInv /\ UNCHANGED vars => RequestInv'
  BY DEF vars, RequestInv, PendingSwitches, Heed, IdleAnswered, RequestsKept, SnapshotsOwn, Strict
<1>2. Inv /\ RequestInv /\ [Next]_vars => RequestInv'
  BY <1>1, NextHeed
<1> QED BY <1>2, InitHeed, Invariance, PTL DEF Spec

\* An idle CPU with a queued task always has its request, for any number of CPUs
\* and tasks and any loss of IPIs: the next tick finds the task.
THEOREM IdleSeesWorkHolds == ASSUME TransitOps = {} PROVE Spec => []IdleSeesWork
<1>1. RequestInv => IdleSeesWork
  BY DEF RequestInv, Heed, IdleAnswered, IdleSeesWork
<1> QED BY <1>1, RequestInvariance, PTL

\* Without policy changes, whoever leaves the lock has dispatched every request, but
\* those of CPUs about to switch, which still hold them.
THEOREM RequestsDrainedHolds ==
  ASSUME TransitOps = {}, "policy" \notin AdminOps PROVE Spec => []RequestsDrained
<1>1. RequestInv => RequestsDrained
  BY DEF RequestInv, PendingSwitches, Heed, RequestsKept, RequestsDrained, Strict
<1> QED BY <1>1, RequestInvariance, PTL

\* assert!(scheduler.take_need_resched(cpu_id)) never fails then.
THEOREM NeedReschedAssertedHolds ==
  ASSUME TransitOps = {}, "policy" \notin AdminOps PROVE Spec => []NeedReschedAsserted
<1>1. RequestInv => NeedReschedAsserted
  BY DEF RequestInv, Heed, NeedReschedAsserted, Strict
<1> QED BY <1>1, RequestInvariance, PTL
=============================================================================
