------------------------------- MODULE Process -------------------------------
(***************************************************************************)
(* The process registry, thread groups, and the system calls that create,  *)
(* end, replace, stop and reap processes: ProcessRegistry (task-impl),     *)
(* lifecycle.rs and process.rs of wateros-task, and the handlers of        *)
(* clone, execve, exit, exit_group, wait4/waitid, kill(STOP/CONT) and      *)
(* prctl.  The registry and the scheduler have a lock each; every handler  *)
(* takes them several times, and one step below is one critical section.   *)
(*                                                                         *)
(* A task is a scheduling entity.  sched[t] is what the scheduler knows of *)
(* it, pc[t] where its current system call is, arg[t] what that call has   *)
(* read so far.  proc[p] is the control block of process p.                *)
(***************************************************************************)
EXTENDS Integers, FiniteSets, FiniteSetsExt

CONSTANTS Task,     \* 1..n, handed out in ascending order
          Pid,      \* 1..n: the numbers alloc_pid and alloc_tid may reach
          Ops       \* the system calls that user code makes in this instance

VARIABLES proc, sched, pc, arg, tid, nextPid, nextTid, subreapers
vars == <<proc, sched, pc, arg, tid, nextPid, nextTid, subreapers>>

Init1 == 1          \* INIT_PID, and the first task
ASSUME TaskAssumption == IsFiniteSet(Task) /\ Init1 \in Task /\ Task \subseteq Nat \ {0}
ASSUME PidAssumption == IsFiniteSet(Pid) /\ Pid = 1 .. Cardinality(Pid) /\ Init1 \in Pid
NoPid == 0
NoSource == <<"none", 0>>

Absent == [st |-> "none", parent |-> NoPid, born |-> NoPid, lead |-> 0,
           tasks |-> {}, dead |-> {}, members |-> {}, exec |-> FALSE,
           sub |-> FALSE, dsig |-> FALSE, dsrc |-> NoSource,
           stopw |-> FALSE, contw |-> FALSE, pgid |-> NoPid, sid |-> NoPid]

States == {"none", "run", "stop", "exiting", "exited"}
PCs == {"none", "user", "fork", "forkset", "cloneset", "vfork", "record",
        "notify", "wake", "finish", "exec", "wait", "reap", "block",
        "stopnote", "contwake", "stopblock"}

TypeOK ==
  /\ proc \in [Pid -> [st: States, parent: Pid \cup {NoPid}, born: Pid \cup {NoPid},
        lead: Task \cup {0}, tasks: SUBSET Task, dead: SUBSET Task,
        members: SUBSET Task, exec: BOOLEAN, sub: BOOLEAN, dsig: BOOLEAN,
        dsrc: {NoSource} \cup ({"task"} \X Task) \cup ({"proc"} \X Pid),
        stopw: BOOLEAN, contw: BOOLEAN, pgid: Pid \cup {NoPid}, sid: Pid \cup {NoPid}]]
  /\ sched \in [Task -> {"free", "new", "live", "child", "intr", "manual",
                         "vfork", "exited", "gone"}]
  /\ pc \in [Task -> PCs] /\ arg \in [Task -> Task \cup Pid \cup {0}]
  /\ tid \in [Task -> Pid \cup {0}]
  /\ nextPid \in Nat /\ nextTid \in Nat /\ subreapers \in 0 .. Cardinality(Pid)

-----------------------------------------------------------------------------
(* Queries of the registry. *)
process_exists(p) == p \in Pid /\ proc[p].st # "none"
Live(P) == {p \in Pid : P[p].st # "none"}
Down(st) == st \in {"exiting", "exited"}
PidsOf(t) == {p \in Pid : t \in proc[p].tasks}
pid_for_task(t) == CHOOSE p \in PidsOf(t) : TRUE
task_for_thread(n) == {t \in Task : PidsOf(t) # {} /\ tid[t] = n}
collect_child_pids(P, p) == {c \in Live(P) : P[c].parent = p}
has_child_process(p) == collect_child_pids(proc, p) # {}
find_exited_child_process(p) ==
  {c \in collect_child_pids(proc, p) : proc[c].st = "exited"}
find_stopped_child_process(p) ==
  {c \in collect_child_pids(proc, p) : proc[c].st = "stop" /\ proc[c].stopw}
find_continued_child_process(p) ==
  {c \in collect_child_pids(proc, p) : proc[c].st = "run" /\ proc[c].contw}
pgid_exists_in_session(g, s) ==
  \E p \in Live(proc) : proc[p].pgid = g /\ proc[p].sid = s

(* A pid is skipped while a process or a thread holds the number, and      *)
(* next_tid is kept above every pid handed out.                            *)
alloc_pid == CHOOSE n \in nextPid .. (Cardinality(Pid) + Cardinality(Task) + 1) :
  /\ (n \notin Pid \/ ~process_exists(n)) /\ task_for_thread(n) = {}
  /\ \A k \in nextPid .. n - 1 : process_exists(k) \/ task_for_thread(k) # {}
alloc_tid == CHOOSE n \in nextTid .. (Cardinality(Pid) + Cardinality(Task) + 1) :
  /\ task_for_thread(n) = {}
  /\ \A k \in nextTid .. n - 1 : task_for_thread(k) # {}

Unused == {t \in Task : sched[t] = "free"}
NewTask == Min(Unused)
CanCreate == Unused # {}

-----------------------------------------------------------------------------
(* The registry's transitions, as functions of the table of processes.     *)

(* Forget a death source that has fired: those who asked for a signal get  *)
(* it, the others lose the source as well.                                 *)
take_parent_death_notifications_asked(P, srcs) ==
  [p \in Pid |-> IF P[p].st # "none" /\ P[p].dsig /\ P[p].dsrc \in srcs
                 THEN [P[p] EXCEPT !.dsrc = NoSource] ELSE P[p]]
take_parent_death_notifications(P, srcs) ==
  [p \in Pid |-> IF P[p].st # "none" /\ P[p].dsrc \in srcs
                 THEN [P[p] EXCEPT !.dsrc = NoSource] ELSE P[p]]

(* The nearest living subreaper above p, else init. *)
Ancestors(P, p) ==
  LET up[n \in Nat] == IF n = 0 THEN P[p].parent
                       ELSE IF up[n-1] \in Live(P) THEN P[up[n-1]].parent ELSE NoPid
  IN up
SubreaperAbove(P, p) ==
  LET up == Ancestors(P, p)
      ok(n) == up[n] \in Live(P) /\ P[up[n]].sub /\ ~Down(P[up[n]].st)
      reach(n) == \A k \in 0 .. n : up[k] \in Live(P)
      hits == {n \in 0 .. Cardinality(Pid) : reach(n) /\ ok(n)}
  IN IF hits = {} THEN Init1 ELSE up[Min(hits)]

reparent_orphans(P, p) ==
  LET to == IF subreapers = 0 THEN Init1 ELSE SubreaperAbove(P, p)
  IN IF p = Init1 THEN P
     ELSE [c \in Pid |-> IF c \in collect_child_pids(P, p)
                         THEN [P[c] EXCEPT !.parent = to, !.dsrc = <<"proc", to>>]
                         ELSE P[c]]

(* Process p has just become Exited or Exiting: its children learn of it    *)
(* and go to a new parent.                                                 *)
Orphan(P, p, srcs) ==
  reparent_orphans(take_parent_death_notifications(P, srcs \cup {<<"proc", p>>}), p)

mark_task_exited(P, p, t) ==
  LET Q == take_parent_death_notifications(P, {<<"task", t>>})
      dead == Q[p].dead \cup {t}
      all == Q[p].tasks \subseteq dead
      R == [Q EXCEPT ![p].dead = dead,
                     ![p].members = IF t # Q[p].lead /\ t \notin Q[p].dead
                                    THEN @ \cup {t} ELSE @,
                     ![p].st = IF all THEN "exited" ELSE @]
  IN IF all /\ Q[p].st # "exited" THEN Orphan(R, p, {}) ELSE R

mark_process_exited(P, p) ==
  IF Down(P[p].st) THEN P
  ELSE [Orphan(P, p, {<<"task", t>> : t \in P[p].tasks}) EXCEPT
          ![p].st = IF P[p].tasks \subseteq P[p].dead THEN "exited" ELSE "exiting"]

remove_process(P, p) == [P EXCEPT ![p] = Absent]
(* The count of subreapers once p is removed. *)
uncount_any(p) == subreapers - 1
uncount(p) == subreapers - (IF proc[p].sub THEN 1 ELSE 0)
detach_exited_process(P, p) == remove_process(reparent_orphans(P, p), p)

take_exited_member_tasks(P, p) ==
  [P EXCEPT ![p].tasks = @ \ (P[p].members \ {P[p].lead}),
            ![p].dead = @ \ (P[p].members \ {P[p].lead}),
            ![p].members = {}]

(* The record is new: Running, no thread but keep, no exec under way. *)
retain_only_task_in_process(P, p, keep) ==
  [P EXCEPT ![p].tasks = {keep}, ![p].dead = @ \cap {keep}, ![p].lead = keep,
            ![p].exec = FALSE, ![p].st = "run", ![p].members = {}]

mark_process_stopped(P, p) ==
  IF Down(P[p].st) \/ P[p].st = "stop" THEN P
  ELSE [P EXCEPT ![p].st = "stop", ![p].stopw = TRUE, ![p].contw = FALSE]
mark_process_continued(P, p) ==
  [P EXCEPT ![p].st = "run", ![p].stopw = FALSE, ![p].contw = TRUE]

create_process_for_task(t, p, parent) ==
  [Absent EXCEPT !.st = "run", !.parent = parent, !.born = parent, !.lead = t,
                 !.tasks = {t}, !.pgid = p,
                 !.dsrc = IF parent = NoPid THEN NoSource ELSE <<"proc", parent>>,
                 !.sid = IF parent = NoPid THEN p ELSE NoPid]
create_process_like_fork_with_parent(p, src, parent, t, child) ==
  [create_process_for_task(child, p, parent) EXCEPT
     !.pgid = proc[src].pgid, !.sid = proc[src].sid, !.dsrc = <<"task", t>>]

-----------------------------------------------------------------------------
Init ==
  /\ proc = [p \in Pid |-> IF p = Init1
                            THEN create_process_for_task(Init1, Init1, NoPid) ELSE Absent]
  /\ sched = [t \in Task |-> IF t = Init1 THEN "live" ELSE "free"]
  /\ pc = [t \in Task |-> IF t = Init1 THEN "user" ELSE "none"]
  /\ arg = [t \in Task |-> 0]
  /\ tid = [t \in Task |-> IF t = Init1 THEN Init1 ELSE 0]
  /\ nextPid = 2 /\ nextTid = 2 /\ subreapers = 0

Goto(t, l, a) == pc' = [pc EXCEPT ![t] = l] /\ arg' = [arg EXCEPT ![t] = a]
Me(t) == pid_for_task(t)
(* t runs user code; a task that its process no longer lists has no         *)
(* snapshot, and every handler below returns ESRCH.                        *)
AtUser(t) == pc[t] = "user" /\ sched[t] = "live" /\ PidsOf(t) # {}
User(t, op) == op \in Ops /\ AtUser(t)

(* interrupt_task: a task blocked in any wait becomes ready again; the      *)
(* caller then asks for a reschedule, which only hastens the next trap.    *)
Interrupted(s, T) ==
  [t \in Task |-> IF t \in T /\ s[t] = "child" THEN "intr"
                  ELSE IF t \in T /\ s[t] \in {"manual", "vfork"} THEN "live" ELSE s[t]]

(* fork_current_parented: the parent to be is read before the task and the *)
(* process are created.  CLONE_PARENT takes the caller's own parent.       *)
ForkRead(t) ==
  /\ User(t, "fork") /\ CanCreate
  /\ \E p \in {Me(t)} \cup (IF "cloneparent" \in Ops THEN {proc[Me(t)].parent} ELSE {}) :
       /\ process_exists(p)
       /\ Goto(t, "fork", p)
  /\ UNCHANGED <<proc, sched, tid, nextPid, nextTid, subreapers>>

(* The registry refuses when the parent read above has been reaped. *)
ForkCreate(t) ==
  /\ pc[t] = "fork"
  /\ IF process_exists(arg[t]) /\ CanCreate /\ alloc_pid \in Pid
     THEN LET n == alloc_pid
              c == NewTask
          IN /\ proc' = [proc EXCEPT ![n] =
                           create_process_like_fork_with_parent(n, Me(t), arg[t], t, c)]
             /\ sched' = [sched EXCEPT ![c] = "new"]
             /\ tid' = [tid EXCEPT ![c] = n]
             /\ nextPid' = n + 1
             /\ nextTid' = IF nextTid <= n THEN n + 1 ELSE nextTid
             /\ Goto(t, "forkset", c)
     ELSE /\ Goto(t, "user", 0) /\ UNCHANGED <<proc, sched, tid, nextPid, nextTid>>
  /\ UNCHANGED subreapers

(* do_clone_request after the registry: the side tables are filled in while *)
(* the child cannot run; then it is started, and vfork waits for it.       *)
start_fork_child(t) ==
  /\ pc[t] = "forkset" /\ sched[arg[t]] = "new"
  /\ \E vf \in {FALSE} \cup ({TRUE} \cap {"vfork" \in Ops}) :
       /\ sched' = [sched EXCEPT ![arg[t]] = "live"]
       /\ pc' = [pc EXCEPT ![arg[t]] = "user", ![t] = IF vf THEN "vfork" ELSE "user"]
       /\ arg' = [arg EXCEPT ![t] = IF vf THEN arg[t] ELSE 0]
  /\ UNCHANGED <<proc, tid, nextPid, nextTid, subreapers>>

(* A failing copy to user space rolls the child back (detach_aborted_fork). *)
abort_fork_child(t) ==
  /\ pc[t] = "forkset" /\ "abort" \in Ops
  /\ LET c == arg[t]
         p == pid_for_task(c)
         ok == proc[p].tasks = {c} /\ proc[p].st = "run"
     IN /\ proc' = IF ok THEN remove_process(proc, p) ELSE proc
        /\ sched' = [sched EXCEPT ![c] = "gone"]
  /\ Goto(t, "user", 0)
  /\ UNCHANGED <<tid, nextPid, nextTid, subreapers>>

(* clone(CLONE_THREAD): first the exited members are taken off the registry *)
(* and, in a second critical section, off the scheduler.                   *)
reap_exited_member_threads(P, s, p) ==
  [x \in Task |-> IF x \in P[p].members \ {P[p].lead} /\ s[x] = "exited" THEN "gone" ELSE s[x]]

clone_current_thread(t) ==
  /\ User(t, "thread") /\ CanCreate
  /\ LET p == Me(t)
         P == take_exited_member_tasks(proc, p)
         s == reap_exited_member_threads(proc, sched, p)
         c == NewTask
         n == alloc_tid
     IN /\ n \in Pid
        /\ nextTid' = n + 1
        /\ IF P[p].exec
           THEN /\ proc' = P /\ sched' = s
                /\ UNCHANGED <<pc, arg, tid>>
           ELSE /\ proc' = [P EXCEPT ![p].tasks = @ \cup {c}]
                /\ sched' = [s EXCEPT ![c] = "new"]
                /\ tid' = [tid EXCEPT ![c] = n]
                /\ Goto(t, "cloneset", c)
  /\ UNCHANGED <<nextPid, subreapers>>

start_clone_thread(t) ==
  /\ pc[t] = "cloneset"
  /\ LET c == arg[t] IN
       \/ /\ sched[c] = "new"
          /\ sched' = [sched EXCEPT ![c] = "live"]
          /\ pc' = [pc EXCEPT ![c] = "user", ![t] = "user"]
          /\ UNCHANGED proc
       \/ /\ "abort" \in Ops \/ sched[c] # "new"
          /\ sched' = [sched EXCEPT ![c] = IF @ = "new" THEN "gone" ELSE @]
          /\ proc' = [p \in Pid |-> IF c \in proc[p].tasks
                                    THEN [proc[p] EXCEPT !.tasks = @ \ {c}, !.dead = @ \ {c}]
                                    ELSE proc[p]]
          /\ pc' = [pc EXCEPT ![t] = "user"]
  /\ arg' = [arg EXCEPT ![t] = 0]
  /\ UNCHANGED <<tid, nextPid, nextTid, subreapers>>

-----------------------------------------------------------------------------
(* Exit.  sys_exit drops the thread's resources and records the exit in the *)
(* registry; the parent is told; only then does the scheduler retire the    *)
(* task.  A thread that traps while its process is Exiting takes this path. *)
ExitPath(t) == Goto(t, "record", 0)

sys_exit(t) ==
  /\ AtUser(t) /\ t # Init1
  /\ "exit" \in Ops \/ Down(proc[Me(t)].st)
  /\ ExitPath(t)
  /\ UNCHANGED <<proc, sched, tid, nextPid, nextTid, subreapers>>

(* exit_group publishes Exiting and pulls every sibling out of its wait. *)
exit_group_with_wait_code(t) ==
  /\ User(t, "exitgroup") /\ Me(t) # Init1
  /\ LET p == Me(t)
         P == take_exited_member_tasks(proc, p)
     IN /\ proc' = mark_process_exited(P, p)
        /\ sched' = Interrupted(reap_exited_member_threads(proc, sched, p), P[p].tasks \ {t})
  /\ ExitPath(t)
  /\ UNCHANGED <<tid, nextPid, nextTid, subreapers>>

(* record_current_task_exit: in arg, the process if this exit completed it. *)
record_current_task_exit(t) ==
  /\ pc[t] = "record"
  /\ IF PidsOf(t) = {}
     THEN Goto(t, "finish", 0) /\ UNCHANGED proc
     ELSE LET p == Me(t)
              P == mark_task_exited(proc, p, t)
          IN /\ proc' = P
             /\ IF P[p].st = "exited" /\ proc[p].st # "exited"
                THEN Goto(t, "notify", p) ELSE Goto(t, "finish", 0)
  /\ UNCHANGED <<sched, tid, nextPid, nextTid, subreapers>>

(* wake_parent_child_waiters: the parent is read in one critical section,   *)
(* the waiters of its leader are woken in another.                         *)
ParentOf(p) == IF process_exists(p) /\ process_exists(proc[p].parent)
               THEN proc[p].parent ELSE NoPid
Notify(t) ==
  /\ pc[t] = "notify"
  /\ Goto(t, "wake", ParentOf(arg[t]))
  /\ UNCHANGED <<proc, sched, tid, nextPid, nextTid, subreapers>>
wake_child_exit_waiters(s, p) ==
  [x \in Task |-> IF s[x] = "child" /\ process_exists(p) /\ x \in proc[p].tasks
                  THEN "live" ELSE s[x]]
wake_parent_child_waiters(t) ==
  /\ pc[t] \in {"wake", "stopnote"}
  /\ sched' = IF pc[t] = "wake" THEN wake_child_exit_waiters(sched, arg[t])
              ELSE wake_child_exit_waiters(sched, ParentOf(arg[t]))
  /\ IF pc[t] = "wake" THEN Goto(t, "finish", 0) ELSE Goto(t, "user", 0)
  /\ UNCHANGED <<proc, tid, nextPid, nextTid, subreapers>>

(* vfork::complete_current and scheduler::exit_current. *)
exit_current(t) ==
  /\ pc[t] = "finish"
  /\ sched' = [x \in Task |-> IF x = t THEN "exited"
                              ELSE IF sched[x] = "vfork" /\ arg[x] = t THEN "live" ELSE sched[x]]
  /\ pc' = [x \in Task |-> IF x = t THEN "none" ELSE pc[x]]
  /\ UNCHANGED <<proc, arg, tid, nextPid, nextTid, subreapers>>

(* vfork::wait_for_completion: the child is gone from VFORK_CHILDREN once it *)
(* has exec'ed or exited; a wake by a signal only loops.                    *)
VforkDone(t) == pc[arg[t]] = "none"
wait_for_completion(t) ==
  /\ pc[t] = "vfork" /\ sched[t] = "live"
  /\ IF VforkDone(t)
     THEN Goto(t, "user", 0) /\ UNCHANGED sched
     ELSE sched' = [sched EXCEPT ![t] = "vfork"] /\ UNCHANGED <<pc, arg>>
  /\ UNCHANGED <<proc, tid, nextPid, nextTid, subreapers>>

-----------------------------------------------------------------------------
(* execve, by the leader only: a barrier against clone, then a loop that    *)
(* kills every other thread that is not on a CPU and waits for the others.  *)
begin_process_exec(t) ==
  /\ User(t, "exec") /\ proc[Me(t)].lead = t /\ ~proc[Me(t)].exec
  /\ proc' = [proc EXCEPT ![Me(t)].exec = TRUE]
  /\ Goto(t, "exec", 0)
  /\ UNCHANGED <<sched, tid, nextPid, nextTid, subreapers>>

(* One round for thread x: the scheduler's kill (refused while x is on a     *)
(* CPU, as it is throughout a clone, which masks interrupts), the registry  *)
(* mark of what it killed, and the reap.                                    *)
Pinned == {"fork", "forkset", "cloneset"}
kill_task_with_notifications(t, x) ==
  /\ pc[t] = "exec" /\ x \in proc[Me(t)].tasks \ {t}
  /\ sched[x] \notin {"free", "gone"} /\ pc[x] \notin Pinned
  /\ proc' = IF sched[x] = "exited" THEN proc ELSE mark_task_exited(proc, Me(t), x)
  /\ sched' = [sched EXCEPT ![x] = "gone"]
  /\ pc' = [pc EXCEPT ![x] = "none"]
  /\ UNCHANGED <<arg, tid, nextPid, nextTid, subreapers>>

terminate_other_threads_for_exec(t) ==
  \A x \in proc[Me(t)].tasks \ {t} : sched[x] = "gone"

(* The point of no return: the old threads are gone, the image is replaced,  *)
(* and a vfork parent gets its address space back.                           *)
do_execve(t) ==
  /\ pc[t] = "exec" /\ terminate_other_threads_for_exec(t)
  /\ proc' = retain_only_task_in_process(proc, Me(t), t)
  /\ sched' = [x \in Task |-> IF sched[x] = "vfork" /\ arg[x] = t THEN "live" ELSE sched[x]]
  /\ arg' = [x \in Task |-> IF pc[x] = "vfork" /\ arg[x] = t THEN 0 ELSE arg[x]]
  /\ pc' = [x \in Task |-> IF x = t \/ (pc[x] = "vfork" /\ arg[x] = t) THEN "user" ELSE pc[x]]
  /\ UNCHANGED <<tid, nextPid, nextTid, subreapers>>

-----------------------------------------------------------------------------
(* wait4 / waitid over any child, with WUNTRACED and WCONTINUED. *)
has_pending_wait_event(p) ==
  find_exited_child_process(p) \cup find_stopped_child_process(p)
    \cup find_continued_child_process(p) # {}

sys_waitpid(t) ==
  /\ User(t, "wait") /\ Goto(t, "wait", 0)
  /\ UNCHANGED <<proc, sched, tid, nextPid, nextTid, subreapers>>

(* WNOWAIT leaves the event for the next wait. *)
consume_stop_wait(P, c, nowait) == [P EXCEPT ![c].stopw = @ /\ nowait]
consume_continued_wait(P, c, nowait) == [P EXCEPT ![c].contw = @ /\ nowait]
Nowait == {FALSE} \cup ({TRUE} \cap {"nowait" \in Ops})

(* The wait returned Interrupted: EINTR, unless an event has come as well. *)
wait_interrupted(t) ==
  /\ pc[t] = "wait" /\ sched[t] = "intr" /\ PidsOf(t) # {}
  /\ sched' = [sched EXCEPT ![t] = "live"]
  /\ Goto(t, IF has_pending_wait_event(Me(t)) THEN "wait" ELSE "user", 0)
  /\ UNCHANGED <<proc, tid, nextPid, nextTid, subreapers>>

(* One pass of wait_for_child's loop: an exited child is only found here;   *)
(* a stop or a continuation is consumed; no child is ECHILD; else t blocks. *)
wait_for_child(t) ==
  /\ pc[t] = "wait" /\ sched[t] = "live" /\ PidsOf(t) # {}
  /\ LET p == Me(t) IN
     IF find_exited_child_process(p) # {}
     THEN /\ \E c \in find_exited_child_process(p), nw \in Nowait :
               Goto(t, IF nw THEN "user" ELSE "reap", IF nw THEN 0 ELSE c)
          /\ UNCHANGED proc
     ELSE IF find_stopped_child_process(p) # {}
     THEN /\ \E c \in find_stopped_child_process(p), nw \in Nowait :
               proc' = consume_stop_wait(proc, c, nw)
          /\ Goto(t, "user", 0)
     ELSE IF find_continued_child_process(p) # {}
     THEN /\ \E c \in find_continued_child_process(p), nw \in Nowait :
               proc' = consume_continued_wait(proc, c, nw)
          /\ Goto(t, "user", 0)
     ELSE /\ Goto(t, IF has_child_process(p) THEN "block" ELSE "user", 0)
          /\ UNCHANGED proc
  /\ UNCHANGED <<sched, tid, nextPid, nextTid, subreapers>>

(* reap_exited_process: refused while the scheduler still runs one of its   *)
(* tasks; then the record goes, and its tasks.                              *)
reap_exited_process(t) ==
  /\ pc[t] = "reap"
  /\ LET c == arg[t] IN
     IF process_exists(c) /\ proc[c].st = "exited"
        /\ \A x \in proc[c].tasks : sched[x] = "exited"
     THEN /\ proc' = detach_exited_process(proc, c)
          /\ sched' = [x \in Task |-> IF x \in proc[c].tasks THEN "gone" ELSE sched[x]]
          /\ subreapers' = uncount(c)
          /\ Goto(t, "user", 0)
     ELSE /\ Goto(t, IF process_exists(c) THEN "wait" ELSE "user", 0)
          /\ UNCHANGED <<proc, sched, subreapers>>
  /\ UNCHANGED <<tid, nextPid, nextTid>>

(* The bring-up loop reaps whatever has exited, whoever its parent is. *)
reap_all_exited_processes(t) ==
  /\ User(t, "reapall") /\ t = Init1
  /\ \E c \in Live(proc) \ {Init1} :
       /\ proc[c].st = "exited" /\ \A x \in proc[c].tasks : sched[x] = "exited"
       /\ proc' = detach_exited_process(proc, c)
       /\ sched' = [x \in Task |-> IF x \in proc[c].tasks THEN "gone" ELSE sched[x]]
       /\ subreapers' = uncount(c)
  /\ UNCHANGED <<pc, arg, tid, nextPid, nextTid>>

(* wait_on_while: the condition is evaluated again under the scheduler's    *)
(* lock, in the section that enqueues t.                                    *)
StillNothing(p) == has_child_process(p) /\ ~has_pending_wait_event(p)
wait_for_child_event(t) ==
  /\ pc[t] = "block" /\ sched[t] = "live" /\ PidsOf(t) # {}
  /\ sched' = [sched EXCEPT ![t] = IF StillNothing(Me(t)) THEN "child" ELSE "live"]
  /\ Goto(t, "wait", 0)
  /\ UNCHANGED <<proc, tid, nextPid, nextTid, subreapers>>

-----------------------------------------------------------------------------
(* Job control.  SIGSTOP is applied by its sender t to the process p; the    *)
(* threads of p see it at their next trap and block.  SIGCONT marks p        *)
(* running and wakes the tasks that are blocked already.                    *)
StopDispatch(t, p) ==
  /\ User(t, "stop") /\ process_exists(p)
  /\ ~Down(proc[p].st)
  /\ proc' = mark_process_stopped(proc, p)
  /\ Goto(t, "stopnote", p)
  /\ UNCHANGED <<sched, tid, nextPid, nextTid, subreapers>>

ContinueDispatch(t, p) ==
  /\ User(t, "stop") /\ process_exists(p) /\ proc[p].st = "stop"
  /\ proc' = mark_process_continued(proc, p)
  /\ Goto(t, "contwake", p)
  /\ UNCHANGED <<sched, tid, nextPid, nextTid, subreapers>>

continue_process_tasks(t) ==
  /\ pc[t] = "contwake"
  /\ sched' = [x \in Task |-> IF x \in proc[arg[t]].tasks /\ sched[x] = "manual"
                              THEN "live" ELSE sched[x]]
  /\ Goto(t, "stopnote", arg[t])
  /\ UNCHANGED <<proc, tid, nextPid, nextTid, subreapers>>

(* deliver_pending_signal on the way back to user space: the state is read  *)
(* first, the task blocks on Manual in a later critical section.           *)
StopSeen(t) ==
  /\ AtUser(t) /\ proc[Me(t)].st = "stop"
  /\ Goto(t, "stopblock", 0)
  /\ UNCHANGED <<proc, sched, tid, nextPid, nextTid, subreapers>>
StopBlock(t) ==
  /\ pc[t] = "stopblock" /\ sched[t] = "live"
  /\ sched' = [sched EXCEPT ![t] = "manual"]
  /\ Goto(t, "user", 0)
  /\ UNCHANGED <<proc, tid, nextPid, nextTid, subreapers>>

-----------------------------------------------------------------------------
(* prctl(PR_SET_CHILD_SUBREAPER), prctl(PR_SET_PDEATHSIG), setsid, setpgid. *)
set_process_child_subreaper(p, on) ==
  /\ proc' = [proc EXCEPT ![p].sub = on]
  /\ subreapers' = subreapers + (IF on THEN 1 ELSE 0) - (IF proc[p].sub THEN 1 ELSE 0)
set_parent_death_signal(p) ==
  proc' = [proc EXCEPT ![p].dsig = TRUE] /\ UNCHANGED subreapers
sys_prctl(t) ==
  /\ \/ User(t, "subreaper") /\ \E on \in BOOLEAN : set_process_child_subreaper(Me(t), on)
     \/ User(t, "pdeath") /\ set_parent_death_signal(Me(t))
  /\ UNCHANGED <<sched, pc, arg, tid, nextPid, nextTid>>

create_session_for_process(t) ==
  /\ User(t, "session") /\ proc[Me(t)].pgid # Me(t)
  /\ proc' = [proc EXCEPT ![Me(t)].pgid = Me(t), ![Me(t)].sid = Me(t)]
  /\ UNCHANGED <<sched, pc, arg, tid, nextPid, nextTid, subreapers>>

sys_setpgid(t, p, g) ==
  /\ User(t, "session") /\ process_exists(p)
  /\ p = Me(t) \/ (proc[p].parent = Me(t) /\ ~Down(proc[p].st))
  /\ proc[p].sid # p
  /\ g = p \/ (proc[p].sid # NoPid /\ pgid_exists_in_session(g, proc[p].sid))
  /\ proc' = [proc EXCEPT ![p].pgid = g]
  /\ UNCHANGED <<sched, pc, arg, tid, nextPid, nextTid, subreapers>>

-----------------------------------------------------------------------------
Step(t) ==
  \/ ForkRead(t) \/ ForkCreate(t) \/ start_fork_child(t) \/ abort_fork_child(t)
  \/ clone_current_thread(t) \/ start_clone_thread(t)
  \/ sys_exit(t) \/ exit_group_with_wait_code(t) \/ record_current_task_exit(t)
  \/ Notify(t) \/ wake_parent_child_waiters(t) \/ exit_current(t) \/ wait_for_completion(t)
  \/ begin_process_exec(t) \/ do_execve(t)
  \/ \E x \in Task : kill_task_with_notifications(t, x)
  \/ sys_waitpid(t) \/ wait_interrupted(t) \/ wait_for_child(t) \/ reap_exited_process(t)
  \/ reap_all_exited_processes(t) \/ wait_for_child_event(t)
  \/ continue_process_tasks(t) \/ StopSeen(t) \/ StopBlock(t)
  \/ \E p \in Pid : StopDispatch(t, p) \/ ContinueDispatch(t, p)
  \/ sys_prctl(t) \/ create_session_for_process(t) \/ \E p, g \in Pid : sys_setpgid(t, p, g)

Next == \E t \in Task : Step(t)
Spec == Init /\ [][Next]_vars

-----------------------------------------------------------------------------
(* The registry's tables agree: a number names at most one task, and a      *)
(* thread never carries the number of a process it does not lead (the       *)
(* assertions of remove_task_indexes and insert_process); a task is in one  *)
(* process; every process but init has a parent that is still in the table  *)
(* (reparent_orphans); and the count of subreapers is that of the flags.    *)
TablesAgree ==
  /\ \A t, u \in Task : (PidsOf(t) # {} /\ PidsOf(u) # {} /\ t # u) => tid[t] # tid[u]
  /\ \A p \in Live(proc) : \A t \in Task :
       (PidsOf(t) # {} /\ tid[t] = p) => t = proc[p].lead
  /\ \A t \in Task : Cardinality(PidsOf(t)) <= 1
  /\ \A p \in Live(proc) \ {Init1} : process_exists(proc[p].parent)
  /\ subreapers = Cardinality({p \in Pid : proc[p].sub})

(* PR_SET_PDEATHSIG cannot be missed: whatever a process waits for to die    *)
(* (the thread that created it, or the process it was handed to) is still   *)
(* alive, unless it is init.                                                *)
DeathSourceAlive ==
  \A p \in Live(proc) :
    LET d == proc[p].dsrc IN
    /\ d[1] = "task" => \E q \in Live(proc) : d[2] \in proc[q].tasks \ proc[q].dead
    /\ (d[1] = "proc" /\ d[2] # Init1) => process_exists(d[2]) /\ proc[d[2]].st # "exited"

(* A parent blocked in wait4 hears of what its own children did: while an    *)
(* event of a child it created is pending, some task is on the way to wake  *)
(* it.  wait_on_while's second look and wake_parent_child_waiters make it so. *)
Heard(p, c) == \E u \in Task :
  \/ pc[u] \in {"notify", "stopnote", "contwake"} /\ arg[u] = c
  \/ pc[u] = "wake" /\ arg[u] = p
WaiterHears ==
  \A t \in Task : (sched[t] = "child" /\ PidsOf(t) # {}) =>
    \A c \in collect_child_pids(proc, Me(t)) :
      (c \in find_exited_child_process(Me(t)) \cup find_stopped_child_process(Me(t))
               \cup find_continued_child_process(Me(t)) /\ proc[c].born = Me(t))
        => Heard(Me(t), c)

(* The tables of the process registry agree under fork, clone, exec, exit,  *)
(* exit_group, wait and reparenting; what a process waits for to die is     *)
(* alive; and a parent blocked in wait4 is about to be woken when a child   *)
(* of its own has exited, stopped or continued.                            *)
RegistryAgrees == TablesAgree /\ DeathSourceAlive /\ WaiterHears

(* A process is taken out of the table, and its address space destroyed,     *)
(* only when none of its tasks runs any more: a task the scheduler still     *)
(* runs is still listed by its process.                                      *)
RunsRegistered ==
  \A t \in Task : sched[t] \in {"live", "child", "intr", "manual", "vfork"} => PidsOf(t) # {}

(* SIGCONT resumes every thread that SIGSTOP suspended: a task blocked on     *)
(* Manual belongs to a stopped process, or is about to be woken.             *)
SuspendedOnlyWhileStopped ==
  \A t \in Task : sched[t] = "manual" =>
    \A p \in PidsOf(t) : proc[p].st = "stop" \/ \E u \in Task : pc[u] = "contwake" /\ arg[u] = p
=============================================================================
