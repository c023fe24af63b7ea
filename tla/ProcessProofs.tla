--------------------------- MODULE ProcessProofs ---------------------------
(***************************************************************************)
(* Theorems about Process: the tables of the registry agree, what a        *)
(* process waits for to die is alive, and a parent blocked in wait4 hears   *)
(* of its children.                                                        *)
(*                                                                         *)
(* The invariant has a part about the table of processes alone, carried     *)
(* through the registry's transitions, and one about the places of tasks:   *)
(* where in a system call the scheduler may have them, given what the       *)
(* registry records.                                                       *)
(***************************************************************************)
EXTENDS Process, FiniteSetTheorems, WellFoundedInduction, TLAPS

MaxPid == Cardinality(Pid)
ProcessType ==
  [st: States, parent: Pid \cup {NoPid}, born: Pid \cup {NoPid},
   lead: Task \cup {0}, tasks: SUBSET Task, dead: SUBSET Task,
   members: SUBSET Task, exec: BOOLEAN, sub: BOOLEAN, dsig: BOOLEAN,
   dsrc: {NoSource} \cup ({"task"} \X Task) \cup ({"proc"} \X Pid),
   stopw: BOOLEAN, contw: BOOLEAN, pgid: Pid \cup {NoPid}, sid: Pid \cup {NoPid}]
TableType == [Pid -> ProcessType]

Listed(P, t) == \E p \in Pid : t \in P[p].tasks
IsDead(P, t) == \E p \in Pid : t \in P[p].dead

-----------------------------------------------------------------------------
(* The table of processes. *)
AbsentEmpty(P) == \A p \in Pid : P[p].st = "none" => P[p] = Absent
OneProcess(P) == \A p, q \in Pid : \A t \in Task : t \in P[p].tasks /\ t \in P[q].tasks => p = q
DeadRecorded(P) ==
  \A p \in Pid : /\ P[p].dead \subseteq P[p].tasks
                 /\ P[p].members \cap P[p].tasks \subseteq P[p].dead
                 /\ P[p].st = "exited" => P[p].tasks \subseteq P[p].dead
ParentsLive(P) ==
  \A p \in Live(P) : IF p = Init1 THEN P[p].parent = NoPid ELSE P[p].parent \in Live(P)
InitRuns(P) ==
  /\ P[Init1].st \in {"run", "stop"} /\ P[Init1].lead = Init1
  /\ Init1 \in P[Init1].tasks \ P[Init1].dead
SourceAlive(P, d) ==
  /\ d[1] = "task" => \E q \in Live(P) : d[2] \in P[q].tasks \ P[q].dead
  /\ (d[1] = "proc" /\ d[2] # Init1) => d[2] \in Live(P) /\ P[d[2]].st # "exited"
SourcesAlive(P) == \A p \in Live(P) : SourceAlive(P, P[p].dsrc)

Tree(P) ==
  /\ P \in TableType /\ AbsentEmpty(P) /\ OneProcess(P) /\ DeadRecorded(P)
  /\ ParentsLive(P) /\ InitRuns(P)
Table(P) == Tree(P) /\ SourcesAlive(P)

Counted(P, n) == n = Cardinality({p \in Pid : P[p].sub})

Numbers(P, T, np, nt) ==
  /\ T \in [Task -> Pid \cup {0}] /\ np \in 1 .. MaxPid + 1 /\ nt \in 1 .. MaxPid + 1
  /\ \A t, u \in Task : Listed(P, t) /\ Listed(P, u) /\ t # u => T[t] # T[u]
  /\ \A p \in Live(P) : p < np /\ p < nt
  /\ \A p \in Live(P) : \A t \in Task : Listed(P, t) /\ T[t] = p => t = P[p].lead

-----------------------------------------------------------------------------
(* The places of tasks: S is what the scheduler says, C and A what the       *)
(* current call says.                                                       *)
Running == {"live", "child", "intr", "manual", "vfork"}
Ending == {"notify", "wake", "finish"}
Waits(P, t) == \E p \in Live(P) : P[p].dsrc = <<"task", t>>

TaskPlace(P, S, C, t) ==
  /\ S[t] = "free" => ~Listed(P, t)
  /\ S[t] = "new" => Listed(P, t) /\ ~IsDead(P, t) /\ ~Waits(P, t)
  /\ C[t] # "none" => S[t] \in Running
  /\ C[t] \notin Ending \cup {"none"} => Listed(P, t) /\ ~IsDead(P, t)
  /\ C[t] \in Ending /\ Listed(P, t) => IsDead(P, t)
  /\ \A p \in Pid : S[t] \in {"exited", "gone"} /\ t \in P[p].tasks =>
       t \in P[p].dead \/ (P[p].tasks = {t} /\ ~Waits(P, t))
  /\ C[t] = "exec" => \A p \in Pid : t \in P[p].tasks => P[p].lead = t

(* A process that its creator has not started.                              *)
Fresh(P, p, c) ==
  /\ p # Init1 /\ P[p].tasks = {c} /\ P[p].dead = {} /\ ~P[p].sub /\ P[p].st \in {"run", "stop"}
  /\ \A q \in Live(P) : P[q].parent # p /\ P[q].dsrc # <<"proc", p>>
ArgPlace(P, S, C, A, n, t) ==
  /\ C[t] \in {"fork", "notify", "reap", "stopnote", "contwake"} => A[t] \in Pid
  /\ C[t] \in {"forkset", "cloneset", "vfork"} => A[t] \in Task
  /\ C[t] = "fork" => A[t] < n
  /\ C[t] = "forkset" =>
       /\ S[A[t]] = "new"
       /\ \E p \in Pid : Fresh(P, p, A[t]) /\ \A u \in Task : C[u] = "fork" => A[u] # p
  /\ C[t] = "cloneset" => S[A[t]] \in {"new", "gone"}
Creating == {"forkset", "cloneset"}

Places(P, S, C, A, n) ==
  /\ S \in [Task -> {"free", "new", "live", "child", "intr", "manual", "vfork", "exited", "gone"}]
  /\ C \in [Task -> PCs] /\ A \in [Task -> Task \cup Pid \cup {0}]
  /\ \A t \in Task : TaskPlace(P, S, C, t) /\ ArgPlace(P, S, C, A, n, t)
  /\ \A t, u \in Task : C[t] \in Creating /\ C[u] \in Creating /\ t # u => A[t] # A[u]
  /\ C[Init1] \notin Ending \cup {"none", "record"}

RInv ==
  /\ Table(proc) /\ Counted(proc, subreapers) /\ Numbers(proc, tid, nextPid, nextTid)
  /\ Places(proc, sched, pc, arg, nextPid)

-----------------------------------------------------------------------------
Event(r) == r.st = "exited" \/ (r.st = "stop" /\ r.stopw) \/ (r.st = "run" /\ r.contw)

(* A child is with the parent it was created for until that one is down.      *)
BornKept(P, n) ==
  \A c \in Live(P) :
    /\ P[c].born < n
    /\ P[c].parent = P[c].born \/ P[c].born \notin Live(P) \/ Down(P[P[c].born].st)
\* Some task is on its way to wake p for its child c.
Told(C, A, p, c) == \E u \in Task :
  \/ C[u] \in {"notify", "stopnote", "contwake"} /\ A[u] = c
  \/ C[u] = "wake" /\ A[u] = p
HasNews(P, p, c) == P[c].parent = p /\ P[c].born = p /\ Event(P[c])
Hears(P, S, C, A) ==
  \A t \in Task, p \in Pid : \A c \in Live(P) :
    S[t] = "child" /\ t \in P[p].tasks /\ HasNews(P, p, c) => Told(C, A, p, c)
NoExec == \A t \in Task : pc[t] # "exec"
WInv == RInv /\ BornKept(proc, nextPid) /\ Hears(proc, sched, pc, arg) /\ NoExec

-----------------------------------------------------------------------------
LEMMA Consts ==
  /\ Init1 \in Task /\ Init1 \in Pid /\ MaxPid \in Nat /\ Pid = 1 .. MaxPid
  /\ 0 \notin Pid /\ 0 \notin Task /\ Pid \subseteq Nat /\ Task \subseteq Nat /\ IsFiniteSet(Pid)
<1>1. MaxPid \in Nat /\ Pid = 1 .. MaxPid /\ IsFiniteSet(Pid)
  BY PidAssumption, FS_CardinalityType DEF MaxPid
<1> QED BY <1>1, TaskAssumption, PidAssumption

(***************************************************************************)
(* Changes of one control block.                                           *)
(***************************************************************************)
Source == {NoSource} \cup ({"task"} \X Task) \cup ({"proc"} \X Pid)

LEMMA RowSource ==
  ASSUME NEW r \in ProcessType, NEW x \in Source, NEW q, q = [r EXCEPT !.dsrc = x]
  PROVE  /\ q \in ProcessType /\ q.st = r.st /\ q.lead = r.lead /\ q.tasks = r.tasks /\ q.dead = r.dead
         /\ q.members = r.members /\ q.sub = r.sub /\ q.parent = r.parent /\ q.born = r.born /\ q.dsrc = x
         /\ q.stopw = r.stopw /\ q.contw = r.contw
  BY DEF ProcessType, Source

ToParent(r, p) == [r EXCEPT !.parent = p, !.dsrc = <<"proc", p>>]
LEMMA RowParent ==
  ASSUME NEW r \in ProcessType, NEW p \in Pid, NEW q, q = ToParent(r, p)
  PROVE  /\ q \in ProcessType /\ q.st = r.st /\ q.lead = r.lead /\ q.tasks = r.tasks /\ q.dead = r.dead
         /\ q.members = r.members /\ q.sub = r.sub /\ q.parent = p /\ q.born = r.born /\ q.dsrc = <<"proc", p>>
         /\ q.stopw = r.stopw /\ q.contw = r.contw
<1>1. <<"proc", p>> \in {"proc"} \X Pid
  OBVIOUS
<1> QED BY <1>1 DEF ProcessType, ToParent

ToExit(r, D, M, s) == [r EXCEPT !.dead = D, !.members = M, !.st = s]
LEMMA RowExit ==
  ASSUME NEW r \in ProcessType, NEW D \in SUBSET Task, NEW M \in SUBSET Task, NEW s \in States,
         NEW q, q = ToExit(r, D, M, s)
  PROVE  /\ q \in ProcessType /\ q.st = s /\ q.lead = r.lead /\ q.tasks = r.tasks /\ q.dead = D
         /\ q.members = M /\ q.sub = r.sub /\ q.parent = r.parent /\ q.born = r.born /\ q.dsrc = r.dsrc
         /\ q.stopw = r.stopw /\ q.contw = r.contw
  BY DEF ProcessType, ToExit

ToState(r, s) == [r EXCEPT !.st = s]
LEMMA RowState ==
  ASSUME NEW r \in ProcessType, NEW s \in States, NEW q, q = ToState(r, s)
  PROVE  /\ q \in ProcessType /\ q.st = s /\ q.lead = r.lead /\ q.tasks = r.tasks /\ q.dead = r.dead
         /\ q.members = r.members /\ q.sub = r.sub /\ q.parent = r.parent /\ q.born = r.born /\ q.dsrc = r.dsrc
         /\ q.stopw = r.stopw /\ q.contw = r.contw
  BY DEF ProcessType, ToState

\* One row of a table changes.
Into(P, p, r) == [P EXCEPT ![p] = r]
LEMMA RowInto ==
  ASSUME NEW P \in TableType, NEW p \in Pid, NEW r \in ProcessType, NEW R, R = Into(P, p, r)
  PROVE  R \in TableType /\ R[p] = r /\ \A q \in Pid \ {p} : R[q] = P[q]
  BY DEF TableType, Into

(***************************************************************************)
(* Notifications and new parents leave the rest of the table alone.         *)
(***************************************************************************)
SameRow(r, q) ==
  /\ q.st = r.st /\ q.lead = r.lead /\ q.tasks = r.tasks /\ q.dead = r.dead /\ q.members = r.members
  /\ q.sub = r.sub /\ q.born = r.born /\ q.stopw = r.stopw /\ q.contw = r.contw
SameRows(P, R) == \A q \in Pid : SameRow(P[q], R[q])

LEMMA LiveDef == \A P : Live(P) = {p \in Pid : P[p].st # "none"}
  BY DEF Live

LEMMA SameTree ==
  ASSUME NEW P, NEW R, Tree(P), R \in TableType, SameRows(P, R), AbsentEmpty(R), ParentsLive(R)
  PROVE  Tree(R)
<1>1. OneProcess(R) /\ DeadRecorded(R)
  BY DEF Tree, SameRows, SameRow, OneProcess, DeadRecorded
<1>2. InitRuns(R)
  BY Consts DEF Tree, SameRows, SameRow, InitRuns
<1> QED BY <1>1, <1>2 DEF Tree

LEMMA SameSources ==
  ASSUME NEW P, NEW R, SameRows(P, R)
  PROVE  Live(R) = Live(P) /\ \A d : d[2] \in Pid \cup Task /\ SourceAlive(P, d) => SourceAlive(R, d)
<1>1. Live(R) = Live(P)
  BY DEF Live, SameRows, SameRow
<1>2. ASSUME NEW d, SourceAlive(P, d) PROVE SourceAlive(R, d)
  <2>1. CASE d[1] = "task"
    <3>1. PICK q \in Live(P) : d[2] \in P[q].tasks \ P[q].dead
      BY <1>2, <2>1 DEF SourceAlive
    <3>2. SameRow(P[q], R[q])
      BY DEF SameRows, Live
    <3> QED BY <1>1, <2>1, <3>1, <3>2 DEF SourceAlive, SameRow
  <2>2. CASE d[1] # "task"
    BY <1>1, <1>2, <2>2 DEF SourceAlive, SameRows, SameRow, Live
  <2> QED BY <2>1, <2>2
<1> QED BY <1>1, <1>2

LEMMA Taken ==
  ASSUME NEW P, Tree(P), NEW X, NEW R, R = take_parent_death_notifications(P, X)
  PROVE  /\ Tree(R) /\ SameRows(P, R) /\ Live(R) = Live(P)
         /\ \A q \in Pid : /\ R[q].parent = P[q].parent
                           /\ R[q].dsrc = IF q \in Live(P) /\ P[q].dsrc \in X THEN NoSource ELSE P[q].dsrc
<1>1. P \in TableType
  BY DEF Tree
<1>2. ASSUME NEW q \in Pid
      PROVE  /\ R[q] \in ProcessType /\ SameRow(P[q], R[q]) /\ (P[q].st = "none" => R[q] = P[q])
             /\ R[q].parent = P[q].parent
             /\ R[q].dsrc = IF q \in Live(P) /\ P[q].dsrc \in X THEN NoSource ELSE P[q].dsrc
  <2>1. P[q] \in ProcessType /\ NoSource \in Source
    BY <1>1 DEF TableType, Source
  <2>2. CASE P[q].st # "none" /\ P[q].dsrc \in X
    <3>1. R[q] = [P[q] EXCEPT !.dsrc = NoSource]
      BY <2>2 DEF take_parent_death_notifications
    <3> QED BY <2>1, <2>2, <3>1, RowSource DEF SameRow, Live
  <2>3. CASE ~(P[q].st # "none" /\ P[q].dsrc \in X)
    <3>1. R[q] = P[q]
      BY <2>3 DEF take_parent_death_notifications
    <3> QED BY <2>1, <2>3, <3>1 DEF SameRow, Live
  <2> QED BY <2>2, <2>3
<1>3. R \in TableType /\ SameRows(P, R)
  <2>1. R = [p \in Pid |-> R[p]]
    BY DEF take_parent_death_notifications
  <2> QED BY <1>2, <2>1 DEF TableType, SameRows
<1>4. AbsentEmpty(R)
  BY <1>2 DEF AbsentEmpty, Tree, SameRow
<1>5. Live(R) = Live(P)
  BY <1>3, SameSources
<1>6. ParentsLive(R)
  BY <1>2, <1>5 DEF ParentsLive, Tree, Live
<1> QED BY <1>2, <1>3, <1>4, <1>5, <1>6, SameTree

\* Whom the orphans of p go to.
Adopts(P, p, to) ==
  to \in Live(P) /\ (to = Init1 \/ (P[to].sub /\ ~Down(P[to].st)))

LEMMA Least == ASSUME NEW S \in SUBSET Nat, S # {} PROVE Min(S) \in S /\ \A y \in S : Min(S) <= y
<1>1. IsWellFoundedOn(OpToRel(<, Nat), Nat)
  BY NatLessThanWellFounded
<1>2. PICK x \in S : \A y \in S : ~ (<<y, x>> \in OpToRel(<, Nat))
  BY <1>1, WFMin
<1>3. \A y \in S : x <= y
  <2> SUFFICES ASSUME NEW y \in S PROVE x <= y
    OBVIOUS
  <2>1. <<y, x>> \in Nat \X Nat /\ <<y, x>>[1] = y /\ <<y, x>>[2] = x
    OBVIOUS
  <2>2. ~ (y < x)
    BY <1>2, <2>1 DEF OpToRel
  <2> QED BY <2>2
<1> QED BY <1>3 DEF Min

LEMMA AdopterAbove ==
  ASSUME NEW P, Tree(P), NEW p PROVE Adopts(P, p, SubreaperAbove(P, p))
<1> DEFINE up == Ancestors(P, p)
           ok(n) == up[n] \in Live(P) /\ P[up[n]].sub /\ ~Down(P[up[n]].st)
           reach(n) == \A k \in 0 .. n : up[k] \in Live(P)
           hits == {n \in 0 .. Cardinality(Pid) : reach(n) /\ ok(n)}
<1>1. SubreaperAbove(P, p) = IF hits = {} THEN Init1 ELSE up[Min(hits)]
  BY DEF SubreaperAbove
<1>2. Init1 \in Live(P)
  BY Consts DEF Tree, InitRuns, Live
<1>3. CASE hits = {}
  BY <1>1, <1>2, <1>3 DEF Adopts
<1>4. CASE hits # {}
  <2>1. hits \in SUBSET Nat
    BY Consts DEF MaxPid
  <2>2. Min(hits) \in hits
    BY <1>4, <2>1, Least
  <2>3. ok(Min(hits))
    BY <2>2
  <2> QED BY <1>1, <1>4, <2>3 DEF Adopts
<1> QED BY <1>3, <1>4

\* The children of p have a new parent, and wait for its death.
Adopted(P, R, p, to) ==
  \A q \in Pid :
    IF p # Init1 /\ q \in Live(P) /\ P[q].parent = p
    THEN R[q].parent = to /\ R[q].dsrc = <<"proc", to>>
    ELSE R[q].parent = P[q].parent /\ R[q].dsrc = P[q].dsrc

LEMMA Reparented ==
  ASSUME NEW P, Tree(P), NEW p \in Pid, NEW R, R = reparent_orphans(P, p)
  PROVE  /\ Tree(R) /\ SameRows(P, R) /\ Live(R) = Live(P)
         /\ \E to \in Live(P) : Adopts(P, p, to) /\ Adopted(P, R, p, to)
<1>0. P \in TableType /\ Init1 \in Live(P)
  BY Consts DEF Tree, InitRuns, Live
<1> DEFINE to == IF subreapers = 0 THEN Init1 ELSE SubreaperAbove(P, p)
<1>1. Adopts(P, p, to) /\ to \in Live(P) /\ to \in Pid
  <2>1. Adopts(P, p, Init1) /\ Adopts(P, p, SubreaperAbove(P, p))
    BY <1>0, AdopterAbove DEF Adopts
  <2>2. Adopts(P, p, to)
    BY <2>1
  <2> QED BY <2>2 DEF Adopts, Live
<1>2. R = IF p = Init1 THEN P
          ELSE [c \in Pid |-> IF c \in collect_child_pids(P, p)
                              THEN [P[c] EXCEPT !.parent = to, !.dsrc = <<"proc", to>>] ELSE P[c]]
  BY DEF reparent_orphans
<1> HIDE DEF to
<1>3. ASSUME NEW q \in Pid
      PROVE  /\ R[q] \in ProcessType /\ SameRow(P[q], R[q]) /\ (P[q].st = "none" => R[q] = P[q])
             /\ IF p # Init1 /\ q \in Live(P) /\ P[q].parent = p
                THEN R[q].parent = to /\ R[q].dsrc = <<"proc", to>>
                ELSE R[q].parent = P[q].parent /\ R[q].dsrc = P[q].dsrc
  <2>1. P[q] \in ProcessType
    BY <1>0 DEF TableType
  <2>2. CASE p # Init1 /\ q \in Live(P) /\ P[q].parent = p
    <3>1. R[q] = ToParent(P[q], to)
      BY <1>2, <2>2 DEF collect_child_pids, ToParent
    <3>2. R[q] \in ProcessType /\ SameRow(P[q], R[q]) /\ R[q].parent = to /\ R[q].dsrc = <<"proc", to>>
      BY <1>1, <2>1, <3>1, RowParent DEF SameRow
    <3>3. P[q].st # "none"
      BY <2>2 DEF Live
    <3> QED BY <2>2, <3>2, <3>3
  <2>3. CASE ~(p # Init1 /\ q \in Live(P) /\ P[q].parent = p)
    <3>1. R[q] = P[q]
      BY <1>2, <2>3 DEF collect_child_pids
    <3> QED BY <2>1, <2>3, <3>1 DEF SameRow
  <2> QED BY <2>2, <2>3
<1>4. R \in TableType /\ SameRows(P, R)
  <2>1. R = [q \in Pid |-> R[q]]
    BY <1>0, <1>2 DEF TableType
  <2> QED BY <1>3, <2>1 DEF TableType, SameRows
<1>5. AbsentEmpty(R)
  BY <1>3 DEF AbsentEmpty, Tree, SameRow
<1>6. Live(R) = Live(P)
  BY <1>4, SameSources
<1>7. ParentsLive(R)
  <2>1. p # NoPid
    BY Consts DEF NoPid
  <2> QED BY <1>1, <1>3, <1>6, <2>1 DEF ParentsLive, Tree, Live
<1>8. Adopted(P, R, p, to)
  BY <1>3 DEF Adopted
<1> QED BY <1>1, <1>4, <1>5, <1>6, <1>7, <1>8, SameTree

(***************************************************************************)
(* What a transition of the table may do to the places of tasks.            *)
(***************************************************************************)
\* Processes lose only dead tasks, and no task becomes a source of death.
Trimmed(r, q) == q.tasks \subseteq r.tasks /\ r.tasks \ q.tasks \subseteq r.dead /\ q.dead = r.dead \cap q.tasks
SourcesFrom(P, R) ==
  /\ \A t \in Task : Waits(R, t) => Waits(P, t)
  /\ \A p \in Pid, c \in Task : sched[c] = "new" /\ Fresh(P, p, c) => Fresh(R, p, c)
Survives(P, R) == \A q \in Live(R) : q \in Live(P) /\ R[q].lead = P[q].lead
Trims(P, R) == (\A q \in Pid : Trimmed(P[q], R[q])) /\ SourcesFrom(P, R) /\ Survives(P, R)
SameSubs(P, R) == \A q \in Pid : R[q].sub = P[q].sub

\* A child changes its parent when that one is down, and no process has news.
GoesUp(P, R, q) ==
  /\ P[q].parent \notin Live(R) \/ Down(R[P[q].parent].st)
  /\ R[q].parent \in Live(P) /\ ~Down(P[R[q].parent].st)
Reborn(P, R) ==
  /\ \A q \in Live(R) : q \in Live(P) /\ R[q].born = P[q].born
  /\ \A q \in Live(R) : R[q].parent = P[q].parent \/ GoesUp(P, R, q)
  /\ \A q \in Live(R) : Down(P[q].st) => Down(R[q].st)
Quiet(P, R) == \A q \in Live(R) : Event(R[q]) => Event(P[q])

\* Sources in X have fired.
SourcesBut(P, X) == \A p \in Live(P) : P[p].dsrc \in X \/ SourceAlive(P, P[p].dsrc)

LEMMA SourcesAre == \A P : SourcesAlive(P) <=> SourcesBut(P, {})
  BY DEF SourcesAlive, SourcesBut

LEMMA SameTrimmed ==
  ASSUME NEW P, NEW R, Tree(P), SameRows(P, R) PROVE (\A q \in Pid : Trimmed(P[q], R[q])) /\ Survives(P, R)
<1>1. ASSUME NEW q \in Pid PROVE Trimmed(P[q], R[q])
  BY <1>1 DEF Tree, DeadRecorded, SameRows, SameRow, Trimmed
<1>2. Survives(P, R)
  BY SameSources DEF Survives, SameRows, SameRow, Live
<1> QED BY <1>1, <1>2

LEMMA AliveSource ==
  ASSUME NEW P, Tree(P), NEW p \in Pid, NEW to \in Pid, Adopts(P, p, to)
  PROVE  SourceAlive(P, <<"proc", to>>)
<1> DEFINE d == <<"proc", to>>
<1>1. d[1] = "proc" /\ d[2] = to
  OBVIOUS
<1>2. to # Init1 => to \in Live(P) /\ P[to].st # "exited"
  BY DEF Adopts, Down
<1> HIDE DEF d
<1>3. SourceAlive(P, d)
  BY <1>1, <1>2 DEF SourceAlive
<1> QED BY <1>3 DEF d

LEMMA NoSourceAlive == \A P : SourceAlive(P, NoSource)
  BY DEF SourceAlive, NoSource

\* The sources in X fire and the orphans of p are adopted.
Orphans(P, R, p, X, to) ==
  /\ \A q \in Pid : R[q].parent = IF p # Init1 /\ q \in Live(P) /\ P[q].parent = p THEN to ELSE P[q].parent
  /\ \A q \in Live(R) : \/ R[q].dsrc = NoSource
                        \/ R[q].dsrc = P[q].dsrc /\ P[q].dsrc \notin X
                        \/ R[q].dsrc = <<"proc", to>>

LEMMA Orphaning ==
  ASSUME NEW P, Tree(P), NEW X, SourcesBut(P, X), NEW p \in Pid,
         NEW R, R = reparent_orphans(take_parent_death_notifications(P, X), p)
  PROVE  /\ Table(R) /\ SameRows(P, R) /\ Live(R) = Live(P)
         /\ \E to \in Live(P) : Adopts(P, p, to) /\ Orphans(P, R, p, X, to)
         /\ Trims(P, R)
<1> DEFINE Q == take_parent_death_notifications(P, X)
<1>1. /\ Tree(Q) /\ SameRows(P, Q) /\ Live(Q) = Live(P)
      /\ \A q \in Pid : /\ Q[q].parent = P[q].parent
                        /\ Q[q].dsrc = IF q \in Live(P) /\ P[q].dsrc \in X THEN NoSource ELSE P[q].dsrc
  BY Taken
<1> HIDE DEF Q
<1>2. R = reparent_orphans(Q, p)
  BY DEF Q
<1>3. /\ Tree(R) /\ SameRows(Q, R) /\ Live(R) = Live(Q)
      /\ \E to \in Live(Q) : Adopts(Q, p, to) /\ Adopted(Q, R, p, to)
  BY <1>1, <1>2, Reparented
<1>4. SameRows(P, R)
  BY <1>1, <1>3 DEF SameRows, SameRow
<1>5. PICK to \in Live(P) : Adopts(Q, p, to) /\ Adopted(Q, R, p, to)
  BY <1>1, <1>3
<1>6. Adopts(P, p, to) /\ to \in Pid /\ to # 0
  BY <1>1, <1>5, Consts DEF Adopts, SameRows, SameRow, Live
<1>7. ASSUME NEW q \in Pid
      PROVE  /\ R[q].parent = IF p # Init1 /\ q \in Live(P) /\ P[q].parent = p THEN to ELSE P[q].parent
             /\ \/ R[q].dsrc = NoSource
                \/ R[q].dsrc = P[q].dsrc /\ (q \in Live(P) => P[q].dsrc \notin X)
                \/ R[q].dsrc = <<"proc", to>>
  BY <1>1, <1>5 DEF Adopted
<1>8. Orphans(P, R, p, X, to)
  BY <1>1, <1>3, <1>7 DEF Orphans, Live
<1>9. SourcesAlive(R)
  <2> SUFFICES ASSUME NEW q \in Live(R) PROVE SourceAlive(R, R[q].dsrc)
    BY DEF SourcesAlive
  <2>1. SourceAlive(R, NoSource)
    BY NoSourceAlive
  <2>2. SourceAlive(R, <<"proc", to>>)
    BY <1>1, <1>3, <1>5, <1>6, <1>4, AliveSource DEF Adopts, SameRows, SameRow
  <2>3. q \in Live(P) /\ q \in Pid
    BY <1>1, <1>3 DEF Live
  <2>4. CASE R[q].dsrc = P[q].dsrc /\ P[q].dsrc \notin X
    <3>1. SourceAlive(P, P[q].dsrc)
      BY <2>3, <2>4 DEF SourcesBut
    <3>2. P[q].dsrc \in Source
      BY <2>3 DEF Tree, TableType, ProcessType, Source
    <3>3. P[q].dsrc = NoSource \/ P[q].dsrc[2] \in Pid \cup Task
      BY <3>2 DEF Source
    <3> QED BY <1>4, <2>1, <2>4, <3>1, <3>3, SameSources
  <2> QED BY <1>7, <2>1, <2>2, <2>3, <2>4
<1>10. SourcesFrom(P, R)
  <2>1. ASSUME NEW t \in Task, Waits(R, t) PROVE Waits(P, t)
    <3>1. PICK q \in Live(R) : R[q].dsrc = <<"task", t>>
      BY <2>1 DEF Waits
    <3>2. R[q].dsrc = P[q].dsrc
      BY <1>7, <3>1 DEF NoSource, Live
    <3> QED BY <1>1, <1>3, <3>1, <3>2 DEF Waits
  <2>2. ASSUME NEW f \in Pid, NEW c \in Task, Fresh(P, f, c) PROVE Fresh(R, f, c)
    <3>1. to # f
      BY <1>6, <2>2 DEF Fresh, Adopts
    <3>2. ASSUME NEW q \in Live(R) PROVE R[q].parent # f /\ R[q].dsrc # <<"proc", f>>
      <4>1. q \in Live(P) /\ q \in Pid
        BY <1>1, <1>3 DEF Live
      <4>2. P[q].parent # f /\ P[q].dsrc # <<"proc", f>>
        BY <2>2, <4>1 DEF Fresh
      <4> QED BY <1>7, <3>1, <4>1, <4>2 DEF NoSource
    <3>3. SameRow(P[f], R[f])
      BY <1>4 DEF SameRows
    <3> QED BY <2>2, <3>2, <3>3 DEF Fresh, SameRow
  <2> QED BY <2>1, <2>2 DEF SourcesFrom
<1>11. Trims(P, R)
  BY <1>4, <1>10, SameTrimmed DEF Trims
<1>12. Live(R) = Live(P)
  BY <1>1, <1>3
<1> QED BY <1>3, <1>4, <1>6, <1>8, <1>9, <1>11, <1>12 DEF Table

(***************************************************************************)
(* Transitions that trim one row.                                          *)
(***************************************************************************)
TrimRow(r, q) ==
  /\ Trimmed(r, q) /\ q.members \cap q.tasks \subseteq q.dead /\ q.lead = r.lead
  /\ q.parent = r.parent /\ q.born = r.born /\ q.dsrc = r.dsrc
  /\ q.st # "none" /\ (q.st = "exited" => r.st = "exited")

\* The change of row q of P is none that a task not started would notice.
Unfelt(P, p, q) ==
  \/ \E t \in P[p].tasks : sched[t] # "new"
  \/ q.tasks = P[p].tasks /\ q.sub = P[p].sub /\ q.st \in {"run", "stop"}

LEMMA RowTable ==
  ASSUME NEW P, Table(P), NEW p \in Live(P), NEW r \in ProcessType, TrimRow(P[p], r), Unfelt(P, p, r),
         p = Init1 => r.st \in {"run", "stop"}, NEW R, R = Into(P, p, r)
  PROVE  Table(R) /\ Trims(P, R) /\ Live(R) = Live(P) /\ R[p] = r /\ \A q \in Pid \ {p} : R[q] = P[q]
<1>1. P \in TableType /\ p \in Pid /\ P[p].st # "none"
  BY DEF Table, Tree, Live
<1>2. R \in TableType /\ R[p] = r /\ \A q \in Pid \ {p} : R[q] = P[q]
  BY <1>1, RowInto
<1>3. Live(R) = Live(P)
  BY <1>1, <1>2 DEF Live, TrimRow
<1>4. ASSUME NEW q \in Pid
      PROVE  /\ Trimmed(P[q], R[q]) /\ R[q].members \cap R[q].tasks \subseteq R[q].dead
             /\ R[q].lead = P[q].lead /\ R[q].parent = P[q].parent /\ R[q].dsrc = P[q].dsrc
             /\ (R[q].st = "exited" => P[q].st = "exited")
  <2>1. CASE q = p
    BY <1>2, <2>1 DEF TrimRow
  <2>2. CASE q # p
    <3>1. R[q] = P[q]
      BY <1>2, <2>2
    <3> QED BY <3>1 DEF Table, Tree, DeadRecorded, Trimmed
  <2> QED BY <2>1, <2>2
<1>5. AbsentEmpty(R)
  BY <1>1, <1>2 DEF AbsentEmpty, Table, Tree, TrimRow
<1>6. OneProcess(R)
  BY <1>4 DEF OneProcess, Table, Tree, Trimmed
<1>7. DeadRecorded(R)
  <2> SUFFICES ASSUME NEW q \in Pid
               PROVE  /\ R[q].dead \subseteq R[q].tasks
                      /\ R[q].members \cap R[q].tasks \subseteq R[q].dead
                      /\ (R[q].st = "exited" => R[q].tasks \subseteq R[q].dead)
    BY DEF DeadRecorded
  <2>1. P[q].st = "exited" => P[q].tasks \subseteq P[q].dead
    BY DEF Table, Tree, DeadRecorded
  <2> QED BY <1>4, <2>1 DEF Trimmed
<1>8. ParentsLive(R)
  BY <1>3, <1>4 DEF ParentsLive, Table, Tree, Live
<1>9. InitRuns(R)
  <2>1. R[Init1].st \in {"run", "stop"}
    BY <1>2, Consts DEF Table, Tree, InitRuns
  <2> QED BY <1>4, <2>1, Consts DEF Table, Tree, InitRuns, Trimmed
<1>10. ASSUME NEW d, SourceAlive(P, d), d[1] = "task" \/ d[2] \in Pid \/ d = NoSource PROVE SourceAlive(R, d)
  <2>1. CASE d[1] = "task"
    <3>1. PICK q \in Live(P) : d[2] \in P[q].tasks \ P[q].dead
      BY <1>10, <2>1 DEF SourceAlive
    <3>2. d[2] \in R[q].tasks \ R[q].dead
      BY <1>4, <3>1 DEF Live, Trimmed
    <3> QED BY <1>3, <2>1, <3>1, <3>2 DEF SourceAlive
  <2>2. CASE d[1] # "task"
    BY <1>3, <1>4, <1>10, <2>2 DEF SourceAlive, NoSource
  <2> QED BY <2>1, <2>2
<1>11. SourcesAlive(R)
  <2> SUFFICES ASSUME NEW q \in Live(R) PROVE SourceAlive(R, R[q].dsrc)
    BY DEF SourcesAlive
  <2>1. q \in Live(P) /\ q \in Pid
    BY <1>3 DEF Live
  <2>2. P[q].dsrc \in Source
    BY <2>1, <1>1 DEF TableType, ProcessType, Source
  <2>3. P[q].dsrc[1] = "task" \/ P[q].dsrc[2] \in Pid \/ P[q].dsrc = NoSource
    BY <2>2 DEF Source
  <2>4. SourceAlive(P, P[q].dsrc)
    BY <2>1 DEF Table, SourcesAlive
  <2> QED BY <1>4, <1>10, <2>1, <2>3, <2>4
<1>12. SourcesFrom(P, R)
  <2>1. ASSUME NEW t \in Task, Waits(R, t) PROVE Waits(P, t)
    BY <1>3, <1>4, <2>1 DEF Waits, Live
  <2>2. ASSUME NEW f \in Pid, NEW c \in Task, sched[c] = "new", Fresh(P, f, c) PROVE Fresh(R, f, c)
    <3>1. ASSUME NEW q \in Live(R) PROVE R[q].parent # f /\ R[q].dsrc # <<"proc", f>>
      BY <1>3, <1>4, <2>2 DEF Fresh, Live
    <3>2. R[f].tasks = {c} /\ R[f].dead = {} /\ ~R[f].sub /\ R[f].st \in {"run", "stop"}
      <4>1. CASE f # p
        BY <1>2, <2>2, <4>1 DEF Fresh
      <4>2. CASE f = p
        <5>1. R[f].tasks = P[f].tasks /\ R[f].sub = P[f].sub /\ R[f].st \in {"run", "stop"}
          BY <1>2, <2>2, <4>2 DEF Fresh, Unfelt
        <5> QED BY <1>4, <2>2, <5>1 DEF Fresh, Trimmed
      <4> QED BY <4>1, <4>2
    <3> QED BY <2>2, <3>1, <3>2 DEF Fresh
  <2> QED BY <2>1, <2>2 DEF SourcesFrom
<1>13. Trims(P, R)
  BY <1>3, <1>4, <1>12 DEF Trims, Survives, Live
<1> QED BY <1>2, <1>3, <1>5, <1>6, <1>7, <1>8, <1>9, <1>11, <1>13 DEF Table, Tree

ToTrim(r, T, D, M) == [r EXCEPT !.tasks = T, !.dead = D, !.members = M]
LEMMA RowTrim ==
  ASSUME NEW r \in ProcessType, NEW T \in SUBSET Task, NEW D \in SUBSET Task, NEW M \in SUBSET Task,
         NEW q, q = ToTrim(r, T, D, M)
  PROVE  /\ q \in ProcessType /\ q.st = r.st /\ q.lead = r.lead /\ q.tasks = T /\ q.dead = D
         /\ q.members = M /\ q.sub = r.sub /\ q.parent = r.parent /\ q.born = r.born /\ q.dsrc = r.dsrc
         /\ q.stopw = r.stopw /\ q.contw = r.contw
  BY DEF ProcessType, ToTrim

\* Nothing the steps of other processes look at changes in any row.
Calm(P, R) == SameSubs(P, R) /\ Reborn(P, R) /\ Quiet(P, R)

LEMMA MembersTaken ==
  ASSUME NEW P, Table(P), NEW p \in Live(P), \E t \in P[p].tasks : sched[t] # "new",
         NEW R, R = take_exited_member_tasks(P, p)
  PROVE  /\ Table(R) /\ Trims(P, R) /\ Calm(P, R) /\ Live(R) = Live(P)
         /\ R[p].st = P[p].st /\ R[p].members = {} /\ \A q \in Pid \ {p} : R[q] = P[q]
<1> DEFINE M == P[p].members \ {P[p].lead}
           r == ToTrim(P[p], P[p].tasks \ M, P[p].dead \ M, {})
<1>1. P \in TableType /\ p \in Pid /\ P[p] \in ProcessType /\ P[p].st # "none"
  BY DEF Table, Tree, Live, TableType
<1>2. P[p].members \cap P[p].tasks \subseteq P[p].dead /\ P[p].dead \subseteq P[p].tasks
  BY <1>1 DEF Table, Tree, DeadRecorded
<1>3. R = Into(P, p, r)
  BY <1>1 DEF take_exited_member_tasks, ToTrim, TableType, Into
<1>4. P[p].tasks \in SUBSET Task /\ P[p].dead \in SUBSET Task /\ P[p].members \in SUBSET Task
  BY <1>1 DEF ProcessType
<1> HIDE DEF M
<1>5. /\ r \in ProcessType /\ r.st = P[p].st /\ r.lead = P[p].lead /\ r.tasks = P[p].tasks \ M
      /\ r.dead = P[p].dead \ M /\ r.members = {} /\ r.sub = P[p].sub /\ r.parent = P[p].parent
      /\ r.born = P[p].born /\ r.dsrc = P[p].dsrc /\ r.stopw = P[p].stopw /\ r.contw = P[p].contw
  BY <1>1, <1>4, RowTrim
<1> HIDE DEF r
<1>6. TrimRow(P[p], r)
  <2>1. M \cap P[p].tasks \subseteq P[p].dead
    BY <1>2 DEF M
  <2>2. Trimmed(P[p], r)
    BY <1>2, <1>5, <2>1 DEF Trimmed
  <2> QED BY <1>1, <1>5, <2>2 DEF TrimRow
<1>7. Unfelt(P, p, r)
  BY DEF Unfelt
<1>8. p = Init1 => r.st \in {"run", "stop"}
  BY <1>5 DEF Table, Tree, InitRuns
<1>9. Table(R) /\ Trims(P, R) /\ Live(R) = Live(P) /\ R[p] = r /\ \A q \in Pid \ {p} : R[q] = P[q]
  BY <1>3, <1>5, <1>6, <1>7, <1>8, RowTable
<1>10. Calm(P, R)
  BY <1>5, <1>9 DEF Calm, SameSubs, Reborn, Quiet, Event, Live
<1> QED BY <1>5, <1>9, <1>10

ToOnly(r, t) ==
  [r EXCEPT !.tasks = {t}, !.dead = @ \cap {t}, !.lead = t, !.exec = FALSE, !.st = "run", !.members = {}]
LEMMA RowOnly ==
  ASSUME NEW r \in ProcessType, NEW t \in Task, NEW q, q = ToOnly(r, t)
  PROVE  /\ q \in ProcessType /\ q.st = "run" /\ q.lead = t /\ q.tasks = {t} /\ q.dead = r.dead \cap {t}
         /\ q.members = {} /\ q.sub = r.sub /\ q.parent = r.parent /\ q.born = r.born /\ q.dsrc = r.dsrc
<1>1. "run" \in States /\ {t} \in SUBSET Task /\ {} \in SUBSET Task
  BY DEF States
<1>2. r.dead \cap {t} \in SUBSET Task
  OBVIOUS
<1>3. q \in ProcessType
  BY <1>1, <1>2 DEF ProcessType, ToOnly
<1> QED BY <1>3 DEF ProcessType, ToOnly

LEMMA OnlyOneStays ==
  ASSUME NEW P, Table(P), NEW p \in Live(P), NEW t \in Task, t \in P[p].tasks, t \notin P[p].dead,
         P[p].lead = t, P[p].tasks \ {t} \subseteq P[p].dead, sched[t] # "new",
         NEW R, R = retain_only_task_in_process(P, p, t)
  PROVE  /\ Table(R) /\ Trims(P, R) /\ SameSubs(P, R) /\ Live(R) = Live(P) /\ R[p].tasks = {t}
         /\ \A q \in Pid \ {p} : R[q] = P[q]
<1> DEFINE r == ToOnly(P[p], t)
<1>1. P \in TableType /\ p \in Pid /\ P[p] \in ProcessType /\ P[p].st # "none"
  BY DEF Table, Tree, Live, TableType
<1>2. R = Into(P, p, r)
  BY <1>1 DEF retain_only_task_in_process, ToOnly, TableType, Into
<1>3. /\ r \in ProcessType /\ r.st = "run" /\ r.lead = t /\ r.tasks = {t} /\ r.dead = P[p].dead \cap {t}
      /\ r.members = {} /\ r.sub = P[p].sub /\ r.parent = P[p].parent
      /\ r.born = P[p].born /\ r.dsrc = P[p].dsrc
  BY <1>1, RowOnly
<1> HIDE DEF r
<1>4. TrimRow(P[p], r)
  <2>1. Trimmed(P[p], r)
    BY <1>3 DEF Trimmed
  <2> QED BY <1>3, <2>1 DEF TrimRow
<1>5. Unfelt(P, p, r)
  BY DEF Unfelt
<1>6. Table(R) /\ Trims(P, R) /\ Live(R) = Live(P) /\ R[p] = r /\ \A q \in Pid \ {p} : R[q] = P[q]
  BY <1>2, <1>3, <1>4, <1>5, RowTable
<1>7. SameSubs(P, R)
  BY <1>3, <1>6 DEF SameSubs
<1> QED BY <1>3, <1>6, <1>7

\* A row changes in what is not about tasks, parents and sources.
SoftRow(r, q) ==
  /\ q.lead = r.lead /\ q.tasks = r.tasks /\ q.dead = r.dead /\ q.members = r.members
  /\ q.parent = r.parent /\ q.born = r.born /\ q.dsrc = r.dsrc
  /\ q.st # "none" /\ (q.st = "exited" => r.st = "exited")

LEMMA SoftTable ==
  ASSUME NEW P, Table(P), NEW p \in Live(P), NEW r \in ProcessType, SoftRow(P[p], r), Unfelt(P, p, r),
         p = Init1 => r.st \in {"run", "stop"}, NEW R, R = Into(P, p, r)
  PROVE  Table(R) /\ Trims(P, R) /\ Live(R) = Live(P) /\ R[p] = r /\ \A q \in Pid \ {p} : R[q] = P[q]
<1>1. p \in Pid /\ P[p].members \cap P[p].tasks \subseteq P[p].dead /\ P[p].dead \subseteq P[p].tasks
  BY DEF Table, Tree, DeadRecorded, Live
<1>2. TrimRow(P[p], r)
  BY <1>1 DEF SoftRow, TrimRow, Trimmed
<1> QED BY <1>2, RowTable

-----------------------------------------------------------------------------
(***************************************************************************)
(* A process exits, and leaves.                                            *)
(***************************************************************************)
LEMMA InitIsUp == ASSUME NEW P, Tree(P) PROVE Init1 \in Live(P) /\ Init1 \in Pid /\ ~Down(P[Init1].st)
  BY Consts DEF Tree, InitRuns, Live, Down

LEMMA AdopterUp ==
  ASSUME NEW P, Tree(P), NEW p, NEW to, Adopts(P, p, to) PROVE to \in Live(P) /\ to \in Pid /\ ~Down(P[to].st)
  BY InitIsUp DEF Adopts, Live

LEMMA TrimsTwice ==
  ASSUME NEW P, NEW Q, NEW R, Trims(P, Q), Trims(Q, R) PROVE Trims(P, R)
<1>1. ASSUME NEW q \in Pid PROVE Trimmed(P[q], R[q])
  <2>1. Trimmed(P[q], Q[q]) /\ Trimmed(Q[q], R[q])
    BY DEF Trims
  <2> QED BY <2>1 DEF Trimmed
<1>2. Survives(P, R)
  BY DEF Trims, Survives
<1>3. SourcesFrom(P, R)
  BY DEF Trims, SourcesFrom
<1> QED BY <1>1, <1>2, <1>3 DEF Trims

LEMMA ProcessExits ==
  ASSUME NEW P, Table(P), NEW p \in Live(P), p # Init1, NEW t \in Task, t \in P[p].tasks, t \notin P[p].dead,
         sched[t] # "new", NEW R, R = mark_process_exited(P, p)
  PROVE  /\ Table(R) /\ Trims(P, R) /\ Calm(P, R) /\ Live(R) = Live(P)
         /\ \A q \in Pid : R[q].tasks = P[q].tasks /\ R[q].dead = P[q].dead
<1>1. P \in TableType /\ p \in Pid /\ P[p] \in ProcessType /\ P[p].st # "none" /\ Tree(P)
  BY DEF Table, Tree, Live, TableType
<1>2. CASE Down(P[p].st)
  <2>1. R = P
    BY <1>2 DEF mark_process_exited
  <2>2. Trims(P, P)
    <3>1. SameRows(P, P)
      BY DEF SameRows, SameRow
    <3> QED BY <1>1, <3>1, SameTrimmed DEF Trims, SourcesFrom
  <2>3. Calm(P, P)
    BY DEF Calm, SameSubs, Reborn, Quiet
  <2> QED BY <2>1, <2>2, <2>3
<1>3. CASE ~Down(P[p].st)
  <2> DEFINE X == {<<"task", u>> : u \in P[p].tasks} \cup {<<"proc", p>>}
             Q == reparent_orphans(take_parent_death_notifications(P, X), p)
             r == ToState(Q[p], "exiting")
  <2>1. SourcesBut(P, X)
    BY DEF Table, SourcesAlive, SourcesBut
  <2>2. /\ Table(Q) /\ SameRows(P, Q) /\ Live(Q) = Live(P) /\ Trims(P, Q)
        /\ \E to \in Live(P) : Adopts(P, p, to) /\ Orphans(P, Q, p, X, to)
    <3> HIDE DEF X
    <3> QED BY <1>1, <2>1, Orphaning
  <2>3. R = Into(Q, p, r)
    <3>1. ~ (P[p].tasks \subseteq P[p].dead)
      OBVIOUS
    <3>2. R = [Orphan(P, p, {<<"task", u>> : u \in P[p].tasks}) EXCEPT ![p].st = "exiting"]
      BY <1>3, <3>1 DEF mark_process_exited
    <3>3. Q = Orphan(P, p, {<<"task", u>> : u \in P[p].tasks})
      BY DEF Orphan
    <3>4. Q = [x \in Pid |-> Q[x]]
      BY <2>2 DEF Table, Tree, TableType
    <3> HIDE DEF Q
    <3> QED BY <1>1, <3>2, <3>3, <3>4 DEF Into, ToState
  <2>4. PICK to \in Live(P) : Adopts(P, p, to) /\ Orphans(P, Q, p, X, to)
    BY <2>2
  <2> HIDE DEF Q, X
  <2>5. SameRow(P[p], Q[p]) /\ p \in Live(Q) /\ Q[p] \in ProcessType
    BY <1>1, <2>2 DEF SameRows, Table, Tree, TableType
  <2>6. /\ r \in ProcessType /\ r.st = "exiting" /\ r.lead = Q[p].lead /\ r.tasks = Q[p].tasks
        /\ r.dead = Q[p].dead /\ r.members = Q[p].members /\ r.sub = Q[p].sub /\ r.parent = Q[p].parent
        /\ r.born = Q[p].born /\ r.dsrc = Q[p].dsrc
    BY <2>5, RowState DEF States
  <2> HIDE DEF r
  <2>7. SoftRow(Q[p], r)
    BY <2>6 DEF SoftRow
  <2>8. Unfelt(Q, p, r)
    BY <2>5 DEF Unfelt, SameRow
  <2>9. Table(R) /\ Trims(Q, R) /\ Live(R) = Live(Q) /\ R[p] = r /\ \A q \in Pid \ {p} : R[q] = Q[q]
    BY <2>2, <2>3, <2>5, <2>6, <2>7, <2>8, SoftTable
  <2>10. Trims(P, R)
    BY <2>2, <2>9, TrimsTwice
  <2>11. ASSUME NEW q \in Pid
         PROVE  /\ R[q].tasks = P[q].tasks /\ R[q].dead = P[q].dead /\ R[q].sub = P[q].sub
                /\ R[q].born = P[q].born /\ R[q].parent = Q[q].parent
                /\ IF q = p THEN R[q].st = "exiting"
                   ELSE R[q].st = P[q].st /\ R[q].stopw = P[q].stopw /\ R[q].contw = P[q].contw
    <3>1. SameRow(P[q], Q[q])
      BY <2>2 DEF SameRows
    <3>2. CASE q = p
      BY <2>6, <2>9, <3>1, <3>2 DEF SameRow
    <3>3. CASE q # p
      BY <2>9, <3>1, <3>3 DEF SameRow
    <3> QED BY <3>2, <3>3
  <2>12. SameSubs(P, R)
    BY <2>11 DEF SameSubs
  <2>13. Quiet(P, R)
    BY <2>11 DEF Quiet, Event, Live
  <2>14. Reborn(P, R)
    <3>1. Live(R) = Live(P)
      BY <2>2, <2>9
    <3>2. ASSUME NEW q \in Live(R) PROVE R[q].parent = P[q].parent \/ GoesUp(P, R, q)
      <4>1. q \in Live(P) /\ q \in Pid
        BY <3>1 DEF Live
      <4>2. R[q].parent = IF p # Init1 /\ q \in Live(P) /\ P[q].parent = p THEN to ELSE P[q].parent
        BY <2>4, <2>11, <4>1 DEF Orphans
      <4>3. CASE P[q].parent = p
        <5>1. Down(R[p].st)
          BY <1>1, <2>11 DEF Down
        <5>2. to \in Live(P) /\ ~Down(P[to].st)
          BY <1>1, <2>4, AdopterUp
        <5> QED BY <4>1, <4>2, <4>3, <5>1, <5>2 DEF GoesUp
      <4> QED BY <4>2, <4>3
    <3>3. ASSUME NEW q \in Live(R) PROVE q \in Live(P) /\ R[q].born = P[q].born /\ (Down(P[q].st) => Down(R[q].st))
      <4>1. q \in Live(P) /\ q \in Pid
        BY <3>1 DEF Live
      <4> QED BY <2>11, <4>1 DEF Down
    <3> QED BY <3>2, <3>3 DEF Reborn
  <2>15. Calm(P, R) /\ Live(R) = Live(P)
    BY <2>2, <2>9, <2>12, <2>13, <2>14 DEF Calm
  <2> QED BY <2>9, <2>10, <2>11, <2>15
<1> QED BY <1>2, <1>3

LEMMA AbsentType == Absent \in ProcessType /\ Absent.tasks = {} /\ Absent.dead = {} /\ Absent.members = {}
                    /\ Absent.st = "none" /\ ~Absent.sub
<1>1. NoSource \in {NoSource} \cup ({"task"} \X Task) \cup ({"proc"} \X Pid) /\ "none" \in States
  BY DEF States
<1>2. Absent.tasks = {} /\ Absent.dead = {} /\ Absent.members = {} /\ Absent.st = "none" /\ ~Absent.sub
  BY DEF Absent
<1> QED BY <1>1, <1>2 DEF Absent, ProcessType, NoPid

\* Nobody was told to wait for p, and p is nobody's parent.
Childless(P, p) == \A q \in Live(P) : P[q].parent # p /\ P[q].dsrc # <<"proc", p>>

LEMMA Removed ==
  ASSUME NEW P, Table(P), NEW p \in Live(P), p # Init1, Childless(P, p),
         \A t \in P[p].tasks \ P[p].dead : ~Waits(P, t), NEW R, R = remove_process(P, p)
  PROVE  /\ Table(R) /\ Live(R) = Live(P) \ {p} /\ R[p] = Absent /\ \A q \in Pid \ {p} : R[q] = P[q]
<1>1. P \in TableType /\ p \in Pid /\ P[p].st # "none"
  BY DEF Table, Tree, Live
<1>2. R = Into(P, p, Absent)
  BY DEF remove_process, Into
<1>3. R \in TableType /\ R[p] = Absent /\ \A q \in Pid \ {p} : R[q] = P[q]
  BY <1>1, <1>2, AbsentType, RowInto
<1>4. Live(R) = Live(P) \ {p}
  BY <1>3, AbsentType DEF Live
<1>5. AbsentEmpty(R) /\ OneProcess(R)
  BY <1>3, AbsentType DEF AbsentEmpty, OneProcess, Table, Tree
<1>6. DeadRecorded(R)
  BY <1>3, AbsentType DEF DeadRecorded, Table, Tree
<1>7. ParentsLive(R)
  BY <1>3, <1>4 DEF ParentsLive, Table, Tree, Childless, Live
<1>8. InitRuns(R)
  BY <1>3, Consts DEF InitRuns, Table, Tree
<1>9. SourcesAlive(R)
  <2> SUFFICES ASSUME NEW q \in Live(R) PROVE SourceAlive(R, R[q].dsrc)
    BY DEF SourcesAlive
  <2>1. q \in Live(P) /\ q \in Pid /\ R[q] = P[q]
    BY <1>3, <1>4 DEF Live
  <2> DEFINE d == P[q].dsrc
  <2>2. d \in Source
    BY <1>1, <2>1 DEF TableType, ProcessType, Source
  <2>3. SourceAlive(P, d) /\ d # <<"proc", p>>
    BY <2>1 DEF Table, SourcesAlive, Childless
  <2>4. \A t \in Task : d = <<"task", t>> => Waits(P, t)
    BY <2>1 DEF Waits
  <2> SUFFICES SourceAlive(R, d)
    BY <2>1
  <2> HIDE DEF d
  <2>5. CASE d = NoSource
    BY <2>5, NoSourceAlive
  <2>6. CASE d \in {"task"} \X Task
    <3>1. d[1] = "task" /\ d[2] \in Task /\ d = <<"task", d[2]>>
      BY <2>6
    <3>2. PICK x \in Live(P) : d[2] \in P[x].tasks \ P[x].dead
      BY <2>3, <3>1 DEF SourceAlive
    <3>3. x # p
      BY <2>4, <3>1, <3>2
    <3>4. x \in Live(R) /\ R[x] = P[x]
      BY <1>3, <1>4, <3>3 DEF Live
    <3> QED BY <3>1, <3>2, <3>4 DEF SourceAlive
  <2>7. CASE d \in {"proc"} \X Pid
    <3>1. d[1] = "proc" /\ d[2] \in Pid /\ d[2] # p
      BY <2>3, <2>7
    <3>2. d[2] # Init1 => d[2] \in Live(R) /\ R[d[2]] = P[d[2]] /\ P[d[2]].st # "exited"
      BY <1>3, <1>4, <2>3, <3>1 DEF SourceAlive
    <3> QED BY <3>1, <3>2 DEF SourceAlive
  <2> QED BY <2>2, <2>5, <2>6, <2>7 DEF Source
<1> QED BY <1>3, <1>4, <1>5, <1>6, <1>7, <1>8, <1>9 DEF Table, Tree

LEMMA RemovedQuiet ==
  ASSUME NEW P, NEW R, NEW p, P[p].st = "exited", Live(R) = Live(P) \ {p}, \A q \in Pid \ {p} : R[q] = P[q],
         R[p] = Absent, \A q \in Pid : P[q].dead \subseteq P[q].tasks, P[p].tasks \subseteq P[p].dead, p \in Pid
  PROVE  Trims(P, R)
<1>1. ASSUME NEW q \in Pid PROVE Trimmed(P[q], R[q])
  BY AbsentType DEF Trimmed
<1>2. Survives(P, R)
  BY DEF Survives, Live
<1>3. SourcesFrom(P, R)
  <2>1. ASSUME NEW t \in Task, Waits(R, t) PROVE Waits(P, t)
    BY <2>1 DEF Waits, Live
  <2>2. ASSUME NEW f \in Pid, NEW c \in Task, Fresh(P, f, c) PROVE Fresh(R, f, c)
    <3>1. f # p
      BY <2>2 DEF Fresh
    <3>2. \A q \in Live(R) : q \in Live(P) /\ R[q] = P[q]
      BY DEF Live
    <3> QED BY <2>2, <3>1, <3>2 DEF Fresh
  <2> QED BY <2>1, <2>2 DEF SourcesFrom
<1> QED BY <1>1, <1>2, <1>3 DEF Trims

LEMMA ProcessLeaves ==
  ASSUME NEW P, Table(P), NEW p \in Live(P), p # Init1, P[p].st = "exited",
         NEW R, R = detach_exited_process(P, p)
  PROVE  /\ Table(R) /\ Trims(P, R) /\ Live(R) = Live(P) \ {p} /\ R[p] = Absent
         /\ Reborn(P, R) /\ Quiet(P, R) /\ \A q \in Pid \ {p} : SameRow(P[q], R[q])
<1>1. P \in TableType /\ p \in Pid /\ P[p].st # "none" /\ Tree(P)
  BY DEF Table, Tree, Live
<1> DEFINE Q == reparent_orphans(take_parent_death_notifications(P, {}), p)
<1>2. take_parent_death_notifications(P, {}) = P
  BY <1>1 DEF take_parent_death_notifications, TableType
<1>3. SourcesBut(P, {})
  BY SourcesAre DEF Table
<1>4. /\ Table(Q) /\ SameRows(P, Q) /\ Live(Q) = Live(P) /\ Trims(P, Q)
      /\ \E to \in Live(P) : Adopts(P, p, to) /\ Orphans(P, Q, p, {}, to)
  BY <1>1, <1>3, Orphaning
<1>5. R = remove_process(Q, p)
  BY <1>2 DEF detach_exited_process
<1> HIDE DEF Q
<1>6. PICK to \in Live(P) : Adopts(P, p, to) /\ Orphans(P, Q, p, {}, to)
  BY <1>4
<1>7. to # p /\ ~Down(P[to].st) /\ to \in Pid
  BY <1>1, <1>6, AdopterUp DEF Down
<1>8. Q[p].st = "exited" /\ Q[p].tasks \subseteq Q[p].dead
  BY <1>1, <1>4 DEF SameRows, SameRow, Table, Tree, DeadRecorded
<1>9. Childless(Q, p)
  <2> SUFFICES ASSUME NEW q \in Live(Q) PROVE Q[q].parent # p /\ Q[q].dsrc # <<"proc", p>>
    BY DEF Childless
  <2>1. q \in Live(P) /\ q \in Pid
    BY <1>4 DEF Live
  <2>2. Q[q].parent # p
    BY <1>6, <1>7, <2>1 DEF Orphans
  <2>3. SourceAlive(Q, Q[q].dsrc)
    BY <1>4 DEF Table, SourcesAlive
  <2>4. ~SourceAlive(Q, <<"proc", p>>)
    BY <1>8 DEF SourceAlive
  <2> QED BY <2>2, <2>3, <2>4
<1>10. p \in Live(Q)
  BY <1>4
<1>11. Table(R) /\ Live(R) = Live(Q) \ {p} /\ R[p] = Absent /\ \A q \in Pid \ {p} : R[q] = Q[q]
  BY <1>4, <1>5, <1>8, <1>9, <1>10, Removed
<1>12. Trims(P, R)
  <2>1. \A q \in Pid : Q[q].dead \subseteq Q[q].tasks
    BY <1>4 DEF Table, Tree, DeadRecorded
  <2>2. Trims(Q, R)
    BY <1>1, <1>8, <1>11, <2>1, RemovedQuiet
  <2> QED BY <1>4, <2>2, TrimsTwice
<1>13. Live(R) = Live(P) \ {p} /\ \A q \in Pid \ {p} : SameRow(P[q], R[q])
  BY <1>4, <1>11 DEF SameRows
<1>14. Quiet(P, R)
  BY <1>13 DEF Quiet, SameRow, Event, Live
<1>15. Reborn(P, R)
  <2>1. ASSUME NEW q \in Live(R) PROVE R[q].parent = P[q].parent \/ GoesUp(P, R, q)
    <3>1. q \in Live(P) /\ q \in Pid /\ q # p /\ R[q] = Q[q]
      BY <1>11, <1>13 DEF Live
    <3>2. R[q].parent = IF P[q].parent = p THEN to ELSE P[q].parent
      BY <1>6, <3>1 DEF Orphans
    <3>3. CASE P[q].parent = p
      BY <1>6, <1>7, <1>13, <3>2, <3>3 DEF GoesUp
    <3> QED BY <3>2, <3>3
  <2>2. ASSUME NEW q \in Live(R) PROVE q \in Live(P) /\ R[q].born = P[q].born /\ (Down(P[q].st) => Down(R[q].st))
    BY <1>13 DEF SameRow, Live
  <2> QED BY <2>1, <2>2 DEF Reborn
<1> QED BY <1>11, <1>12, <1>13, <1>14, <1>15

-----------------------------------------------------------------------------
(***************************************************************************)
(* A task of a process is recorded as exited.                              *)
(***************************************************************************)
LEMMA TakenTable ==
  ASSUME NEW P, Table(P), NEW X, NEW R, R = take_parent_death_notifications(P, X)
  PROVE  /\ Table(R) /\ SameRows(P, R) /\ Live(R) = Live(P) /\ Trims(P, R)
         /\ \A q \in Pid : R[q].parent = P[q].parent
         /\ \A q \in Live(R) : R[q].dsrc = NoSource \/ R[q].dsrc \notin X
<1>1. Tree(P) /\ SourcesBut(P, X) /\ Init1 \in Pid
  BY Consts DEF Table, SourcesAlive, SourcesBut
<1>2. R = reparent_orphans(take_parent_death_notifications(P, X), Init1)
  BY DEF reparent_orphans
<1>3. Table(R) /\ SameRows(P, R) /\ Live(R) = Live(P) /\ Trims(P, R)
  <2>1. \A S : S = reparent_orphans(take_parent_death_notifications(P, X), Init1)
               => Table(S) /\ SameRows(P, S) /\ Live(S) = Live(P) /\ Trims(P, S)
    BY <1>1, Orphaning
  <2> QED BY <1>2, <2>1
<1>4. /\ \A q \in Pid : R[q].parent = P[q].parent
      /\ \A q \in Live(R) : R[q].dsrc = NoSource \/ R[q].dsrc \notin X
  BY <1>1, <1>3, Taken DEF Live
<1> QED BY <1>3, <1>4

\* Row p of Q is that of an exit of t.
ExitRow(Q, R, p, t) ==
  /\ R \in TableType /\ \A q \in Pid \ {p} : R[q] = Q[q]
  /\ R[p].tasks = Q[p].tasks /\ R[p].dead = Q[p].dead \cup {t} /\ R[p].lead = Q[p].lead
  /\ R[p].members \subseteq Q[p].members \cup {t} /\ R[p].sub = Q[p].sub /\ R[p].born = Q[p].born
  /\ R[p].parent = Q[p].parent /\ R[p].dsrc = Q[p].dsrc
  /\ R[p].stopw = Q[p].stopw /\ R[p].contw = Q[p].contw
  /\ R[p].st = IF Q[p].tasks \subseteq Q[p].dead \cup {t} THEN "exited" ELSE Q[p].st

LEMMA ExitRecorded ==
  ASSUME NEW Q, Table(Q), NEW p \in Live(Q), NEW t \in Task, t \in Q[p].tasks, ~(p = Init1 /\ t = Init1),
         ~Waits(Q, t), NEW u \in Task, u \in Q[p].tasks, sched[u] # "new",
         NEW R, ExitRow(Q, R, p, t)
  PROVE  /\ Tree(R) /\ Live(R) = Live(Q) /\ SourcesFrom(Q, R) /\ SourcesBut(R, {<<"proc", p>>})
         /\ R[p].st = Q[p].st => Table(R)
<1>1. Q \in TableType /\ p \in Pid /\ Q[p].st # "none"
  BY DEF Table, Tree, Live
<1>2. ASSUME NEW q \in Pid
      PROVE  /\ R[q].tasks = Q[q].tasks /\ R[q].lead = Q[q].lead /\ R[q].parent = Q[q].parent
             /\ R[q].dsrc = Q[q].dsrc /\ R[q].dead = IF q = p THEN Q[q].dead \cup {t} ELSE Q[q].dead
             /\ (R[q].st = "none" <=> Q[q].st = "none")
  BY <1>1 DEF ExitRow
<1>3. Live(R) = Live(Q)
  BY <1>2 DEF Live
<1>4. AbsentEmpty(R) /\ OneProcess(R)
  <2>1. AbsentEmpty(R)
    BY <1>1, <1>2 DEF AbsentEmpty, ExitRow, Table, Tree
  <2>2. OneProcess(R)
    BY <1>2 DEF OneProcess, Table, Tree
  <2> QED BY <2>1, <2>2
<1>5. DeadRecorded(R)
  <2> SUFFICES ASSUME NEW q \in Pid
               PROVE  /\ R[q].dead \subseteq R[q].tasks
                      /\ R[q].members \cap R[q].tasks \subseteq R[q].dead
                      /\ (R[q].st = "exited" => R[q].tasks \subseteq R[q].dead)
    BY DEF DeadRecorded
  <2>1. /\ Q[q].dead \subseteq Q[q].tasks /\ Q[q].members \cap Q[q].tasks \subseteq Q[q].dead
        /\ (Q[q].st = "exited" => Q[q].tasks \subseteq Q[q].dead)
    BY DEF Table, Tree, DeadRecorded
  <2>2. CASE q = p
    BY <1>2, <2>1, <2>2 DEF ExitRow
  <2>3. CASE q # p
    BY <2>1, <2>3 DEF ExitRow
  <2> QED BY <2>2, <2>3
<1>6. ParentsLive(R)
  BY <1>2, <1>3 DEF ParentsLive, Table, Tree, Live
<1>7. InitRuns(R)
  <2>1. Q[Init1].st \in {"run", "stop"} /\ Q[Init1].lead = Init1 /\ Init1 \in Q[Init1].tasks \ Q[Init1].dead
    BY DEF Table, Tree, InitRuns
  <2>2. CASE p = Init1
    BY <1>2, <2>1, <2>2, Consts DEF ExitRow, InitRuns
  <2>3. CASE p # Init1
    <3>1. R[Init1] = Q[Init1]
      BY <2>3, Consts DEF ExitRow
    <3> QED BY <2>1, <3>1 DEF InitRuns
  <2> QED BY <2>2, <2>3
<1>8. Tree(R)
  BY <1>4, <1>5, <1>6, <1>7 DEF Tree, ExitRow
<1>9. SourcesFrom(Q, R)
  <2>1. ASSUME NEW x \in Task, Waits(R, x) PROVE Waits(Q, x)
    BY <1>2, <1>3, <2>1 DEF Waits, Live
  <2>2. ASSUME NEW f \in Pid, NEW c \in Task, sched[c] = "new", Fresh(Q, f, c) PROVE Fresh(R, f, c)
    <3>1. f # p
      BY <2>2 DEF Fresh
    <3>2. R[f] = Q[f]
      BY <3>1 DEF ExitRow
    <3> QED BY <1>2, <1>3, <2>2, <3>2 DEF Fresh, Live
  <2> QED BY <2>1, <2>2 DEF SourcesFrom
<1>10. ASSUME NEW q \in Live(R), R[q].dsrc # <<"proc", p>> \/ R[p].st = Q[p].st
       PROVE  SourceAlive(R, R[q].dsrc)
  <2>1. q \in Live(Q) /\ q \in Pid
    BY <1>3 DEF Live
  <2> DEFINE d == Q[q].dsrc
  <2>2. d \in Source /\ d = R[q].dsrc
    BY <1>1, <1>2, <2>1 DEF TableType, ProcessType, Source
  <2>3. SourceAlive(Q, d)
    BY <2>1 DEF Table, SourcesAlive
  <2>4. \A x \in Task : d = <<"task", x>> => Waits(Q, x)
    BY <2>1 DEF Waits
  <2> SUFFICES SourceAlive(R, d)
    BY <2>2
  <2>5. d # <<"proc", p>> \/ R[p].st = Q[p].st
    BY <1>10, <2>2
  <2> HIDE DEF d
  <2>6. CASE d = NoSource
    BY <2>6, NoSourceAlive
  <2>7. CASE d \in {"task"} \X Task
    <3>1. d[1] = "task" /\ d[2] \in Task /\ d = <<"task", d[2]>>
      BY <2>7
    <3>2. PICK x \in Live(Q) : d[2] \in Q[x].tasks \ Q[x].dead
      BY <2>3, <3>1 DEF SourceAlive
    <3>3. d[2] # t
      BY <2>4, <3>1
    <3>4. x \in Live(R) /\ d[2] \in R[x].tasks \ R[x].dead
      BY <1>2, <1>3, <3>2, <3>3 DEF Live
    <3> QED BY <3>1, <3>4 DEF SourceAlive
  <2>8. CASE d \in {"proc"} \X Pid
    <3>1. d[1] = "proc" /\ d[2] \in Pid /\ d = <<"proc", d[2]>>
      BY <2>8
    <3>2. R[d[2]].st = Q[d[2]].st
      <4>1. CASE d[2] = p
        BY <2>5, <3>1, <4>1
      <4>2. CASE d[2] # p
        BY <3>1, <4>2 DEF ExitRow
      <4> QED BY <4>1, <4>2
    <3> QED BY <1>3, <2>3, <3>1, <3>2 DEF SourceAlive
  <2> QED BY <2>2, <2>6, <2>7, <2>8 DEF Source
<1>11. SourcesBut(R, {<<"proc", p>>})
  BY <1>10 DEF SourcesBut
<1>12. R[p].st = Q[p].st => Table(R)
  BY <1>8, <1>10 DEF Table, SourcesAlive
<1> QED BY <1>3, <1>8, <1>9, <1>11, <1>12

\* t is dead in p; the rest of the table keeps its tasks.
Died(P, R, p, t) ==
  \A q \in Pid : /\ R[q].tasks = P[q].tasks /\ R[q].lead = P[q].lead
                 /\ R[q].dead = IF q = p THEN P[q].dead \cup {t} ELSE P[q].dead

LEMMA TaskExits ==
  ASSUME NEW P, Table(P), NEW p \in Live(P), NEW t \in Task, t \in P[p].tasks, ~(p = Init1 /\ t = Init1),
         NEW u \in Task, u \in P[p].tasks, sched[u] # "new", NEW R, R = mark_task_exited(P, p, t)
  PROVE  /\ Table(R) /\ Live(R) = Live(P) /\ Died(P, R, p, t) /\ SourcesFrom(P, R) /\ ~Waits(R, t)
         /\ SameSubs(P, R) /\ Reborn(P, R)
         /\ \A q \in Live(R) : q # p \/ R[p].st = P[p].st => (Event(R[q]) => Event(P[q]))
         /\ R[p].st = P[p].st \/ R[p].st = "exited"
<1> DEFINE Q == take_parent_death_notifications(P, {<<"task", t>>})
           all == Q[p].tasks \subseteq Q[p].dead \cup {t}
           M == IF t # Q[p].lead /\ t \notin Q[p].dead THEN Q[p].members \cup {t} ELSE Q[p].members
           s == IF all THEN "exited" ELSE Q[p].st
           r == ToExit(Q[p], Q[p].dead \cup {t}, M, s)
           S == Into(Q, p, r)
<1>1. P \in TableType /\ p \in Pid /\ P[p].st # "none"
  BY DEF Table, Tree, Live
<1>2. /\ Table(Q) /\ SameRows(P, Q) /\ Live(Q) = Live(P) /\ Trims(P, Q)
      /\ \A q \in Pid : Q[q].parent = P[q].parent
      /\ \A q \in Live(Q) : Q[q].dsrc = NoSource \/ Q[q].dsrc \notin {<<"task", t>>}
  BY TakenTable
<1>3. R = IF all /\ Q[p].st # "exited" THEN Orphan(S, p, {}) ELSE S
  <2>1. Q \in TableType
    BY <1>2 DEF Table, Tree
  <2>2. [Q EXCEPT ![p].dead = Q[p].dead \cup {t},
                  ![p].members = IF t # Q[p].lead /\ t \notin Q[p].dead THEN @ \cup {t} ELSE @,
                  ![p].st = IF all THEN "exited" ELSE @] = S
    <3> HIDE DEF Q
    <3> QED BY <1>1, <2>1 DEF TableType, ToExit, Into
  <2> DEFINE V == [Q EXCEPT ![p].dead = Q[p].dead \cup {t},
                  ![p].members = IF t # Q[p].lead /\ t \notin Q[p].dead THEN @ \cup {t} ELSE @,
                  ![p].st = IF all THEN "exited" ELSE @]
  <2>3. R = IF all /\ Q[p].st # "exited" THEN Orphan(V, p, {}) ELSE V
    BY DEF mark_task_exited
  <2>4. V = S
    BY <2>2
  <2> HIDE DEF V, S, all, Q
  <2> QED BY <2>3, <2>4
<1> HIDE DEF Q
<1>4. Q[p] \in ProcessType /\ Q \in TableType
  BY <1>1, <1>2 DEF Table, Tree, TableType
<1>5. Q[p].dead \cup {t} \in SUBSET Task /\ M \in SUBSET Task /\ s \in States /\ M \subseteq Q[p].members \cup {t}
  BY <1>4 DEF ProcessType, States
<1> HIDE DEF M
<1>6. ExitRow(Q, S, p, t)
  <2>1. s = IF Q[p].tasks \subseteq Q[p].dead \cup {t} THEN "exited" ELSE Q[p].st
    OBVIOUS
  <2> HIDE DEF s
  <2>2. /\ r \in ProcessType /\ r.st = s /\ r.lead = Q[p].lead /\ r.tasks = Q[p].tasks
        /\ r.dead = Q[p].dead \cup {t}
        /\ r.members = M /\ r.sub = Q[p].sub /\ r.parent = Q[p].parent /\ r.born = Q[p].born
        /\ r.dsrc = Q[p].dsrc /\ r.stopw = Q[p].stopw /\ r.contw = Q[p].contw
    BY <1>4, <1>5, RowExit
  <2> HIDE DEF r
  <2>3. S \in TableType /\ S[p] = r /\ \A q \in Pid \ {p} : S[q] = Q[q]
    BY <1>1, <1>4, <2>2, RowInto
  <2> QED BY <1>5, <2>1, <2>2, <2>3 DEF ExitRow
<1> HIDE DEF S
<1>7. ~Waits(Q, t)
  <2>1. <<"task", t>> # NoSource
    BY DEF NoSource
  <2> QED BY <1>2, <2>1 DEF Waits
<1>8. t \in Q[p].tasks /\ u \in Q[p].tasks /\ p \in Live(Q)
  BY <1>1, <1>2 DEF SameRows, SameRow
<1>9. /\ Tree(S) /\ Live(S) = Live(Q) /\ SourcesFrom(Q, S) /\ SourcesBut(S, {<<"proc", p>>})
      /\ S[p].st = Q[p].st => Table(S)
  BY <1>2, <1>6, <1>7, <1>8, ExitRecorded
<1>10. ASSUME NEW q \in Pid
       PROVE  /\ S[q].tasks = P[q].tasks /\ S[q].lead = P[q].lead /\ S[q].sub = P[q].sub
              /\ S[q].dead = (IF q = p THEN P[q].dead \cup {t} ELSE P[q].dead)
              /\ S[q].born = P[q].born /\ S[q].parent = P[q].parent
              /\ S[q].stopw = P[q].stopw /\ S[q].contw = P[q].contw
              /\ S[q].st = (IF q = p /\ all THEN "exited" ELSE P[q].st)
  <2>1. SameRow(P[q], Q[q]) /\ Q[q].parent = P[q].parent
    BY <1>2 DEF SameRows
  <2>2. CASE q = p
    BY <1>6, <2>1, <2>2 DEF ExitRow, SameRow
  <2>3. CASE q # p
    BY <1>6, <2>1, <2>3 DEF ExitRow, SameRow
  <2> QED BY <2>2, <2>3
<1>11. SourcesFrom(P, S)
  BY <1>2, <1>9 DEF SourcesFrom, Trims
<1>12. Q[p].st = P[p].st
  BY <1>1, <1>2 DEF SameRows, SameRow
<1>13. CASE ~(all /\ Q[p].st # "exited")
  <2>1. R = S
    BY <1>3, <1>13
  <2>2. S[p].st = P[p].st
    BY <1>1, <1>10, <1>12, <1>13
  <2>3. \A q \in Pid : S[q].st = P[q].st
    BY <1>10, <2>2
  <2>4. Table(R) /\ Live(R) = Live(P)
    BY <1>2, <1>9, <1>12, <2>1, <2>2
  <2>5. Died(P, R, p, t) /\ SameSubs(P, R)
    BY <1>10, <2>1 DEF Died, SameSubs
  <2>6. ~Waits(R, t)
    BY <1>7, <1>9, <2>1 DEF SourcesFrom
  <2>7. Reborn(P, R)
    BY <1>10, <2>1, <2>3, <2>4 DEF Reborn, Live
  <2>8. ASSUME NEW q \in Live(R), Event(R[q]) PROVE Event(P[q])
    <3>1. q \in Pid
      BY DEF Live
    <3>2. S[q].st = P[q].st /\ S[q].stopw = P[q].stopw /\ S[q].contw = P[q].contw
      BY <1>10, <2>3, <3>1
    <3> QED BY <2>1, <2>8, <3>2 DEF Event
  <2> QED BY <1>11, <2>1, <2>2, <2>4, <2>5, <2>6, <2>7, <2>8
<1>14. CASE all /\ Q[p].st # "exited"
  <2>1. R = reparent_orphans(take_parent_death_notifications(S, {<<"proc", p>>}), p)
    <3>1. {} \cup {<<"proc", p>>} = {<<"proc", p>>}
      OBVIOUS
    <3> QED BY <1>3, <1>14, <3>1 DEF Orphan
  <2>2. /\ Table(R) /\ SameRows(S, R) /\ Live(R) = Live(S) /\ Trims(S, R)
        /\ \E to \in Live(S) : Adopts(S, p, to) /\ Orphans(S, R, p, {<<"proc", p>>}, to)
    <3>1. \A T : T = reparent_orphans(take_parent_death_notifications(S, {<<"proc", p>>}), p) =>
            /\ Table(T) /\ SameRows(S, T) /\ Live(T) = Live(S) /\ Trims(S, T)
            /\ \E to \in Live(S) : Adopts(S, p, to) /\ Orphans(S, T, p, {<<"proc", p>>}, to)
      BY <1>1, <1>9, Orphaning
    <3> QED BY <2>1, <3>1
  <2>3. PICK to \in Live(S) : Adopts(S, p, to) /\ Orphans(S, R, p, {<<"proc", p>>}, to)
    BY <2>2
  <2>4. S[p].st = "exited"
    BY <1>1, <1>10, <1>14
  <2>5. to # p /\ to \in Live(P) /\ to \in Pid /\ ~Down(P[to].st)
    <3>1. to \in Pid /\ ~Down(S[to].st)
      BY <1>9, <2>3, AdopterUp
    <3>2. to # p
      BY <2>4, <3>1 DEF Down
    <3> QED BY <1>2, <1>9, <1>10, <2>3, <3>1, <3>2
  <2>6. Live(R) = Live(P)
    BY <1>2, <1>9, <2>2
  <2>7. ASSUME NEW q \in Pid
        PROVE  /\ R[q].tasks = P[q].tasks /\ R[q].lead = P[q].lead /\ R[q].sub = P[q].sub
               /\ R[q].dead = (IF q = p THEN P[q].dead \cup {t} ELSE P[q].dead)
               /\ R[q].born = P[q].born /\ R[q].stopw = P[q].stopw /\ R[q].contw = P[q].contw
               /\ R[q].st = (IF q = p THEN "exited" ELSE P[q].st)
    <3>1. SameRow(S[q], R[q])
      BY <2>2 DEF SameRows
    <3> QED BY <1>10, <1>14, <3>1 DEF SameRow
  <2>8. Died(P, R, p, t) /\ SameSubs(P, R)
    BY <2>7 DEF Died, SameSubs
  <2>9. SourcesFrom(P, R)
    BY <1>11, <2>2 DEF SourcesFrom, Trims
  <2>10. ~Waits(R, t)
    BY <1>7, <1>9, <2>2 DEF SourcesFrom, Trims
  <2>11. Reborn(P, R)
    <3>1. ASSUME NEW q \in Live(R) PROVE R[q].parent = P[q].parent \/ GoesUp(P, R, q)
      <4>1. q \in Live(P) /\ q \in Pid /\ q \in Live(S)
        BY <1>2, <1>9, <2>6 DEF Live
      <4>2. R[q].parent = IF p # Init1 /\ P[q].parent = p THEN to ELSE P[q].parent
        <5>1. S[q].parent = P[q].parent
          BY <1>10, <4>1
        <5> QED BY <2>3, <4>1, <5>1 DEF Orphans
      <4>3. CASE P[q].parent = p
        <5>1. Down(R[p].st)
          BY <1>1, <2>7 DEF Down
        <5> QED BY <2>5, <4>1, <4>2, <4>3, <5>1 DEF GoesUp
      <4> QED BY <4>2, <4>3
    <3>2. ASSUME NEW q \in Live(R) PROVE q \in Live(P) /\ R[q].born = P[q].born /\ (Down(P[q].st) => Down(R[q].st))
      <4>1. q \in Live(P) /\ q \in Pid
        BY <2>6 DEF Live
      <4> QED BY <2>7, <4>1 DEF Down
    <3> QED BY <3>1, <3>2 DEF Reborn
  <2>12. R[p].st = "exited" /\ R[p].st # P[p].st
    BY <1>1, <1>12, <1>14, <2>7
  <2>13. \A q \in Live(R) : q # p => (Event(R[q]) => Event(P[q]))
    BY <2>7 DEF Live, Event
  <2> QED BY <2>2, <2>6, <2>8, <2>9, <2>10, <2>11, <2>12, <2>13
<1> QED BY <1>13, <1>14

-----------------------------------------------------------------------------
(***************************************************************************)
(* Processes and threads are created, and taken back.                      *)
(***************************************************************************)
NewRow(r, a, t, c) ==
  /\ r \in ProcessType /\ r.st = "run" /\ r.parent = a /\ r.born = a /\ r.lead = c /\ r.tasks = {c}
  /\ r.dead = {} /\ r.members = {} /\ ~r.sub /\ r.dsrc = <<"task", t>> /\ ~r.stopw /\ ~r.contw

LEMMA CreatedRow ==
  ASSUME proc \in TableType, NEW n \in Pid, NEW src \in Pid, NEW a \in Pid, NEW t \in Task, NEW c \in Task
  PROVE  NewRow(create_process_like_fork_with_parent(n, src, a, t, c), a, t, c)
<1> DEFINE g == proc[src].pgid
           s == proc[src].sid
           r == create_process_like_fork_with_parent(n, src, a, t, c)
<1>1. g \in Pid \cup {NoPid} /\ s \in Pid \cup {NoPid}
  BY DEF TableType, ProcessType
<1>2. a # NoPid /\ a \in Pid \cup {NoPid}
  BY Consts DEF NoPid
<1>3. r = [st |-> "run", parent |-> a, born |-> a, lead |-> c, tasks |-> {c}, dead |-> {}, members |-> {},
           exec |-> FALSE, sub |-> FALSE, dsig |-> FALSE, dsrc |-> <<"task", t>>,
           stopw |-> FALSE, contw |-> FALSE, pgid |-> g, sid |-> s]
  <2> HIDE DEF g, s
  <2>1. r = [create_process_for_task(c, n, a) EXCEPT !.pgid = g, !.sid = s, !.dsrc = <<"task", t>>]
    BY DEF create_process_like_fork_with_parent, g, s
  <2>2. create_process_for_task(c, n, a) =
          [st |-> "run", parent |-> a, born |-> a, lead |-> c, tasks |-> {c}, dead |-> {}, members |-> {},
           exec |-> FALSE, sub |-> FALSE, dsig |-> FALSE, dsrc |-> <<"proc", a>>,
           stopw |-> FALSE, contw |-> FALSE, pgid |-> n, sid |-> NoPid]
    <3>1. (IF a = NoPid THEN NoSource ELSE <<"proc", a>>) = <<"proc", a>>
          /\ (IF a = NoPid THEN n ELSE NoPid) = NoPid
      BY <1>2
    <3>2. create_process_for_task(c, n, a) =
            [Absent EXCEPT !.st = "run", !.parent = a, !.born = a, !.lead = c, !.tasks = {c}, !.pgid = n,
                           !.dsrc = <<"proc", a>>, !.sid = NoPid]
      BY <3>1 DEF create_process_for_task
    <3> QED BY <3>2 DEF Absent
  <2> DEFINE b == [st |-> "run", parent |-> a, born |-> a, lead |-> c, tasks |-> {c}, dead |-> {}, members |-> {},
                   exec |-> FALSE, sub |-> FALSE, dsig |-> FALSE, dsrc |-> <<"proc", a>>,
                   stopw |-> FALSE, contw |-> FALSE, pgid |-> n, sid |-> NoPid]
  <2>3. r = [b EXCEPT !.pgid = g, !.sid = s, !.dsrc = <<"task", t>>]
    BY <2>1, <2>2
  <2> HIDE DEF r
  <2> QED BY <2>3
<1>4. <<"task", t>> \in Source /\ "run" \in States /\ {c} \in SUBSET Task /\ {} \in SUBSET Task
  BY DEF Source, States
<1> HIDE DEF g, s, r
<1>5. r \in ProcessType
  BY <1>1, <1>2, <1>3, <1>4 DEF ProcessType, Source
<1>6. /\ r.st = "run" /\ r.parent = a /\ r.born = a /\ r.lead = c /\ r.tasks = {c}
      /\ r.dead = {} /\ r.members = {} /\ ~r.sub /\ r.dsrc = <<"task", t>> /\ ~r.stopw /\ ~r.contw
  BY <1>3
<1> QED BY <1>5, <1>6 DEF NewRow, r

\* Sources in other rows stay alive when rows gain tasks.
LEMMA SourceGrows ==
  ASSUME NEW P, NEW R, Live(P) \subseteq Live(R), NEW d, SourceAlive(P, d), d \in Source,
         \A q \in Live(P) : /\ (d[1] = "task" /\ d[2] \in P[q].tasks \ P[q].dead) => d[2] \in R[q].tasks \ R[q].dead
                            /\ R[q].st = P[q].st
  PROVE  SourceAlive(R, d)
<1>1. CASE d = NoSource
  BY <1>1, NoSourceAlive
<1>2. CASE d[1] = "task"
  <2>1. PICK q \in Live(P) : d[2] \in P[q].tasks \ P[q].dead
    BY <1>2 DEF SourceAlive
  <2>2. d[2] \in R[q].tasks \ R[q].dead /\ q \in Live(R)
    BY <1>2, <2>1
  <2> QED BY <1>2, <2>2 DEF SourceAlive
<1>3. CASE d \in {"proc"} \X Pid
  BY <1>3 DEF SourceAlive
<1> QED BY <1>1, <1>2, <1>3 DEF Source

LEMMA SourceTyped ==
  ASSUME NEW P, Table(P), NEW q \in Live(P)
  PROVE  P[q].dsrc \in Source /\ SourceAlive(P, P[q].dsrc) /\ q \in Pid
  BY DEF Table, Tree, TableType, ProcessType, Source, SourcesAlive, Live

LEMMA ProcessCreated ==
  ASSUME NEW P, Table(P), NEW n \in Pid, n \notin Live(P), NEW r, NEW a \in Live(P), NEW t \in Task, NEW c \in Task,
         NewRow(r, a, t, c), NEW m \in Live(P), t \in P[m].tasks \ P[m].dead, ~Listed(P, c),
         NEW R, R = Into(P, n, r)
  PROVE  /\ Table(R) /\ Live(R) = Live(P) \cup {n} /\ R[n] = r /\ \A q \in Pid \ {n} : R[q] = P[q]
         /\ \A q \in Live(P) : P[q].parent # n /\ P[q].dsrc # <<"proc", n>>
<1>1. P \in TableType /\ r \in ProcessType
  BY DEF Table, Tree, NewRow
<1>2. R \in TableType /\ R[n] = r /\ \A q \in Pid \ {n} : R[q] = P[q]
  BY <1>1, RowInto
<1>3. Live(R) = Live(P) \cup {n}
  BY <1>2 DEF Live, NewRow
<1>4. \A q \in Live(P) : q # n /\ q \in Pid /\ R[q] = P[q]
  BY <1>2 DEF Live
<1>5. n # Init1
  BY InitIsUp DEF Table
<1>6. AbsentEmpty(R)
  BY <1>2 DEF AbsentEmpty, NewRow, Table, Tree
<1>7. OneProcess(R)
  BY <1>2 DEF OneProcess, NewRow, Table, Tree, Listed
<1>8. DeadRecorded(R)
  BY <1>2 DEF DeadRecorded, NewRow, Table, Tree
<1>9. ParentsLive(R)
  BY <1>2, <1>3, <1>4, <1>5 DEF ParentsLive, NewRow, Table, Tree
<1>10. InitRuns(R)
  BY <1>2, <1>5, Consts DEF InitRuns, Table, Tree
<1>11. SourcesAlive(R)
  <2> SUFFICES ASSUME NEW q \in Live(R) PROVE SourceAlive(R, R[q].dsrc)
    BY DEF SourcesAlive
  <2>1. CASE q = n
    <3> DEFINE d == <<"task", t>>
    <3>1. d = R[q].dsrc /\ d[1] = "task" /\ d[2] = t
      BY <1>2, <2>1 DEF NewRow
    <3>2. m \in Live(R) /\ t \in R[m].tasks \ R[m].dead
      BY <1>3, <1>4
    <3> HIDE DEF d
    <3>3. SourceAlive(R, d)
      BY <3>1, <3>2 DEF SourceAlive
    <3> QED BY <3>1, <3>3
  <2>2. CASE q # n
    <3>1. q \in Live(P) /\ R[q] = P[q]
      BY <1>3, <1>4, <2>2
    <3>2. P[q].dsrc \in Source /\ SourceAlive(P, P[q].dsrc)
      BY <3>1, SourceTyped
    <3>3. SourceAlive(R, P[q].dsrc)
      BY <1>3, <1>4, <3>2, SourceGrows
    <3> QED BY <3>1, <3>3
  <2> QED BY <2>1, <2>2
<1>12. ASSUME NEW q \in Live(P) PROVE P[q].parent # n /\ P[q].dsrc # <<"proc", n>>
  <2>1. P[q].parent # n
    BY Consts DEF Table, Tree, ParentsLive, NoPid
  <2>2. SourceAlive(P, P[q].dsrc)
    BY SourceTyped
  <2>3. ~SourceAlive(P, <<"proc", n>>)
    BY <1>5 DEF SourceAlive
  <2> QED BY <2>1, <2>2, <2>3
<1> QED BY <1>2, <1>3, <1>6, <1>7, <1>8, <1>9, <1>10, <1>11, <1>12 DEF Table, Tree

ToTasks(r, T, D) == [r EXCEPT !.tasks = T, !.dead = D]
LEMMA RowTasks ==
  ASSUME NEW r \in ProcessType, NEW T \in SUBSET Task, NEW D \in SUBSET Task, NEW q, q = ToTasks(r, T, D)
  PROVE  /\ q \in ProcessType /\ q.st = r.st /\ q.lead = r.lead /\ q.tasks = T /\ q.dead = D
         /\ q.members = r.members /\ q.sub = r.sub /\ q.parent = r.parent /\ q.born = r.born /\ q.dsrc = r.dsrc
         /\ q.stopw = r.stopw /\ q.contw = r.contw
  BY DEF ProcessType, ToTasks

\* A thread that has not run enters or leaves p.
ThreadRow(P, R, p) ==
  /\ R \in TableType /\ \A q \in Pid \ {p} : R[q] = P[q]
  /\ R[p].st = P[p].st /\ R[p].lead = P[p].lead /\ R[p].members = P[p].members /\ R[p].sub = P[p].sub
  /\ R[p].parent = P[p].parent /\ R[p].born = P[p].born /\ R[p].dsrc = P[p].dsrc
  /\ R[p].stopw = P[p].stopw /\ R[p].contw = P[p].contw

ThreadIn(P, R, p, c) ==
  /\ ThreadRow(P, R, p) /\ R[p].tasks = P[p].tasks \cup {c} /\ R[p].dead = P[p].dead
ThreadOut(P, R, p, c) ==
  /\ ThreadRow(P, R, p) /\ R[p].tasks = P[p].tasks \ {c} /\ R[p].dead = P[p].dead \ {c}

LEMMA ThreadCalm ==
  ASSUME NEW P, NEW R, NEW p \in Pid, ThreadRow(P, R, p)
  PROVE  /\ Live(R) = Live(P) /\ Calm(P, R)
         /\ \A q \in Pid : /\ R[q].parent = P[q].parent /\ R[q].dsrc = P[q].dsrc /\ R[q].lead = P[q].lead
                           /\ R[q].st = P[q].st /\ R[q].members = P[q].members /\ R[q].sub = P[q].sub
<1>1. ASSUME NEW q \in Pid
      PROVE  /\ R[q].parent = P[q].parent /\ R[q].dsrc = P[q].dsrc /\ R[q].lead = P[q].lead
             /\ R[q].st = P[q].st /\ R[q].members = P[q].members /\ R[q].sub = P[q].sub
             /\ R[q].born = P[q].born /\ R[q].stopw = P[q].stopw /\ R[q].contw = P[q].contw
  BY DEF ThreadRow
<1>2. Live(R) = Live(P)
  BY <1>1 DEF Live
<1>3. Calm(P, R)
  BY <1>1, <1>2 DEF Calm, SameSubs, Reborn, Quiet, Event, Live
<1> QED BY <1>1, <1>2, <1>3

LEMMA ThreadAdded ==
  ASSUME NEW P, Table(P), NEW p \in Live(P), P[p].st # "exited", NEW c \in Task, ~Listed(P, c),
         ~(c \in P[p].members), NEW R, ThreadIn(P, R, p, c)
  PROVE  Table(R)
<1>1. P \in TableType /\ p \in Pid /\ ThreadRow(P, R, p) /\ R \in TableType
  BY DEF Table, Tree, Live, ThreadIn, ThreadRow
<1>2. /\ Live(R) = Live(P)
      /\ \A q \in Pid : /\ R[q].parent = P[q].parent /\ R[q].dsrc = P[q].dsrc /\ R[q].lead = P[q].lead
                        /\ R[q].st = P[q].st /\ R[q].members = P[q].members /\ R[q].sub = P[q].sub
  BY <1>1, ThreadCalm
<1>3. \A q \in Pid : q # p => R[q].tasks = P[q].tasks /\ R[q].dead = P[q].dead
  BY <1>1 DEF ThreadRow
<1>4. R[p].tasks = P[p].tasks \cup {c} /\ R[p].dead = P[p].dead
  BY DEF ThreadIn
<1>5. AbsentEmpty(R)
  BY <1>1, <1>2 DEF AbsentEmpty, Table, Tree, ThreadRow, Live
<1>6. OneProcess(R)
  BY <1>3, <1>4 DEF OneProcess, Table, Tree, Listed
<1>7. DeadRecorded(R)
  <2> SUFFICES ASSUME NEW q \in Pid
               PROVE  /\ R[q].dead \subseteq R[q].tasks
                      /\ R[q].members \cap R[q].tasks \subseteq R[q].dead
                      /\ (R[q].st = "exited" => R[q].tasks \subseteq R[q].dead)
    BY DEF DeadRecorded
  <2>1. /\ P[q].dead \subseteq P[q].tasks /\ P[q].members \cap P[q].tasks \subseteq P[q].dead
        /\ (P[q].st = "exited" => P[q].tasks \subseteq P[q].dead)
    BY DEF Table, Tree, DeadRecorded
  <2>2. CASE q = p
    BY <1>2, <1>4, <2>1, <2>2
  <2>3. CASE q # p
    BY <1>2, <1>3, <2>1, <2>3
  <2> QED BY <2>2, <2>3
<1>8. ParentsLive(R)
  BY <1>2 DEF ParentsLive, Table, Tree, Live
<1>9. InitRuns(R)
  BY <1>2, <1>3, <1>4, Consts DEF InitRuns, Table, Tree
<1>10. SourcesAlive(R)
  <2> SUFFICES ASSUME NEW q \in Live(R) PROVE SourceAlive(R, R[q].dsrc)
    BY DEF SourcesAlive
  <2>1. q \in Live(P) /\ q \in Pid /\ R[q].dsrc = P[q].dsrc
    BY <1>2 DEF Live
  <2>2. P[q].dsrc \in Source /\ SourceAlive(P, P[q].dsrc)
    BY <2>1, SourceTyped
  <2>3. \A x \in Live(P) : x \in Pid /\ P[x].tasks \ P[x].dead \subseteq R[x].tasks \ R[x].dead
    BY <1>3, <1>4 DEF Live
  <2>4. SourceAlive(R, P[q].dsrc)
    BY <1>2, <2>2, <2>3, SourceGrows
  <2> QED BY <2>1, <2>4
<1> QED BY <1>1, <1>5, <1>6, <1>7, <1>8, <1>9, <1>10 DEF Table, Tree

LEMMA ThreadDropped ==
  ASSUME NEW P, Table(P), NEW p \in Live(P), NEW c \in Task, c # Init1, ~Waits(P, c),
         NEW R, ThreadOut(P, R, p, c)
  PROVE  Table(R)
<1>1. P \in TableType /\ p \in Pid /\ ThreadRow(P, R, p) /\ R \in TableType
  BY DEF Table, Tree, Live, ThreadOut, ThreadRow
<1>2. /\ Live(R) = Live(P)
      /\ \A q \in Pid : /\ R[q].parent = P[q].parent /\ R[q].dsrc = P[q].dsrc /\ R[q].lead = P[q].lead
                        /\ R[q].st = P[q].st /\ R[q].members = P[q].members /\ R[q].sub = P[q].sub
  BY <1>1, ThreadCalm
<1>3. \A q \in Pid : q # p => R[q].tasks = P[q].tasks /\ R[q].dead = P[q].dead
  BY <1>1 DEF ThreadRow
<1>4. R[p].tasks = P[p].tasks \ {c} /\ R[p].dead = P[p].dead \ {c}
  BY DEF ThreadOut
<1>5. AbsentEmpty(R)
  BY <1>1, <1>2 DEF AbsentEmpty, Table, Tree, ThreadRow, Live
<1>6. OneProcess(R)
  BY <1>3, <1>4 DEF OneProcess, Table, Tree
<1>7. DeadRecorded(R)
  <2> SUFFICES ASSUME NEW q \in Pid
               PROVE  /\ R[q].dead \subseteq R[q].tasks
                      /\ R[q].members \cap R[q].tasks \subseteq R[q].dead
                      /\ (R[q].st = "exited" => R[q].tasks \subseteq R[q].dead)
    BY DEF DeadRecorded
  <2>1. /\ P[q].dead \subseteq P[q].tasks /\ P[q].members \cap P[q].tasks \subseteq P[q].dead
        /\ (P[q].st = "exited" => P[q].tasks \subseteq P[q].dead)
    BY DEF Table, Tree, DeadRecorded
  <2>2. CASE q = p
    BY <1>2, <1>4, <2>1, <2>2
  <2>3. CASE q # p
    BY <1>2, <1>3, <2>1, <2>3
  <2> QED BY <2>2, <2>3
<1>8. ParentsLive(R)
  BY <1>2 DEF ParentsLive, Table, Tree, Live
<1>9. InitRuns(R)
  BY <1>2, <1>3, <1>4, Consts DEF InitRuns, Table, Tree
<1>10. SourcesAlive(R)
  <2> SUFFICES ASSUME NEW q \in Live(R) PROVE SourceAlive(R, R[q].dsrc)
    BY DEF SourcesAlive
  <2>1. q \in Live(P) /\ q \in Pid /\ R[q].dsrc = P[q].dsrc
    BY <1>2 DEF Live
  <2> DEFINE d == P[q].dsrc
  <2>2. d \in Source /\ SourceAlive(P, d)
    BY <2>1, SourceTyped
  <2>3. \A x \in Live(P) : (P[x].tasks \ P[x].dead) \ {c} \subseteq R[x].tasks \ R[x].dead
    BY <1>3, <1>4 DEF Live
  <2>4. d # <<"task", c>>
    BY <2>1 DEF Waits
  <2> HIDE DEF d
  <2>5. d[1] = "task" => d[2] # c
    BY <2>2, <2>4 DEF Source, NoSource
  <2>6. SourceAlive(R, d)
    <3>1. \A x \in Live(P) : /\ (d[1] = "task" /\ d[2] \in P[x].tasks \ P[x].dead) => d[2] \in R[x].tasks \ R[x].dead
                            /\ R[x].st = P[x].st
      BY <1>2, <2>3, <2>5 DEF Live
    <3> QED BY <1>2, <2>2, <3>1, SourceGrows
  <2> QED BY <2>1, <2>6 DEF d
<1> QED BY <1>1, <1>5, <1>6, <1>7, <1>8, <1>9, <1>10 DEF Table, Tree

-----------------------------------------------------------------------------
(***************************************************************************)
(* The places of tasks, as the table and the calls change.                 *)
(***************************************************************************)
LEMMA PlacesTrims ==
  ASSUME NEW P, Tree(P), NEW R, Tree(R), Trims(P, R), NEW C, NEW A, NEW n, Places(P, sched, C, A, n)
  PROVE  Places(R, sched, C, A, n)
<1>0. \A q \in Pid : Trimmed(P[q], R[q])
  BY DEF Trims
<1>1. ASSUME NEW t \in Task PROVE TaskPlace(R, sched, C, t)
  <2>0. TaskPlace(P, sched, C, t)
    BY DEF Places
  <2>1. Listed(R, t) => Listed(P, t)
    BY <1>0 DEF Trimmed, Listed
  <2>2. IsDead(R, t) => IsDead(P, t)
    BY <1>0 DEF Trimmed, IsDead
  <2>3. Waits(R, t) => Waits(P, t)
    BY DEF Trims, SourcesFrom
  <2>4. Listed(P, t) /\ ~IsDead(P, t) => Listed(R, t)
    BY <1>0 DEF Trimmed, Listed, IsDead
  <2>5. Listed(R, t) /\ IsDead(P, t) => IsDead(R, t)
    <3> SUFFICES ASSUME NEW q \in Pid, t \in R[q].tasks, NEW x \in Pid, t \in P[x].dead PROVE IsDead(R, t)
      BY DEF Listed, IsDead
    <3>1. t \in P[q].tasks /\ t \in P[x].tasks
      BY <1>0 DEF Trimmed, Tree, DeadRecorded
    <3>2. x = q
      BY <3>1 DEF Tree, OneProcess
    <3> QED BY <1>0, <3>2 DEF Trimmed, IsDead
  <2>6. ASSUME NEW p \in Pid, sched[t] \in {"exited", "gone"}, t \in R[p].tasks
        PROVE  t \in R[p].dead \/ (R[p].tasks = {t} /\ ~Waits(R, t))
    <3>1. t \in P[p].tasks
      BY <1>0, <2>6 DEF Trimmed
    <3>2. t \in P[p].dead \/ (P[p].tasks = {t} /\ ~Waits(P, t))
      BY <2>0, <2>6, <3>1 DEF TaskPlace
    <3> QED BY <1>0, <2>3, <2>6, <3>2 DEF Trimmed
  <2>7. ASSUME NEW p \in Pid, C[t] = "exec", t \in R[p].tasks PROVE R[p].lead = t
    <3>1. t \in P[p].tasks /\ p \in Live(R)
      BY <1>0, <2>7, AbsentType DEF Trimmed, Tree, AbsentEmpty, Live
    <3>2. R[p].lead = P[p].lead
      BY <3>1 DEF Trims, Survives
    <3> QED BY <2>0, <2>7, <3>1, <3>2 DEF TaskPlace
  <2> QED BY <2>0, <2>1, <2>2, <2>3, <2>4, <2>5, <2>6, <2>7 DEF TaskPlace
<1>2. ASSUME NEW t \in Task PROVE ArgPlace(R, sched, C, A, n, t)
  <2>0. ArgPlace(P, sched, C, A, n, t)
    BY DEF Places
  <2>1. ASSUME C[t] = "forkset"
        PROVE  \E p \in Pid : Fresh(R, p, A[t]) /\ \A u \in Task : C[u] = "fork" => A[u] # p
    <3>1. PICK p \in Pid : Fresh(P, p, A[t]) /\ \A u \in Task : C[u] = "fork" => A[u] # p
      BY <2>0, <2>1 DEF ArgPlace
    <3>2. A[t] \in Task /\ sched[A[t]] = "new"
      BY <2>0, <2>1 DEF ArgPlace
    <3>3. Fresh(R, p, A[t])
      BY <3>1, <3>2 DEF Trims, SourcesFrom
    <3> QED BY <3>1, <3>3
  <2> QED BY <2>0, <2>1 DEF ArgPlace
<1> QED BY <1>1, <1>2 DEF Places

SchedStates == {"free", "new", "live", "child", "intr", "manual", "vfork", "exited", "gone"}

\* x stays where it is; its scheduler state may change among those of a task that runs.
Like(s, r) == r = s \/ (s \in Running /\ r \in Running) \/ (s = "exited" /\ r = "gone")
\* x goes to place l with argument a.
Goes(P, C, A, n, x, l, a) ==
  /\ l \in PCs \ (Creating \cup {"none"}) /\ a \in Task \cup Pid \cup {0}
  /\ IF l \in Ending THEN Listed(P, x) => IsDead(P, x) ELSE Listed(P, x) /\ ~IsDead(P, x)
  /\ l = "exec" => \A p \in Pid : x \in P[p].tasks => P[p].lead = x
  /\ l \in {"fork", "notify", "reap", "stopnote", "contwake"} => a \in Pid
  /\ l = "vfork" => a \in Task
  /\ l = "fork" => /\ a < n
                   /\ \A u \in Task, c \in Task : C[u] = "forkset" /\ A[u] = c => ~Fresh(P, a, c)
  /\ x = Init1 => l \notin Ending \cup {"record"}

LEMMA Moved ==
  ASSUME NEW P, NEW S, NEW C, NEW A, NEW n \in Nat, Places(P, S, C, A, n),
         NEW D \in [Task -> PCs], NEW B \in [Task -> Task \cup Pid \cup {0}], NEW Z \in [Task -> SchedStates],
         \A x \in Task : \/ D[x] = C[x] /\ B[x] = A[x] /\ Like(S[x], Z[x])
                         \/ S[x] \in Running /\ Z[x] \in Running /\ Goes(P, C, A, n, x, D[x], B[x])
  PROVE  Places(P, Z, D, B, n)
<1>1. ASSUME NEW x \in Task PROVE TaskPlace(P, Z, D, x)
  <2>0. TaskPlace(P, S, C, x)
    BY DEF Places
  <2>1. CASE D[x] = C[x] /\ B[x] = A[x] /\ Like(S[x], Z[x])
    BY <2>0, <2>1 DEF TaskPlace, Like, Running
  <2>2. CASE S[x] \in Running /\ Z[x] \in Running /\ Goes(P, C, A, n, x, D[x], B[x])
    BY <2>0, <2>2 DEF TaskPlace, Goes, Running, Ending, Creating, PCs
  <2> QED BY <2>1, <2>2
<1>2. \A x \in Task : S[x] = "new" => Z[x] = "new"
  BY DEF Like, Running
<1>3. \A x \in Task : S[x] = "gone" => Z[x] = "gone"
  BY DEF Like, Running
<1>4. ASSUME NEW x \in Task, D[x] \in Creating PROVE C[x] = D[x] /\ A[x] = B[x]
  BY <1>4 DEF Goes
<1>5. ASSUME NEW x \in Task PROVE ArgPlace(P, Z, D, B, n, x)
  <2>0. ArgPlace(P, S, C, A, n, x)
    BY DEF Places
  <2>1. ASSUME D[x] = "forkset"
        PROVE  \E p \in Pid : Fresh(P, p, B[x]) /\ \A u \in Task : D[u] = "fork" => B[u] # p
    <3>1. C[x] = "forkset" /\ B[x] = A[x] /\ A[x] \in Task
      BY <2>0, <2>1, <1>4 DEF Creating, ArgPlace
    <3>2. PICK p \in Pid : Fresh(P, p, A[x]) /\ \A u \in Task : C[u] = "fork" => A[u] # p
      BY <2>0, <3>1 DEF ArgPlace
    <3>3. ASSUME NEW u \in Task, D[u] = "fork" PROVE B[u] # p
      BY <3>1, <3>2, <3>3 DEF Goes
    <3> QED BY <3>1, <3>2, <3>3
  <2>2. CASE D[x] = C[x] /\ B[x] = A[x]
    <3>1. D[x] = "forkset" => Z[B[x]] = "new" /\ B[x] \in Task
      BY <1>2, <2>0, <2>2 DEF ArgPlace
    <3>2. D[x] = "cloneset" => Z[B[x]] \in {"new", "gone"} /\ B[x] \in Task
      BY <1>2, <1>3, <2>0, <2>2 DEF ArgPlace
    <3> QED BY <2>0, <2>1, <2>2, <3>1, <3>2 DEF ArgPlace
  <2>3. CASE Goes(P, C, A, n, x, D[x], B[x])
    BY <2>3 DEF ArgPlace, Goes, Creating
  <2> QED BY <2>2, <2>3
<1>6. \A t, u \in Task : D[t] \in Creating /\ D[u] \in Creating /\ t # u => B[t] # B[u]
  BY <1>4 DEF Places
<1>7. D[Init1] \notin Ending \cup {"none", "record"}
  BY Consts DEF Places, Goes
<1> QED BY <1>1, <1>5, <1>6, <1>7 DEF Places, SchedStates

LEMMA Shifted ==
  ASSUME NEW P, NEW S, NEW C, NEW A, NEW n \in Nat, Places(P, S, C, A, n), NEW Z \in [Task -> SchedStates],
         \A x \in Task : Like(S[x], Z[x])
  PROVE  Places(P, Z, C, A, n)
<1>1. C \in [Task -> PCs] /\ A \in [Task -> Task \cup Pid \cup {0}]
  BY DEF Places
<1> QED BY <1>1, Moved

\* One task moves; the scheduler states of the others may change.
LEMMA OneMoved ==
  ASSUME NEW P, NEW S, NEW C, NEW A, NEW n \in Nat, Places(P, S, C, A, n), NEW t \in Task, S[t] \in Running,
         NEW Z \in [Task -> SchedStates], \A x \in Task : Like(S[x], Z[x]),
         NEW l, NEW a, Goes(P, C, A, n, t, l, a),
         NEW D, D = [C EXCEPT ![t] = l], NEW B, B = [A EXCEPT ![t] = a]
  PROVE  Places(P, Z, D, B, n)
<1>1. C \in [Task -> PCs] /\ A \in [Task -> Task \cup Pid \cup {0}]
  BY DEF Places
<1>2. D \in [Task -> PCs] /\ B \in [Task -> Task \cup Pid \cup {0}]
  BY <1>1 DEF Goes
<1>3. ASSUME NEW x \in Task
      PROVE  \/ D[x] = C[x] /\ B[x] = A[x] /\ Like(S[x], Z[x])
             \/ S[x] \in Running /\ Z[x] \in Running /\ Goes(P, C, A, n, x, D[x], B[x])
  <2>1. CASE x = t
    <3>1. D[x] = l /\ B[x] = a
      BY <1>1, <2>1
    <3>2. Z[x] \in Running
      BY <2>1 DEF Like, Running
    <3> QED BY <2>1, <3>1, <3>2
  <2>2. CASE x # t
    BY <1>1, <2>2
  <2> QED BY <2>1, <2>2
<1> QED BY <1>2, <1>3, Moved

\* t is recorded as exited, and goes where the dying go; or it is killed.
Dying(P, R, p, t, v) ==
  /\ Tree(P) /\ Tree(R) /\ p \in Live(P) /\ t \in Task /\ t # Init1 /\ t \in P[p].tasks
  /\ v \in Task /\ v \in P[p].tasks /\ sched[v] # "new"
  /\ Died(P, R, p, t) /\ SourcesFrom(P, R) /\ ~Waits(R, t) /\ Live(R) = Live(P)
DyingAt(t, l, a, s) ==
  /\ a \in Task \cup Pid \cup {0}
  /\ \/ l \in Ending /\ s = sched[t] /\ s \in Running /\ (l = "notify" => a \in Pid)
     \/ l = "none" /\ s = "gone"
LEMMA DiedMoved ==
  ASSUME NEW P, NEW R, NEW p, NEW t, NEW v, Dying(P, R, p, t, v),
         NEW C, NEW A, NEW n \in Nat, Places(P, sched, C, A, n), NEW l, NEW a, NEW s, DyingAt(t, l, a, s)
  PROVE  Places(R, [sched EXCEPT ![t] = s], [C EXCEPT ![t] = l], [A EXCEPT ![t] = a], n)
<1> DEFINE D == [C EXCEPT ![t] = l]
           B == [A EXCEPT ![t] = a]
           Z == [sched EXCEPT ![t] = s]
<1>a. /\ Tree(P) /\ Tree(R) /\ p \in Live(P) /\ t \in Task /\ t # Init1 /\ t \in P[p].tasks
      /\ v \in Task /\ v \in P[p].tasks /\ sched[v] # "new"
      /\ Died(P, R, p, t) /\ SourcesFrom(P, R) /\ ~Waits(R, t) /\ Live(R) = Live(P)
  BY DEF Dying
<1>b. /\ a \in Task \cup Pid \cup {0}
      /\ \/ l \in Ending /\ s = sched[t] /\ s \in Running /\ (l = "notify" => a \in Pid)
         \/ l = "none" /\ s = "gone"
  BY DEF DyingAt
<1>0. C \in [Task -> PCs] /\ A \in [Task -> Task \cup Pid \cup {0}] /\ sched \in [Task -> SchedStates]
  BY <1>a, <1>b DEF Places, SchedStates
<1>1. D \in [Task -> PCs] /\ B \in [Task -> Task \cup Pid \cup {0}] /\ Z \in [Task -> SchedStates]
  BY <1>a, <1>b, <1>0 DEF Ending, PCs, SchedStates
<1>2. \A x \in Task : x # t => D[x] = C[x] /\ B[x] = A[x] /\ Z[x] = sched[x]
  BY <1>a, <1>b, <1>0
<1>3. D[t] = l /\ B[t] = a /\ Z[t] = s
  BY <1>a, <1>b, <1>0
<1> HIDE DEF D, B, Z
<1>4. p \in Pid /\ \A q \in Pid : R[q].tasks = P[q].tasks /\ R[q].lead = P[q].lead
  BY <1>a, <1>b DEF Died, Live
<1>5. \A x \in Task : Listed(R, x) <=> Listed(P, x)
  BY <1>a, <1>b, <1>4 DEF Listed
<1>6. \A x \in Task : IsDead(R, x) <=> (IsDead(P, x) \/ x = t)
  BY <1>a, <1>b, <1>4 DEF IsDead, Died
<1>7. \A x \in Task : Waits(R, x) => Waits(P, x)
  BY <1>a, <1>b DEF SourcesFrom
<1>8. ASSUME NEW x \in Task PROVE TaskPlace(R, Z, D, x)
  <2>0. TaskPlace(P, sched, C, x)
    BY <1>a, <1>b DEF Places
  <2>1. CASE x # t
    <3>1. ASSUME NEW q \in Pid, Z[x] \in {"exited", "gone"}, x \in R[q].tasks
          PROVE  x \in R[q].dead \/ (R[q].tasks = {x} /\ ~Waits(R, x))
      <4>1. x \in P[q].dead \/ (P[q].tasks = {x} /\ ~Waits(P, x))
        BY <1>a, <1>b, <1>2, <1>4, <2>0, <2>1, <3>1 DEF TaskPlace
      <4> QED BY <1>a, <1>b, <1>4, <1>7, <4>1 DEF Died
    <3> QED BY <1>a, <1>b, <1>2, <1>4, <1>5, <1>6, <1>7, <2>0, <2>1, <3>1 DEF TaskPlace
  <2>2. CASE x = t
    <3>1. ASSUME NEW q \in Pid, t \in R[q].tasks PROVE t \in R[q].dead
      <4>1. q = p
        BY <1>a, <1>b, <1>4, <3>1 DEF Tree, OneProcess
      <4> QED BY <1>a, <1>b, <4>1 DEF Died
    <3>2. s \notin {"free", "new"} /\ l # "exec" /\ (l # "none" => s \in Running) /\ l \in Ending \cup {"none"}
      BY <1>a, <1>b DEF Running, Ending
    <3> QED BY <1>a, <1>b, <1>3, <1>6, <2>2, <3>1, <3>2 DEF TaskPlace
  <2> QED BY <1>a, <1>b, <2>1, <2>2
<1>9. ASSUME NEW x \in Task PROVE ArgPlace(R, Z, D, B, n, x)
  <2>0. ArgPlace(P, sched, C, A, n, x)
    BY <1>a, <1>b DEF Places
  <2>1. CASE x = t
    BY <1>a, <1>b, <1>3, <2>1 DEF ArgPlace, Ending
  <2>2. CASE x # t
    <3>0. D[x] = C[x] /\ B[x] = A[x]
      BY <1>a, <1>b, <1>2, <2>2
    <3>1. ASSUME C[x] = "forkset"
          PROVE  /\ Z[A[x]] = "new"
                 /\ \E f \in Pid : Fresh(R, f, A[x]) /\ \A u \in Task : D[u] = "fork" => B[u] # f
      <4>1. PICK f \in Pid : Fresh(P, f, A[x]) /\ \A u \in Task : C[u] = "fork" => A[u] # f
        BY <1>a, <1>b, <2>0, <3>1 DEF ArgPlace
      <4>2. A[x] \in Task /\ sched[A[x]] = "new"
        BY <1>a, <1>b, <2>0, <3>1 DEF ArgPlace
      <4>3. A[x] # t
        <5>1. t = A[x] => f = p
          BY <1>a, <1>b, <1>4, <4>1 DEF Fresh, Tree, OneProcess
        <5>2. t = A[x] => v = t
          BY <1>a, <1>b, <4>1, <5>1 DEF Fresh
        <5> QED BY <1>a, <1>b, <4>2, <5>2
      <4>4. Fresh(R, f, A[x])
        BY <1>a, <1>b, <4>1, <4>2 DEF SourcesFrom
      <4>5. \A u \in Task : D[u] = "fork" => B[u] # f
        BY <1>a, <1>b, <1>2, <1>3, <4>1 DEF Ending
      <4> QED BY <1>a, <1>b, <1>2, <4>1, <4>2, <4>3, <4>4, <4>5
    <3>2. C[x] = "cloneset" => Z[A[x]] \in {"new", "gone"}
      <4>1. C[x] = "cloneset" => A[x] \in Task /\ sched[A[x]] \in {"new", "gone"}
        BY <1>a, <1>b, <2>0 DEF ArgPlace
      <4> QED BY <1>a, <1>b, <1>2, <1>3, <4>1 DEF Running
    <3> QED BY <1>a, <1>b, <2>0, <3>0, <3>1, <3>2 DEF ArgPlace
  <2> QED BY <1>a, <1>b, <2>1, <2>2
<1>10. \A x, u \in Task : D[x] \in Creating /\ D[u] \in Creating /\ x # u => B[x] # B[u]
  BY <1>a, <1>b, <1>2, <1>3 DEF Places, Creating, Ending
<1>11. D[Init1] \notin Ending \cup {"none", "record"}
  BY <1>a, <1>b, <1>2, Consts DEF Places
<1>12. Places(R, Z, D, B, n)
  BY <1>1, <1>8, <1>9, <1>10, <1>11 DEF Places, SchedStates
<1> QED BY <1>12 DEF D, B, Z

-----------------------------------------------------------------------------
(***************************************************************************)
(* Numbers and counts.                                                     *)
(***************************************************************************)
LEMMA NumbersShrink ==
  ASSUME NEW P, NEW R, Survives(P, R), \A q \in Pid : R[q].tasks \subseteq P[q].tasks,
         NEW T, NEW np, NEW nt, Numbers(P, T, np, nt)
  PROVE  Numbers(R, T, np, nt)
<1>1. \A t \in Task : Listed(R, t) => Listed(P, t)
  BY DEF Listed
<1>2. \A q \in Live(R) : q \in Live(P) /\ R[q].lead = P[q].lead
  BY DEF Survives
<1> QED BY <1>1, <1>2 DEF Numbers

LEMMA NumbersTrims ==
  ASSUME NEW P, NEW R, Trims(P, R), NEW T, NEW np, NEW nt, Numbers(P, T, np, nt)
  PROVE  Numbers(R, T, np, nt)
<1>1. Survives(P, R) /\ \A q \in Pid : R[q].tasks \subseteq P[q].tasks
  BY DEF Trims, Trimmed
<1> QED BY <1>1, NumbersShrink

LEMMA CountedSame == ASSUME NEW P, NEW R, SameSubs(P, R), NEW n, Counted(P, n) PROVE Counted(R, n)
<1>1. {p \in Pid : R[p].sub} = {p \in Pid : P[p].sub}
  BY DEF SameSubs
<1> QED BY <1>1 DEF Counted

One(b) == IF b THEN 1 ELSE 0
LEMMA CountedChanged ==
  ASSUME NEW P \in TableType, NEW R \in TableType, NEW p \in Pid, \A q \in Pid \ {p} : R[q].sub = P[q].sub,
         NEW n, Counted(P, n)
  PROVE  Counted(R, n + One(R[p].sub) - One(P[p].sub))
<1> DEFINE S == {q \in Pid : P[q].sub}
           Z == {q \in Pid : R[q].sub}
<1>1. IsFiniteSet(S) /\ IsFiniteSet(Z) /\ Cardinality(S) \in Nat /\ Cardinality(Z) \in Nat
  BY Consts, FS_Subset, FS_CardinalityType
<1>2. R[p].sub \in BOOLEAN /\ P[p].sub \in BOOLEAN
  BY DEF TableType, ProcessType
<1>3. CASE R[p].sub = P[p].sub
  <2>1. S = Z
    BY <1>3
  <2>2. n = Cardinality(S)
    BY DEF Counted
  <2> HIDE DEF S, Z
  <2>3. One(R[p].sub) = One(P[p].sub) /\ One(P[p].sub) \in Int
    BY <1>3 DEF One
  <2>4. n + One(R[p].sub) - One(P[p].sub) = Cardinality(Z)
    BY <1>1, <2>1, <2>2, <2>3
  <2> QED BY <2>4 DEF Counted, Z
<1>4. CASE R[p].sub /\ ~P[p].sub
  <2>1. Z = S \cup {p} /\ p \notin S
    BY <1>4
  <2>2. Cardinality(Z) = Cardinality(S) + 1
    BY <1>1, <2>1, FS_AddElement
  <2> HIDE DEF S, Z
  <2>3. n = Cardinality(S)
    BY DEF Counted, S
  <2>4. n + One(R[p].sub) - One(P[p].sub) = Cardinality(Z)
    BY <1>1, <1>4, <2>2, <2>3 DEF One
  <2> QED BY <2>4 DEF Counted, Z
<1>5. CASE ~R[p].sub /\ P[p].sub
  <2>1. S = Z \cup {p} /\ p \notin Z
    BY <1>5
  <2>2. Cardinality(S) = Cardinality(Z) + 1
    BY <1>1, <2>1, FS_AddElement
  <2> HIDE DEF S, Z
  <2>3. n = Cardinality(S)
    BY DEF Counted, S
  <2>4. n + One(R[p].sub) - One(P[p].sub) = Cardinality(Z)
    BY <1>1, <1>5, <2>2, <2>3 DEF One
  <2> QED BY <2>4 DEF Counted, Z
<1> QED BY <1>2, <1>3, <1>4, <1>5

Free(n) == (n \notin Pid \/ ~process_exists(n)) /\ task_for_thread(n) = {}

LEMMA AboveFree ==
  ASSUME Numbers(proc, tid, nextPid, nextTid)
  PROVE  /\ MaxPid + 1 \in Nat /\ MaxPid + 1 <= Cardinality(Pid) + Cardinality(Task) + 1
         /\ nextPid <= MaxPid + 1 /\ nextTid <= MaxPid + 1 /\ nextPid \in Nat /\ nextTid \in Nat /\ Free(MaxPid + 1)
<1>1. Cardinality(Task) \in Nat
  BY TaskAssumption, FS_CardinalityType
<1>2. MaxPid \in Nat /\ Cardinality(Pid) = MaxPid /\ MaxPid + 1 \notin Pid
  BY Consts DEF MaxPid
<1>3. \A t \in Task : tid[t] \in Pid \cup {0}
  BY DEF Numbers
<1>4. task_for_thread(MaxPid + 1) = {}
  BY <1>2, <1>3 DEF task_for_thread
<1> QED BY <1>1, <1>2, <1>4 DEF Free, Numbers

LEMMA ForThread == \A n : task_for_thread(n) = {} <=> \A t \in Task : Listed(proc, t) => tid[t] # n
  BY DEF task_for_thread, PidsOf, Listed

LEMMA PidAllocated ==
  ASSUME Numbers(proc, tid, nextPid, nextTid)
  PROVE  /\ alloc_pid \in Nat /\ nextPid <= alloc_pid /\ alloc_pid \notin Live(proc)
         /\ \A t \in Task : Listed(proc, t) => tid[t] # alloc_pid
<1> DEFINE S == {n \in Nat : nextPid <= n /\ Free(n)}
           top == Cardinality(Pid) + Cardinality(Task) + 1
           Fit(n) == /\ (n \notin Pid \/ ~process_exists(n)) /\ task_for_thread(n) = {}
                     /\ \A k \in nextPid .. n - 1 : process_exists(k) \/ task_for_thread(k) # {}
<1>1. MaxPid + 1 \in S /\ nextPid \in Nat /\ MaxPid + 1 <= top
  BY AboveFree
<1>2. PICK m \in S : \A y \in S : m <= y
  BY <1>1, Least
<1>3. m \in nextPid .. top
  <2>1. m <= MaxPid + 1 /\ m \in Nat /\ nextPid <= m
    BY <1>1, <1>2
  <2>2. MaxPid + 1 \in Nat /\ top \in Int
    BY AboveFree, TaskAssumption, Consts, FS_CardinalityType DEF MaxPid
  <2> HIDE DEF top
  <2> QED BY <1>1, <2>1, <2>2
<1>4. Fit(m)
  <2>1. ASSUME NEW k \in nextPid .. m - 1 PROVE process_exists(k) \/ task_for_thread(k) # {}
    <3>1. k \in Nat /\ nextPid <= k /\ ~(m <= k)
      BY <1>1, <1>2
    <3>2. ~Free(k)
      BY <1>2, <3>1
    <3> QED BY <3>2 DEF Free
  <2> QED BY <1>2, <2>1 DEF Free
<1>5. alloc_pid = CHOOSE n \in nextPid .. top : Fit(n)
  BY DEF alloc_pid
<1> HIDE DEF Fit, top
<1>6. alloc_pid \in nextPid .. top /\ Fit(alloc_pid)
  BY <1>3, <1>4, <1>5
<1>7. alloc_pid \in Nat /\ nextPid <= alloc_pid
  <2>1. top \in Int
    BY TaskAssumption, Consts, FS_CardinalityType DEF MaxPid, top
  <2> QED BY <1>1, <1>6, <2>1
<1>8. alloc_pid \notin Live(proc)
  BY <1>6 DEF Fit, Live, process_exists
<1>9. \A t \in Task : Listed(proc, t) => tid[t] # alloc_pid
  BY <1>6, ForThread DEF Fit
<1> QED BY <1>7, <1>8, <1>9

LEMMA TidAllocated ==
  ASSUME Numbers(proc, tid, nextPid, nextTid)
  PROVE  /\ alloc_tid \in Nat /\ nextTid <= alloc_tid
         /\ \A t \in Task : Listed(proc, t) => tid[t] # alloc_tid
<1> DEFINE S == {n \in Nat : nextTid <= n /\ task_for_thread(n) = {}}
           top == Cardinality(Pid) + Cardinality(Task) + 1
           Fit(n) == /\ task_for_thread(n) = {}
                     /\ \A k \in nextTid .. n - 1 : task_for_thread(k) # {}
<1>1. MaxPid + 1 \in S /\ nextTid \in Nat /\ MaxPid + 1 <= top
  BY AboveFree DEF Free
<1>2. PICK m \in S : \A y \in S : m <= y
  BY <1>1, Least
<1>3. m \in nextTid .. top
  <2>1. m <= MaxPid + 1 /\ m \in Nat /\ nextTid <= m
    BY <1>1, <1>2
  <2>2. MaxPid + 1 \in Nat /\ top \in Int
    BY AboveFree, TaskAssumption, Consts, FS_CardinalityType DEF MaxPid
  <2> HIDE DEF top
  <2> QED BY <1>1, <2>1, <2>2
<1>4. Fit(m)
  <2>1. ASSUME NEW k \in nextTid .. m - 1 PROVE task_for_thread(k) # {}
    <3>1. k \in Nat /\ nextTid <= k /\ ~(m <= k)
      BY <1>1, <1>2
    <3> QED BY <1>2, <3>1
  <2> QED BY <1>2, <2>1
<1>5. alloc_tid = CHOOSE n \in nextTid .. top : Fit(n)
  BY DEF alloc_tid
<1> HIDE DEF Fit, top
<1>6. alloc_tid \in nextTid .. top /\ Fit(alloc_tid)
  BY <1>3, <1>4, <1>5
<1>7. alloc_tid \in Nat /\ nextTid <= alloc_tid
  <2>1. top \in Int
    BY TaskAssumption, Consts, FS_CardinalityType DEF MaxPid, top
  <2> QED BY <1>1, <1>6, <2>1
<1>8. \A t \in Task : Listed(proc, t) => tid[t] # alloc_tid
  BY <1>6, ForThread DEF Fit
<1> QED BY <1>7, <1>8

-----------------------------------------------------------------------------
(***************************************************************************)
(* The steps.                                                              *)
(***************************************************************************)
LEMMA Mine ==
  ASSUME RInv, NEW t \in Task, PidsOf(t) # {}
  PROVE  /\ Me(t) \in Live(proc) /\ Me(t) \in Pid /\ t \in proc[Me(t)].tasks /\ Listed(proc, t)
         /\ \A q \in Pid : t \in proc[q].tasks => q = Me(t)
<1>1. Me(t) \in PidsOf(t)
  BY DEF Me, pid_for_task
<1>2. Me(t) \in Pid /\ t \in proc[Me(t)].tasks
  BY <1>1 DEF PidsOf
<1>3. OneProcess(proc) /\ AbsentEmpty(proc)
  BY DEF RInv, Table, Tree
<1>4. Me(t) \in Live(proc)
  BY <1>2, <1>3, AbsentType DEF AbsentEmpty, Live
<1> QED BY <1>2, <1>3, <1>4 DEF OneProcess, Listed

LEMMA Active ==
  ASSUME RInv, NEW t \in Task, pc[t] \notin Ending \cup {"none"}
  PROVE  /\ PidsOf(t) # {} /\ Me(t) \in Live(proc) /\ Me(t) \in Pid /\ t \in proc[Me(t)].tasks
         /\ t \notin proc[Me(t)].dead /\ sched[t] \in Running /\ sched[t] # "new"
         /\ Listed(proc, t) /\ ~IsDead(proc, t)
         /\ \A q \in Pid : t \in proc[q].tasks => q = Me(t)
<1>1. TaskPlace(proc, sched, pc, t)
  BY DEF RInv, Places
<1>2. sched[t] \in Running /\ Listed(proc, t) /\ ~IsDead(proc, t)
  BY <1>1 DEF TaskPlace
<1>3. PidsOf(t) # {}
  BY <1>2 DEF Listed, PidsOf
<1> QED BY <1>2, <1>3, Mine DEF IsDead, Running

LEMMA Tables ==
  ASSUME RInv
  PROVE  /\ proc \in TableType /\ Tree(proc) /\ nextPid \in Nat /\ nextTid \in Nat
         /\ sched \in [Task -> SchedStates] /\ pc \in [Task -> PCs] /\ arg \in [Task -> Task \cup Pid \cup {0}]
         /\ Init1 \in Live(proc)
<1>1. Table(proc) /\ Tree(proc)
  BY DEF RInv, Table
<1>2. nextPid \in Nat /\ nextTid \in Nat
  BY DEF RInv, Numbers, MaxPid
<1> QED BY <1>1, <1>2, InitIsUp DEF RInv, Places, SchedStates, Tree

Soft == Reborn(proc, proc') /\ Quiet(proc, proc')

LEMMA SoftSame == ASSUME UNCHANGED proc PROVE Soft
  BY DEF Soft, Reborn, Quiet, Live

\* A step that leaves the registry alone.
LEMMA OnlyMoves ==
  ASSUME RInv, NEW t \in Task, sched[t] \in Running, NEW l, NEW a, Goto(t, l, a),
         Goes(proc, pc, arg, nextPid, t, l, a),
         UNCHANGED <<proc, tid, nextPid, nextTid, subreapers>>,
         sched' \in [Task -> SchedStates], \A x \in Task : Like(sched[x], sched'[x])
  PROVE  RInv'
<1>1. Places(proc, sched, pc, arg, nextPid) /\ nextPid \in Nat
  BY Tables DEF RInv
<1>2. pc' = [pc EXCEPT ![t] = l] /\ arg' = [arg EXCEPT ![t] = a]
  BY DEF Goto
<1>3. Places(proc, sched', pc', arg', nextPid)
  BY <1>1, <1>2, OneMoved
<1> QED BY <1>3 DEF RInv

\* The same, with the table trimmed.
LEMMA TrimsMoves ==
  ASSUME RInv, NEW t \in Task, sched[t] \in Running, NEW l, NEW a, Goto(t, l, a),
         Table(proc'), Trims(proc, proc'), Counted(proc', subreapers'),
         Goes(proc', pc, arg, nextPid, t, l, a),
         UNCHANGED <<tid, nextPid, nextTid>>,
         sched' \in [Task -> SchedStates], \A x \in Task : Like(sched[x], sched'[x])
  PROVE  RInv'
<1>1. Places(proc, sched, pc, arg, nextPid) /\ nextPid \in Nat
  BY Tables DEF RInv
<1>2. pc' = [pc EXCEPT ![t] = l] /\ arg' = [arg EXCEPT ![t] = a]
  BY DEF Goto
<1>3. Tree(proc) /\ Tree(proc')
  BY Tables DEF Table
<1>4. Places(proc', sched, pc, arg, nextPid)
  BY <1>1, <1>3, PlacesTrims
<1>5. Places(proc', sched', pc', arg', nextPid)
  BY <1>1, <1>2, <1>4, OneMoved
<1>6. Numbers(proc', tid, nextPid, nextTid)
  BY NumbersTrims DEF RInv
<1> QED BY <1>5, <1>6 DEF RInv

LEMMA TrimsShifts ==
  ASSUME RInv, Table(proc'), Trims(proc, proc'), Counted(proc', subreapers'),
         UNCHANGED <<pc, arg, tid, nextPid, nextTid>>,
         sched' \in [Task -> SchedStates], \A x \in Task : Like(sched[x], sched'[x])
  PROVE  RInv'
<1>1. Places(proc, sched, pc, arg, nextPid) /\ nextPid \in Nat
  BY Tables DEF RInv
<1>3. Tree(proc) /\ Tree(proc')
  BY Tables DEF Table
<1>4. Places(proc', sched, pc, arg, nextPid)
  BY <1>1, <1>3, PlacesTrims
<1>5. Places(proc', sched', pc, arg, nextPid)
  BY <1>1, <1>4, Shifted
<1>6. Numbers(proc', tid, nextPid, nextTid)
  BY NumbersTrims DEF RInv
<1> QED BY <1>5, <1>6 DEF RInv

LEMMA LikeSame == \A s : Like(s, s)
  BY DEF Like

\* A task that runs and is not on its way out may go to any such place.
LEMMA MayGo ==
  ASSUME RInv, NEW t \in Task, pc[t] \notin Ending \cup {"none"},
         NEW l \in {"user", "wait", "block", "stopblock", "record"}, l = "record" => t # Init1
  PROVE  Goes(proc, pc, arg, nextPid, t, l, 0)
<1>1. Listed(proc, t) /\ ~IsDead(proc, t)
  BY Active
<1> QED BY <1>1 DEF Goes, PCs, Creating, Ending

LEMMA MayGoTo ==
  ASSUME RInv, NEW t \in Task, pc[t] \notin Ending \cup {"none"},
         NEW l \in {"stopnote", "contwake", "reap"}, NEW a \in Pid
  PROVE  Goes(proc, pc, arg, nextPid, t, l, a)
<1>1. Listed(proc, t) /\ ~IsDead(proc, t)
  BY Active
<1> QED BY <1>1 DEF Goes, PCs, Creating, Ending

LEMMA ForkReadStep == ASSUME RInv, NEW t \in Task, ForkRead(t) PROVE RInv' /\ Soft
<1>1. PICK p \in {Me(t)} \cup (IF "cloneparent" \in Ops THEN {proc[Me(t)].parent} ELSE {}) :
        process_exists(p) /\ Goto(t, "fork", p)
  BY DEF ForkRead
<1>2. pc[t] = "user"
  BY DEF ForkRead, User, AtUser
<1>3. /\ Me(t) \in Live(proc) /\ Me(t) \in Pid /\ t \in proc[Me(t)].tasks /\ sched[t] \in Running /\ sched[t] # "new"
      /\ Listed(proc, t) /\ ~IsDead(proc, t)
  BY <1>2, Active DEF Ending
<1>4. p \in Pid /\ p \in Live(proc)
  BY <1>1 DEF process_exists, Live
<1>5. p < nextPid
  BY <1>4 DEF RInv, Numbers
<1>6. ASSUME NEW u \in Task, NEW c \in Task, pc[u] = "forkset", arg[u] = c, Fresh(proc, p, c) PROVE FALSE
  <2>1. ArgPlace(proc, sched, pc, arg, nextPid, u)
    BY DEF RInv, Places
  <2>2. sched[c] = "new"
    BY <1>6, <2>1 DEF ArgPlace
  <2>3. CASE p = Me(t)
    BY <1>3, <1>6, <2>2, <2>3 DEF Fresh
  <2>4. CASE p = proc[Me(t)].parent
    BY <1>3, <1>6, <2>4 DEF Fresh
  <2> QED BY <1>1, <2>3, <2>4
<1>7. Goes(proc, pc, arg, nextPid, t, "fork", p)
  BY <1>3, <1>4, <1>5, <1>6 DEF Goes, PCs, Creating, Ending
<1>8. UNCHANGED <<proc, sched, tid, nextPid, nextTid, subreapers>>
  BY DEF ForkRead
<1>9. RInv'
  BY <1>1, <1>3, <1>7, <1>8, OnlyMoves, Tables, LikeSame
<1> QED BY <1>8, <1>9, SoftSame

LEMMA ExitStep == ASSUME RInv, NEW t \in Task, sys_exit(t) PROVE RInv' /\ Soft
<1>1. pc[t] = "user" /\ t # Init1 /\ Goto(t, "record", 0)
  BY DEF sys_exit, AtUser, ExitPath
<1>2. Goes(proc, pc, arg, nextPid, t, "record", 0) /\ sched[t] \in Running
  BY <1>1, MayGo, Active DEF Ending
<1>3. UNCHANGED <<proc, sched, tid, nextPid, nextTid, subreapers>>
  BY DEF sys_exit
<1>4. RInv'
  BY <1>1, <1>2, <1>3, OnlyMoves, Tables, LikeSame
<1> QED BY <1>3, <1>4, SoftSame

LEMMA WaitStep == ASSUME RInv, NEW t \in Task, sys_waitpid(t) PROVE RInv' /\ Soft
<1>1. pc[t] = "user" /\ Goto(t, "wait", 0)
  BY DEF sys_waitpid, User, AtUser
<1>2. Goes(proc, pc, arg, nextPid, t, "wait", 0) /\ sched[t] \in Running
  BY <1>1, MayGo, Active DEF Ending
<1>3. UNCHANGED <<proc, sched, tid, nextPid, nextTid, subreapers>>
  BY DEF sys_waitpid
<1>4. RInv'
  BY <1>1, <1>2, <1>3, OnlyMoves, Tables, LikeSame
<1> QED BY <1>3, <1>4, SoftSame

LEMMA StopSeenStep == ASSUME RInv, NEW t \in Task, StopSeen(t) PROVE RInv' /\ Soft
<1>1. pc[t] = "user" /\ Goto(t, "stopblock", 0)
  BY DEF StopSeen, AtUser
<1>2. Goes(proc, pc, arg, nextPid, t, "stopblock", 0) /\ sched[t] \in Running
  BY <1>1, MayGo, Active DEF Ending
<1>3. UNCHANGED <<proc, sched, tid, nextPid, nextTid, subreapers>>
  BY DEF StopSeen
<1>4. RInv'
  BY <1>1, <1>2, <1>3, OnlyMoves, Tables, LikeSame
<1> QED BY <1>3, <1>4, SoftSame

LEMMA OneShifts ==
  ASSUME RInv, NEW t \in Task, sched[t] \in Running, NEW s \in Running, sched' = [sched EXCEPT ![t] = s]
  PROVE  sched' \in [Task -> SchedStates] /\ \A x \in Task : Like(sched[x], sched'[x])
<1>1. sched \in [Task -> SchedStates] /\ s \in SchedStates
  BY Tables DEF Running, SchedStates
<1> QED BY <1>1 DEF Like

LEMMA StopBlockStep == ASSUME RInv, NEW t \in Task, StopBlock(t) PROVE RInv' /\ Soft
<1>1. pc[t] = "stopblock" /\ Goto(t, "user", 0) /\ sched' = [sched EXCEPT ![t] = "manual"]
  BY DEF StopBlock
<1>2. Goes(proc, pc, arg, nextPid, t, "user", 0) /\ sched[t] \in Running
  BY <1>1, MayGo, Active DEF Ending
<1>3. UNCHANGED <<proc, tid, nextPid, nextTid, subreapers>>
  BY DEF StopBlock
<1>4. "manual" \in Running
  BY DEF Running
<1>5. sched' \in [Task -> SchedStates] /\ \A x \in Task : Like(sched[x], sched'[x])
  BY <1>1, <1>2, <1>4, OneShifts
<1>6. RInv'
  BY <1>1, <1>2, <1>3, <1>5, OnlyMoves
<1> QED BY <1>3, <1>6, SoftSame

LEMMA InterruptedStep == ASSUME RInv, NEW t \in Task, wait_interrupted(t) PROVE RInv' /\ Soft
<1> DEFINE l == IF has_pending_wait_event(Me(t)) THEN "wait" ELSE "user"
<1>1. pc[t] = "wait" /\ Goto(t, l, 0) /\ sched' = [sched EXCEPT ![t] = "live"] /\ l \in {"wait", "user"}
  BY DEF wait_interrupted
<1> HIDE DEF l
<1>2. Goes(proc, pc, arg, nextPid, t, l, 0) /\ sched[t] \in Running
  BY <1>1, MayGo, Active DEF Ending
<1>3. UNCHANGED <<proc, tid, nextPid, nextTid, subreapers>>
  BY DEF wait_interrupted
<1>4. "live" \in Running
  BY DEF Running
<1>5. sched' \in [Task -> SchedStates] /\ \A x \in Task : Like(sched[x], sched'[x])
  BY <1>1, <1>2, <1>4, OneShifts
<1>6. RInv'
  BY <1>1, <1>2, <1>3, <1>5, OnlyMoves
<1> QED BY <1>3, <1>6, SoftSame

LEMMA WaitBlockStep == ASSUME RInv, NEW t \in Task, wait_for_child_event(t) PROVE RInv' /\ Soft
<1> DEFINE s == IF StillNothing(Me(t)) THEN "child" ELSE "live"
<1>1. pc[t] = "block" /\ Goto(t, "wait", 0) /\ sched' = [sched EXCEPT ![t] = s]
  BY DEF wait_for_child_event
<1>2. Goes(proc, pc, arg, nextPid, t, "wait", 0) /\ sched[t] \in Running
  BY <1>1, MayGo, Active DEF Ending
<1>3. UNCHANGED <<proc, tid, nextPid, nextTid, subreapers>>
  BY DEF wait_for_child_event
<1>4. s \in Running
  BY DEF Running
<1> HIDE DEF s
<1>5. sched' \in [Task -> SchedStates] /\ \A x \in Task : Like(sched[x], sched'[x])
  BY <1>1, <1>2, <1>4, OneShifts
<1>6. RInv'
  BY <1>1, <1>2, <1>3, <1>5, OnlyMoves
<1> QED BY <1>3, <1>6, SoftSame

LEMMA VforkWaitStep == ASSUME RInv, NEW t \in Task, wait_for_completion(t) PROVE RInv' /\ Soft
<1>1. pc[t] = "vfork"
  BY DEF wait_for_completion
<1>2. Goes(proc, pc, arg, nextPid, t, "user", 0) /\ sched[t] \in Running
  BY <1>1, MayGo, Active DEF Ending
<1>3. UNCHANGED <<proc, tid, nextPid, nextTid, subreapers>>
  BY DEF wait_for_completion
<1>4. CASE Goto(t, "user", 0) /\ UNCHANGED sched
  <2>1. RInv'
    BY <1>2, <1>3, <1>4, OnlyMoves, Tables, LikeSame
  <2> QED BY <1>3, <2>1, SoftSame
<1>5. CASE sched' = [sched EXCEPT ![t] = "vfork"] /\ UNCHANGED <<pc, arg>>
  <2>1. "vfork" \in Running
    BY DEF Running
  <2>2. sched' \in [Task -> SchedStates] /\ \A x \in Task : Like(sched[x], sched'[x])
    BY <1>2, <1>5, <2>1, OneShifts
  <2>3. Places(proc, sched, pc, arg, nextPid) /\ nextPid \in Nat
    BY Tables DEF RInv
  <2>4. Places(proc, sched', pc, arg, nextPid)
    BY <2>2, <2>3, Shifted
  <2>5. RInv'
    BY <1>3, <1>5, <2>4 DEF RInv
  <2> QED BY <1>3, <2>5, SoftSame
<1> QED BY <1>4, <1>5 DEF wait_for_completion

LEMMA Woken ==
  ASSUME RInv, NEW Z, Z = [x \in Task |-> Z[x]],
         \A x \in Task : Z[x] = sched[x] \/ (sched[x] \in Running /\ Z[x] = "live")
  PROVE  Z \in [Task -> SchedStates] /\ \A x \in Task : Like(sched[x], Z[x])
<1>1. sched \in [Task -> SchedStates] /\ "live" \in SchedStates /\ "live" \in Running
  BY Tables DEF Running, SchedStates
<1>2. \A x \in Task : Z[x] \in SchedStates /\ Like(sched[x], Z[x])
  BY <1>1 DEF Like
<1> QED BY <1>2

LEMMA NotifyStep == ASSUME RInv, NEW t \in Task, Notify(t) PROVE RInv' /\ Soft
<1> DEFINE a == ParentOf(arg[t])
<1>1. pc[t] = "notify" /\ Goto(t, "wake", a)
  BY DEF Notify
<1>2. a \in Task \cup Pid \cup {0}
  BY DEF ParentOf, process_exists, NoPid
<1> HIDE DEF a
<1>3. TaskPlace(proc, sched, pc, t) /\ pc[Init1] \notin Ending
  BY DEF RInv, Places
<1>4. sched[t] \in Running /\ (Listed(proc, t) => IsDead(proc, t)) /\ t # Init1
  BY <1>1, <1>3 DEF TaskPlace, Ending
<1>5. Goes(proc, pc, arg, nextPid, t, "wake", a)
  BY <1>2, <1>4 DEF Goes, PCs, Creating, Ending
<1>6. UNCHANGED <<proc, sched, tid, nextPid, nextTid, subreapers>>
  BY DEF Notify
<1>7. RInv'
  BY <1>1, <1>4, <1>5, <1>6, OnlyMoves, Tables, LikeSame
<1> QED BY <1>6, <1>7, SoftSame

LEMMA WakeStep == ASSUME RInv, NEW t \in Task, wake_parent_child_waiters(t) PROVE RInv' /\ Soft
<1>1. PICK p : sched' = wake_child_exit_waiters(sched, p)
  BY DEF wake_parent_child_waiters
<1>2. sched' = [x \in Task |-> IF sched[x] = "child" /\ process_exists(p) /\ x \in proc[p].tasks
                               THEN "live" ELSE sched[x]]
  BY <1>1 DEF wake_child_exit_waiters
<1>3. sched' = [x \in Task |-> sched'[x]]
  BY <1>2
<1>4. \A x \in Task : sched'[x] = sched[x] \/ (sched[x] \in Running /\ sched'[x] = "live")
  BY <1>2 DEF Running
<1>5. sched' \in [Task -> SchedStates] /\ \A x \in Task : Like(sched[x], sched'[x])
  BY <1>3, <1>4, Woken
<1>6. UNCHANGED <<proc, tid, nextPid, nextTid, subreapers>>
  BY DEF wake_parent_child_waiters
<1>7. CASE pc[t] = "wake"
  <2>1. Goto(t, "finish", 0)
    BY <1>7 DEF wake_parent_child_waiters
  <2>2. TaskPlace(proc, sched, pc, t) /\ pc[Init1] \notin Ending
    BY DEF RInv, Places
  <2>3. sched[t] \in Running /\ (Listed(proc, t) => IsDead(proc, t)) /\ t # Init1
    BY <1>7, <2>2 DEF TaskPlace, Ending
  <2>4. Goes(proc, pc, arg, nextPid, t, "finish", 0)
    BY <2>3 DEF Goes, PCs, Creating, Ending
  <2> QED BY <1>5, <1>6, <2>1, <2>3, <2>4, OnlyMoves, SoftSame
<1>8. CASE pc[t] = "stopnote"
  <2>1. Goto(t, "user", 0)
    BY <1>8 DEF wake_parent_child_waiters
  <2>2. Goes(proc, pc, arg, nextPid, t, "user", 0) /\ sched[t] \in Running
    BY <1>8, MayGo, Active DEF Ending
  <2> QED BY <1>5, <1>6, <2>1, <2>2, OnlyMoves, SoftSame
<1> QED BY <1>7, <1>8 DEF wake_parent_child_waiters

LEMMA ContinueTasksStep == ASSUME RInv, NEW t \in Task, continue_process_tasks(t) PROVE RInv' /\ Soft
<1>1. pc[t] = "contwake" /\ Goto(t, "stopnote", arg[t])
  BY DEF continue_process_tasks
<1>2. sched' = [x \in Task |-> IF x \in proc[arg[t]].tasks /\ sched[x] = "manual" THEN "live" ELSE sched[x]]
  BY DEF continue_process_tasks
<1>3. sched' = [x \in Task |-> sched'[x]]
  BY <1>2
<1>4. \A x \in Task : sched'[x] = sched[x] \/ (sched[x] \in Running /\ sched'[x] = "live")
  BY <1>2 DEF Running
<1>5. sched' \in [Task -> SchedStates] /\ \A x \in Task : Like(sched[x], sched'[x])
  BY <1>3, <1>4, Woken
<1>6. UNCHANGED <<proc, tid, nextPid, nextTid, subreapers>>
  BY DEF continue_process_tasks
<1>7. ArgPlace(proc, sched, pc, arg, nextPid, t)
  BY DEF RInv, Places
<1>8. arg[t] \in Pid
  BY <1>1, <1>7 DEF ArgPlace
<1>9. Goes(proc, pc, arg, nextPid, t, "stopnote", arg[t]) /\ sched[t] \in Running
  BY <1>1, <1>8, MayGoTo, Active DEF Ending
<1> QED BY <1>1, <1>5, <1>6, <1>9, OnlyMoves, SoftSame

LEMMA ExitCurrentStep == ASSUME RInv, NEW t \in Task, exit_current(t) PROVE RInv' /\ Soft
<1>1. pc[t] = "finish" /\ UNCHANGED <<proc, arg, tid, nextPid, nextTid, subreapers>>
  BY DEF exit_current
<1>2. sched' = [x \in Task |-> IF x = t THEN "exited"
                               ELSE IF sched[x] = "vfork" /\ arg[x] = t THEN "live" ELSE sched[x]]
  BY DEF exit_current
<1>3. pc' = [x \in Task |-> IF x = t THEN "none" ELSE pc[x]]
  BY DEF exit_current
<1>4. sched \in [Task -> SchedStates] /\ pc \in [Task -> PCs]
  BY Tables
<1>5. sched' \in [Task -> SchedStates] /\ pc' \in [Task -> PCs]
  BY <1>2, <1>3, <1>4 DEF SchedStates, PCs
<1>6. pc[Init1] \notin Ending /\ sched[t] \in Running /\ (Listed(proc, t) => IsDead(proc, t))
  BY <1>1 DEF RInv, Places, TaskPlace, Ending
<1>7. \A x \in Task : x # t => pc'[x] = pc[x] /\ Like(sched[x], sched'[x])
  BY <1>2, <1>3 DEF Like, Running
<1>8. pc'[t] = "none" /\ sched'[t] = "exited"
  BY <1>2, <1>3
<1>9. ASSUME NEW x \in Task PROVE TaskPlace(proc, sched', pc', x)
  <2>0. TaskPlace(proc, sched, pc, x)
    BY DEF RInv, Places
  <2>1. CASE x # t
    BY <1>7, <2>0, <2>1 DEF TaskPlace, Like, Running
  <2>2. CASE x = t
    <3>1. ASSUME NEW p \in Pid, t \in proc[p].tasks PROVE t \in proc[p].dead
      <4>1. PICK q \in Pid : t \in proc[q].dead
        BY <1>6, <3>1 DEF Listed, IsDead
      <4>2. t \in proc[q].tasks
        BY <4>1, Tables DEF Tree, DeadRecorded
      <4>3. q = p
        BY <3>1, <4>2, Tables DEF Tree, OneProcess
      <4> QED BY <4>1, <4>3
    <3> QED BY <1>8, <2>2, <3>1 DEF TaskPlace, Ending
  <2> QED BY <2>1, <2>2
<1>10. ASSUME NEW x \in Task PROVE ArgPlace(proc, sched', pc', arg, nextPid, x)
  <2>0. ArgPlace(proc, sched, pc, arg, nextPid, x)
    BY DEF RInv, Places
  <2>1. CASE x = t
    BY <1>8, <2>1 DEF ArgPlace
  <2>2. CASE x # t
    <3>1. pc'[x] = pc[x]
      BY <1>7, <2>2
    <3>2. \A y \in Task : sched[y] \in {"new", "gone"} => sched'[y] = sched[y]
      BY <1>6, <1>7 DEF Like, Running
    <3>3. ASSUME pc[x] = "forkset"
          PROVE  \E p \in Pid : Fresh(proc, p, arg[x]) /\ \A u \in Task : pc'[u] = "fork" => arg[u] # p
      <4>1. PICK p \in Pid : Fresh(proc, p, arg[x]) /\ \A u \in Task : pc[u] = "fork" => arg[u] # p
        BY <2>0, <3>3 DEF ArgPlace
      <4> QED BY <1>7, <1>8, <4>1
    <3> QED BY <2>0, <3>1, <3>2, <3>3 DEF ArgPlace
  <2> QED BY <2>1, <2>2
<1>11. \A x, u \in Task : pc'[x] \in Creating /\ pc'[u] \in Creating /\ x # u => arg[x] # arg[u]
  BY <1>7, <1>8 DEF RInv, Places, Creating
<1>12. pc'[Init1] \notin Ending \cup {"none", "record"}
  BY <1>1, <1>6, <1>7, Consts DEF RInv, Places, Ending
<1>13. arg \in [Task -> Task \cup Pid \cup {0}]
  BY Tables
<1>14. Places(proc, sched', pc', arg, nextPid)
  BY <1>5, <1>9, <1>10, <1>11, <1>12, <1>13 DEF Places, SchedStates
<1>15. RInv'
  BY <1>1, <1>14 DEF RInv
<1> QED BY <1>1, <1>15, SoftSame

\* A control block after a change that is not about tasks, parents or sources.
SoftRowOf(r, q, s, b, sw, cw) ==
  q \in ProcessType /\ SoftRow(r, q) /\ q.st = s /\ q.sub = b /\ q.stopw = sw /\ q.contw = cw

ToStopped(r) == [r EXCEPT !.st = "stop", !.stopw = TRUE, !.contw = FALSE]
LEMMA RowStopped ==
  ASSUME NEW r \in ProcessType, r.st # "none", NEW q, q = ToStopped(r)
  PROVE  SoftRowOf(r, q, "stop", r.sub, TRUE, FALSE)
<1>1. q \in ProcessType
  BY DEF ProcessType, ToStopped, States
<1> QED BY <1>1 DEF ProcessType, ToStopped, SoftRowOf, SoftRow

ToContinued(r) == [r EXCEPT !.st = "run", !.stopw = FALSE, !.contw = TRUE]
LEMMA RowContinued ==
  ASSUME NEW r \in ProcessType, r.st # "none", NEW q, q = ToContinued(r)
  PROVE  SoftRowOf(r, q, "run", r.sub, FALSE, TRUE)
<1>1. q \in ProcessType
  BY DEF ProcessType, ToContinued, States
<1> QED BY <1>1 DEF ProcessType, ToContinued, SoftRowOf, SoftRow

ToStopw(r, b) == [r EXCEPT !.stopw = b]
LEMMA RowStopw ==
  ASSUME NEW r \in ProcessType, r.st # "none", NEW b \in BOOLEAN, NEW q, q = ToStopw(r, b)
  PROVE  SoftRowOf(r, q, r.st, r.sub, b, r.contw)
<1>1. q \in ProcessType
  BY DEF ProcessType, ToStopw
<1> QED BY <1>1 DEF ProcessType, ToStopw, SoftRowOf, SoftRow

ToContw(r, b) == [r EXCEPT !.contw = b]
LEMMA RowContw ==
  ASSUME NEW r \in ProcessType, r.st # "none", NEW b \in BOOLEAN, NEW q, q = ToContw(r, b)
  PROVE  SoftRowOf(r, q, r.st, r.sub, r.stopw, b)
<1>1. q \in ProcessType
  BY DEF ProcessType, ToContw
<1> QED BY <1>1 DEF ProcessType, ToContw, SoftRowOf, SoftRow

ToExec(r) == [r EXCEPT !.exec = TRUE]
LEMMA RowExec ==
  ASSUME NEW r \in ProcessType, r.st # "none", NEW q, q = ToExec(r)
  PROVE  SoftRowOf(r, q, r.st, r.sub, r.stopw, r.contw)
<1>1. q \in ProcessType
  BY DEF ProcessType, ToExec
<1> QED BY <1>1 DEF ProcessType, ToExec, SoftRowOf, SoftRow

ToSub(r, b) == [r EXCEPT !.sub = b]
LEMMA RowSub ==
  ASSUME NEW r \in ProcessType, r.st # "none", NEW b \in BOOLEAN, NEW q, q = ToSub(r, b)
  PROVE  SoftRowOf(r, q, r.st, b, r.stopw, r.contw)
<1>1. q \in ProcessType
  BY DEF ProcessType, ToSub
<1> QED BY <1>1 DEF ProcessType, ToSub, SoftRowOf, SoftRow

ToDsig(r) == [r EXCEPT !.dsig = TRUE]
LEMMA RowDsig ==
  ASSUME NEW r \in ProcessType, r.st # "none", NEW q, q = ToDsig(r)
  PROVE  SoftRowOf(r, q, r.st, r.sub, r.stopw, r.contw)
<1>1. q \in ProcessType
  BY DEF ProcessType, ToDsig
<1> QED BY <1>1 DEF ProcessType, ToDsig, SoftRowOf, SoftRow

ToGroup(r, g, s) == [r EXCEPT !.pgid = g, !.sid = s]
LEMMA RowGroup ==
  ASSUME NEW r \in ProcessType, r.st # "none", NEW g \in Pid, NEW s \in Pid \cup {NoPid}, NEW q, q = ToGroup(r, g, s)
  PROVE  SoftRowOf(r, q, r.st, r.sub, r.stopw, r.contw)
<1>1. q \in ProcessType
  BY DEF ProcessType, ToGroup
<1> QED BY <1>1 DEF ProcessType, ToGroup, SoftRowOf, SoftRow

ToPgid(r, g) == [r EXCEPT !.pgid = g]
LEMMA RowPgid ==
  ASSUME NEW r \in ProcessType, r.st # "none", NEW g \in Pid, NEW q, q = ToPgid(r, g)
  PROVE  SoftRowOf(r, q, r.st, r.sub, r.stopw, r.contw)
<1>1. q \in ProcessType
  BY DEF ProcessType, ToPgid
<1> QED BY <1>1 DEF ProcessType, ToPgid, SoftRowOf, SoftRow

\* A task that is not started does not notice the change of row p.
Unnoticed(p, s, b) ==
  /\ (\E t \in proc[p].tasks : sched[t] # "new") \/ (s \in {"run", "stop"} /\ b = proc[p].sub)
  /\ s = proc[p].st \/ s \in {"run", "stop"}
SoftDone(p, r, b) ==
  /\ Table(proc') /\ Trims(proc, proc') /\ Live(proc') = Live(proc) /\ proc'[p] = r
  /\ \A q \in Pid \ {p} : proc'[q] = proc[q]
  /\ \A x \in Task : (Listed(proc', x) <=> Listed(proc, x)) /\ (IsDead(proc', x) <=> IsDead(proc, x))
  /\ (\A n : n = subreapers + One(b) - One(proc[p].sub) => Counted(proc', n))
LEMMA SoftStep ==
  ASSUME RInv, NEW p \in Live(proc), NEW r, NEW s, NEW b, NEW sw, NEW cw, SoftRowOf(proc[p], r, s, b, sw, cw),
         Unnoticed(p, s, b), proc' = Into(proc, p, r)
  PROVE  SoftDone(p, r, b)
<1>0. p \in Pid /\ Table(proc) /\ proc \in TableType
  BY Tables DEF RInv, Live
<1>1. r \in ProcessType /\ SoftRow(proc[p], r) /\ r.st = s /\ r.sub = b
  BY DEF SoftRowOf
<1>2. Unfelt(proc, p, r)
  BY <1>1 DEF Unfelt, SoftRow, Unnoticed
<1>3. p = Init1 => r.st \in {"run", "stop"}
  BY <1>1, Tables DEF Tree, InitRuns, Unnoticed
<1>4. /\ Table(proc') /\ Trims(proc, proc') /\ Live(proc') = Live(proc) /\ proc'[p] = r
      /\ \A q \in Pid \ {p} : proc'[q] = proc[q]
  BY <1>0, <1>1, <1>2, <1>3, SoftTable
<1>5. \A q \in Pid : proc'[q].tasks = proc[q].tasks /\ proc'[q].dead = proc[q].dead
  BY <1>1, <1>4 DEF SoftRow
<1>6. \A x \in Task : (Listed(proc', x) <=> Listed(proc, x)) /\ (IsDead(proc', x) <=> IsDead(proc, x))
  BY <1>5 DEF Listed, IsDead
<1>7. Counted(proc', subreapers + One(proc'[p].sub) - One(proc[p].sub))
  <2>1. proc' \in TableType /\ Counted(proc, subreapers) /\ \A q \in Pid \ {p} : proc'[q].sub = proc[q].sub
    BY <1>4 DEF Table, Tree, RInv
  <2> QED BY <1>0, <2>1, CountedChanged
<1>8. \A n : n = subreapers + One(b) - One(proc[p].sub) => Counted(proc', n)
  BY <1>1, <1>4, <1>7
<1> QED BY <1>4, <1>6, <1>8 DEF SoftDone

LEMMA SoftCalm ==
  ASSUME NEW p \in Pid, NEW r, NEW s, NEW b, NEW sw, NEW cw, SoftRowOf(proc[p], r, s, b, sw, cw),
         Live(proc') = Live(proc), proc'[p] = r, \A q \in Pid \ {p} : proc'[q] = proc[q],
         Down(proc[p].st) => Down(s)
  PROVE  /\ Reborn(proc, proc') /\ ((Event(r) => Event(proc[p])) => Soft)
<1>1. ASSUME NEW q \in Pid
      PROVE  proc'[q].born = proc[q].born /\ proc'[q].parent = proc[q].parent /\ (Down(proc[q].st) => Down(proc'[q].st))
  <2>1. CASE q = p
    BY <2>1 DEF SoftRowOf, SoftRow
  <2>2. CASE q # p
    <3>1. proc'[q] = proc[q]
      BY <2>2
    <3> QED BY <3>1
  <2> QED BY <2>1, <2>2
<1>2. Reborn(proc, proc')
  BY <1>1 DEF Reborn, Live
<1>3. ASSUME Event(r) => Event(proc[p]) PROVE Quiet(proc, proc')
  BY <1>3 DEF Quiet, Live
<1> QED BY <1>2, <1>3 DEF Soft

LEMMA MayGoIn ==
  ASSUME NEW P, NEW n, NEW t \in Task, Listed(P, t), ~IsDead(P, t),
         NEW l \in {"user", "wait", "block", "stopblock", "record", "stopnote", "contwake", "reap"}, l = "record" => t # Init1,
         NEW a \in Pid \cup {0}, l \in {"stopnote", "contwake", "reap"} => a \in Pid
  PROVE  Goes(P, pc, arg, n, t, l, a)
  BY DEF Goes, PCs, Creating, Ending

LEMMA Adding == ASSUME RInv PROVE \A b \in BOOLEAN : subreapers = subreapers + One(b) - One(b)
<1>1. subreapers \in Nat
  <2>1. Cardinality({p \in Pid : proc[p].sub}) \in Nat
    BY Consts, FS_Subset, FS_CardinalityType
  <2> QED BY <2>1 DEF RInv, Counted
<1> QED BY <1>1 DEF One

LEMMA LiveRow ==
  ASSUME RInv, NEW p \in Live(proc)
  PROVE  /\ p \in Pid /\ proc[p] \in ProcessType /\ proc[p].st # "none" /\ proc[p].sub \in BOOLEAN
         /\ proc[p].stopw \in BOOLEAN /\ proc[p].contw \in BOOLEAN
         /\ proc = [q \in Pid |-> proc[q]]
         /\ subreapers = subreapers + One(proc[p].sub) - One(proc[p].sub)
<1>1. proc \in TableType /\ p \in Pid /\ proc[p].st # "none"
  BY Tables DEF Live
<1>2. proc[p] \in ProcessType
  BY <1>1 DEF TableType
<1>3. proc[p].sub \in BOOLEAN /\ proc[p].stopw \in BOOLEAN /\ proc[p].contw \in BOOLEAN
  BY <1>2 DEF ProcessType
<1> QED BY <1>1, <1>2, <1>3, Adding DEF TableType

\* Only p, which sees the event, may have news.
NewsOf(p) == Reborn(proc, proc') /\ \A q \in Live(proc') \ {p} : Event(proc'[q]) => Event(proc[q])

LEMMA StopStep == ASSUME RInv, NEW t \in Task, NEW p \in Pid, StopDispatch(t, p) PROVE RInv' /\ NewsOf(p)
<1>1. /\ pc[t] = "user" /\ p \in Live(proc) /\ ~Down(proc[p].st) /\ Goto(t, "stopnote", p)
      /\ proc' = mark_process_stopped(proc, p)
  BY DEF StopDispatch, User, AtUser, process_exists, Live
<1>2. UNCHANGED <<sched, tid, nextPid, nextTid, subreapers>>
  BY DEF StopDispatch
<1>3. Listed(proc, t) /\ ~IsDead(proc, t) /\ sched[t] \in Running
  BY <1>1, Active DEF Ending
<1>4. CASE proc[p].st = "stop"
  <2>1. proc' = proc
    BY <1>4 DEF mark_process_stopped, StopDispatch
  <2>2. Goes(proc, pc, arg, nextPid, t, "stopnote", p)
    BY <1>3, MayGoIn
  <2>3. RInv'
    BY <1>1, <1>2, <1>3, <2>1, <2>2, OnlyMoves, Tables, LikeSame
  <2> QED BY <2>1, <2>3, SoftSame DEF Soft, NewsOf, Quiet
<1>5. CASE proc[p].st # "stop"
  <2> DEFINE r == ToStopped(proc[p])
  <2>1. proc' = Into(proc, p, r)
    BY <1>1, <1>5 DEF mark_process_stopped, Into, ToStopped
  <2>2. /\ proc[p] \in ProcessType /\ proc[p].st # "none" /\ proc[p].sub \in BOOLEAN
        /\ subreapers = subreapers + One(proc[p].sub) - One(proc[p].sub)
    BY <1>1, LiveRow
  <2>3. SoftRowOf(proc[p], r, "stop", proc[p].sub, TRUE, FALSE)
    BY <2>2, RowStopped
  <2> HIDE DEF r
  <2>9. Unnoticed(p, "stop", proc[p].sub)
    BY DEF Unnoticed
  <2>10. SoftDone(p, r, proc[p].sub)
    BY <1>1, <2>1, <2>3, <2>9, SoftStep
  <2>4. /\ Table(proc') /\ Trims(proc, proc') /\ Live(proc') = Live(proc) /\ proc'[p] = r
        /\ \A q \in Pid \ {p} : proc'[q] = proc[q]
        /\ \A x \in Task : (Listed(proc', x) <=> Listed(proc, x)) /\ (IsDead(proc', x) <=> IsDead(proc, x))
        /\ (\A n : n = subreapers + One(proc[p].sub) - One(proc[p].sub) => Counted(proc', n))
    BY <2>10 DEF SoftDone
  <2>5. Counted(proc', subreapers')
    BY <1>2, <2>2, <2>4
  <2>6. Goes(proc', pc, arg, nextPid, t, "stopnote", p)
    BY <1>3, <2>4, MayGoIn
  <2>7. RInv'
    BY <1>1, <1>2, <1>3, <2>4, <2>5, <2>6, TrimsMoves, Tables, LikeSame
  <2>8. Reborn(proc, proc')
    BY <1>1, <2>3, <2>4, SoftCalm
  <2> QED BY <2>4, <2>7, <2>8 DEF NewsOf, Live
<1> QED BY <1>4, <1>5

LEMMA ContinueStep == ASSUME RInv, NEW t \in Task, NEW p \in Pid, ContinueDispatch(t, p) PROVE RInv' /\ NewsOf(p)
<1>1. /\ pc[t] = "user" /\ p \in Live(proc) /\ proc[p].st = "stop" /\ Goto(t, "contwake", p)
      /\ proc' = mark_process_continued(proc, p)
  BY DEF ContinueDispatch, User, AtUser, process_exists, Live
<1>2. UNCHANGED <<sched, tid, nextPid, nextTid, subreapers>>
  BY DEF ContinueDispatch
<1>3. Listed(proc, t) /\ ~IsDead(proc, t) /\ sched[t] \in Running
  BY <1>1, Active DEF Ending
<1> DEFINE r == ToContinued(proc[p])
<1>4. proc' = Into(proc, p, r)
  BY <1>1 DEF mark_process_continued, Into, ToContinued
<1>5. /\ proc[p] \in ProcessType /\ proc[p].st # "none" /\ proc[p].sub \in BOOLEAN
      /\ subreapers = subreapers + One(proc[p].sub) - One(proc[p].sub)
  BY <1>1, LiveRow
<1>6. SoftRowOf(proc[p], r, "run", proc[p].sub, FALSE, TRUE)
  BY <1>5, RowContinued
<1> HIDE DEF r
<1>12. Unnoticed(p, "run", proc[p].sub)
  BY DEF Unnoticed
<1>13. SoftDone(p, r, proc[p].sub)
  BY <1>1, <1>4, <1>6, <1>12, SoftStep
<1>7. /\ Table(proc') /\ Trims(proc, proc') /\ Live(proc') = Live(proc) /\ proc'[p] = r
      /\ \A q \in Pid \ {p} : proc'[q] = proc[q]
      /\ \A x \in Task : (Listed(proc', x) <=> Listed(proc, x)) /\ (IsDead(proc', x) <=> IsDead(proc, x))
      /\ (\A n : n = subreapers + One(proc[p].sub) - One(proc[p].sub) => Counted(proc', n))
  BY <1>13 DEF SoftDone
<1>8. Counted(proc', subreapers')
  BY <1>2, <1>5, <1>7
<1>9. Goes(proc', pc, arg, nextPid, t, "contwake", p)
  BY <1>3, <1>7, MayGoIn
<1>10. RInv'
  BY <1>1, <1>2, <1>3, <1>7, <1>8, <1>9, TrimsMoves, Tables, LikeSame
<1>11. Reborn(proc, proc')
  BY <1>1, <1>6, <1>7, SoftCalm DEF Down
<1> QED BY <1>7, <1>10, <1>11 DEF NewsOf, Live

LEMMA BeginExecStep == ASSUME RInv, NEW t \in Task, begin_process_exec(t) PROVE RInv' /\ Soft
<1> DEFINE p == Me(t)
           r == ToExec(proc[p])
<1>1. pc[t] = "user" /\ Goto(t, "exec", 0) /\ proc[p].lead = t
  BY DEF begin_process_exec, User, AtUser
<1>2. UNCHANGED <<sched, tid, nextPid, nextTid, subreapers>>
  BY DEF begin_process_exec
<1>3. /\ Listed(proc, t) /\ ~IsDead(proc, t) /\ sched[t] \in Running /\ sched[t] # "new"
      /\ p \in Live(proc) /\ t \in proc[p].tasks /\ \A q \in Pid : t \in proc[q].tasks => q = p
  BY <1>1, Active DEF Ending
<1>4. proc' = Into(proc, p, r)
  BY DEF begin_process_exec, Into, ToExec
<1> HIDE DEF p
<1>5. /\ proc[p] \in ProcessType /\ proc[p].st # "none" /\ proc[p].sub \in BOOLEAN /\ p \in Pid
      /\ subreapers = subreapers + One(proc[p].sub) - One(proc[p].sub)
  BY <1>3, LiveRow
<1>6. SoftRowOf(proc[p], r, proc[p].st, proc[p].sub, proc[p].stopw, proc[p].contw)
  BY <1>5, RowExec
<1> HIDE DEF r
<1>12. Unnoticed(p, proc[p].st, proc[p].sub)
  BY <1>3 DEF Unnoticed
<1>13. SoftDone(p, r, proc[p].sub)
  BY <1>3, <1>4, <1>6, <1>12, SoftStep
<1>7. /\ Table(proc') /\ Trims(proc, proc') /\ Live(proc') = Live(proc) /\ proc'[p] = r
      /\ \A q \in Pid \ {p} : proc'[q] = proc[q]
      /\ \A x \in Task : (Listed(proc', x) <=> Listed(proc, x)) /\ (IsDead(proc', x) <=> IsDead(proc, x))
      /\ (\A n : n = subreapers + One(proc[p].sub) - One(proc[p].sub) => Counted(proc', n))
  BY <1>13 DEF SoftDone
<1>8. Counted(proc', subreapers')
  BY <1>2, <1>5, <1>7
<1>9. Goes(proc', pc, arg, nextPid, t, "exec", 0)
  <2>1. ASSUME NEW q \in Pid, t \in proc'[q].tasks PROVE proc'[q].lead = t
    <3>1. q = p
      BY <1>3, <1>7, <2>1
    <3> QED BY <1>1, <1>6, <1>7, <3>1 DEF SoftRowOf, SoftRow, p
  <2> QED BY <1>3, <1>7, <2>1 DEF Goes, PCs, Creating, Ending
<1>10. RInv'
  BY <1>1, <1>2, <1>3, <1>7, <1>8, <1>9, TrimsMoves, Tables, LikeSame
<1>11. Soft
  <2>1. Event(r) => Event(proc[p])
    BY <1>6 DEF SoftRowOf, Event
  <2> QED BY <1>5, <1>6, <1>7, <2>1, SoftCalm
<1> QED BY <1>10, <1>11

LEMMA SoftShift ==
  ASSUME RInv, NEW p \in Live(proc), NEW r, NEW b, SoftRowOf(proc[p], r, proc[p].st, b, proc[p].stopw, proc[p].contw),
         Unnoticed(p, proc[p].st, b), proc' = Into(proc, p, r),
         subreapers' = subreapers + One(b) - One(proc[p].sub), UNCHANGED <<sched, pc, arg, tid, nextPid, nextTid>>
  PROVE  RInv' /\ Soft
<1>1. SoftDone(p, r, b)
  BY SoftStep
<1>2. Table(proc') /\ Trims(proc, proc') /\ Counted(proc', subreapers')
  BY <1>1 DEF SoftDone
<1>3. RInv'
  BY <1>2, TrimsShifts, Tables, LikeSame
<1>4. Event(r) => Event(proc[p])
  BY DEF SoftRowOf, Event
<1>5. p \in Pid
  BY LiveRow
<1>6. Live(proc') = Live(proc) /\ proc'[p] = r /\ \A q \in Pid \ {p} : proc'[q] = proc[q]
  BY <1>1 DEF SoftDone
<1>7. Soft
  BY <1>4, <1>5, <1>6, SoftCalm
<1> QED BY <1>3, <1>7

LEMMA PrctlStep == ASSUME RInv, NEW t \in Task, sys_prctl(t) PROVE RInv' /\ Soft
<1> DEFINE p == Me(t)
<1>1. pc[t] = "user"
  BY DEF sys_prctl, User, AtUser
<1>2. UNCHANGED <<sched, pc, arg, tid, nextPid, nextTid>>
  BY DEF sys_prctl
<1>3. p \in Live(proc) /\ t \in proc[p].tasks /\ sched[t] # "new"
  BY <1>1, Active DEF Ending
<1>4. CASE \E on \in BOOLEAN : set_process_child_subreaper(p, on)
  <2>1. PICK on \in BOOLEAN : set_process_child_subreaper(p, on)
    BY <1>4
  <2> DEFINE r == ToSub(proc[p], on)
  <2>2. proc' = Into(proc, p, r) /\ subreapers' = subreapers + One(on) - One(proc[p].sub)
    BY <2>1 DEF set_process_child_subreaper, Into, ToSub, One
  <2> HIDE DEF p
  <2>3. proc[p] \in ProcessType /\ proc[p].st # "none"
    BY <1>3, LiveRow
  <2>4. SoftRowOf(proc[p], r, proc[p].st, on, proc[p].stopw, proc[p].contw)
    BY <2>3, RowSub
  <2> HIDE DEF r
  <2>5. Unnoticed(p, proc[p].st, on)
    BY <1>3 DEF Unnoticed
  <2> QED BY <1>2, <1>3, <2>2, <2>4, <2>5, SoftShift
<1>5. CASE set_parent_death_signal(p)
  <2> DEFINE r == ToDsig(proc[p])
  <2>2. proc' = Into(proc, p, r) /\ subreapers' = subreapers
    BY <1>5 DEF set_parent_death_signal, Into, ToDsig
  <2> HIDE DEF p
  <2>3. proc[p] \in ProcessType /\ proc[p].st # "none" /\ subreapers = subreapers + One(proc[p].sub) - One(proc[p].sub)
    BY <1>3, LiveRow
  <2>4. SoftRowOf(proc[p], r, proc[p].st, proc[p].sub, proc[p].stopw, proc[p].contw)
    BY <2>3, RowDsig
  <2> HIDE DEF r
  <2>5. Unnoticed(p, proc[p].st, proc[p].sub)
    BY <1>3 DEF Unnoticed
  <2>6. subreapers' = subreapers + One(proc[p].sub) - One(proc[p].sub)
    BY <2>2, <2>3
  <2> QED BY <1>2, <1>3, <2>2, <2>4, <2>5, <2>6, SoftShift
<1> QED BY <1>4, <1>5 DEF sys_prctl

LEMMA SessionStep == ASSUME RInv, NEW t \in Task, create_session_for_process(t) PROVE RInv' /\ Soft
<1> DEFINE p == Me(t)
           r == ToGroup(proc[p], p, p)
<1>1. pc[t] = "user" /\ proc' = [proc EXCEPT ![p].pgid = p, ![p].sid = p]
  BY DEF create_session_for_process, User, AtUser
<1>2. UNCHANGED <<sched, pc, arg, tid, nextPid, nextTid, subreapers>>
  BY DEF create_session_for_process
<1>3. p \in Live(proc) /\ p \in Pid /\ t \in proc[p].tasks /\ sched[t] # "new"
  BY <1>1, Active DEF Ending
<1> HIDE DEF p
<1>4. /\ proc[p] \in ProcessType /\ proc[p].st # "none" /\ proc = [q \in Pid |-> proc[q]]
      /\ subreapers = subreapers + One(proc[p].sub) - One(proc[p].sub)
  BY <1>3, LiveRow
<1>5. proc' = Into(proc, p, r)
  BY <1>1, <1>3, <1>4 DEF Into, ToGroup
<1>6. SoftRowOf(proc[p], r, proc[p].st, proc[p].sub, proc[p].stopw, proc[p].contw)
  BY <1>3, <1>4, RowGroup
<1> HIDE DEF r
<1>7. Unnoticed(p, proc[p].st, proc[p].sub)
  BY <1>3 DEF Unnoticed
<1>8. subreapers' = subreapers + One(proc[p].sub) - One(proc[p].sub)
  BY <1>2, <1>4
<1> QED BY <1>2, <1>3, <1>5, <1>6, <1>7, <1>8, SoftShift

LEMMA SetpgidStep == ASSUME RInv, NEW t \in Task, NEW p \in Pid, NEW g \in Pid, sys_setpgid(t, p, g) PROVE RInv' /\ Soft
<1> DEFINE r == ToPgid(proc[p], g)
<1>1. pc[t] = "user" /\ p \in Live(proc)
  BY DEF sys_setpgid, User, AtUser, process_exists, Live
<1>2. UNCHANGED <<sched, pc, arg, tid, nextPid, nextTid, subreapers>>
  BY DEF sys_setpgid
<1>3. proc' = Into(proc, p, r)
  BY DEF sys_setpgid, Into, ToPgid
<1>4. /\ proc[p] \in ProcessType /\ proc[p].st # "none"
      /\ subreapers = subreapers + One(proc[p].sub) - One(proc[p].sub)
  BY <1>1, LiveRow
<1>5. SoftRowOf(proc[p], r, proc[p].st, proc[p].sub, proc[p].stopw, proc[p].contw)
  BY <1>4, RowPgid
<1> HIDE DEF r
<1>6. Unnoticed(p, proc[p].st, proc[p].sub)
  <2>1. t \in proc[Me(t)].tasks /\ sched[t] # "new"
    BY <1>1, Active DEF Ending
  <2>2. CASE p = Me(t)
    BY <2>1, <2>2 DEF Unnoticed
  <2>3. CASE ~Down(proc[p].st)
    BY <1>4, <2>3 DEF Unnoticed, Down, ProcessType, States
  <2> QED BY <2>2, <2>3 DEF sys_setpgid
<1>7. subreapers' = subreapers + One(proc[p].sub) - One(proc[p].sub)
  BY <1>2, <1>4
<1> QED BY <1>1, <1>2, <1>3, <1>5, <1>6, <1>7, SoftShift

\* An event is consumed.
Consumes(t, c, r, sw, cw) ==
  /\ pc[t] = "wait" /\ Goto(t, "user", 0) /\ c \in Live(proc) /\ proc[c].st \in {"run", "stop"}
  /\ SoftRowOf(proc[c], r, proc[c].st, proc[c].sub, sw, cw) /\ proc' = Into(proc, c, r)
  /\ sw => proc[c].stopw
  /\ cw => proc[c].contw
  /\ UNCHANGED <<sched, tid, nextPid, nextTid, subreapers>>
LEMMA ConsumedStep ==
  ASSUME RInv, NEW t \in Task, NEW c, NEW r, NEW sw, NEW cw, Consumes(t, c, r, sw, cw)
  PROVE  RInv' /\ Soft
<1>0. /\ pc[t] = "wait" /\ Goto(t, "user", 0) /\ c \in Live(proc) /\ proc[c].st \in {"run", "stop"}
      /\ SoftRowOf(proc[c], r, proc[c].st, proc[c].sub, sw, cw) /\ proc' = Into(proc, c, r)
      /\ (sw => proc[c].stopw) /\ (cw => proc[c].contw)
      /\ UNCHANGED <<sched, tid, nextPid, nextTid, subreapers>>
  BY DEF Consumes
<1>1. Unnoticed(c, proc[c].st, proc[c].sub)
  BY <1>0 DEF Unnoticed
<1>2. SoftDone(c, r, proc[c].sub)
  BY <1>0, <1>1, SoftStep
<1>3. c \in Pid /\ subreapers' = subreapers + One(proc[c].sub) - One(proc[c].sub)
  BY <1>0, LiveRow
<1>4. Listed(proc, t) /\ ~IsDead(proc, t) /\ sched[t] \in Running
  BY <1>0, Active DEF Ending
<1>5. Listed(proc', t) /\ ~IsDead(proc', t) /\ Table(proc') /\ Trims(proc, proc') /\ Counted(proc', subreapers')
  BY <1>2, <1>3, <1>4 DEF SoftDone
<1>6. Goes(proc', pc, arg, nextPid, t, "user", 0)
  BY <1>5, MayGoIn
<1>7. RInv'
  BY <1>0, <1>4, <1>5, <1>6, TrimsMoves, Tables, LikeSame
<1>8. Live(proc') = Live(proc) /\ proc'[c] = r /\ \A q \in Pid \ {c} : proc'[q] = proc[q]
  BY <1>2 DEF SoftDone
<1>9. Event(r) => Event(proc[c])
  BY <1>0 DEF SoftRowOf, Event
<1>10. Soft
  BY <1>0, <1>3, <1>8, <1>9, SoftCalm
<1> QED BY <1>7, <1>10

LEMMA WaitChildStep == ASSUME RInv, NEW t \in Task, wait_for_child(t) PROVE RInv' /\ Soft
<1> DEFINE p == Me(t)
<1>1. pc[t] = "wait" /\ UNCHANGED <<sched, tid, nextPid, nextTid, subreapers>>
  BY DEF wait_for_child
<1>2. sched[t] \in Running /\ Listed(proc, t) /\ ~IsDead(proc, t)
  BY <1>1, Active DEF Ending
<1>3. ASSUME NEW l \in {"user", "wait", "block", "reap"}, NEW a \in Pid \cup {0}, l = "reap" => a \in Pid,
             Goto(t, l, a), UNCHANGED proc
      PROVE  RInv' /\ Soft
  <2>1. Goes(proc, pc, arg, nextPid, t, l, a)
    BY <1>2, <1>3, MayGoIn
  <2>2. RInv'
    BY <1>1, <1>2, <1>3, <2>1, OnlyMoves, Tables, LikeSame
  <2> QED BY <1>3, <2>2, SoftSame
<1>4. CASE find_exited_child_process(p) # {}
  <2>1. PICK c \in find_exited_child_process(p), nw \in Nowait :
          Goto(t, IF nw THEN "user" ELSE "reap", IF nw THEN 0 ELSE c)
    BY <1>4 DEF wait_for_child
  <2>2. UNCHANGED proc /\ c \in Pid
    BY <1>4 DEF wait_for_child, find_exited_child_process, collect_child_pids, Live
  <2>3. CASE nw
    BY <1>3, <2>1, <2>2, <2>3
  <2>4. CASE ~nw
    BY <1>3, <2>1, <2>2, <2>4
  <2> QED BY <2>3, <2>4
<1>5. CASE find_exited_child_process(p) = {} /\ find_stopped_child_process(p) # {}
  <2>1. PICK c \in find_stopped_child_process(p), nw \in Nowait : proc' = consume_stop_wait(proc, c, nw)
    BY <1>5 DEF wait_for_child
  <2>2. Goto(t, "user", 0)
    BY <1>5 DEF wait_for_child
  <2>3. c \in Live(proc) /\ proc[c].st = "stop" /\ proc[c].stopw
    BY DEF find_stopped_child_process, collect_child_pids
  <2>4. nw \in BOOLEAN
    BY DEF Nowait
  <2> DEFINE b == proc[c].stopw /\ nw
             r == ToStopw(proc[c], b)
  <2>5. proc' = Into(proc, c, r)
    BY <2>1 DEF consume_stop_wait, Into, ToStopw
  <2>6. proc[c] \in ProcessType /\ proc[c].st # "none" /\ b \in BOOLEAN
    BY <2>3, LiveRow
  <2> HIDE DEF b
  <2>7. SoftRowOf(proc[c], r, proc[c].st, proc[c].sub, b, proc[c].contw)
    BY <2>6, RowStopw
  <2> HIDE DEF r
  <2>8. b => proc[c].stopw
    BY <2>3
  <2>9. Consumes(t, c, r, b, proc[c].contw)
    BY <1>1, <2>2, <2>3, <2>5, <2>7, <2>8 DEF Consumes
  <2> QED BY <2>9, ConsumedStep
<1>6. CASE find_exited_child_process(p) = {} /\ find_stopped_child_process(p) = {} /\ find_continued_child_process(p) # {}
  <2>1. PICK c \in find_continued_child_process(p), nw \in Nowait : proc' = consume_continued_wait(proc, c, nw)
    BY <1>6 DEF wait_for_child
  <2>2. Goto(t, "user", 0)
    BY <1>6 DEF wait_for_child
  <2>3. c \in Live(proc) /\ proc[c].st = "run" /\ proc[c].contw
    BY DEF find_continued_child_process, collect_child_pids
  <2>4. nw \in BOOLEAN
    BY DEF Nowait
  <2> DEFINE b == proc[c].contw /\ nw
             r == ToContw(proc[c], b)
  <2>5. proc' = Into(proc, c, r)
    BY <2>1 DEF consume_continued_wait, Into, ToContw
  <2>6. proc[c] \in ProcessType /\ proc[c].st # "none" /\ b \in BOOLEAN
    BY <2>3, LiveRow
  <2> HIDE DEF b
  <2>7. SoftRowOf(proc[c], r, proc[c].st, proc[c].sub, proc[c].stopw, b)
    BY <2>6, RowContw
  <2> HIDE DEF r
  <2>8. b => proc[c].contw
    BY <2>3
  <2>9. Consumes(t, c, r, proc[c].stopw, b)
    BY <1>1, <2>2, <2>3, <2>5, <2>7, <2>8 DEF Consumes
  <2> QED BY <2>9, ConsumedStep
<1>7. CASE find_exited_child_process(p) = {} /\ find_stopped_child_process(p) = {} /\ find_continued_child_process(p) = {}
  <2>1. Goto(t, IF has_child_process(p) THEN "block" ELSE "user", 0) /\ UNCHANGED proc
    BY <1>7 DEF wait_for_child
  <2>2. CASE has_child_process(p)
    BY <1>3, <2>1, <2>2
  <2>3. CASE ~has_child_process(p)
    BY <1>3, <2>1, <2>3
  <2> QED BY <2>2, <2>3
<1> QED BY <1>4, <1>5, <1>6, <1>7

LEMMA TrimKeeps ==
  ASSUME NEW P, NEW R, Trims(P, R), NEW t \in Task, Listed(P, t), ~IsDead(P, t)
  PROVE  Listed(R, t) /\ ~IsDead(R, t)
<1>1. \A q \in Pid : Trimmed(P[q], R[q])
  BY DEF Trims
<1> QED BY <1>1 DEF Trimmed, Listed, IsDead

LEMMA CalmTwice ==
  ASSUME NEW P, NEW Q, NEW R, Calm(P, Q), Calm(Q, R) PROVE Calm(P, R)
<1>1. SameSubs(P, R)
  BY DEF Calm, SameSubs
<1>2. \A q \in Live(R) : q \in Live(Q) /\ q \in Live(P) /\ R[q].born = P[q].born
  BY DEF Calm, Reborn
<1>3. \A q \in Live(R) : Down(P[q].st) => Down(R[q].st)
  BY <1>2 DEF Calm, Reborn
<1>4. \A q \in Live(Q) : Down(P[q].st) => Down(Q[q].st)
  BY DEF Calm, Reborn
<1>5. ASSUME NEW q \in Live(R) PROVE R[q].parent = P[q].parent \/ GoesUp(P, R, q)
  <2>1. Q[q].parent = P[q].parent \/ GoesUp(P, Q, q)
    BY <1>2 DEF Calm, Reborn
  <2>2. R[q].parent = Q[q].parent \/ GoesUp(Q, R, q)
    BY DEF Calm, Reborn
  <2>3. \A x : (x \notin Live(Q) \/ Down(Q[x].st)) => (x \notin Live(R) \/ Down(R[x].st))
    BY DEF Calm, Reborn
  <2>4. \A x : x \in Live(Q) /\ ~Down(Q[x].st) => x \in Live(P) /\ ~Down(P[x].st)
    BY <1>4 DEF Calm, Reborn
  <2> QED BY <2>1, <2>2, <2>3, <2>4 DEF GoesUp
<1>6. Quiet(P, R)
  BY <1>2 DEF Calm, Quiet
<1> QED BY <1>1, <1>2, <1>3, <1>5, <1>6 DEF Calm, Reborn

LEMMA ExitGroupStep == ASSUME RInv, NEW t \in Task, exit_group_with_wait_code(t) PROVE RInv' /\ Soft
<1> DEFINE p == Me(t)
           P == take_exited_member_tasks(proc, p)
           X == P[p].tasks \ {t}
           s == reap_exited_member_threads(proc, sched, p)
<1>1. /\ pc[t] = "user" /\ p # Init1 /\ proc' = mark_process_exited(P, p) /\ sched' = Interrupted(s, X)
      /\ Goto(t, "record", 0) /\ UNCHANGED <<tid, nextPid, nextTid, subreapers>>
  BY DEF exit_group_with_wait_code, User, AtUser, ExitPath
<1>2. /\ p \in Live(proc) /\ p \in Pid /\ t \in proc[p].tasks /\ t \notin proc[p].dead /\ sched[t] \in Running
      /\ sched[t] # "new" /\ Listed(proc, t) /\ ~IsDead(proc, t) /\ \A q \in Pid : t \in proc[q].tasks => q = p
  BY <1>1, Active DEF Ending
<1>3. t # Init1
  BY <1>1, <1>2, Tables, Consts DEF Tree, InitRuns
<1>4. sched' \in [Task -> SchedStates] /\ \A x \in Task : Like(sched[x], sched'[x])
  <2>1. ASSUME NEW x \in Task
        PROVE  /\ sched'[x] \in SchedStates /\ Like(sched[x], sched'[x])
    <3>1. sched[x] \in SchedStates
      BY Tables
    <3>2. s[x] = sched[x] \/ (sched[x] = "exited" /\ s[x] = "gone")
      BY DEF reap_exited_member_threads
    <3>3. sched'[x] = s[x] \/ (s[x] \in Running /\ sched'[x] \in Running)
      <4> HIDE DEF s, X
      <4> QED BY <1>1 DEF Interrupted, Running
    <3> HIDE DEF s
    <3> QED BY <3>1, <3>2, <3>3 DEF Like, Running, SchedStates
  <2>2. sched' = [x \in Task |-> sched'[x]]
    <3> HIDE DEF s, X
    <3> QED BY <1>1 DEF Interrupted
  <2> QED BY <2>1, <2>2
<1> HIDE DEF p, P, X, s
<1>5. /\ Table(P) /\ Trims(proc, P) /\ Calm(proc, P) /\ Live(P) = Live(proc)
  BY <1>2, MembersTaken DEF P, RInv
<1>6. p \in Live(P) /\ t \in P[p].tasks /\ t \notin P[p].dead
  BY <1>2, <1>5 DEF Trims, Trimmed
<1>7. Table(proc') /\ Trims(P, proc') /\ Calm(P, proc')
  BY <1>1, <1>2, <1>5, <1>6, ProcessExits
<1>8. Trims(proc, proc') /\ Calm(proc, proc')
  BY <1>5, <1>7, TrimsTwice, CalmTwice
<1>9. Listed(proc', t) /\ ~IsDead(proc', t)
  BY <1>2, <1>8, TrimKeeps
<1>10. Counted(proc', subreapers')
  BY <1>1, <1>8, CountedSame DEF Calm, RInv
<1>11. Goes(proc', pc, arg, nextPid, t, "record", 0)
  BY <1>3, <1>9, MayGoIn
<1>12. RInv'
  BY <1>1, <1>2, <1>4, <1>7, <1>8, <1>10, <1>11, TrimsMoves
<1> QED BY <1>8, <1>12 DEF Calm, Soft

\* An exit that completes the process is on its way to the parent.
Announced(t) == pc'[t] = "notify" /\ arg'[t] \in Pid /\ NewsOf(arg'[t])

LEMMA RecordStep == ASSUME RInv, NEW t \in Task, record_current_task_exit(t) PROVE RInv' /\ (Soft \/ Announced(t))
<1> DEFINE p == Me(t)
           P == mark_task_exited(proc, p, t)
           l == IF P[p].st = "exited" /\ proc[p].st # "exited" THEN "notify" ELSE "finish"
           a == IF P[p].st = "exited" /\ proc[p].st # "exited" THEN p ELSE 0
<1>1. pc[t] = "record" /\ UNCHANGED <<sched, tid, nextPid, nextTid, subreapers>>
  BY DEF record_current_task_exit
<1>2. /\ PidsOf(t) # {} /\ p \in Live(proc) /\ p \in Pid /\ t \in proc[p].tasks /\ sched[t] \in Running /\ sched[t] # "new"
  BY <1>1, Active DEF Ending
<1>3. t # Init1
  BY <1>1 DEF RInv, Places
<1>4. proc' = P /\ Goto(t, l, a)
  BY <1>2 DEF record_current_task_exit
<1> HIDE DEF p
<1>5. /\ Table(proc') /\ Live(proc') = Live(proc) /\ Died(proc, proc', p, t) /\ SourcesFrom(proc, proc') /\ ~Waits(proc', t)
      /\ SameSubs(proc, proc') /\ Reborn(proc, proc')
      /\ \A q \in Live(proc') : q # p \/ proc'[p].st = proc[p].st => (Event(proc'[q]) => Event(proc[q]))
      /\ proc'[p].st = proc[p].st \/ proc'[p].st = "exited"
  <2>1. Table(proc)
    BY DEF RInv
  <2> HIDE DEF P
  <2>2. \A R : R = mark_task_exited(proc, p, t) =>
            /\ Table(R) /\ Live(R) = Live(proc) /\ Died(proc, R, p, t) /\ SourcesFrom(proc, R) /\ ~Waits(R, t)
            /\ SameSubs(proc, R) /\ Reborn(proc, R)
            /\ \A q \in Live(R) : q # p \/ R[p].st = proc[p].st => (Event(R[q]) => Event(proc[q]))
            /\ R[p].st = proc[p].st \/ R[p].st = "exited"
    BY <1>2, <1>3, <2>1, TaskExits
  <2> QED BY <1>4, <2>2 DEF P
<1>6. P = proc'
  BY <1>4
<1> HIDE DEF P
<1>7. l \in Ending /\ a \in Task \cup Pid \cup {0} /\ (l = "notify" => a \in Pid)
  BY <1>2 DEF Ending
<1>8. pc' = [pc EXCEPT ![t] = l] /\ arg' = [arg EXCEPT ![t] = a] /\ sched' = [sched EXCEPT ![t] = sched[t]]
  BY <1>1, <1>4, Tables DEF Goto
<1>9. Places(proc', sched', pc', arg', nextPid)
  <2>1. Places(proc, sched, pc, arg, nextPid) /\ nextPid \in Nat /\ Tree(proc) /\ Tree(proc')
    BY <1>5, Tables DEF RInv, Table
  <2> HIDE DEF l, a
  <2>2. Dying(proc, proc', p, t, t)
    BY <1>2, <1>3, <1>5, <2>1 DEF Dying
  <2>3. DyingAt(t, l, a, sched[t])
    BY <1>2, <1>7 DEF DyingAt
  <2>4. Places(proc', [sched EXCEPT ![t] = sched[t]], [pc EXCEPT ![t] = l], [arg EXCEPT ![t] = a], nextPid)
    BY <2>1, <2>2, <2>3, DiedMoved
  <2> QED BY <1>8, <2>4
<1>10. Numbers(proc', tid, nextPid, nextTid)
  <2>1. Survives(proc, proc') /\ \A q \in Pid : proc'[q].tasks \subseteq proc[q].tasks
    BY <1>5 DEF Survives, Died, Live
  <2>2. Numbers(proc, tid, nextPid, nextTid)
    BY DEF RInv
  <2> QED BY <2>1, <2>2, NumbersShrink
<1>11. Counted(proc', subreapers)
  BY <1>5, CountedSame DEF RInv
<1>12. RInv'
  BY <1>1, <1>5, <1>9, <1>10, <1>11 DEF RInv
<1>13. CASE P[p].st = "exited" /\ proc[p].st # "exited"
  <2>1. pc'[t] = "notify" /\ arg'[t] = p
    BY <1>8, <1>13, Tables
  <2>2. NewsOf(p)
    BY <1>5 DEF NewsOf
  <2> QED BY <1>2, <1>12, <2>1, <2>2 DEF Announced
<1>14. CASE ~(P[p].st = "exited" /\ proc[p].st # "exited")
  <2>1. proc'[p].st = proc[p].st
    BY <1>5, <1>6, <1>14
  <2> QED BY <1>5, <1>12, <2>1 DEF Soft, Quiet
<1> QED BY <1>13, <1>14

LEMMA KillStep == ASSUME RInv, NEW t \in Task, NEW x \in Task, kill_task_with_notifications(t, x) PROVE RInv'
<1> DEFINE p == Me(t)
<1>1. /\ pc[t] = "exec" /\ x \in proc[p].tasks /\ x # t /\ sched[x] \notin {"free", "gone"}
      /\ sched' = [sched EXCEPT ![x] = "gone"] /\ pc' = [pc EXCEPT ![x] = "none"]
      /\ UNCHANGED <<arg, tid, nextPid, nextTid, subreapers>>
      /\ proc' = IF sched[x] = "exited" THEN proc ELSE mark_task_exited(proc, p, x)
  BY DEF kill_task_with_notifications
<1>2. /\ p \in Live(proc) /\ p \in Pid /\ t \in proc[p].tasks /\ sched[t] # "new" /\ \A q \in Pid : t \in proc[q].tasks => q = p
  BY <1>1, Active DEF Ending
<1> HIDE DEF p
<1>3. x # Init1
  <2>1. proc[p].lead = t
    BY <1>1, <1>2 DEF RInv, Places, TaskPlace
  <2>2. x = Init1 => p = Init1
    BY <1>1, <1>2, Tables, Consts DEF Tree, InitRuns, OneProcess
  <2> QED BY <1>1, <2>1, <2>2, Tables DEF Tree, InitRuns
<1>4. Places(proc, sched, pc, arg, nextPid) /\ nextPid \in Nat /\ Tree(proc) /\ Table(proc)
  BY Tables DEF RInv
<1>5. CASE sched[x] = "exited"
  <2>1. pc[x] = "none"
    BY <1>4, <1>5 DEF Places, TaskPlace, Running
  <2>2. pc' = pc
    BY <1>1, <2>1, Tables
  <2>3. sched' \in [Task -> SchedStates] /\ \A y \in Task : Like(sched[y], sched'[y])
    BY <1>1, <1>5, Tables DEF Like, SchedStates
  <2>4. Places(proc, sched', pc, arg, nextPid)
    BY <1>4, <2>3, Shifted
  <2> QED BY <1>1, <1>5, <2>2, <2>4 DEF RInv
<1>6. CASE sched[x] # "exited"
  <2>1. proc' = mark_task_exited(proc, p, x)
    BY <1>1, <1>6
  <2>2. /\ Table(proc') /\ Live(proc') = Live(proc) /\ Died(proc, proc', p, x) /\ SourcesFrom(proc, proc') /\ ~Waits(proc', x)
        /\ SameSubs(proc, proc')
    BY <1>1, <1>2, <1>3, <1>4, <2>1, TaskExits
  <2>3. arg' = [arg EXCEPT ![x] = arg[x]] /\ arg[x] \in Task \cup Pid \cup {0}
    BY <1>1, Tables
  <2>4. Tree(proc')
    BY <2>2 DEF Table
  <2>5. Places(proc', sched', pc', arg', nextPid)
    <3>1. Dying(proc, proc', p, x, t)
      BY <1>1, <1>2, <1>3, <1>4, <2>2, <2>4 DEF Dying
    <3>2. DyingAt(x, "none", arg[x], "gone")
      BY <2>3 DEF DyingAt
    <3>3. Places(proc', [sched EXCEPT ![x] = "gone"], [pc EXCEPT ![x] = "none"], [arg EXCEPT ![x] = arg[x]], nextPid)
      BY <1>4, <3>1, <3>2, DiedMoved
    <3> QED BY <1>1, <2>3, <3>3
  <2>6. Numbers(proc', tid, nextPid, nextTid)
    <3>1. Survives(proc, proc') /\ \A q \in Pid : proc'[q].tasks \subseteq proc[q].tasks
      BY <2>2 DEF Survives, Died, Live
    <3>2. Numbers(proc, tid, nextPid, nextTid)
      BY DEF RInv
    <3> QED BY <3>1, <3>2, NumbersShrink
  <2>7. Counted(proc', subreapers)
    BY <2>2, CountedSame DEF RInv
  <2> QED BY <1>1, <2>2, <2>5, <2>6, <2>7 DEF RInv
<1> QED BY <1>5, <1>6

LEMMA ExecStep == ASSUME RInv, NEW t \in Task, do_execve(t) PROVE RInv'
<1> DEFINE p == Me(t)
<1>1. /\ pc[t] = "exec" /\ terminate_other_threads_for_exec(t)
      /\ proc' = retain_only_task_in_process(proc, p, t)
      /\ sched' = [x \in Task |-> IF sched[x] = "vfork" /\ arg[x] = t THEN "live" ELSE sched[x]]
      /\ arg' = [x \in Task |-> IF pc[x] = "vfork" /\ arg[x] = t THEN 0 ELSE arg[x]]
      /\ pc' = [x \in Task |-> IF x = t \/ (pc[x] = "vfork" /\ arg[x] = t) THEN "user" ELSE pc[x]]
      /\ UNCHANGED <<tid, nextPid, nextTid, subreapers>>
  BY DEF do_execve
<1>2. /\ p \in Live(proc) /\ p \in Pid /\ t \in proc[p].tasks /\ t \notin proc[p].dead /\ sched[t] # "new"
      /\ sched[t] \in Running
  BY <1>1, Active DEF Ending
<1>3. \A x \in proc[p].tasks \ {t} : sched[x] = "gone"
  BY <1>1 DEF terminate_other_threads_for_exec
<1> HIDE DEF p
<1>4. Places(proc, sched, pc, arg, nextPid) /\ nextPid \in Nat /\ Tree(proc) /\ Table(proc) /\ proc \in TableType
  BY Tables DEF RInv
<1>5. proc[p].lead = t
  BY <1>1, <1>2, <1>4 DEF Places, TaskPlace
<1>6. proc[p].tasks \ {t} \subseteq proc[p].dead
  <2> SUFFICES ASSUME NEW x \in proc[p].tasks, x # t PROVE x \in proc[p].dead
    OBVIOUS
  <2>1. x \in Task
    BY <1>2, <1>4 DEF TableType, ProcessType
  <2>2. TaskPlace(proc, sched, pc, x) /\ sched[x] = "gone"
    BY <1>3, <1>4, <2>1 DEF Places
  <2> QED BY <1>2, <2>2 DEF TaskPlace
<1>7. Table(proc') /\ Trims(proc, proc') /\ SameSubs(proc, proc')
  BY <1>1, <1>2, <1>4, <1>5, <1>6, OnlyOneStays
<1>8. Places(proc', sched, pc, arg, nextPid)
  BY <1>4, <1>7, PlacesTrims DEF Table
<1>9. /\ pc' \in [Task -> PCs] /\ arg' \in [Task -> Task \cup Pid \cup {0}] /\ sched' \in [Task -> SchedStates]
  BY <1>1, Tables DEF PCs, SchedStates
<1>10. ASSUME NEW x \in Task
       PROVE  \/ pc'[x] = pc[x] /\ arg'[x] = arg[x] /\ Like(sched[x], sched'[x])
              \/ /\ sched[x] \in Running /\ sched'[x] \in Running
                 /\ Goes(proc', pc, arg, nextPid, x, pc'[x], arg'[x])
  <2>1. Like(sched[x], sched'[x])
    BY <1>1 DEF Like, Running
  <2>2. CASE x = t \/ (pc[x] = "vfork" /\ arg[x] = t)
    <3>1. TaskPlace(proc', sched, pc, x)
      BY <1>8 DEF Places
    <3>2. pc[x] \in {"exec", "vfork"}
      BY <1>1, <2>2
    <3>3. sched[x] \in Running /\ Listed(proc', x) /\ ~IsDead(proc', x)
      BY <3>1, <3>2 DEF TaskPlace, Ending
    <3>4. sched'[x] \in Running
      BY <2>1, <3>3 DEF Like, Running
    <3>5. pc'[x] = "user" /\ arg'[x] \in Task \cup Pid \cup {0}
      BY <1>1, <1>9, <2>2
    <3>6. Goes(proc', pc, arg, nextPid, x, "user", arg'[x])
      BY <3>3, <3>5 DEF Goes, PCs, Creating, Ending
    <3> QED BY <3>3, <3>4, <3>5, <3>6
  <2>3. CASE ~(x = t \/ (pc[x] = "vfork" /\ arg[x] = t))
    BY <1>1, <2>1, <2>3
  <2> QED BY <2>2, <2>3
<1>11. Places(proc', sched', pc', arg', nextPid)
  BY <1>4, <1>8, <1>9, <1>10, Moved
<1>12. Numbers(proc', tid, nextPid, nextTid)
  BY <1>7, NumbersTrims DEF RInv
<1>13. Counted(proc', subreapers)
  BY <1>7, CountedSame DEF RInv
<1> QED BY <1>1, <1>7, <1>11, <1>12, <1>13 DEF RInv

-----------------------------------------------------------------------------
(***************************************************************************)
(* Processes are reaped.                                                   *)
(***************************************************************************)
LEMMA Reaped ==
  ASSUME RInv, NEW c \in Live(proc), proc[c].st = "exited", \A x \in proc[c].tasks : sched[x] = "exited",
         proc' = detach_exited_process(proc, c),
         sched' = [x \in Task |-> IF x \in proc[c].tasks THEN "gone" ELSE sched[x]],
         subreapers' = uncount(c)
  PROVE  /\ Table(proc') /\ Trims(proc, proc') /\ Counted(proc', subreapers') /\ Soft
         /\ sched' \in [Task -> SchedStates] /\ \A x \in Task : Like(sched[x], sched'[x])
<1>1. c # Init1 /\ Table(proc) /\ proc \in TableType /\ c \in Pid
  BY Tables DEF RInv, Tree, InitRuns, Live
<1>2. /\ Table(proc') /\ Trims(proc, proc') /\ Live(proc') = Live(proc) \ {c} /\ proc'[c] = Absent
      /\ Reborn(proc, proc') /\ Quiet(proc, proc') /\ \A q \in Pid \ {c} : SameRow(proc[q], proc'[q])
  BY <1>1, ProcessLeaves
<1>3. Counted(proc', subreapers + One(proc'[c].sub) - One(proc[c].sub))
  <2>1. \A q \in Pid \ {c} : proc'[q].sub = proc[q].sub
    BY <1>2 DEF SameRow
  <2>2. proc' \in TableType /\ Counted(proc, subreapers)
    BY <1>2 DEF Table, Tree, RInv
  <2> QED BY <1>1, <2>1, <2>2, CountedChanged
<1>4. subreapers + One(proc'[c].sub) - One(proc[c].sub) = subreapers'
  <2>1. One(proc'[c].sub) = 0
    BY <1>2, AbsentType DEF One
  <2>2. subreapers' = subreapers - One(proc[c].sub)
    BY DEF uncount, One
  <2>3. subreapers \in Int
    <3>1. Cardinality({p \in Pid : proc[p].sub}) \in Nat
      BY Consts, FS_Subset, FS_CardinalityType
    <3> QED BY <3>1 DEF RInv, Counted
  <2>4. One(proc[c].sub) \in Int
    BY DEF One
  <2> QED BY <2>1, <2>2, <2>3, <2>4
<1>5. sched' \in [Task -> SchedStates] /\ \A x \in Task : Like(sched[x], sched'[x])
  BY Tables DEF Like, SchedStates
<1> QED BY <1>2, <1>3, <1>4, <1>5 DEF Soft

LEMMA ReapStep == ASSUME RInv, NEW t \in Task, reap_exited_process(t) PROVE RInv' /\ Soft
<1> DEFINE c == arg[t]
           gone == /\ process_exists(c) /\ proc[c].st = "exited"
                   /\ \A x \in proc[c].tasks : sched[x] = "exited"
<1>1. pc[t] = "reap" /\ UNCHANGED <<tid, nextPid, nextTid>>
  BY DEF reap_exited_process
<1>2. sched[t] \in Running /\ Listed(proc, t) /\ ~IsDead(proc, t)
  BY <1>1, Active DEF Ending
<1>3. CASE gone
  <2>1. /\ proc' = detach_exited_process(proc, c)
        /\ sched' = [x \in Task |-> IF x \in proc[c].tasks THEN "gone" ELSE sched[x]]
        /\ subreapers' = uncount(c) /\ Goto(t, "user", 0)
    BY <1>3 DEF reap_exited_process
  <2>2. c \in Live(proc)
    BY <1>3 DEF process_exists, Live
  <2>3. /\ Table(proc') /\ Trims(proc, proc') /\ Counted(proc', subreapers') /\ Soft
        /\ sched' \in [Task -> SchedStates] /\ \A x \in Task : Like(sched[x], sched'[x])
    BY <1>3, <2>1, <2>2, Reaped
  <2>4. Listed(proc', t) /\ ~IsDead(proc', t)
    BY <1>2, <2>3, TrimKeeps
  <2>5. Goes(proc', pc, arg, nextPid, t, "user", 0)
    BY <2>4, MayGoIn
  <2>6. RInv'
    BY <1>1, <1>2, <2>1, <2>3, <2>5, TrimsMoves
  <2> QED BY <2>3, <2>6
<1>4. CASE ~gone
  <2> DEFINE l == IF process_exists(c) THEN "wait" ELSE "user"
  <2>1. Goto(t, l, 0) /\ UNCHANGED <<proc, sched, subreapers>>
    BY <1>4 DEF reap_exited_process
  <2>2. l \in {"wait", "user"}
    OBVIOUS
  <2> HIDE DEF l
  <2>3. Goes(proc, pc, arg, nextPid, t, l, 0)
    BY <1>2, <2>2, MayGoIn
  <2>4. RInv'
    BY <1>1, <1>2, <2>1, <2>3, OnlyMoves, Tables, LikeSame
  <2> QED BY <2>1, <2>4, SoftSame
<1> QED BY <1>3, <1>4

LEMMA ReapAllStep == ASSUME RInv, NEW t \in Task, reap_all_exited_processes(t) PROVE RInv' /\ Soft
<1>1. PICK c \in Live(proc) \ {Init1} :
        /\ proc[c].st = "exited" /\ \A x \in proc[c].tasks : sched[x] = "exited"
        /\ proc' = detach_exited_process(proc, c)
        /\ sched' = [x \in Task |-> IF x \in proc[c].tasks THEN "gone" ELSE sched[x]]
        /\ subreapers' = uncount(c)
  BY DEF reap_all_exited_processes
<1>2. /\ Table(proc') /\ Trims(proc, proc') /\ Counted(proc', subreapers') /\ Soft
      /\ sched' \in [Task -> SchedStates] /\ \A x \in Task : Like(sched[x], sched'[x])
  BY <1>1, Reaped
<1>3. UNCHANGED <<pc, arg, tid, nextPid, nextTid>>
  BY DEF reap_all_exited_processes
<1>4. RInv'
  BY <1>2, <1>3, TrimsShifts
<1> QED BY <1>2, <1>4

-----------------------------------------------------------------------------
(***************************************************************************)
(* What was created is started.                                            *)
(***************************************************************************)
LEMMA NewTaskFree == ASSUME CanCreate PROVE NewTask \in Task /\ sched[NewTask] = "free"
<1>1. Unused \in SUBSET Nat /\ Unused # {}
  BY Consts DEF Unused, CanCreate
<1>2. NewTask \in Unused
  BY <1>1, Least DEF NewTask
<1> QED BY <1>2 DEF Unused

\* c, which t has created, runs; t goes to l with argument a.
Starts(t, c, l, a) ==
  /\ pc[t] \in Creating /\ arg[t] = c /\ sched[c] = "new" /\ l \in {"user", "vfork"} /\ a \in Task \cup {0}
  /\ l = "vfork" => a \in Task
LEMMA Started ==
  ASSUME RInv, NEW t \in Task, NEW c, NEW l, NEW a, Starts(t, c, l, a),
         UNCHANGED <<proc, tid, nextPid, nextTid, subreapers>>,
         sched' = [sched EXCEPT ![c] = "live"], pc' = [pc EXCEPT ![c] = "user", ![t] = l],
         arg' = [arg EXCEPT ![t] = a]
  PROVE  RInv'
<1>1. /\ pc[t] \in Creating /\ arg[t] = c /\ sched[c] = "new" /\ l \in {"user", "vfork"} /\ a \in Task \cup {0}
      /\ (l = "vfork" => a \in Task)
  BY DEF Starts
<1>2. /\ Places(proc, sched, pc, arg, nextPid)
      /\ sched \in [Task -> SchedStates] /\ pc \in [Task -> PCs] /\ arg \in [Task -> Task \cup Pid \cup {0}]
  BY Tables DEF RInv
<1>3. c \in Task
  BY <1>1, <1>2 DEF Places, ArgPlace, Creating
<1>4. pc[c] = "none" /\ c # t
  BY <1>1, <1>2, <1>3 DEF Places, TaskPlace, Running, Creating
<1>5. pc' \in [Task -> PCs] /\ arg' \in [Task -> Task \cup Pid \cup {0}] /\ sched' \in [Task -> SchedStates]
  BY <1>1, <1>2, <1>3 DEF PCs, SchedStates
<1>6. /\ \A x \in Task : x # c /\ x # t => pc'[x] = pc[x] /\ arg'[x] = arg[x] /\ sched'[x] = sched[x]
      /\ pc'[t] = l /\ arg'[t] = a /\ sched'[t] = sched[t] /\ pc'[c] = "user" /\ arg'[c] = arg[c] /\ sched'[c] = "live"
  BY <1>2, <1>3, <1>4
<1>7. ASSUME NEW x \in Task PROVE TaskPlace(proc, sched', pc', x)
  <2>0. TaskPlace(proc, sched, pc, x)
    BY <1>2 DEF Places
  <2>1. CASE x = c
    BY <1>1, <1>6, <2>0, <2>1 DEF TaskPlace, Running, Ending
  <2>2. CASE x = t
    BY <1>1, <1>6, <2>0, <2>2 DEF TaskPlace, Creating, Ending
  <2>3. CASE x # c /\ x # t
    BY <1>6, <2>0, <2>3 DEF TaskPlace
  <2> QED BY <2>1, <2>2, <2>3
<1>8. ASSUME NEW x \in Task PROVE ArgPlace(proc, sched', pc', arg', nextPid, x)
  <2>0. ArgPlace(proc, sched, pc, arg, nextPid, x)
    BY <1>2 DEF Places
  <2>1. CASE x = c
    BY <1>6, <2>1 DEF ArgPlace
  <2>2. CASE x = t
    BY <1>1, <1>6, <2>2 DEF ArgPlace
  <2>3. CASE x # c /\ x # t
    <3>1. pc[x] \in Creating => arg[x] # c
      BY <1>1, <1>2, <2>3 DEF Places
    <3>2. pc'[x] = pc[x] /\ arg'[x] = arg[x]
      BY <1>6, <2>3
    <3>3. pc[x] \in Creating => arg[x] \in Task /\ sched'[arg[x]] = sched[arg[x]]
      BY <1>6, <2>0, <3>1 DEF ArgPlace, Creating
    <3>4. \A u \in Task : pc'[u] = "fork" => pc[u] = "fork" /\ arg'[u] = arg[u]
      BY <1>1, <1>6
    <3>5. ASSUME pc[x] = "forkset"
          PROVE  \E p \in Pid : Fresh(proc, p, arg[x]) /\ \A u \in Task : pc'[u] = "fork" => arg'[u] # p
      <4>1. PICK p \in Pid : Fresh(proc, p, arg[x]) /\ \A u \in Task : pc[u] = "fork" => arg[u] # p
        BY <2>0, <3>5 DEF ArgPlace
      <4>2. \A u \in Task : pc'[u] = "fork" => arg'[u] # p
        BY <3>4, <4>1
      <4> QED BY <4>1, <4>2
    <3> QED BY <2>0, <3>2, <3>3, <3>5 DEF ArgPlace, Creating
  <2> QED BY <2>1, <2>2, <2>3
<1>9. \A x, u \in Task : pc'[x] \in Creating /\ pc'[u] \in Creating /\ x # u => arg'[x] # arg'[u]
  BY <1>1, <1>2, <1>6 DEF Places, Creating
<1>10. pc'[Init1] \notin Ending \cup {"none", "record"}
  BY <1>1, <1>2, <1>6, Consts DEF Places, Ending
<1>11. Places(proc, sched', pc', arg', nextPid)
  BY <1>5, <1>7, <1>8, <1>9, <1>10 DEF Places, SchedStates
<1> QED BY <1>11 DEF RInv

LEMMA StartForkStep == ASSUME RInv, NEW t \in Task, start_fork_child(t) PROVE RInv' /\ Soft
<1> DEFINE c == arg[t]
<1>1. PICK vf \in {FALSE} \cup ({TRUE} \cap {"vfork" \in Ops}) :
       /\ sched' = [sched EXCEPT ![c] = "live"]
       /\ pc' = [pc EXCEPT ![c] = "user", ![t] = IF vf THEN "vfork" ELSE "user"]
       /\ arg' = [arg EXCEPT ![t] = IF vf THEN c ELSE 0]
  BY DEF start_fork_child
<1>2. pc[t] = "forkset" /\ sched[c] = "new" /\ UNCHANGED <<proc, tid, nextPid, nextTid, subreapers>>
  BY DEF start_fork_child
<1>3. c \in Task
  BY <1>2 DEF RInv, Places, ArgPlace
<1> DEFINE l == IF vf THEN "vfork" ELSE "user"
           a == IF vf THEN c ELSE 0
<1>4. Starts(t, c, l, a)
  BY <1>2, <1>3 DEF Starts, Creating
<1> HIDE DEF l, a
<1>5. pc' = [pc EXCEPT ![c] = "user", ![t] = l] /\ arg' = [arg EXCEPT ![t] = a]
  BY <1>1 DEF l, a
<1>6. RInv'
  BY <1>1, <1>2, <1>4, <1>5, Started
<1> QED BY <1>2, <1>6, SoftSame

(***************************************************************************)
(* What was created is taken back.                                         *)
(***************************************************************************)
\* The records of R that list tasks are those of P without c, which waits for its creator t.
Undone(P, R, c) ==
  /\ \A x \in Task \ {c} : (Listed(R, x) <=> Listed(P, x)) /\ (IsDead(R, x) <=> IsDead(P, x)) /\ (Waits(R, x) => Waits(P, x))
  /\ \A q \in Pid : \A x \in Task \ {c} : x \in R[q].tasks =>
       /\ x \in P[q].tasks /\ R[q].lead = P[q].lead /\ (x \in P[q].dead => x \in R[q].dead)
       /\ (P[q].tasks = {x} => R[q].tasks = {x})
  /\ \A q \in Pid : c \in R[q].tasks => c \in R[q].dead \/ (R[q].tasks = {c} /\ ~Waits(R, c))
  /\ \A f \in Pid, x \in Task \ {c} : Fresh(P, f, x) => Fresh(R, f, x)

LEMMA TakenBack ==
  ASSUME RInv, NEW t \in Task, pc[t] \in Creating, NEW c, arg[t] = c, NEW R, Undone(proc, R, c)
  PROVE  Places(R, [sched EXCEPT ![c] = "gone"], [pc EXCEPT ![t] = "user"], [arg EXCEPT ![t] = 0], nextPid)
<1> DEFINE Z == [sched EXCEPT ![c] = "gone"]
           D == [pc EXCEPT ![t] = "user"]
           B == [arg EXCEPT ![t] = 0]
<1>2. /\ Places(proc, sched, pc, arg, nextPid)
      /\ sched \in [Task -> SchedStates] /\ pc \in [Task -> PCs] /\ arg \in [Task -> Task \cup Pid \cup {0}]
  BY Tables DEF RInv
<1>3. c \in Task /\ sched[c] \in {"new", "gone"}
  BY <1>2 DEF Places, ArgPlace, Creating
<1>4. pc[c] = "none" /\ c # t
  BY <1>2, <1>3 DEF Places, TaskPlace, Running, Creating
<1>5. D \in [Task -> PCs] /\ B \in [Task -> Task \cup Pid \cup {0}] /\ Z \in [Task -> SchedStates]
  BY <1>2, <1>3 DEF PCs, SchedStates
<1>6. /\ \A x \in Task : x # t => D[x] = pc[x] /\ B[x] = arg[x]
      /\ D[t] = "user" /\ B[t] = 0 /\ Z[c] = "gone"
      /\ \A x \in Task : x # c => Z[x] = sched[x]
  BY <1>2, <1>3, <1>4
<1> HIDE DEF Z, D, B
<1>7. ASSUME NEW x \in Task PROVE TaskPlace(R, Z, D, x)
  <2>0. TaskPlace(proc, sched, pc, x)
    BY <1>2 DEF Places
  <2>1. CASE x = c
    BY <1>4, <1>6, <2>1 DEF TaskPlace, Undone, Ending
  <2>2. CASE x # c
    <3>1. /\ (Listed(R, x) <=> Listed(proc, x)) /\ (IsDead(R, x) <=> IsDead(proc, x)) /\ (Waits(R, x) => Waits(proc, x))
      BY <2>2 DEF Undone
    <3>2. Z[x] = sched[x]
      BY <1>6, <2>2
    <3>3. ASSUME NEW q \in Pid, x \in R[q].tasks
          PROVE  /\ (sched[x] \in {"exited", "gone"} => x \in R[q].dead \/ (R[q].tasks = {x} /\ ~Waits(R, x)))
                 /\ (pc[x] = "exec" => R[q].lead = x)
      <4>1. /\ x \in proc[q].tasks /\ R[q].lead = proc[q].lead /\ (x \in proc[q].dead => x \in R[q].dead)
            /\ (proc[q].tasks = {x} => R[q].tasks = {x})
        BY <2>2, <3>3 DEF Undone
      <4> QED BY <2>0, <3>1, <4>1 DEF TaskPlace
    <3>4. CASE x # t
      BY <1>6, <2>0, <3>1, <3>2, <3>3, <3>4 DEF TaskPlace
    <3>5. CASE x = t
      BY <1>6, <2>0, <3>1, <3>2, <3>3, <3>5 DEF TaskPlace, Creating, Ending
    <3> QED BY <3>4, <3>5
  <2> QED BY <2>1, <2>2
<1>8. ASSUME NEW x \in Task PROVE ArgPlace(R, Z, D, B, nextPid, x)
  <2>0. ArgPlace(proc, sched, pc, arg, nextPid, x)
    BY <1>2 DEF Places
  <2>1. CASE x = t
    BY <1>6, <2>1 DEF ArgPlace
  <2>2. CASE x # t
    <3>1. pc[x] \in Creating => arg[x] # c /\ arg[x] \in Task /\ Z[arg[x]] = sched[arg[x]]
      BY <1>2, <1>6, <2>0, <2>2 DEF Places, ArgPlace, Creating
    <3>2. D[x] = pc[x] /\ B[x] = arg[x]
      BY <1>6, <2>2
    <3>3. ASSUME pc[x] = "forkset"
          PROVE  \E p \in Pid : Fresh(R, p, arg[x]) /\ \A u \in Task : D[u] = "fork" => B[u] # p
      <4>1. PICK p \in Pid : Fresh(proc, p, arg[x]) /\ \A u \in Task : pc[u] = "fork" => arg[u] # p
        BY <2>0, <3>3 DEF ArgPlace
      <4>2. Fresh(R, p, arg[x])
        BY <3>1, <3>3, <4>1 DEF Undone, Creating
      <4>3. \A u \in Task : D[u] = "fork" => B[u] # p
        BY <1>6, <4>1
      <4> QED BY <4>2, <4>3
    <3> QED BY <2>0, <3>1, <3>2, <3>3 DEF ArgPlace, Creating
  <2> QED BY <2>1, <2>2
<1>9. \A x, u \in Task : D[x] \in Creating /\ D[u] \in Creating /\ x # u => B[x] # B[u]
  BY <1>2, <1>6 DEF Places, Creating
<1>10. D[Init1] \notin Ending \cup {"none", "record"}
  BY <1>2, <1>6, Consts DEF Places, Ending
<1>11. Places(R, Z, D, B, nextPid)
  BY <1>5, <1>7, <1>8, <1>9, <1>10 DEF Places, SchedStates
<1> QED BY <1>11 DEF Z, D, B

LEMMA AbortStep == ASSUME RInv, NEW t \in Task, abort_fork_child(t) PROVE RInv' /\ Soft
<1> DEFINE c == arg[t]
           p == pid_for_task(c)
<1>1. /\ pc[t] = "forkset" /\ sched' = [sched EXCEPT ![c] = "gone"] /\ Goto(t, "user", 0)
      /\ UNCHANGED <<tid, nextPid, nextTid, subreapers>>
      /\ proc' = IF proc[p].tasks = {c} /\ proc[p].st = "run" THEN remove_process(proc, p) ELSE proc
  BY DEF abort_fork_child
<1>2. /\ Places(proc, sched, pc, arg, nextPid) /\ Table(proc) /\ Tree(proc)
      /\ Counted(proc, subreapers) /\ Numbers(proc, tid, nextPid, nextTid)
  BY Tables DEF RInv
<1>3. c \in Task /\ sched[c] = "new"
  BY <1>1, <1>2 DEF Places, ArgPlace
<1>4. PICK f \in Pid : Fresh(proc, f, c)
  BY <1>1, <1>2 DEF Places, ArgPlace
<1>5. ~Waits(proc, c)
  BY <1>2, <1>3 DEF Places, TaskPlace
<1>6. p = f
  <2>1. c \in proc[f].tasks /\ PidsOf(c) # {}
    BY <1>4 DEF Fresh, PidsOf
  <2> QED BY <1>3, <2>1, Mine DEF Me
<1> HIDE DEF p, c
<1>7. f \in Live(proc) /\ f # Init1 /\ proc[f].tasks = {c} /\ proc[f].dead = {} /\ ~proc[f].sub
  BY <1>4 DEF Fresh, Live
<1>8. \A q \in Pid : q # f => c \notin proc[q].tasks
  BY <1>2, <1>3, <1>7 DEF Tree, OneProcess
<1>9. CASE proc' = proc
  <2>1. Undone(proc, proc, c)
    BY <1>5, <1>7, <1>8 DEF Undone
  <2>2. Places(proc, [sched EXCEPT ![c] = "gone"], [pc EXCEPT ![t] = "user"], [arg EXCEPT ![t] = 0], nextPid)
    BY <1>1, <2>1, TakenBack DEF c, Creating
  <2>3. RInv'
    BY <1>1, <1>2, <1>9, <2>2 DEF RInv, Goto
  <2> QED BY <1>9, <2>3, SoftSame
<1>10. CASE proc' = remove_process(proc, f)
  <2>1. Childless(proc, f)
    BY <1>4 DEF Fresh, Childless
  <2>2. \A x \in proc[f].tasks \ proc[f].dead : ~Waits(proc, x)
    BY <1>5, <1>7
  <2>3. Table(proc') /\ Live(proc') = Live(proc) \ {f} /\ proc'[f] = Absent /\ \A q \in Pid \ {f} : proc'[q] = proc[q]
    BY <1>2, <1>7, <1>10, <2>1, <2>2, Removed
  <2>4. \A q \in Pid : q # f => proc'[q] = proc[q]
    BY <2>3
  <2>5. Absent.tasks = {} /\ Absent.dead = {} /\ ~Absent.sub /\ Absent.st = "none"
    BY AbsentType
  <2>6. Undone(proc, proc', c)
    <3>1. ASSUME NEW x \in Task, x # c
          PROVE  (Listed(proc', x) <=> Listed(proc, x)) /\ (IsDead(proc', x) <=> IsDead(proc, x)) /\ (Waits(proc', x) => Waits(proc, x))
      <4>1. Listed(proc', x) <=> Listed(proc, x)
        BY <1>7, <2>3, <2>4, <2>5, <3>1 DEF Listed
      <4>2. IsDead(proc', x) <=> IsDead(proc, x)
        BY <1>7, <2>3, <2>4, <2>5 DEF IsDead
      <4>3. Waits(proc', x) => Waits(proc, x)
        BY <2>3, <2>4 DEF Waits, Live
      <4> QED BY <4>1, <4>2, <4>3
    <3>2. ASSUME NEW q \in Pid, NEW x \in Task, x \in proc'[q].tasks PROVE q # f /\ proc'[q] = proc[q]
      BY <2>3, <2>4, <2>5, <3>2
    <3>3. ASSUME NEW q \in Pid PROVE c \notin proc'[q].tasks
      BY <1>3, <1>8, <3>2
    <3>4. ASSUME NEW g \in Pid, NEW x \in Task, x # c, Fresh(proc, g, x) PROVE Fresh(proc', g, x)
      <4>1. g # f
        BY <1>7, <3>4 DEF Fresh
      <4>2. \A q \in Live(proc') : q \in Live(proc) /\ proc'[q] = proc[q]
        BY <2>3, <2>4 DEF Live
      <4> QED BY <2>4, <3>4, <4>1, <4>2 DEF Fresh
    <3> QED BY <3>1, <3>2, <3>3, <3>4 DEF Undone
  <2>7. Places(proc', [sched EXCEPT ![c] = "gone"], [pc EXCEPT ![t] = "user"], [arg EXCEPT ![t] = 0], nextPid)
    BY <1>1, <2>6, TakenBack DEF c, Creating
  <2>8. Survives(proc, proc') /\ \A q \in Pid : proc'[q].tasks \subseteq proc[q].tasks
    BY <2>3, <2>4, <2>5 DEF Survives, Live
  <2>9. Numbers(proc', tid, nextPid, nextTid)
    BY <1>2, <2>8, NumbersShrink
  <2>10. Counted(proc', subreapers)
    <3>1. Counted(proc', subreapers + One(proc'[f].sub) - One(proc[f].sub))
      <4>1. proc \in TableType /\ proc' \in TableType /\ \A q \in Pid \ {f} : proc'[q].sub = proc[q].sub
        BY <1>2, <2>3, <2>4 DEF Table, Tree
      <4> QED BY <1>2, <4>1, CountedChanged
    <3>2. One(proc'[f].sub) = One(proc[f].sub)
      BY <1>7, <2>3, <2>5 DEF One
    <3>3. subreapers + One(proc'[f].sub) - One(proc[f].sub) = subreapers
      BY <1>7, <3>2, LiveRow
    <3> QED BY <3>1, <3>3
  <2>11. RInv'
    BY <1>1, <2>3, <2>7, <2>9, <2>10 DEF RInv, Goto
  <2>12. Soft
    BY <2>3, <2>4 DEF Soft, Reborn, Quiet, Live
  <2> QED BY <2>11, <2>12
<1> QED BY <1>1, <1>6, <1>9, <1>10

LEMMA NotStarted ==
  ASSUME RInv, NEW t \in Task, pc[t] = "cloneset"
  PROVE  /\ arg[t] \in Task /\ sched[arg[t]] \in {"new", "gone"} /\ arg[t] # Init1 /\ ~Waits(proc, arg[t])
         /\ sched[arg[t]] = "new" => Listed(proc, arg[t])
<1> DEFINE c == arg[t]
<1>1. Places(proc, sched, pc, arg, nextPid) /\ Table(proc) /\ Tree(proc) /\ proc \in TableType
  BY Tables DEF RInv
<1>2. c \in Task /\ sched[c] \in {"new", "gone"}
  BY <1>1 DEF Places, ArgPlace
<1>3. TaskPlace(proc, sched, pc, c) /\ TaskPlace(proc, sched, pc, Init1) /\ pc[Init1] # "none"
  BY <1>1, <1>2, Consts DEF Places
<1>4. c # Init1
  BY <1>2, <1>3 DEF TaskPlace, Running
<1>5. ~Waits(proc, c)
  <2>1. CASE sched[c] = "new"
    BY <1>3, <2>1 DEF TaskPlace
  <2>2. CASE sched[c] = "gone"
    <3> SUFFICES ASSUME NEW p \in Live(proc), proc[p].dsrc = <<"task", c>> PROVE FALSE
      BY DEF Waits
    <3>1. SourceAlive(proc, <<"task", c>>)
      BY <1>1 DEF Table, SourcesAlive
    <3> DEFINE d == <<"task", c>>
    <3>2. d[1] = "task" /\ d[2] = c /\ SourceAlive(proc, d)
      BY <3>1
    <3> HIDE DEF d
    <3>3. PICK q \in Live(proc) : c \in proc[q].tasks \ proc[q].dead
      BY <3>2 DEF SourceAlive
    <3>4. q \in Pid
      BY DEF Live
    <3>5. c \in proc[q].dead \/ ~Waits(proc, c)
      BY <1>3, <2>2, <3>3, <3>4 DEF TaskPlace
    <3>6. Waits(proc, c)
      BY DEF Waits
    <3> QED BY <3>3, <3>5, <3>6
  <2> QED BY <1>2, <2>1, <2>2
<1>6. sched[c] = "new" => Listed(proc, c)
  BY <1>3 DEF TaskPlace
<1> QED BY <1>2, <1>4, <1>5, <1>6

ToDropped(c) == [p \in Pid |-> IF c \in proc[p].tasks
                               THEN [proc[p] EXCEPT !.tasks = @ \ {c}, !.dead = @ \ {c}] ELSE proc[p]]
Drops(t, c) ==
  /\ pc[t] = "cloneset" /\ c = arg[t] /\ sched' = [sched EXCEPT ![c] = "gone"] /\ proc' = ToDropped(c)
  /\ pc' = [pc EXCEPT ![t] = "user"] /\ arg' = [arg EXCEPT ![t] = 0]
  /\ UNCHANGED <<tid, nextPid, nextTid, subreapers>>

LEMMA DropCloneStep == ASSUME RInv, NEW t \in Task, NEW c, Drops(t, c) PROVE RInv' /\ Soft
<1>0. pc[t] = "cloneset" /\ c = arg[t]
  BY DEF Drops
<1>1. /\ Places(proc, sched, pc, arg, nextPid) /\ Table(proc) /\ Tree(proc) /\ proc \in TableType
      /\ Counted(proc, subreapers) /\ Numbers(proc, tid, nextPid, nextTid)
  BY Tables DEF RInv
<1>2. c \in Task /\ c # Init1 /\ ~Waits(proc, c)
  BY <1>0, NotStarted
<1>3. CASE Listed(proc, c)
  <2>1. PICK p \in Pid : c \in proc[p].tasks
    BY <1>3 DEF Listed
  <2>2. \A q \in Pid : q # p => c \notin proc[q].tasks
    BY <1>1, <1>2, <2>1 DEF Tree, OneProcess
  <2>3. p \in Live(proc)
    BY <1>1, <2>1, AbsentType DEF Tree, AbsentEmpty, Live
  <2> DEFINE T == proc[p].tasks \ {c}
             U == proc[p].dead \ {c}
             r == ToTasks(proc[p], T, U)
  <2>4. proc[p] \in ProcessType /\ proc[p].tasks \in SUBSET Task /\ proc[p].dead \in SUBSET Task
    BY <1>1 DEF TableType, ProcessType
  <2>5. proc'[p] = r /\ \A q \in Pid \ {p} : proc'[q] = proc[q]
    <3>1. proc'[p] = [proc[p] EXCEPT !.tasks = @ \ {c}, !.dead = @ \ {c}]
      BY <2>1 DEF Drops, ToDropped
    <3>2. proc'[p] = r
      BY <3>1 DEF ToTasks
    <3>3. \A q \in Pid \ {p} : proc'[q] = proc[q]
      BY <2>2 DEF Drops, ToDropped
    <3> QED BY <3>2, <3>3
  <2>6. /\ r \in ProcessType /\ r.st = proc[p].st /\ r.lead = proc[p].lead /\ r.tasks = proc[p].tasks \ {c}
        /\ r.dead = proc[p].dead \ {c} /\ r.members = proc[p].members /\ r.sub = proc[p].sub
        /\ r.parent = proc[p].parent /\ r.born = proc[p].born /\ r.dsrc = proc[p].dsrc
        /\ r.stopw = proc[p].stopw /\ r.contw = proc[p].contw
    <3>1. T \in SUBSET Task /\ U \in SUBSET Task
      BY <2>4
    <3> HIDE DEF T, U
    <3>2. /\ r \in ProcessType /\ r.st = proc[p].st /\ r.lead = proc[p].lead /\ r.tasks = T
          /\ r.dead = U /\ r.members = proc[p].members /\ r.sub = proc[p].sub
          /\ r.parent = proc[p].parent /\ r.born = proc[p].born /\ r.dsrc = proc[p].dsrc
          /\ r.stopw = proc[p].stopw /\ r.contw = proc[p].contw
      BY <2>4, <3>1, RowTasks
    <3> QED BY <3>2 DEF T, U
  <2> HIDE DEF r
  <2>7. proc' \in TableType
    <3>1. proc' = [q \in Pid |-> proc'[q]]
      BY DEF Drops, ToDropped
    <3>2. \A q \in Pid : proc'[q] \in ProcessType
      BY <1>1, <2>5, <2>6 DEF TableType
    <3> QED BY <3>1, <3>2 DEF TableType
  <2>8. ThreadRow(proc, proc', p) /\ ThreadOut(proc, proc', p, c)
    BY <2>5, <2>6, <2>7 DEF ThreadRow, ThreadOut
  <2>9. Table(proc')
    BY <1>1, <1>2, <2>3, <2>8, ThreadDropped
  <2>10. /\ Live(proc') = Live(proc) /\ Calm(proc, proc')
         /\ \A q \in Pid : /\ proc'[q].parent = proc[q].parent /\ proc'[q].dsrc = proc[q].dsrc
                           /\ proc'[q].lead = proc[q].lead /\ proc'[q].st = proc[q].st
                           /\ proc'[q].members = proc[q].members /\ proc'[q].sub = proc[q].sub
    BY <2>1, <2>8, ThreadCalm
  <2>11. \A q \in Pid : /\ proc'[q].tasks = proc[q].tasks \ {c} /\ proc'[q].dead = proc[q].dead \ {c}
    <3>1. \A q \in Pid : proc[q].dead \subseteq proc[q].tasks
      BY <1>1 DEF Tree, DeadRecorded
    <3> QED BY <2>2, <2>5, <2>6, <3>1
  <2>12. Undone(proc, proc', c)
    <3>1. \A x \in Task \ {c} : (Listed(proc', x) <=> Listed(proc, x)) /\ (IsDead(proc', x) <=> IsDead(proc, x))
      BY <2>11 DEF Listed, IsDead
    <3>2. \A x \in Task : Waits(proc', x) => Waits(proc, x)
      BY <2>10 DEF Waits, Live
    <3>3. ASSUME NEW f \in Pid, NEW x \in Task, x # c, Fresh(proc, f, x) PROVE Fresh(proc', f, x)
      <4>1. proc[f].tasks = {x} /\ proc[f].dead = {} /\ f # Init1 /\ ~proc[f].sub /\ proc[f].st \in {"run", "stop"}
        BY <3>3 DEF Fresh
      <4>2. proc'[f].tasks = {x} /\ proc'[f].dead = {}
        BY <2>11, <3>3, <4>1
      <4>3. \A q \in Live(proc') : proc'[q].parent # f /\ proc'[q].dsrc # <<"proc", f>>
        BY <2>10, <3>3 DEF Fresh, Live
      <4>4. proc'[f].sub = proc[f].sub /\ proc'[f].st = proc[f].st
        BY <2>10
      <4> QED BY <4>1, <4>2, <4>3, <4>4 DEF Fresh
    <3> QED BY <2>10, <2>11, <3>1, <3>2, <3>3 DEF Undone
  <2>13. Places(proc', [sched EXCEPT ![c] = "gone"], [pc EXCEPT ![t] = "user"], [arg EXCEPT ![t] = 0], nextPid)
    BY <1>0, <2>12, TakenBack DEF Creating
  <2>14. Survives(proc, proc') /\ \A q \in Pid : proc'[q].tasks \subseteq proc[q].tasks
    BY <2>10, <2>11 DEF Survives, Live
  <2>15. Numbers(proc', tid, nextPid, nextTid)
    BY <1>1, <2>14, NumbersShrink
  <2>16. Counted(proc', subreapers)
    BY <1>1, <2>10, CountedSame DEF Calm
  <2>17. RInv'
    BY <2>9, <2>13, <2>15, <2>16 DEF RInv, Drops
  <2> QED BY <2>10, <2>17 DEF Calm, Soft
<1>4. CASE ~Listed(proc, c)
  <2>1. proc' = proc
    BY <1>1, <1>4 DEF Listed, TableType, Drops, ToDropped
  <2>2. Undone(proc, proc, c)
    BY <1>4 DEF Undone, Listed
  <2>3. Places(proc, [sched EXCEPT ![c] = "gone"], [pc EXCEPT ![t] = "user"], [arg EXCEPT ![t] = 0], nextPid)
    BY <1>0, <2>2, TakenBack DEF Creating
  <2>4. RInv'
    BY <1>1, <2>1, <2>3 DEF RInv, Drops
  <2> QED BY <2>1, <2>4, SoftSame
<1> QED BY <1>3, <1>4

LEMMA StartCloneStep == ASSUME RInv, NEW t \in Task, start_clone_thread(t) PROVE RInv' /\ Soft
<1> DEFINE c == arg[t]
           dropped == [p \in Pid |-> IF c \in proc[p].tasks
                                     THEN [proc[p] EXCEPT !.tasks = @ \ {c}, !.dead = @ \ {c}]
                                     ELSE proc[p]]
<1>1. pc[t] = "cloneset" /\ arg' = [arg EXCEPT ![t] = 0] /\ UNCHANGED <<tid, nextPid, nextTid, subreapers>>
  BY DEF start_clone_thread
<1>2. CASE sched[c] = "new" /\ sched' = [sched EXCEPT ![c] = "live"]
           /\ pc' = [pc EXCEPT ![c] = "user", ![t] = "user"] /\ UNCHANGED proc
  <2>1. Starts(t, c, "user", 0)
    BY <1>1, <1>2 DEF Starts, Creating
  <2>2. RInv'
    BY <1>1, <1>2, <2>1, Started
  <2> QED BY <1>2, <2>2, SoftSame
<1>3. CASE /\ sched' = [sched EXCEPT ![c] = IF @ = "new" THEN "gone" ELSE @]
           /\ proc' = dropped /\ pc' = [pc EXCEPT ![t] = "user"]
  <2>1. c \in Task /\ sched[c] \in {"new", "gone"}
    BY <1>1, NotStarted
  <2>2. sched' = [sched EXCEPT ![c] = "gone"]
    BY <1>3, <2>1, Tables
  <2>3. Drops(t, c)
    BY <1>1, <1>3, <2>2 DEF Drops, ToDropped
  <2> QED BY <2>3, DropCloneStep
<1> QED BY <1>2, <1>3 DEF start_clone_thread

\* c, a task nobody uses yet, joins the process p of t.
Joins(P, S, p, t, c) == pc[t] = "user" /\ S[t] = "live" /\ t \in P[p].tasks /\ S[c] = "free"

LEMMA FreeUnknown ==
  ASSUME NEW P, Table(P), NEW S, NEW C, NEW A, NEW n, Places(P, S, C, A, n), NEW c \in Task, S[c] = "free"
  PROVE  C[c] = "none" /\ ~Listed(P, c) /\ ~IsDead(P, c) /\ ~Waits(P, c)
<1>1. C[c] = "none" /\ ~Listed(P, c)
  BY DEF Places, TaskPlace, Running
<1>2. ~IsDead(P, c)
  BY <1>1 DEF IsDead, Listed, Table, Tree, DeadRecorded
<1>3. ~Waits(P, c)
  <2> SUFFICES ASSUME NEW q \in Live(P), P[q].dsrc = <<"task", c>> PROVE FALSE
    BY DEF Waits
  <2> DEFINE d == <<"task", c>>
  <2>1. d[1] = "task" /\ d[2] = c /\ SourceAlive(P, d)
    BY DEF Table, SourcesAlive
  <2> HIDE DEF d
  <2>2. PICK r \in Live(P) : c \in P[r].tasks \ P[r].dead
    BY <2>1 DEF SourceAlive
  <2> QED BY <1>1, <2>2 DEF Listed, Live
<1> QED BY <1>1, <1>2, <1>3

LEMMA Joined ==
  ASSUME NEW P, Table(P), NEW S, NEW n \in Nat, Places(P, S, pc, arg, n), NEW p \in Pid, NEW t \in Task,
         NEW c \in Task, Joins(P, S, p, t, c), NEW R, ThreadIn(P, R, p, c)
  PROVE  Places(R, [S EXCEPT ![c] = "new"], [pc EXCEPT ![t] = "cloneset"], [arg EXCEPT ![t] = c], n)
<1> DEFINE Z == [S EXCEPT ![c] = "new"]
           D == [pc EXCEPT ![t] = "cloneset"]
           B == [arg EXCEPT ![t] = c]
<1>0. pc[t] = "user" /\ S[t] = "live" /\ t \in P[p].tasks /\ S[c] = "free"
  BY DEF Joins
<1>1. pc[c] = "none" /\ ~Listed(P, c) /\ ~IsDead(P, c) /\ ~Waits(P, c)
  BY <1>0, FreeUnknown
<1>2. S \in [Task -> SchedStates] /\ pc \in [Task -> PCs] /\ arg \in [Task -> Task \cup Pid \cup {0}]
  BY DEF Places, SchedStates
<1>3. D \in [Task -> PCs] /\ B \in [Task -> Task \cup Pid \cup {0}] /\ Z \in [Task -> SchedStates]
  BY <1>2 DEF PCs, SchedStates
<1>4. c # t /\ Z[c] = "new" /\ \A x \in Task \ {c} : Z[x] = S[x]
  BY <1>0, <1>2
<1>5. /\ D[t] = "cloneset" /\ B[t] = c
      /\ \A x \in Task \ {t} : D[x] = pc[x] /\ B[x] = arg[x]
  BY <1>2
<1> HIDE DEF Z, D, B
<1>6. ThreadRow(P, R, p) /\ R[p].tasks = P[p].tasks \cup {c} /\ R[p].dead = P[p].dead
  BY DEF ThreadIn
<1>7. \A q \in Pid : q # p => R[q] = P[q]
  BY <1>6 DEF ThreadRow
<1>8. /\ Live(R) = Live(P)
      /\ \A q \in Pid : /\ R[q].parent = P[q].parent /\ R[q].dsrc = P[q].dsrc /\ R[q].lead = P[q].lead
                        /\ R[q].st = P[q].st /\ R[q].members = P[q].members /\ R[q].sub = P[q].sub
  BY <1>6, ThreadCalm
<1>9. \A q \in Pid : R[q].dead = P[q].dead /\ \A x \in Task \ {c} : x \in R[q].tasks <=> x \in P[q].tasks
  BY <1>6, <1>7
<1>10. /\ \A x \in Task \ {c} : Listed(R, x) <=> Listed(P, x)
       /\ \A x \in Task : (IsDead(R, x) <=> IsDead(P, x)) /\ (Waits(R, x) <=> Waits(P, x))
  <2>1. \A x \in Task \ {c} : Listed(R, x) <=> Listed(P, x)
    BY <1>9 DEF Listed
  <2>2. \A x \in Task : IsDead(R, x) <=> IsDead(P, x)
    BY <1>9 DEF IsDead
  <2>3. \A x \in Task : Waits(R, x) <=> Waits(P, x)
    BY <1>8 DEF Waits, Live
  <2> QED BY <2>1, <2>2, <2>3
<1>11. Listed(R, c)
  BY <1>6 DEF Listed
<1>12. ASSUME NEW x \in Task PROVE TaskPlace(R, Z, D, x)
  <2>0. TaskPlace(P, S, pc, x) /\ TaskPlace(P, S, pc, t)
    BY DEF Places
  <2>1. CASE x = c
    <3>1. D[c] = "none" /\ Z[c] = "new"
      BY <1>1, <1>4, <1>5
    <3>2. Listed(R, c) /\ ~IsDead(R, c) /\ ~Waits(R, c)
      BY <1>1, <1>10, <1>11
    <3>3. TaskPlace(R, Z, D, c)
      BY <3>1, <3>2 DEF TaskPlace, Ending
    <3> QED BY <2>1, <3>3
  <2>2. CASE x = t
    <3>1. Listed(P, t) /\ ~IsDead(P, t)
      BY <1>0, <2>0 DEF TaskPlace, Ending
    <3>2. Listed(R, t) /\ ~IsDead(R, t)
      BY <1>4, <1>10, <3>1
    <3> QED BY <1>0, <1>4, <1>5, <2>2, <3>2 DEF TaskPlace, Running, Ending
  <2>3. CASE x # c /\ x # t
    <3>1. Z[x] = S[x] /\ D[x] = pc[x]
      BY <1>4, <1>5, <2>3
    <3>2. (Listed(R, x) <=> Listed(P, x)) /\ (IsDead(R, x) <=> IsDead(P, x)) /\ (Waits(R, x) <=> Waits(P, x))
      BY <1>10, <2>3
    <3>3. ASSUME NEW q \in Pid, Z[x] \in {"exited", "gone"}, x \in R[q].tasks
          PROVE  x \in R[q].dead \/ (R[q].tasks = {x} /\ ~Waits(R, x))
      <4>1. x \in P[q].tasks
        BY <1>9, <2>3, <3>3
      <4>2. x \in P[q].dead \/ (P[q].tasks = {x} /\ ~Waits(P, x))
        BY <2>0, <3>1, <3>3, <4>1 DEF TaskPlace
      <4>3. P[q].tasks = {x} => q # p
        BY <1>0, <2>3
      <4> QED BY <1>7, <1>9, <3>2, <4>2, <4>3
    <3>4. ASSUME NEW q \in Pid, D[x] = "exec", x \in R[q].tasks PROVE R[q].lead = x
      <4>1. x \in P[q].tasks
        BY <1>9, <2>3, <3>4
      <4> QED BY <1>8, <2>0, <3>1, <3>4, <4>1 DEF TaskPlace
    <3> QED BY <2>0, <3>1, <3>2, <3>3, <3>4 DEF TaskPlace
  <2> QED BY <2>1, <2>2, <2>3
<1>13. ASSUME NEW x \in Task PROVE ArgPlace(R, Z, D, B, n, x)
  <2>0. ArgPlace(P, S, pc, arg, n, x)
    BY DEF Places
  <2>1. CASE x = t
    BY <1>4, <1>5, <2>1 DEF ArgPlace
  <2>2. CASE x # t
    <3>1. D[x] = pc[x] /\ B[x] = arg[x]
      BY <1>5, <2>2
    <3>2. ASSUME D[x] = "forkset"
          PROVE  /\ Z[B[x]] = "new"
                 /\ \E f \in Pid : Fresh(R, f, B[x]) /\ \A u \in Task : D[u] = "fork" => B[u] # f
      <4>1. PICK f \in Pid : Fresh(P, f, arg[x]) /\ \A u \in Task : pc[u] = "fork" => arg[u] # f
        BY <2>0, <3>1, <3>2 DEF ArgPlace
      <4>2. arg[x] \in Task /\ S[arg[x]] = "new"
        BY <2>0, <3>1, <3>2 DEF ArgPlace
      <4>3. arg[x] # c /\ arg[x] # t
        BY <1>0, <4>2
      <4>4. f # p
        BY <1>0, <4>1, <4>3 DEF Fresh
      <4>5. Fresh(R, f, arg[x])
        BY <1>7, <1>8, <4>1, <4>4 DEF Fresh, Live
      <4>6. \A u \in Task : D[u] = "fork" => B[u] # f
        BY <1>5, <4>1
      <4> QED BY <1>4, <3>1, <4>2, <4>3, <4>5, <4>6
    <3>3. ASSUME D[x] = "cloneset" PROVE Z[B[x]] \in {"new", "gone"}
      BY <1>0, <1>4, <2>0, <3>1, <3>3 DEF ArgPlace
    <3> QED BY <2>0, <3>1, <3>2, <3>3 DEF ArgPlace
  <2> QED BY <2>1, <2>2
<1>14. \A x, u \in Task : D[x] \in Creating /\ D[u] \in Creating /\ x # u => B[x] # B[u]
  <2>1. \A x \in Task \ {t} : D[x] \in Creating => B[x] # c
    BY <1>0, <1>5 DEF Places, ArgPlace, Creating
  <2> QED BY <1>5, <2>1 DEF Places
<1>15. D[Init1] \notin Ending \cup {"none", "record"}
  BY <1>5, Consts DEF Places, Ending
<1> QED BY <1>3, <1>12, <1>13, <1>14, <1>15 DEF Places, SchedStates, Z, D, B

LEMMA CloneStep == ASSUME RInv, NEW t \in Task, clone_current_thread(t) PROVE RInv' /\ Soft
<1> DEFINE p == Me(t)
           P == take_exited_member_tasks(proc, p)
           s == reap_exited_member_threads(proc, sched, p)
           c == NewTask
           n == alloc_tid
<1>1. /\ pc[t] = "user" /\ sched[t] = "live" /\ CanCreate /\ n \in Pid /\ nextTid' = n + 1
      /\ UNCHANGED <<nextPid, subreapers>>
  BY DEF clone_current_thread, User, AtUser
<1>2. \/ proc' = P /\ sched' = s /\ UNCHANGED <<pc, arg, tid>>
      \/ /\ proc' = [P EXCEPT ![p].tasks = @ \cup {c}] /\ sched' = [s EXCEPT ![c] = "new"]
         /\ tid' = [tid EXCEPT ![c] = n] /\ Goto(t, "cloneset", c)
  BY DEF clone_current_thread
<1>3. /\ p \in Live(proc) /\ p \in Pid /\ t \in proc[p].tasks /\ t \notin proc[p].dead /\ sched[t] # "new"
      /\ Listed(proc, t) /\ ~IsDead(proc, t)
  BY <1>1, Active DEF Ending
<1>4. /\ Places(proc, sched, pc, arg, nextPid) /\ Table(proc) /\ Tree(proc) /\ nextPid \in Nat
      /\ Counted(proc, subreapers) /\ Numbers(proc, tid, nextPid, nextTid) /\ sched \in [Task -> SchedStates]
  BY Tables DEF RInv
<1>5. c \in Task /\ sched[c] = "free"
  BY <1>1, NewTaskFree
<1>6. n \in Nat /\ nextTid <= n /\ \A u \in Task : Listed(proc, u) => tid[u] # n
  BY <1>4, TidAllocated
<1> HIDE DEF n, c
<1>7. s \in [Task -> SchedStates] /\ s[c] = "free" /\ s[t] = "live" /\ \A x \in Task : Like(sched[x], s[x])
  BY <1>1, <1>4, <1>5 DEF reap_exited_member_threads, SchedStates, Like
<1> HIDE DEF s
<1>8. /\ Table(P) /\ Trims(proc, P) /\ Calm(proc, P) /\ Live(P) = Live(proc)
      /\ P[p].st = proc[p].st /\ P[p].members = {} /\ \A q \in Pid \ {p} : P[q] = proc[q]
  <2>1. \E u \in proc[p].tasks : sched[u] # "new"
    BY <1>3
  <2> QED BY <1>3, <1>4, <2>1, MembersTaken
<1> HIDE DEF P, p
<1>9. Places(P, s, pc, arg, nextPid)
  <2>1. Places(P, sched, pc, arg, nextPid)
    BY <1>4, <1>8, PlacesTrims DEF Table
  <2> QED BY <1>4, <1>7, <2>1, Shifted
<1>10. Numbers(P, tid, nextPid, nextTid)
  BY <1>4, <1>8, NumbersTrims
<1>11. Numbers(P, tid, nextPid, n + 1)
  <2>1. n + 1 \in 1 .. MaxPid + 1 /\ nextTid \in Nat /\ nextTid <= n + 1
    BY <1>1, <1>6, Tables, Consts
  <2>2. \A q \in Live(P) : q < nextPid /\ q < n + 1
    BY <1>10, <2>1, Consts DEF Numbers, Live
  <2> QED BY <1>10, <2>1, <2>2 DEF Numbers
<1>12. Counted(P, subreapers)
  BY <1>4, <1>8, CountedSame DEF Calm
<1>13. CASE proc' = P /\ sched' = s /\ UNCHANGED <<pc, arg, tid>>
  <2>1. RInv'
    BY <1>1, <1>8, <1>9, <1>11, <1>12, <1>13 DEF RInv
  <2> QED BY <1>8, <1>13, <2>1 DEF Soft, Calm
<1>14. CASE /\ proc' = [P EXCEPT ![p].tasks = @ \cup {c}] /\ sched' = [s EXCEPT ![c] = "new"]
            /\ tid' = [tid EXCEPT ![c] = n] /\ Goto(t, "cloneset", c)
  <2>1. P \in TableType /\ P[p] \in ProcessType /\ P[p].tasks \in SUBSET Task /\ P[p].dead \in SUBSET Task
    BY <1>3, <1>8 DEF Table, Tree, TableType, ProcessType
  <2> DEFINE T == P[p].tasks \cup {c}
             r == ToTasks(P[p], T, P[p].dead)
  <2>2. proc' = Into(P, p, r)
    <3>1. P[p] = [P[p] EXCEPT !.dead = P[p].dead]
      BY <2>1 DEF ProcessType
    <3>2. r = [P[p] EXCEPT !.tasks = T]
      BY <2>1 DEF ToTasks, ProcessType
    <3>3. proc' = [P EXCEPT ![p] = [P[p] EXCEPT !.tasks = T]]
      BY <1>3, <1>14, <2>1 DEF TableType
    <3> QED BY <3>2, <3>3 DEF Into
  <2>3. /\ r \in ProcessType /\ r.st = P[p].st /\ r.lead = P[p].lead /\ r.tasks = P[p].tasks \cup {c}
        /\ r.dead = P[p].dead /\ r.members = P[p].members /\ r.sub = P[p].sub
        /\ r.parent = P[p].parent /\ r.born = P[p].born /\ r.dsrc = P[p].dsrc
        /\ r.stopw = P[p].stopw /\ r.contw = P[p].contw
    <3>1. T \in SUBSET Task
      BY <1>5, <2>1
    <3> HIDE DEF T
    <3>2. /\ r \in ProcessType /\ r.st = P[p].st /\ r.lead = P[p].lead /\ r.tasks = T
          /\ r.dead = P[p].dead /\ r.members = P[p].members /\ r.sub = P[p].sub
          /\ r.parent = P[p].parent /\ r.born = P[p].born /\ r.dsrc = P[p].dsrc
          /\ r.stopw = P[p].stopw /\ r.contw = P[p].contw
      BY <2>1, <3>1, RowTasks
    <3> QED BY <3>2 DEF T
  <2> HIDE DEF r
  <2>4. ThreadIn(P, proc', p, c)
    <3>1. proc' \in TableType /\ proc'[p] = r /\ \A q \in Pid \ {p} : proc'[q] = P[q]
      BY <1>3, <2>1, <2>2, <2>3, RowInto
    <3> QED BY <2>3, <3>1 DEF ThreadIn, ThreadRow
  <2>5. pc[c] = "none" /\ ~Listed(P, c) /\ ~IsDead(P, c) /\ ~Waits(P, c)
    BY <1>5, <1>7, <1>8, <1>9, FreeUnknown
  <2>6. t \in P[p].tasks
    BY <1>3, <1>8 DEF Trims, Trimmed
  <2>7. P[p].st # "exited"
    BY <1>3, <1>4, <1>8 DEF Tree, DeadRecorded
  <2>8. Table(proc')
    BY <1>3, <1>5, <1>8, <2>4, <2>5, <2>7, ThreadAdded
  <2>9. ThreadRow(P, proc', p) /\ proc'[p].tasks = P[p].tasks \cup {c}
    BY <2>4 DEF ThreadIn
  <2>10. /\ Live(proc') = Live(P) /\ Calm(P, proc')
         /\ \A q \in Pid : proc'[q].lead = P[q].lead
    BY <1>3, <2>9, ThreadCalm
  <2>11. Joins(P, s, p, t, c)
    BY <1>1, <1>7, <2>6 DEF Joins
  <2>12. Places(proc', [s EXCEPT ![c] = "new"], [pc EXCEPT ![t] = "cloneset"], [arg EXCEPT ![t] = c], nextPid)
    BY <1>3, <1>4, <1>5, <1>8, <1>9, <2>4, <2>11, Joined
  <2>13. Places(proc', sched', pc', arg', nextPid)
    BY <1>14, <2>12 DEF Goto
  <2>14. Numbers(proc', tid', nextPid, n + 1)
    <3>1. tid \in [Task -> Pid \cup {0}]
      BY <1>10 DEF Numbers
    <3>2. /\ tid' \in [Task -> Pid \cup {0}] /\ tid'[c] = n
          /\ \A x \in Task \ {c} : tid'[x] = tid[x]
      BY <1>1, <1>5, <1>14, <3>1
    <3>3. \A x \in Task \ {c} : Listed(proc', x) => Listed(P, x) /\ Listed(proc, x)
      <4>1. \A x \in Task \ {c} : \A q \in Pid : x \in proc'[q].tasks => x \in P[q].tasks
        BY <2>9 DEF ThreadRow
      <4>2. \A x \in Task : \A q \in Pid : x \in P[q].tasks => x \in proc[q].tasks
        BY <1>8 DEF Trims, Trimmed
      <4> QED BY <4>1, <4>2 DEF Listed
    <3>4. \A x \in Task \ {c} : Listed(proc', x) => tid'[x] # n
      BY <1>6, <3>2, <3>3
    <3>5. \A x, u \in Task : Listed(proc', x) /\ Listed(proc', u) /\ x # u => tid'[x] # tid'[u]
      BY <1>10, <3>2, <3>3, <3>4 DEF Numbers
    <3>6. \A q \in Live(proc') : \A x \in Task : Listed(proc', x) /\ tid'[x] = q => x = proc'[q].lead
      <4> SUFFICES ASSUME NEW q \in Live(proc'), NEW x \in Task, Listed(proc', x), tid'[x] = q
                   PROVE  x = proc'[q].lead
        OBVIOUS
      <4>1. q \in Live(P) /\ q \in Pid
        BY <2>10 DEF Live
      <4>2. q < nextTid /\ nextTid \in Nat /\ q \in Nat
        BY <1>10, <4>1, Tables, Consts DEF Numbers
      <4>3. q # n
        BY <1>6, <4>2
      <4>4. x # c
        BY <3>2, <4>3
      <4> QED BY <1>10, <2>10, <3>2, <3>3, <4>1, <4>4 DEF Numbers
    <3> QED BY <1>11, <2>10, <3>2, <3>5, <3>6 DEF Numbers
  <2>15. Counted(proc', subreapers)
    BY <1>12, <2>10, CountedSame DEF Calm
  <2>16. RInv'
    BY <1>1, <2>8, <2>13, <2>14, <2>15 DEF RInv
  <2>17. Calm(proc, proc')
    BY <1>8, <2>10, CalmTwice
  <2> QED BY <2>16, <2>17 DEF Soft, Calm
<1> QED BY <1>2, <1>13, <1>14

\* c, a task nobody uses yet, leads the process m that t has created for the parent arg[t].
Born(P, R, S, n, m, t, c) ==
  /\ pc[t] = "fork" /\ S[t] \in Running /\ S[c] = "free" /\ n <= m /\ m # Init1
  /\ arg[t] \in Live(P) /\ Live(R) = Live(P) \cup {m} /\ m \notin Live(P) /\ NewRow(R[m], arg[t], t, c)
  /\ \A q \in Pid \ {m} : R[q] = P[q]
  /\ \A q \in Live(P) : P[q].parent # m /\ P[q].dsrc # <<"proc", m>>

LEMMA ForkAdds ==
  ASSUME NEW P, Table(P), NEW S, NEW n \in Nat, Places(P, S, pc, arg, n), NEW m \in Pid, NEW t \in Task,
         NEW c \in Task, NEW R, Born(P, R, S, n, m, t, c)
  PROVE  Places(R, [S EXCEPT ![c] = "new"], [pc EXCEPT ![t] = "forkset"], [arg EXCEPT ![t] = c], m + 1)
<1> DEFINE Z == [S EXCEPT ![c] = "new"]
           D == [pc EXCEPT ![t] = "forkset"]
           B == [arg EXCEPT ![t] = c]
<1>0. /\ pc[t] = "fork" /\ S[t] \in Running /\ S[c] = "free" /\ n <= m /\ m # Init1
      /\ arg[t] \in Live(P) /\ Live(R) = Live(P) \cup {m} /\ m \notin Live(P)
      /\ \A q \in Pid \ {m} : R[q] = P[q]
      /\ \A q \in Live(P) : P[q].parent # m /\ P[q].dsrc # <<"proc", m>>
  BY DEF Born
<1>1. pc[c] = "none" /\ ~Listed(P, c) /\ ~IsDead(P, c) /\ ~Waits(P, c)
  BY <1>0, FreeUnknown
<1>2. S \in [Task -> SchedStates] /\ pc \in [Task -> PCs] /\ arg \in [Task -> Task \cup Pid \cup {0}]
  BY DEF Places, SchedStates
<1>3. D \in [Task -> PCs] /\ B \in [Task -> Task \cup Pid \cup {0}] /\ Z \in [Task -> SchedStates]
  BY <1>2 DEF PCs, SchedStates
<1>4. c # t /\ Z[c] = "new" /\ \A x \in Task \ {c} : Z[x] = S[x]
  BY <1>0, <1>1, <1>2
<1>5. /\ D[t] = "forkset" /\ B[t] = c
      /\ \A x \in Task \ {t} : D[x] = pc[x] /\ B[x] = arg[x]
  BY <1>2
<1> HIDE DEF Z, D, B
<1>6. /\ R[m].tasks = {c} /\ R[m].dead = {} /\ R[m].parent = arg[t] /\ R[m].dsrc = <<"task", t>>
      /\ ~R[m].sub /\ R[m].st = "run"
  BY DEF Born, NewRow
<1>7. P[m].tasks = {} /\ P[m].dead = {}
  BY <1>0, AbsentType DEF Live, Table, Tree, AbsentEmpty
<1>8. \A q \in Pid : R[q].dead = P[q].dead /\ \A x \in Task \ {c} : x \in R[q].tasks <=> x \in P[q].tasks
  BY <1>0, <1>6, <1>7
<1>9. /\ \A x \in Task \ {c} : Listed(R, x) <=> Listed(P, x)
      /\ \A x \in Task : IsDead(R, x) <=> IsDead(P, x)
  BY <1>8 DEF Listed, IsDead
<1>10. ASSUME NEW x \in Task, x # t, Waits(R, x) PROVE Waits(P, x)
  <2>1. PICK q \in Live(R) : R[q].dsrc = <<"task", x>>
    BY <1>10 DEF Waits
  <2>2. q # m
    BY <1>6, <1>10, <2>1
  <2>3. q \in Live(P) /\ R[q] = P[q]
    BY <1>0, <2>1, <2>2 DEF Live
  <2> QED BY <2>1, <2>3 DEF Waits
<1>11. Listed(R, c)
  BY <1>6 DEF Listed
<1>12. ASSUME NEW x \in Task PROVE TaskPlace(R, Z, D, x)
  <2>0. TaskPlace(P, S, pc, x) /\ TaskPlace(P, S, pc, t)
    BY DEF Places
  <2>1. CASE x = c
    <3>1. D[c] = "none" /\ Z[c] = "new"
      BY <1>1, <1>4, <1>5
    <3>2. Listed(R, c) /\ ~IsDead(R, c) /\ ~Waits(R, c)
      BY <1>1, <1>4, <1>9, <1>10, <1>11
    <3>3. TaskPlace(R, Z, D, c)
      BY <3>1, <3>2 DEF TaskPlace, Ending
    <3> QED BY <2>1, <3>3
  <2>2. CASE x = t
    <3>1. Listed(P, t) /\ ~IsDead(P, t)
      BY <1>0, <2>0 DEF TaskPlace, Ending
    <3>2. Listed(R, t) /\ ~IsDead(R, t)
      BY <1>4, <1>9, <3>1
    <3> QED BY <1>0, <1>4, <1>5, <2>2, <3>2 DEF TaskPlace, Running, Ending
  <2>3. CASE x # c /\ x # t
    <3>1. Z[x] = S[x] /\ D[x] = pc[x]
      BY <1>4, <1>5, <2>3
    <3>2. (Listed(R, x) <=> Listed(P, x)) /\ (IsDead(R, x) <=> IsDead(P, x)) /\ (Waits(R, x) => Waits(P, x))
      BY <1>9, <1>10, <2>3
    <3>3. ASSUME NEW q \in Pid, x \in R[q].tasks PROVE q # m /\ R[q] = P[q]
      BY <1>0, <1>6, <2>3, <3>3
    <3>4. ASSUME NEW q \in Pid, Z[x] \in {"exited", "gone"}, x \in R[q].tasks
          PROVE  x \in R[q].dead \/ (R[q].tasks = {x} /\ ~Waits(R, x))
      <4>1. R[q] = P[q] /\ x \in P[q].tasks
        BY <3>3, <3>4
      <4>2. x \in P[q].dead \/ (P[q].tasks = {x} /\ ~Waits(P, x))
        BY <2>0, <3>1, <3>4, <4>1 DEF TaskPlace
      <4> QED BY <3>2, <4>1, <4>2
    <3>5. ASSUME NEW q \in Pid, D[x] = "exec", x \in R[q].tasks PROVE R[q].lead = x
      <4>1. R[q] = P[q] /\ x \in P[q].tasks
        BY <3>3, <3>5
      <4> QED BY <2>0, <3>1, <3>5, <4>1 DEF TaskPlace
    <3> QED BY <2>0, <3>1, <3>2, <3>4, <3>5 DEF TaskPlace
  <2> QED BY <2>1, <2>2, <2>3
<1>13. \A u \in Task : D[u] = "fork" => u # t /\ pc[u] = "fork" /\ B[u] = arg[u] /\ arg[u] \in Pid /\ arg[u] < n
  BY <1>5 DEF Places, ArgPlace
<1>14. m \in Nat /\ \A u \in Task : D[u] = "fork" => B[u] \in Nat /\ B[u] < m /\ B[u] < m + 1
  BY <1>0, <1>13, Consts
<1>15. Fresh(R, m, c)
  <2>1. ASSUME NEW q \in Live(R) PROVE R[q].parent # m /\ R[q].dsrc # <<"proc", m>>
    <3>1. CASE q = m
      BY <1>0, <1>6, <3>1
    <3>2. CASE q # m
      BY <1>0, <3>2 DEF Live
    <3> QED BY <3>1, <3>2
  <2> QED BY <1>0, <1>6, <2>1 DEF Fresh
<1>16. ASSUME NEW x \in Task PROVE ArgPlace(R, Z, D, B, m + 1, x)
  <2>0. ArgPlace(P, S, pc, arg, n, x)
    BY DEF Places
  <2>1. CASE x = t
    <3>1. \A u \in Task : D[u] = "fork" => B[u] # m
      BY <1>14
    <3> QED BY <1>4, <1>5, <1>15, <2>1, <3>1 DEF ArgPlace
  <2>2. CASE x # t
    <3>1. D[x] = pc[x] /\ B[x] = arg[x]
      BY <1>5, <2>2
    <3>2. ASSUME D[x] = "forkset"
          PROVE  /\ Z[B[x]] = "new"
                 /\ \E f \in Pid : Fresh(R, f, B[x]) /\ \A u \in Task : D[u] = "fork" => B[u] # f
      <4>1. PICK f \in Pid : Fresh(P, f, arg[x]) /\ \A u \in Task : pc[u] = "fork" => arg[u] # f
        BY <2>0, <3>1, <3>2 DEF ArgPlace
      <4>2. arg[x] \in Task /\ S[arg[x]] = "new"
        BY <2>0, <3>1, <3>2 DEF ArgPlace
      <4>3. arg[x] # c
        BY <1>0, <4>2
      <4>4. f # m /\ arg[t] # f /\ R[f] = P[f]
        BY <1>0, <1>7, <4>1 DEF Fresh
      <4>5. ASSUME NEW q \in Live(R) PROVE R[q].parent # f /\ R[q].dsrc # <<"proc", f>>
        <5>1. CASE q = m
          BY <1>6, <4>4, <5>1
        <5>2. CASE q # m
          BY <1>0, <4>1, <5>2 DEF Fresh, Live
        <5> QED BY <5>1, <5>2
      <4>6. Fresh(R, f, arg[x])
        BY <4>1, <4>4, <4>5 DEF Fresh
      <4>7. \A u \in Task : D[u] = "fork" => B[u] # f
        BY <1>13, <4>1
      <4> QED BY <1>4, <3>1, <4>2, <4>3, <4>6, <4>7
    <3>3. ASSUME D[x] = "cloneset" PROVE Z[B[x]] \in {"new", "gone"}
      BY <1>0, <1>4, <2>0, <3>1, <3>3 DEF ArgPlace
    <3> QED BY <1>14, <2>0, <3>1, <3>2, <3>3 DEF ArgPlace
  <2> QED BY <2>1, <2>2
<1>17. \A x, u \in Task : D[x] \in Creating /\ D[u] \in Creating /\ x # u => B[x] # B[u]
  <2>1. \A x \in Task \ {t} : D[x] \in Creating => B[x] # c
    BY <1>0, <1>5 DEF Places, ArgPlace, Creating
  <2> QED BY <1>5, <2>1 DEF Places
<1>18. D[Init1] \notin Ending \cup {"none", "record"}
  BY <1>5, Consts DEF Places, Ending
<1> QED BY <1>3, <1>12, <1>16, <1>17, <1>18 DEF Places, SchedStates, Z, D, B

\* A process is new, with its creator's choice of a parent; the others are as they were.
Forked == \E m \in Pid :
  /\ m \notin Live(proc) /\ Live(proc') = Live(proc) \cup {m} /\ \A q \in Live(proc) : proc'[q] = proc[q]
  /\ nextPid <= m /\ nextPid' = m + 1 /\ ~Event(proc'[m])
  /\ proc'[m].born \in Live(proc) /\ proc'[m].parent = proc'[m].born /\ proc'[m].born < nextPid
  /\ \E c \in Task : ~Listed(proc, c) /\ proc'[m].tasks = {c} /\ sched'[c] = "new"
                     /\ \A x \in Task \ {c} : sched'[x] = sched[x]

LEMMA ForkCreateStep == ASSUME RInv, NEW t \in Task, ForkCreate(t) PROVE RInv' /\ ((Soft /\ proc' = proc) \/ Forked)
<1> DEFINE a == arg[t]
           n == alloc_pid
           c == NewTask
           r == create_process_like_fork_with_parent(n, Me(t), a, t, c)
<1>1. pc[t] = "fork" /\ UNCHANGED subreapers
  BY DEF ForkCreate
<1>2. \/ /\ process_exists(a) /\ CanCreate /\ n \in Pid /\ proc' = [proc EXCEPT ![n] = r]
         /\ sched' = [sched EXCEPT ![c] = "new"] /\ tid' = [tid EXCEPT ![c] = n] /\ nextPid' = n + 1
         /\ nextTid' = IF nextTid <= n THEN n + 1 ELSE nextTid
         /\ Goto(t, "forkset", c)
      \/ Goto(t, "user", 0) /\ UNCHANGED <<proc, sched, tid, nextPid, nextTid>>
  BY DEF ForkCreate
<1>3. /\ Me(t) \in Live(proc) /\ Me(t) \in Pid /\ t \in proc[Me(t)].tasks \ proc[Me(t)].dead
      /\ sched[t] \in Running /\ Listed(proc, t) /\ ~IsDead(proc, t)
  BY <1>1, Active DEF Ending
<1>4. /\ Places(proc, sched, pc, arg, nextPid) /\ Table(proc) /\ Tree(proc) /\ nextPid \in Nat /\ nextTid \in Nat
      /\ Counted(proc, subreapers) /\ Numbers(proc, tid, nextPid, nextTid) /\ sched \in [Task -> SchedStates]
      /\ proc \in TableType
  BY Tables DEF RInv
<1>5. CASE Goto(t, "user", 0) /\ UNCHANGED <<proc, sched, tid, nextPid, nextTid>>
  <2>1. Goes(proc, pc, arg, nextPid, t, "user", 0)
    BY <1>1, MayGo DEF Ending
  <2>2. sched' \in [Task -> SchedStates] /\ \A x \in Task : Like(sched[x], sched'[x])
    BY <1>4, <1>5, LikeSame
  <2>3. UNCHANGED <<proc, tid, nextPid, nextTid, subreapers>>
    BY <1>1, <1>5
  <2>4. RInv'
    BY <1>3, <1>5, <2>1, <2>2, <2>3, OnlyMoves
  <2>5. Soft
    BY <1>5, SoftSame
  <2> QED BY <1>5, <2>4, <2>5
<1>6. CASE /\ process_exists(a) /\ CanCreate /\ n \in Pid /\ proc' = [proc EXCEPT ![n] = r]
           /\ sched' = [sched EXCEPT ![c] = "new"] /\ tid' = [tid EXCEPT ![c] = n] /\ nextPid' = n + 1
           /\ nextTid' = IF nextTid <= n THEN n + 1 ELSE nextTid
           /\ Goto(t, "forkset", c)
  <2>1. a \in Live(proc) /\ a \in Pid /\ a < nextPid
    BY <1>1, <1>4, <1>6 DEF process_exists, Live, Places, ArgPlace
  <2>2. c \in Task /\ sched[c] = "free"
    BY <1>6, NewTaskFree
  <2>3. n \in Nat /\ nextPid <= n /\ n \notin Live(proc) /\ \A u \in Task : Listed(proc, u) => tid[u] # n
    BY <1>4, PidAllocated
  <2>4. NewRow(r, a, t, c)
    BY <1>3, <1>4, <1>6, <2>1, <2>2, CreatedRow
  <2>5. proc' = Into(proc, n, r)
    BY <1>6 DEF Into
  <2>6. pc[c] = "none" /\ ~Listed(proc, c) /\ ~IsDead(proc, c) /\ ~Waits(proc, c)
    BY <1>4, <2>2, FreeUnknown
  <2>7. n \in Pid /\ n # Init1
    BY <1>6, <2>3, Tables
  <2> HIDE DEF n, c, r
  <2>8. /\ Table(proc') /\ Live(proc') = Live(proc) \cup {n} /\ proc'[n] = r
        /\ \A q \in Pid \ {n} : proc'[q] = proc[q]
        /\ \A q \in Live(proc) : proc[q].parent # n /\ proc[q].dsrc # <<"proc", n>>
    BY <1>3, <1>4, <2>1, <2>2, <2>3, <2>4, <2>5, <2>6, <2>7, ProcessCreated
  <2>9. /\ r \in ProcessType /\ r.st = "run" /\ r.parent = a /\ r.born = a /\ r.lead = c /\ r.tasks = {c}
        /\ ~r.sub /\ ~r.stopw /\ ~r.contw
    BY <2>4 DEF NewRow
  <2>10. Born(proc, proc', sched, nextPid, n, t, c)
    BY <1>1, <1>3, <2>1, <2>2, <2>3, <2>4, <2>7, <2>8 DEF Born
  <2>11. Places(proc', [sched EXCEPT ![c] = "new"], [pc EXCEPT ![t] = "forkset"], [arg EXCEPT ![t] = c], n + 1)
    BY <1>4, <2>2, <2>7, <2>10, ForkAdds
  <2>12. Places(proc', sched', pc', arg', nextPid')
    BY <1>6, <2>11 DEF Goto
  <2>13. Counted(proc', subreapers)
    <3>1. proc[n].sub = FALSE
      BY <1>4, <2>3, <2>7 DEF Tree, AbsentEmpty, Absent, Live
    <3>2. SameSubs(proc, proc')
      <4>1. r.sub = FALSE
        BY <2>9 DEF ProcessType
      <4> QED BY <2>8, <3>1, <4>1 DEF SameSubs
    <3> QED BY <1>4, <3>2, CountedSame
  <2>14. Numbers(proc', tid', nextPid', nextTid')
    <3>1. tid \in [Task -> Pid \cup {0}] /\ nextTid \in 1 .. MaxPid + 1
      BY <1>4 DEF Numbers
    <3>2. /\ tid' \in [Task -> Pid \cup {0}] /\ tid'[c] = n
          /\ \A x \in Task \ {c} : tid'[x] = tid[x]
      BY <1>6, <2>2, <2>7, <3>1
    <3>3. \A x \in Task \ {c} : Listed(proc', x) => Listed(proc, x)
      <4>1. \A x \in Task \ {c} : \A q \in Pid : x \in proc'[q].tasks => x \in proc[q].tasks
        BY <2>8, <2>9
      <4> QED BY <4>1 DEF Listed
    <3>4. \A x, u \in Task : Listed(proc', x) /\ Listed(proc', u) /\ x # u => tid'[x] # tid'[u]
      BY <1>4, <2>3, <3>2, <3>3 DEF Numbers
    <3>5. /\ nextPid' \in 1 .. MaxPid + 1 /\ nextTid' \in 1 .. MaxPid + 1 /\ n < nextPid' /\ n < nextTid'
          /\ nextTid <= nextTid' /\ nextPid <= nextPid'
      BY <1>4, <1>6, <2>3, <2>7, <3>1, Consts
    <3>6. \A q \in Live(proc') : q < nextPid' /\ q < nextTid'
      <4> SUFFICES ASSUME NEW q \in Live(proc) PROVE q < nextPid' /\ q < nextTid'
        BY <2>8, <3>5
      <4>1. q < nextPid /\ q < nextTid /\ q \in Nat
        BY <1>4, Consts DEF Numbers, Live
      <4> QED BY <1>4, <3>5, <4>1
    <3>7. \A q \in Live(proc') : \A x \in Task : Listed(proc', x) /\ tid'[x] = q => x = proc'[q].lead
      <4> SUFFICES ASSUME NEW q \in Live(proc'), NEW x \in Task, Listed(proc', x), tid'[x] = q
                   PROVE  x = proc'[q].lead
        OBVIOUS
      <4>1. CASE q = n
        <5>1. x = c
          BY <2>3, <3>2, <3>3, <4>1
        <5> QED BY <2>8, <2>9, <4>1, <5>1
      <4>2. CASE q # n
        <5>1. q \in Live(proc) /\ proc'[q] = proc[q] /\ x # c
          BY <2>8, <3>2, <4>2 DEF Live
        <5> QED BY <1>4, <3>2, <3>3, <5>1 DEF Numbers
      <4> QED BY <4>1, <4>2
    <3> QED BY <3>2, <3>4, <3>5, <3>6, <3>7 DEF Numbers
  <2>15. RInv'
    BY <1>1, <2>8, <2>12, <2>13, <2>14 DEF RInv
  <2>16. Forked
    <3>1. \A q \in Live(proc) : proc'[q] = proc[q]
      BY <2>3, <2>8 DEF Live
    <3>2. ~Event(proc'[n])
      BY <2>8, <2>9 DEF Event
    <3>3. sched'[c] = "new" /\ \A x \in Task \ {c} : sched'[x] = sched[x]
      BY <1>4, <1>6, <2>2
    <3>4. proc'[n].born = a /\ proc'[n].parent = a /\ proc'[n].tasks = {c} /\ nextPid' = n + 1
      BY <1>6, <2>8, <2>9
    <3> QED BY <2>1, <2>2, <2>3, <2>6, <2>7, <2>8, <3>1, <3>2, <3>3, <3>4 DEF Forked
  <2> QED BY <2>15, <2>16
<1> QED BY <1>2, <1>5, <1>6

-----------------------------------------------------------------------------
(***************************************************************************)
(* The theorems for every set of calls.                                    *)
(***************************************************************************)
LEMMA InitRInv == ASSUME Init PROVE RInv /\ \A p \in Pid \ {Init1} : proc[p] = Absent
<1> DEFINE r == create_process_for_task(Init1, Init1, NoPid)
<1>0. /\ Init1 \in Task /\ Init1 \in Pid /\ Init1 # 0 /\ MaxPid \in Nat /\ Pid = 1 .. MaxPid
  BY Consts
<1>1. /\ proc = [p \in Pid |-> IF p = Init1 THEN r ELSE Absent]
      /\ sched = [t \in Task |-> IF t = Init1 THEN "live" ELSE "free"]
      /\ pc = [t \in Task |-> IF t = Init1 THEN "user" ELSE "none"]
      /\ arg = [t \in Task |-> 0]
      /\ tid = [t \in Task |-> IF t = Init1 THEN Init1 ELSE 0]
      /\ nextPid = 2 /\ nextTid = 2 /\ subreapers = 0
  BY DEF Init
<1>2. r = [st |-> "run", parent |-> NoPid, born |-> NoPid, lead |-> Init1, tasks |-> {Init1}, dead |-> {},
           members |-> {}, exec |-> FALSE, sub |-> FALSE, dsig |-> FALSE, dsrc |-> NoSource,
           stopw |-> FALSE, contw |-> FALSE, pgid |-> Init1, sid |-> Init1]
  <2>1. r = [Absent EXCEPT !.st = "run", !.parent = NoPid, !.born = NoPid, !.lead = Init1, !.tasks = {Init1},
                           !.pgid = Init1, !.dsrc = NoSource, !.sid = Init1]
    BY DEF create_process_for_task
  <2> HIDE DEF r
  <2> QED BY <2>1 DEF Absent
<1> HIDE DEF r
<1>3. /\ r.st = "run" /\ r.parent = NoPid /\ r.lead = Init1 /\ r.tasks = {Init1} /\ r.dead = {}
      /\ r.members = {} /\ ~r.sub /\ r.dsrc = NoSource
  BY <1>2
<1>4. r \in ProcessType
  <2>1. {Init1} \in SUBSET Task /\ "run" \in States /\ {} \in SUBSET Task
    BY <1>0 DEF States
  <2> QED BY <1>0, <1>2, <2>1 DEF ProcessType
<1>5. proc[Init1] = r /\ \A p \in Pid \ {Init1} : proc[p] = Absent
  BY <1>0, <1>1
<1>6. proc \in TableType
  BY <1>1, <1>4, AbsentType DEF TableType
<1>7. /\ Absent.st = "none" /\ ~Absent.sub /\ Absent.tasks = {} /\ Absent.dead = {} /\ Absent.members = {}
  BY DEF Absent
<1>8. Live(proc) = {Init1}
  BY <1>0, <1>3, <1>5, <1>7 DEF Live
<1>9. ASSUME NEW p \in Pid
      PROVE  /\ proc[p].tasks = IF p = Init1 THEN {Init1} ELSE {}
             /\ proc[p].dead = {} /\ ~proc[p].sub /\ proc[p].members = {}
             /\ proc[p].st = IF p = Init1 THEN "run" ELSE "none"
  BY <1>3, <1>5, <1>7
<1>10. Tree(proc)
  <2>1. AbsentEmpty(proc) /\ OneProcess(proc) /\ DeadRecorded(proc)
    BY <1>5, <1>9 DEF AbsentEmpty, OneProcess, DeadRecorded
  <2>2. ParentsLive(proc) /\ InitRuns(proc)
    BY <1>0, <1>3, <1>5, <1>8, <1>9 DEF ParentsLive, InitRuns
  <2> QED BY <1>6, <2>1, <2>2 DEF Tree
<1>11. Table(proc)
  BY <1>3, <1>5, <1>8, <1>10, NoSourceAlive DEF Table, SourcesAlive
<1>12. Counted(proc, subreapers)
  <2>1. {p \in Pid : proc[p].sub} = {}
    BY <1>9
  <2> QED BY <1>1, <2>1, FS_EmptySet DEF Counted
<1>13. \A t \in Task : (Listed(proc, t) <=> t = Init1) /\ ~IsDead(proc, t) /\ ~Waits(proc, t)
  <2>1. \A t \in Task : (Listed(proc, t) <=> t = Init1) /\ ~IsDead(proc, t)
    BY <1>0, <1>9 DEF Listed, IsDead
  <2>2. \A t \in Task : ~Waits(proc, t)
    BY <1>3, <1>5, <1>8 DEF Waits, NoSource
  <2> QED BY <2>1, <2>2
<1>14. Numbers(proc, tid, nextPid, nextTid)
  <2>1. tid \in [Task -> Pid \cup {0}] /\ 2 \in 1 .. MaxPid + 1
    BY <1>0, <1>1
  <2>2. \A p \in Live(proc) : p < 2
    BY <1>8 DEF Init1
  <2>3. \A p \in Live(proc) : \A t \in Task : Listed(proc, t) /\ tid[t] = p => t = proc[p].lead
    BY <1>3, <1>5, <1>8, <1>13
  <2> QED BY <1>1, <1>13, <2>1, <2>2, <2>3 DEF Numbers
<1>15. Places(proc, sched, pc, arg, nextPid)
  <2>1. /\ sched \in [Task -> SchedStates] /\ pc \in [Task -> PCs] /\ arg \in [Task -> Task \cup Pid \cup {0}]
    BY <1>1 DEF SchedStates, PCs
  <2>2. \A t \in Task : /\ pc[t] = IF t = Init1 THEN "user" ELSE "none"
                        /\ sched[t] = IF t = Init1 THEN "live" ELSE "free"
    BY <1>1
  <2>3. ASSUME NEW t \in Task PROVE TaskPlace(proc, sched, pc, t) /\ ArgPlace(proc, sched, pc, arg, nextPid, t)
    <3>1. (Listed(proc, t) <=> t = Init1) /\ ~IsDead(proc, t)
      BY <1>13
    <3>2. CASE t = Init1
      BY <2>2, <3>1, <3>2 DEF TaskPlace, ArgPlace, Running, Ending
    <3>3. CASE t # Init1
      BY <2>2, <3>1, <3>3 DEF TaskPlace, ArgPlace, Running, Ending
    <3> QED BY <3>2, <3>3
  <2> QED BY <1>0, <2>1, <2>2, <2>3 DEF Places, SchedStates, Creating, Ending
<1> QED BY <1>5, <1>11, <1>12, <1>14, <1>15 DEF RInv

\* What a step does to the table, but for an exec and the kills it makes.
Exec(t) == do_execve(t) \/ \E x \in Task : kill_task_with_notifications(t, x)
News(t) ==
  \/ Soft \/ Forked
  \/ record_current_task_exit(t) /\ Announced(t)
  \/ \E p \in Pid : (StopDispatch(t, p) \/ ContinueDispatch(t, p)) /\ NewsOf(p)

LEMMA StepRInv == ASSUME RInv, NEW t \in Task, Step(t) PROVE RInv' /\ (Exec(t) \/ News(t))
<1>1. CASE ForkRead(t)
  BY <1>1, ForkReadStep DEF News
<1>2. CASE ForkCreate(t)
  BY <1>2, ForkCreateStep DEF News
<1>3. CASE start_fork_child(t)
  BY <1>3, StartForkStep DEF News
<1>4. CASE abort_fork_child(t)
  BY <1>4, AbortStep DEF News
<1>5. CASE clone_current_thread(t)
  BY <1>5, CloneStep DEF News
<1>6. CASE start_clone_thread(t)
  BY <1>6, StartCloneStep DEF News
<1>7. CASE sys_exit(t)
  BY <1>7, ExitStep DEF News
<1>8. CASE exit_group_with_wait_code(t)
  BY <1>8, ExitGroupStep DEF News
<1>9. CASE record_current_task_exit(t)
  BY <1>9, RecordStep DEF News
<1>10. CASE Notify(t)
  BY <1>10, NotifyStep DEF News
<1>11. CASE wake_parent_child_waiters(t)
  BY <1>11, WakeStep DEF News
<1>12. CASE exit_current(t)
  BY <1>12, ExitCurrentStep DEF News
<1>13. CASE wait_for_completion(t)
  BY <1>13, VforkWaitStep DEF News
<1>14. CASE begin_process_exec(t)
  BY <1>14, BeginExecStep DEF News
<1>15. CASE do_execve(t)
  BY <1>15, ExecStep DEF Exec
<1>16. ASSUME NEW x \in Task, kill_task_with_notifications(t, x) PROVE RInv' /\ Exec(t)
  BY <1>16, KillStep DEF Exec
<1>17. CASE sys_waitpid(t)
  BY <1>17, WaitStep DEF News
<1>18. CASE wait_interrupted(t)
  BY <1>18, InterruptedStep DEF News
<1>19. CASE wait_for_child(t)
  BY <1>19, WaitChildStep DEF News
<1>20. CASE reap_exited_process(t)
  BY <1>20, ReapStep DEF News
<1>21. CASE reap_all_exited_processes(t)
  BY <1>21, ReapAllStep DEF News
<1>22. CASE wait_for_child_event(t)
  BY <1>22, WaitBlockStep DEF News
<1>23. CASE continue_process_tasks(t)
  BY <1>23, ContinueTasksStep DEF News
<1>24. CASE StopSeen(t)
  BY <1>24, StopSeenStep DEF News
<1>25. CASE StopBlock(t)
  BY <1>25, StopBlockStep DEF News
<1>26. ASSUME NEW p \in Pid, StopDispatch(t, p) \/ ContinueDispatch(t, p) PROVE RInv' /\ News(t)
  <2>1. RInv' /\ NewsOf(p)
    BY <1>26, StopStep, ContinueStep
  <2> QED BY <1>26, <2>1 DEF News
<1>27. CASE sys_prctl(t)
  BY <1>27, PrctlStep DEF News
<1>28. CASE create_session_for_process(t)
  BY <1>28, SessionStep DEF News
<1>29. ASSUME NEW p \in Pid, NEW g \in Pid, sys_setpgid(t, p, g) PROVE RInv' /\ News(t)
  BY <1>29, SetpgidStep DEF News
<1> QED BY <1>1, <1>2, <1>3, <1>4, <1>5, <1>6, <1>7, <1>8, <1>9, <1>10, <1>11, <1>12, <1>13, <1>14, <1>15,
           <1>16, <1>17, <1>18, <1>19, <1>20, <1>21, <1>22, <1>23, <1>24, <1>25, <1>26, <1>27, <1>28, <1>29 DEF Step

(* The inductive invariant: the table of processes, the numbers handed out,   *)
(* the count of subreapers, and the place of each task in its system call     *)
(* agree after every step of fork, clone, exec, exit, wait, job control and   *)
(* the prctl and session calls (task-impl, lifecycle.rs, process.rs).        *)
THEOREM RegistryInvariance == Spec => []RInv
<1>1. Init => RInv
  BY InitRInv
<1>2. RInv /\ [Next]_vars => RInv'
  <2> SUFFICES ASSUME RInv, [Next]_vars PROVE RInv'
    OBVIOUS
  <2>1. CASE Next
    BY <2>1, StepRInv DEF Next
  <2>2. CASE UNCHANGED vars
    <3>1. UNCHANGED <<proc, sched, pc, arg, tid, nextPid, nextTid, subreapers>>
      BY <2>2 DEF vars
    <3>2. Table(proc') /\ Counted(proc', subreapers') /\ Numbers(proc', tid', nextPid', nextTid')
      BY <3>1 DEF RInv
    <3>3. Places(proc', sched', pc', arg', nextPid')
      BY <3>1 DEF RInv
    <3> QED BY <3>2, <3>3 DEF RInv
  <2> QED BY <2>1, <2>2
<1> QED BY <1>1, <1>2, PTL DEF Spec

(* Every variable of the registry keeps its type; the count of subreapers     *)
(* never falls below zero (remove_process and detach_exited_process).         *)
THEOREM ProcessTypeCorrect == Spec => []TypeOK
<1>1. RInv => TypeOK
  <2> SUFFICES ASSUME RInv PROVE TypeOK
    OBVIOUS
  <2>1. proc \in TableType /\ nextPid \in Nat /\ nextTid \in Nat
    BY Tables
  <2>2. tid \in [Task -> Pid \cup {0}]
    BY DEF RInv, Numbers
  <2>3. subreapers \in 0 .. Cardinality(Pid)
    <3>1. /\ IsFiniteSet({p \in Pid : proc[p].sub})
          /\ Cardinality({p \in Pid : proc[p].sub}) <= Cardinality(Pid)
      BY Consts, FS_Subset
    <3>2. Cardinality({p \in Pid : proc[p].sub}) \in Nat /\ Cardinality(Pid) \in Nat
      BY <3>1, Consts, FS_CardinalityType
    <3> QED BY <3>1, <3>2 DEF RInv, Counted
  <2>4. /\ sched \in [Task -> {"free", "new", "live", "child", "intr", "manual", "vfork", "exited", "gone"}]
        /\ pc \in [Task -> PCs] /\ arg \in [Task -> Task \cup Pid \cup {0}]
    BY DEF RInv, Places
  <2> QED BY <2>1, <2>2, <2>3, <2>4 DEF TypeOK, TableType, ProcessType
<1> QED BY <1>1, RegistryInvariance, PTL

LEMMA ListedPids == ASSUME NEW t \in Task PROVE PidsOf(t) # {} <=> Listed(proc, t)
  BY DEF PidsOf, Listed

LEMMA OnePid == ASSUME RInv, NEW t \in Task PROVE Cardinality(PidsOf(t)) <= 1
<1>1. CASE PidsOf(t) = {}
  BY <1>1, FS_EmptySet
<1>2. CASE PidsOf(t) # {}
  <2>1. PICK m : PidsOf(t) = {m}
    <3>1. Me(t) \in PidsOf(t) /\ \A q \in PidsOf(t) : q = Me(t)
      BY <1>2, Mine DEF PidsOf
    <3> QED BY <3>1
  <2>2. Cardinality({m}) = 1
    BY FS_Singleton
  <2> QED BY <2>1, <2>2
<1> QED BY <1>1, <1>2

(* The tables of the registry agree whatever calls are made: numbers name one *)
(* task each, a thread never carries the pid of a process it does not lead, a *)
(* task is in one process, parents are in the table, subreapers are counted  *)
(* (the assertions of insert_process and remove_task_indexes).              *)
THEOREM TablesAgreeHolds == Spec => []TablesAgree
<1>1. RInv => TablesAgree
  <2> SUFFICES ASSUME RInv PROVE TablesAgree
    OBVIOUS
  <2>1. /\ Numbers(proc, tid, nextPid, nextTid) /\ Counted(proc, subreapers) /\ ParentsLive(proc)
    BY DEF RInv, Table, Tree
  <2>2. \A p \in Live(proc) \ {Init1} : process_exists(proc[p].parent)
    BY <2>1 DEF ParentsLive, process_exists, Live
  <2>3. \A t, u \in Task : (PidsOf(t) # {} /\ PidsOf(u) # {} /\ t # u) => tid[t] # tid[u]
    BY <2>1, ListedPids DEF Numbers
  <2>4. \A p \in Live(proc) : \A t \in Task : (PidsOf(t) # {} /\ tid[t] = p) => t = proc[p].lead
    BY <2>1, ListedPids DEF Numbers
  <2> QED BY <2>1, <2>2, <2>3, <2>4, OnePid DEF TablesAgree, Counted
<1> QED BY <1>1, RegistryInvariance, PTL

(* What a process waits for to die is alive, whatever calls are made: no      *)
(* death is recorded before the sources that name it have been taken          *)
(* (take_parent_death_notifications before every exit and removal).          *)
THEOREM DeathSourceHolds == Spec => []DeathSourceAlive
<1>1. RInv => DeathSourceAlive
  BY DEF RInv, Table, SourcesAlive, SourceAlive, DeathSourceAlive, process_exists, Live
<1> QED BY <1>1, RegistryInvariance, PTL

-----------------------------------------------------------------------------
(***************************************************************************)
(* What a step other than an exec leaves alone: the lists of tasks but for  *)
(* tasks that are new, the tasks on their way to wake a parent, and those   *)
(* that sleep in wait4.                                                     *)
(***************************************************************************)
Keeps(P) == \A q \in Pid : \A x \in Task : x \in P[q].tasks => x \in proc[q].tasks \/ sched[x] = "free"

LEMMA SameKeeps == Keeps(proc)
  BY DEF Keeps

LEMMA TrimsKeep == ASSUME Trims(proc, proc') PROVE Keeps(proc')
  BY DEF Trims, Trimmed, Keeps

LEMMA RowKeeps ==
  ASSUME RInv, NEW p \in Pid, NEW r, r.tasks \subseteq proc[p].tasks, proc' = Into(proc, p, r) PROVE Keeps(proc')
<1>1. \A q \in Pid : proc'[q] = IF q = p THEN r ELSE proc[q]
  BY Tables DEF Into, TableType
<1> QED BY <1>1 DEF Keeps

LEMMA ForkKeeps == ASSUME RInv, NEW t \in Task, ForkCreate(t) PROVE Keeps(proc')
<1>1. CASE proc' = proc
  BY <1>1, SameKeeps
<1>2. CASE Forked
  <2>1. PICK m \in Pid :
          /\ m \notin Live(proc) /\ Live(proc') = Live(proc) \cup {m} /\ \A q \in Live(proc) : proc'[q] = proc[q]
          /\ \E c \in Task : ~Listed(proc, c) /\ proc'[m].tasks = {c} /\ sched'[c] = "new"
                             /\ \A x \in Task \ {c} : sched'[x] = sched[x]
    BY <1>2 DEF Forked
  <2>2. PICK c \in Task : proc'[m].tasks = {c} /\ sched'[c] = "new" /\ ~Listed(proc, c)
                          /\ \A x \in Task \ {c} : sched'[x] = sched[x]
    BY <2>1
  <2>3. Tree(proc')
    BY ForkCreateStep DEF RInv, Table
  <2>4. \A q \in Pid : q \notin Live(proc') => proc'[q].tasks = {}
    BY <2>3, AbsentType DEF Tree, AbsentEmpty, Live
  <2>5. \A q \in Pid : q # m => proc'[q].tasks \subseteq proc[q].tasks
    BY <2>1, <2>4
  <2>6. sched[c] = "free" \/ proc' = proc
    <3> DEFINE n == alloc_pid
               d == NewTask
    <3>1. ~(proc' = proc) => CanCreate /\ sched' = [sched EXCEPT ![d] = "new"]
      BY DEF ForkCreate
    <3>2. ~(proc' = proc) => d \in Task /\ sched[d] = "free"
      BY <3>1, NewTaskFree
    <3>3. c # d /\ ~(proc' = proc) => sched[c] = "new"
      <4> HIDE DEF d
      <4> QED BY <2>2, <3>1, <3>2, Tables
    <3>4. TaskPlace(proc, sched, pc, c)
      BY DEF RInv, Places
    <3>5. sched[c] # "new"
      BY <2>2, <3>4 DEF TaskPlace
    <3> QED BY <3>2, <3>3, <3>5
  <2> QED BY <2>2, <2>5, <2>6 DEF Keeps
<1> QED BY <1>1, <1>2, ForkCreateStep

LEMMA AbortKeeps == ASSUME RInv, NEW t \in Task, abort_fork_child(t) PROVE Keeps(proc')
<1> DEFINE p == pid_for_task(arg[t])
<1>1. proc' = remove_process(proc, p) \/ proc' = proc
  BY DEF abort_fork_child
<1> HIDE DEF p
<1>2. CASE proc' = remove_process(proc, p)
  <2>1. \A q \in Pid : proc'[q] = IF q = p THEN Absent ELSE proc[q]
    BY <1>2, Tables DEF remove_process, TableType
  <2> QED BY <2>1, AbsentType DEF Keeps
<1> QED BY <1>1, <1>2, SameKeeps

LEMMA CloneKeeps == ASSUME RInv, NEW t \in Task, clone_current_thread(t) PROVE Keeps(proc')
<1> DEFINE p == Me(t)
           P == take_exited_member_tasks(proc, p)
           c == NewTask
<1>1. pc[t] = "user" /\ CanCreate /\ (proc' = P \/ proc' = [P EXCEPT ![p].tasks = @ \cup {c}])
  BY DEF clone_current_thread, User, AtUser
<1>2. p \in Live(proc) /\ \E u \in proc[p].tasks : sched[u] # "new"
  BY <1>1, Active DEF Ending
<1>3. c \in Task /\ sched[c] = "free"
  BY <1>1, NewTaskFree
<1> HIDE DEF c, p
<1>4. Table(P) /\ Trims(proc, P)
  BY <1>2, MembersTaken DEF RInv
<1> HIDE DEF P
<1>5. \A q \in Pid : P[q].tasks \subseteq proc[q].tasks
  BY <1>4 DEF Trims, Trimmed
<1>6. CASE proc' = P
  BY <1>5, <1>6 DEF Keeps
<1>7. CASE proc' = [P EXCEPT ![p].tasks = @ \cup {c}]
  <2>1. P \in TableType
    BY <1>4 DEF Table, Tree
  <2>2. \A q \in Pid : proc'[q].tasks = IF q = p THEN P[p].tasks \cup {c} ELSE P[q].tasks
    BY <1>2, <1>7, <2>1 DEF TableType, ProcessType
  <2> QED BY <1>3, <1>5, <2>2 DEF Keeps
<1> QED BY <1>1, <1>6, <1>7

LEMMA StartCloneKeeps == ASSUME RInv, NEW t \in Task, start_clone_thread(t) PROVE Keeps(proc')
<1>1. CASE proc' = proc
  BY <1>1, SameKeeps
<1>2. CASE proc' = ToDropped(arg[t])
  <2> DEFINE c == arg[t]
  <2>1. \A q \in Pid : proc'[q] = IF c \in proc[q].tasks
                                  THEN [proc[q] EXCEPT !.tasks = @ \ {c}, !.dead = @ \ {c}] ELSE proc[q]
    BY <1>2 DEF ToDropped
  <2>2. \A q \in Pid : proc[q] \in ProcessType
    BY Tables DEF TableType
  <2> HIDE DEF c
  <2>3. ASSUME NEW q \in Pid PROVE proc'[q].tasks \subseteq proc[q].tasks
    <3>1. CASE c \in proc[q].tasks
      <4>1. proc'[q] = [proc[q] EXCEPT !.tasks = @ \ {c}, !.dead = @ \ {c}]
        BY <2>1, <3>1
      <4>2. proc'[q].tasks = proc[q].tasks \ {c}
        BY <2>2, <4>1 DEF ProcessType
      <4> QED BY <4>2
    <3>2. CASE c \notin proc[q].tasks
      BY <2>1, <3>2
    <3> QED BY <3>1, <3>2
  <2> QED BY <2>3 DEF Keeps
<1> QED BY <1>1, <1>2 DEF start_clone_thread, ToDropped

LEMMA ExitGroupKeeps == ASSUME RInv, NEW t \in Task, exit_group_with_wait_code(t) PROVE Keeps(proc')
<1> DEFINE p == Me(t)
           P == take_exited_member_tasks(proc, p)
<1>1. pc[t] = "user" /\ p # Init1 /\ proc' = mark_process_exited(P, p)
  BY DEF exit_group_with_wait_code, User, AtUser
<1>2. p \in Live(proc) /\ p \in Pid /\ t \in proc[p].tasks /\ t \notin proc[p].dead /\ sched[t] # "new"
  BY <1>1, Active DEF Ending
<1> HIDE DEF p, P
<1>3. Table(P) /\ Trims(proc, P) /\ Live(P) = Live(proc)
  BY <1>2, MembersTaken DEF P, RInv
<1>4. p \in Live(P) /\ t \in P[p].tasks /\ t \notin P[p].dead
  BY <1>2, <1>3 DEF Trims, Trimmed
<1>5. Trims(P, proc')
  BY <1>1, <1>2, <1>3, <1>4, ProcessExits
<1> QED BY <1>3, <1>5, TrimsTwice, TrimsKeep

LEMMA RecordKeeps == ASSUME RInv, NEW t \in Task, record_current_task_exit(t) PROVE Keeps(proc')
<1> DEFINE p == Me(t)
<1>1. /\ PidsOf(t) # {} /\ p \in Live(proc) /\ p \in Pid /\ t \in proc[p].tasks /\ sched[t] # "new" /\ t # Init1
  BY Active DEF Ending, record_current_task_exit, RInv, Places
<1>2. proc' = mark_task_exited(proc, p, t)
  BY <1>1 DEF record_current_task_exit
<1> HIDE DEF p
<1>3. Table(proc)
  BY DEF RInv
<1>4. Died(proc, proc', p, t)
  BY <1>1, <1>2, <1>3, TaskExits
<1> QED BY <1>4 DEF Died, Keeps

LEMMA ReapKeeps ==
  ASSUME RInv, NEW t \in Task, reap_exited_process(t) \/ reap_all_exited_processes(t) PROVE Keeps(proc')
<1>1. CASE proc' = proc
  BY <1>1, SameKeeps
<1>2. ASSUME NEW c \in Live(proc), proc[c].st = "exited", proc' = detach_exited_process(proc, c) PROVE Keeps(proc')
  <2>1. c # Init1 /\ Table(proc)
    BY <1>2, Tables DEF RInv, Tree, InitRuns
  <2>2. Trims(proc, proc')
    BY <1>2, <2>1, ProcessLeaves
  <2> QED BY <2>2, TrimsKeep
<1>3. CASE reap_exited_process(t)
  BY <1>1, <1>2, <1>3 DEF reap_exited_process, process_exists, Live
<1>4. CASE reap_all_exited_processes(t)
  BY <1>2, <1>4 DEF reap_all_exited_processes
<1> QED BY <1>3, <1>4

\* A row changes, and its list of tasks does not.
OneRow(p) ==
  \/ \E b : proc' = [proc EXCEPT ![p].sub = b]
  \/ \E b : proc' = [proc EXCEPT ![p].dsig = b]
  \/ \E b : proc' = [proc EXCEPT ![p].exec = b]
  \/ \E b : proc' = [proc EXCEPT ![p].pgid = b]
  \/ \E b, s : proc' = [proc EXCEPT ![p].pgid = b, ![p].sid = s]
  \/ \E s, v, w : proc' = [proc EXCEPT ![p].st = s, ![p].stopw = v, ![p].contw = w]
  \/ \E w \in BOOLEAN : proc' = consume_stop_wait(proc, p, w)
  \/ \E w \in BOOLEAN : proc' = consume_continued_wait(proc, p, w)

LEMMA RowsKeep == ASSUME RInv, NEW p \in Pid, OneRow(p) PROVE Keeps(proc')
<1>1. proc \in [Pid -> ProcessType] /\ proc[p] \in ProcessType
  BY Tables DEF TableType
<1>2. \A q \in Pid : q # p => proc'[q] = proc[q]
  BY <1>1 DEF consume_stop_wait, consume_continued_wait, OneRow
<1>3. proc'[p].tasks = proc[p].tasks
  <2>1. CASE \E b : proc' = [proc EXCEPT ![p].sub = b]
    BY <1>1, <2>1 DEF ProcessType, consume_stop_wait, consume_continued_wait
  <2>2. CASE \E b : proc' = [proc EXCEPT ![p].dsig = b]
    BY <1>1, <2>2 DEF ProcessType, consume_stop_wait, consume_continued_wait
  <2>3. CASE \E b : proc' = [proc EXCEPT ![p].exec = b]
    BY <1>1, <2>3 DEF ProcessType, consume_stop_wait, consume_continued_wait
  <2>4. CASE \E b : proc' = [proc EXCEPT ![p].pgid = b]
    BY <1>1, <2>4 DEF ProcessType, consume_stop_wait, consume_continued_wait
  <2>5. CASE \E b, s : proc' = [proc EXCEPT ![p].pgid = b, ![p].sid = s]
    BY <1>1, <2>5 DEF ProcessType, consume_stop_wait, consume_continued_wait
  <2>6. CASE \E s, v, w : proc' = [proc EXCEPT ![p].st = s, ![p].stopw = v, ![p].contw = w]
    BY <1>1, <2>6 DEF ProcessType, consume_stop_wait, consume_continued_wait
  <2>7. CASE \E w \in BOOLEAN : proc' = consume_stop_wait(proc, p, w)
    BY <1>1, <2>7 DEF ProcessType, consume_stop_wait, consume_continued_wait
  <2>8. CASE \E w \in BOOLEAN : proc' = consume_continued_wait(proc, p, w)
    BY <1>1, <2>8 DEF ProcessType, consume_stop_wait, consume_continued_wait
  <2> QED BY <2>1, <2>2, <2>3, <2>4, <2>5, <2>6, <2>7, <2>8 DEF OneRow
<1> QED BY <1>2, <1>3 DEF Keeps

LEMMA StepKeeps == ASSUME RInv, NEW t \in Task, Step(t), ~Exec(t) PROVE Keeps(proc')
<1>1. CASE UNCHANGED proc
  BY <1>1, SameKeeps
<1>2. CASE ForkRead(t) \/ start_fork_child(t) \/ sys_exit(t) \/ Notify(t) \/ wake_parent_child_waiters(t)
  BY <1>1, <1>2 DEF ForkRead, start_fork_child, sys_exit, Notify, wake_parent_child_waiters
<1>3. CASE \/ exit_current(t) \/ wait_for_completion(t) \/ sys_waitpid(t) \/ wait_interrupted(t)
           \/ wait_for_child_event(t)
  BY <1>1, <1>3 DEF exit_current, wait_for_completion, sys_waitpid, wait_interrupted, wait_for_child_event
<1>4. CASE continue_process_tasks(t) \/ StopSeen(t) \/ StopBlock(t)
  BY <1>1, <1>4 DEF continue_process_tasks, StopSeen, StopBlock
<1>5. CASE ForkCreate(t) \/ abort_fork_child(t) \/ clone_current_thread(t) \/ start_clone_thread(t)
  BY <1>5, ForkKeeps, AbortKeeps, CloneKeeps, StartCloneKeeps
<1>6. CASE \/ exit_group_with_wait_code(t) \/ record_current_task_exit(t) \/ reap_exited_process(t)
           \/ reap_all_exited_processes(t)
  BY <1>6, ExitGroupKeeps, RecordKeeps, ReapKeeps
<1>7. CASE begin_process_exec(t)
  <2>1. Me(t) \in Pid
    BY <1>7, Active DEF begin_process_exec, User, AtUser, Ending
  <2>2. OneRow(Me(t))
    BY <1>7 DEF begin_process_exec, OneRow
  <2> QED BY <2>1, <2>2, RowsKeep
<1>8. CASE wait_for_child(t)
  <2>1. CASE \E c \in find_stopped_child_process(Me(t)), w \in Nowait : proc' = consume_stop_wait(proc, c, w)
    <3>1. PICK c \in find_stopped_child_process(Me(t)), w \in Nowait : proc' = consume_stop_wait(proc, c, w)
      BY <2>1
    <3>2. c \in Pid /\ w \in BOOLEAN
      BY DEF find_stopped_child_process, collect_child_pids, Live, Nowait
    <3>3. OneRow(c)
      BY <3>1, <3>2 DEF OneRow
    <3> QED BY <3>2, <3>3, RowsKeep
  <2>2. CASE \E c \in find_continued_child_process(Me(t)), w \in Nowait : proc' = consume_continued_wait(proc, c, w)
    <3>1. PICK c \in find_continued_child_process(Me(t)), w \in Nowait : proc' = consume_continued_wait(proc, c, w)
      BY <2>2
    <3>2. c \in Pid /\ w \in BOOLEAN
      BY DEF find_continued_child_process, collect_child_pids, Live, Nowait
    <3>3. OneRow(c)
      BY <3>1, <3>2 DEF OneRow
    <3> QED BY <3>2, <3>3, RowsKeep
  <2> QED BY <1>1, <1>8, <2>1, <2>2 DEF wait_for_child
<1>9. ASSUME NEW p \in Pid, StopDispatch(t, p) \/ ContinueDispatch(t, p) PROVE Keeps(proc')
  <2>1. UNCHANGED proc \/ \E s, v, w : proc' = [proc EXCEPT ![p].st = s, ![p].stopw = v, ![p].contw = w]
    BY <1>9 DEF StopDispatch, ContinueDispatch, mark_process_stopped, mark_process_continued
  <2> QED BY <1>1, <2>1, RowsKeep DEF OneRow
<1>10. CASE sys_prctl(t)
  <2>1. Me(t) \in Pid
    BY <1>10, Active DEF sys_prctl, User, AtUser, Ending
  <2>2. OneRow(Me(t))
    BY <1>10 DEF sys_prctl, set_process_child_subreaper, set_parent_death_signal, OneRow
  <2> QED BY <2>1, <2>2, RowsKeep
<1>11. CASE create_session_for_process(t)
  <2>1. Me(t) \in Pid
    BY <1>11, Active DEF create_session_for_process, User, AtUser, Ending
  <2>2. OneRow(Me(t))
    BY <1>11 DEF create_session_for_process, OneRow
  <2> QED BY <2>1, <2>2, RowsKeep
<1>12. ASSUME NEW p \in Pid, NEW g \in Pid, sys_setpgid(t, p, g) PROVE Keeps(proc')
  BY <1>12, RowsKeep DEF sys_setpgid, OneRow
<1> QED BY <1>2, <1>3, <1>4, <1>5, <1>6, <1>7, <1>8, <1>9, <1>10, <1>11, <1>12 DEF Step, Exec

Telling == {"notify", "wake", "stopnote", "contwake"}
Frame(t) ==
  /\ \A u \in Task \ {t} : pc[u] \in Telling => pc'[u] = pc[u] /\ arg'[u] = arg[u]
  /\ \A x \in Task : sched'[x] = "child" => sched[x] = "child" \/ (wait_for_child_event(t) /\ x = t)
  /\ \A u \in Task : pc'[u] = "exec" => pc[u] = "exec" \/ begin_process_exec(t)
  /\ nextPid <= nextPid'

LEMMA GotoFrame ==
  ASSUME RInv, NEW t \in Task, NEW l, NEW a, Goto(t, l, a), l = "exec" => begin_process_exec(t),
         \A x \in Task : sched'[x] = "child" => sched[x] = "child" \/ (wait_for_child_event(t) /\ x = t),
         nextPid' = nextPid
  PROVE  Frame(t)
<1>1. \A u \in Task \ {t} : pc'[u] = pc[u] /\ arg'[u] = arg[u]
  BY Tables DEF Goto
<1>2. pc'[t] = l
  BY Tables DEF Goto
<1>3. nextPid <= nextPid'
  BY Tables
<1> QED BY <1>1, <1>2, <1>3 DEF Frame

\* The calls stand still, or only t's does.
LEMMA StillFrame ==
  ASSUME RInv, NEW t \in Task, UNCHANGED <<sched, nextPid>>,
         \/ UNCHANGED <<pc, arg>>
         \/ \E l, a : l # "exec" /\ Goto(t, l, a)
  PROVE  Frame(t)
<1>1. CASE UNCHANGED <<pc, arg>>
  <2>1. nextPid <= nextPid'
    BY Tables
  <2> QED BY <1>1, <2>1 DEF Frame
<1>2. CASE \E l, a : l # "exec" /\ Goto(t, l, a)
  BY <1>2, GotoFrame
<1> QED BY <1>1, <1>2

LEMMA StartFrame ==
  ASSUME RInv, NEW t \in Task, pc[t] \in Creating, NEW c, c = arg[t], sched[c] = "new", NEW l, l # "exec",
         sched' = [sched EXCEPT ![c] = "live"], pc' = [pc EXCEPT ![c] = "user", ![t] = l], NEW a,
         arg' = [arg EXCEPT ![t] = a], nextPid' = nextPid
  PROVE  Frame(t)
<1>1. /\ Places(proc, sched, pc, arg, nextPid)
      /\ sched \in [Task -> SchedStates] /\ pc \in [Task -> PCs] /\ arg \in [Task -> Task \cup Pid \cup {0}]
  BY Tables DEF RInv
<1>2. c \in Task
  BY <1>1 DEF Places, ArgPlace, Creating
<1>3. pc[c] = "none"
  BY <1>1, <1>2 DEF Places, TaskPlace, Running
<1>4. \A u \in Task : pc'[u] = IF u = t THEN l ELSE IF u = c THEN "user" ELSE pc[u]
  BY <1>1
<1>5. \A u \in Task \ {t} : arg'[u] = arg[u]
  BY <1>1
<1>6. \A x \in Task : sched'[x] = "child" => sched[x] = "child"
  BY <1>1
<1>7. nextPid <= nextPid'
  BY Tables
<1>8. \A u \in Task \ {t} : pc[u] \in Telling => u # c
  BY <1>3 DEF Telling
<1>9. ASSUME NEW u \in Task \ {t}, pc[u] \in Telling PROVE pc'[u] = pc[u] /\ arg'[u] = arg[u]
  BY <1>4, <1>5, <1>8, <1>9
<1>10. ASSUME NEW u \in Task, pc'[u] = "exec" PROVE pc[u] = "exec"
  <2>1. pc'[u] = IF u = t THEN l ELSE IF u = c THEN "user" ELSE pc[u]
    BY <1>4
  <2> QED BY <1>10, <2>1
<1>11. /\ \A u \in Task \ {t} : pc[u] \in Telling => pc'[u] = pc[u] /\ arg'[u] = arg[u]
       /\ \A u \in Task : pc'[u] = "exec" => pc[u] = "exec"
  BY <1>9, <1>10
<1> QED BY <1>6, <1>7, <1>11 DEF Frame

LEMMA StepFrame == ASSUME RInv, NEW t \in Task, Step(t), ~Exec(t) PROVE Frame(t)
<1>0. /\ sched \in [Task -> SchedStates] /\ pc \in [Task -> PCs] /\ arg \in [Task -> Task \cup Pid \cup {0}]
      /\ nextPid \in Nat
  BY Tables
<1>1. CASE ForkRead(t) \/ sys_exit(t) \/ Notify(t) \/ sys_waitpid(t) \/ StopSeen(t)
  <2>1. UNCHANGED <<sched, nextPid>>
    BY <1>1 DEF ForkRead, sys_exit, Notify, sys_waitpid, StopSeen
  <2>2. \E l, a : l # "exec" /\ Goto(t, l, a)
    BY <1>1 DEF ForkRead, sys_exit, ExitPath, Notify, sys_waitpid, StopSeen
  <2> QED BY <2>1, <2>2, StillFrame
<1>2. CASE record_current_task_exit(t) \/ wait_for_child(t)
  <2>1. UNCHANGED <<sched, nextPid>>
    BY <1>2 DEF record_current_task_exit, wait_for_child
  <2>2. CASE record_current_task_exit(t)
    <3>1. \E l, a : l # "exec" /\ Goto(t, l, a)
      BY <2>2 DEF record_current_task_exit
    <3> QED BY <2>1, <3>1, StillFrame
  <2>3. CASE wait_for_child(t)
    <3>1. Goto(t, "block", 0) \/ Goto(t, "user", 0) \/ \E nw, c : Goto(t, IF nw THEN "user" ELSE "reap", c)
      BY <2>3 DEF wait_for_child
    <3>2. \E l, a : l # "exec" /\ Goto(t, l, a)
      BY <3>1
    <3> QED BY <2>1, <3>2, StillFrame
  <2> QED BY <1>2, <2>2, <2>3
<1>3. CASE sys_prctl(t) \/ create_session_for_process(t)
  BY <1>3, StillFrame DEF sys_prctl, create_session_for_process
<1>4. ASSUME NEW p \in Pid, NEW g \in Pid, sys_setpgid(t, p, g) PROVE Frame(t)
  BY <1>4, StillFrame DEF sys_setpgid
<1>5. ASSUME NEW p \in Pid, StopDispatch(t, p) \/ ContinueDispatch(t, p) PROVE Frame(t)
  <2>1. UNCHANGED <<sched, nextPid>>
    BY <1>5 DEF StopDispatch, ContinueDispatch
  <2>2. \E l, a : l # "exec" /\ Goto(t, l, a)
    BY <1>5 DEF StopDispatch, ContinueDispatch
  <2> QED BY <2>1, <2>2, StillFrame
<1>6. CASE begin_process_exec(t)
  <2>1. Goto(t, "exec", 0) /\ nextPid' = nextPid /\ sched' = sched
    BY <1>6 DEF begin_process_exec
  <2> QED BY <1>6, <2>1, GotoFrame
<1>7. CASE start_fork_child(t)
  <2>1. PICK vf \in {FALSE} \cup ({TRUE} \cap {"vfork" \in Ops}) :
          /\ sched' = [sched EXCEPT ![arg[t]] = "live"]
          /\ pc' = [pc EXCEPT ![arg[t]] = "user", ![t] = IF vf THEN "vfork" ELSE "user"]
          /\ arg' = [arg EXCEPT ![t] = IF vf THEN arg[t] ELSE 0]
    BY <1>7 DEF start_fork_child
  <2> DEFINE l == IF vf THEN "vfork" ELSE "user"
             a == IF vf THEN arg[t] ELSE 0
  <2>2. pc' = [pc EXCEPT ![arg[t]] = "user", ![t] = l] /\ arg' = [arg EXCEPT ![t] = a] /\ l # "exec"
    BY <2>1
  <2>3. pc[t] \in Creating /\ sched[arg[t]] = "new" /\ nextPid' = nextPid
    BY <1>7 DEF start_fork_child, Creating
  <2> HIDE DEF l, a
  <2> QED BY <2>1, <2>2, <2>3, StartFrame
<1>8. CASE start_clone_thread(t)
  <2>0. pc[t] \in Creating /\ nextPid' = nextPid /\ arg' = [arg EXCEPT ![t] = 0]
    BY <1>8 DEF start_clone_thread, Creating
  <2>1. CASE /\ sched[arg[t]] = "new" /\ sched' = [sched EXCEPT ![arg[t]] = "live"]
             /\ pc' = [pc EXCEPT ![arg[t]] = "user", ![t] = "user"]
    BY <2>0, <2>1, StartFrame
  <2>2. CASE /\ sched' = [sched EXCEPT ![arg[t]] = IF @ = "new" THEN "gone" ELSE @]
             /\ pc' = [pc EXCEPT ![t] = "user"]
    <3>1. Goto(t, "user", 0)
      BY <2>0, <2>2 DEF Goto
    <3>2. \A x \in Task : sched'[x] = "child" => sched[x] = "child"
      BY <1>0, <2>2
    <3> QED BY <2>0, <3>1, <3>2, GotoFrame
  <2> QED BY <1>8, <2>1, <2>2 DEF start_clone_thread
<1>9. CASE abort_fork_child(t) \/ StopBlock(t) \/ wait_interrupted(t) \/ reap_exited_process(t)
  <2>1. nextPid' = nextPid /\ \E l, a : l # "exec" /\ Goto(t, l, a)
    BY <1>9 DEF abort_fork_child, StopBlock, wait_interrupted, reap_exited_process
  <2>2. \A x \in Task : sched'[x] = "child" => sched[x] = "child"
    BY <1>0, <1>9 DEF abort_fork_child, StopBlock, wait_interrupted, reap_exited_process
  <2> QED BY <2>1, <2>2, GotoFrame
<1>10. CASE continue_process_tasks(t) \/ exit_group_with_wait_code(t) \/ wake_parent_child_waiters(t)
  <2>1. nextPid' = nextPid /\ \E l, a : l # "exec" /\ Goto(t, l, a)
    BY <1>10 DEF continue_process_tasks, exit_group_with_wait_code, ExitPath, wake_parent_child_waiters
  <2>2. \A x \in Task : sched'[x] = "child" => sched[x] = "child"
    BY <1>0, <1>10 DEF continue_process_tasks, exit_group_with_wait_code, wake_parent_child_waiters,
                       Interrupted, reap_exited_member_threads, wake_child_exit_waiters
  <2> QED BY <2>1, <2>2, GotoFrame
<1>11. CASE reap_all_exited_processes(t)
  <2>1. UNCHANGED <<pc, arg, nextPid>> /\ \A x \in Task : sched'[x] = "child" => sched[x] = "child"
    BY <1>11 DEF reap_all_exited_processes
  <2> QED BY <1>0, <2>1 DEF Frame
<1>12. CASE wait_for_child_event(t)
  <2>1. nextPid' = nextPid /\ Goto(t, "wait", 0) /\ \A x \in Task \ {t} : sched'[x] = sched[x]
    BY <1>0, <1>12 DEF wait_for_child_event
  <2> QED BY <1>12, <2>1, GotoFrame
<1>13. CASE wait_for_completion(t)
  <2>1. /\ nextPid' = nextPid /\ (UNCHANGED <<pc, arg>> \/ Goto(t, "user", 0))
        /\ \A x \in Task : sched'[x] = "child" => sched[x] = "child"
    BY <1>0, <1>13 DEF wait_for_completion
  <2>2. CASE UNCHANGED <<pc, arg>>
    BY <1>0, <2>1, <2>2 DEF Frame
  <2>3. CASE Goto(t, "user", 0)
    BY <2>1, <2>3, GotoFrame
  <2> QED BY <2>1, <2>2, <2>3
<1>14. CASE exit_current(t)
  <2>1. /\ UNCHANGED <<arg, nextPid>>
        /\ \A x \in Task : pc'[x] = IF x = t THEN "none" ELSE pc[x]
        /\ \A x \in Task : sched'[x] = "child" => sched[x] = "child"
    BY <1>14 DEF exit_current
  <2> QED BY <1>0, <2>1 DEF Frame
<1>15. CASE ForkCreate(t)
  <2>1. CASE Goto(t, "user", 0) /\ UNCHANGED <<sched, nextPid>>
    BY <2>1, StillFrame
  <2>2. CASE sched' = [sched EXCEPT ![NewTask] = "new"] /\ nextPid' = alloc_pid + 1 /\ Goto(t, "forkset", NewTask)
    <3>1. \A x \in Task : sched'[x] = "child" => sched[x] = "child"
      BY <1>0, <2>2
    <3>2. nextPid <= nextPid'
      <4>1. alloc_pid \in Nat /\ nextPid <= alloc_pid
        BY PidAllocated DEF RInv
      <4> QED BY <1>0, <2>2, <4>1
    <3>3. \A u \in Task \ {t} : pc'[u] = pc[u] /\ arg'[u] = arg[u]
      BY <1>0, <2>2 DEF Goto
    <3>4. pc'[t] = "forkset"
      BY <1>0, <2>2 DEF Goto
    <3> QED BY <3>1, <3>2, <3>3, <3>4 DEF Frame
  <2> QED BY <1>15, <2>1, <2>2 DEF ForkCreate
<1>16. CASE clone_current_thread(t)
  <2> DEFINE s == reap_exited_member_threads(proc, sched, Me(t))
  <2>1. /\ nextPid' = nextPid
        /\ \/ sched' = s /\ UNCHANGED <<pc, arg>>
           \/ sched' = [s EXCEPT ![NewTask] = "new"] /\ Goto(t, "cloneset", NewTask)
    BY <1>16 DEF clone_current_thread
  <2>2. s \in [Task -> SchedStates] /\ \A x \in Task : s[x] = "child" => sched[x] = "child"
    BY <1>0 DEF reap_exited_member_threads, SchedStates
  <2> HIDE DEF s
  <2>3. \A x \in Task : sched'[x] = "child" => sched[x] = "child"
    BY <2>1, <2>2
  <2>4. CASE UNCHANGED <<pc, arg>>
    BY <1>0, <2>1, <2>3, <2>4 DEF Frame
  <2>5. CASE Goto(t, "cloneset", NewTask)
    BY <2>1, <2>3, <2>5, GotoFrame
  <2> QED BY <2>1, <2>4, <2>5
<1> QED BY <1>1, <1>2, <1>3, <1>4, <1>5, <1>6, <1>7, <1>8, <1>9, <1>10, <1>11, <1>12, <1>13, <1>14, <1>15,
           <1>16 DEF Step, Exec

-----------------------------------------------------------------------------
(***************************************************************************)
(* A parent that sleeps in wait4 is told.                                  *)
(***************************************************************************)
LEMMA ExecOnly == ASSUME NoExec, NEW t \in Task, "exec" \notin Ops, Step(t) PROVE ~Exec(t) /\ ~begin_process_exec(t)
<1>1. pc[t] # "exec"
  BY DEF NoExec
<1>2. ~do_execve(t) /\ \A x \in Task : ~kill_task_with_notifications(t, x)
  BY <1>1 DEF do_execve, kill_task_with_notifications
<1>3. ~begin_process_exec(t)
  BY DEF begin_process_exec, User
<1> QED BY <1>2, <1>3 DEF Exec

\* The new parent of a child is not the one that created it.
LEMMA BornStay ==
  ASSUME NEW P, NEW R, NEW n, NEW m, n \in Nat, m \in Nat, n <= m, BornKept(P, n), Reborn(P, R),
         \A c \in Live(P) : P[c].born \in Nat
  PROVE  /\ BornKept(R, m)
         /\ \A c \in Live(R), p \in Pid : R[c].parent = p /\ R[c].born = p => P[c].parent = p /\ P[c].born = p
<1>1. ASSUME NEW c \in Live(R)
      PROVE  /\ c \in Live(P) /\ R[c].born = P[c].born /\ P[c].born < n /\ P[c].born \in Nat
             /\ P[c].parent = P[c].born \/ P[c].born \notin Live(P) \/ Down(P[P[c].born].st)
             /\ R[c].parent = P[c].parent \/ GoesUp(P, R, c)
  BY <1>1 DEF Reborn, BornKept
<1>2. \A q \in Live(R) : q \in Live(P) /\ (Down(P[q].st) => Down(R[q].st))
  BY DEF Reborn
<1>3. ASSUME NEW c \in Live(R)
      PROVE  R[c].parent = R[c].born \/ R[c].born \notin Live(R) \/ Down(R[R[c].born].st)
  <2>1. CASE P[c].born \notin Live(P) \/ Down(P[P[c].born].st)
    BY <1>1, <1>2, <2>1
  <2>2. CASE P[c].parent = P[c].born /\ R[c].parent = P[c].parent
    BY <1>1, <2>2
  <2>3. CASE P[c].parent = P[c].born /\ GoesUp(P, R, c)
    BY <1>1, <2>3 DEF GoesUp
  <2> QED BY <1>1, <2>1, <2>2, <2>3
<1>4. \A c \in Live(R) : R[c].born < m
  BY <1>1
<1>5. BornKept(R, m)
  BY <1>3, <1>4 DEF BornKept
<1>6. ASSUME NEW c \in Live(R), NEW p \in Pid, R[c].parent = p, R[c].born = p
      PROVE  P[c].parent = p /\ P[c].born = p
  <2>1. CASE R[c].parent = P[c].parent
    BY <1>1, <1>6, <2>1
  <2>2. CASE GoesUp(P, R, c)
    <3>1. p \in Live(P) /\ ~Down(P[p].st)
      BY <1>6, <2>2 DEF GoesUp
    <3> QED BY <1>1, <1>6, <3>1
  <2> QED BY <1>1, <2>1, <2>2
<1> QED BY <1>5, <1>6

LEMMA BornNumbers == ASSUME RInv PROVE \A c \in Live(proc) : proc[c].born \in Nat /\ proc[c].parent \in Pid \cup {NoPid}
<1>1. \A c \in Pid : proc[c] \in ProcessType
  BY Tables DEF TableType
<1>2. Pid \subseteq Nat /\ NoPid \in Nat
  BY Consts DEF NoPid
<1> QED BY <1>1, <1>2 DEF ProcessType, Live

\* Every step but an exec: the record of creations stays true, and a child
\* with news had it before, or its news is on its way.
Fresher(t, p, c) ==
  \/ c \in Live(proc) /\ HasNews(proc, p, c)
  \/ pc'[t] \in {"notify", "stopnote", "contwake"} /\ arg'[t] = c

LEMMA NewsSpread ==
  ASSUME RInv, BornKept(proc, nextPid), NEW t \in Task, Step(t), News(t), nextPid' \in Nat, nextPid <= nextPid'
  PROVE  /\ BornKept(proc', nextPid')
         /\ \A p \in Pid, c \in Live(proc') : HasNews(proc', p, c) => Fresher(t, p, c)
<1>0. nextPid \in Nat /\ \A c \in Live(proc) : proc[c].born \in Nat
  BY Tables, BornNumbers
<1>1. ASSUME Reborn(proc, proc')
      PROVE  /\ BornKept(proc', nextPid')
             /\ \A p \in Pid, c \in Live(proc') :
                  HasNews(proc', p, c) => c \in Live(proc) /\ proc[c].parent = p /\ proc[c].born = p
  <2>1. /\ BornKept(proc', nextPid')
        /\ \A c \in Live(proc'), p \in Pid :
             proc'[c].parent = p /\ proc'[c].born = p => proc[c].parent = p /\ proc[c].born = p
    BY <1>0, <1>1, BornStay
  <2>2. \A c \in Live(proc') : c \in Live(proc)
    BY <1>1 DEF Reborn
  <2> QED BY <2>1, <2>2 DEF HasNews
<1>2. CASE Soft
  BY <1>1, <1>2 DEF Soft, Quiet, HasNews, Fresher
<1>3. ASSUME NEW q \in Pid, NewsOf(q), pc'[t] \in {"notify", "stopnote", "contwake"}, arg'[t] = q
      PROVE  /\ BornKept(proc', nextPid')
             /\ \A p \in Pid, c \in Live(proc') : HasNews(proc', p, c) => Fresher(t, p, c)
  BY <1>1, <1>3 DEF NewsOf, HasNews, Fresher
<1>4. CASE record_current_task_exit(t) /\ Announced(t)
  BY <1>3, <1>4 DEF Announced
<1>5. CASE \E p \in Pid : (StopDispatch(t, p) \/ ContinueDispatch(t, p)) /\ NewsOf(p)
  <2>1. PICK p \in Pid : (StopDispatch(t, p) \/ ContinueDispatch(t, p)) /\ NewsOf(p)
    BY <1>5
  <2>2. Goto(t, "stopnote", p) \/ Goto(t, "contwake", p)
    BY <2>1 DEF StopDispatch, ContinueDispatch
  <2>3. pc'[t] \in {"notify", "stopnote", "contwake"} /\ arg'[t] = p
    BY <2>2, Tables DEF Goto
  <2> QED BY <1>3, <2>1, <2>3
<1>6. CASE Forked
  <2>1. PICK m \in Pid :
          /\ m \notin Live(proc) /\ Live(proc') = Live(proc) \cup {m} /\ \A q \in Live(proc) : proc'[q] = proc[q]
          /\ nextPid <= m /\ nextPid' = m + 1 /\ ~Event(proc'[m])
          /\ proc'[m].born \in Live(proc) /\ proc'[m].parent = proc'[m].born /\ proc'[m].born < nextPid
    BY <1>6 DEF Forked
  <2>2. m \in Nat /\ \A c \in Live(proc) : c \in Nat
    BY Consts DEF Live
  <2>3. ASSUME NEW c \in Live(proc')
        PROVE  /\ proc'[c].born < nextPid'
               /\ proc'[c].parent = proc'[c].born \/ proc'[c].born \notin Live(proc') \/ Down(proc'[proc'[c].born].st)
    <3>1. CASE c = m
      <4>1. proc'[m].born \in Nat /\ proc'[m].born < nextPid
        BY <2>1, <2>2
      <4>2. proc'[m].born < nextPid'
        BY <1>0, <2>1, <2>2, <4>1
      <4> QED BY <2>1, <3>1, <4>2
    <3>2. CASE c \in Live(proc)
      <4>1. /\ proc[c].born < nextPid /\ proc[c].born \in Nat /\ proc'[c] = proc[c]
            /\ proc[c].parent = proc[c].born \/ proc[c].born \notin Live(proc) \/ Down(proc[proc[c].born].st)
        BY <1>0, <2>1, <3>2 DEF BornKept
      <4>2. proc[c].born # m
        BY <1>0, <2>1, <2>2, <4>1
      <4>3. proc'[c].born < nextPid'
        BY <1>0, <2>1, <2>2, <4>1
      <4> QED BY <2>1, <4>1, <4>2, <4>3
    <3> QED BY <2>1, <3>1, <3>2
  <2>4. BornKept(proc', nextPid')
    BY <2>3 DEF BornKept
  <2>5. \A p \in Pid, c \in Live(proc') : HasNews(proc', p, c) => c \in Live(proc) /\ HasNews(proc, p, c)
    BY <2>1 DEF HasNews
  <2> QED BY <2>4, <2>5 DEF Fresher
<1> QED BY <1>2, <1>4, <1>5, <1>6 DEF News

\* A task that is telling a parent goes on telling it.
LEMMA TellingSteps ==
  ASSUME RInv, NEW t \in Task, Step(t), ~Exec(t), pc[t] \in Telling
  PROVE  Notify(t) \/ wake_parent_child_waiters(t) \/ continue_process_tasks(t)
<1>1. ~AtUser(t) /\ pc[t] \notin {"user", "fork", "forkset", "cloneset", "record", "finish", "vfork", "wait", "reap",
                                  "block", "stopblock"}
  BY DEF AtUser, Telling
<1>2. /\ ~ForkRead(t) /\ ~ForkCreate(t) /\ ~start_fork_child(t) /\ ~abort_fork_child(t)
      /\ ~clone_current_thread(t) /\ ~start_clone_thread(t)
  BY <1>1 DEF ForkRead, ForkCreate, start_fork_child, abort_fork_child, clone_current_thread, start_clone_thread, User
<1>3. /\ ~sys_exit(t) /\ ~exit_group_with_wait_code(t) /\ ~record_current_task_exit(t) /\ ~exit_current(t)
      /\ ~wait_for_completion(t) /\ ~begin_process_exec(t)
  BY <1>1 DEF sys_exit, exit_group_with_wait_code, record_current_task_exit, exit_current, wait_for_completion,
              begin_process_exec, User
<1>4. /\ ~sys_waitpid(t) /\ ~wait_interrupted(t) /\ ~wait_for_child(t) /\ ~reap_exited_process(t)
      /\ ~reap_all_exited_processes(t) /\ ~wait_for_child_event(t)
  BY <1>1 DEF sys_waitpid, wait_interrupted, wait_for_child, reap_exited_process, reap_all_exited_processes,
              wait_for_child_event, User
<1>5. /\ ~StopSeen(t) /\ ~StopBlock(t) /\ \A p \in Pid : ~StopDispatch(t, p) /\ ~ContinueDispatch(t, p)
      /\ ~sys_prctl(t) /\ ~create_session_for_process(t) /\ \A p, g \in Pid : ~sys_setpgid(t, p, g)
  BY <1>1 DEF StopSeen, StopBlock, StopDispatch, ContinueDispatch, sys_prctl, create_session_for_process,
              sys_setpgid, User
<1> QED BY <1>2, <1>3, <1>4, <1>5 DEF Step, Exec

LEMMA StillTold ==
  ASSUME RInv, NEW s \in Task, Step(s), ~Exec(s), Frame(s), NEW t \in Task, NEW p \in Pid, NEW c \in Live(proc),
         proc[c].parent = p, t \in proc[p].tasks, sched'[t] = "child", Told(pc, arg, p, c)
  PROVE  Told(pc', arg', p, c)
<1>1. PICK u \in Task : \/ pc[u] \in {"notify", "stopnote", "contwake"} /\ arg[u] = c
                        \/ pc[u] = "wake" /\ arg[u] = p
  BY DEF Told
<1>2. pc[u] \in Telling
  BY <1>1 DEF Telling
<1>3. CASE u # s
  BY <1>1, <1>2, <1>3 DEF Frame, Told
<1>4. p \in Live(proc) /\ process_exists(p) /\ process_exists(c)
  <2>1. p \in Live(proc)
    <3>1. AbsentEmpty(proc)
      BY DEF RInv, Table, Tree
    <3> QED BY <3>1, AbsentType DEF AbsentEmpty, Live
  <2> QED BY <2>1 DEF process_exists, Live
<1>5. ParentOf(c) = p
  BY <1>4 DEF ParentOf
<1>6. CASE u = s
  <2>1. CASE Notify(s)
    <3>1. pc[s] = "notify" /\ arg[s] = c /\ Goto(s, "wake", p)
      BY <1>1, <1>5, <1>6, <2>1 DEF Notify
    <3>2. pc'[s] = "wake" /\ arg'[s] = p
      BY <3>1, Tables DEF Goto
    <3> QED BY <3>2 DEF Told
  <2>2. CASE continue_process_tasks(s)
    <3>1. pc[s] = "contwake" /\ arg[s] = c /\ Goto(s, "stopnote", c)
      BY <1>1, <1>6, <2>2 DEF continue_process_tasks
    <3>2. pc'[s] = "stopnote" /\ arg'[s] = c
      BY <3>1, Tables DEF Goto
    <3> QED BY <3>2 DEF Told
  <2>3. CASE wake_parent_child_waiters(s)
    <3>1. sched' = wake_child_exit_waiters(sched, p)
      BY <1>1, <1>5, <1>6, <2>3 DEF wake_parent_child_waiters
    <3>2. sched'[t] = IF sched[t] = "child" /\ process_exists(p) /\ t \in proc[p].tasks THEN "live" ELSE sched[t]
      BY <3>1 DEF wake_child_exit_waiters
    <3> QED BY <1>4, <3>2
  <2> QED BY <1>2, <1>6, <2>1, <2>2, <2>3, TellingSteps
<1> QED BY <1>3, <1>6

LEMMA WStep == ASSUME WInv, NEW s \in Task, Step(s), "exec" \notin Ops PROVE WInv'
<1>1. RInv /\ NoExec /\ BornKept(proc, nextPid) /\ Hears(proc, sched, pc, arg)
  BY DEF WInv
<1>2. ~Exec(s) /\ ~begin_process_exec(s)
  BY <1>1, ExecOnly
<1>3. RInv' /\ News(s)
  BY <1>1, <1>2, StepRInv
<1>4. Frame(s) /\ Keeps(proc')
  BY <1>1, <1>2, StepFrame, StepKeeps
<1>5. NoExec'
  BY <1>1, <1>2, <1>4 DEF Frame, NoExec
<1>6. nextPid' \in Nat
  BY <1>3, Consts DEF RInv, Numbers
<1>7. /\ BornKept(proc', nextPid')
      /\ \A p \in Pid, c \in Live(proc') : HasNews(proc', p, c) => Fresher(s, p, c)
  BY <1>1, <1>3, <1>4, <1>6, NewsSpread DEF Frame
<1>8. ASSUME NEW t \in Task, NEW p \in Pid, NEW c \in Live(proc'),
             sched'[t] = "child", t \in proc'[p].tasks, HasNews(proc', p, c)
      PROVE  Told(pc', arg', p, c)
  <2>1. CASE pc'[s] \in {"notify", "stopnote", "contwake"} /\ arg'[s] = c
    BY <2>1 DEF Told
  <2>2. CASE c \in Live(proc) /\ HasNews(proc, p, c)
    <3>1. sched[t] # "free"
      <4>1. CASE sched[t] = "child"
        BY <4>1
      <4>2. CASE wait_for_child_event(t)
        BY <4>2 DEF wait_for_child_event
      <4> QED BY <1>4, <1>8, <4>1, <4>2 DEF Frame
    <3>2. t \in proc[p].tasks
      BY <1>4, <1>8, <3>1 DEF Keeps
    <3>3. CASE sched[t] = "child"
      <4>1. Told(pc, arg, p, c)
        BY <1>1, <2>2, <3>2, <3>3 DEF Hears
      <4>2. proc[c].parent = p
        BY <2>2 DEF HasNews
      <4> QED BY <1>1, <1>2, <1>4, <1>8, <2>2, <3>2, <4>1, <4>2, StillTold
    <3>4. CASE wait_for_child_event(t)
      <4>1. PidsOf(t) # {}
        BY <3>2 DEF PidsOf
      <4>2. p = Me(t)
        BY <1>1, <3>2, <4>1, Mine
      <4>3. sched'[t] = IF StillNothing(p) THEN "child" ELSE "live"
        BY <1>1, <3>4, <4>2, Tables DEF wait_for_child_event
      <4>4. ~has_pending_wait_event(p)
        BY <1>8, <4>3 DEF StillNothing
      <4>5. c \notin find_exited_child_process(p) /\ c \notin find_stopped_child_process(p)
            /\ c \notin find_continued_child_process(p)
        BY <4>4 DEF has_pending_wait_event
      <4> QED BY <2>2, <4>5 DEF HasNews, Event, find_exited_child_process, find_stopped_child_process,
                                find_continued_child_process, collect_child_pids
    <3> QED BY <1>4, <1>8, <3>3, <3>4 DEF Frame
  <2> QED BY <1>7, <1>8, <2>1, <2>2 DEF Fresher
<1>9. Hears(proc', sched', pc', arg')
  BY <1>8 DEF Hears
<1> QED BY <1>3, <1>5, <1>7, <1>9 DEF WInv

LEMMA InitWInv == ASSUME Init PROVE WInv
<1>1. RInv /\ \A p \in Pid \ {Init1} : proc[p] = Absent
  BY InitRInv
<1>2. /\ proc = [p \in Pid |-> IF p = Init1 THEN create_process_for_task(Init1, Init1, NoPid) ELSE Absent]
      /\ sched = [t \in Task |-> IF t = Init1 THEN "live" ELSE "free"]
      /\ pc = [t \in Task |-> IF t = Init1 THEN "user" ELSE "none"] /\ nextPid = 2
  BY DEF Init
<1>3. \A t \in Task : sched[t] # "child" /\ pc[t] # "exec"
  BY <1>2
<1>4. Live(proc) \subseteq {Init1}
  BY <1>1, AbsentType DEF Live
<1>5. proc[Init1].born = NoPid /\ proc[Init1].parent = NoPid
  <2>1. proc[Init1] = create_process_for_task(Init1, Init1, NoPid)
    BY <1>2, Consts
  <2>2. create_process_for_task(Init1, Init1, NoPid) =
          [Absent EXCEPT !.st = "run", !.parent = NoPid, !.born = NoPid, !.lead = Init1, !.tasks = {Init1},
                         !.pgid = Init1, !.dsrc = NoSource, !.sid = Init1]
    BY DEF create_process_for_task
  <2> QED BY <2>1, <2>2 DEF Absent
<1>6. BornKept(proc, nextPid)
  BY <1>2, <1>4, <1>5 DEF BornKept, NoPid
<1> QED BY <1>1, <1>3, <1>6 DEF WInv, Hears, NoExec

\* What the invariant says of a task is what the property says of its process.
LEMMA HeardFromTold == ASSUME WInv PROVE WaiterHears
<1>1. RInv /\ Hears(proc, sched, pc, arg)
  BY DEF WInv
<1>2. ASSUME NEW t \in Task, sched[t] = "child", PidsOf(t) # {}, NEW c \in collect_child_pids(proc, Me(t)),
             c \in find_exited_child_process(Me(t)) \cup find_stopped_child_process(Me(t))
                     \cup find_continued_child_process(Me(t)),
             proc[c].born = Me(t)
      PROVE  Heard(Me(t), c)
  <2>1. Me(t) \in Pid /\ t \in proc[Me(t)].tasks
    BY <1>1, <1>2, Mine
  <2>2. c \in Live(proc) /\ proc[c].parent = Me(t)
    BY <1>2 DEF collect_child_pids
  <2>3. Event(proc[c])
    BY <1>2 DEF Event, find_exited_child_process, find_stopped_child_process, find_continued_child_process
  <2>4. Told(pc, arg, Me(t), c)
    BY <1>1, <1>2, <2>1, <2>2, <2>3 DEF Hears, HasNews
  <2> QED BY <2>4 DEF Told, Heard
<1> QED BY <1>2 DEF WaiterHears

(* A parent that sleeps in wait4 is told of what its own children did: while  *)
(* one that it created has exited, stopped or continued, some task is on its  *)
(* way to wake it (wait_on_while's second look, wake_parent_child_waiters).   *)
(* execve is left out: its kill of a thread that is between the stop of a     *)
(* child and the wake takes that wake away.                                  *)
THEOREM WaiterHearsHolds == "exec" \notin Ops => (Spec => []WaiterHears)
<1> SUFFICES ASSUME "exec" \notin Ops PROVE Spec => []WaiterHears
  OBVIOUS
<1>1. Init => WInv
  BY InitWInv
<1>2. WInv /\ [Next]_vars => WInv'
  <2> SUFFICES ASSUME WInv, [Next]_vars PROVE WInv'
    OBVIOUS
  <2>1. CASE Next
    BY <2>1, WStep DEF Next
  <2>2. CASE UNCHANGED vars
    <3>1. UNCHANGED <<proc, sched, pc, arg, tid, nextPid, nextTid, subreapers>>
      BY <2>2 DEF vars
    <3>2. Table(proc') /\ Counted(proc', subreapers') /\ Numbers(proc', tid', nextPid', nextTid')
      BY <3>1 DEF RInv, WInv
    <3>3. Places(proc', sched', pc', arg', nextPid')
      BY <3>1 DEF RInv, WInv
    <3>4. BornKept(proc', nextPid') /\ Hears(proc', sched', pc', arg') /\ NoExec'
      BY <3>1 DEF WInv, NoExec
    <3> QED BY <3>2, <3>3, <3>4 DEF RInv, WInv
  <2> QED BY <2>1, <2>2
<1>3. WInv => WaiterHears
  BY HeardFromTold
<1> QED BY <1>1, <1>2, <1>3, PTL DEF Spec

(* The process registry agrees under every call but execve: its tables, the   *)
(* death sources and the wakes of parents in wait4 together.                *)
THEOREM RegistryAgreesHolds == "exec" \notin Ops => (Spec => []RegistryAgrees)
<1>1. (TablesAgree /\ DeathSourceAlive /\ WaiterHears) => RegistryAgrees
  BY DEF RegistryAgrees
<1> QED BY <1>1, TablesAgreeHolds, DeathSourceHolds, WaiterHearsHolds, PTL
=============================================================================
