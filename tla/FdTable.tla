------------------------------- MODULE FdTable -------------------------------
(***************************************************************************)
(* The file descriptor registry (impl-fd-session registry.rs) and the calls  *)
(* on it (vfs fd.rs): descriptor tables keyed by the task that owns them,    *)
(* shared by CLONE_FILES, shared copy-on-write by fork, and the open file    *)
(* descriptions behind their slots.  A call holds the registry's lock only   *)
(* inside one step here; what it takes out of a table it closes afterwards,  *)
(* one description at a time.                                               *)
(***************************************************************************)
EXTENDS Integers, Sequences, FiniteSets, SequencesExt, FiniteSetsExt

CONSTANTS FdTask,    \* task ids, never used again once dead; FirstTask exists at the start
          FirstTask,
          Handle,    \* open file descriptions (SharedIoHandle), a range 1 .. n
          FirstFd,   \* VFS_FIRST_DYNAMIC_FD: the descriptors of a new table
          NoFile,    \* RLIMIT_NOFILE
          FdOps      \* the calls made in this instance

VARIABLES reg,       \* the registry: owners, refs, tables, heap, count, free
          call,      \* call[t]: where t is and the handles, table it holds
          closed     \* descriptions whose close_once has run while they exist
fdvars == <<reg, call, closed>>

NoTable == 0
NoTask == 0
TableId == 1 .. Cardinality(FdTask) + 1
NoSlot == [h |-> 0, cloexec |-> FALSE]
Slot(h) == [h |-> h, cloexec |-> FALSE]
Resting(p) == [at |-> p, hs |-> <<>>, table |-> NoTable, arg |-> <<>>]
FdLen == 2 * NoFile     \* longest table: F_DUPFD may pass the limit

FdTypeOK ==
  /\ reg.owners \in [FdTask -> FdTask \cup {NoTask}]
  /\ reg.refs \in [FdTask -> 0 .. Cardinality(FdTask)]
  /\ reg.tables \in [FdTask -> TableId \cup {NoTable}]
  /\ \A i \in TableId : Len(reg.heap[i]) <= FdLen
  /\ reg.count \in [FdTask -> 0 .. NoFile] /\ reg.free \in [FdTask -> SUBSET (0 .. FdLen)]
  /\ \A t \in FdTask : call[t].at \in {"none", "user", "lease", "dup", "dup3", "fork", "closing",
                                       "dying", "dead", "getfd", "made"}
  /\ closed \subseteq Handle

FdInit ==
  /\ reg = [owners |-> [t \in FdTask |-> NoTask], refs |-> [t \in FdTask |-> 0],
            tables |-> [t \in FdTask |-> NoTable], heap |-> [i \in TableId |-> <<>>],
            count |-> [t \in FdTask |-> 0], free |-> [t \in FdTask |-> {}]]
  /\ call = [t \in FdTask |-> Resting(IF t = FirstTask THEN "user" ELSE "none")]
  /\ closed = {}

-----------------------------------------------------------------------------
(* References: the slots of the tables that exist, and what calls hold.  Arc  *)
(* counts are these; what nobody refers to is dropped, and closed by it.      *)
LiveTables(r, c) == ({r.tables[o] : o \in FdTask} \cup {c[t].table : t \in FdTask}) \ {NoTable}
strong_count(r, c, h) ==
  Cardinality({x \in LiveTables(r, c) \X (1 .. FdLen) :
                 x[2] <= Len(r.heap[x[1]]) /\ r.heap[x[1]][x[2]].h = h})
  + Cardinality({x \in FdTask \X (1 .. FdLen + 1) :
                   x[2] <= Len(c[x[1]].hs) /\ c[x[1]].hs[x[2]] = h})
Unused(r, c) == {h \in Handle : strong_count(r, c, h) = 0}
NewHandle(k) == CHOOSE h \in Unused(reg, call) :
                  Cardinality({g \in Unused(reg, call) : g < h}) = k - 1
HandlesLeft(k) == Cardinality(Unused(reg, call)) >= k
(* Commit a new registry and calls: dropped tables and descriptions go.       *)
Commit(r, c, shut) ==
  /\ call' = c
  /\ reg' = [r EXCEPT !.heap = [i \in TableId |-> IF i \in LiveTables(r, c) THEN @[i] ELSE <<>>]]
  /\ closed' = {h \in closed \cup shut : strong_count(r, c, h) > 0}

effective_owner(r, t) == IF r.owners[t] = NoTask THEN t ELSE r.owners[t]
Table(r, t) == LET o == effective_owner(r, t) IN
               IF r.tables[o] = NoTable THEN <<>> ELSE r.heap[r.tables[o]]
IsOpen(r, t, fd) == fd + 1 \in DOMAIN Table(r, t) /\ Table(r, t)[fd + 1] # NoSlot
Handle_of(r, t, fd) == Table(r, t)[fd + 1].h
OpenFds(tb) == {i - 1 : i \in {j \in DOMAIN tb : tb[j] # NoSlot}}
Holes(tb) == {i - 1 : i \in {j \in DOMAIN tb : tb[j] = NoSlot}}

(* Arc::make_mut: a table that a fork still shares is copied before a write. *)
SharedArc(r, o) == \/ \E p \in FdTask \ {o} : r.tables[p] = r.tables[o]
                   \/ \E t \in FdTask : call[t].table = r.tables[o]
FreshTable(r) == CHOOSE i \in TableId : i \notin LiveTables(r, call)
make_mut(r, o, tb) ==
  LET i == IF r.tables[o] = NoTable \/ SharedArc(r, o) THEN FreshTable(r) ELSE r.tables[o] IN
  [r EXCEPT !.tables[o] = i, !.heap[i] = tb]
rebuild_table_indexes(r, o) ==
  LET tb == IF r.tables[o] = NoTable THEN <<>> ELSE r.heap[r.tables[o]] IN
  [r EXCEPT !.count[o] = Cardinality(OpenFds(tb)), !.free[o] = Holes(tb)]

(* The owner and the table of a task, made on first use: an entry of the      *)
(* reference counts is written whenever the task is not bound.               *)
Initialized(r, t) == /\ r.owners[t] # NoTask /\ r.tables[r.owners[t]] # NoTable
                     /\ r.refs[r.owners[t]] # 0
ensure_task(r, t) ==
  IF Initialized(r, t) THEN r ELSE
  LET b == IF r.owners[t] # NoTask THEN r ELSE [r EXCEPT !.owners[t] = t, !.refs[t] = 1]
      o == b.owners[t]
      s == IF b.refs[o] # 0 THEN b ELSE [b EXCEPT !.refs[o] = 1]
  IN IF s.tables[o] # NoTable THEN s ELSE
     [make_mut(s, o, [i \in 1 .. FirstFd |-> Slot(NewHandle(i))])
        EXCEPT !.count[o] = FirstFd, !.free[o] = {}]
NeedsHandles(t) == IF Initialized(reg, t) \/ reg.tables[effective_owner(reg, t)] # NoTable
                   THEN 0 ELSE FirstFd

Extend(tb, n) == tb \o [i \in 1 .. (IF n > Len(tb) THEN n - Len(tb) ELSE 0) |-> NoSlot]
mark_fd_open(r, o, fd) == [r EXCEPT !.count[o] = @ + 1, !.free[o] = @ \ {fd}]
mark_fd_closed(r, o, fd) ==
  [r EXCEPT !.count[o] = IF @ = 0 THEN 0 ELSE @ - 1, !.free[o] = @ \cup {fd}]
(* The lowest free descriptor from minfd on, or one past the table.          *)
alloc_slot_for_owner_from(r, o, minfd, h) ==
  LET tb == r.heap[r.tables[o]]
      cand == {fd \in r.free[o] : fd >= minfd}
      fd == IF cand # {} THEN Min(cand) ELSE IF Len(tb) < minfd THEN minfd ELSE Len(tb)
      wide == Extend(tb, fd + 1)
      r1 == [make_mut(r, o, [wide EXCEPT ![fd + 1] = Slot(h)])
               EXCEPT !.free[o] = @ \cup (Holes(wide) \ Holes(tb))]
  IN mark_fd_open(r1, o, fd)
take_fd(r, t, fd) ==
  LET o == effective_owner(r, t) IN
  mark_fd_closed(make_mut(r, o, [Table(r, t) EXCEPT ![fd + 1] = NoSlot]), o, fd)
take_fds(r, t, S) == FoldSet(LAMBDA fd, a : take_fd(a, t, fd), r, S)
check_nofile_before_open_late(r, t) == r.count[effective_owner(r, t)] <= NoFile
check_nofile_before_open(r, t) == r.count[effective_owner(r, t)] < NoFile

-----------------------------------------------------------------------------
(* The calls.  Me(t, r) is the registry after the lookup of t's table.        *)
May(t, op) == op \in FdOps /\ call[t].at = "user"
Me(t) == ensure_task(reg, t)
Room(t, k) == HandlesLeft(NeedsHandles(t) + k)
NextHandle(t) == NewHandle(NeedsHandles(t) + 1)
With(t, c) == [call EXCEPT ![t] = c]
Hold(t, p, hs, arg) == With(t, [Resting(p) EXCEPT !.hs = hs, !.arg = arg])

alloc_fd(t) ==
  /\ May(t, "open") /\ Room(t, 1)
  /\ check_nofile_before_open(reg, t)
  /\ LET r == Me(t) IN
     Commit(alloc_slot_for_owner_from(r, effective_owner(r, t), 0, NextHandle(t)), call, {})

(* An I/O call keeps a clone of the handle until it returns.                  *)
current_io_lease(t, fd) ==
  /\ May(t, "lease") /\ Room(t, 0) /\ IsOpen(Me(t), t, fd)
  /\ Commit(Me(t), Hold(t, "lease", <<Handle_of(Me(t), t, fd)>>, <<>>), {})
EndLease(t) == call[t].at = "lease" /\ Commit(reg, With(t, Resting("user")), {})

(* Closing: the slots are emptied under the lock, the handles closed later.   *)
Handles_at(r, t, fds) == [i \in 1 .. Len(fds) |-> Handle_of(r, t, fds[i])]
Take(t, S, p) ==
  LET r == Me(t) IN
  Commit(take_fds(r, t, S),
         IF S = {} THEN call
         ELSE Hold(t, p, Handles_at(r, t, SetToSortSeq(S, <)), <<>>), {})
close_fd(t, fd) ==
  May(t, "close") /\ Room(t, 0) /\ IsOpen(Me(t), t, fd) /\ Take(t, {fd}, "closing")
close_fd_range(t, first, last) ==
  /\ May(t, "range") /\ Room(t, 0)
  /\ Take(t, {fd \in OpenFds(Table(Me(t), t)) : fd \in first .. last}, "closing")
close_cloexec_fds_for_current_task(t) ==
  /\ May(t, "cloexec") /\ Room(t, 0)
  /\ Take(t, {fd \in OpenFds(Table(Me(t), t)) : Table(Me(t), t)[fd + 1].cloexec}, "closing")
(* SharedIoHandle::close: the last reference closes, else the drop does.      *)
Shuts_always(h) == {h}
Shuts(h) == IF strong_count(reg, call, h) = 1 THEN {h} ELSE {}
close_handle(t) ==
  LET rest == Tail(call[t].hs) IN
  /\ call[t].at \in {"closing", "dying"} /\ call[t].hs # <<>>
  /\ Commit(reg, IF rest # <<>> THEN [call EXCEPT ![t].hs = rest]
                 ELSE With(t, Resting(IF call[t].at = "dying" THEN "dead" ELSE "user")),
            Shuts(Head(call[t].hs)))

(* dup: the description is duplicated in one critical section and installed   *)
(* in another, which may find the limit reached.                             *)
Duplicate(t, fd, p, arg) ==
  /\ Room(t, 1) /\ IsOpen(Me(t), t, fd)
  /\ Commit(Me(t), Hold(t, p, <<NextHandle(t)>>, arg), {})
dup_fd(t, fd, minfd) == May(t, "dup") /\ Duplicate(t, fd, "dup", <<minfd>>)
install_dup_fd_for_task(t) ==
  LET r == Me(t) minfd == call[t].arg[1] IN
  /\ call[t].at = "dup" /\ Room(t, 0)
  /\ Commit(IF minfd >= NoFile \/ ~check_nofile_before_open(reg, t) THEN reg
            ELSE alloc_slot_for_owner_from(r, effective_owner(r, t), minfd, call[t].hs[1]),
            With(t, Resting("user")), {})
dup3_fd(t, fd, newfd) == May(t, "dup3") /\ fd # newfd /\ Duplicate(t, fd, "dup3", <<newfd>>)
(* dup3 replaces the descriptor in one critical section, displaced or not.    *)
install_dup3_fd_for_task(t, cloexec) ==
  LET r == Me(t) newfd == call[t].arg[1] o == effective_owner(r, t)
      was == IsOpen(r, t, newfd)
      r1 == IF was THEN take_fd(r, t, newfd) ELSE r
      wide == Extend(Table(r1, t), newfd + 1)
      r2 == [make_mut(r1, o, [wide EXCEPT ![newfd + 1] = [h |-> call[t].hs[1], cloexec |-> cloexec]])
               EXCEPT !.free[o] = @ \cup (Holes(wide) \ Holes(Table(r1, t)))]
  IN
  /\ call[t].at = "dup3" /\ Room(t, 0)
  /\ \/ /\ newfd >= NoFile \/ (~was /\ ~check_nofile_before_open(reg, t))
        /\ Commit(reg, With(t, Resting("user")), {})
     \/ /\ newfd < NoFile /\ (was \/ check_nofile_before_open(reg, t))
        /\ Commit(mark_fd_open(r2, o, newfd),
                  IF was THEN Hold(t, "closing", <<Handle_of(r, t, newfd)>>, <<>>)
                  ELSE With(t, Resting("user")), {})

Mark(tb, S, cloexec) ==
  [i \in DOMAIN tb |-> IF i - 1 \in S /\ tb[i] # NoSlot THEN [tb[i] EXCEPT !.cloexec = cloexec]
                       ELSE tb[i]]
set_fd_range_cloexec(t, first, last, cloexec) ==
  LET r == Me(t) IN
  /\ May(t, "setfd") /\ Room(t, 0)
  /\ Commit(make_mut(r, effective_owner(r, t), Mark(Table(r, t), first .. last, cloexec)), call, {})

-----------------------------------------------------------------------------
(* Tasks: a kernel task with the default table, a thread that shares, a fork  *)
(* that takes the table's Arc and installs it in a second critical section.  *)
Born(c, t) == call[c].at = "none" /\ call[t].at = "user" /\ c # t
init_child_fd_table(t, c) ==
  /\ "spawn" \in FdOps /\ Born(c, t) /\ HandlesLeft(FirstFd)
  /\ Commit(ensure_task(reg, c), With(c, Resting("user")), {})
share_fd_table_from_parent(t, c) ==
  LET r == Me(t) o == effective_owner(r, t) IN
  /\ "share" \in FdOps /\ Born(c, t) /\ Room(t, 0)
  /\ Commit([r EXCEPT !.owners[c] = o, !.refs[o] = @ + 1], With(c, Resting("user")), {})
fd_table_fork_snapshot(t, c) ==
  /\ "fork" \in FdOps /\ Born(c, t) /\ Room(t, 0)
  /\ LET r == Me(t) IN
     Commit(r, [call EXCEPT ![t] = [Resting("fork") EXCEPT !.arg = <<c>>,
                                      !.table = r.tables[effective_owner(r, t)]],
                            ![c] = Resting("made")], {})
install_fd_table_fork_snapshot(t) ==
  LET c == call[t].arg[1]
      r == [reg EXCEPT !.owners[c] = c, !.refs[c] = 1, !.tables[c] = call[t].table] IN
  /\ call[t].at = "fork"
  /\ Commit(rebuild_table_indexes(r, c),
            [call EXCEPT ![t] = Resting("user"), ![c] = Resting("user")], {})

(* close_range(CLOSE_RANGE_UNSHARE): a private table with duplicates; when    *)
(* the owner leaves, the old table moves to one of its sharers.              *)
Sharers(r, o) == {u \in FdTask : r.owners[u] = o}
PrivateTable(t) ==
  LET tb == Table(reg, t) o == OpenFds(tb) IN
  [i \in DOMAIN tb |-> IF tb[i] = NoSlot THEN NoSlot
                       ELSE [tb[i] EXCEPT !.h = NewHandle(Cardinality({f \in o : f < i}))]]
Leave(r, t, o) ==
  LET sib == Min(Sharers(r, o) \ {t}) IN
  IF t = o
  THEN rebuild_table_indexes(
         [r EXCEPT !.tables[o] = NoTable, !.tables[sib] = r.tables[o], !.count[o] = 0,
                   !.refs[sib] = Cardinality(Sharers(r, o) \ {t}), !.free[o] = {},
                   !.owners = [u \in FdTask |-> IF @[u] = o THEN sib ELSE @[u]]], sib)
  ELSE [r EXCEPT !.refs[o] = @ - 1]
unshare_fd_table(t) ==
  LET o == effective_owner(reg, t)
      r == Leave(reg, t, o)
      i == FreshTable(r) IN
  /\ May(t, "unshare") /\ Initialized(reg, t) /\ reg.refs[o] > 1 /\ Sharers(reg, o) # {t}
  /\ HandlesLeft(Cardinality(OpenFds(Table(reg, t))))
  /\ Commit(rebuild_table_indexes([r EXCEPT !.owners[t] = t, !.refs[t] = 1, !.tables[t] = i,
                                            !.heap[i] = PrivateTable(t)], t), call, {})

(* The end of a task: the last of the sharers takes the handles out.  A fork's *)
(* shared table is not taken apart: only the Arc goes.                        *)
drop_task_fd_table(t) ==
  LET o == reg.owners[t]
      n == reg.refs[o] - 1
      hs == Handles_at(reg, t, SetToSortSeq(OpenFds(Table(reg, t)), <))
      r == [reg EXCEPT !.owners[t] = NoTask, !.refs[o] = n]
      gone == [r EXCEPT !.tables[o] = NoTable, !.count[o] = 0, !.free[o] = {}]
  IN
  /\ May(t, "exit")
  /\ IF o = NoTask THEN Commit(reg, With(t, Resting("dead")), {})
     ELSE IF n > 0 THEN Commit(r, With(t, Resting("dead")), {})
     ELSE Commit(gone, IF SharedArc(reg, o) \/ hs = <<>> THEN With(t, Resting("dead"))
                       ELSE Hold(t, "dying", hs, <<>>), {})

(* /proc/<pid>/fd and pidfd_getfd look into the table of another process by   *)
(* the id of its leader, which is made a task of the registry by the lookup.  *)
Leader(u) == call[u].at \notin {"none", "made", "dying"} /\ (call[u].at = "dead" => "ghost" \in FdOps)
duplicate_fd_from_task(t, u, fd) ==
  LET r == ensure_task(reg, u) IN
  /\ May(t, "getfd") /\ u # t /\ Leader(u)
  /\ HandlesLeft(NeedsHandles(u) + 1)
  /\ Commit(r, IF ~IsOpen(r, u, fd) THEN call
               ELSE Hold(t, "getfd", <<NewHandle(NeedsHandles(u) + 1)>>, <<>>), {})
InstallGot(t) ==
  /\ call[t].at = "getfd" /\ Room(t, 0)
  /\ LET r == Me(t) IN
     Commit(IF ~check_nofile_before_open(reg, t) THEN reg
            ELSE alloc_slot_for_owner_from(r, effective_owner(r, t), 0, call[t].hs[1]),
            With(t, Resting("user")), {})

FdNext ==
  \E t \in FdTask :
    \/ alloc_fd(t) \/ EndLease(t) \/ close_handle(t) \/ close_cloexec_fds_for_current_task(t)
    \/ install_dup_fd_for_task(t) \/ unshare_fd_table(t) \/ drop_task_fd_table(t)
    \/ install_fd_table_fork_snapshot(t) \/ InstallGot(t)
    \/ \E ce \in BOOLEAN : install_dup3_fd_for_task(t, ce)
    \/ \E fd \in 0 .. NoFile : current_io_lease(t, fd) \/ close_fd(t, fd)
    \/ \E a, b \in 0 .. NoFile :
         \/ dup_fd(t, a, b) \/ dup3_fd(t, a, b)
         \/ a <= b /\ close_fd_range(t, a, b)
         \/ \E ce \in BOOLEAN : a <= b /\ set_fd_range_cloexec(t, a, b, ce)
    \/ \E c \in FdTask : \/ init_child_fd_table(t, c) \/ share_fd_table_from_parent(t, c)
                         \/ fd_table_fork_snapshot(t, c)
                         \/ \E fd \in 0 .. NoFile : duplicate_fd_from_task(t, c, fd)
FdSpec == FdInit /\ [][FdNext]_fdvars

-----------------------------------------------------------------------------
(* A table lives exactly as long as a task uses it: the count of every table  *)
(* is the number of tasks bound to it, and a table nobody is bound to is gone.*)
TablesOwned ==
  \A o \in FdTask : /\ reg.refs[o] = Cardinality(Sharers(reg, o))
                    /\ reg.tables[o] = NoTable <=> reg.refs[o] = 0

(* The indexes agree with the tables: the free set is the set of holes, so    *)
(* that the lowest free descriptor is found, and the count that the limit is  *)
(* compared with is the number of open descriptors.                          *)
IndexAgrees ==
  \A o \in FdTask : reg.tables[o] # NoTable =>
    LET tb == reg.heap[reg.tables[o]] IN
    reg.free[o] = Holes(tb) /\ reg.count[o] = Cardinality(OpenFds(tb))

(* A description is never closed under a slot, a lease or a fork that still    *)
(* refers to it.                                                             *)
NeverClosedInUse == closed = {}

(* Copy-on-write: what one step does to the table of a task it does to no      *)
(* table of a task that does not share it.                                   *)
Lives(t) == call[t].at \notin {"none", "made", "dead", "dying"} /\ Initialized(reg, t)
OwnTableOnly ==
  \A t, u \in FdTask :
    (/\ Lives(t) /\ Lives(u) /\ reg.owners[t] # reg.owners[u]
     /\ (Lives(t))' /\ (Lives(u))'
     /\ Table(reg, t)' # Table(reg, t)) => Table(reg, u)' = Table(reg, u)
Isolated == [][OwnTableOnly]_fdvars

(* Only the last owner of a table takes it apart: a task that is bound to a    *)
(* table and lives has it.  The lookup of a leader that has exited breaks it.  *)
LastOwnerCloses ==
  \A t \in FdTask : (call[t].at = "user" /\ reg.owners[t] # NoTask)
                      => reg.tables[reg.owners[t]] # NoTable
=============================================================================
