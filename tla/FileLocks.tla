------------------------------ MODULE FileLocks ------------------------------
(***************************************************************************)
(* POSIX record locks and flock(2) locks of one inode (file_lock.rs).  The    *)
(* global table maps the inode to a lock object with its own lock and wait    *)
(* queue; a call keeps a reference to the object while the table's lock is    *)
(* free, and takes the object out of the table when it finds it empty.       *)
(***************************************************************************)
EXTENDS Integers, FiniteSets

CONSTANTS LTask,     \* processes: a task stands for its process
          LOwner,    \* flock owners: open file descriptions
          Obj,       \* lock objects that may exist at a time
          Top,       \* the last byte, u64::MAX
          LOps       \* the calls made in this instance
VARIABLES table,     \* LOCK_TABLE[key]: an object, 0 if the inode has no entry
          obj,       \* obj[i]: posix, the set of record locks; shared; exclusive
          lk         \* lk[t]: the call t is in
lvars == <<table, obj, lk>>

NoOwner == 0
ASSUME LockAssumption == Top \in Nat /\ 0 \notin Obj /\ NoOwner \notin LOwner
Bytes == 0 .. Top
Types == {"R", "W"}
Locks == [pid: LTask, typ: Types, start: Bytes, len: 0 .. Top + 1]
EmptyObj == [posix |-> {}, shared |-> {}, exclusive |-> NoOwner]
LIdle == [pc |-> "user", op |-> "none", i |-> 0, typ |-> "R", start |-> 0, len |-> 0, owner |-> NoOwner]
LTypeOK ==
  /\ table \in Obj \cup {0}
  /\ obj \in [Obj -> [posix: SUBSET Locks, shared: SUBSET LOwner, exclusive: LOwner \cup {NoOwner}]]
  /\ lk \in [LTask -> [pc: {"user", "try", "sleep", "blocked", "wake", "check", "remove"},
                       op: {"none", "setlk", "unlck", "sh", "ex", "un", "drop"}, i: Obj \cup {0},
                       typ: Types, start: Bytes, len: 0 .. Top + 1, owner: LOwner \cup {NoOwner}]]
LInit == table = 0 /\ obj = [i \in Obj |-> EmptyObj] /\ lk = [t \in LTask |-> LIdle]

-----------------------------------------------------------------------------
(* Ranges: a length of zero reaches to the end of the file.                   *)
SatAdd(a, b) == IF a + b > Top THEN Top ELSE a + b
lock_end(start, len) == IF len = 0 THEN Top ELSE SatAdd(start, len - 1)
ranges_overlap(s1, l1, s2, l2) == s1 <= lock_end(s2, l2) /\ s2 <= lock_end(s1, l1)
Left(l, start) == IF l.start < start THEN {[l EXCEPT !.len = start - l.start]} ELSE {}
split_lock_keep_left(l, start, len) ==
  IF start > lock_end(l.start, l.len) \/ lock_end(start, len) < l.start THEN {l} ELSE Left(l, start)
split_lock_around_region(l, start, len) ==
  LET ce == lock_end(start, len)
      le == lock_end(l.start, l.len)
      rs == SatAdd(ce, 1)
      right == IF ce < le
               THEN {[l EXCEPT !.start = rs, !.len = IF l.len = 0 THEN 0 ELSE le - rs + 1]}
               ELSE {}
  IN IF start > le \/ ce < l.start THEN {l} ELSE Left(l, start) \cup right
remove_posix_for_pid_region(locks, p, start, len) ==
  UNION {IF l.pid # p \/ ~ranges_overlap(l.start, l.len, start, len) THEN {l}
         ELSE split_lock_around_region(l, start, len) : l \in locks}
apply_posix_lock(locks, p, typ, start, len) ==
  remove_posix_for_pid_region(locks, p, start, len)
    \cup {[pid |-> p, typ |-> typ, start |-> start, len |-> len]}

posix_conflict(o, p, typ, start, len) ==
  \E l \in o.posix :
    /\ l.pid # p /\ ranges_overlap(l.start, l.len, start, len) /\ ~(typ = "R" /\ l.typ = "R")
flock_blocks_posix(o, typ) == o.exclusive # NoOwner \/ (typ = "W" /\ o.shared # {})
posix_would_block(o, p, typ, start, len) ==
  flock_blocks_posix(o, typ) \/ posix_conflict(o, p, typ, start, len)
posix_blocks_flock(o, p, op) ==
  \E l \in o.posix : l.pid # p /\ (op = "ex" \/ (op = "sh" /\ l.typ = "W"))
flock_would_block(o, p, w, op) ==
  \/ o.exclusive \notin {NoOwner, w}
  \/ op = "ex" /\ o.shared \notin {{}, {w}}
  \/ posix_blocks_flock(o, p, op)
WouldBlock(t, i) ==
  IF lk[t].op = "setlk" THEN posix_would_block(obj[i], t, lk[t].typ, lk[t].start, lk[t].len)
  ELSE flock_would_block(obj[i], t, lk[t].owner, lk[t].op)
clear_owner(o, w) ==
  [o EXCEPT !.shared = @ \ {w}, !.exclusive = IF @ = w THEN NoOwner ELSE @]
retain_others(o, p) == [o EXCEPT !.posix = {l \in @ : l.pid # p}]

-----------------------------------------------------------------------------
(* get_inode_locks: the object of the inode, made if there is none.           *)
FreeObj == CHOOSE i \in Obj : i # table /\ obj[i] = EmptyObj /\ \A t \in LTask : lk[t].i # i
HasFree == \E i \in Obj : i # table /\ obj[i] = EmptyObj /\ \A t \in LTask : lk[t].i # i
Enter(t, c) ==
  /\ lk[t].pc = "user" /\ (table = 0 => HasFree)
  /\ LET i == IF table = 0 THEN FreeObj ELSE table IN
     table' = i /\ lk' = [lk EXCEPT ![t] = [c EXCEPT !.pc = "try", !.i = i]]
  /\ UNCHANGED obj
posix_setlk(t, typ, start, len) ==
  /\ "posix" \in LOps
  /\ Enter(t, [LIdle EXCEPT !.op = "setlk", !.typ = typ, !.start = start, !.len = len])
posix_unlock(t, start, len) ==
  "posix" \in LOps /\ Enter(t, [LIdle EXCEPT !.op = "unlck", !.start = start, !.len = len])
flock_op(t, op, w) == "flock" \in LOps /\ Enter(t, [LIdle EXCEPT !.op = op, !.owner = w])

Granted(t, o) ==
  CASE lk[t].op = "setlk" ->
         [o EXCEPT !.posix = apply_posix_lock(@, t, lk[t].typ, lk[t].start, lk[t].len)]
    [] lk[t].op = "unlck" ->
         [o EXCEPT !.posix = remove_posix_for_pid_region(@, t, lk[t].start, lk[t].len)]
    [] lk[t].op = "sh" -> [o EXCEPT !.shared = @ \cup {lk[t].owner}, !.exclusive = NoOwner]
    [] lk[t].op = "ex" -> [o EXCEPT !.shared = {}, !.exclusive = lk[t].owner]
    [] lk[t].op = "un" -> clear_owner(o, lk[t].owner)
Release(t) == lk[t].op \in {"unlck", "un"}
(* Under the object's lock: granted, or blocked, and then refused (LOCK_NB,   *)
(* F_SETLK) or put to sleep.                                                 *)
Grant(t) ==
  /\ lk[t].pc = "try" /\ (Release(t) \/ ~WouldBlock(t, lk[t].i))
  /\ obj' = [obj EXCEPT ![lk[t].i] = Granted(t, @)]
  /\ lk' = [lk EXCEPT ![t] = [LIdle EXCEPT !.pc = "wake", !.i = lk[t].i,
                                            !.op = IF lk[t].op = "setlk" THEN "setlk" ELSE "drop"]]
  /\ UNCHANGED table
Refuse(t) ==
  /\ lk[t].pc = "try" /\ ~Release(t) /\ WouldBlock(t, lk[t].i)
  /\ \/ lk' = [lk EXCEPT ![t] = LIdle]
     \/ lk' = [lk EXCEPT ![t].pc = "sleep"]
  /\ UNCHANGED <<obj, table>>
(* wait_current_while: the condition again, under the scheduler's lock.       *)
Sleep_unchecked(t) ==
  lk[t].pc = "sleep" /\ lk' = [lk EXCEPT ![t].pc = "blocked"] /\ UNCHANGED <<obj, table>>
Sleep(t) ==
  /\ lk[t].pc = "sleep"
  /\ lk' = [lk EXCEPT ![t].pc = IF WouldBlock(t, lk[t].i) THEN "blocked" ELSE "try"]
  /\ UNCHANGED <<obj, table>>
Interrupted(t) ==
  /\ lk[t].pc = "blocked" /\ lk' = [lk EXCEPT ![t] = LIdle]
  /\ UNCHANGED <<obj, table>>
(* wake_all of the object, outside its lock.  A granted fcntl lock ends here;  *)
(* everything else goes on to look whether the object is empty.              *)
wake_all(t) ==
  /\ lk[t].pc = "wake"
  /\ lk' = [u \in LTask |->
              IF u = t THEN IF lk[t].op = "setlk" THEN LIdle ELSE [lk[t] EXCEPT !.pc = "check"]
              ELSE IF lk[u].pc = "blocked" /\ lk[u].i = lk[t].i THEN [lk[u] EXCEPT !.pc = "try"]
              ELSE lk[u]]
  /\ UNCHANGED <<obj, table>>
(* drop_inode_if_empty: seen empty under the object's lock, then taken out of   *)
(* the table under the table's.                                              *)
SeesEmpty(t) ==
  /\ lk[t].pc = "check"
  /\ lk' = [lk EXCEPT ![t] = IF obj[lk[t].i] = EmptyObj THEN [@ EXCEPT !.pc = "remove"] ELSE LIdle]
  /\ UNCHANGED <<obj, table>>
drop_inode_if_empty(t) ==
  /\ lk[t].pc = "remove" /\ table' = 0 /\ lk' = [lk EXCEPT ![t] = LIdle] /\ UNCHANGED obj

(* Closing a descriptor: the locks of the process on the inode go, and those   *)
(* of the description's owner, from the object the table has now.  An object   *)
(* that is no longer in the table keeps its locks until their holder closes:   *)
(* the process still believes that it has them.                              *)
Lookup(t, o) ==
  /\ lk[t].pc = "user" /\ obj' = o /\ UNCHANGED table
  /\ lk' = IF table = 0 THEN lk
           ELSE [lk EXCEPT ![t] = [LIdle EXCEPT !.pc = "wake", !.op = "drop", !.i = table]]
release_process_inode_locks(t) ==
  "close" \in LOps /\ Lookup(t, [i \in Obj |-> retain_others(obj[i], t)])
release_flock_owner(t, w) ==
  "close" \in LOps /\ Lookup(t, [i \in Obj |-> clear_owner(obj[i], w)])
(* The last thread of a process exits: only where it had locks is anyone woken. *)
release_process_all_locks(t) ==
  /\ "exit" \in LOps /\ lk[t].pc = "user" /\ UNCHANGED table
  /\ obj' = [i \in Obj |-> retain_others(obj[i], t)]
  /\ lk' = IF table = 0 \/ retain_others(obj[table], t) = obj[table] THEN lk
           ELSE [lk EXCEPT ![t] = [LIdle EXCEPT !.pc = "wake", !.op = "drop", !.i = table]]

LNext ==
  \E t \in LTask :
    \/ Grant(t) \/ Refuse(t) \/ Sleep(t) \/ Interrupted(t) \/ wake_all(t)
    \/ SeesEmpty(t) \/ drop_inode_if_empty(t)
    \/ release_process_inode_locks(t) \/ release_process_all_locks(t)
    \/ \E w \in LOwner : release_flock_owner(t, w) \/ \E op \in {"sh", "ex", "un"} : flock_op(t, op, w)
    \/ \E s \in Bytes : \E n \in 0 .. Top + 1 - s :
         posix_unlock(t, s, n) \/ \E typ \in Types : posix_setlk(t, typ, s, n)
LSpec == LInit /\ [][LNext]_lvars

-----------------------------------------------------------------------------
Covers(l, b) == l.start <= b /\ b <= lock_end(l.start, l.len)
Held(locks, p, b) == {l.typ : l \in {m \in locks : m.pid = p /\ Covers(m, b)}}
View(i, p, b) == Held(obj[i].posix, p, b)
FlockOf(o, w) == IF o.exclusive = w THEN "ex" ELSE IF w \in o.shared THEN "sh" ELSE "none"
Compatible(i, j) ==
  /\ \A p, q \in LTask, b \in Bytes : p # q => (View(i, p, b) = {} \/ "W" \notin View(j, q, b))
  /\ \A v, w \in LOwner : (v # w /\ obj[i].exclusive = v) => w # obj[j].exclusive /\ w \notin obj[j].shared

(* Within a lock object no byte is locked twice by a process, no two processes  *)
(* have conflicting record locks and no two descriptions conflicting flocks,   *)
(* however ranges were split and locks converted.                            *)
ObjectExclusive ==
  \A i \in Obj : /\ Compatible(i, i)
                 /\ \A p \in LTask, b \in Bytes : Cardinality(View(i, p, b)) <= 1

(* A record lock call changes the bytes of its own range and its own process   *)
(* only: splitting keeps both ends of what was locked before.  A flock call    *)
(* that is granted changes the lock of its own description only.             *)
OwnLocksOnly ==
  \A i \in Obj :
    /\ \A p \in LTask, b \in Bytes :
         View(i, p, b)' # View(i, p, b) =>
           \/ lk[p].pc = "user"
           \/ /\ lk[p].i = i /\ lk[p].start <= b /\ b <= lock_end(lk[p].start, lk[p].len)
              /\ View(i, p, b)' = IF lk[p].op = "setlk" THEN {lk[p].typ} ELSE {}
    /\ \A w \in LOwner : FlockOf(obj[i], w)' # FlockOf(obj[i], w) =>
         \A t \in LTask : (lk[t].pc = "try" /\ lk'[t] # lk[t]) => lk[t].i = i /\ lk[t].owner = w
LocksOwned == [][OwnLocksOnly]_lvars

(* A task asleep on the object that the table has, on a lock it could have,     *)
(* is about to be woken.  (An object that was taken out of the table while it   *)
(* was in use is no longer found by the close of its holder: see PerInode.)     *)
NoWaiterForgotten ==
  \A t \in LTask : (lk[t].pc = "blocked" /\ lk[t].i = table /\ ~WouldBlock(t, lk[t].i))
                     => \E u \in LTask : lk[u].pc = "wake" /\ lk[u].i = lk[t].i

(* Locks do not conflict within an object, and whoever sleeps on a lock it      *)
(* could have is about to be woken.                                          *)
LocksExclusive == ObjectExclusive /\ NoWaiterForgotten

(* The locks are those of the inode: no two holders conflict, whichever lock   *)
(* object their calls were using.                                            *)
PerInode == \A i, j \in Obj : Compatible(i, j)
=============================================================================
