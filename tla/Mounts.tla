------------------------------- MODULE Mounts -------------------------------
(***************************************************************************)
(* Mount namespaces: the table of auxiliary mounts (mount_table.rs), the        *)
(* registry that says which task uses which table (mount_ns.rs) and the mount, *)
(* umount2 and unshare system calls above them.                               *)
(*                                                                           *)
(* A path is the sequence of its symbols, so that prefixes mean here what      *)
(* starts_with means in the code: "/a" is a prefix of "/ab" and not its        *)
(* parent.  A file system is known by the number of the mount that created it; *)
(* the root volume is 1.  Every operation holds the registry's lock, but for   *)
(* a read-only tmpfs, which is mounted and remounted in two steps.             *)
(***************************************************************************)
EXTENDS Naturals, Sequences, FiniteSets, FiniteSetsExt, SequencesExt

CONSTANTS MTask,        \* task ids, taken once each
          FirstTask,    \* the task the kernel spawns at boot
          Dir,          \* the directories of the root volume, other than "/"
          SubDir,       \* the directories of any other volume, other than "/"
          MaxMount,     \* bound on the mount ids given out
          BindChainLimit,
          MOps          \* the groups of calls tasks make

Slash == <<"/">>
VARIABLES
  reg,      \* PerTaskMountNsRegistry: owners, ref_counts, namespaces
  boot,     \* BOOTSTRAP_MOUNT_NS
  next_id,  \* NEXT_MOUNT_ID
  life,     \* "new", "live" or "dead"
  th,       \* the mount point of the tmpfs a task still has to make read-only, <<>> if none
  writing   \* the file the last step opened for writing: by whom and on which volume
mvars == <<reg, boot, next_id, life, th, writing>>

Kind == {"rw", "ro", "proc", "bind"}
NoWrite == {}
MInit ==
  /\ reg = [owners |-> <<>>, counts |-> <<>>, spaces |-> <<>>]
  /\ boot = <<>>
  /\ next_id = 2
  /\ life = [t \in MTask |-> "new"]
  /\ th = [t \in MTask |-> <<>>]
  /\ writing = NoWrite

(***************************************************************************)
(* A namespace is a sequence of entries.                                     *)
(***************************************************************************)
is_under_mount(abs, point) ==
  IsPrefix(point, abs) /\ (Len(abs) > Len(point) => abs[Len(point) + 1] = "/")
matching(ns, abs) == {i \in DOMAIN ns : is_under_mount(abs, ns[i].point)}
(* The first of the longest mount points above abs; 0 for the root volume.     *)
longest_match(ns, abs) ==
  LET Depth(i) == IF i = 0 THEN 0 ELSE Len(ns[i].point)
  IN CHOOSE i \in matching(ns, abs) \cup {0} :
       \A j \in matching(ns, abs) : Depth(j) < Depth(i) \/ (Depth(j) = Depth(i) /\ i <= j)
exact_mount(ns, abs) ==
  CHOOSE i \in 0 .. Len(ns) :
    /\ \A j \in 1 .. (IF i = 0 THEN Len(ns) ELSE i - 1) : ns[j].point # abs
    /\ i # 0 => ns[i].point = abs
rel_under_mount(abs, point) == IF abs = point THEN Slash ELSE SubSeq(abs, Len(point) + 1, Len(abs))
join_mount_path(mount, rel) ==
  CASE rel = Slash -> mount [] mount = Slash -> rel [] OTHER -> mount \o rel
(* The volume an entry stands for; an entry that is an alias has none.         *)
route(ns, i, abs) ==
  IF i = 0 THEN [fs |-> 1, kind |-> "root", rel |-> abs, readonly |-> FALSE]
  ELSE [fs |-> ns[i].id, kind |-> ns[i].kind, readonly |-> ns[i].readonly,
        rel |-> IF ns[i].kind = "bind"
                THEN join_mount_path(ns[i].source, rel_under_mount(abs, ns[i].point))
                ELSE rel_under_mount(abs, ns[i].point)]
(* An alias is followed to its source, which may be an alias again; a chain    *)
(* longer than the limit resolves to nothing.                                 *)
resolve_material_route(ns, abs) ==
  LET walk[n \in 1 .. BindChainLimit] ==
        LET from == IF n = 1 THEN [kind |-> "bind", rel |-> abs] ELSE walk[n - 1]
        IN IF from.kind # "bind" THEN from ELSE route(ns, longest_match(ns, from.rel), from.rel)
  IN walk[BindChainLimit]
assert_mount_point_directory_in(ns, abs) ==
  \E r \in {resolve_material_route(ns, abs)} :
    \/ r.kind = "root" /\ r.rel \in Dir \cup {Slash}
    \/ r.kind \in {"rw", "ro"} /\ r.rel \in SubDir \cup {Slash}
entry(point, kind, source, id, readonly) ==
  [point |-> point, kind |-> kind, source |-> source, id |-> id, readonly |-> readonly, unbindable |-> FALSE]
can_mount_twice(ns, point) == point # Slash /\ assert_mount_point_directory_in(ns, point)
can_mount(ns, point) ==
  point # Slash /\ assert_mount_point_directory_in(ns, point) /\ exact_mount(ns, point) = 0
mount_aux_common(ns, point, kind, id) ==
  IF can_mount(ns, point) THEN Append(ns, entry(point, kind, Slash, id, kind # "rw")) ELSE ns

bind_forbidden(ns, source) ==
  longest_match(ns, source) # 0 /\ ns[longest_match(ns, source)].unbindable
(* The mounts below the source, shortest first, each aliased below the target. *)
recursive_bind(ns, source, target, id) ==
  LET below == SelectSeq(ns, LAMBDA e : is_under_mount(e.point, source) /\ e.point # source)
      sorted == SortSeq([i \in DOMAIN below |-> below[i].point], LAMBDA p, q : Len(p) < Len(q))
      pairs == <<<<source, target>>>> \o
               [i \in DOMAIN sorted |-> <<sorted[i], join_mount_path(target, rel_under_mount(sorted[i], source))>>]
      put[n \in 0 .. Len(pairs)] ==
        IF n = 0 THEN [ns |-> ns, id |-> id, ok |-> TRUE]
        ELSE LET done == put[n - 1]
                 dst  == pairs[n][2]
             IN IF ~done.ok \/ exact_mount(done.ns, dst) # 0 THEN done
                ELSE IF ~assert_mount_point_directory_in(done.ns, dst) THEN [done EXCEPT !.ok = FALSE]
                ELSE [ns |-> Append(done.ns, entry(dst, "bind", pairs[n][1], done.id, FALSE)),
                      id |-> done.id + 1, ok |-> TRUE]
  IN put[Len(pairs)]
mount_bind_at(ns, source, target, recursive, id) ==
  IF bind_forbidden(ns, source) \/ ~can_mount(ns, target) THEN [ns |-> ns, id |-> id, ok |-> FALSE]
  ELSE IF recursive THEN recursive_bind(ns, source, target, id)
  ELSE [ns |-> Append(ns, entry(target, "bind", source, id, FALSE)), id |-> id + 1, ok |-> TRUE]
(* Only MS_UNBINDABLE has an effect; the other types are stored and not used.  *)
set_mount_propagation(ns, point, unbindable, recursive) ==
  IF exact_mount(ns, point) = 0 THEN ns
  ELSE [i \in DOMAIN ns |->
         IF ns[i].point = point \/ (recursive /\ is_under_mount(ns[i].point, point))
         THEN [ns[i] EXCEPT !.unbindable = unbindable] ELSE ns[i]]
(* The renaming takes every mount point that starts with the source.           *)
move_mount_at(ns, source, target) ==
  IF \/ source = Slash \/ target = Slash \/ exact_mount(ns, source) = 0
     \/ is_under_mount(target, source) \/ exact_mount(ns, target) # 0
     \/ ~assert_mount_point_directory_in(ns, target)
  THEN ns
  ELSE LET moves == SelectSeq(ns, LAMBDA e : IsPrefix(source, e.point))
           rename(p) == IF p = source THEN target
                        ELSE join_mount_path(target, SubSeq(p, Len(source) + 1, Len(p)))
           do[n \in 0 .. Len(moves)] ==
             IF n = 0 THEN ns
             ELSE [do[n - 1] EXCEPT ![exact_mount(do[n - 1], moves[n].point)].point = rename(moves[n].point)]
       IN do[Len(moves)]
remount_aux_readonly(ns, point) ==
  LET i == exact_mount(ns, point)
  IN IF i # 0 /\ ns[i].kind = "rw" THEN [ns EXCEPT ![i].readonly = TRUE] ELSE ns
unmount_aux_at(ns, point) ==
  LET i == exact_mount(ns, point)
  IN IF point = Slash \/ i = 0 THEN ns ELSE RemoveAt(ns, i)

(***************************************************************************)
(* PerTaskMountNsRegistry: a task uses the table of its owner, itself if it    *)
(* has none.                                                                 *)
(***************************************************************************)
without(f, k) == [x \in DOMAIN f \ {k} |-> f[x]]
with(f, k, v) == [x \in DOMAIN f \cup {k} |-> IF x = k THEN v ELSE f[x]]
or_insert(f, k, v) == IF k \in DOMAIN f THEN f ELSE with(f, k, v)
effective_owner(R, t) == IF t \in DOMAIN R.owners THEN R.owners[t] ELSE t
ensure_owner(R, t) == [R EXCEPT !.owners = or_insert(@, t, t), !.counts = or_insert(@, t, 1)]
init_task_mount_ns(R, t) ==
  LET Q == ensure_owner(R, t) IN [Q EXCEPT !.spaces = or_insert(@, effective_owner(Q, t), boot)]
namespace_for(R, t) ==
  IF effective_owner(R, t) \in DOMAIN R.spaces THEN R.spaces[effective_owner(R, t)] ELSE boot
release_owner_keep_zero(R, t) ==
  [R EXCEPT !.owners = without(@, t), !.counts = with(@, R.owners[t], @[R.owners[t]] - 1)]
release_owner(R, t) ==
  LET o == R.owners[t]
      c == IF o \in DOMAIN R.counts THEN R.counts[o] - 1 ELSE 0
  IN [R EXCEPT !.owners = without(@, t), !.counts = IF c = 0 THEN without(@, o) ELSE with(@, o, c)]
drop_task(R, t) ==
  IF t \notin DOMAIN R.owners THEN R
  ELSE LET o == R.owners[t]
           Q == release_owner(R, t)
           S == IF o \in DOMAIN Q.counts THEN Q.spaces ELSE without(Q.spaces, o)
       IN [Q EXCEPT !.spaces = IF t # o THEN without(S, t) ELSE S]
copy_mount_ns_from_parent(R, child, parent) ==
  LET ns == namespace_for(R, parent)
      Q  == ensure_owner(drop_task(R, child), child)
  IN [Q EXCEPT !.spaces = with(@, effective_owner(Q, child), ns)]
share_mount_ns_from_parent(R, child, parent) ==
  LET Q == drop_task(init_task_mount_ns(R, parent), child)
      o == effective_owner(Q, parent)
  IN [Q EXCEPT !.owners = with(@, child, o), !.counts = with(@, o, or_insert(@, o, 0)[o] + 1)]
unshare_mount_ns(R, t) ==
  LET o  == effective_owner(R, t)
      c  == or_insert(R.counts, o, 1)[o]
      ns == IF o \in DOMAIN R.spaces THEN R.spaces[o] ELSE <<>>
      members == {u \in DOMAIN R.owners : u # t /\ R.owners[u] = o}
      heir == Min(members)   \* the first in the order of the map
  IN CASE c <= 1 -> R
       [] c > 1 /\ t # o ->
            [owners |-> with(R.owners, t, t), counts |-> with(with(R.counts, o, c - 1), t, 1),
             spaces |-> with(R.spaces, t, ns)]
       [] OTHER ->
            [owners |-> [u \in DOMAIN R.owners |-> IF u \in members THEN heir ELSE R.owners[u]],
             counts |-> with(with(R.counts, heir, c - 1), t, 1),
             spaces |-> with(with(R.spaces, heir, ns), t, ns)]
-----------------------------------------------------------------------------
Live(t) == life[t] = "live" /\ th[t] = <<>>
(* with_current_namespace: the caller's own table, created when it has none.   *)
with_current_namespace(t, ns, id) ==
  /\ \E R \in {init_task_mount_ns(reg, t)} : reg' = [R EXCEPT !.spaces[effective_owner(R, t)] = ns]
  /\ next_id' = id
Own(t) == IF effective_owner(reg, t) \in DOMAIN reg.spaces THEN reg.spaces[effective_owner(reg, t)] ELSE boot
Path == Dir \cup {Slash}
Room == next_id <= MaxMount
Plain == UNCHANGED <<boot, life, th>> /\ writing' = NoWrite

(* Boot: proc, sysfs and tmpfs mounts, before there is any task.               *)
MountBootstrap(kind, p) ==
  /\ \A t \in MTask : life[t] = "new"
  /\ Room
  /\ boot' = mount_aux_common(boot, p, kind, next_id)
  /\ next_id' = IF can_mount(boot, p) THEN next_id + 1 ELSE next_id
  /\ UNCHANGED <<reg, life, th, writing>>
SpawnFirst ==
  /\ \A t \in MTask : life[t] = "new"
  /\ life' = [life EXCEPT ![FirstTask] = "live"]
  /\ reg' = init_task_mount_ns(reg, FirstTask)
  /\ UNCHANGED <<boot, next_id, th, writing>>

(* clone: the child shares the table, or copies it under CLONE_NEWNS.          *)
Clone(t, child, newns) ==
  /\ Live(t) /\ life[child] = "new"
  /\ life' = [life EXCEPT ![child] = "live"]
  /\ reg' = IF newns THEN copy_mount_ns_from_parent(reg, child, t) ELSE share_mount_ns_from_parent(reg, child, t)
  /\ UNCHANGED <<boot, next_id, th>> /\ writing' = NoWrite
sys_unshare(t) ==
  /\ Live(t)
  /\ reg' = unshare_mount_ns(reg, t)
  /\ UNCHANGED next_id /\ Plain
(* The runtime resources of a task are dropped when it exits and again when it *)
(* is reaped.                                                                *)
DropTask(t) ==
  /\ (life[t] = "live" /\ th[t] = <<>>) \/ life[t] = "dead"
  /\ life' = [life EXCEPT ![t] = "dead"]
  /\ reg' = drop_task(reg, t)
  /\ UNCHANGED <<boot, next_id, th>> /\ writing' = NoWrite

Mount(t, kind, p) ==
  /\ Live(t) /\ Room
  /\ \E ns \in {Own(t)}, ok \in BOOLEAN :
       /\ ok = can_mount(ns, p)
       /\ with_current_namespace(t, IF ok THEN mount_aux_common(ns, p, kind, next_id) ELSE ns,
                                 IF ok THEN next_id + 1 ELSE next_id)
(* proc, sysfs and securityfs: pseudo volumes, on which nothing can be mounted. *)
MountPseudo(t, p) == Mount(t, "proc", p) /\ Plain
(* ext4 on a block device, opened for reading only under MS_RDONLY.            *)
MountBlock(t, p, readonly) == Mount(t, IF readonly THEN "ro" ELSE "rw", p) /\ Plain
MountCgroup(t, p) == Mount(t, "rw", p) /\ Plain
(* A tmpfs, in the read-only case mounted first and then remounted.            *)
MountTmpfs(t, p) ==
  /\ Mount(t, "rw", p)
  /\ th' = [th EXCEPT ![t] = IF can_mount(Own(t), p) THEN p ELSE <<>>]
  /\ UNCHANGED <<boot, life>> /\ writing' = NoWrite
MountTmpfsReadonly(t) ==
  /\ life[t] = "live" /\ th[t] # <<>>
  /\ \E ns \in {Own(t)} : with_current_namespace(t, remount_aux_readonly(ns, th[t]), next_id)
  /\ th' = [th EXCEPT ![t] = <<>>]
  /\ UNCHANGED <<boot, life>> /\ writing' = NoWrite
MountBind(t, p, q, recursive) ==
  /\ Live(t) /\ Room
  /\ q # Slash
  /\ \E ns \in {Own(t)} : \E r \in {mount_bind_at(ns, p, q, recursive, next_id)} :
       with_current_namespace(t, r.ns, r.id)
  /\ Plain
MountPropagation(t, p, unbindable, recursive) ==
  /\ Live(t)
  /\ \E ns \in {Own(t)} : with_current_namespace(t, set_mount_propagation(ns, p, unbindable, recursive), next_id)
  /\ Plain
MountMove(t, p, q) ==
  /\ Live(t)
  /\ \E ns \in {Own(t)} : with_current_namespace(t, move_mount_at(ns, p, q), next_id)
  /\ Plain
MountRemount(t, p) ==
  /\ Live(t)
  /\ \E ns \in {Own(t)} : with_current_namespace(t, remount_aux_readonly(ns, p), next_id)
  /\ Plain
sys_umount2(t, p) ==
  /\ Live(t)
  /\ \E ns \in {Own(t)} : with_current_namespace(t, unmount_aux_at(ns, p), next_id)
  /\ Plain
(* assert_path_writable and then fs_and_rel_rw, which resolves and checks      *)
(* again: the second answer is the one that is used.                          *)
assert_path_writable(r) == r.kind = "root" \/ (r.kind = "rw" /\ ~r.readonly)
OpenForWriting(t, p) ==
  /\ Live(t)
  /\ reg' = init_task_mount_ns(reg, t)
  /\ \E ns \in {Own(t)} : \E r \in {resolve_material_route(ns, p)} :
       writing' = IF assert_path_writable(r) THEN {[by |-> t, fs |-> r.fs]} ELSE NoWrite
  /\ UNCHANGED <<boot, next_id, life, th>>

MNext ==
  \/ \E k \in {"rw", "proc"}, p \in Dir : "boot" \in MOps /\ MountBootstrap(k, p)
  \/ SpawnFirst
  \/ \E t, c \in MTask, n \in BOOLEAN : "clone" \in MOps /\ Clone(t, c, n)
  \/ \E t \in MTask : "unshare" \in MOps /\ sys_unshare(t)
  \/ \E t \in MTask : "exit" \in MOps /\ DropTask(t)
  \/ \E t \in MTask, p \in Dir : "mount" \in MOps /\ MountPseudo(t, p)
  \/ \E t \in MTask, p \in Dir, ro \in BOOLEAN : "mount" \in MOps /\ MountBlock(t, p, ro)
  \/ \E t \in MTask, p \in Dir : "cgroup" \in MOps /\ MountCgroup(t, p)
  \/ \E t \in MTask, p \in Dir : "tmpfs" \in MOps /\ MountTmpfs(t, p)
  \/ \E t \in MTask : MountTmpfsReadonly(t)
  \/ \E t \in MTask, p, q \in Path, r \in BOOLEAN : "bind" \in MOps /\ MountBind(t, p, q, r)
  \/ \E t \in MTask, p \in Path, u, r \in BOOLEAN : "propagation" \in MOps /\ MountPropagation(t, p, u, r)
  \/ \E t \in MTask, p, q \in Path : "move" \in MOps /\ MountMove(t, p, q)
  \/ \E t \in MTask, p \in Path : "remount" \in MOps /\ MountRemount(t, p)
  \/ \E t \in MTask, p \in Path : "umount" \in MOps /\ sys_umount2(t, p)
  \/ \E t \in MTask, p \in Path : "write" \in MOps /\ OpenForWriting(t, p)
MSpec == MInit /\ [][MNext]_mvars
-----------------------------------------------------------------------------
Entry == [point : Seq({"/", "a", "b", "c"}), kind : Kind, source : Seq({"/", "a", "b", "c"}), id : Nat,
          readonly : BOOLEAN, unbindable : BOOLEAN]
MTypeOK ==
  /\ DOMAIN reg.owners \subseteq MTask /\ \A t \in DOMAIN reg.owners : reg.owners[t] \in MTask
  /\ DOMAIN reg.counts \subseteq MTask /\ \A t \in DOMAIN reg.counts : reg.counts[t] \in 1 .. Cardinality(MTask)
  /\ DOMAIN reg.spaces \subseteq MTask
  /\ \A t \in DOMAIN reg.spaces : \A i \in DOMAIN reg.spaces[t] : reg.spaces[t][i] \in Entry
  /\ \A i \in DOMAIN boot : boot[i] \in Entry

(* PerTaskMountNsRegistry: the count of a table is the number of its tasks, and *)
(* there is a table for every owner and no other: none is freed while a task   *)
(* uses it, and none outlives its tasks, in whatever order owner and members   *)
(* share, unshare and exit.                                                  *)
TablesCounted ==
  LET owners == {reg.owners[t] : t \in DOMAIN reg.owners}
  IN /\ DOMAIN reg.spaces = owners
     /\ \A o \in owners : reg.counts[o] = Cardinality({t \in DOMAIN reg.owners : reg.owners[t] = o})

(* mount_aux_common and mount_bind_at: no two mounts of a namespace are on one  *)
(* mount point, so umount2 and remount reach the mount a lookup sees.          *)
PointsUnique ==
  \A t \in DOMAIN reg.spaces : LET ns == reg.spaces[t]
    IN \A i, j \in DOMAIN ns : ns[i].point = ns[j].point => i = j

View(R, t) == namespace_for(R, t)
(* mount_ns.rs: one step changes the mounts that one group of sharing tasks     *)
(* sees; clone, unshare and exit change nobody's.                             *)
OneViewChanges ==
  \A t, u \in MTask :
    (/\ life[t] = "live" /\ life'[t] = "live" /\ life[u] = "live" /\ life'[u] = "live"
     /\ View(reg, t) # View(reg', t) /\ View(reg, u) # View(reg', u))
      => effective_owner(reg, t) = effective_owner(reg, u)
MembersKept ==
  \A t \in MTask : (life[t] = "live" /\ life'[t] = "live" /\ \E u \in MTask : life[u] # life'[u])
                     => View(reg, t) = View(reg', t)
MountsIsolated == [][OneViewChanges /\ MembersKept]_mvars

(* assert_path_writable, fs_and_rel_rw: no file of a volume whose mount is       *)
(* read-only is opened for writing, through whatever chain of aliases.         *)
ReadOnlyHolds ==
  \A w \in writing :
    LET ns == View(reg, w.by) IN \A i \in DOMAIN ns : ns[i].id = w.fs => ~ns[i].readonly

(* resolve_material_route: every directory resolves to a volume.  It does not    *)
(* once an alias is reached through itself: bind "/a" on "/b" and "/b" on "/a", *)
(* or "/a/b" on "/a", and both paths are lost to everybody.                    *)
AliasesEnd ==
  \A t \in MTask : life[t] = "live" =>
    \A p \in Path : resolve_material_route(View(reg, t), p).kind # "bind"

(* move_mount_at: a move leaves the mounts alone that are not below its source.  *)
(* It does not: "/ab" starts with "/a" and becomes "/cb".                      *)
MovesOwnTree ==
  [][\A t \in MTask : (life[t] = "live" /\ life'[t] = "live") =>
       LET ns == View(reg, t)
           n2 == View(reg', t)
           moved == {i \in DOMAIN ns : \E j \in DOMAIN n2 : ns[i].id = n2[j].id /\ ns[i].point # n2[j].point}
       IN moved # {} => \E i \in moved : \A j \in moved : is_under_mount(ns[j].point, ns[i].point)]_mvars
=============================================================================
