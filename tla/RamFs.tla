------------------------------- MODULE RamFs -------------------------------
(***************************************************************************)
(* The file systems that live in memory: RamFs, whose inodes are shared by    *)
(* names and open nodes and whose files are sparse tables of frames, and the   *)
(* tree of a cgroup mount (TmpFs), whose directories are born with control     *)
(* files.  One mount, every operation under the mount's lock; Cgroup tells      *)
(* which of the two it is.  A name tree is a function from paths, sequences of  *)
(* names, to inode numbers; want is what a file should hold, byte by byte.     *)
(***************************************************************************)
EXTENDS Integers, Sequences, FiniteSets, FiniteSetsExt, SequencesExt

CONSTANTS Name,        \* names of directory entries
          MaxDepth,    \* longest path
          PageSize,    \* RAMFS_PAGE_SIZE
          MaxLen,      \* bound on the length of a file
          Datas,       \* what may be written: sequences over {0, 1}
          Offsets,     \* where
          Limit,       \* limit_bytes
          MaxInode,    \* bound on next_inode
          MaxRefs,     \* bound on the opens of one inode
          Cgroup,      \* TRUE for the tree of a cgroup mount, FALSE for RamFs
          RootControl, \* the control files of the root of a cgroup tree, in order
          ChildControl,\* those of its other directories
          ROps         \* operations of this instance

VARIABLES tree, ino, opened, next_inode, want
fsvars == <<tree, ino, opened, next_inode, want>>

Paths == UNION {[1..k -> Name] : k \in 0..MaxDepth}
Ram == ~Cgroup
Control == ToSet(RootControl) \cup ToSet(ChildControl)
Root == <<>>

-----------------------------------------------------------------------------
(* Sparse files.                                                             *)
PageBytes == 0..(PageSize - 1)
Zero == [j \in PageBytes |-> 0]
NoFile == [len |-> 0, pages |-> [k \in {} |-> Zero]]
Old(f, k) == IF k \in DOMAIN f.pages THEN f.pages[k] ELSE Zero
Part(off, data, k) == {j \in PageBytes : k * PageSize + j \in off..(off + Len(data) - 1)}
Touched(off, data) == (off \div PageSize)..((off + Len(data) - 1) \div PageSize)
Byte(off, data, k, j) == data[(k * PageSize + j - off) + 1]
AllZero(off, data, k) == \A j \in Part(off, data, k) : Byte(off, data, k, j) = 0
new_pages(f, off, data) == {k \in Touched(off, data) \ DOMAIN f.pages : ~AllZero(off, data, k)}
Overlay(f, off, data, k) ==
  [j \in PageBytes |-> IF j \in Part(off, data, k) THEN Byte(off, data, k, j) ELSE Old(f, k)[j]]
write_at(f, off, data) ==
  [len |-> Max({f.len, off + Len(data)}),
   pages |-> [k \in {k \in DOMAIN f.pages \cup new_pages(f, off, data) :
                       ~(k \in Touched(off, data) /\ AllZero(off, data, k) /\ Overlay(f, off, data, k) = Zero)}
                |-> Overlay(f, off, data, k)]]
truncate(f, n) ==
  IF n >= f.len THEN [f EXCEPT !.len = n]
  ELSE LET cut(k) == [j \in PageBytes |-> IF k * PageSize + j < n THEN f.pages[k][j] ELSE 0]
       IN [len |-> n,
           pages |-> [k \in {k \in DOMAIN f.pages : k * PageSize < n /\ (((k + 1) * PageSize <= n) \/ cut(k) # Zero)}
                        |-> cut(k)]]
read_at(f, off, n) ==
  [i \in 1..(IF off >= f.len THEN 0 ELSE Min({f.len - off, n})) |->
     Old(f, (off + i - 1) \div PageSize)[(off + i - 1) % PageSize]]
allocated_bytes(f) == PageSize * Cardinality(DOMAIN f.pages)

(* The same on a flat sequence of bytes: TmpFs keeps its files so, and want.   *)
Resized(s, n) == [i \in 1..n |-> IF i <= Len(s) THEN s[i] ELSE 0]
Written(s, off, data) ==
  [i \in 1..Max({Len(s), off + Len(data)}) |->
     IF i \in (off + 1)..(off + Len(data)) THEN data[i - off] ELSE IF i <= Len(s) THEN s[i] ELSE 0]

-----------------------------------------------------------------------------
(* Inodes and names.  xattr is the length of the one attribute, -1 if unset.   *)
Inode(kind, nlink, file, target, mode) ==
  [kind |-> kind, nlink |-> nlink, file |-> file, target |-> target, mode |-> mode, uid |-> 0, xattr |-> -1]
DirNode(mode) == Inode("dir", 2, NoFile, 0, mode)
FileNode(data) == Inode("file", 1, IF Ram THEN write_at(NoFile, 0, data) ELSE [NoFile EXCEPT !.len = Len(data)], 0, 1)
accounted_bytes(i) ==
  (CASE i.kind = "file" -> allocated_bytes(i.file) [] i.kind = "symlink" -> i.target [] OTHER -> 0)
  + (IF i.xattr > 0 THEN i.xattr ELSE 0)
Linked(t) == {t[p] : p \in DOMAIN t}
Live(t, o) == Linked(t) \cup DOMAIN o
used_bytes(t, i, o) == MapThenSumSet(LAMBDA n : accounted_bytes(i[n]), Live(t, o))
fits(added) == used_bytes(tree, ino, opened) + added <= Limit
released(n) == IF ino[n].nlink = 1 THEN accounted_bytes(ino[n]) ELSE 0
ensure_capacity_replace(p, bytes) == fits(bytes - (IF p \in DOMAIN tree THEN released(tree[p]) ELSE 0))
ensure_capacity_delta(old, new) == new <= old \/ fits(new - old)

IsDir(t, p) == p \in DOMAIN t /\ ino[t[p]].kind = "dir"
parent_of(t, p) == p # Root /\ IsDir(t, Front(p))
Entries(t, p) == {q \in DOMAIN t : Len(q) = Len(p) + 1 /\ IsPrefix(p, q)}
Under(t, p) == {q \in DOMAIN t : IsPrefix(p, q)}
Without(t, p) == [q \in DOMAIN t \ Under(t, p) |-> t[q]]
With(t, p, n) == [q \in DOMAIN t \cup {p} |-> IF q = p THEN n ELSE t[q]]
(* children.insert(name, node): the node comes with the subtree it had at from. *)
Grafted(t, was, from, to) ==
  LET moved == {to \o SubSeq(q, Len(from) + 1, Len(q)) : q \in Under(was, from)}
  IN [q \in DOMAIN t \cup moved |->
        IF q \in moved THEN was[from \o SubSeq(q, Len(to) + 1, Len(q))] ELSE t[q]]
drop_link(i, n) == [i EXCEPT ![n].nlink = IF @ = 0 THEN 0 ELSE @ - 1]
AddNode(i, n, node) == [m \in DOMAIN i \cup {n} |-> IF m = n THEN node ELSE i[m]]

(* An inode lives while a name or an open node refers to it.                   *)
Commit(t, i, o, w) ==
  /\ tree' = t /\ opened' = o
  /\ ino' = [n \in Live(t, o) |-> i[n]]
  /\ want' = [n \in Live(t, o) |-> IF n \in DOMAIN w THEN w[n] ELSE <<>>]
Fails == UNCHANGED <<tree, ino, opened, want>>
alloc_inode == next_inode <= MaxInode /\ next_inode' = next_inode + 1

Seeds(p) == IF Ram THEN <<>> ELSE IF p = Root THEN RootControl ELSE ChildControl
seed_cgroup_controls(t, p, n) ==
  LET at == {Append(p, Seeds(p)[k]) : k \in 1..Len(Seeds(p))}
      number(q) == CHOOSE k \in n..(n + Len(Seeds(p)) - 1) : Seeds(p)[(k - n) + 1] = Last(q)
  IN [q \in DOMAIN t \cup at |-> IF q \in at THEN number(q) ELSE t[q]]
SeededInodes(i, p, n) ==
  [m \in DOMAIN i \cup n..(n + Len(Seeds(p)) - 1) |-> IF m \in DOMAIN i THEN i[m] ELSE FileNode(<<>>)]
FsInit ==
  /\ tree = seed_cgroup_controls([p \in {Root} |-> 1], Root, 2)
  /\ ino = SeededInodes([n \in {1} |-> DirNode(1)], Root, 2)
  /\ opened = [n \in {} |-> 0]
  /\ next_inode = 2 + Len(Seeds(Root))
  /\ want = [n \in DOMAIN ino |-> <<>>]

-----------------------------------------------------------------------------
(* Open nodes.                                                               *)
Referred(o, n) == [m \in DOMAIN o \cup {n} |-> IF m = n THEN (IF n \in DOMAIN o THEN o[n] + 1 ELSE 1) ELSE o[m]]
open_node(p) ==
  /\ p \in DOMAIN tree
  /\ Referred(opened, tree[p])[tree[p]] <= MaxRefs
  /\ Commit(tree, ino, Referred(opened, tree[p]), want)
  /\ UNCHANGED next_inode
close_node(n) ==
  /\ n \in DOMAIN opened
  /\ Commit(tree, ino,
            IF opened[n] = 1 THEN [m \in DOMAIN opened \ {n} |-> opened[m]] ELSE [opened EXCEPT ![n] = @ - 1], want)
  /\ UNCHANGED next_inode
create_tmpfile_node(p) ==
  /\ p \in DOMAIN tree
  /\ IF IsDir(tree, p)
     THEN /\ alloc_inode
          /\ Commit(tree, AddNode(ino, next_inode, [FileNode(<<>>) EXCEPT !.nlink = 0]),
                    Referred(opened, next_inode), want)
     ELSE Fails /\ UNCHANGED next_inode
link_node(n, p) ==
  /\ n \in DOMAIN opened
  /\ IF p # Root /\ ino[n].kind = "file" /\ parent_of(tree, p) /\ p \notin DOMAIN tree
     THEN Commit(With(tree, p, n), [ino EXCEPT ![n].nlink = @ + 1], opened, want)
     ELSE Fails
  /\ UNCHANGED next_inode

-----------------------------------------------------------------------------
(* Contents, of an inode that was found by a path or by an open node.          *)
Stored(i, n, off, data) ==
  [i EXCEPT ![n].file = IF Ram THEN write_at(@, off, data) ELSE [@ EXCEPT !.len = Len(Written(want[n], off, data))]]
write_range(n, off, data) ==
  /\ off + Len(data) <= MaxLen
  /\ \/ /\ ino[n].kind = "file" /\ data # <<>>
        /\ Ram => ensure_capacity_delta(0, PageSize * Cardinality(new_pages(ino[n].file, off, data)))
        /\ Commit(tree, Stored(ino, n, off, data), opened, [want EXCEPT ![n] = Written(@, off, data)])
     \/ /\ ino[n].kind # "file" \/ data = <<>> \/ "oom" \in ROps
           \/ (Ram /\ ~ensure_capacity_delta(0, PageSize * Cardinality(new_pages(ino[n].file, off, data))))
        /\ Fails
  /\ UNCHANGED next_inode
truncate_to(n, len) ==
  /\ ino[n].kind = "file"
  /\ Commit(tree, [ino EXCEPT ![n].file = IF Ram THEN truncate(@, len) ELSE [@ EXCEPT !.len = len]], opened,
            [want EXCEPT ![n] = Resized(@, len)])
  /\ UNCHANGED next_inode
(* A file is written whole: a new inode takes the name.                        *)
write_regular_file(p, data) ==
  /\ p # Root /\ Ram /\ alloc_inode
  /\ IF /\ ~IsDir(tree, p)
        /\ ensure_capacity_replace(p, allocated_bytes(write_at(NoFile, 0, data)))
        /\ parent_of(tree, p)
     THEN Commit(With(tree, p, next_inode),
                 LET i == AddNode(ino, next_inode, FileNode(data))
                 IN IF p \in DOMAIN tree THEN drop_link(i, tree[p]) ELSE i,
                 opened, [n \in DOMAIN want \cup {next_inode} |-> IF n = next_inode THEN data ELSE want[n]])
     ELSE Fails
(* TmpFs removes whatever has the name, a directory with its subtree too.      *)
tmp_write_regular_file(p, data) ==
  /\ p # Root /\ ~Ram /\ alloc_inode
  /\ IF parent_of(tree, p)
     THEN Commit(With(Without(tree, p), p, next_inode), AddNode(ino, next_inode, FileNode(data)), opened,
                 [n \in DOMAIN want \cup {next_inode} |-> IF n = next_inode THEN data ELSE want[n]])
     ELSE Fails

-----------------------------------------------------------------------------
(* Names.                                                                    *)
unlink(p) ==
  /\ parent_of(tree, p) /\ p \in DOMAIN tree
  /\ IF IsDir(tree, p) THEN Fails
     ELSE Commit(Without(tree, p), drop_link(ino, tree[p]), opened, want)
  /\ UNCHANGED next_inode
is_cgroup_control_name(c) == ~Ram /\ c \in Control
removable(t, p) == \A q \in Entries(t, p) : is_cgroup_control_name(Last(q))
rmdir(p) ==
  /\ parent_of(tree, p) /\ p \in DOMAIN tree
  /\ IF IsDir(tree, p) /\ removable(tree, p)
     THEN Commit(Without(tree, p), ino, opened, want)
     ELSE Fails
  /\ UNCHANGED next_inode
insert_new(p, node) ==
  /\ alloc_inode
  /\ IF (Ram => fits(accounted_bytes(node))) /\ parent_of(tree, p) /\ p \notin DOMAIN tree
     THEN Commit(With(tree, p, next_inode), AddNode(ino, next_inode, node), opened, want)
     ELSE Fails
mkdir(p) ==
  \/ /\ Ram /\ p # Root /\ insert_new(p, DirNode(1))
  \/ /\ ~Ram /\ p # Root /\ Len(p) + Len(Seeds(p)) <= MaxDepth /\ next_inode + Len(Seeds(p)) <= MaxInode
     /\ IF parent_of(tree, p) /\ p \notin DOMAIN tree
        THEN /\ next_inode' = next_inode + 1 + Len(Seeds(p))
             /\ Commit(seed_cgroup_controls(With(tree, p, next_inode), p, next_inode + 1),
                       SeededInodes(AddNode(ino, next_inode, DirNode(1)), p, next_inode + 1), opened, want)
        ELSE next_inode' = next_inode + 1 /\ Fails
symlink(p, bytes) == p # Root /\ insert_new(p, Inode("symlink", 1, NoFile, bytes, 1))
mknod(p) == Ram /\ p # Root /\ insert_new(p, Inode("special", 1, NoFile, 0, 1))
hardlink(p, q) ==
  /\ Ram /\ p \in DOMAIN tree
  /\ IF ~IsDir(tree, p) /\ parent_of(tree, q) /\ q \notin DOMAIN tree
     THEN Commit(With(tree, q, tree[p]), [ino EXCEPT ![tree[p]].nlink = @ + 1], opened, want)
     ELSE Fails
  /\ UNCHANGED next_inode
check_rename_replacement(p, q) ==
  IF IsDir(tree, p) THEN IsDir(tree, q) /\ Entries(tree, q) = {} ELSE ~IsDir(tree, q)
Replaced(i, t, q) == IF Ram /\ q \in DOMAIN t THEN drop_link(i, t[q]) ELSE i
rename(p, q) ==
  /\ p # Root /\ q # Root /\ p \in DOMAIN tree
  /\ \A r \in Under(tree, p) : Len(q) + (Len(r) - Len(p)) <= MaxDepth
  /\ UNCHANGED next_inode
  /\ IF \/ Len(q) > Len(p) /\ IsPrefix(p, q)
        \/ q \in DOMAIN tree /\ (tree[q] = tree[p] \/ ~check_rename_replacement(p, q))
     THEN Fails
     ELSE LET taken == Without(tree, p)
          IN IF parent_of(taken, q)
             THEN Commit(Grafted(Without(taken, q), tree, p, q), Replaced(ino, taken, q), opened, want)
             ELSE Commit(Grafted(taken, tree, p, p), ino, opened, want)

-----------------------------------------------------------------------------
(* Attributes.                                                               *)
chmod(p, m) == p \in DOMAIN tree /\ Commit(tree, [ino EXCEPT ![tree[p]].mode = m], opened, want) /\ UNCHANGED next_inode
chown(p, u) == p \in DOMAIN tree /\ Commit(tree, [ino EXCEPT ![tree[p]].uid = u], opened, want) /\ UNCHANGED next_inode
OldLen(n) == Max({0, ino[n].xattr})
setxattr(p, len) ==
  /\ p \in DOMAIN tree
  /\ IF Ram /\ ~ensure_capacity_delta(OldLen(tree[p]), len) THEN Fails
     ELSE Commit(tree, [ino EXCEPT ![tree[p]].xattr = len], opened, want)
  /\ UNCHANGED next_inode
removexattr(p) ==
  /\ p \in DOMAIN tree /\ ino[tree[p]].xattr >= 0
  /\ Commit(tree, [ino EXCEPT ![tree[p]].xattr = -1], opened, want)
  /\ UNCHANGED next_inode

On(op) == op \in ROps
OpenOps == \/ On("open") /\ Ram /\ \E p \in Paths : open_node(p)
           \/ On("open") /\ \E n \in DOMAIN opened : close_node(n)
           \/ On("tmpfile") /\ Ram /\ \E p \in Paths : create_tmpfile_node(p)
           \/ On("tmpfile") /\ \E n \in DOMAIN opened, p \in Paths : link_node(n, p)
DataOps == \/ /\ On("write")
              /\ \E n \in Live(tree, opened), off \in Offsets, data \in Datas : write_range(n, off, data)
           \/ On("truncate") /\ \E n \in Live(tree, opened), len \in 0..MaxLen : truncate_to(n, len)
           \/ On("put") /\ \E p \in Paths, data \in Datas : write_regular_file(p, data)
           \/ On("put") /\ \E p \in Paths, data \in Datas : tmp_write_regular_file(p, data)
NameOps == \/ On("unlink") /\ \E p \in Paths : unlink(p)
           \/ On("rmdir") /\ \E p \in Paths : rmdir(p)
           \/ On("mkdir") /\ \E p \in Paths : mkdir(p)
           \/ On("symlink") /\ \E p \in Paths, b \in 1..PageSize : symlink(p, b)
           \/ On("mknod") /\ \E p \in Paths : mknod(p)
           \/ On("link") /\ \E p, q \in Paths : hardlink(p, q)
           \/ On("rename") /\ \E p, q \in Paths : rename(p, q)
AttrOps == \/ On("attr") /\ \E p \in Paths, m \in {0, 1} : chmod(p, m)
           \/ On("attr") /\ \E p \in Paths, u \in {0, 1} : chown(p, u)
           \/ On("xattr") /\ \E p \in Paths, len \in 0..PageSize : setxattr(p, len)
           \/ On("xattr") /\ \E p \in Paths : removexattr(p)
FsNext == OpenOps \/ DataOps \/ NameOps \/ AttrOps
FsSpec == FsInit /\ [][FsNext]_fsvars

-----------------------------------------------------------------------------
(* Types; every name is in a directory that exists, an inode lives while       *)
(* something refers to it.                                                     *)
FsTypeOK ==
  /\ DOMAIN tree \subseteq Paths /\ Root \in DOMAIN tree
  /\ \A p \in DOMAIN tree \ {Root} : IsDir(tree, Front(p))
  /\ DOMAIN ino = Live(tree, opened) /\ DOMAIN want = DOMAIN ino
  /\ \A n \in DOMAIN opened : opened[n] \in 1..MaxRefs
  /\ \A n \in DOMAIN ino : /\ ino[n].kind \in {"dir", "file", "symlink", "special"} /\ n < next_inode
                           /\ ino[n].nlink \in Nat /\ ino[n].xattr \in -1..PageSize

(* operations.rs drop_link, hardlink, link_node, rename: the link count of an   *)
(* inode is the number of its names, whatever was replaced, linked again from   *)
(* an open node or unlinked meanwhile; a directory has one name.                *)
LinksExact ==
  \A n \in DOMAIN ino :
    LET names == Cardinality({p \in DOMAIN tree : tree[p] = n})
    IN IF ino[n].kind = "dir" THEN names <= 1 ELSE Ram => ino[n].nlink = names

(* tree.rs SparseFile: reading gives what was written byte by byte, holes are    *)
(* zero, also after a shrink and a growth; no page of zeroes and no page behind *)
(* the end stays resident.                                                     *)
ContentsExact ==
  \A n \in DOMAIN ino : ino[n].kind = "file" =>
    /\ ino[n].file.len = Len(want[n])
    /\ Ram => /\ read_at(ino[n].file, 0, MaxLen) = want[n]
              /\ \A off \in 1..MaxLen : read_at(ino[n].file, off, 2) = SubSeq(want[n], off + 1, Min({off + 2, Len(want[n])}))
              /\ \A k \in DOMAIN ino[n].file.pages : ino[n].file.pages[k] # Zero /\ k * PageSize < ino[n].file.len

(* operations.rs rename, rmdir, unlink: one step takes the last name from one    *)
(* file or empty directory at most; a directory that goes takes only its       *)
(* control files with it.                                                     *)
LastNames == Linked(tree) \ Linked(tree')
LosesLittle ==
  \/ Cardinality(LastNames) <= 1
  \/ \E p \in DOMAIN tree : /\ tree[p] \in LastNames /\ IsDir(tree, p)
                            /\ \A q \in DOMAIN tree : tree[q] \in LastNames \ {tree[p]} =>
                                 /\ Len(q) = Len(p) + 1 /\ IsPrefix(p, q) /\ Last(q) \in Control
                                 /\ ino[tree[q]].kind = "file"
NoSubtreeLost == [][LosesLittle]_fsvars

(* tree.rs limit_bytes: "配置的最大计费字节数".  It does not hold when a file that  *)
(* is open is written whole: ensure_capacity_replace counts its pages as free.  *)
UsedWithinLimit == Ram => used_bytes(tree, ino, opened) <= Limit
=============================================================================
