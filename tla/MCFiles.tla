------------------------------ MODULE MCFiles ------------------------------
(***************************************************************************)
(* Files and names for TLC: reads, writes and transfers, the mount tables, and   *)
(* the file systems in memory.                                               *)
(* A behaviour uses one component, the one that focus names, with one of the   *)
(* sets of calls below.                                                       *)
(***************************************************************************)
EXTENDS Integers, FiniteSets, Sequences

VARIABLES focus, inode, ofd, pipe, fth, got, put, reg, boot, next_id, life, mth, writing,
          tree, ino, opened, next_inode, want

ioVars == <<inode, ofd, pipe, fth, got, put>>
mountVars == <<reg, boot, next_id, life, mth, writing>>
ramVars == <<tree, ino, opened, next_inode, want>>
allVars == <<focus, ioVars, mountVars, ramVars>>

Share   == INSTANCE FileIo WITH th <- fth, FTask <- {1, 2}, Ofd <- {"a"}, Pip <- {"p"}, Inode <- {1},
             InodeOf <- [a |-> 1], Content <- <<1, 2>>, Queued <- <<>>, Cap <- 1, Chunk <- 1, MaxSize <- 2,
             Into <- {"p"}, FOps <- {"read", "send", "close", "signal", "fault"}
Appends == INSTANCE FileIo WITH th <- fth, FTask <- {1, 2}, Ofd <- {"a"}, Pip <- {}, Inode <- {1},
             InodeOf <- [a |-> 1], Content <- <<1>>, Queued <- <<>>, Cap <- 2, Chunk <- 1, MaxSize <- 3,
             Into <- {"a"}, FOps <- {"write", "append", "seal", "map", "result"}
Copies  == INSTANCE FileIo WITH th <- fth, FTask <- {1}, Ofd <- {"a", "b"}, Pip <- {}, Inode <- {1, 2},
             InodeOf <- [a |-> 1, b |-> 2], Content <- <<1, 2>>, Queued <- <<>>, Cap <- 1, Chunk <- 1, MaxSize <- 2,
             Into <- {"b"}, FOps <- {"copy", "current", "result"}
Pipes   == INSTANCE FileIo WITH th <- fth, FTask <- {1, 2}, Ofd <- {}, Pip <- {"p", "q"}, Inode <- {},
             InodeOf <- <<>>, Content <- <<>>, Queued <- <<2>>, Cap <- 1, Chunk <- 1, MaxSize <- 2,
             Into <- {"q"}, FOps <- {"splice", "tee", "close", "signal"}
Vectors == INSTANCE FileIo WITH th <- fth, FTask <- {1}, Ofd <- {"a"}, Pip <- {"q"}, Inode <- {1},
             InodeOf <- [a |-> 1], Content <- <<1, 2, 3>>, Queued <- <<2>>, Cap <- 2, Chunk <- 2, MaxSize <- 3,
             Into <- {"q"}, FOps <- {"preadv", "vmsplice", "vec", "v2", "nonblock", "read", "result", "feed"}
Moves   == INSTANCE FileIo WITH th <- fth, FTask <- {1}, Ofd <- {"a"}, Pip <- {"p"}, Inode <- {1},
             InodeOf <- [a |-> 1], Content <- <<1>>, Queued <- <<2>>, Cap <- 1, Chunk <- 1, MaxSize <- 2,
             Into <- {"a", "p"}, FOps <- {"splice", "current", "sendat", "read", "setfl", "oom"}
Seals   == INSTANCE FileIo WITH th <- fth, FTask <- {1}, Ofd <- {"a"}, Pip <- {}, Inode <- {1},
             InodeOf <- [a |-> 1], Content <- <<1>>, Queued <- <<>>, Cap <- 2, Chunk <- 2, MaxSize <- 2,
             Into <- {"a"}, FOps <- {"pwrite", "pwritev", "v2", "write", "vec", "seek", "truncate", "fallocate", "sendat", "seal"}

DirA == <<"/", "a">>
DirB == <<"/", "b">>
DirC == <<"/", "a", "/", "b">>
Spaces == INSTANCE Mounts WITH th <- mth, MTask <- {1, 2, 3, 4}, FirstTask <- 1, Dir <- {DirA}, SubDir <- {},
            MaxMount <- 2, BindChainLimit <- 2, MOps <- {"clone", "unshare", "exit", "cgroup", "umount"}
Tables == INSTANCE Mounts WITH th <- mth, MTask <- {1}, FirstTask <- 1, Dir <- {DirA, DirC, DirB}, SubDir <- {DirB},
            MaxMount <- 3, BindChainLimit <- 3,
            MOps <- {"mount", "bind", "umount", "propagation", "remount", "write", "boot"}
Trees  == INSTANCE Mounts WITH th <- mth, MTask <- {1, 2}, FirstTask <- 1, Dir <- {DirA, DirB}, SubDir <- {},
            MaxMount <- 3, BindChainLimit <- 2, MOps <- {"clone", "tmpfs", "bind", "umount", "remount", "write", "move"}

Sparse  == INSTANCE RamFs WITH Name <- {"a", "b"}, MaxDepth <- 1, PageSize <- 2, MaxLen <- 4, Datas <- {<<1>>, <<0>>, <<0, 0>>, <<1, 1>>, <<0, 1, 1>>},
            Offsets <- {0, 1, 3}, Limit <- 4, MaxInode <- 3, MaxRefs <- 1, Cgroup <- FALSE,
            RootControl <- <<>>, ChildControl <- <<>>, ROps <- {"put", "write", "truncate", "oom"}
Names   == INSTANCE RamFs WITH Name <- {"a", "b"}, MaxDepth <- 2, PageSize <- 2, MaxLen <- 2, Datas <- {<<1>>},
            Offsets <- {0}, Limit <- 4, MaxInode <- 5, MaxRefs <- 1, Cgroup <- FALSE,
            RootControl <- <<>>, ChildControl <- <<>>, ROps <- {"mkdir", "rmdir", "rename", "link", "unlink", "mknod"}
Nodes   == INSTANCE RamFs WITH Name <- {"a", "b"}, MaxDepth <- 1, PageSize <- 2, MaxLen <- 2, Datas <- {<<>>, <<1>>},
            Offsets <- {0}, Limit <- 2, MaxInode <- 4, MaxRefs <- 2, Cgroup <- FALSE,
            RootControl <- <<>>, ChildControl <- <<>>, ROps <- {"symlink", "open", "tmpfile", "unlink", "link", "write", "rename"}
Attrs   == INSTANCE RamFs WITH Name <- {"a", "b"}, MaxDepth <- 1, PageSize <- 2, MaxLen <- 2, Datas <- {<<1>>, <<0>>},
            Offsets <- {0}, Limit <- 3, MaxInode <- 3, MaxRefs <- 1, Cgroup <- FALSE,
            RootControl <- <<>>, ChildControl <- <<>>, ROps <- {"put", "write", "xattr", "attr", "unlink"}
Groups  == INSTANCE RamFs WITH Name <- {"a", "b"}, MaxDepth <- 2, PageSize <- 2, MaxLen <- 1, Datas <- {<<1>>},
            Offsets <- {0}, Limit <- 2, MaxInode <- 7, MaxRefs <- 2, Cgroup <- TRUE,
            RootControl <- <<"a">>, ChildControl <- <<"a">>, ROps <- {"mkdir", "unlink", "write", "truncate", "rmdir"}
Seeded  == INSTANCE RamFs WITH Name <- {"a", "b"}, MaxDepth <- 2, PageSize <- 2, MaxLen <- 1, Datas <- {<<1>>},
            Offsets <- {0}, Limit <- 2, MaxInode <- 7, MaxRefs <- 2, Cgroup <- TRUE,
            RootControl <- <<"a">>, ChildControl <- <<"b">>, ROps <- {"mkdir", "rmdir", "put"}

OfIo == {"share", "appends", "copies", "pipes", "vectors", "moves", "seals"}
OfMounts == {"spaces", "tables", "trees"}
OfRam == {"sparse", "names", "nodes", "attrs", "groups", "seeded"}
Init ==
  /\ focus \in OfIo \cup OfMounts \cup OfRam
  /\ CASE focus = "share" -> Share!FInit [] focus = "appends" -> Appends!FInit
       [] focus = "copies" -> Copies!FInit [] focus = "pipes" -> Pipes!FInit
       [] focus = "vectors" -> Vectors!FInit [] focus = "moves" -> Moves!FInit [] focus = "seals" -> Seals!FInit
       [] OTHER -> /\ inode = "unused" /\ ofd = "unused" /\ pipe = "unused"
                   /\ fth = "unused" /\ got = "unused" /\ put = "unused"
  /\ CASE focus = "spaces" -> Spaces!MInit [] focus = "tables" -> Tables!MInit [] focus = "trees" -> Trees!MInit
       [] OTHER -> /\ reg = "unused" /\ boot = "unused" /\ next_id = "unused"
                   /\ life = "unused" /\ mth = "unused" /\ writing = "unused"
  /\ CASE focus \in {"sparse", "names", "nodes", "attrs"} -> Sparse!FsInit
       [] focus = "groups" -> Groups!FsInit [] focus = "seeded" -> Seeded!FsInit
       [] OTHER -> /\ tree = "unused" /\ ino = "unused" /\ opened = "unused"
                   /\ next_inode = "unused" /\ want = "unused"

IoNext == \/ focus = "share" /\ Share!FNext
          \/ focus = "appends" /\ Appends!FNext
          \/ focus = "copies" /\ Copies!FNext
          \/ focus = "pipes" /\ Pipes!FNext
          \/ focus = "vectors" /\ Vectors!FNext
          \/ focus = "moves" /\ Moves!FNext
          \/ focus = "seals" /\ Seals!FNext
MountNext == \/ focus = "spaces" /\ Spaces!MNext
             \/ focus = "tables" /\ Tables!MNext
             \/ focus = "trees" /\ Trees!MNext
RamNext == \/ focus = "sparse" /\ Sparse!FsNext
           \/ focus = "names" /\ Names!FsNext
           \/ focus = "nodes" /\ Nodes!FsNext
           \/ focus = "attrs" /\ Attrs!FsNext
           \/ focus = "groups" /\ Groups!FsNext
           \/ focus = "seeded" /\ Seeded!FsNext
Next ==
  /\ UNCHANGED focus
  /\ \/ IoNext /\ UNCHANGED <<mountVars, ramVars>>
     \/ MountNext /\ UNCHANGED <<ioVars, ramVars>>
     \/ RamNext /\ UNCHANGED <<ioVars, mountVars>>
Spec == Init /\ [][Next]_allVars

-----------------------------------------------------------------------------
(* Type correctness of the components.                                       *)
FileTypes ==
  CASE focus = "share" -> Share!FTypeOK [] focus = "appends" -> Appends!FTypeOK
    [] focus = "copies" -> Copies!FTypeOK [] focus = "pipes" -> Pipes!FTypeOK
    [] focus = "vectors" -> Vectors!FTypeOK [] focus = "moves" -> Moves!FTypeOK [] focus = "seals" -> Seals!FTypeOK
    [] focus = "spaces" -> Spaces!MTypeOK [] focus = "tables" -> Tables!MTypeOK [] focus = "trees" -> Trees!MTypeOK
    [] focus = "sparse" -> Sparse!FsTypeOK [] focus = "names" -> Names!FsTypeOK [] focus = "nodes" -> Nodes!FsTypeOK
    [] focus = "attrs" -> Attrs!FsTypeOK [] focus = "groups" -> Groups!FsTypeOK [] OTHER -> Seeded!FsTypeOK

(* FileIo: leases end with their calls, pipes and files neither lose nor repeat *)
(* bytes whatever a transfer, a scattered read or an append meets on the way.  *)
TransfersSound ==
  focus \in OfIo =>
    CASE focus = "share" -> Share!LeasesEnd /\ Share!PipesConserved /\ Share!ReadsInOrder
      [] focus = "appends" -> Appends!LeasesEnd /\ Appends!AppendsKept
      [] focus = "copies" -> Copies!LeasesEnd /\ Copies!TransfersExact
      [] focus = "pipes" -> Pipes!LeasesEnd /\ Pipes!PipesConserved
      [] focus = "vectors" -> Vectors!LeasesEnd /\ Vectors!VectorsExact
      [] focus = "moves" -> Moves!LeasesEnd
      [] OTHER -> Seals!LeasesEnd
(* Mounts: a namespace lives as long as its tasks, no two mounts share a mount   *)
(* point, and nothing is opened for writing on a read-only volume.  RamFs: link *)
(* counts are the numbers of names, files hold what was written with no page    *)
(* too many, and no more is resident than the limit of the mount.               *)
NamesSound ==
  /\ focus \in OfMounts =>
       CASE focus = "spaces" -> Spaces!TablesCounted /\ Spaces!PointsUnique
         [] focus = "tables" -> Tables!TablesCounted /\ Tables!PointsUnique /\ Tables!ReadOnlyHolds
         [] OTHER -> Trees!TablesCounted /\ Trees!ReadOnlyHolds
  /\ focus \in OfRam =>
       CASE focus = "sparse" -> Sparse!ContentsExact /\ Sparse!LinksExact /\ Sparse!UsedWithinLimit
         [] focus = "names" -> Names!LinksExact
         [] focus = "nodes" -> Nodes!LinksExact /\ Nodes!ContentsExact /\ Nodes!UsedWithinLimit
         [] focus = "attrs" -> Attrs!LinksExact /\ Attrs!ContentsExact /\ Attrs!UsedWithinLimit
         [] focus = "groups" -> Groups!ContentsExact
         [] OTHER -> Seeded!ContentsExact
(* FileIo::SealsHold and Mounts::MountsIsolated: no call changes what the seals  *)
(* of a file forbid, or the mounts of a task that does not share its namespace;  *)
(* no step takes the names of a whole subtree of a file system in memory.       *)
NothingElseChanges ==
  [][/\ focus \in {"appends", "seals"} => (IF focus = "seals" THEN Seals!KeepsSeals ELSE Appends!KeepsSeals)
     /\ focus \in OfMounts =>
          (CASE focus = "spaces" -> Spaces!OneViewChanges /\ Spaces!MembersKept
             [] focus = "tables" -> Tables!OneViewChanges /\ Tables!MembersKept
             [] OTHER -> Trees!OneViewChanges /\ Trees!MembersKept)
     /\ focus = "names" => Names!LosesLittle
     /\ focus = "nodes" => Nodes!LosesLittle
     /\ focus = "groups" => Groups!LosesLittle
     /\ focus = "seeded" => Seeded!LosesLittle]_allVars
=============================================================================
