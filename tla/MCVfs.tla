------------------------------- MODULE MCVfs -------------------------------
(***************************************************************************)
(* The file layer for TLC: descriptor tables, file locks and the page cache.    *)
(* A behaviour uses one of them, the one that focus names, with one of the     *)
(* sets of calls below.  The module extends FileLocks, with the constants of    *)
(* "whole", so that its properties and the theorems speak of the same          *)
(* definitions; "split", one process alone, and "both", both kinds of locks on    *)
(* one object, have variables of their own.                                  *)
(***************************************************************************)
EXTENDS FileLocks

VARIABLES focus, reg, call, closed, stable, sobj, slk, cache, files, disk, th, want, excused

fdVars == <<reg, call, closed>>
lockVars == <<lvars, stable, sobj, slk>>
pageVars == <<cache, files, disk, th, want, excused>>
allVars == <<focus, fdVars, lockVars, pageVars>>

Family == INSTANCE FdTable WITH FdTask <- {1, 2, 3}, FirstTask <- 1, Handle <- 1 .. 4, FirstFd <- 1, NoFile <- 2,
            FdOps <- {"share", "fork", "exit", "unshare", "close", "lease"}
Dups   == INSTANCE FdTable WITH FdTask <- {1, 2}, FirstTask <- 1, Handle <- 1 .. 3, FirstFd <- 1, NoFile <- 2,
            FdOps <- {"open", "dup", "dup3", "close", "share", "exit", "setfd", "cloexec"}
Forks  == INSTANCE FdTable WITH FdTask <- {1, 2}, FirstTask <- 1, Handle <- 1 .. 3, FirstFd <- 1, NoFile <- 2,
            FdOps <- {"open", "dup3", "cloexec", "fork", "lease", "range"}
Spawns == INSTANCE FdTable WITH FdTask <- {1, 2}, FirstTask <- 1, Handle <- 1 .. 4, FirstFd <- 1, NoFile <- 2,
            FdOps <- {"open", "cloexec", "setfd", "spawn", "exit", "getfd"}
Ranges == INSTANCE FileLocks WITH LOwner <- {1}, Obj <- {1}, LOps <- {"posix"}
Mixed  == INSTANCE FileLocks WITH LOwner <- {1}, Top <- 0, LOps <- {"posix", "close", "exit"}
Split  == INSTANCE FileLocks WITH LTask <- {1}, LOwner <- {1}, Obj <- {1}, Top <- 3, LOps <- {"posix"},
            table <- stable, obj <- sobj, lk <- slk
Both   == INSTANCE FileLocks WITH LOwner <- {1}, Obj <- {1}, Top <- 0, LOps <- {"posix", "flock", "close", "exit"},
            table <- stable, obj <- sobj, lk <- slk

Cells  == INSTANCE PageCache WITH PThread <- {1}, PFile <- {1}, NPage <- 2, PageSize <- 2, NSlot <- 1, MaxVersion <- 2,
            PathKeyed <- FALSE, POps <- {"open", "read", "write", "flush", "truncate"}
Faults == INSTANCE PageCache WITH PThread <- {1}, PFile <- {1, 2}, NPage <- 2, PageSize <- 1, NSlot <- 1, MaxVersion <- 2,
            PathKeyed <- FALSE, POps <- {"open", "write", "flush", "close", "fail", "reset"}
Paths  == INSTANCE PageCache WITH PThread <- {1}, PFile <- {1, 2}, NPage <- 1, PageSize <- 1, NSlot <- 1, MaxVersion <- 2,
            PathKeyed <- TRUE, POps <- {"open", "read", "write", "truncate", "close", "rename", "overwrite"}
Pair   == INSTANCE PageCache WITH PThread <- {1, 2}, PFile <- {1}, NPage <- 2, PageSize <- 1, NSlot <- 1, MaxVersion <- 2,
            PathKeyed <- FALSE, POps <- {"open", "write", "flush", "close"}

OfFds   == {"family", "dups", "forks", "spawns"}
OfLocks == {"whole", "ranges", "mixed", "split", "both"}
OfPages == {"cells", "faults", "paths", "pair"}
Init ==
  /\ focus \in OfFds \cup OfLocks \cup OfPages
  /\ CASE focus = "family" -> Family!FdInit [] focus = "spawns" -> Spawns!FdInit
       [] focus \in {"dups", "forks"} -> Dups!FdInit
       [] OTHER -> reg = "unused" /\ call = "unused" /\ closed = "unused"
  /\ LInit
  /\ CASE focus = "split" -> Split!LInit [] focus = "both" -> Both!LInit
       [] OTHER -> stable = "unused" /\ sobj = "unused" /\ slk = "unused"
  /\ CASE focus = "faults" -> Faults!PcInit [] focus = "paths" -> Paths!PcInit
       [] focus = "pair" -> Pair!PcInit [] focus = "cells" -> Cells!PcInit
       [] OTHER -> /\ cache = "unused" /\ files = "unused" /\ disk = "unused"
                   /\ th = "unused" /\ want = "unused" /\ excused = "unused"

FdNext == \/ focus = "family" /\ Family!FdNext
          \/ focus = "dups" /\ Dups!FdNext
          \/ focus = "forks" /\ Forks!FdNext
          \/ focus = "spawns" /\ Spawns!FdNext
LockNext == \/ /\ \/ focus = "whole" /\ LNext
                  \/ focus = "ranges" /\ Ranges!LNext
                  \/ focus = "mixed" /\ Mixed!LNext
               /\ UNCHANGED <<stable, sobj, slk>>
            \/ /\ \/ focus = "split" /\ Split!LNext
                  \/ focus = "both" /\ Both!LNext
               /\ UNCHANGED lvars
PageNext == \/ focus = "cells" /\ Cells!PcNext
            \/ focus = "faults" /\ Faults!PcNext
            \/ focus = "paths" /\ Paths!PcNext
            \/ focus = "pair" /\ Pair!PcNext
Next ==
  /\ UNCHANGED focus
  /\ \/ FdNext /\ UNCHANGED <<lockVars, pageVars>>
     \/ LockNext /\ UNCHANGED <<fdVars, pageVars>>
     \/ PageNext /\ UNCHANGED <<fdVars, lockVars>>
Spec == Init /\ [][Next]_allVars

-----------------------------------------------------------------------------
(* Type correctness of the components.                                       *)
VfsTypes ==
  /\ CASE focus = "family" -> Family!FdTypeOK [] focus = "spawns" -> Spawns!FdTypeOK
       [] focus \in {"dups", "forks"} -> Dups!FdTypeOK
       [] focus = "split" -> Split!LTypeOK [] focus = "both" -> Both!LTypeOK
       [] focus = "faults" -> Faults!PcTypeOK [] focus = "paths" -> Paths!PcTypeOK
       [] focus = "pair" -> Pair!PcTypeOK [] focus = "cells" -> Cells!PcTypeOK
       [] OTHER -> TRUE
  /\ LTypeOK

(* FdTable: a table lives as long as a task uses it, its free list and its      *)
(* count agree with its slots, and no description is closed while a slot, a    *)
(* lease or a fork refers to it.                                              *)
DescriptorsAccounted ==
  focus \in OfFds =>
    CASE focus = "family" -> Family!TablesOwned /\ Family!IndexAgrees /\ Family!NeverClosedInUse
      [] focus = "spawns" -> Spawns!TablesOwned /\ Spawns!IndexAgrees /\ Spawns!NeverClosedInUse
      [] OTHER -> Dups!TablesOwned /\ Dups!IndexAgrees /\ Dups!NeverClosedInUse
(* FdTable: what a step does to the table of one task it does to no table of a *)
(* task that does not share it.  FileLocks: a record lock call changes its own  *)
(* process's locks on its own range only, however ranges are split, and a       *)
(* granted flock the lock of its own description; where the locks have          *)
(* variables of their own, LocksExclusive is asserted here.                    *)
OnlyOwnChanges ==
  [][/\ (focus \in OfFds) =>
          (CASE focus = "family" -> Family!OwnTableOnly [] focus = "spawns" -> Spawns!OwnTableOnly
             [] OTHER -> Dups!OwnTableOnly)
     /\ (focus \in OfLocks) =>
          (CASE focus = "split" -> Split!OwnLocksOnly /\ Split!LocksExclusive'
             [] focus = "both" -> Both!OwnLocksOnly /\ Both!LocksExclusive'
             [] focus = "mixed" -> Mixed!OwnLocksOnly [] OTHER -> OwnLocksOnly)]_allVars
(* PageCache: no slot of the pool is lost or in two places, a dirty page is      *)
(* where the next flush finds it; with one thread a read returns the last write *)
(* whatever was evicted, flushed, failed or renamed, and a clean page is on the *)
(* disk.                                                                      *)
PagesSound ==
  focus \in OfPages =>
    CASE focus = "pair" -> Pair!SlotsAccounted /\ Pair!DirtyTracked
      [] focus = "faults" -> /\ Faults!SlotsAccounted /\ Faults!DirtyTracked
                             /\ Faults!LastWriteSeen /\ Faults!CleanIsOnDisk
      [] focus = "paths" -> /\ Paths!SlotsAccounted /\ Paths!DirtyTracked
                            /\ Paths!LastWriteSeen /\ Paths!CleanIsOnDisk
      [] OTHER -> /\ Cells!SlotsAccounted /\ Cells!DirtyTracked
                  /\ Cells!LastWriteSeen /\ Cells!CleanIsOnDisk
=============================================================================
