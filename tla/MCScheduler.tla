---------------------------- MODULE MCScheduler ----------------------------
(***************************************************************************)
(* Small instances of Scheduler for TLC.                                   *)
(***************************************************************************)
EXTENDS Scheduler, TLC

AnyMask == SUBSET CPU \ {{}}
Symmetry == Permutations(Task)
=============================================================================
