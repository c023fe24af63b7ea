---------------------------- MODULE MCWaitQueues ----------------------------
(***************************************************************************)
(* Small instances of WaitQueues for TLC: lead leads a process, mate is a  *)
(* thread of that process and kid a child process of lead.                 *)
(***************************************************************************)
EXTENDS WaitQueues

CONSTANTS lead, mate, kid

ParentOf == [t \in Task |-> IF t = lead THEN NoTask ELSE lead]
LeaderOf == [t \in Task |-> IF t = mate THEN lead ELSE t]
=============================================================================
