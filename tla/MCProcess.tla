----------------------------- MODULE MCProcess -----------------------------
(***************************************************************************)
(* The process components for TLC: process registry, signals and timers.      *)
(* They share no state in the models, so a behaviour runs one of them, the    *)
(* one that focus names, with one of the sets of calls below; TLC explores    *)
(* the sum of the instances and not their product.  The module extends Process, *)
(* Signals and Timers, so that the properties and the theorems speak of the    *)
(* same definitions; other sets of calls are instances.                       *)
(***************************************************************************)
EXTENDS Process, Signals, Timers

VARIABLE focus
allVars == <<focus, vars, svars, tvars>>

Threads  == INSTANCE Process WITH Ops <- {"fork", "thread", "exec", "exit", "wait", "vfork",
                                          "subreaper", "pdeath", "reapall", "nowait"}
Groups   == INSTANCE Process WITH Ops <- {"fork", "thread", "exitgroup", "wait", "abort",
                                          "cloneparent", "session", "pdeath"}
Job      == INSTANCE Signals WITH Sig <- {9, 18, 20}, SigOps <- {"kill", "suspend", "action"}
Two      == INSTANCE Signals WITH Thread <- {1, 2}, SigOps <- {"kill", "sigwait", "tkill"}
Others   == INSTANCE Timers WITH TProc <- {1}, TCpu <- {1}, TimerId <- {1}, MaxNow <- 3,
              MaxSpan <- 2, MaxGen <- 1, TOps <- {"virtual", "posix"}

MInit ==
  /\ focus \in {"stops", "threads", "groups", "one", "job", "two", "real", "others"}
  /\ Init
  /\ IF focus = "two" THEN Two!SigInit ELSE IF focus = "job" THEN Job!SigInit ELSE SigInit
  /\ IF focus = "others" THEN Others!TmInit ELSE TmInit

MNext ==
  /\ UNCHANGED focus
  /\ \/ /\ \/ focus = "stops" /\ Next
           \/ focus = "threads" /\ Threads!Next
           \/ focus = "groups" /\ Groups!Next
        /\ UNCHANGED <<svars, tvars>>
     \/ /\ \/ focus = "one" /\ SigNext
           \/ focus = "job" /\ Job!SigNext
           \/ focus = "two" /\ Two!SigNext
        /\ UNCHANGED <<vars, tvars>>
     \/ /\ \/ focus = "real" /\ TmNext
           \/ focus = "others" /\ Others!TmNext
        /\ UNCHANGED <<vars, svars>>
MSpec == MInit /\ [][MNext]_allVars

(* Type correctness of the three components.                                 *)
ProcessTypes ==
  /\ TypeOK
  /\ CASE focus = "two" -> Two!SigTypeOK [] focus = "job" -> Job!SigTypeOK [] OTHER -> SigTypeOK
  /\ IF focus = "others" THEN Others!TmTypeOK ELSE TmTypeOK
=============================================================================
