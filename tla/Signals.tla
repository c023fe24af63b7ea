------------------------------- MODULE Signals -------------------------------
(***************************************************************************)
(* Signals of one process: SignalRegistry (pending sets, masks, actions),   *)
(* the handlers of sigaction, sigprocmask, sigsuspend, sigtimedwait, kill   *)
(* and tkill, the dispatch that follows a send, and the delivery on the way *)
(* back to user space.  The registry only changes signal state; its caller  *)
(* acts on the result after the registry's lock is released, so a send is   *)
(* two steps and a delivery sees whatever happened in between.              *)
(***************************************************************************)
EXTENDS Integers, Sequences, FiniteSets, FiniteSetsExt

CONSTANTS Thread,     \* the threads, named by their thread ids
          Sig,        \* the signal numbers in use
          SigOps,     \* the calls user code makes in this instance
          MaxFrames   \* bound: nested handlers

SIGKILL == 9
SIGCHLD == 17
SIGCONT == 18
default_ignored == {SIGCHLD}
default_stops == {20}
default_terminates == Sig \ (default_ignored \cup default_stops \cup {SIGCONT})
Masks == SUBSET (Sig \ {SIGKILL})
None == {0}         \* no saved mask, no awaited set

ASSUME SigAssumption == Sig \subseteq Nat \ {0} /\ MaxFrames \in Nat

VARIABLES pend,     \* pending of each thread
          ppend,    \* pending of the process
          mask, restore, waiting, frames, base, action, spc, pstate, flight
svars == <<pend, ppend, mask, restore, waiting, frames, base, action, spc, pstate, flight>>

SigPCs == {"user", "trap", "susp", "suspblk", "suspend", "wait", "waitblk", "woken",
        "stopblk", "manual", "dead"}
Idle == [kind |-> "none", sig |-> 0, to |-> {}]

SigTypeOK ==
  /\ pend \in [Thread -> SUBSET Sig] /\ ppend \in SUBSET Sig
  /\ mask \in [Thread -> Masks] /\ base \in [Thread -> Masks]
  /\ restore \in [Thread -> Masks \cup {None}]
  /\ waiting \in [Thread -> (SUBSET Sig) \cup {None}]
  /\ frames \in [Thread -> Seq(Masks)] /\ \A t \in Thread : Len(frames[t]) <= MaxFrames
  /\ action \in [Sig -> {"dfl", "ign", "hnd", "once"}]
  /\ spc \in [Thread -> SigPCs] /\ pstate \in {"run", "stop", "dead"}
  /\ flight \in [kind: {"none", "pending", "stop", "cont"}, sig: Sig \cup {0}, to: SUBSET Thread]

SigInit ==
  /\ pend = [t \in Thread |-> {}] /\ ppend = {}
  /\ mask = [t \in Thread |-> {}] /\ base = [t \in Thread |-> {}]
  /\ restore = [t \in Thread |-> None] /\ waiting = [t \in Thread |-> None]
  /\ frames = [t \in Thread |-> <<>>]
  /\ action = [s \in Sig |-> "dfl"]
  /\ spc = [t \in Thread |-> "user"] /\ pstate = "run" /\ flight = Idle

has_user_handler(s) == action[s] \in {"hnd", "once"}
Deliverable(t) == (pend[t] \cup ppend) \ mask[t]
has_deliverable(t) == Deliverable(t) # {}
Blocked(t) == spc[t] \in {"suspblk", "waitblk", "manual"}
SigUser(t, op) == op \in SigOps /\ spc[t] = "user" /\ pstate # "dead"
RegistryOnly == UNCHANGED <<spc, pstate, flight>>

-----------------------------------------------------------------------------
(* rt_sigaction: ignoring a signal also discards it wherever it is pending. *)
set_action(s, a) ==
  /\ action' = [action EXCEPT ![s] = a]
  /\ ppend' = IF a = "ign" THEN ppend \ {s} ELSE ppend
  /\ pend' = [u \in Thread |-> IF a = "ign" THEN pend[u] \ {s} ELSE pend[u]]
sys_rt_sigaction(t, s, a) ==
  /\ SigUser(t, "action") /\ s # SIGKILL /\ set_action(s, a)
  /\ RegistryOnly /\ UNCHANGED <<mask, restore, waiting, frames, base>>

(* rt_sigprocmask: SIGKILL is taken out of whatever user space asks for. *)
update_mask(t, m) == mask' = [mask EXCEPT ![t] = m \ {SIGKILL}]
sys_rt_sigprocmask(t, m) ==
  /\ SigUser(t, "mask") /\ update_mask(t, m)
  /\ base' = [base EXCEPT ![t] = IF frames[t] = <<>> THEN m \ {SIGKILL} ELSE base[t]]
  /\ spc' = [spc EXCEPT ![t] = "trap"]
  /\ UNCHANGED <<pend, ppend, restore, waiting, frames, action, pstate, flight>>

-----------------------------------------------------------------------------
(* Sending.  generation_delivery decides what the send is: an explicit       *)
(* SIG_IGN drops it, SIGCONT continues, the rest becomes pending.           *)
generation_delivery(s) == IF action[s] = "ign" THEN "ignored"
                          ELSE IF s = SIGCONT THEN "cont" ELSE "pending"
pending_should_wake_unmasked(t, s) == s \notin mask[t] /\ ~(action[s] = "dfl" /\ s \in default_ignored)
pending_should_wake(t, s) ==
  \/ waiting[t] # None /\ s \in waiting[t]
  \/ s \notin mask[t] /\ ~(action[s] = "dfl" /\ s \in default_ignored)

CanSend(op) == op \in SigOps /\ flight = Idle /\ pstate # "dead"

(* kill: pending on the process; the first thread it could interrupt is      *)
(* dispatched to, then every member that could take it.                     *)
send_process(s) ==
  /\ generation_delivery(s) # "ignored"
  /\ ppend' = IF generation_delivery(s) = "pending" \/ has_user_handler(s)
              THEN ppend \cup {s} ELSE ppend
  /\ flight' = [kind |-> generation_delivery(s), sig |-> s, to |-> Thread]
sys_kill(s) ==
  /\ CanSend("kill") /\ send_process(s)
  /\ UNCHANGED <<pend, mask, restore, waiting, frames, base, action, spc, pstate>>

(* tkill: pending on the thread, which is dispatched to only if it would     *)
(* wake for it.                                                              *)
send_thread(t, s) ==
  /\ generation_delivery(s) # "ignored"
  /\ pend' = IF generation_delivery(s) = "pending" \/ has_user_handler(s)
             THEN [pend EXCEPT ![t] = @ \cup {s}] ELSE pend
  /\ flight' = [kind |-> generation_delivery(s), sig |-> s,
                to |-> IF generation_delivery(s) = "cont" \/ pending_should_wake(t, s)
                       THEN {t} ELSE {}]
sys_tkill(t, s) ==
  /\ CanSend("tkill") /\ send_thread(t, s)
  /\ UNCHANGED <<ppend, mask, restore, waiting, frames, base, action, spc, pstate>>

(* A CPU exception: masked or ignored, it is reset to its default and forced. *)
force_thread_signal(t, s) ==
  /\ LET forced == s \in mask[t] \/ action[s] = "ign" IN
     /\ action' = IF forced THEN [action EXCEPT ![s] = "dfl"] ELSE action
     /\ mask' = IF forced THEN [mask EXCEPT ![t] = @ \ {s}] ELSE mask
     /\ base' = IF forced /\ frames[t] = <<>> THEN [base EXCEPT ![t] = @ \ {s}] ELSE base
  /\ pend' = [pend EXCEPT ![t] = @ \cup {s}]
  /\ waiting' = [waiting EXCEPT ![t] = None]
raise_current_fault_signal(t, s) ==
  /\ SigUser(t, "fault") /\ s \in default_terminates \ {SIGKILL} /\ force_thread_signal(t, s)
  /\ spc' = [spc EXCEPT ![t] = "trap"]
  /\ UNCHANGED <<ppend, restore, frames, pstate, flight>>

(* apply_signal_dispatch and the loop over the members: interrupt_task pulls *)
(* a blocked thread out of its wait; SIGCONT wakes the stopped ones.        *)
Interrupt(t) == CASE spc[t] = "suspblk" -> "suspend" [] spc[t] = "waitblk" -> "woken"
                  [] spc[t] = "manual" -> "trap" [] OTHER -> spc[t]
apply_signal_dispatch ==
  /\ flight.kind = "pending"
  /\ spc' = [t \in Thread |-> IF t \in flight.to
                                /\ (has_deliverable(t) \/ pending_should_wake(t, flight.sig))
                             THEN Interrupt(t) ELSE spc[t]]
  /\ flight' = Idle
  /\ UNCHANGED <<pend, ppend, mask, restore, waiting, frames, base, action, pstate>>

DispatchContinue ==
  /\ flight.kind = "cont"
  /\ pstate' = IF pstate = "stop" THEN "run" ELSE pstate
  /\ spc' = [t \in Thread |-> IF spc[t] = "manual" /\ pstate = "stop" THEN "trap"
                             ELSE IF t \in flight.to /\ has_deliverable(t) THEN Interrupt(t)
                             ELSE spc[t]]
  /\ flight' = Idle
  /\ UNCHANGED <<pend, ppend, mask, restore, waiting, frames, base, action>>

-----------------------------------------------------------------------------
(* rt_sigsuspend (ppoll and pselect install their mask the same way): swap   *)
(* the mask, block unless something is deliverable, and leave the swapped   *)
(* mask in place if there is something for the return path to take.         *)
begin_sigsuspend(t, m) ==
  /\ SigUser(t, "suspend") /\ restore[t] = None
  /\ restore' = [restore EXCEPT ![t] = mask[t]]
  /\ mask' = [mask EXCEPT ![t] = m \ {SIGKILL}]
  /\ spc' = [spc EXCEPT ![t] = "susp"]
  /\ UNCHANGED <<pend, ppend, waiting, frames, base, action, pstate, flight>>
sys_rt_sigsuspend(t) ==
  /\ spc[t] = "susp"
  /\ spc' = [spc EXCEPT ![t] = IF has_deliverable(t) THEN "suspend" ELSE "suspblk"]
  /\ UNCHANGED <<pend, ppend, mask, restore, waiting, frames, base, action, pstate, flight>>
EndMask(t) == /\ mask' = [mask EXCEPT ![t] = IF restore[t] = None THEN @ ELSE restore[t]]
              /\ restore' = [restore EXCEPT ![t] = None]
end_sigsuspend(t) ==
  /\ spc[t] = "suspend"
  /\ IF has_deliverable(t) THEN UNCHANGED <<mask, restore>> ELSE EndMask(t)
  /\ spc' = [spc EXCEPT ![t] = "trap"]
  /\ UNCHANGED <<pend, ppend, waiting, frames, base, action, pstate, flight>>

(* rt_sigtimedwait: take a signal of the set, else wait for one; the set is  *)
(* published so that a masked or ignored-by-default signal wakes it.        *)
take_pending_record(t, W) ==
  IF pend[t] \cap W # {}
  THEN pend' = [pend EXCEPT ![t] = @ \ {Min(@ \cap W)}] /\ UNCHANGED ppend
  ELSE ppend' = ppend \ {Min(ppend \cap W)} /\ UNCHANGED pend
PendingIn(t, W) == (pend[t] \cup ppend) \cap W # {}

begin_signal_wait(t, W) ==
  /\ SigUser(t, "sigwait")
  /\ IF PendingIn(t, W)
     THEN /\ take_pending_record(t, W) /\ UNCHANGED waiting
          /\ spc' = [spc EXCEPT ![t] = "trap"]
     ELSE /\ waiting' = [waiting EXCEPT ![t] = W] /\ UNCHANGED <<pend, ppend>>
          /\ spc' = [spc EXCEPT ![t] = "wait"]
  /\ UNCHANGED <<mask, restore, frames, base, action, pstate, flight>>
SigwaitBlock(t) ==
  /\ spc[t] = "wait" /\ waiting[t] # None
  /\ spc' = [spc EXCEPT ![t] = IF PendingIn(t, waiting[t]) THEN "woken" ELSE "waitblk"]
  /\ UNCHANGED <<pend, ppend, mask, restore, waiting, frames, base, action, pstate, flight>>
(* Woken or timed out: take what is there; an interruption without it is     *)
(* EINTR, a timeout EAGAIN, and both leave no published set behind.          *)
sys_rt_sigtimedwait(t) ==
  /\ spc[t] \in {"woken", "waitblk"} /\ waiting[t] # None
  /\ waiting' = [waiting EXCEPT ![t] = None]
  /\ IF PendingIn(t, waiting[t]) THEN take_pending_record(t, waiting[t])
     ELSE UNCHANGED <<pend, ppend>>
  /\ spc' = [spc EXCEPT ![t] = "trap"]
  /\ UNCHANGED <<mask, restore, frames, base, action, pstate, flight>>

-----------------------------------------------------------------------------
(* deliver_pending_signal, at every return to user space. *)
Trap(t) ==
  /\ spc[t] = "user" /\ pstate # "dead"
  /\ spc' = [spc EXCEPT ![t] = "trap"]
  /\ UNCHANGED <<pend, ppend, mask, restore, waiting, frames, base, action, pstate, flight>>

(* A stopped process: only SIGKILL gets through, else the thread blocks. *)
take_sigkill(t) == SIGKILL \in pend[t] \cup ppend
BlockStopped(t) ==
  /\ spc[t] = "stopblk"
  /\ spc' = [spc EXCEPT ![t] = "manual"]
  /\ UNCHANGED <<pend, ppend, mask, restore, waiting, frames, base, action, pstate, flight>>
DeliverStopped(t) ==
  /\ spc[t] = "trap" /\ pstate = "stop"
  /\ IF take_sigkill(t)
     THEN /\ pstate' = "dead" /\ spc' = [u \in Thread |-> "dead"]
     ELSE /\ spc' = [spc EXCEPT ![t] = "stopblk"] /\ UNCHANGED pstate
  /\ UNCHANGED <<pend, ppend, mask, restore, waiting, frames, base, action, flight>>

(* take_deliverable: ignored signals are skipped (and consumed), the lowest  *)
(* other one decides.  The mask to go back to is sigsuspend's, if any.       *)
Skipped(t) == {s \in Deliverable(t) : action[s] = "ign"
                                      \/ (action[s] = "dfl" /\ s \in default_ignored)}
Chosen(t) == Min(Deliverable(t) \ Skipped(t))
Eaten(t) == {s \in Skipped(t) : Deliverable(t) = Skipped(t) \/ s < Chosen(t)}
Consume(t, S) == /\ pend' = [pend EXCEPT ![t] = @ \ S]
                 /\ ppend' = ppend \ (S \ pend[t])
previous_mask(t) == IF restore[t] = None THEN mask[t] ELSE restore[t]
Unwait(t) == /\ restore' = [restore EXCEPT ![t] = None]
             /\ waiting' = [waiting EXCEPT ![t] = None]

DeliverNothing(t) ==
  /\ spc[t] = "trap" /\ pstate = "run" /\ Deliverable(t) = Skipped(t)
  /\ Consume(t, Eaten(t))
  /\ IF Skipped(t) = {} THEN UNCHANGED <<mask, restore>> ELSE EndMask(t)
  /\ spc' = [spc EXCEPT ![t] = "user"]
  /\ UNCHANGED <<waiting, frames, base, action, pstate, flight>>

take_deliverable(t) ==
  /\ spc[t] = "trap" /\ pstate = "run" /\ Deliverable(t) # Skipped(t)
  /\ LET s == Chosen(t) IN
     /\ Consume(t, Eaten(t) \cup {s})
     /\ Unwait(t)
     /\ \/ /\ s = SIGKILL \/ (action[s] = "dfl" /\ s \in default_terminates)
           /\ pstate' = "dead" /\ spc' = [u \in Thread |-> "dead"]
           /\ UNCHANGED <<mask, frames, base, action>>
        \/ /\ action[s] = "dfl" /\ s \in default_stops
           /\ mask' = [mask EXCEPT ![t] = previous_mask(t)]
           /\ pstate' = "stop" /\ spc' = [spc EXCEPT ![t] = "stopblk"]
           /\ UNCHANGED <<frames, base, action>>
        \/ /\ s = SIGCONT /\ ~has_user_handler(s)
           /\ mask' = [mask EXCEPT ![t] = previous_mask(t)]
           /\ spc' = [spc EXCEPT ![t] = "user"]
           /\ UNCHANGED <<frames, base, action, pstate>>
        \/ /\ s # SIGKILL /\ has_user_handler(s) /\ Len(frames[t]) < MaxFrames
           /\ mask' = [mask EXCEPT ![t] = @ \cup {s}]
           /\ frames' = [frames EXCEPT ![t] = Append(@, previous_mask(t))]
           /\ action' = IF action[s] = "once" THEN [action EXCEPT ![s] = "dfl"] ELSE action
           /\ spc' = [spc EXCEPT ![t] = "user"]
           /\ UNCHANGED <<base, pstate>>
  /\ UNCHANGED flight

(* rt_sigreturn: the mask comes back from the innermost frame. *)
restore_signal_frame(t) ==
  /\ spc[t] = "user" /\ frames[t] # <<>> /\ pstate # "dead"
  /\ mask' = [mask EXCEPT ![t] = frames[t][Len(frames[t])] \ {SIGKILL}]
  /\ frames' = [frames EXCEPT ![t] = SubSeq(@, 1, Len(@) - 1)]
  /\ spc' = [spc EXCEPT ![t] = "trap"]
  /\ UNCHANGED <<pend, ppend, restore, waiting, base, action, pstate, flight>>

(* execve: caught signals go back to their default, ignored ones stay. *)
exec_process(t) ==
  /\ action' = [s \in Sig |-> IF has_user_handler(s) THEN "dfl" ELSE action[s]]
  /\ frames' = [frames EXCEPT ![t] = <<>>] /\ base' = [base EXCEPT ![t] = mask[t]]
on_exec(t) ==
  /\ SigUser(t, "exec") /\ Thread = {t} /\ exec_process(t)
  /\ RegistryOnly /\ UNCHANGED <<pend, ppend, mask, restore, waiting>>

-----------------------------------------------------------------------------
SigStep(t) ==
  \/ \E s \in Sig, a \in {"dfl", "ign", "hnd", "once"} : sys_rt_sigaction(t, s, a)
  \/ \E m \in Masks : sys_rt_sigprocmask(t, m) \/ begin_sigsuspend(t, m)
  \/ \E s \in Sig : sys_tkill(t, s) \/ raise_current_fault_signal(t, s)
  \/ sys_rt_sigsuspend(t) \/ end_sigsuspend(t)
  \/ \E W \in SUBSET Sig \ {{}} : begin_signal_wait(t, W)
  \/ SigwaitBlock(t) \/ sys_rt_sigtimedwait(t)
  \/ Trap(t) \/ BlockStopped(t) \/ DeliverStopped(t) \/ DeliverNothing(t) \/ take_deliverable(t)
  \/ restore_signal_frame(t) \/ on_exec(t)
SigNext == \/ \E t \in Thread : SigStep(t)
        \/ \E s \in Sig : sys_kill(s)
        \/ apply_signal_dispatch \/ DispatchContinue
SigSpec == SigInit /\ [][SigNext]_svars

-----------------------------------------------------------------------------
(* The temporary mask of sigsuspend never outlives it: a thread that runs     *)
(* user code outside every handler has the mask user space last gave it.     *)
MaskRestored ==
  \A t \in DOMAIN spc : (spc[t] = "user" /\ frames[t] = <<>>) => mask[t] = base[t] /\ restore[t] = None

(* No signal is slept through: a thread blocked in sigsuspend with a signal   *)
(* it could act on, or in sigtimedwait with a signal of its set pending, is  *)
(* about to be dispatched to, or some other thread can still take it.        *)
Taker(s, t) == \E u \in DOMAIN spc \ {t} : s \in ppend /\ ~Blocked(u)
NoSignalSleptThrough ==
  \A t \in DOMAIN spc : \A s \in DOMAIN action :
    /\ (spc[t] = "suspblk" /\ s \in Deliverable(t) \ Skipped(t))
         => flight.kind # "none" \/ Taker(s, t)
    /\ (spc[t] = "waitblk" /\ PendingIn(t, waiting[t] \cap {s}))
         => flight.kind # "none" \/ Taker(s, t)

(* Both, of the threads and signals that the state has.                      *)
SignalsSound == MaskRestored /\ NoSignalSleptThrough
=============================================================================
