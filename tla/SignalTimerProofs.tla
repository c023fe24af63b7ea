-------------------------- MODULE SignalTimerProofs --------------------------
(***************************************************************************)
(* Signals and the timers that send them, each for any value of its constants.  *)
(*                                                                         *)
(* Signals of one process.  MaskInv: where the mask to go back to is kept at    *)
(* each point of a thread, and that a thread on its way to user space with a    *)
(* saved mask has a signal that will make it go back.  SleepInv: a blocked     *)
(* thread with something to take is among those that the send in flight is     *)
(* about to dispatch to.                                                      *)
(*                                                                         *)
(* Timers.  They fire on time, once for each setting and without drift.  The    *)
(* arithmetic is all in one lemma, what expire makes of a timer that is due;   *)
(* the rest is that an entry of the index whose generation and deadline are     *)
(* those of its timer is the entry of the last setting.                        *)
(***************************************************************************)
EXTENDS Signals, Timers, WellFoundedInduction, TLAPS

-----------------------------------------------------------------------------
(* Signals.                                                                  *)

Flights == [kind: {"none", "pending", "stop", "cont"}, sig: Sig \cup {0}, to: SUBSET Thread]

LEMMA Least == ASSUME NEW S \in SUBSET Nat, S # {} PROVE Min(S) \in S
<1>1. IsWellFoundedOn(OpToRel(<, Nat), Nat)
  BY NatLessThanWellFounded
<1>2. PICK x \in S : \A y \in S : ~ (<<y, x>> \in OpToRel(<, Nat))
  BY <1>1, WFMin
<1>3. \A y \in S : x <= y
  <2> SUFFICES ASSUME NEW y \in S PROVE x <= y
    OBVIOUS
  <2>1. <<y, x>> \in Nat \X Nat /\ <<y, x>>[1] = y /\ <<y, x>>[2] = x
    OBVIOUS
  <2>2. ~ (y < x)
    BY <1>2, <2>1 DEF OpToRel
  <2> QED BY <2>2
<1> QED BY <1>3 DEF Min

LEMMA NoneIsNoMask == ASSUME NEW m \in SUBSET Sig PROVE m # None
BY SigAssumption DEF None

(* Pushing and popping a saved mask keeps the outermost one.                  *)
LEMMA Pushed ==
  ASSUME NEW f \in Seq(Masks), NEW m \in Masks
  PROVE  /\ Append(f, m) \in Seq(Masks) /\ Len(Append(f, m)) = Len(f) + 1 /\ Append(f, m) # <<>>
         /\ f = <<>> => Append(f, m)[1] = m
         /\ f # <<>> => Append(f, m)[1] = f[1]
<1>1. Append(f, m) \in Seq(Masks) /\ Len(Append(f, m)) = Len(f) + 1 /\ Len(f) \in Nat
  OBVIOUS
<1>2. \A i \in 1 .. Len(f) + 1 : Append(f, m)[i] = IF i <= Len(f) THEN f[i] ELSE m
  OBVIOUS
<1>3. f = <<>> => Len(f) = 0
  OBVIOUS
<1>4. f # <<>> => Len(f) >= 1
  OBVIOUS
<1> QED BY <1>1, <1>2, <1>3, <1>4

LEMMA Popped ==
  ASSUME NEW f \in Seq(Masks), f # <<>>
  PROVE  /\ f[Len(f)] \in Masks /\ f[1] \in Masks
         /\ SubSeq(f, 1, Len(f) - 1) \in Seq(Masks) /\ Len(SubSeq(f, 1, Len(f) - 1)) = Len(f) - 1
         /\ SubSeq(f, 1, Len(f) - 1) # <<>> => SubSeq(f, 1, Len(f) - 1)[1] = f[1]
         /\ SubSeq(f, 1, Len(f) - 1) = <<>> => Len(f) = 1
<1>1. Len(f) \in Nat /\ Len(f) >= 1 /\ DOMAIN f = 1 .. Len(f)
  OBVIOUS
<1>2. f[Len(f)] \in Masks /\ f[1] \in Masks
  BY <1>1
<1> DEFINE g == SubSeq(f, 1, Len(f) - 1)
<1>3. g \in Seq(Masks) /\ Len(g) = Len(f) - 1
  BY <1>1
<1>4. \A i \in 1 .. Len(f) - 1 : g[i] = f[i]
  BY <1>1
<1> HIDE DEF g
<1>5. (g # <<>> => Len(g) >= 1) /\ (g = <<>> => Len(g) = 0)
  BY <1>3
<1>6. g # <<>> => g[1] = f[1]
  BY <1>1, <1>3, <1>4, <1>5
<1>7. ASSUME g = <<>> PROVE Len(f) = 1
  <2>1. Len(g) = 0
    BY <1>5, <1>7
  <2>2. Len(f) - 1 = 0 /\ Len(f) \in Nat
    BY <1>1, <1>3, <2>1
  <2> QED BY <2>2
<1> QED BY <1>2, <1>3, <1>6, <1>7 DEF g

-----------------------------------------------------------------------------
(* Types, component by component: what a step must show of what it assigns.   *)
LEMMA ChosenIsPending ==
  ASSUME SigTypeOK, NEW t \in Thread, Deliverable(t) # Skipped(t)
  PROVE  Chosen(t) \in Deliverable(t) \ Skipped(t) /\ Chosen(t) \in Sig
<1>1. Deliverable(t) \subseteq Sig /\ Skipped(t) \subseteq Deliverable(t)
  BY DEF SigTypeOK, Deliverable, Skipped
<1>2. Deliverable(t) \ Skipped(t) \in SUBSET Nat /\ Deliverable(t) \ Skipped(t) # {}
  BY <1>1, SigAssumption
<1> QED BY <1>1, <1>2, Least DEF Chosen

(* Taking one signal of a set takes it from the thread or from the process.   *)
Takes(t) == \E x \in Sig \cup {0} : \/ (pend' = [pend EXCEPT ![t] = @ \ {x}] /\ UNCHANGED ppend)
                                   \/ (ppend' = ppend \ {x} /\ UNCHANGED pend)

LEMMA TakeTakes ==
  ASSUME SigTypeOK, NEW t \in Thread, NEW W \in SUBSET Sig, PendingIn(t, W), take_pending_record(t, W)
  PROVE  Takes(t)
<1>1. CASE pend[t] \cap W # {}
  <2>1. pend[t] \cap W \in SUBSET Nat /\ W \subseteq Sig
    BY SigAssumption
  <2>2. Min(pend[t] \cap W) \in Sig
    BY <1>1, <2>1, Least
  <2>3. pend' = [pend EXCEPT ![t] = pend[t] \ {Min(pend[t] \cap W)}] /\ UNCHANGED ppend
    BY <1>1 DEF take_pending_record
  <2> QED BY <2>2, <2>3 DEF Takes
<1>2. CASE pend[t] \cap W = {}
  <2>1. ppend \cap W \in SUBSET Nat /\ ppend \cap W # {} /\ W \subseteq Sig
    BY <1>2, SigAssumption DEF PendingIn
  <2>2. Min(ppend \cap W) \in Sig
    BY <2>1, Least
  <2>3. ppend' = ppend \ {Min(ppend \cap W)} /\ UNCHANGED pend
    BY <1>2 DEF take_pending_record
  <2> QED BY <2>2, <2>3 DEF Takes
<1> QED BY <1>1, <1>2

LEMMA TakesTyped ==
  ASSUME SigTypeOK, NEW t \in Thread, Takes(t) \/ UNCHANGED <<pend, ppend>>
  PROVE  pend' \in [Thread -> SUBSET Sig] /\ ppend' \in SUBSET Sig
BY DEF Takes, SigTypeOK

LEMMA PreviousIsMask ==
  ASSUME SigTypeOK, NEW t \in Thread
  PROVE  previous_mask(t) \in Masks
BY DEF SigTypeOK, previous_mask

LEMMA TypeInit == SigInit => SigTypeOK
<1> SUFFICES ASSUME SigInit PROVE SigTypeOK
  OBVIOUS
<1>1. {} \in Masks /\ <<>> \in Seq(Masks) /\ Len(<<>>) = 0 /\ 0 <= MaxFrames
  BY SigAssumption DEF Masks
<1>2. Idle \in Flights
  BY DEF Idle, Flights
<1> QED BY <1>1, <1>2 DEF SigInit, SigTypeOK, SigPCs, Flights

LEMMA TypeSends ==
  ASSUME SigTypeOK, NEW t \in Thread, NEW s \in Sig, sys_kill(s) \/ sys_tkill(t, s)
  PROVE  SigTypeOK'
<1>1. generation_delivery(s) \in {"pending", "cont", "ignored"}
  BY DEF generation_delivery
<1>2. CASE sys_kill(s)
  <2>1. flight' \in Flights
    BY <1>1, <1>2 DEF sys_kill, send_process, Flights
  <2> QED BY <1>2, <2>1 DEF sys_kill, send_process, SigTypeOK, Flights
<1>3. CASE sys_tkill(t, s)
  <2>1. flight' \in Flights
    BY <1>1, <1>3 DEF sys_tkill, send_thread, Flights
  <2> QED BY <1>3, <2>1 DEF sys_tkill, send_thread, SigTypeOK, Flights
<1> QED BY <1>2, <1>3

LEMMA TypeDispatch ==
  ASSUME SigTypeOK, apply_signal_dispatch \/ DispatchContinue
  PROVE  SigTypeOK'
<1>1. \A t \in Thread : Interrupt(t) \in SigPCs
  BY DEF SigTypeOK, Interrupt, SigPCs
<1>2. flight' \in Flights
  BY DEF apply_signal_dispatch, DispatchContinue, Idle, Flights
<1>3. spc' \in [Thread -> SigPCs] /\ pstate' \in {"run", "stop", "dead"}
  BY <1>1 DEF apply_signal_dispatch, DispatchContinue, SigTypeOK, SigPCs
<1> QED BY <1>2, <1>3 DEF apply_signal_dispatch, DispatchContinue, SigTypeOK, Flights

LEMMA TypeTake ==
  ASSUME SigTypeOK, NEW t \in Thread, take_deliverable(t)
  PROVE  SigTypeOK'
<1> DEFINE s == Chosen(t)  p == previous_mask(t)
<1>1. s \in Sig /\ p \in Masks
  BY ChosenIsPending, PreviousIsMask DEF take_deliverable
<1>2. pend' \in [Thread -> SUBSET Sig] /\ ppend' \in SUBSET Sig /\ UNCHANGED flight
  BY DEF take_deliverable, Consume, SigTypeOK
<1>3. restore' \in [Thread -> Masks \cup {None}] /\ waiting' \in [Thread -> (SUBSET Sig) \cup {None}]
  BY DEF take_deliverable, Unwait, SigTypeOK
<1> HIDE DEF s, p
<1>4. /\ mask' \in [Thread -> Masks] /\ base' \in [Thread -> Masks]
      /\ action' \in [Sig -> {"dfl", "ign", "hnd", "once"}]
      /\ spc' \in [Thread -> SigPCs] /\ pstate' \in {"run", "stop", "dead"}
      /\ frames' \in [Thread -> Seq(Masks)] /\ \A u \in Thread : Len(frames'[u]) <= MaxFrames
  <2>1. \/ UNCHANGED <<mask, frames, base, action>>
           /\ pstate' = "dead" /\ spc' = [u \in Thread |-> "dead"]
        \/ mask' = [mask EXCEPT ![t] = p] /\ UNCHANGED <<frames, base, action>>
           /\ pstate' = "stop" /\ spc' = [spc EXCEPT ![t] = "stopblk"]
        \/ mask' = [mask EXCEPT ![t] = p] /\ UNCHANGED <<frames, base, action, pstate>>
           /\ spc' = [spc EXCEPT ![t] = "user"]
        \/ /\ s # SIGKILL /\ Len(frames[t]) < MaxFrames /\ mask' = [mask EXCEPT ![t] = @ \cup {s}]
           /\ frames' = [frames EXCEPT ![t] = Append(@, p)]
           /\ action' = IF action[s] = "once" THEN [action EXCEPT ![s] = "dfl"] ELSE action
           /\ spc' = [spc EXCEPT ![t] = "user"] /\ UNCHANGED <<base, pstate>>
    BY DEF take_deliverable, s, p
  <2>2. ASSUME frames' = [frames EXCEPT ![t] = Append(@, p)], Len(frames[t]) < MaxFrames
        PROVE  frames' \in [Thread -> Seq(Masks)] /\ \A u \in Thread : Len(frames'[u]) <= MaxFrames
    <3>1. Append(frames[t], p) \in Seq(Masks) /\ Len(Append(frames[t], p)) = Len(frames[t]) + 1
          /\ Len(frames[t]) \in Nat
      BY <1>1, Pushed DEF SigTypeOK
    <3>2. frames' \in [Thread -> Seq(Masks)] /\ \A u \in Thread : Len(frames'[u]) <= MaxFrames
      BY <2>2, <3>1, SigAssumption DEF SigTypeOK
    <3> QED BY <3>2
  <2>3. frames' \in [Thread -> Seq(Masks)] /\ \A u \in Thread : Len(frames'[u]) <= MaxFrames
    BY <2>1, <2>2 DEF SigTypeOK
  <2>4. s # SIGKILL => mask[t] \cup {s} \in Masks
    BY <1>1 DEF SigTypeOK, Masks
  <2>5. mask' \in [Thread -> Masks]
    BY <1>1, <2>1, <2>4 DEF SigTypeOK
  <2>6. spc' \in [Thread -> SigPCs] /\ pstate' \in {"run", "stop", "dead"}
    BY <2>1 DEF SigTypeOK, SigPCs
  <2>7. base' \in [Thread -> Masks] /\ action' \in [Sig -> {"dfl", "ign", "hnd", "once"}]
    BY <1>1, <2>1 DEF SigTypeOK
  <2> QED BY <2>3, <2>5, <2>6, <2>7
<1> QED BY <1>2, <1>3, <1>4 DEF SigTypeOK

LEMMA TypeStep ==
  ASSUME SigTypeOK, NEW t \in Thread, SigStep(t)
  PROVE  SigTypeOK'
<1>1. ASSUME NEW s \in Sig, NEW a \in {"dfl", "ign", "hnd", "once"}, sys_rt_sigaction(t, s, a) PROVE SigTypeOK'
  BY <1>1 DEF sys_rt_sigaction, set_action, RegistryOnly, SigTypeOK
<1>2. ASSUME NEW m \in Masks, sys_rt_sigprocmask(t, m) PROVE SigTypeOK'
  <2>1. m \ {SIGKILL} \in Masks
    BY DEF Masks
  <2> QED BY <1>2, <2>1 DEF sys_rt_sigprocmask, update_mask, SigTypeOK, SigPCs
<1>3. ASSUME NEW m \in Masks, begin_sigsuspend(t, m) PROVE SigTypeOK'
  <2>1. m \ {SIGKILL} \in Masks
    BY DEF Masks
  <2> QED BY <1>3, <2>1 DEF begin_sigsuspend, SigTypeOK, SigPCs
<1>4. ASSUME NEW s \in Sig, raise_current_fault_signal(t, s) PROVE SigTypeOK'
  <2>1. mask[t] \ {s} \in Masks /\ base[t] \ {s} \in Masks
    BY DEF SigTypeOK, Masks
  <2> QED BY <1>4, <2>1 DEF raise_current_fault_signal, force_thread_signal, SigTypeOK, SigPCs
<1>5. CASE sys_rt_sigsuspend(t)
  BY <1>5 DEF sys_rt_sigsuspend, SigTypeOK, SigPCs
<1>6. CASE end_sigsuspend(t)
  <2>1. mask' \in [Thread -> Masks] /\ restore' \in [Thread -> Masks \cup {None}]
    BY <1>6 DEF end_sigsuspend, EndMask, SigTypeOK
  <2> QED BY <1>6, <2>1 DEF end_sigsuspend, SigTypeOK, SigPCs
<1>7. ASSUME NEW W \in SUBSET Sig \ {{}}, begin_signal_wait(t, W) PROVE SigTypeOK'
  <2>1. Takes(t) \/ UNCHANGED <<pend, ppend>>
    BY <1>7, TakeTakes DEF begin_signal_wait
  <2>2. pend' \in [Thread -> SUBSET Sig] /\ ppend' \in SUBSET Sig
    BY <2>1, TakesTyped
  <2>3. waiting' = waiting \/ waiting' = [waiting EXCEPT ![t] = W]
    BY <1>7 DEF begin_signal_wait
  <2>4. waiting' \in [Thread -> (SUBSET Sig) \cup {None}]
    BY <2>3 DEF SigTypeOK
  <2>5. spc' \in [Thread -> SigPCs]
    BY <1>7 DEF begin_signal_wait, SigTypeOK, SigPCs
  <2> QED BY <1>7, <2>2, <2>4, <2>5 DEF begin_signal_wait, SigTypeOK
<1>8. CASE SigwaitBlock(t)
  BY <1>8 DEF SigwaitBlock, SigTypeOK, SigPCs
<1>9. CASE sys_rt_sigtimedwait(t)
  <2>1. waiting[t] \in SUBSET Sig
    BY <1>9 DEF sys_rt_sigtimedwait, SigTypeOK
  <2>2. Takes(t) \/ UNCHANGED <<pend, ppend>>
    BY <1>9, <2>1, TakeTakes DEF sys_rt_sigtimedwait
  <2>3. pend' \in [Thread -> SUBSET Sig] /\ ppend' \in SUBSET Sig
    BY <2>2, TakesTyped
  <2> QED BY <1>9, <2>3 DEF sys_rt_sigtimedwait, SigTypeOK, SigPCs
<1>10. CASE Trap(t) \/ BlockStopped(t) \/ DeliverStopped(t)
  BY <1>10 DEF Trap, BlockStopped, DeliverStopped, SigTypeOK, SigPCs
<1>11. CASE DeliverNothing(t)
  <2>1. mask' \in [Thread -> Masks] /\ restore' \in [Thread -> Masks \cup {None}]
    BY <1>11 DEF DeliverNothing, EndMask, SigTypeOK
  <2>2. pend' \in [Thread -> SUBSET Sig] /\ ppend' \in SUBSET Sig
    BY <1>11 DEF DeliverNothing, Consume, SigTypeOK
  <2> QED BY <1>11, <2>1, <2>2 DEF DeliverNothing, SigTypeOK, SigPCs
<1>12. CASE restore_signal_frame(t)
  <2> DEFINE f == frames[t]
  <2>1. /\ f[Len(f)] \in Masks /\ SubSeq(f, 1, Len(f) - 1) \in Seq(Masks)
        /\ Len(SubSeq(f, 1, Len(f) - 1)) = Len(f) - 1 /\ Len(f) \in Nat /\ Len(f) <= MaxFrames
    BY <1>12, Popped DEF restore_signal_frame, SigTypeOK
  <2>2. f[Len(f)] \ {SIGKILL} \in Masks
    BY <2>1 DEF Masks
  <2>3. frames' \in [Thread -> Seq(Masks)] /\ \A u \in Thread : Len(frames'[u]) <= MaxFrames
    BY <1>12, <2>1, SigAssumption DEF restore_signal_frame, SigTypeOK
  <2> QED BY <1>12, <2>2, <2>3 DEF restore_signal_frame, SigTypeOK, SigPCs
<1>13. CASE on_exec(t)
  <2>1. <<>> \in Seq(Masks) /\ Len(<<>>) = 0 /\ 0 <= MaxFrames
    BY SigAssumption
  <2>2. frames' \in [Thread -> Seq(Masks)] /\ \A u \in Thread : Len(frames'[u]) <= MaxFrames
    BY <1>13, <2>1 DEF on_exec, exec_process, SigTypeOK
  <2> QED BY <1>13, <2>2 DEF on_exec, exec_process, RegistryOnly, SigTypeOK
<1>14. CASE take_deliverable(t)
  BY <1>14, TypeTake
<1> QED BY <1>1, <1>2, <1>3, <1>4, <1>5, <1>6, <1>7, <1>8, <1>9, <1>10, <1>11, <1>12, <1>13, <1>14,
           TypeSends DEF SigStep

LEMMA TypeNext == ASSUME SigTypeOK, SigNext PROVE SigTypeOK'
<1>1. ASSUME NEW s \in Sig, sys_kill(s) PROVE SigTypeOK'
  <2>1. generation_delivery(s) \in {"pending", "cont", "ignored"}
    BY DEF generation_delivery
  <2>2. flight' \in Flights
    BY <1>1, <2>1 DEF sys_kill, send_process, Flights
  <2> QED BY <1>1, <2>2 DEF sys_kill, send_process, SigTypeOK, Flights
<1> QED BY <1>1, TypeStep, TypeDispatch DEF SigNext
-----------------------------------------------------------------------------
(* Masks.  A thread alone takes its own signals; with others the argument needs *)
(* that nobody calls sigsuspend.                                               *)
Alone == \A t, u \in Thread : t = u
MasksFit == Alone \/ "suspend" \notin SigOps

MaskAt(t) ==
  /\ (spc[t] # "dead" /\ frames[t] = <<>>) => previous_mask(t) = base[t]
  /\ (spc[t] # "dead" /\ frames[t] # <<>>) => frames[t][1] = base[t]
  /\ spc[t] \in {"user", "wait", "waitblk", "woken"} => restore[t] = None
  /\ (spc[t] \in {"trap", "stopblk", "manual"} /\ restore[t] # None) => has_deliverable(t)
  /\ "suspend" \notin SigOps => (restore[t] = None /\ spc[t] \notin {"susp", "suspblk", "suspend"})
MaskInv == \A t \in Thread : MaskAt(t)

(* A thread that others act upon: it keeps its masks and its frames, is at most *)
(* interrupted or killed, and loses no signal that it might have to take.      *)
Beside(t) ==
  /\ mask'[t] = mask[t] /\ restore'[t] = restore[t] /\ frames'[t] = frames[t] /\ base'[t] = base[t]
  /\ spc'[t] \in {spc[t], Interrupt(t), "dead"}
  /\ has_deliverable(t) => (has_deliverable(t)' \/ "suspend" \notin SigOps)

LEMMA BesideKeeps ==
  ASSUME SigTypeOK, NEW t \in Thread, MaskAt(t), Beside(t)
  PROVE  MaskAt(t)'
<1>1. previous_mask(t)' = previous_mask(t)
  BY DEF Beside, previous_mask
<1>2. /\ spc'[t] # "dead" => spc[t] # "dead"
      /\ spc'[t] \in {"user", "wait", "waitblk", "woken"} => spc[t] \in {"user", "wait", "waitblk", "woken"}
      /\ spc'[t] \in {"trap", "stopblk", "manual"} => spc[t] \in {"trap", "stopblk", "manual"}
      /\ spc[t] \notin {"susp", "suspblk", "suspend"} => spc'[t] \notin {"susp", "suspblk", "suspend"}
  BY DEF Beside, Interrupt, SigTypeOK, SigPCs
<1>3. (spc'[t] \in {"trap", "stopblk", "manual"} /\ restore'[t] # None) => has_deliverable(t)'
  BY <1>2 DEF Beside, MaskAt
<1> QED BY <1>1, <1>2, <1>3 DEF Beside, MaskAt

(* A step of t on itself leaves the others beside it.                         *)
Elsewhere(t) ==
  \A u \in Thread \ {t} :
    /\ mask'[u] = mask[u] /\ restore'[u] = restore[u] /\ frames'[u] = frames[u] /\ base'[u] = base[u]
    /\ spc'[u] \in {spc[u], "dead"}

LEMMA ElsewhereKeeps ==
  ASSUME SigTypeOK, MasksFit, MaskInv, NEW t \in Thread, Elsewhere(t), MaskAt(t)'
  PROVE  MaskInv'
<1> SUFFICES ASSUME NEW u \in Thread, u # t PROVE MaskAt(u)'
  BY DEF MaskInv
<1>1. "suspend" \notin SigOps
  BY DEF MasksFit, Alone
<1>2. Beside(u)
  BY <1>1 DEF Elsewhere, Beside
<1> QED BY <1>2, BesideKeeps DEF MaskInv

(* Sends and dispatches leave everybody beside.                               *)
LEMMA BesideAll ==
  ASSUME SigTypeOK, MaskInv, \A t \in Thread : Beside(t)
  PROVE  MaskInv'
BY BesideKeeps DEF MaskInv

LEMMA MaskSends ==
  ASSUME SigTypeOK, MaskInv, NEW t \in Thread, NEW s \in Sig, sys_kill(s) \/ sys_tkill(t, s)
  PROVE  MaskInv'
<1>1. UNCHANGED <<mask, restore, frames, base, spc>> /\ ppend \subseteq ppend'
      /\ \A u \in Thread : pend[u] \subseteq pend'[u]
  <2>1. CASE sys_kill(s)
    BY <2>1 DEF sys_kill, send_process
  <2>2. CASE sys_tkill(t, s)
    <3>1. pend' = pend \/ pend' = [pend EXCEPT ![t] = @ \cup {s}]
      BY <2>2 DEF sys_tkill, send_thread
    <3>2. \A u \in Thread : pend[u] \subseteq pend'[u]
      BY <3>1 DEF SigTypeOK
    <3> QED BY <2>2, <3>2 DEF sys_tkill, send_thread
  <2> QED BY <2>1, <2>2
<1>2. \A u \in Thread : Deliverable(u) \subseteq Deliverable(u)'
  BY <1>1 DEF Deliverable
<1>3. \A u \in Thread : Beside(u)
  BY <1>1, <1>2 DEF Beside, has_deliverable
<1> QED BY <1>3, BesideAll

LEMMA MaskDispatch ==
  ASSUME SigTypeOK, MaskInv, apply_signal_dispatch \/ DispatchContinue
  PROVE  MaskInv'
<1>1. UNCHANGED <<pend, ppend, mask, restore, frames, base>>
  BY DEF apply_signal_dispatch, DispatchContinue
<1>2. \A u \in Thread : Deliverable(u)' = Deliverable(u)
  BY <1>1 DEF Deliverable
<1>3. \A u \in Thread : spc'[u] \in {spc[u], Interrupt(u)}
  BY DEF apply_signal_dispatch, DispatchContinue, Interrupt
<1>4. \A u \in Thread : Beside(u)
  BY <1>1, <1>2, <1>3 DEF Beside, has_deliverable
<1> QED BY <1>4, BesideAll

(* Only the place of t changes.                                               *)
LEMMA MaskMoves ==
  ASSUME SigTypeOK, MasksFit, MaskInv, NEW t \in Thread,
         sys_rt_sigsuspend(t) \/ SigwaitBlock(t) \/ Trap(t) \/ BlockStopped(t) \/ DeliverStopped(t)
  PROVE  MaskInv'
<1>1. UNCHANGED <<pend, ppend, mask, restore, frames, base>>
  BY DEF sys_rt_sigsuspend, SigwaitBlock, Trap, BlockStopped, DeliverStopped
<1>2. Deliverable(t)' = Deliverable(t) /\ previous_mask(t)' = previous_mask(t)
  BY <1>1 DEF Deliverable, previous_mask
<1>3. Elsewhere(t)
  BY <1>1 DEF sys_rt_sigsuspend, SigwaitBlock, Trap, BlockStopped, DeliverStopped, Elsewhere, SigTypeOK
<1>4. \/ spc[t] = "susp" /\ spc'[t] \in {"suspend", "suspblk"}
      \/ spc[t] = "wait" /\ spc'[t] \in {"woken", "waitblk"}
      \/ spc[t] = "user" /\ spc'[t] = "trap"
      \/ spc[t] = "stopblk" /\ spc'[t] = "manual"
      \/ spc[t] = "trap" /\ spc'[t] \in {"dead", "stopblk"}
  BY DEF sys_rt_sigsuspend, SigwaitBlock, Trap, BlockStopped, DeliverStopped, SigTypeOK
<1>5. MaskAt(t)
  BY DEF MaskInv
<1>6. MaskAt(t)'
  BY <1>1, <1>2, <1>4, <1>5 DEF MaskAt, has_deliverable
<1> QED BY <1>3, <1>6, ElsewhereKeeps

LEMMA MaskCalls ==
  ASSUME SigTypeOK, MasksFit, MaskInv, NEW t \in Thread,
         \/ \E s \in Sig, a \in {"dfl", "ign", "hnd", "once"} : sys_rt_sigaction(t, s, a)
         \/ \E m \in Masks : sys_rt_sigprocmask(t, m) \/ begin_sigsuspend(t, m)
         \/ \E s \in Sig : raise_current_fault_signal(t, s)
         \/ \E W \in SUBSET Sig \ {{}} : begin_signal_wait(t, W)
         \/ sys_rt_sigtimedwait(t) \/ on_exec(t)
  PROVE  MaskInv'
<1>1. MaskAt(t)
  BY DEF MaskInv
<1>2. ASSUME NEW s \in Sig, NEW a \in {"dfl", "ign", "hnd", "once"}, sys_rt_sigaction(t, s, a) PROVE MaskInv'
  <2>1. Elsewhere(t) /\ UNCHANGED <<spc, restore, frames, base, mask>> /\ spc[t] = "user"
    BY <1>2 DEF sys_rt_sigaction, Elsewhere, RegistryOnly, SigUser
  <2>2. MaskAt(t)'
    BY <1>1, <2>1 DEF MaskAt, previous_mask
  <2> QED BY <2>1, <2>2, ElsewhereKeeps
<1>3. ASSUME NEW m \in Masks, sys_rt_sigprocmask(t, m) PROVE MaskInv'
  <2>1. /\ Elsewhere(t) /\ spc[t] = "user" /\ spc'[t] = "trap" /\ UNCHANGED <<restore, frames>>
        /\ mask'[t] = m \ {SIGKILL} /\ base'[t] = IF frames[t] = <<>> THEN m \ {SIGKILL} ELSE base[t]
    BY <1>3 DEF sys_rt_sigprocmask, update_mask, Elsewhere, SigUser, SigTypeOK
  <2>2. MaskAt(t)'
    BY <1>1, <2>1 DEF MaskAt, previous_mask
  <2> QED BY <2>1, <2>2, ElsewhereKeeps
<1>4. ASSUME NEW m \in Masks, begin_sigsuspend(t, m) PROVE MaskInv'
  <2>1. /\ Elsewhere(t) /\ spc[t] = "user" /\ spc'[t] = "susp" /\ UNCHANGED <<base, frames>>
        /\ restore[t] = None /\ restore'[t] = mask[t] /\ "suspend" \in SigOps
    BY <1>4 DEF begin_sigsuspend, Elsewhere, SigUser, SigTypeOK
  <2>2. mask[t] # None
    BY NoneIsNoMask DEF SigTypeOK, Masks
  <2>3. previous_mask(t) = mask[t] /\ previous_mask(t)' = mask[t]
    BY <2>1, <2>2 DEF previous_mask
  <2>4. MaskAt(t)'
    BY <1>1, <2>1, <2>3 DEF MaskAt
  <2> QED BY <2>1, <2>4, ElsewhereKeeps
<1>5. ASSUME NEW s \in Sig, raise_current_fault_signal(t, s) PROVE MaskInv'
  <2>1. /\ Elsewhere(t) /\ spc[t] = "user" /\ spc'[t] = "trap" /\ UNCHANGED <<restore, frames>>
    BY <1>5 DEF raise_current_fault_signal, force_thread_signal, Elsewhere, SigUser, SigTypeOK
  <2>2. \/ mask'[t] = mask[t] /\ base'[t] = base[t]
        \/ frames[t] = <<>> /\ mask'[t] = mask[t] \ {s} /\ base'[t] = base[t] \ {s}
        \/ frames[t] # <<>> /\ base'[t] = base[t]
    BY <1>5 DEF raise_current_fault_signal, force_thread_signal, SigTypeOK
  <2>3. MaskAt(t)'
    BY <1>1, <2>1, <2>2 DEF MaskAt, previous_mask
  <2> QED BY <2>1, <2>3, ElsewhereKeeps
<1>6. ASSUME NEW W \in SUBSET Sig \ {{}}, begin_signal_wait(t, W) PROVE MaskInv'
  <2>1. /\ Elsewhere(t) /\ spc[t] = "user" /\ spc'[t] \in {"trap", "wait"} /\ UNCHANGED <<restore, frames, mask, base>>
    BY <1>6 DEF begin_signal_wait, Elsewhere, SigUser, SigTypeOK
  <2>2. MaskAt(t)'
    BY <1>1, <2>1 DEF MaskAt, previous_mask
  <2> QED BY <2>1, <2>2, ElsewhereKeeps
<1>7. CASE sys_rt_sigtimedwait(t)
  <2>1. /\ Elsewhere(t) /\ spc[t] \in {"woken", "waitblk"} /\ spc'[t] = "trap" /\ UNCHANGED <<restore, frames, mask, base>>
    BY <1>7 DEF sys_rt_sigtimedwait, Elsewhere, SigTypeOK
  <2>2. MaskAt(t)'
    BY <1>1, <2>1 DEF MaskAt, previous_mask
  <2> QED BY <2>1, <2>2, ElsewhereKeeps
<1>8. CASE on_exec(t)
  <2>1. /\ Elsewhere(t) /\ spc[t] = "user" /\ UNCHANGED <<restore, mask, spc>>
        /\ frames'[t] = <<>> /\ base'[t] = mask[t]
    BY <1>8 DEF on_exec, exec_process, RegistryOnly, Elsewhere, SigUser, SigTypeOK
  <2>2. MaskAt(t)'
    BY <1>1, <2>1 DEF MaskAt, previous_mask
  <2> QED BY <2>1, <2>2, ElsewhereKeeps
<1> QED BY <1>2, <1>3, <1>4, <1>5, <1>6, <1>7, <1>8

(* The three ways in which a saved mask is given back.                        *)
LEMMA MaskReturns ==
  ASSUME SigTypeOK, MasksFit, MaskInv, NEW t \in Thread,
         end_sigsuspend(t) \/ DeliverNothing(t) \/ restore_signal_frame(t)
  PROVE  MaskInv'
<1>1. MaskAt(t)
  BY DEF MaskInv
<1>2. CASE end_sigsuspend(t)
  <2>1. Elsewhere(t) /\ spc[t] = "suspend" /\ spc'[t] = "trap" /\ UNCHANGED <<frames, base, pend, ppend>>
    BY <1>2 DEF end_sigsuspend, EndMask, Elsewhere, SigTypeOK
  <2>2. CASE has_deliverable(t)
    <3>1. UNCHANGED <<mask, restore>>
      BY <1>2, <2>2 DEF end_sigsuspend
    <3>2. has_deliverable(t)' /\ previous_mask(t)' = previous_mask(t)
      BY <2>1, <2>2, <3>1 DEF has_deliverable, Deliverable, previous_mask
    <3>3. MaskAt(t)'
      BY <1>1, <2>1, <3>1, <3>2 DEF MaskAt
    <3> QED BY <2>1, <3>3, ElsewhereKeeps
  <2>3. CASE ~ has_deliverable(t)
    <3>1. mask'[t] = previous_mask(t) /\ restore'[t] = None
      BY <1>2, <2>3 DEF end_sigsuspend, EndMask, previous_mask, SigTypeOK
    <3>2. MaskAt(t)'
      BY <1>1, <2>1, <3>1 DEF MaskAt, previous_mask
    <3> QED BY <2>1, <3>2, ElsewhereKeeps
  <2> QED BY <2>2, <2>3
<1>3. CASE DeliverNothing(t)
  <2>1. Elsewhere(t) /\ spc[t] = "trap" /\ spc'[t] = "user" /\ UNCHANGED <<frames, base>>
    BY <1>3 DEF DeliverNothing, EndMask, Elsewhere, SigTypeOK
  <2>2. CASE Skipped(t) = {}
    <3>1. UNCHANGED <<mask, restore>> /\ ~ has_deliverable(t)
      BY <1>3, <2>2 DEF DeliverNothing, has_deliverable
    <3>2. restore[t] = None
      BY <1>1, <2>1, <3>1 DEF MaskAt
    <3>3. MaskAt(t)'
      BY <1>1, <2>1, <3>1, <3>2 DEF MaskAt, previous_mask
    <3> QED BY <2>1, <3>3, ElsewhereKeeps
  <2>3. CASE Skipped(t) # {}
    <3>1. mask'[t] = previous_mask(t) /\ restore'[t] = None
      BY <1>3, <2>3 DEF DeliverNothing, EndMask, previous_mask, SigTypeOK
    <3>2. MaskAt(t)'
      BY <1>1, <2>1, <3>1 DEF MaskAt, previous_mask
    <3> QED BY <2>1, <3>2, ElsewhereKeeps
  <2> QED BY <2>2, <2>3
<1>4. CASE restore_signal_frame(t)
  <2> DEFINE f == frames[t]
  <2>1. /\ Elsewhere(t) /\ spc[t] = "user" /\ spc'[t] = "trap" /\ UNCHANGED <<restore, base>>
        /\ f # <<>> /\ mask'[t] = f[Len(f)] \ {SIGKILL} /\ frames'[t] = SubSeq(f, 1, Len(f) - 1)
    BY <1>4 DEF restore_signal_frame, Elsewhere, SigTypeOK
  <2>2. f \in Seq(Masks)
    BY DEF SigTypeOK
  <2>3. /\ f[1] \in Masks /\ f[1] = base[t]
        /\ frames'[t] # <<>> => frames'[t][1] = f[1]
        /\ frames'[t] = <<>> => Len(f) = 1
    BY <1>1, <2>1, <2>2, Popped DEF MaskAt
  <2>4. restore[t] = None /\ f[1] \ {SIGKILL} = f[1]
    BY <1>1, <2>1, <2>3 DEF MaskAt, Masks
  <2>5. MaskAt(t)'
    BY <1>1, <2>1, <2>3, <2>4 DEF MaskAt, previous_mask
  <2> QED BY <2>1, <2>5, ElsewhereKeeps
<1> QED BY <1>2, <1>3, <1>4

LEMMA MaskTake ==
  ASSUME SigTypeOK, MasksFit, MaskInv, NEW t \in Thread, take_deliverable(t)
  PROVE  MaskInv'
<1> DEFINE s == Chosen(t)  p == previous_mask(t)
<1>1. MaskAt(t) /\ spc[t] = "trap" /\ p \in Masks
  BY PreviousIsMask DEF MaskInv, take_deliverable
<1>2. restore'[t] = None /\ (\A u \in Thread \ {t} : restore'[u] = restore[u])
  BY DEF take_deliverable, Unwait, SigTypeOK
<1>3. UNCHANGED base
  BY DEF take_deliverable
<1>4. \/ /\ UNCHANGED <<mask, frames>> /\ spc' = [u \in Thread |-> "dead"]
      \/ /\ mask' = [mask EXCEPT ![t] = p] /\ UNCHANGED frames
         /\ (spc' = [spc EXCEPT ![t] = "stopblk"] \/ spc' = [spc EXCEPT ![t] = "user"])
      \/ /\ mask' = [mask EXCEPT ![t] = @ \cup {s}] /\ frames' = [frames EXCEPT ![t] = Append(@, p)]
         /\ spc' = [spc EXCEPT ![t] = "user"]
  BY DEF take_deliverable
<1> HIDE DEF s, p
<1>5. Elsewhere(t)
  BY <1>2, <1>3, <1>4 DEF Elsewhere, SigTypeOK
<1>6. \/ spc'[t] = "dead"
      \/ mask'[t] = p /\ frames'[t] = frames[t] /\ spc'[t] \in {"stopblk", "user"}
      \/ frames'[t] = Append(frames[t], p) /\ spc'[t] = "user"
  BY <1>4 DEF SigTypeOK
<1>7. /\ Append(frames[t], p) # <<>> /\ (frames[t] = <<>> => Append(frames[t], p)[1] = p)
      /\ (frames[t] # <<>> => Append(frames[t], p)[1] = frames[t][1])
  BY <1>1, Pushed DEF SigTypeOK
<1>8. (frames[t] = <<>> => p = base[t]) /\ (frames[t] # <<>> => frames[t][1] = base[t])
  BY <1>1 DEF MaskAt, p
<1>9. previous_mask(t)' = mask'[t]
  BY <1>2 DEF previous_mask
<1>10. MaskAt(t)'
  BY <1>2, <1>3, <1>6, <1>7, <1>8, <1>9 DEF MaskAt
<1> QED BY <1>5, <1>10, ElsewhereKeeps

LEMMA MaskInit == SigInit => MaskInv
BY DEF SigInit, MaskInv, MaskAt, previous_mask

LEMMA MaskNext ==
  ASSUME SigTypeOK, MasksFit, MaskInv, SigNext
  PROVE  MaskInv'
<1>1. ASSUME NEW t \in Thread, SigStep(t) PROVE MaskInv'
  <2>1. CASE \/ \E s \in Sig, a \in {"dfl", "ign", "hnd", "once"} : sys_rt_sigaction(t, s, a)
             \/ \E m \in Masks : sys_rt_sigprocmask(t, m) \/ begin_sigsuspend(t, m)
             \/ \E s \in Sig : raise_current_fault_signal(t, s)
             \/ \E W \in SUBSET Sig \ {{}} : begin_signal_wait(t, W)
             \/ sys_rt_sigtimedwait(t) \/ on_exec(t)
    BY <2>1, MaskCalls
  <2>2. CASE \E s \in Sig : sys_tkill(t, s)
    BY <2>2, MaskSends
  <2>3. CASE sys_rt_sigsuspend(t) \/ SigwaitBlock(t) \/ Trap(t) \/ BlockStopped(t) \/ DeliverStopped(t)
    BY <2>3, MaskMoves
  <2>4. CASE end_sigsuspend(t) \/ DeliverNothing(t) \/ restore_signal_frame(t)
    BY <2>4, MaskReturns
  <2>5. CASE take_deliverable(t)
    BY <2>5, MaskTake
  <2> QED BY <1>1, <2>1, <2>2, <2>3, <2>4, <2>5 DEF SigStep
<1>2. ASSUME NEW s \in Sig, sys_kill(s) PROVE MaskInv'
  <2>1. UNCHANGED <<mask, restore, frames, base, spc, pend>> /\ ppend \subseteq ppend'
    BY <1>2 DEF sys_kill, send_process
  <2>2. \A u \in Thread : Deliverable(u) \subseteq Deliverable(u)'
    BY <2>1 DEF Deliverable
  <2>3. \A u \in Thread : Beside(u)
    BY <2>1, <2>2 DEF Beside, has_deliverable
  <2> QED BY <2>3, BesideAll
<1> QED BY <1>1, <1>2, MaskDispatch DEF SigNext
-----------------------------------------------------------------------------
(* Sleepers.  Another thread must not change what a signal does to a sleeper,   *)
(* and a continue, which does not become pending for a dispatch to find, must  *)
(* not be among the signals that somebody waits for.                           *)
SleepFit == (Alone \/ "action" \notin SigOps) /\ (SIGCONT \notin Sig \/ "sigwait" \notin SigOps)

Passes(s) == action[s] = "ign" \/ (action[s] = "dfl" /\ s \in default_ignored)
SleepAt(t) ==
  /\ "sigwait" \notin SigOps => spc[t] \notin {"wait", "waitblk", "woken"}
  /\ \A s \in Sig : (spc[t] = "suspblk" /\ s \in Deliverable(t) /\ ~ Passes(s))
                      => (flight.kind \in {"pending", "cont"} /\ t \in flight.to)
  /\ \A s \in Sig : (spc[t] = "waitblk" /\ s \in pend[t] \cup ppend /\ s \in waiting[t])
                      => (flight.kind = "pending" /\ t \in flight.to /\ flight.sig = s)
Defaults == "action" \notin SigOps => \A s \in Sig : action[s] = "dfl"
SleepInv == (\A t \in Thread : SleepAt(t)) /\ Defaults

(* A step that sends nothing: who sleeps after it slept before it, with no more *)
(* signals and with the same mask and awaited set.                            *)
Calm(t) ==
  /\ "sigwait" \notin SigOps => spc'[t] \notin {"wait", "waitblk", "woken"}
  /\ spc'[t] \in {"suspblk", "waitblk"}
       => /\ spc'[t] = spc[t] /\ mask'[t] = mask[t] /\ waiting'[t] = waiting[t]
          /\ pend'[t] \subseteq pend[t] /\ ppend' \subseteq ppend
          /\ \A s \in Sig : Passes(s) => Passes(s)'

LEMMA CalmKeeps ==
  ASSUME NEW t \in Thread, SleepAt(t), Calm(t), UNCHANGED flight
  PROVE  SleepAt(t)'
<1>1. ASSUME NEW s \in Sig, spc'[t] = "suspblk", s \in Deliverable(t)', ~ Passes(s)'
      PROVE  flight.kind \in {"pending", "cont"} /\ t \in flight.to
  <2>1. spc[t] = "suspblk" /\ s \in Deliverable(t) /\ ~ Passes(s)
    BY <1>1 DEF Calm, Deliverable
  <2> QED BY <2>1 DEF SleepAt
<1>2. ASSUME NEW s \in Sig, spc'[t] = "waitblk", s \in pend'[t] \cup ppend', s \in waiting'[t]
      PROVE  flight.kind = "pending" /\ t \in flight.to /\ flight.sig = s
  <2>1. spc[t] = "waitblk" /\ s \in pend[t] \cup ppend /\ s \in waiting[t]
    BY <1>2 DEF Calm
  <2> QED BY <2>1 DEF SleepAt
<1> QED BY <1>1, <1>2 DEF SleepAt, Calm

(* A step of t that sends nothing and leaves t itself awake: the others must    *)
(* only see their signals taken, and what a signal does must not change.       *)
Around(t) ==
  /\ UNCHANGED flight
  /\ \A u \in Thread \ {t} :
       /\ spc'[u] \in {spc[u], "dead"} /\ mask'[u] = mask[u] /\ waiting'[u] = waiting[u]
       /\ pend'[u] \subseteq pend[u] /\ ppend' \subseteq ppend
       /\ \A s \in Sig : Passes(s) => Passes(s)'

LEMMA AroundKeeps ==
  ASSUME SigTypeOK, SleepInv, NEW t \in Thread, Around(t), SleepAt(t)', Defaults'
  PROVE  SleepInv'
<1> SUFFICES ASSUME NEW u \in Thread, u # t PROVE SleepAt(u)'
  BY DEF SleepInv
<1>1. SleepAt(u)
  BY DEF SleepInv
<1>2. Calm(u)
  BY <1>1 DEF Around, Calm, SleepAt
<1> QED BY <1>1, <1>2, CalmKeeps DEF Around

LEMMA AwakeSleeps ==
  ASSUME NEW t \in Thread, spc'[t] \notin {"wait", "waitblk", "woken", "suspblk"}
  PROVE  SleepAt(t)'
BY DEF SleepAt

(* Sends.  Nothing is in flight, so no sleeper has anything; the one that is    *)
(* now pending is in flight to everybody whom it could wake.                  *)
Sends(s) ==
  /\ flight.kind = "none" /\ UNCHANGED <<mask, waiting, spc, action>>
  /\ generation_delivery(s) \in {"pending", "cont"}
  /\ flight'.kind = generation_delivery(s) /\ flight'.sig = s

LEMMA SendKeeps ==
  ASSUME SigTypeOK, SleepFit, SleepInv, NEW s \in Sig, Sends(s),
         \A u \in Thread : pend'[u] \cup ppend' \subseteq pend[u] \cup ppend \cup {s},
         \A u \in Thread : pend'[u] \cup ppend' = pend[u] \cup ppend \/ u \in flight'.to \/ ~ pending_should_wake(u, s)
  PROVE  SleepInv'
<1> USE DEF Sends
<1> SUFFICES ASSUME NEW u \in Thread PROVE SleepAt(u)'
  BY DEF SleepInv, Defaults
<1>1. SleepAt(u) /\ \A x \in Sig : Passes(x)' = Passes(x)
  BY DEF SleepInv, Passes
<1>2. ASSUME NEW x \in Sig, spc'[u] = "suspblk", x \in Deliverable(u)', ~ Passes(x)'
      PROVE  flight'.kind \in {"pending", "cont"} /\ u \in flight'.to
  <2>1. x \in pend'[u] \cup ppend' /\ x \notin mask[u]
    BY <1>2 DEF Deliverable
  <2>2. x \notin pend[u] \cup ppend
    BY <1>1, <1>2, <2>1 DEF SleepAt, Deliverable
  <2>3. x = s /\ pend'[u] \cup ppend' # pend[u] \cup ppend
    BY <2>1, <2>2
  <2>4. pending_should_wake(u, s)
    BY <1>1, <1>2, <2>1, <2>3 DEF Passes, pending_should_wake
  <2> QED BY <2>3, <2>4
<1>3. ASSUME NEW x \in Sig, spc'[u] = "waitblk", x \in pend'[u] \cup ppend', x \in waiting'[u]
      PROVE  flight'.kind = "pending" /\ u \in flight'.to /\ flight'.sig = x
  <2>1. x \notin pend[u] \cup ppend
    BY <1>1, <1>3 DEF SleepAt
  <2>2. x = s /\ pend'[u] \cup ppend' # pend[u] \cup ppend
    BY <1>3, <2>1
  <2>3. waiting[u] # None
    BY <1>3, SigAssumption DEF None
  <2>4. pending_should_wake(u, s)
    BY <1>3, <2>2, <2>3 DEF pending_should_wake
  <2>5. "sigwait" \in SigOps
    BY <1>1, <1>3 DEF SleepAt
  <2>6. s # SIGCONT
    BY <2>5 DEF SleepFit
  <2>7. generation_delivery(s) = "pending"
    BY <2>6 DEF generation_delivery
  <2> QED BY <2>2, <2>4, <2>7
<1> QED BY <1>1, <1>2, <1>3 DEF SleepAt

LEMMA SleepKill ==
  ASSUME SigTypeOK, SleepFit, SleepInv, NEW s \in Sig, sys_kill(s)
  PROVE  SleepInv'
<1>1. Sends(s)
  BY DEF sys_kill, send_process, CanSend, Idle, Sends, generation_delivery
<1>2. UNCHANGED pend /\ ppend' \subseteq ppend \cup {s} /\ flight'.to = Thread /\ ppend \subseteq ppend'
  BY DEF sys_kill, send_process
<1>3. \A u \in Thread : pend'[u] \cup ppend' \subseteq pend[u] \cup ppend \cup {s}
  BY <1>2
<1>4. \A u \in Thread : u \in flight'.to
  BY <1>2
<1> QED BY <1>1, <1>3, <1>4, SendKeeps

LEMMA SleepTkill ==
  ASSUME SigTypeOK, SleepFit, SleepInv, NEW t \in Thread, NEW s \in Sig, sys_tkill(t, s)
  PROVE  SleepInv'
<1>1. Sends(s)
  BY DEF sys_tkill, send_thread, CanSend, Idle, Sends, generation_delivery
<1>2. /\ UNCHANGED ppend /\ \A u \in Thread \ {t} : pend'[u] = pend[u]
      /\ pend'[t] \subseteq pend[t] \cup {s}
      /\ pending_should_wake(t, s) => t \in flight'.to
  BY DEF sys_tkill, send_thread, SigTypeOK
<1>3. \A u \in Thread : pend'[u] \cup ppend' \subseteq pend[u] \cup ppend \cup {s}
  BY <1>2
<1>4. \A u \in Thread : pend'[u] \cup ppend' = pend[u] \cup ppend \/ u \in flight'.to \/ ~ pending_should_wake(u, s)
  BY <1>2
<1> QED BY <1>1, <1>3, <1>4, SendKeeps

(* The dispatch pulls every sleeper that has something out of its wait.         *)
LEMMA SleepDispatch ==
  ASSUME SigTypeOK, SleepInv, apply_signal_dispatch \/ DispatchContinue
  PROVE  SleepInv'
<1>1. UNCHANGED <<pend, ppend, mask, waiting, action>>
  BY DEF apply_signal_dispatch, DispatchContinue
<1> SUFFICES ASSUME NEW u \in Thread PROVE SleepAt(u)'
  BY <1>1 DEF SleepInv, Defaults
<1>2. SleepAt(u) /\ \A x \in Sig : Passes(x)' = Passes(x)
  BY <1>1 DEF SleepInv, Passes
<1>3. /\ spc'[u] \in {"suspblk", "waitblk", "wait"} => spc'[u] = spc[u]
      /\ spc'[u] = "woken" => spc[u] \in {"waitblk", "woken"}
      /\ (spc'[u] \in {"suspblk", "waitblk"} /\ u \in flight.to) => ~ has_deliverable(u)
      /\ (flight.kind = "pending" /\ spc'[u] \in {"suspblk", "waitblk"} /\ u \in flight.to) => ~ pending_should_wake(u, flight.sig)
  BY DEF apply_signal_dispatch, DispatchContinue, Interrupt
<1>4. ~ (\E s \in Sig : spc'[u] = "suspblk" /\ s \in Deliverable(u)' /\ ~ Passes(s)')
  <2> SUFFICES ASSUME NEW s \in Sig, spc'[u] = "suspblk", s \in Deliverable(u)', ~ Passes(s)' PROVE FALSE
    OBVIOUS
  <2>1. spc[u] = "suspblk" /\ s \in Deliverable(u) /\ ~ Passes(s)
    BY <1>1, <1>2, <1>3 DEF Deliverable
  <2>2. u \in flight.to
    BY <1>2, <2>1 DEF SleepAt
  <2> QED BY <1>3, <2>1, <2>2 DEF has_deliverable
<1>5. ~ (\E s \in Sig : spc'[u] = "waitblk" /\ s \in pend'[u] \cup ppend' /\ s \in waiting'[u])
  <2> SUFFICES ASSUME NEW s \in Sig, spc'[u] = "waitblk", s \in pend'[u] \cup ppend', s \in waiting'[u] PROVE FALSE
    OBVIOUS
  <2>1. spc[u] = "waitblk" /\ s \in pend[u] \cup ppend /\ s \in waiting[u]
    BY <1>1, <1>3
  <2>2. flight.kind = "pending" /\ u \in flight.to /\ flight.sig = s
    BY <1>2, <2>1 DEF SleepAt
  <2>3. waiting[u] # None
    BY <2>1, SigAssumption DEF None
  <2> QED BY <1>3, <2>1, <2>2, <2>3 DEF pending_should_wake
<1> QED BY <1>2, <1>3, <1>4, <1>5 DEF SleepAt

(* Going to sleep: only with nothing to take.                                  *)
LEMMA SleepBlocks ==
  ASSUME SigTypeOK, SleepInv, NEW t \in Thread, sys_rt_sigsuspend(t) \/ SigwaitBlock(t)
  PROVE  SleepInv'
<1>1. UNCHANGED <<pend, ppend, mask, waiting, action, flight>>
  BY DEF sys_rt_sigsuspend, SigwaitBlock
<1>2. Around(t)
  BY <1>1 DEF sys_rt_sigsuspend, SigwaitBlock, Around, Passes, SigTypeOK
<1>3. Defaults'
  BY <1>1 DEF SleepInv, Defaults
<1>4. SleepAt(t)
  BY DEF SleepInv
<1>5. CASE sys_rt_sigsuspend(t)
  <2>1. spc'[t] = "suspend" \/ (spc'[t] = "suspblk" /\ ~ has_deliverable(t))
    BY <1>5 DEF sys_rt_sigsuspend, SigTypeOK
  <2>2. SleepAt(t)'
    BY <1>1, <2>1 DEF SleepAt, has_deliverable, Deliverable
  <2> QED BY <1>2, <1>3, <2>2, AroundKeeps
<1>6. CASE SigwaitBlock(t)
  <2>1. spc[t] = "wait" /\ (spc'[t] = "woken" \/ (spc'[t] = "waitblk" /\ ~ PendingIn(t, waiting[t])))
    BY <1>6 DEF SigwaitBlock, SigTypeOK
  <2>2. SleepAt(t)'
    BY <1>1, <1>4, <2>1 DEF SleepAt, PendingIn
  <2> QED BY <1>2, <1>3, <2>2, AroundKeeps
<1> QED BY <1>5, <1>6

(* Everything else leaves t awake.                                            *)
LEMMA SleepCalls ==
  ASSUME SigTypeOK, SleepFit, SleepInv, NEW t \in Thread,
         \/ \E s \in Sig, a \in {"dfl", "ign", "hnd", "once"} : sys_rt_sigaction(t, s, a)
         \/ \E m \in Masks : sys_rt_sigprocmask(t, m) \/ begin_sigsuspend(t, m)
         \/ \E s \in Sig : raise_current_fault_signal(t, s)
         \/ on_exec(t)
  PROVE  SleepInv'
<1>1. ASSUME NEW s \in Sig, NEW a \in {"dfl", "ign", "hnd", "once"}, sys_rt_sigaction(t, s, a) PROVE SleepInv'
  <2>1. UNCHANGED <<spc, flight>> /\ spc[t] = "user" /\ "action" \in SigOps
    BY <1>1 DEF sys_rt_sigaction, SigUser, RegistryOnly
  <2>2. Thread \ {t} = {}
    BY <2>1 DEF SleepFit, Alone
  <2>3. Around(t) /\ Defaults'
    BY <2>1, <2>2 DEF Around, Defaults
  <2> QED BY <2>1, <2>3, AwakeSleeps, AroundKeeps
<1>2. ASSUME NEW m \in Masks, sys_rt_sigprocmask(t, m) \/ begin_sigsuspend(t, m) PROVE SleepInv'
  <2>1. Around(t) /\ UNCHANGED action /\ spc'[t] \in {"trap", "susp"}
    BY <1>2 DEF sys_rt_sigprocmask, update_mask, begin_sigsuspend, Around, Passes, SigTypeOK
  <2>2. Defaults'
    BY <2>1 DEF SleepInv, Defaults
  <2> QED BY <2>1, <2>2, AwakeSleeps, AroundKeeps
<1>3. ASSUME NEW s \in Sig, raise_current_fault_signal(t, s) PROVE SleepInv'
  <2>1. UNCHANGED <<ppend, flight>> /\ spc'[t] = "trap"
        /\ \A u \in Thread \ {t} : spc'[u] = spc[u] /\ mask'[u] = mask[u] /\ waiting'[u] = waiting[u] /\ pend'[u] = pend[u]
    BY <1>3 DEF raise_current_fault_signal, force_thread_signal, SigTypeOK
  <2>2. action' = action \/ action' = [action EXCEPT ![s] = "dfl"]
    BY <1>3 DEF raise_current_fault_signal, force_thread_signal
  <2>3. Defaults'
    BY <2>2 DEF SleepInv, Defaults, SigTypeOK
  <2>4. Thread \ {t} = {} \/ \A x \in Sig : action'[x] = action[x]
    BY <2>2 DEF SleepFit, SleepInv, Defaults, Alone, SigTypeOK
  <2>5. Around(t)
    BY <2>1, <2>4 DEF Around, Passes
  <2> QED BY <2>1, <2>3, <2>5, AwakeSleeps, AroundKeeps
<1>4. CASE on_exec(t)
  <2>1. UNCHANGED <<spc, flight>> /\ spc[t] = "user" /\ Thread \ {t} = {}
    BY <1>4 DEF on_exec, SigUser, RegistryOnly
  <2>2. \A s \in Sig : action'[s] = action[s] \/ action'[s] = "dfl"
    BY <1>4 DEF on_exec, exec_process
  <2>3. Around(t) /\ Defaults'
    BY <2>1, <2>2 DEF Around, SleepInv, Defaults
  <2> QED BY <2>1, <2>3, AwakeSleeps, AroundKeeps
<1> QED BY <1>1, <1>2, <1>3, <1>4

LEMMA SleepMoves ==
  ASSUME SigTypeOK, SleepInv, NEW t \in Thread,
         \/ end_sigsuspend(t) \/ Trap(t) \/ BlockStopped(t) \/ DeliverStopped(t)
         \/ DeliverNothing(t) \/ restore_signal_frame(t)
  PROVE  SleepInv'
<1>1. /\ UNCHANGED <<waiting, action, flight>> /\ spc'[t] \in {"trap", "manual", "stopblk", "dead", "user"}
      /\ ppend' \subseteq ppend
      /\ \A u \in Thread \ {t} : spc'[u] \in {spc[u], "dead"} /\ mask'[u] = mask[u] /\ pend'[u] \subseteq pend[u]
  BY DEF end_sigsuspend, EndMask, Trap, BlockStopped, DeliverStopped, DeliverNothing, Consume,
         restore_signal_frame, SigTypeOK
<1>2. Around(t) /\ Defaults'
  BY <1>1 DEF Around, Passes, SleepInv, Defaults
<1> QED BY <1>1, <1>2, AwakeSleeps, AroundKeeps

LEMMA SleepWaits ==
  ASSUME SigTypeOK, SleepInv, NEW t \in Thread,
         (\E W \in SUBSET Sig \ {{}} : begin_signal_wait(t, W)) \/ sys_rt_sigtimedwait(t)
  PROVE  SleepInv'
<1>1. Takes(t) \/ UNCHANGED <<pend, ppend>>
  <2>1. ASSUME NEW W \in SUBSET Sig \ {{}}, begin_signal_wait(t, W) PROVE Takes(t) \/ UNCHANGED <<pend, ppend>>
    BY <2>1, TakeTakes DEF begin_signal_wait
  <2>2. CASE sys_rt_sigtimedwait(t)
    <3>1. waiting[t] \in SUBSET Sig
      BY <2>2 DEF sys_rt_sigtimedwait, SigTypeOK
    <3> QED BY <2>2, <3>1, TakeTakes DEF sys_rt_sigtimedwait
  <2> QED BY <2>1, <2>2
<1>2. ppend' \subseteq ppend /\ \A u \in Thread : pend'[u] \subseteq pend[u]
  BY <1>1 DEF Takes, SigTypeOK
<1>3. /\ UNCHANGED <<mask, action, flight>>
      /\ \A u \in Thread \ {t} : spc'[u] = spc[u] /\ waiting'[u] = waiting[u]
      /\ spc'[t] = "trap" \/ (spc'[t] = "wait" /\ "sigwait" \in SigOps)
  BY DEF begin_signal_wait, sys_rt_sigtimedwait, SigUser, SigTypeOK
<1>4. Around(t) /\ Defaults'
  BY <1>2, <1>3 DEF Around, Passes, SleepInv, Defaults
<1>5. SleepAt(t)'
  BY <1>3 DEF SleepAt
<1> QED BY <1>4, <1>5, AroundKeeps

LEMMA SleepTake ==
  ASSUME SigTypeOK, SleepInv, NEW t \in Thread, take_deliverable(t)
  PROVE  SleepInv'
<1> DEFINE s == Chosen(t)
<1>1. UNCHANGED flight /\ ppend' \subseteq ppend /\ \A u \in Thread \ {t} : pend'[u] = pend[u] /\ waiting'[u] = waiting[u]
  BY DEF take_deliverable, Consume, Unwait, SigTypeOK
<1>2. /\ \A u \in Thread \ {t} : mask'[u] = mask[u] /\ spc'[u] \in {spc[u], "dead"}
      /\ spc'[t] \in {"dead", "stopblk", "user"}
  BY DEF take_deliverable, SigTypeOK
<1>3. action' = action \/ (action[s] = "once" /\ action' = [action EXCEPT ![s] = "dfl"])
  BY DEF take_deliverable
<1> HIDE DEF s
<1>4. \A x \in Sig : Passes(x) => Passes(x)'
  BY <1>3 DEF Passes, SigTypeOK
<1>5. Defaults'
  BY <1>3 DEF SleepInv, Defaults, SigTypeOK
<1>6. Around(t)
  BY <1>1, <1>2, <1>4 DEF Around
<1> QED BY <1>2, <1>5, <1>6, AwakeSleeps, AroundKeeps

LEMMA SleepInit == SigInit => SleepInv
BY DEF SigInit, SleepInv, SleepAt, Defaults

LEMMA SleepNext ==
  ASSUME SigTypeOK, SleepFit, SleepInv, SigNext
  PROVE  SleepInv'
<1>1. ASSUME NEW t \in Thread, SigStep(t) PROVE SleepInv'
  <2>1. CASE \/ \E s \in Sig, a \in {"dfl", "ign", "hnd", "once"} : sys_rt_sigaction(t, s, a)
             \/ \E m \in Masks : sys_rt_sigprocmask(t, m) \/ begin_sigsuspend(t, m)
             \/ \E s \in Sig : raise_current_fault_signal(t, s)
             \/ on_exec(t)
    BY <2>1, SleepCalls
  <2>2. CASE \E s \in Sig : sys_tkill(t, s)
    BY <2>2, SleepTkill
  <2>3. CASE sys_rt_sigsuspend(t) \/ SigwaitBlock(t)
    BY <2>3, SleepBlocks
  <2>4. CASE \/ end_sigsuspend(t) \/ Trap(t) \/ BlockStopped(t) \/ DeliverStopped(t)
             \/ DeliverNothing(t) \/ restore_signal_frame(t)
    BY <2>4, SleepMoves
  <2>5. CASE (\E W \in SUBSET Sig \ {{}} : begin_signal_wait(t, W)) \/ sys_rt_sigtimedwait(t)
    BY <2>5, SleepWaits
  <2>6. CASE take_deliverable(t)
    BY <2>6, SleepTake
  <2> QED BY <1>1, <2>1, <2>2, <2>3, <2>4, <2>5, <2>6 DEF SigStep
<1> QED BY <1>1, SleepKill, SleepDispatch DEF SigNext
-----------------------------------------------------------------------------
(* Pending sets, masks, frames, actions and places keep their types whatever   *)
(* the threads, the signals and the calls are (SignalRegistry's state).        *)
THEOREM SigTypeCorrect == SigSpec => []SigTypeOK
<1>1. SigInit => SigTypeOK
  BY TypeInit
<1>2. SigTypeOK /\ [SigNext]_svars => SigTypeOK'
  <2>1. ASSUME SigTypeOK, UNCHANGED svars PROVE SigTypeOK'
    BY <2>1 DEF svars, SigTypeOK
  <2> QED BY <2>1, TypeNext
<1> QED BY <1>1, <1>2, PTL DEF SigSpec

(* The temporary mask of rt_sigsuspend never outlives it (begin_sigsuspend,     *)
(* end_sigsuspend, take_deliverable): outside every handler, user code has the *)
(* mask that it last asked for, if the thread is alone or nobody suspends.     *)
THEOREM MaskRestoredHolds == MasksFit => (SigSpec => []MaskRestored)
<1> SUFFICES ASSUME MasksFit PROVE SigSpec => []MaskRestored
  OBVIOUS
<1>1. SigInit => (SigTypeOK /\ MaskInv)
  BY TypeInit, MaskInit
<1>2. (SigTypeOK /\ MaskInv) /\ [SigNext]_svars => (SigTypeOK /\ MaskInv)'
  <2>1. ASSUME SigTypeOK, MaskInv, UNCHANGED svars PROVE SigTypeOK' /\ MaskInv'
    BY <2>1 DEF svars, SigTypeOK, MaskInv, MaskAt, previous_mask, has_deliverable, Deliverable
  <2> QED BY <2>1, TypeNext, MaskNext
<1>3. (SigTypeOK /\ MaskInv) => MaskRestored
  BY DEF SigTypeOK, MaskInv, MaskAt, MaskRestored, previous_mask
<1> QED BY <1>1, <1>2, <1>3, PTL DEF SigSpec

(* No signal is slept through: between a send's two steps (the registry, then   *)
(* apply_signal_dispatch outside its lock) the sleeper it concerns is always   *)
(* among those that the dispatch will visit.                                   *)
THEOREM NoSignalSleptThroughHolds == SleepFit => (SigSpec => []NoSignalSleptThrough)
<1> SUFFICES ASSUME SleepFit PROVE SigSpec => []NoSignalSleptThrough
  OBVIOUS
<1>1. SigInit => (SigTypeOK /\ SleepInv)
  BY TypeInit, SleepInit
<1>2. (SigTypeOK /\ SleepInv) /\ [SigNext]_svars => (SigTypeOK /\ SleepInv)'
  <2>1. ASSUME SigTypeOK, SleepInv, UNCHANGED svars PROVE SigTypeOK' /\ SleepInv'
    BY <2>1 DEF svars, SigTypeOK, SleepInv, SleepAt, Defaults, Passes, Deliverable
  <2> QED BY <2>1, TypeNext, SleepNext
<1>3. (SigTypeOK /\ SleepInv) => NoSignalSleptThrough
  <2> SUFFICES ASSUME SigTypeOK, SleepInv, NEW t \in Thread, NEW s \in Sig
               PROVE  /\ (spc[t] = "suspblk" /\ s \in Deliverable(t) \ Skipped(t)) => flight.kind # "none"
                      /\ (spc[t] = "waitblk" /\ PendingIn(t, waiting[t] \cap {s})) => flight.kind # "none"
    BY DEF SigTypeOK, NoSignalSleptThrough
  <2>1. SleepAt(t)
    BY DEF SleepInv
  <2>2. s \in Deliverable(t) \ Skipped(t) => ~ Passes(s)
    BY DEF Skipped, Passes
  <2>3. PendingIn(t, waiting[t] \cap {s}) => s \in pend[t] \cup ppend /\ s \in waiting[t]
    BY DEF PendingIn
  <2> QED BY <2>1, <2>2, <2>3 DEF SleepAt
<1> QED BY <1>1, <1>2, <1>3, PTL DEF SigSpec

(* Both, of one thread that makes any calls (no continue among the signals, or  *)
(* no sigtimedwait), and of many that keep their actions and do not suspend.    *)
THEOREM SignalsSoundHolds == MasksFit /\ SleepFit => (SigSpec => []SignalsSound)
<1>1. MaskRestored /\ NoSignalSleptThrough => SignalsSound
  BY DEF SignalsSound
<1> QED BY <1>1, MaskRestoredHolds, NoSignalSleptThroughHolds, PTL

-----------------------------------------------------------------------------
(* Timers.                                                                   *)

(* The time a handler goes by is not ahead of the clock.                       *)
TicksPast == \A c \in TCpu : tick[c].now <= now
TimerInv == TmTypeOK /\ TicksPast /\ RealIndexed /\ NoDrift

-----------------------------------------------------------------------------
(* Division by a positive number.                                             *)
LEMMA Divide ==
  ASSUME NEW a \in Nat, NEW i \in Nat \ {0}
  PROVE  a \div i \in Nat /\ (a \div i) * i <= a /\ a < (a \div i) * i + i
<1>1. a = (i * (a \div i)) + (a % i) /\ a % i \in 0 .. i - 1 /\ a \div i \in Int
  BY SMTT(30)
<1>2. a \div i \in Nat
  BY SMTT(30)
<1> QED BY <1>1, <1>2, SMTT(30)

(* (q + 1) periods are q periods and one.                                      *)
LEMMA OneMore == ASSUME NEW q \in Nat, NEW i \in Nat PROVE (q + 1) * i = q * i + i /\ q * i \in Nat
BY SMTT(30)
LEMMA Distribute == ASSUME NEW m \in Nat, NEW q \in Nat, NEW i \in Nat PROVE (m + q) * i = m * i + q * i
BY SMTT(30)

(* What expire makes of a timer that is due at t.                              *)
LEMMA Expired ==
  ASSUME NEW tm \in Timer, NEW t \in 0 .. MaxNow
  PROVE  /\ expire(tm, t) \in Timer
         /\ expire(tm, t).gen = tm.gen /\ expire(tm, t).interval = tm.interval
         /\ OnGrid(tm) => OnGrid(expire(tm, t))
         /\ Due(tm, t) => NextAfter(expire(tm, t), t)
         /\ Due(tm, t) /\ tm.interval = 0 => expire(tm, t).deadline = Never
<1> DEFINE i == tm.interval  d == tm.deadline  q == (t - d) \div i  e == expire(tm, t)
<1>1. MaxNow \in Nat /\ MaxSpan \in Nat /\ MaxGen \in Nat
  BY TimerAssumption DEF TimerAssumption
<1>2. i \in 0 .. MaxSpan /\ d \in -1 .. MaxNow + MaxSpan /\ tm.periods \in Nat /\ tm.base \in Deadline /\ tm.gen \in -1 .. MaxGen
  BY DEF Timer, Span, Deadline, Never
<1>3. CASE ~Due(tm, t)
  BY <1>3 DEF expire
<1>4. CASE Due(tm, t) /\ i = 0
  <2>1. e = [tm EXCEPT !.deadline = Never, !.periods = tm.periods + 1]
    BY <1>4, <1>2 DEF expire, Periods
  <2>2. Never \in Deadline /\ tm.periods + 1 \in Nat
    BY <1>1, <1>2 DEF Never, Deadline
  <2>3. e \in Timer
    BY <2>1, <2>2 DEF Timer
  <2>4. e.deadline = Never /\ e.gen = tm.gen /\ e.interval = i
    BY <2>1 DEF Timer
  <2>5. OnGrid(e) /\ NextAfter(e, t)
    BY <2>4, <1>4 DEF OnGrid, NextAfter
  <2> QED BY <2>3, <2>4, <2>5
<1>5. CASE Due(tm, t) /\ i # 0
  <2>1. d \in Nat /\ d <= t /\ t - d \in Nat /\ i \in Nat \ {0} /\ d # Never
    BY <1>5, <1>1, <1>2 DEF Due, Never
  <2>2. q \in Nat /\ q * i <= t - d /\ t - d < q * i + i /\ q * i \in Nat /\ (q + 1) * i = q * i + i
    BY <2>1, Divide, OneMore
  <2>3. Periods(tm, t) = q + 1
    BY <1>5 DEF Periods
  <2>4. e = [tm EXCEPT !.deadline = d + (q + 1) * i, !.periods = tm.periods + (q + 1)]
    BY <1>5, <2>3 DEF expire
  <2> DEFINE new == d + (q + 1) * i
  <2>5. new \in t + 1 .. t + i /\ new \in Deadline /\ new # Never
    <3> DEFINE k == q * i
    <3>1. new = d + (k + i) /\ k \in Nat /\ k <= t - d /\ t - d < k + i
      BY <2>2
    <3> HIDE DEF k, new, q, i, d
    <3>2. i \in 0 .. MaxSpan /\ t \in 0 .. MaxNow
      BY <1>2
    <3> QED BY <3>1, <3>2, <2>1, <1>1 DEF Deadline, Never
  <2>6. tm.periods + (q + 1) \in Nat
    BY <1>2, <2>2
  <2>7. e \in Timer
    BY <2>4, <2>5, <2>6 DEF Timer
  <2>8. e.deadline = new /\ e.gen = tm.gen /\ e.interval = i /\ e.base = tm.base /\ e.periods = tm.periods + (q + 1)
    BY <2>4 DEF Timer
  <2>9. NextAfter(e, t)
    BY <2>5, <2>8 DEF NextAfter
  <2>10. ASSUME OnGrid(tm) PROVE OnGrid(e)
    <3>1. d = tm.base + tm.periods * i
      BY <2>10, <2>1 DEF OnGrid
    <3>2. (tm.periods + (q + 1)) * i = tm.periods * i + (q + 1) * i
      BY <1>2, <2>1, <2>2, Distribute
    <3>3. tm.base \in Int /\ tm.periods * i \in Int /\ (q + 1) * i \in Int
      BY <1>1, <1>2, <2>1, <2>2 DEF Deadline, Never
    <3> DEFINE a == tm.periods * i  b == (q + 1) * i  s == (tm.periods + (q + 1)) * i
    <3>4. new = d + b /\ d = tm.base + a /\ s = a + b /\ a \in Int /\ b \in Int
      BY <3>1, <3>2, <3>3
    <3>5. new = tm.base + s
      <4> HIDE DEF a, b, s, new, d
      <4> QED BY <3>4, <3>3
    <3> QED BY <3>5, <2>8 DEF OnGrid
  <2> QED BY <1>5, <2>7, <2>8, <2>9, <2>10
<1> QED BY <1>3, <1>4, <1>5

(* What setting a timer makes of it.                                           *)
LEMMA Replaced ==
  ASSUME NEW tm \in Timer, tm.gen < MaxGen, NEW v \in Span, NEW n \in Span, NEW t \in 0 .. MaxNow
  PROVE  /\ replace(tm, v, n, t) \in Timer /\ OnGrid(replace(tm, v, n, t))
         /\ replace(tm, v, n, t).gen = tm.gen + 1 /\ tm.gen + 1 \in 0 .. MaxGen
         /\ replace(tm, v, n, t).deadline # Never => replace(tm, v, n, t).deadline \in 0 .. MaxNow + MaxSpan
<1> DEFINE d == IF v = 0 THEN Never ELSE t + v  r == replace(tm, v, n, t)
<1>1. MaxNow \in Nat /\ MaxSpan \in Nat /\ MaxGen \in Nat /\ tm.gen \in -1 .. MaxGen
  BY TimerAssumption DEF TimerAssumption, Timer
<1>2. d \in Deadline /\ (d # Never => d \in 0 .. MaxNow + MaxSpan)
  BY <1>1 DEF Deadline, Never, Span
<1>3. r = [interval |-> n, deadline |-> d, gen |-> tm.gen + 1, base |-> d, periods |-> 0]
  BY DEF replace
<1>4. tm.gen + 1 \in 0 .. MaxGen /\ tm.gen + 1 \in -1 .. MaxGen
  BY <1>1
<1> HIDE DEF d
<1>5. r \in Timer
  BY <1>2, <1>3, <1>4 DEF Timer
<1>6. n \in Nat /\ d \in Int
  BY <1>1, <1>2 DEF Span, Deadline, Never
<1>7. OnGrid(r)
  <2>1. r.deadline = d /\ r.base = d /\ r.periods = 0 /\ r.interval = n
    BY <1>3
  <2>2. d = d + 0 * n
    BY <1>6
  <2> QED BY <2>1, <2>2 DEF OnGrid
<1> QED BY <1>2, <1>3, <1>4, <1>5, <1>7

LEMMA OffTimers == Off \in Timer /\ NoTimer \in Timer /\ OnGrid(Off) /\ OnGrid(NoTimer) /\ Off.deadline = Never
<1>1. MaxNow \in Nat /\ MaxSpan \in Nat /\ MaxGen \in Nat
  BY TimerAssumption DEF TimerAssumption
<1>2. 0 \in Span /\ Never \in Deadline /\ 0 \in -1 .. MaxGen /\ -1 \in -1 .. MaxGen
  BY <1>1 DEF Span, Deadline, Never
<1>3. Off \in Timer
  BY <1>2 DEF Off, Timer
<1>4. NoTimer \in Timer
  BY <1>2 DEF Off, NoTimer, Timer
<1> QED BY <1>3, <1>4 DEF Off, NoTimer, OnGrid

-----------------------------------------------------------------------------
LEMMA InvInit == TmInit => TimerInv
<1> SUFFICES ASSUME TmInit PROVE TimerInv
  OBVIOUS
<1>1. MaxNow \in Nat /\ MaxSpan \in Nat /\ MaxGen \in Nat
  BY TimerAssumption DEF TimerAssumption
<1>2. \A p \in TProc : real[p] = Off /\ virt[p] = Off /\ \A i \in TimerId : posix[p][i] = NoTimer
  BY DEF TmInit
<1>3. TmTypeOK
  <2>1. 0 \in 0 .. MaxNow
    BY <1>1
  <2>2. real \in [TProc -> Timer] /\ virt \in [TProc -> Timer] /\ posix \in [TProc -> [TimerId -> Timer]]
    BY OffTimers DEF TmInit
  <2>3. IdleTick \in [pc : {"idle", "cpu", "real", "posix"}, now : 0 .. MaxNow, user : BOOLEAN]
    BY <2>1 DEF IdleTick
  <2>4. ucpu \in [TProc -> 0 .. MaxNow] /\ last \in [TCpu -> 0 .. MaxNow] /\ now \in 0 .. MaxNow /\ index = {}
    BY <2>1 DEF TmInit
  <2>5. tick \in [TCpu -> [pc : {"idle", "cpu", "real", "posix"}, now : 0 .. MaxNow, user : BOOLEAN]]
    BY <2>3 DEF TmInit
  <2> QED BY <2>2, <2>4, <2>5 DEF TmTypeOK
<1>4. TicksPast
  BY DEF TmInit, TicksPast, IdleTick
<1>5. RealIndexed
  BY <1>2, OffTimers DEF RealIndexed
<1>6. NoDrift
  BY <1>2, OffTimers DEF NoDrift
<1> QED BY <1>3, <1>4, <1>5, <1>6 DEF TimerInv

(* A setting of ITIMER_REAL: whatever entries are in the index, its own is one. *)
LEMMA SetReal ==
  ASSUME TimerInv, NEW p \in TProc, NEW v \in Span, NEW n \in Span, NEW t \in 0 .. now,
         set_timer_real(p, v, n, t)
  PROVE  TimerInv'
<1> DEFINE tm == replace(real[p], v, n, t)
<1>1. /\ TmTypeOK /\ TicksPast /\ RealIndexed /\ NoDrift /\ real[p] \in Timer /\ real[p].gen < MaxGen
      /\ t \in 0 .. MaxNow
  BY TimerAssumption DEF TimerInv, TmTypeOK, set_timer_real, TimerAssumption
<1>2. /\ tm \in Timer /\ OnGrid(tm) /\ tm.gen \in 0 .. MaxGen
      /\ tm.deadline # Never => tm.deadline \in 0 .. MaxNow + MaxSpan
  BY <1>1, Replaced
<1> HIDE DEF tm
<1>3. /\ real' = [real EXCEPT ![p] = tm] /\ real'[p] = tm /\ \A q \in TProc \ {p} : real'[q] = real[q]
      /\ index' = IF tm.deadline = Never THEN index
                  ELSE index \cup {[at |-> tm.deadline, pid |-> p, gen |-> tm.gen]}
  BY <1>1 DEF set_timer_real, TmTypeOK, tm
<1>4. UNCHANGED <<now, ucpu, virt, posix, tick, last>>
  BY DEF set_timer_real
<1>5. TmTypeOK'
  <2>1. index' \subseteq [at : 0 .. MaxNow + MaxSpan, pid : TProc, gen : 0 .. MaxGen]
    BY <1>1, <1>2, <1>3 DEF TmTypeOK
  <2>2. real' \in [TProc -> Timer]
    BY <1>1, <1>2, <1>3 DEF TmTypeOK
  <2> QED BY <1>1, <1>4, <2>1, <2>2 DEF TmTypeOK
<1>6. RealIndexed'
  <2> SUFFICES ASSUME NEW q \in TProc, real'[q].deadline # Never
               PROVE  [at |-> real'[q].deadline, pid |-> q, gen |-> real'[q].gen] \in index'
    BY DEF RealIndexed
  <2>1. CASE q = p
    BY <2>1, <1>3
  <2>2. CASE q # p
    BY <2>2, <1>1, <1>3 DEF RealIndexed
  <2> QED BY <2>1, <2>2
<1>7. NoDrift'
  BY <1>1, <1>2, <1>3, <1>4 DEF NoDrift
<1>8. TicksPast'
  BY <1>1, <1>4 DEF TicksPast
<1> QED BY <1>5, <1>6, <1>7, <1>8 DEF TimerInv

(* A step that changes only a CPU timer.                                       *)
LEMMA CpuTimer ==
  ASSUME TimerInv, NEW p \in TProc, NEW tm \in Timer, OnGrid(tm), virt' = [virt EXCEPT ![p] = tm],
         UNCHANGED <<real, index, posix>>
  PROVE  virt' \in [TProc -> Timer] /\ NoDrift' /\ RealIndexed'
<1>1. TmTypeOK /\ RealIndexed /\ NoDrift
  BY DEF TimerInv
<1>2. virt' \in [TProc -> Timer] /\ virt'[p] = tm /\ \A q \in TProc \ {p} : virt'[q] = virt[q]
  BY <1>1 DEF TmTypeOK
<1> QED BY <1>1, <1>2 DEF NoDrift, RealIndexed

(* A step that changes only one POSIX timer.                                   *)
LEMMA PosixTimer ==
  ASSUME TimerInv, NEW p \in TProc, NEW i \in TimerId, NEW tm \in Timer, OnGrid(tm),
         posix' = [posix EXCEPT ![p][i] = tm], UNCHANGED <<now, ucpu, real, virt, index, tick, last>>
  PROVE  TimerInv'
<1>1. TmTypeOK /\ TicksPast /\ RealIndexed /\ NoDrift
  BY DEF TimerInv
<1>2. posix' \in [TProc -> [TimerId -> Timer]]
  BY <1>1 DEF TmTypeOK
<1>3. \A q \in TProc, j \in TimerId : posix'[q][j] = IF q = p /\ j = i THEN tm ELSE posix[q][j]
  BY <1>1 DEF TmTypeOK
<1>4. NoDrift'
  BY <1>1, <1>3 DEF NoDrift
<1> QED BY <1>1, <1>2, <1>4 DEF TimerInv, TmTypeOK, TicksPast, RealIndexed

LEMMA SetVirtual ==
  ASSUME TimerInv, NEW p \in TProc, NEW v \in Span, NEW n \in Span, set_timer_virtual(p, v, n)
  PROVE  TimerInv'
<1> DEFINE tm == replace(virt[p], v, n, ucpu[p])
<1>1. TmTypeOK /\ TicksPast /\ virt[p] \in Timer /\ virt[p].gen < MaxGen /\ ucpu[p] \in 0 .. MaxNow
  BY DEF TimerInv, TmTypeOK, set_timer_virtual
<1>2. tm \in Timer /\ OnGrid(tm)
  BY <1>1, Replaced
<1>3. virt' = [virt EXCEPT ![p] = tm] /\ UNCHANGED <<now, ucpu, real, index, posix, tick, last>>
  BY DEF set_timer_virtual
<1>4. virt' \in [TProc -> Timer] /\ NoDrift' /\ RealIndexed'
  BY <1>2, <1>3, CpuTimer
<1> QED BY <1>1, <1>3, <1>4 DEF TimerInv, TmTypeOK, TicksPast

LEMMA SetPosix ==
  ASSUME TimerInv, NEW p \in TProc, NEW i \in TimerId, NEW v \in Span, NEW n \in Span, NEW b \in BOOLEAN,
         NEW t \in 0 .. now, set_posix_timer(p, i, v, n, b, t)
  PROVE  TimerInv'
<1> DEFINE s == IF b THEN 0 ELSE t  tm == replace(posix[p][i], v, n, s)
<1>1. posix[p][i] \in Timer /\ posix[p][i].gen < MaxGen /\ s \in 0 .. MaxNow
  BY TimerAssumption DEF TimerInv, TmTypeOK, set_posix_timer, TimerAssumption
<1>2. tm \in Timer /\ OnGrid(tm)
  BY <1>1, Replaced
<1>3. posix' = [posix EXCEPT ![p][i] = tm] /\ UNCHANGED <<now, ucpu, real, virt, index, tick, last>>
  BY DEF set_posix_timer
<1> QED BY <1>2, <1>3, PosixTimer

LEMMA MakePosix ==
  ASSUME TimerInv, NEW p \in TProc, NEW i \in TimerId, create_posix_timer(p, i) \/ delete_posix_timer(p, i)
  PROVE  TimerInv'
<1>1. \E tm \in {Off, NoTimer} : posix' = [posix EXCEPT ![p][i] = tm]
  BY DEF create_posix_timer, delete_posix_timer
<1>2. UNCHANGED <<now, ucpu, real, virt, index, tick, last>>
  BY DEF create_posix_timer, delete_posix_timer
<1> QED BY <1>1, <1>2, OffTimers, PosixTimer

LEMMA Passing == ASSUME TimerInv, Pass PROVE TimerInv'
<1>1. UNCHANGED <<ucpu, real, virt, index, posix, tick, last>> /\ now' = now + 1 /\ now' \in 0 .. MaxNow
  BY TimerAssumption DEF Pass, TimerInv, TmTypeOK, TimerAssumption
<1>2. TicksPast'
  BY <1>1, TimerAssumption DEF TimerInv, TmTypeOK, TicksPast, TimerAssumption
<1> QED BY <1>1, <1>2 DEF TimerInv, TmTypeOK, RealIndexed, NoDrift

-----------------------------------------------------------------------------
(* The handler of the timer interrupt.                                        *)
Ticks == [pc : {"idle", "cpu", "real", "posix"}, now : 0 .. MaxNow, user : BOOLEAN]
LEMMA TickStarts == ASSUME TimerInv, NEW c \in TCpu, NEW u \in BOOLEAN, timer_tick(c, u) PROVE TimerInv'
<1> DEFINE k == [pc |-> "cpu", now |-> now, user |-> u]
<1>1. tick' = [tick EXCEPT ![c] = k] /\ UNCHANGED <<now, ucpu, real, virt, index, posix, last>>
  BY DEF timer_tick
<1>2. k \in Ticks /\ tick \in [TCpu -> Ticks] /\ now \in 0 .. MaxNow
  BY DEF Ticks, TimerInv, TmTypeOK
<1>3. tick' \in [TCpu -> Ticks]
  BY <1>1, <1>2
<1>4. TicksPast'
  BY <1>1, <1>2, TimerAssumption DEF TimerInv, TicksPast, TimerAssumption
<1> QED BY <1>1, <1>3, <1>4 DEF TimerInv, TmTypeOK, RealIndexed, NoDrift, Ticks

(* A step of the handler does not change the time it goes by, or ends it.      *)
LEMMA TickMoves ==
  ASSUME TimerInv, NEW c \in TCpu, NEW x \in {"idle", "cpu", "real", "posix"}, UNCHANGED now,
         tick' = [tick EXCEPT ![c].pc = x] \/ tick' = [tick EXCEPT ![c] = IdleTick]
  PROVE  tick' \in [TCpu -> Ticks] /\ TicksPast' /\ tick[c].now \in 0 .. MaxNow /\ tick[c].now <= now
<1>1. tick \in [TCpu -> Ticks] /\ TicksPast /\ now \in 0 .. MaxNow
  BY DEF Ticks, TimerInv, TmTypeOK
<1>2. tick[c] \in Ticks /\ tick[c].now \in 0 .. MaxNow /\ tick[c].now <= now
  BY <1>1 DEF Ticks, TicksPast
<1>3. IdleTick \in Ticks /\ IdleTick.now <= now
  BY <1>1, TimerAssumption DEF Ticks, IdleTick, TimerAssumption
<1>4. CASE tick' = [tick EXCEPT ![c].pc = x]
  <2>1. [tick[c] EXCEPT !.pc = x] \in Ticks /\ [tick[c] EXCEPT !.pc = x].now = tick[c].now
    BY <1>2 DEF Ticks
  <2>2. tick' = [tick EXCEPT ![c] = [tick[c] EXCEPT !.pc = x]]
    BY <1>4
  <2>3. tick' \in [TCpu -> Ticks]
    BY <1>1, <2>1, <2>2
  <2>4. \A d \in TCpu : tick'[d].now = tick[d].now
    BY <1>1, <2>1, <2>2
  <2> QED BY <1>1, <1>2, <2>3, <2>4 DEF TicksPast
<1>5. CASE tick' = [tick EXCEPT ![c] = IdleTick]
  <2>1. tick' \in [TCpu -> Ticks] /\ tick'[c] = IdleTick /\ \A d \in TCpu \ {c} : tick'[d] = tick[d]
    BY <1>1, <1>3, <1>5
  <2> QED BY <1>1, <1>2, <1>3, <2>1 DEF TicksPast
<1> QED BY <1>4, <1>5

LEMMA Accounting ==
  ASSUME TimerInv, NEW c \in TCpu, NEW p \in TProc, account_cpu(c, p)
  PROVE  TimerInv' /\ FiresDue /\ CatchesUp
<1> DEFINE elapsed == IF tick[c].now > last[c] THEN tick[c].now - last[c] ELSE 0
           u == IF tick[c].user THEN ucpu[p] + elapsed ELSE ucpu[p]
           tm == expire(virt[p], u)
<1>1. /\ tick' = [tick EXCEPT ![c].pc = "real"] /\ u <= MaxNow /\ last' = [last EXCEPT ![c] = tick[c].now]
      /\ ucpu' = [ucpu EXCEPT ![p] = u] /\ virt' = [virt EXCEPT ![p] = tm]
      /\ sent' = IF Due(virt[p], u) THEN {<<p, "vtalrm">>} ELSE {}
      /\ UNCHANGED <<now, real, index, posix>>
  BY DEF account_cpu
<1>2. tick' \in [TCpu -> Ticks] /\ TicksPast' /\ tick[c].now \in 0 .. MaxNow
  BY <1>1, TickMoves
<1>3. TmTypeOK /\ virt[p] \in Timer /\ u \in 0 .. MaxNow
  <2>1. TmTypeOK /\ virt[p] \in Timer /\ ucpu[p] \in 0 .. MaxNow /\ last[c] \in 0 .. MaxNow /\ MaxNow \in Nat
    BY TimerAssumption DEF TimerInv, TmTypeOK, TimerAssumption
  <2>2. elapsed \in Nat
    BY <1>2, <2>1
  <2> QED BY <1>1, <2>1, <2>2
<1>4. tm \in Timer /\ OnGrid(tm) /\ (Due(virt[p], u) => NextAfter(tm, u))
  BY <1>3, Expired DEF TimerInv, NoDrift
<1> HIDE DEF u, tm
<1>5. virt' \in [TProc -> Timer] /\ NoDrift' /\ RealIndexed'
  BY <1>1, <1>4, CpuTimer
<1>6. TmTypeOK'
  BY <1>1, <1>2, <1>3, <1>5 DEF TmTypeOK, Ticks
<1>7. ucpu'[p] = u /\ virt'[p] = tm
  BY <1>1, <1>3 DEF TmTypeOK
<1>8. FiresDue /\ CatchesUp
  <2> SUFFICES ASSUME NEW q \in TProc
               PROVE  /\ <<q, "alrm">> \notin sent' /\ \A i \in TimerId : <<q, "timer", i>> \notin sent'
                      /\ <<q, "vtalrm">> \in sent' => Due(virt[q], ucpu'[q]) /\ NextAfter(virt'[q], ucpu'[q])
    BY DEF FiresDue, CatchesUp
  <2>1. \A x \in sent' : x = <<p, "vtalrm">> /\ Due(virt[p], u)
    BY <1>1
  <2>2. <<q, "alrm">> \notin sent' /\ \A i \in TimerId : <<q, "timer", i>> \notin sent'
    BY <2>1
  <2>3. <<q, "vtalrm">> \in sent' => q = p /\ Due(virt[p], u)
    BY <2>1
  <2> QED BY <2>2, <2>3, <1>4, <1>7
<1> QED BY <1>2, <1>5, <1>6, <1>8 DEF TimerInv

(* The entries that are due go, those whose timer they are the entry of fire it, *)
(* and the entry of a timer that does not fire stays: were it due, it would.     *)
LEMMA ExpiringReal ==
  ASSUME TimerInv, NEW c \in TCpu, expire_realtime(c)
  PROVE  TimerInv' /\ FiresDue /\ CatchesUp
<1> DEFINE t == tick[c].now
           due == {e \in index : e.at <= t}
           hit == {e.pid : e \in {d \in due : Current(d)}}
           new == [p \in TProc |-> IF p \in hit THEN expire(real[p], t) ELSE real[p]]
<1>1. /\ tick' = [tick EXCEPT ![c].pc = "posix"] /\ real' = new
      /\ index' = (index \ due) \cup {[at |-> new[p].deadline, pid |-> p, gen |-> new[p].gen] :
                                        p \in {q \in hit : new[q].deadline # Never}}
      /\ sent' = {<<p, "alrm">> : p \in hit}
      /\ UNCHANGED <<now, ucpu, virt, posix, last>>
  BY DEF expire_realtime
<1>2. tick' \in [TCpu -> Ticks] /\ TicksPast' /\ t \in 0 .. MaxNow /\ t <= now
  BY <1>1, TickMoves
<1>3. /\ TmTypeOK /\ RealIndexed /\ NoDrift /\ real \in [TProc -> Timer] /\ now \in 0 .. MaxNow
      /\ index \subseteq [at : 0 .. MaxNow + MaxSpan, pid : TProc, gen : 0 .. MaxGen]
  BY DEF TimerInv, TmTypeOK
<1>4. ASSUME NEW p \in hit
      PROVE  /\ p \in TProc /\ real[p] \in Timer /\ real[p].gen \in 0 .. MaxGen /\ Due(real[p], t) /\ Due(real[p], now)
             /\ new[p] = expire(real[p], t)
  <2>1. PICK e \in index : e.at <= t /\ e.pid = p /\ Current(e)
    OBVIOUS
  <2>2. p \in TProc /\ e.at \in 0 .. MaxNow + MaxSpan /\ e.gen \in 0 .. MaxGen
    BY <1>3, <2>1
  <2>3. real[p].gen = e.gen /\ real[p].deadline = e.at
    BY <2>1 DEF Current
  <2>4. e.at # Never /\ e.at <= now
    BY <2>1, <2>2, <1>2, <1>3, TimerAssumption DEF Never, TimerAssumption
  <2>5. new[p] = expire(real[p], t)
    BY <2>2
  <2> QED BY <2>1, <2>2, <2>3, <2>4, <2>5, <1>3 DEF Due
<1>5. ASSUME NEW p \in TProc
      PROVE  /\ new[p] \in Timer /\ OnGrid(new[p])
             /\ p \notin hit => new[p] = real[p]
             /\ p \in hit => /\ new[p].gen = real[p].gen /\ NextAfter(new[p], t)
  <2>1. real[p] \in Timer /\ OnGrid(real[p])
    BY <1>3 DEF NoDrift
  <2>2. CASE p \in hit
    <3>1. new[p] = expire(real[p], t) /\ Due(real[p], t)
      BY <2>2, <1>4
    <3> HIDE DEF hit, new, t
    <3> QED BY <2>1, <2>2, <3>1, <1>2, Expired
  <2>3. CASE p \notin hit
    <3>1. new[p] = real[p]
      BY <2>3
    <3> HIDE DEF hit, new, t
    <3> QED BY <2>1, <2>3, <3>1
  <2> QED BY <2>2, <2>3
<1>6. real' \in [TProc -> Timer]
  <2>1. real' = [p \in TProc |-> new[p]]
    BY <1>1
  <2> HIDE DEF new, hit
  <2> QED BY <2>1, <1>5
<1>7. RealIndexed'
  <2> SUFFICES ASSUME NEW p \in TProc, real'[p].deadline # Never
               PROVE  [at |-> real'[p].deadline, pid |-> p, gen |-> real'[p].gen] \in index'
    BY DEF RealIndexed
  <2>1. real'[p] = new[p]
    BY <1>1
  <2>2. CASE p \in hit
    <3> HIDE DEF hit, new, due
    <3> QED BY <1>1, <2>1, <2>2
  <2>3. CASE p \notin hit
    <3> DEFINE e == [at |-> real[p].deadline, pid |-> p, gen |-> real[p].gen]
    <3>1. real'[p] = real[p] /\ e \in index
      BY <2>1, <2>3, <1>3, <1>5 DEF RealIndexed
    <3>2. e.pid = p /\ Current(e)
      BY DEF Current
    <3>3. e \notin due
      BY <3>2, <2>3
    <3>4. e \in index'
      <4> HIDE DEF hit, new, due, e
      <4> QED BY <3>1, <3>3, <1>1
    <3> QED BY <3>1, <3>4
  <2> QED BY <2>2, <2>3
<1>8. NoDrift'
  <2>1. \A p \in TProc : real'[p] = new[p] /\ virt'[p] = virt[p] /\ posix'[p] = posix[p]
    BY <1>1
  <2> HIDE DEF new, hit
  <2> QED BY <2>1, <1>3, <1>5 DEF NoDrift
<1>9. index' \subseteq [at : 0 .. MaxNow + MaxSpan, pid : TProc, gen : 0 .. MaxGen]
  <2> SUFFICES ASSUME NEW p \in hit, new[p].deadline # Never
               PROVE  [at |-> new[p].deadline, pid |-> p, gen |-> new[p].gen]
                        \in [at : 0 .. MaxNow + MaxSpan, pid : TProc, gen : 0 .. MaxGen]
    <3> HIDE DEF hit, new, due
    <3> QED BY <1>1, <1>3
  <2>1. p \in TProc /\ new[p].gen \in 0 .. MaxGen /\ new[p] \in Timer
    <3> HIDE DEF hit, new
    <3> QED BY <1>4, <1>5
  <2> HIDE DEF new, hit
  <2>2. new[p].deadline \in 0 .. MaxNow + MaxSpan
    BY <2>1, TimerAssumption DEF Timer, Deadline, Never, TimerAssumption
  <2> QED BY <2>1, <2>2
<1>10. TmTypeOK'
  BY <1>1, <1>2, <1>3, <1>6, <1>9 DEF TmTypeOK, Ticks
<1>11. FiresDue /\ CatchesUp
  <2> SUFFICES ASSUME NEW q \in TProc
               PROVE  /\ <<q, "vtalrm">> \notin sent' /\ \A i \in TimerId : <<q, "timer", i>> \notin sent'
                      /\ <<q, "alrm">> \in sent' => Due(real[q], now) /\ NextAfter(real'[q], tick[c].now)
    BY DEF FiresDue, CatchesUp
  <2>1. real'[q] = new[q]
    BY <1>1
  <2> HIDE DEF hit, new
  <2>2. \A x \in sent' : \E p \in hit : x = <<p, "alrm">>
    BY <1>1
  <2>3. <<q, "vtalrm">> \notin sent' /\ \A i \in TimerId : <<q, "timer", i>> \notin sent'
    BY <2>2
  <2>4. <<q, "alrm">> \in sent' => q \in hit
    BY <2>2
  <2> QED BY <2>1, <2>3, <2>4, <1>4, <1>5
<1> QED BY <1>2, <1>7, <1>8, <1>10, <1>11 DEF TimerInv

LEMMA ExpiringPosix ==
  ASSUME TimerInv, NEW c \in TCpu, expire_posix_timers(c)
  PROVE  TimerInv' /\ FiresDue /\ CatchesUp
<1> DEFINE t == tick[c].now
<1>1. /\ tick' = [tick EXCEPT ![c] = IdleTick]
      /\ posix' = [p \in TProc |-> [i \in TimerId |-> expire(posix[p][i], t)]]
      /\ sent' = {<<x[1], "timer", x[2]>> : x \in {y \in TProc \X TimerId : Due(posix[y[1]][y[2]], t)}}
      /\ UNCHANGED <<now, ucpu, real, virt, index, last>>
  BY DEF expire_posix_timers
<1>2. tick' \in [TCpu -> Ticks] /\ TicksPast' /\ t \in 0 .. MaxNow /\ t <= now
  BY <1>1, TickMoves
<1>3. /\ TmTypeOK /\ RealIndexed /\ NoDrift /\ posix \in [TProc -> [TimerId -> Timer]] /\ now \in 0 .. MaxNow
  BY DEF TimerInv, TmTypeOK
<1> HIDE DEF t
<1>4. ASSUME NEW p \in TProc, NEW i \in TimerId
      PROVE  /\ posix'[p][i] \in Timer /\ OnGrid(posix'[p][i]) /\ (Due(posix[p][i], t) => NextAfter(posix'[p][i], t))
             /\ Due(posix[p][i], t) => Due(posix[p][i], now)
  <2>1. posix'[p][i] = expire(posix[p][i], t)
    BY <1>1
  <2>2. posix[p][i] \in Timer /\ OnGrid(posix[p][i])
    BY <1>3 DEF NoDrift
  <2>3. posix[p][i].deadline \in Int /\ t \in Int /\ now \in Int
    BY <2>2, <1>2, <1>3, TimerAssumption DEF Timer, Deadline, Never, TimerAssumption
  <2>4. Due(posix[p][i], t) => Due(posix[p][i], now)
    BY <2>3, <1>2 DEF Due
  <2> QED BY <2>1, <2>2, <2>4, <1>2, Expired
<1>5. posix' \in [TProc -> [TimerId -> Timer]]
  <2>1. posix' = [p \in TProc |-> [i \in TimerId |-> posix'[p][i]]]
    BY <1>1
  <2> QED BY <2>1, <1>4
<1>6. NoDrift'
  BY <1>1, <1>3, <1>4 DEF NoDrift
<1>7. TmTypeOK' /\ RealIndexed'
  BY <1>1, <1>2, <1>3, <1>5 DEF TmTypeOK, Ticks, RealIndexed
<1>8. FiresDue /\ CatchesUp
  <2> SUFFICES ASSUME NEW q \in TProc
               PROVE  /\ <<q, "vtalrm">> \notin sent' /\ <<q, "alrm">> \notin sent'
                      /\ \A i \in TimerId : <<q, "timer", i>> \in sent' =>
                           Due(posix[q][i], now) /\ NextAfter(posix'[q][i], tick[c].now)
    BY DEF FiresDue, CatchesUp
  <2>1. ASSUME NEW x \in sent'
        PROVE  \E p \in TProc, i \in TimerId : x = <<p, "timer", i>> /\ Due(posix[p][i], t)
    <3>1. PICK y \in TProc \X TimerId : Due(posix[y[1]][y[2]], t) /\ x = <<y[1], "timer", y[2]>>
      BY <1>1
    <3>2. y[1] \in TProc /\ y[2] \in TimerId
      OBVIOUS
    <3> QED BY <3>1, <3>2
  <2>2. <<q, "vtalrm">> \notin sent' /\ <<q, "alrm">> \notin sent'
    BY <2>1
  <2>3. \A i \in TimerId : <<q, "timer", i>> \in sent' => Due(posix[q][i], t)
    BY <2>1
  <2> QED BY <2>2, <2>3, <1>4 DEF t
<1> QED BY <1>2, <1>6, <1>7, <1>8 DEF TimerInv

-----------------------------------------------------------------------------
(* A step that sends nothing.                                                 *)
LEMMA Silent == ASSUME sent' = {} PROVE FiresDue /\ CatchesUp
BY DEF FiresDue, CatchesUp

LEMMA Step == ASSUME TimerInv, TmNext PROVE TimerInv' /\ FiresDue /\ CatchesUp
<1>1. CASE Pass
  <2>1. sent' = {}
    BY <1>1 DEF Pass
  <2> QED BY <1>1, <2>1, Passing, Silent
<1>2. ASSUME NEW p \in TProc, NEW v \in Span, NEW n \in Span, sys_setitimer(p, v, n)
      PROVE  TimerInv' /\ sent' = {}
  <2>1. CASE set_timer_virtual(p, v, n)
    BY <2>1, SetVirtual DEF set_timer_virtual
  <2>2. CASE \E t \in 0 .. now : set_timer_real(p, v, n, t)
    BY <2>2, SetReal DEF set_timer_real
  <2> QED BY <1>2, <2>1, <2>2 DEF sys_setitimer
<1>3. ASSUME NEW p \in TProc, NEW v \in Span, NEW n \in Span, NEW i \in TimerId, sys_timer_settime(p, i, v, n)
      PROVE  TimerInv' /\ sent' = {}
  <2>1. PICK b \in BOOLEAN, t \in 0 .. now : set_posix_timer(p, i, v, n, b, t)
    BY <1>3 DEF sys_timer_settime
  <2>2. sent' = {}
    BY <2>1 DEF set_posix_timer
  <2> QED BY <2>1, <2>2, SetPosix
<1>4. ASSUME NEW p \in TProc, NEW i \in TimerId, sys_timer_create(p, i) \/ sys_timer_delete(p, i)
      PROVE  TimerInv' /\ sent' = {}
  <2>1. create_posix_timer(p, i) \/ delete_posix_timer(p, i)
    BY <1>4 DEF sys_timer_create, sys_timer_delete
  <2>2. sent' = {}
    BY <2>1 DEF create_posix_timer, delete_posix_timer
  <2> QED BY <2>1, <2>2, MakePosix
<1>5. ASSUME NEW c \in TCpu, NEW u \in BOOLEAN, timer_tick(c, u) PROVE TimerInv' /\ sent' = {}
  <2>1. sent' = {}
    BY <1>5 DEF timer_tick
  <2> QED BY <1>5, <2>1, TickStarts
<1>6. ASSUME NEW c \in TCpu, NEW p \in TProc, account_cpu(c, p) PROVE TimerInv' /\ FiresDue /\ CatchesUp
  BY <1>6, Accounting
<1>7. ASSUME NEW c \in TCpu, expire_realtime(c) \/ expire_posix_timers(c)
      PROVE  TimerInv' /\ FiresDue /\ CatchesUp
  BY <1>7, ExpiringReal, ExpiringPosix
<1> QED BY <1>1, <1>2, <1>3, <1>4, <1>5, <1>6, <1>7, Silent DEF TmNext

LEMMA Stutter == ASSUME TimerInv, UNCHANGED tvars PROVE TimerInv'
BY DEF tvars, TimerInv, TmTypeOK, TicksPast, RealIndexed, NoDrift

(* The inductive invariant.                                                   *)
THEOREM TimerInvariance == TmSpec => []TimerInv
<1>1. TmInit => TimerInv
  BY InvInit
<1>2. TimerInv /\ [TmNext]_tvars => TimerInv'
  BY Step, Stutter
<1> QED BY <1>1, <1>2, PTL DEF TmSpec

(* Type correctness.                                                          *)
THEOREM TimerTypeCorrect == TmSpec => []TmTypeOK
<1>1. TimerInv => TmTypeOK
  BY DEF TimerInv
<1> QED BY <1>1, TimerInvariance, PTL

(* An armed ITIMER_REAL is in the index (set_timer and expire_realtime), no     *)
(* timer fires before it is due or for a setting that was replaced, and one    *)
(* that is late goes on at the first deadline to come, on the grid of the      *)
(* periods asked for (expire).                                                *)
THEOREM TimersExactHolds == TmSpec => TimersExact
<1>1. TimerInv => RealIndexed /\ NoDrift
  BY DEF TimerInv
<1>2. TimerInv /\ [TmNext]_tvars => [FiresDue /\ CatchesUp]_tvars
  BY Step
<1>3. TmSpec => [](RealIndexed /\ NoDrift)
  BY <1>1, TimerInvariance, PTL
<1>4. TmSpec => [][FiresDue /\ CatchesUp]_tvars
  BY <1>2, TimerInvariance, PTL DEF TmSpec
<1> QED BY <1>3, <1>4 DEF TimersExact
=============================================================================
