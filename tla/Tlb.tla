-------------------------------- MODULE Tlb --------------------------------
(***************************************************************************)
(* TLB coherence and the reuse of address-space identifiers on Sv39            *)
(* (impl-sv39/src/user_aspace.rs, asid.rs).  A page-table change is made under *)
(* the lock of its space; after it the CPU flushes itself, reads which CPUs    *)
(* ever ran the space and interrupts them one transaction at a time.  A space  *)
(* has one page whose translation is a version number; a CPU's TLB keeps the   *)
(* version it walked.  CPUs in the kernel have interrupts off.                 *)
(***************************************************************************)
EXTENDS Naturals, FiniteSets, FiniteSetsExt

CONSTANTS Cpu,       \* a set of numbers
          Aspace,    \* handles; each is created and destroyed once
          Asid,      \* user identifiers, numbers from 1
          MaxVer,    \* changes of one page table
          MaxSeq,    \* transactions
          TlbOps     \* subset of {"remote", "ipifail", "timeout"}

(* Processors, spaces and identifiers are numbers from 1; 0 stands for none.   *)
ASSUME TlbAssumption ==
  /\ Cpu \subseteq Nat \ {0} /\ Aspace \subseteq Nat \ {0} /\ Asid \subseteq Nat \ {0}
  /\ MaxVer \in Nat /\ MaxSeq \in Nat

VARIABLES state, asid,          \* per handle: "none", "live", "gone"; identifier
          allocated,            \* identifiers in use or retired
          pte,                  \* pte[a]: version in memory
          tlb_cpus,             \* tlb_cpus[a]: CPUs that may cache it
          tlb,                  \* tlb[c]: set of entries
          running,              \* running[c]: space of the user program or 0
          lock,                 \* holder of TLB_SHOOTDOWN_LOCK or 0
          sequence, pending, completed, ipi,
          tcall,                \* tcall[c]: where the kernel of c is
          gave_up               \* spaces one of whose shootdowns failed
spaces == <<state, asid, allocated, pte, gave_up>>
wires == <<sequence, pending, completed, ipi>>
tlbvars == <<spaces, wires, tlb_cpus, tlb, running, lock, tcall>>

Idle == [pc |-> "idle", a |-> 0, kind |-> "", targets |-> {}, seq |-> 0, ok |-> TRUE, ack |-> 0]
TIn(c, l) == tcall[c].pc = l /\ tcall[c].ack = 0
Budget == sequence + Cardinality({c \in Cpu : tcall[c].pc \in {"load", "lock"}}) < MaxSeq
TGo(c, r) == tcall' = [tcall EXCEPT ![c] = r]
Entry(a) == [asid |-> asid[a], a |-> a, ver |-> pte[a]]
flush_all(t, C) == [c \in Cpu |-> IF c \in C THEN {} ELSE t[c]]
flush_space(c, a) == [tlb EXCEPT ![c] = {e \in @ : e.asid # asid[a]}]

TlbInit ==
  /\ state = [a \in Aspace |-> "none"] /\ asid = [a \in Aspace |-> 0] /\ allocated = {}
  /\ pte = [a \in Aspace |-> 0] /\ tlb_cpus = [a \in Aspace |-> {}] /\ tlb = [c \in Cpu |-> {}]
  /\ running = [c \in Cpu |-> 0] /\ lock = 0 /\ sequence = 0
  /\ pending = [c \in Cpu |-> 0] /\ completed = [c \in Cpu |-> 0] /\ ipi = {}
  /\ tcall = [c \in Cpu |-> Idle] /\ gave_up = {}

-----------------------------------------------------------------------------
(* A space gets the least identifier that is not allocated.                    *)
allocate(c, a) ==
  /\ TIn(c, "idle") /\ state[a] = "none" /\ Asid \ allocated # {}
  /\ LET n == Min(Asid \ allocated) IN
     /\ asid' = [asid EXCEPT ![a] = n] /\ allocated' = allocated \cup {n}
  /\ state' = [state EXCEPT ![a] = "live"]
  /\ UNCHANGED <<pte, gave_up, wires, tlb_cpus, tlb, running, lock, tcall>>
(* A CPU switches to the space; what an earlier owner of the identifier left   *)
(* is flushed the first time.                                                 *)
mark_active(c, a) ==
  /\ TIn(c, "idle") /\ state[a] = "live" /\ running[c] # a
  /\ tlb_cpus' = [tlb_cpus EXCEPT ![a] = @ \cup {c}]
  /\ tlb' = IF c \in tlb_cpus[a] THEN tlb ELSE flush_space(c, a)
  /\ running' = [running EXCEPT ![c] = a] /\ UNCHANGED <<spaces, wires, lock, tcall>>
(* Leaving does not forget the CPU.                                           *)
mark_inactive(c) ==
  /\ TIn(c, "idle") /\ running[c] # 0 /\ running' = [running EXCEPT ![c] = 0]
  /\ UNCHANGED <<spaces, wires, tlb_cpus, tlb, lock, tcall>>
(* The program touches its page: a miss walks the table.                      *)
Access(c) ==
  /\ TIn(c, "idle") /\ running[c] # 0 /\ \A e \in tlb[c] : e.asid # asid[running[c]]
  /\ tlb' = [tlb EXCEPT ![c] = @ \cup {Entry(running[c])}]
  /\ UNCHANGED <<spaces, wires, tlb_cpus, running, lock, tcall>>

(* with_user_aspace_mut_and_flush and the variants that only flush, or only    *)
(* flush the page, when nothing changed.                                      *)
with_user_aspace_mut(c, a, changed) ==
  /\ TIn(c, "idle") /\ state[a] = "live" /\ (changed => pte[a] < MaxVer /\ Budget)
  /\ tlb' = flush_all(tlb, {c})
  /\ pte' = IF changed THEN [pte EXCEPT ![a] = @ + 1] ELSE pte
  /\ TGo(c, IF changed THEN [Idle EXCEPT !.pc = "load", !.a = a, !.kind = "change"] ELSE Idle)
  /\ UNCHANGED <<state, asid, allocated, gave_up, wires, tlb_cpus, running, lock>>
request_tlb_shootdown(c) ==
  /\ TIn(c, "load")
  /\ TGo(c, [tcall[c] EXCEPT !.pc = "lock", !.targets = tlb_cpus[tcall[c].a] \ {c}])
  /\ UNCHANGED <<spaces, wires, tlb_cpus, tlb, running, lock>>
(* The last user of the space is gone; its tables are freed.                   *)
destroy(c, a) ==
  /\ TIn(c, "idle") /\ state[a] = "live" /\ Budget /\ \A d \in Cpu : running[d] # a
  /\ state' = [state EXCEPT ![a] = "gone"] /\ tlb_cpus' = [tlb_cpus EXCEPT ![a] = {}]
  /\ tlb' = flush_space(c, a)
  /\ TGo(c, [Idle EXCEPT !.pc = "lock", !.a = a, !.kind = "destroy", !.targets = tlb_cpus[a] \ {c}])
  /\ UNCHANGED <<asid, allocated, pte, gave_up, wires, running, lock>>

-----------------------------------------------------------------------------
(* The end of a transaction: a destroyed space gives its identifier back if    *)
(* every CPU answered, else the identifier is retired.                         *)
release_always(c, ok) ==
  /\ allocated' = IF tcall[c].kind = "destroy" THEN allocated \ {asid[tcall[c].a]} ELSE allocated
  /\ gave_up' = IF ok THEN gave_up ELSE gave_up \cup {tcall[c].a}
  /\ TGo(c, Idle) /\ UNCHANGED <<state, asid, pte>>
release(c, ok) ==
  /\ allocated' = IF tcall[c].kind = "destroy" /\ ok THEN allocated \ {asid[tcall[c].a]} ELSE allocated
  /\ gave_up' = IF ok THEN gave_up ELSE gave_up \cup {tcall[c].a}
  /\ TGo(c, Idle) /\ UNCHANGED <<state, asid, pte>>
lock_tlb_shootdown(c) ==
  /\ TIn(c, "lock") /\ lock = 0
  /\ \/ /\ tcall[c].targets = {} /\ release(c, TRUE) /\ UNCHANGED <<lock, wires, tlb>>
     \/ /\ tcall[c].targets # {} /\ "remote" \in TlbOps
        /\ tlb' = flush_all(tlb, tcall[c].targets) /\ release(c, TRUE) /\ UNCHANGED <<lock, wires>>
     \/ /\ tcall[c].targets # {} /\ lock' = c /\ sequence' = sequence + 1
        /\ pending' = [d \in Cpu |-> IF d \in tcall[c].targets THEN sequence + 1 ELSE pending[d]]
        /\ TGo(c, [tcall[c] EXCEPT !.pc = "send", !.seq = sequence + 1])
        /\ UNCHANGED <<spaces, completed, ipi, tlb>>
  /\ UNCHANGED <<tlb_cpus, running>>
send_ipi(c) ==
  /\ TIn(c, "send")
  /\ \/ /\ ipi' = ipi \cup tcall[c].targets /\ TGo(c, [tcall[c] EXCEPT !.pc = "wait"])
        /\ UNCHANGED <<spaces, lock>>
     \/ "ipifail" \in TlbOps /\ release(c, FALSE) /\ lock' = 0 /\ UNCHANGED ipi
  /\ UNCHANGED <<sequence, pending, completed, tlb_cpus, tlb, running>>
(* The targets are awaited one after the other; a slow one is given up.        *)
wait_completed(c) ==
  /\ TIn(c, "wait") /\ tcall[c].targets # {}
  /\ LET d == Min(tcall[c].targets)  done == completed[d] >= tcall[c].seq IN
     /\ done \/ "timeout" \in TlbOps
     /\ TGo(c, [tcall[c] EXCEPT !.targets = @ \ {d}, !.ok = @ /\ done])
  /\ UNCHANGED <<spaces, wires, tlb_cpus, tlb, running, lock>>
shootdown_ends(c) ==
  /\ TIn(c, "wait") /\ tcall[c].targets = {} /\ release(c, tcall[c].ok) /\ lock' = 0
  /\ UNCHANGED <<wires, tlb_cpus, tlb, running>>

(* Serve what is pending for c: flush everything, then acknowledge.           *)
serve_newest(c) ==
  /\ tlb' = flush_all(tlb, {c})
  /\ TGo(c, [tcall[c] EXCEPT !.ack = sequence])
serve(c) ==
  /\ tlb' = flush_all(tlb, {c})
  /\ TGo(c, [tcall[c] EXCEPT !.ack = pending[c]])
handle_tlb_shootdown_ipi(c) ==
  /\ TIn(c, "idle") /\ c \in ipi /\ ipi' = ipi \ {c}
  /\ IF pending[c] > completed[c] THEN serve(c) ELSE UNCHANGED <<tlb, tcall>>
  /\ UNCHANGED <<spaces, sequence, pending, completed, tlb_cpus, running, lock>>
(* A CPU that waits for the lock serves requests, for it cannot be interrupted *)
(* and the holder may be waiting for it.                                      *)
poll_idle(c) == FALSE /\ UNCHANGED tlbvars
poll_while_waiting(c) ==
  /\ TIn(c, "lock") /\ lock # 0 /\ pending[c] > completed[c] /\ serve(c)
  /\ UNCHANGED <<spaces, wires, tlb_cpus, running, lock>>
acknowledge(c) ==
  /\ tcall[c].ack # 0 /\ completed' = [completed EXCEPT ![c] = tcall[c].ack]
  /\ TGo(c, [tcall[c] EXCEPT !.ack = 0])
  /\ UNCHANGED <<spaces, sequence, pending, ipi, tlb_cpus, tlb, running, lock>>

(* What the kernel of a CPU does by itself once it is called.                  *)
Kernel(c) ==
  \/ request_tlb_shootdown(c) \/ lock_tlb_shootdown(c) \/ send_ipi(c) \/ wait_completed(c) \/ shootdown_ends(c)
  \/ handle_tlb_shootdown_ipi(c) \/ poll_while_waiting(c) \/ acknowledge(c)
TlbNext ==
  \E c \in Cpu :
    \/ \E a \in Aspace : \/ allocate(c, a) \/ mark_active(c, a) \/ destroy(c, a)
                         \/ \E changed \in BOOLEAN : with_user_aspace_mut(c, a, changed)
    \/ mark_inactive(c) \/ Access(c) \/ Kernel(c)
TlbSpec == TlbInit /\ [][TlbNext]_tlbvars
(* The kernel of every CPU runs on.                                           *)
TlbFair == TlbSpec /\ \A c \in Cpu : WF_tlbvars(Kernel(c))

-----------------------------------------------------------------------------
TlbTypeOK ==
  /\ state \in [Aspace -> {"none", "live", "gone"}] /\ allocated \subseteq Asid /\ pte \in [Aspace -> 0 .. MaxVer]
  /\ lock \in Cpu \cup {0} /\ ipi \subseteq Cpu /\ running \in [Cpu -> Aspace \cup {0}]
  /\ \A c \in Cpu : completed[c] <= pending[c] /\ pending[c] <= sequence

(* A CPU holds a translation the page table no longer has only while the call  *)
(* that changed it is still on its way to that CPU, or after that call gave    *)
(* up: a CPU that joins the space meanwhile, or answers early from its wait    *)
(* for the lock, is never left behind.                                        *)
Reaches(d, c, a) ==
  /\ tcall[d].a = a
  /\ tcall[d].pc = "load" \/ (tcall[d].pc # "idle" /\ (c \in tcall[d].targets \/ ~tcall[d].ok))
StaleCovered ==
  \A c \in Cpu : \A e \in tlb[c] :
    (state[e.a] = "live" /\ e.ver # pte[e.a]) => e.a \in gave_up \/ \E d \in Cpu \ {c} : Reaches(d, c, e.a)

(* An identifier that may be given out again is in no TLB, and the entries     *)
(* under the identifier of a running space are its own.                        *)
AsidCold ==
  \A c \in Cpu : \A e \in tlb[c] :
    e.asid \in allocated /\ (running[c] # 0 /\ asid[running[c]] = e.asid => e.a = running[c])

(* The two together: no CPU translates with what is no longer so, neither in   *)
(* the space it runs nor under an identifier that changed hands.               *)
TlbCoherent == StaleCovered /\ AsidCold

(* Every shootdown ends although all CPUs have interrupts off while they wait  *)
(* for one another, without relying on the timeout.                            *)
ShootdownsEnd == \A c \in Cpu : (tcall[c].pc # "idle") ~> (tcall[c].pc = "idle")
=============================================================================
