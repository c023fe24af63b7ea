---------------------------- MODULE MemoryProofs ----------------------------
(***************************************************************************)
(* Theorems about Tlb and Frames, the two parts of the memory system that      *)
(* every CPU enters at once; each is proved by itself.                        *)
(*                                                                         *)
(* Tlb: no CPU ever translates with what a page table no longer says, and an   *)
(* identifier that is given out again is in no TLB: for every set of CPUs,    *)
(* spaces and identifiers.  StaleCovered speaks of the processors a call has  *)
(* still to reach; what carries it through a step is when such a call may     *)
(* drop a processor from its list: only after the answer, which comes after   *)
(* the flush and carries a number not below that of the call.                 *)
(*                                                                         *)
(* Frames: every frame is in exactly one place and the pool stays clean and    *)
(* within its capacity: for any CPUs, any memory and any capacity and          *)
(* watermarks.  Pieces is what the allocator owes, as a relation between a     *)
(* record of it and the set H of frames that somebody holds; taking a frame    *)
(* adds it to H and returning one removes it.  The system's invariant is that  *)
(* of the allocator for the frames that pool, batches and users hold, and that *)
(* these are apart.                                                          *)
(***************************************************************************)
EXTENDS Tlb, Frames, FiniteSetTheorems, WellFoundedInduction, TLAPS

TlbCalls == [pc : {"idle", "load", "lock", "send", "wait"}, a : Aspace \cup {0}, kind : {"", "change", "destroy"},
             targets : SUBSET Cpu, seq : Nat, ok : BOOLEAN, ack : Nat]
Entries == [asid : Asid, a : Aspace, ver : Nat]
Types ==
  /\ state \in [Aspace -> {"none", "live", "gone"}] /\ asid \in [Aspace -> Asid \cup {0}]
  /\ allocated \in SUBSET Asid /\ pte \in [Aspace -> 0 .. MaxVer] /\ gave_up \in SUBSET Aspace
  /\ tlb_cpus \in [Aspace -> SUBSET Cpu] /\ tlb \in [Cpu -> SUBSET Entries] /\ running \in [Cpu -> Aspace \cup {0}]
  /\ lock \in Cpu \cup {0} /\ sequence \in Nat /\ pending \in [Cpu -> Nat] /\ completed \in [Cpu -> Nat]
  /\ ipi \in SUBSET Cpu /\ tcall \in [Cpu -> TlbCalls]

(* No CPU answers or is asked beyond the newest transaction, and an answer     *)
(* under way is one of a request.                                             *)
Numbers ==
  \A c \in Cpu : /\ completed[c] <= pending[c] /\ pending[c] <= sequence /\ tcall[c].ack <= pending[c]
                 /\ tcall[c].pc \in {"send", "wait"} => 0 < tcall[c].seq /\ tcall[c].seq <= sequence

(* What a call knows: it is about a space that exists, one that destroys a     *)
(* space holds that space's identifier until it ends.                         *)
Destroys(d) == tcall[d].pc # "idle" /\ tcall[d].kind = "destroy"
TlbCallsSound ==
  \A d \in Cpu : /\ tcall[d].pc \in {"load", "lock", "send"} => tcall[d].ok
                 /\ tcall[d].pc # "idle" => tcall[d].a \in Aspace /\ state[tcall[d].a] # "none"
                 /\ tcall[d].pc = "load" => tcall[d].kind = "change"
                 /\ Destroys(d) => state[tcall[d].a] = "gone" /\ asid[tcall[d].a] \in allocated

(* A program runs in a live space whose table says so.                        *)
Users == \A c \in Cpu : running[c] # 0 => state[running[c]] = "live" /\ c \in tlb_cpus[running[c]]

(* An allocated identifier has one owner: a live space or the call that        *)
(* destroys one.                                                              *)
Owners ==
  /\ \A a \in Aspace : state[a] = "live" => asid[a] \in allocated
  /\ \A a, b \in Aspace : state[a] = "live" /\ state[b] = "live" /\ asid[a] = asid[b] => a = b
  /\ \A d \in Cpu, b \in Aspace : Destroys(d) /\ state[b] = "live" => asid[b] # asid[tcall[d].a]
  /\ \A d, g \in Cpu : Destroys(d) /\ Destroys(g) /\ d # g => asid[tcall[d].a] # asid[tcall[g].a]

(* A cached entry is under the identifier of its space, in a CPU that the     *)
(* space knows of, and no other live space has the identifier.                *)
EntriesKnown ==
  \A c \in Cpu : \A e \in tlb[c] :
    /\ e.asid = asid[e.a] /\ e.asid \in allocated /\ state[e.a] # "none"
    /\ state[e.a] = "live" => c \in tlb_cpus[e.a]
    /\ \A b \in Aspace : state[b] = "live" /\ asid[b] = e.asid => b = e.a

(* The call of d has yet to make c flush, or has given up.                     *)
Unserved(d, c) ==
  \/ tcall[d].pc = "lock" /\ c \in tcall[d].targets
  \/ /\ tcall[d].pc \in {"send", "wait"}
     /\ \/ c \in tcall[d].targets /\ completed[c] < tcall[d].seq /\ tcall[c].ack < tcall[d].seq
        \/ ~tcall[d].ok
StaleServed ==
  \A c \in Cpu : \A e \in tlb[c] :
    state[e.a] = "live" /\ e.ver # pte[e.a] /\ e.a \notin gave_up =>
      \E d \in Cpu \ {c} : tcall[d].a = e.a /\ (tcall[d].pc = "load" \/ Unserved(d, c))
DestroyServed ==
  \A c \in Cpu, d \in Cpu : \A e \in tlb[c] : Destroys(d) /\ asid[tcall[d].a] = e.asid => Unserved(d, c)

TlbInv == Types /\ Numbers /\ TlbCallsSound /\ Users /\ Owners /\ EntriesKnown /\ StaleServed /\ DestroyServed

-----------------------------------------------------------------------------
(* A nonempty set of numbers has a least one, so the identifier handed out is  *)
(* one of those that are free.                                                *)
LEMMA Least == ASSUME NEW S \in SUBSET Nat, S # {} PROVE Min(S) \in S /\ \A y \in S : Min(S) <= y
<1>1. IsWellFoundedOn(OpToRel(<, Nat), Nat)
  BY NatLessThanWellFounded
<1>2. PICK x \in S : \A y \in S : ~ (<<y, x>> \in OpToRel(<, Nat))
  BY <1>1, WFMin
<1>3. \A y \in S : x <= y
  <2> SUFFICES ASSUME NEW y \in S PROVE x <= y
    OBVIOUS
  <2>1. <<y, x>> \in Nat \X Nat /\ <<y, x>>[1] = y /\ <<y, x>>[2] = x
    OBVIOUS
  <2>2. ~ (y < x)
    BY <1>2, <2>1 DEF OpToRel
  <2> QED BY <2>2
<1> QED BY <1>3 DEF Min

(* What a step of the kernel of c leaves of the calls.                         *)
LEMMA Going ==
  ASSUME Types, NEW c \in Cpu, NEW r \in TlbCalls, TGo(c, r)
  PROVE  tcall' \in [Cpu -> TlbCalls] /\ tcall'[c] = r /\ \A d \in Cpu \ {c} : tcall'[d] = tcall[d]
BY DEF Types, TGo

LEMMA IdleCall == Idle \in TlbCalls /\ Idle.pc = "idle" /\ Idle.a = 0 /\ Idle.kind = "" /\ Idle.targets = {}
                  /\ Idle.seq = 0 /\ Idle.ok /\ Idle.ack = 0
BY DEF Idle, TlbCalls

(* What a step may write into a call.                                         *)
LEMMA CallFields ==
  ASSUME NEW k \in TlbCalls, NEW n \in Nat, NEW T \in SUBSET Cpu, NEW b \in BOOLEAN
  PROVE  /\ [k EXCEPT !.pc = "send", !.seq = n] \in TlbCalls /\ [k EXCEPT !.pc = "wait"] \in TlbCalls
         /\ [k EXCEPT !.pc = "lock", !.targets = T] \in TlbCalls /\ [k EXCEPT !.targets = T, !.ok = b] \in TlbCalls
         /\ [k EXCEPT !.ack = n] \in TlbCalls
<1>1. [k EXCEPT !.pc = "send", !.seq = n] \in TlbCalls
  BY DEF TlbCalls
<1>2. [k EXCEPT !.pc = "wait"] \in TlbCalls
  BY DEF TlbCalls
<1>3. [k EXCEPT !.pc = "lock", !.targets = T] \in TlbCalls
  BY DEF TlbCalls
<1>4. [k EXCEPT !.targets = T, !.ok = b] \in TlbCalls
  BY DEF TlbCalls
<1>5. [k EXCEPT !.ack = n] \in TlbCalls
  BY DEF TlbCalls
<1> QED BY <1>1, <1>2, <1>3, <1>4, <1>5

LEMMA EntryFields == ASSUME NEW e \in Entries PROVE e.a \in Aspace
BY DEF Entries

LEMMA InvInit == TlbInit => TlbInv
<1> SUFFICES ASSUME TlbInit PROVE TlbInv
  OBVIOUS
<1>1. Types
  <2>1. state \in [Aspace -> {"none", "live", "gone"}] /\ asid \in [Aspace -> Asid \cup {0}] /\ pte \in [Aspace -> 0 .. MaxVer]
    BY TlbAssumption DEF TlbInit, TlbAssumption
  <2>2. tlb_cpus \in [Aspace -> SUBSET Cpu] /\ tlb \in [Cpu -> SUBSET Entries] /\ running \in [Cpu -> Aspace \cup {0}]
    BY DEF TlbInit
  <2>3. tcall \in [Cpu -> TlbCalls] /\ pending \in [Cpu -> Nat] /\ completed \in [Cpu -> Nat]
    BY IdleCall DEF TlbInit
  <2> QED BY <2>1, <2>2, <2>3 DEF TlbInit, Types
<1>2. \A c \in Cpu : tcall[c] = Idle /\ tlb[c] = {} /\ running[c] = 0 /\ completed[c] = 0 /\ pending[c] = 0
  BY DEF TlbInit
<1>3. \A a \in Aspace : state[a] = "none"
  BY DEF TlbInit
<1>4. Numbers
  <2>1. sequence = 0
    BY DEF TlbInit
  <2>2. \A c \in Cpu : tcall[c].pc = "idle" /\ tcall[c].ack = 0
    BY <1>2, IdleCall
  <2> QED BY <1>2, <2>1, <2>2 DEF Numbers
<1>5. TlbCallsSound /\ Users /\ EntriesKnown /\ StaleServed /\ DestroyServed
  BY <1>2, IdleCall DEF TlbCallsSound, Users, EntriesKnown, StaleServed, DestroyServed, Destroys
<1>6. Owners
  BY <1>2, <1>3, IdleCall DEF Owners, Destroys
<1> QED BY <1>1, <1>4, <1>5, <1>6 DEF TlbInv

(* The identifier a new space gets is in no TLB: none of the entries is under  *)
(* one that is not allocated.                                                 *)
LEMMA AllocateKeeps == ASSUME TlbAssumption, TlbInv, NEW c \in Cpu, NEW a \in Aspace, allocate(c, a) PROVE TlbInv'
<1> USE TlbAssumption DEF TlbAssumption
<1>0. Types /\ Numbers /\ TlbCallsSound /\ Users /\ Owners /\ EntriesKnown /\ StaleServed /\ DestroyServed
  BY DEF TlbInv
<1>a. /\ UNCHANGED <<pte, gave_up, wires, tlb_cpus, tlb, running, lock, tcall>> /\ state[a] = "none"
      /\ state' = [state EXCEPT ![a] = "live"]
      /\ \E n \in Asid \ allocated : asid' = [asid EXCEPT ![a] = n] /\ allocated' = allocated \cup {n}
  BY Least DEF allocate
<1> USE DEF wires
<1>1. Types'
  BY <1>0, <1>a DEF Types
<1>2. Numbers'
  BY <1>0, <1>a DEF Types, Numbers
<1>3. TlbCallsSound'
  BY <1>0, <1>a DEF Types, TlbCallsSound, Destroys
<1>4. Users'
  BY <1>0, <1>a DEF Types, Users
<1>5. Owners'
  BY <1>0, <1>a DEF Types, Owners, TlbCallsSound, Destroys
<1>6. EntriesKnown'
  BY <1>0, <1>a DEF Types, EntriesKnown, Entries
<1>7. StaleServed'
  BY <1>0, <1>a DEF Types, StaleServed, Unserved, EntriesKnown, Entries
<1>8. DestroyServed'
  BY <1>0, <1>a DEF Types, DestroyServed, Unserved, Destroys, EntriesKnown, Entries, TlbCallsSound
<1> QED BY <1>1, <1>2, <1>3, <1>4, <1>5, <1>6, <1>7, <1>8 DEF TlbInv

(* A CPU that joins loses entries only.                                       *)
LEMMA MarkActiveKeeps == ASSUME TlbAssumption, TlbInv, NEW c \in Cpu, NEW a \in Aspace, mark_active(c, a) PROVE TlbInv'
<1> USE TlbAssumption DEF TlbAssumption
<1>0. Types /\ Numbers /\ TlbCallsSound /\ Users /\ Owners /\ EntriesKnown /\ StaleServed /\ DestroyServed
  BY DEF TlbInv
<1>a. /\ UNCHANGED <<spaces, wires, lock, tcall>> /\ state[a] = "live"
      /\ tlb_cpus' = [tlb_cpus EXCEPT ![a] = @ \cup {c}] /\ running' = [running EXCEPT ![c] = a]
      /\ tlb' \in [Cpu -> SUBSET Entries] /\ \A d \in Cpu : tlb'[d] \subseteq tlb[d]
  BY <1>0 DEF mark_active, flush_space, Types
<1> USE DEF wires, spaces
<1>1. Types'
  BY <1>0, <1>a DEF Types
<1>2. Numbers'
  BY <1>0, <1>a DEF Types, Numbers
<1>3. TlbCallsSound'
  BY <1>0, <1>a DEF Types, TlbCallsSound, Destroys
<1>4. Users'
  BY <1>0, <1>a DEF Types, Users
<1>5. Owners'
  BY <1>0, <1>a DEF Types, Owners, Destroys
<1>6. EntriesKnown'
  BY <1>0, <1>a DEF Types, EntriesKnown, Entries
<1>7. StaleServed'
  BY <1>0, <1>a DEF Types, StaleServed, Unserved
<1>8. DestroyServed'
  BY <1>0, <1>a DEF Types, DestroyServed, Unserved, Destroys
<1> QED BY <1>1, <1>2, <1>3, <1>4, <1>5, <1>6, <1>7, <1>8 DEF TlbInv

(* Leaving a space forgets nothing.                                           *)
LEMMA MarkInactiveKeeps == ASSUME TlbAssumption, TlbInv, NEW c \in Cpu, mark_inactive(c) PROVE TlbInv'
<1> USE TlbAssumption DEF TlbAssumption
<1>0. Types /\ Numbers /\ TlbCallsSound /\ Users /\ Owners /\ EntriesKnown /\ StaleServed /\ DestroyServed
  BY DEF TlbInv
<1>a. UNCHANGED <<spaces, wires, tlb_cpus, tlb, lock, tcall>> /\ running' = [running EXCEPT ![c] = 0]
  BY DEF mark_inactive
<1> USE DEF wires, spaces
<1>1. Types'
  BY <1>0, <1>a DEF Types
<1>2. Numbers'
  BY <1>0, <1>a DEF Types, Numbers
<1>3. TlbCallsSound'
  BY <1>0, <1>a DEF Types, TlbCallsSound, Destroys
<1>4. Users'
  BY <1>0, <1>a DEF Types, Users
<1>5. Owners'
  BY <1>0, <1>a DEF Types, Owners, Destroys
<1>6. EntriesKnown'
  BY <1>0, <1>a DEF Types, EntriesKnown, Entries
<1>7. StaleServed'
  BY <1>0, <1>a DEF Types, StaleServed, Unserved
<1>8. DestroyServed'
  BY <1>0, <1>a DEF Types, DestroyServed, Unserved, Destroys
<1> QED BY <1>1, <1>2, <1>3, <1>4, <1>5, <1>6, <1>7, <1>8 DEF TlbInv

(* A walk enters what the table says now, and only for the space that runs.    *)
LEMMA AccessKeeps == ASSUME TlbAssumption, TlbInv, NEW c \in Cpu, Access(c) PROVE TlbInv'
<1> USE TlbAssumption DEF TlbAssumption
<1>0. Types /\ Numbers /\ TlbCallsSound /\ Users /\ Owners /\ EntriesKnown /\ StaleServed /\ DestroyServed
  BY DEF TlbInv
<1>a. /\ UNCHANGED <<spaces, wires, tlb_cpus, running, lock, tcall>>
      /\ running[c] \in Aspace /\ tcall[c].pc = "idle"
      /\ tlb' = [tlb EXCEPT ![c] = @ \cup {Entry(running[c])}]
  BY <1>0 DEF Access, TIn, Types
<1>b. state[running[c]] = "live" /\ c \in tlb_cpus[running[c]] /\ asid[running[c]] \in allocated
  BY <1>0, <1>a DEF Users, Owners
<1>c. pte[running[c]] \in Nat /\ asid[running[c]] \in Asid
  <2>1. pte[running[c]] \in 0 .. MaxVer
    BY <1>0, <1>a DEF Types
  <2>2. asid[running[c]] \in Asid
    BY <1>0, <1>b DEF Types
  <2> QED BY <2>1, <2>2
<1>d. Entry(running[c]) \in Entries /\ Entry(running[c]).asid = asid[running[c]] /\ Entry(running[c]).a = running[c]
      /\ Entry(running[c]).ver = pte[running[c]]
  BY <1>a, <1>c DEF Entry, Entries
<1>e. \A d \in Cpu : \A e \in tlb'[d] : e \in tlb[d] \/ (d = c /\ e = Entry(running[c]))
  <2>1. tlb \in [Cpu -> SUBSET Entries]
    BY <1>0 DEF Types
  <2>2. tlb'[c] = tlb[c] \cup {Entry(running[c])} /\ \A d \in Cpu \ {c} : tlb'[d] = tlb[d]
    BY <1>a, <2>1
  <2> SUFFICES ASSUME NEW d \in Cpu, NEW e \in tlb'[d] PROVE e \in tlb[d] \/ (d = c /\ e = Entry(running[c]))
    OBVIOUS
  <2>3. CASE d = c
    BY <2>2, <2>3
  <2>4. CASE d # c
    BY <2>2, <2>4
  <2> QED BY <2>3, <2>4
<1> USE <1>b, <1>d, <1>e DEF wires, spaces
<1>1. Types'
  BY <1>0, <1>a DEF Types
<1>2. Numbers'
  BY <1>0, <1>a DEF Types, Numbers
<1>3. TlbCallsSound'
  BY <1>0, <1>a DEF Types, TlbCallsSound, Destroys
<1>4. Users'
  BY <1>0, <1>a DEF Types, Users
<1>5. Owners'
  BY <1>0, <1>a DEF Types, Owners, Destroys
<1>6. EntriesKnown'
  <2> SUFFICES ASSUME NEW d \in Cpu, NEW e \in tlb'[d]
               PROVE  /\ e.asid = asid[e.a] /\ e.asid \in allocated /\ state[e.a] # "none"
                      /\ state[e.a] = "live" => d \in tlb_cpus[e.a]
                      /\ \A b \in Aspace : state[b] = "live" /\ asid[b] = e.asid => b = e.a
    BY <1>a DEF EntriesKnown
  <2>1. CASE e \in tlb[d]
    BY <1>0, <2>1 DEF EntriesKnown
  <2>2. CASE d = c /\ e = Entry(running[c])
    BY <1>0, <1>a, <2>2 DEF Owners
  <2> QED BY <2>1, <2>2
<1>7. StaleServed'
  BY <1>0, <1>a DEF Types, StaleServed, Unserved
<1>8. DestroyServed'
  <2> SUFFICES ASSUME NEW d \in Cpu, NEW g \in Cpu, NEW e \in tlb'[d], Destroys(g), asid[tcall[g].a] = e.asid
               PROVE  Unserved(g, d)
    BY <1>a DEF DestroyServed, Destroys, Unserved
  <2>1. CASE e \in tlb[d]
    BY <1>0, <2>1 DEF DestroyServed
  <2>2. CASE d = c /\ e = Entry(running[c])
    BY <1>0, <1>a, <2>2 DEF Owners
  <2> QED BY <2>1, <2>2
<1> QED BY <1>1, <1>2, <1>3, <1>4, <1>5, <1>6, <1>7, <1>8 DEF TlbInv

(* Ownership of the identifiers as long as no call begins to destroy.          *)
LEMMA OwnersKept ==
  ASSUME Owners, UNCHANGED <<state, asid, allocated>>,
         \A d \in Cpu : Destroys(d)' => Destroys(d) /\ tcall'[d].a = tcall[d].a
  PROVE  Owners'
<1>1. ASSUME NEW d \in Cpu, NEW b \in Aspace, Destroys(d)', state[b] = "live" PROVE asid[b] # asid[tcall'[d].a]
  BY <1>1 DEF Owners
<1>2. ASSUME NEW d \in Cpu, NEW g \in Cpu, Destroys(d)', Destroys(g)', d # g PROVE asid[tcall'[d].a] # asid[tcall'[g].a]
  BY <1>2 DEF Owners
<1> QED BY <1>1, <1>2 DEF Owners

(* The end of a call, given that whoever it had still to reach has flushed if  *)
(* it did not give up: its identifier is free only when no CPU holds an entry. *)
LEMMA Ends ==
  ASSUME TlbAssumption, TlbInv, NEW c \in Cpu, NEW ok \in BOOLEAN, release(c, ok),
         tcall[c].pc \in {"lock", "send", "wait"}, tcall[c].ack = 0,
         tlb' \in [Cpu -> SUBSET Entries], \A d \in Cpu : tlb'[d] \subseteq tlb[d],
         ok => \A d \in Cpu : Unserved(c, d) => tlb'[d] = {},
         UNCHANGED <<sequence, pending, completed, tlb_cpus, running>>, lock' \in Cpu \cup {0}, ipi' \in SUBSET Cpu
  PROVE  TlbInv'
<1> USE TlbAssumption DEF TlbAssumption
<1>0. Types /\ Numbers /\ TlbCallsSound /\ Users /\ Owners /\ EntriesKnown /\ StaleServed /\ DestroyServed
  BY DEF TlbInv
<1>a. /\ tcall' \in [Cpu -> TlbCalls] /\ tcall'[c] = Idle /\ \A d \in Cpu \ {c} : tcall'[d] = tcall[d]
  BY <1>0, IdleCall, Going DEF release
<1>b. /\ tcall'[c].pc = "idle" /\ tcall'[c].ok /\ tcall'[c].ack = 0
  BY <1>a, IdleCall
<1>c. /\ UNCHANGED <<state, asid, pte>>
      /\ allocated' = IF tcall[c].kind = "destroy" /\ ok THEN allocated \ {asid[tcall[c].a]} ELSE allocated
      /\ gave_up' = IF ok THEN gave_up ELSE gave_up \cup {tcall[c].a}
  BY DEF release
<1>d. tcall[c].a \in Aspace
  BY <1>0 DEF TlbCallsSound
<1>e. \A d \in Cpu : tcall'[d].ack = tcall[d].ack /\ (tcall'[d].pc # "idle" => d # c /\ tcall'[d] = tcall[d])
  BY <1>a, <1>b
<1>f. \A d \in Cpu : Destroys(d)' => d # c /\ Destroys(d) /\ tcall'[d] = tcall[d]
  BY <1>a, <1>b DEF Destroys
<1>1. Types'
  BY <1>0, <1>a, <1>c, <1>d DEF Types
<1>2. Numbers'
  BY <1>0, <1>e DEF Numbers
<1>3. TlbCallsSound'
  <2>1. ASSUME NEW d \in Cpu, Destroys(d)' PROVE asid'[tcall'[d].a] \in allocated'
    <3>1. asid[tcall[d].a] \in allocated
      BY <1>0, <1>f, <2>1 DEF TlbCallsSound
    <3>2. tcall[c].kind = "destroy" => asid[tcall[d].a] # asid[tcall[c].a]
      BY <1>0, <1>f, <2>1 DEF Owners, Destroys
    <3> QED BY <1>c, <1>f, <2>1, <3>1, <3>2
  <2> QED BY <1>0, <1>a, <1>b, <1>c, <1>f, <2>1 DEF TlbCallsSound
<1>4. Users'
  BY <1>0, <1>c DEF Users
<1>5. Owners'
  <2>1. ASSUME NEW b \in Aspace, state[b] = "live" PROVE asid[b] \in allocated'
    BY <1>0, <1>c, <2>1 DEF Owners, Destroys
  <2>2. ASSUME NEW d \in Cpu, NEW b \in Aspace, Destroys(d)', state[b] = "live" PROVE asid[b] # asid[tcall'[d].a]
    BY <1>0, <1>f, <2>2 DEF Owners
  <2>3. ASSUME NEW d \in Cpu, NEW g \in Cpu, Destroys(d)', Destroys(g)', d # g
        PROVE  asid[tcall'[d].a] # asid[tcall'[g].a]
    BY <1>0, <1>f, <2>3 DEF Owners
  <2>4. \A a, b \in Aspace : state[a] = "live" /\ state[b] = "live" /\ asid[a] = asid[b] => a = b
    BY <1>0 DEF Owners
  <2> QED BY <1>c, <2>1, <2>2, <2>3, <2>4 DEF Owners
<1>6. EntriesKnown'
  <2>1. ASSUME NEW d \in Cpu, NEW e \in tlb'[d] PROVE e.asid \in allocated'
    <3>1. e.asid \in allocated
      BY <1>0, <2>1 DEF EntriesKnown
    <3>2. ok /\ tcall[c].kind = "destroy" => asid[tcall[c].a] # e.asid
      BY <1>0, <2>1 DEF DestroyServed, Destroys
    <3> QED BY <1>c, <3>1, <3>2
  <2> QED BY <1>0, <1>c, <2>1 DEF EntriesKnown
<1>7. StaleServed'
  <2> SUFFICES ASSUME NEW d \in Cpu, NEW e \in tlb'[d], state[e.a] = "live", e.ver # pte[e.a], e.a \notin gave_up'
               PROVE  \E g \in Cpu \ {d} : tcall'[g].a = e.a /\ (tcall'[g].pc = "load" \/ Unserved(g, d)')
    BY <1>c DEF StaleServed
  <2>1. PICK g \in Cpu \ {d} : tcall[g].a = e.a /\ (tcall[g].pc = "load" \/ Unserved(g, d))
    BY <1>0, <1>c DEF StaleServed
  <2>2. g # c
    BY <1>c, <2>1
  <2>3. tcall'[g] = tcall[g]
    BY <1>a, <2>2
  <2> QED BY <1>e, <2>1, <2>3 DEF Unserved
<1>8. DestroyServed'
  BY <1>0, <1>c, <1>e, <1>f DEF DestroyServed, Unserved
<1> QED BY <1>1, <1>2, <1>3, <1>4, <1>5, <1>6, <1>7, <1>8 DEF TlbInv

(* The lock is taken: no one to reach, everyone reached from here, or a         *)
(* transaction numbered above every answer begins.                            *)
LEMMA LockKeeps == ASSUME TlbAssumption, TlbInv, NEW c \in Cpu, lock_tlb_shootdown(c) PROVE TlbInv'
<1> USE TlbAssumption DEF TlbAssumption
<1>0. Types /\ Numbers /\ TlbCallsSound /\ Users /\ Owners /\ EntriesKnown /\ StaleServed /\ DestroyServed
  BY DEF TlbInv
<1>a. tcall[c].pc = "lock" /\ tcall[c].ack = 0 /\ UNCHANGED <<tlb_cpus, running>>
  BY DEF lock_tlb_shootdown, TIn
<1>b. CASE tcall[c].targets = {} /\ release(c, TRUE) /\ UNCHANGED <<lock, wires, tlb>>
  <2>1. \A d \in Cpu : ~ Unserved(c, d)
    BY <1>a, <1>b DEF Unserved
  <2> QED BY <1>0, <1>a, <1>b, <2>1, Ends DEF wires, Types
<1>c. CASE tlb' = flush_all(tlb, tcall[c].targets) /\ release(c, TRUE) /\ UNCHANGED <<lock, wires>>
  <2>1. tlb' \in [Cpu -> SUBSET Entries] /\ (\A d \in Cpu : tlb'[d] \subseteq tlb[d])
        /\ (\A d \in tcall[c].targets \cap Cpu : tlb'[d] = {})
    BY <1>0, <1>c DEF flush_all, Types
  <2>2. \A d \in Cpu : Unserved(c, d) => tlb'[d] = {}
    BY <1>a, <2>1 DEF Unserved
  <2> QED BY <1>0, <1>a, <1>c, <2>1, <2>2, Ends DEF wires, Types
<1>d. CASE /\ lock' = c /\ sequence' = sequence + 1
           /\ pending' = [d \in Cpu |-> IF d \in tcall[c].targets THEN sequence + 1 ELSE pending[d]]
           /\ TGo(c, [tcall[c] EXCEPT !.pc = "send", !.seq = sequence + 1])
           /\ UNCHANGED <<spaces, completed, ipi, tlb>>
  <2> DEFINE r == [tcall[c] EXCEPT !.pc = "send", !.seq = sequence + 1]
  <2>1. tcall[c] \in TlbCalls /\ sequence \in Nat
    BY <1>0 DEF Types
  <2>2. r \in TlbCalls /\ r.pc = "send" /\ r.seq = sequence + 1 /\ r.a = tcall[c].a /\ r.kind = tcall[c].kind
        /\ r.targets = tcall[c].targets /\ r.ok = tcall[c].ok /\ r.ack = tcall[c].ack
    <3>1. r \in TlbCalls
      <4>1. sequence + 1 \in Nat /\ {} \in SUBSET Cpu /\ TRUE \in BOOLEAN
        BY <2>1
      <4> QED BY <2>1, <4>1, CallFields, Zenon
    <3>2. r.pc = "send" /\ r.seq = sequence + 1 /\ r.a = tcall[c].a /\ r.kind = tcall[c].kind
          /\ r.targets = tcall[c].targets /\ r.ack = tcall[c].ack
      BY <2>1 DEF TlbCalls
    <3>3. r.ok = tcall[c].ok
      BY <2>1, Zenon DEF TlbCalls
    <3> QED BY <3>1, <3>2, <3>3
  <2> HIDE DEF r
  <2>3. tcall' \in [Cpu -> TlbCalls] /\ tcall'[c] = r /\ \A d \in Cpu \ {c} : tcall'[d] = tcall[d]
    BY <1>0, <1>d, <2>2, Going DEF r
  <2>4. \A d \in Cpu : /\ tcall'[d].a = tcall[d].a /\ tcall'[d].kind = tcall[d].kind /\ tcall'[d].ok = tcall[d].ok
                        /\ tcall'[d].ack = tcall[d].ack /\ tcall'[d].targets = tcall[d].targets
                        /\ (Destroys(d)' <=> Destroys(d)) /\ (tcall'[d].pc = "idle" <=> tcall[d].pc = "idle")
                        /\ (d # c => tcall'[d] = tcall[d])
    BY <1>a, <2>2, <2>3 DEF Destroys
  <2>5. UNCHANGED <<state, asid, allocated, pte, gave_up, completed, ipi, tlb, tlb_cpus, running>>
    BY <1>a, <1>d DEF spaces
  <2>6. \A d \in Cpu : completed[d] \in Nat /\ pending[d] \in Nat /\ tcall[d].ack \in Nat
    BY <1>0 DEF Types, TlbCalls
  <2>7. \A d \in Cpu : /\ completed[d] < sequence + 1 /\ tcall[d].ack < sequence + 1
                        /\ pending[d] <= pending'[d] /\ pending'[d] <= sequence' /\ pending'[d] \in Nat
    BY <1>0, <1>d, <2>1, <2>6 DEF Numbers
  <2>8. \A d, g \in Cpu : Unserved(d, g) => Unserved(d, g)'
    <3> SUFFICES ASSUME NEW d \in Cpu, NEW g \in Cpu, Unserved(d, g) PROVE Unserved(d, g)'
      OBVIOUS
    <3>1. CASE d = c
      <4>1. tcall[c].pc = "lock" /\ g \in tcall[c].targets
        BY <1>a, <3>1 DEF Unserved
      <4>2. tcall'[c].pc = "send" /\ g \in tcall'[c].targets /\ tcall'[c].seq = sequence + 1
        BY <2>2, <2>3, <4>1
      <4>3. completed'[g] < sequence + 1 /\ tcall'[g].ack < sequence + 1
        BY <2>4, <2>5, <2>7
      <4> QED BY <3>1, <4>2, <4>3 DEF Unserved
    <3>2. CASE d # c
      BY <2>4, <2>5, <3>2 DEF Unserved
    <3> QED BY <3>1, <3>2
  <2>11. Types'
    BY <1>0, <1>d, <2>1, <2>3, <2>5 DEF Types
  <2>12. Numbers'
    <3>1. ASSUME NEW d \in Cpu, tcall'[d].pc \in {"send", "wait"} PROVE 0 < tcall'[d].seq /\ tcall'[d].seq <= sequence'
      <4>1. CASE d = c
        BY <1>d, <2>1, <2>2, <2>3, <4>1
      <4>2. CASE d # c
        <5>1. tcall[d].seq \in Nat
          BY <1>0 DEF Types, TlbCalls
        <5> QED BY <1>0, <1>d, <2>1, <2>4, <3>1, <4>2, <5>1 DEF Numbers
      <4> QED BY <4>1, <4>2
    <3>2. \A d \in Cpu : completed[d] <= pending'[d] /\ tcall[d].ack <= pending'[d]
      <4> SUFFICES ASSUME NEW d \in Cpu PROVE completed[d] <= pending'[d] /\ tcall[d].ack <= pending'[d]
        OBVIOUS
      <4>1. completed[d] <= pending[d] /\ tcall[d].ack <= pending[d]
        BY <1>0 DEF Numbers
      <4>2. /\ completed[d] \in Nat /\ tcall[d].ack \in Nat /\ pending[d] \in Nat
            /\ pending'[d] \in Nat /\ pending[d] <= pending'[d]
        BY <2>6, <2>7
      <4> QED BY ONLY <4>1, <4>2
    <3> QED BY <2>4, <2>5, <2>7, <3>1, <3>2 DEF Numbers
  <2>13. TlbCallsSound'
    <3>1. tcall'[c].pc = "send"
      BY <2>2, <2>3
    <3>2. UNCHANGED <<state, asid, allocated>>
      BY <2>5
    <3>3. \A d \in Cpu : tcall'[d].pc # "idle" => tcall[d].pc # "idle" /\ (d # c => tcall'[d].pc = tcall[d].pc)
      BY <1>a, <2>4
    <3> QED BY <1>0, <1>a, <2>4, <3>1, <3>2, <3>3 DEF TlbCallsSound
  <2>14. Users' /\ EntriesKnown'
    BY <1>0, <2>5 DEF Users, EntriesKnown
  <2>15. Owners'
    BY <1>0, <2>4, <2>5, OwnersKept
  <2>16. StaleServed'
    <3> SUFFICES ASSUME NEW d \in Cpu, NEW e \in tlb[d], state[e.a] = "live", e.ver # pte[e.a], e.a \notin gave_up
                 PROVE  \E g \in Cpu \ {d} : tcall'[g].a = e.a /\ (tcall'[g].pc = "load" \/ Unserved(g, d)')
      BY <2>5 DEF StaleServed
    <3>1. PICK g \in Cpu \ {d} : tcall[g].a = e.a /\ (tcall[g].pc = "load" \/ Unserved(g, d))
      BY <1>0 DEF StaleServed
    <3> QED BY <1>a, <2>4, <2>8, <3>1
  <2>17. DestroyServed'
    BY <1>0, <2>4, <2>5, <2>8 DEF DestroyServed
  <2> QED BY <2>11, <2>12, <2>13, <2>14, <2>15, <2>16, <2>17 DEF TlbInv
<1> QED BY <1>b, <1>c, <1>d DEF lock_tlb_shootdown

(* A step that moves calls on without a new change to a space: enough that      *)
(* whoever was to be reached still is, or has just flushed.                   *)
LEMMA Moves ==
  ASSUME TlbInv, UNCHANGED <<state, asid, allocated, pte, gave_up, tlb_cpus, running>>, Types', Numbers', TlbCallsSound',
         \A d \in Cpu : tlb'[d] \subseteq tlb[d],
         \A d \in Cpu : (Destroys(d)' => Destroys(d) /\ tcall'[d].a = tcall[d].a),
         \A d \in Cpu : tcall[d].pc = "load" =>
            /\ tcall'[d].a = tcall[d].a
            /\ tcall'[d].pc = "load" \/ \A g \in Cpu \ {d} : g \in tlb_cpus[tcall[d].a] => Unserved(d, g)',
         \A d, g \in Cpu : Unserved(d, g) => tlb'[g] = {} \/ (tcall'[d].a = tcall[d].a /\ Unserved(d, g)')
  PROVE  TlbInv'
<1>0. Users /\ Owners /\ EntriesKnown /\ StaleServed /\ DestroyServed
  BY DEF TlbInv
<1>1. Users'
  BY <1>0 DEF Users
<1>2. Owners'
  BY <1>0, OwnersKept
<1>3. EntriesKnown'
  BY <1>0 DEF EntriesKnown
<1>4. StaleServed'
  <2> SUFFICES ASSUME NEW c \in Cpu, NEW e \in tlb'[c], state[e.a] = "live", e.ver # pte[e.a], e.a \notin gave_up
               PROVE  \E d \in Cpu \ {c} : tcall'[d].a = e.a /\ (tcall'[d].pc = "load" \/ Unserved(d, c)')
    BY DEF StaleServed
  <2>1. PICK d \in Cpu \ {c} : tcall[d].a = e.a /\ (tcall[d].pc = "load" \/ Unserved(d, c))
    BY <1>0 DEF StaleServed
  <2>2. c \in tlb_cpus[e.a] /\ tlb'[c] # {}
    BY <1>0 DEF EntriesKnown
  <2>3. CASE tcall[d].pc = "load"
    BY <2>1, <2>2, <2>3
  <2>4. CASE Unserved(d, c)
    BY <2>1, <2>2, <2>4
  <2> QED BY <2>1, <2>3, <2>4
<1>5. DestroyServed'
  <2> SUFFICES ASSUME NEW c \in Cpu, NEW d \in Cpu, NEW e \in tlb'[c], Destroys(d)', asid[tcall'[d].a] = e.asid
               PROVE  Unserved(d, c)'
    BY DEF DestroyServed
  <2>1. Unserved(d, c)
    BY <1>0 DEF DestroyServed
  <2> QED BY <2>1
<1> QED BY <1>1, <1>2, <1>3, <1>4, <1>5 DEF TlbInv

(* The processors that ever ran the space are read after the change; whoever    *)
(* holds an entry of it is among them.                                        *)
LEMMA RequestKeeps == ASSUME TlbAssumption, TlbInv, NEW c \in Cpu, request_tlb_shootdown(c) PROVE TlbInv'
<1> USE TlbAssumption DEF TlbAssumption
<1>0. Types /\ Numbers /\ TlbCallsSound /\ Users /\ Owners /\ EntriesKnown /\ StaleServed /\ DestroyServed
  BY DEF TlbInv
<1>a. /\ tcall[c].pc = "load" /\ tcall[c].ack = 0
      /\ UNCHANGED <<state, asid, allocated, pte, gave_up, sequence, pending, completed, ipi, tlb_cpus, tlb, running, lock>>
      /\ TGo(c, [tcall[c] EXCEPT !.pc = "lock", !.targets = tlb_cpus[tcall[c].a] \ {c}])
  BY DEF request_tlb_shootdown, TIn, spaces, wires
<1> DEFINE r == [tcall[c] EXCEPT !.pc = "lock", !.targets = tlb_cpus[tcall[c].a] \ {c}]
<1>b. tcall[c] \in TlbCalls /\ tcall[c].a \in Aspace /\ tlb_cpus[tcall[c].a] \in SUBSET Cpu
  BY <1>0, <1>a DEF Types, TlbCallsSound
<1>c. r \in TlbCalls
  <2>1. tlb_cpus[tcall[c].a] \ {c} \in SUBSET Cpu /\ 0 \in Nat /\ TRUE \in BOOLEAN
    BY <1>b
  <2> QED BY <1>b, <2>1, CallFields, Zenon
<1>d. /\ r.pc = "lock" /\ r.targets = tlb_cpus[tcall[c].a] \ {c} /\ r.a = tcall[c].a /\ r.kind = tcall[c].kind
      /\ r.ack = tcall[c].ack /\ r.seq = tcall[c].seq
  BY <1>b DEF TlbCalls
<1>e. r.ok = tcall[c].ok
  BY <1>b, Zenon DEF TlbCalls
<1> HIDE DEF r
<1>f. tcall' \in [Cpu -> TlbCalls] /\ tcall'[c] = r /\ \A d \in Cpu \ {c} : tcall'[d] = tcall[d]
  BY <1>0, <1>a, <1>c, Going DEF r
<1>1. Types'
  BY <1>0, <1>a, <1>f DEF Types
<1>2. Numbers'
  BY <1>0, <1>a, <1>d, <1>f DEF Numbers
<1>3. \A d \in Cpu : Destroys(d)' => Destroys(d) /\ tcall'[d].a = tcall[d].a
  BY <1>a, <1>d, <1>f DEF Destroys
<1>4. TlbCallsSound'
  <2>1. tcall'[c].ok /\ tcall'[c].a = tcall[c].a /\ tcall'[c].pc = "lock"
    BY <1>0, <1>a, <1>d, <1>e, <1>f DEF TlbCallsSound
  <2> QED BY <1>0, <1>a, <1>3, <1>f, <2>1 DEF TlbCallsSound
<1>5. \A d, g \in Cpu : Unserved(d, g) => tcall'[d].a = tcall[d].a /\ Unserved(d, g)'
  BY <1>a, <1>d, <1>f DEF Unserved
<1>6. \A g \in Cpu \ {c} : g \in tlb_cpus[tcall[c].a] => Unserved(c, g)'
  BY <1>d, <1>f DEF Unserved
<1> QED BY <1>a, <1>d, <1>f, <1>1, <1>2, <1>3, <1>4, <1>5, <1>6, Moves

(* The interrupts are sent, or the firmware refuses and the call gives up.     *)
LEMMA SendKeeps == ASSUME TlbAssumption, TlbInv, NEW c \in Cpu, send_ipi(c) PROVE TlbInv'
<1> USE TlbAssumption DEF TlbAssumption
<1>0. Types /\ Numbers /\ TlbCallsSound /\ Users /\ Owners /\ EntriesKnown /\ StaleServed /\ DestroyServed
  BY DEF TlbInv
<1>a. /\ tcall[c].pc = "send" /\ tcall[c].ack = 0
      /\ UNCHANGED <<sequence, pending, completed, tlb_cpus, tlb, running>>
  BY DEF send_ipi, TIn
<1>b. CASE release(c, FALSE) /\ lock' = 0 /\ UNCHANGED ipi
  BY <1>0, <1>a, <1>b, Ends DEF Types
<1>c. CASE ipi' = ipi \cup tcall[c].targets /\ TGo(c, [tcall[c] EXCEPT !.pc = "wait"]) /\ UNCHANGED <<spaces, lock>>
  <2> DEFINE r == [tcall[c] EXCEPT !.pc = "wait"]
  <2>1. tcall[c] \in TlbCalls
    BY <1>0 DEF Types
  <2>2. r \in TlbCalls
    <3>1. 0 \in Nat /\ {} \in SUBSET Cpu /\ TRUE \in BOOLEAN
      OBVIOUS
    <3> QED BY <2>1, <3>1, CallFields, Zenon
  <2>3. /\ r.pc = "wait" /\ r.a = tcall[c].a /\ r.kind = tcall[c].kind /\ r.targets = tcall[c].targets
        /\ r.seq = tcall[c].seq /\ r.ack = tcall[c].ack
    BY <2>1 DEF TlbCalls
  <2>4. r.ok = tcall[c].ok
    BY <2>1, Zenon DEF TlbCalls
  <2> HIDE DEF r
  <2>5. tcall' \in [Cpu -> TlbCalls] /\ tcall'[c] = r /\ \A d \in Cpu \ {c} : tcall'[d] = tcall[d]
    BY <1>0, <1>c, <2>2, Going DEF r
  <2>6. UNCHANGED <<state, asid, allocated, pte, gave_up>>
    BY <1>c DEF spaces
  <2>7. tcall[c].targets \subseteq Cpu
    BY <2>1 DEF TlbCalls
  <2>11. Types'
    BY <1>0, <1>a, <1>c, <2>5, <2>6, <2>7 DEF Types
  <2>12. Numbers'
    BY <1>0, <1>a, <2>3, <2>5 DEF Numbers
  <2>13. \A d \in Cpu : Destroys(d)' => Destroys(d) /\ tcall'[d].a = tcall[d].a
    BY <1>a, <2>3, <2>5 DEF Destroys
  <2>14. TlbCallsSound'
    <3>1. tcall'[c].a = tcall[c].a /\ tcall'[c].pc = "wait"
      BY <2>3, <2>5
    <3> QED BY <1>0, <1>a, <2>5, <2>6, <2>13, <3>1 DEF TlbCallsSound
  <2>15. \A d, g \in Cpu : Unserved(d, g) => tcall'[d].a = tcall[d].a /\ Unserved(d, g)'
    <3> SUFFICES ASSUME NEW d \in Cpu, NEW g \in Cpu, Unserved(d, g)
                 PROVE  tcall'[d].a = tcall[d].a /\ Unserved(d, g)'
      OBVIOUS
    <3>1. tcall'[g].ack = tcall[g].ack
      BY <2>3, <2>5
    <3>2. CASE d = c
      <4>1. tcall[c].ok
        BY <1>0, <1>a DEF TlbCallsSound
      <4> QED BY <1>a, <2>3, <2>4, <2>5, <3>1, <3>2, <4>1 DEF Unserved
    <3>3. CASE d # c
      BY <1>a, <2>5, <3>1, <3>3 DEF Unserved
    <3> QED BY <3>2, <3>3
  <2> QED BY <1>a, <2>5, <2>6, <2>11, <2>12, <2>13, <2>14, <2>15, Moves
<1> QED BY <1>b, <1>c DEF send_ipi

(* A processor is dropped from the list when its answer is not below the call's *)
(* number, or the call counts as failed.                                      *)
LEMMA WaitKeeps == ASSUME TlbAssumption, TlbInv, NEW c \in Cpu, wait_completed(c) PROVE TlbInv'
<1> USE TlbAssumption DEF TlbAssumption
<1>0. Types /\ Numbers /\ TlbCallsSound /\ Users /\ Owners /\ EntriesKnown /\ StaleServed /\ DestroyServed
  BY DEF TlbInv
<1> DEFINE x == Min(tcall[c].targets)
           done == completed[x] >= tcall[c].seq
           r == [tcall[c] EXCEPT !.targets = @ \ {x}, !.ok = @ /\ done]
<1>a. /\ tcall[c].pc = "wait" /\ tcall[c].ack = 0 /\ tcall[c].targets # {}
      /\ UNCHANGED <<state, asid, allocated, pte, gave_up, sequence, pending, completed, ipi, tlb_cpus, tlb, running, lock>>
      /\ TGo(c, r)
  BY DEF wait_completed, TIn, spaces, wires
<1>b. tcall[c] \in TlbCalls /\ tcall[c].targets \in SUBSET Cpu /\ tcall[c].ok \in BOOLEAN /\ tcall[c].seq \in Nat
  <2>1. tcall[c] \in TlbCalls
    BY <1>0 DEF Types
  <2> QED BY <2>1 DEF TlbCalls
<1>c. x \in tcall[c].targets /\ x \in Cpu /\ completed[x] \in Nat
  BY <1>0, <1>a, <1>b, Least DEF Types
<1>d. /\ r.pc = "wait" /\ r.targets = tcall[c].targets \ {x} /\ r.a = tcall[c].a /\ r.kind = tcall[c].kind
      /\ r.seq = tcall[c].seq /\ r.ack = tcall[c].ack
  BY <1>a, <1>b DEF TlbCalls
<1>e. r.ok = (tcall[c].ok /\ done)
  BY <1>b, Zenon DEF TlbCalls
<1>f. r \in TlbCalls
  <2> HIDE DEF done, x
  <2>1. r = [tcall[c] EXCEPT !.targets = tcall[c].targets \ {x}, !.ok = (tcall[c].ok /\ done)]
    BY <1>b, Zenon DEF TlbCalls
  <2>2. tcall[c].targets \ {x} \in SUBSET Cpu /\ (tcall[c].ok /\ done) \in BOOLEAN /\ 0 \in Nat
    BY <1>b
  <2> QED BY <1>b, <2>1, <2>2, CallFields, Zenon
<1> HIDE DEF r, done, x
<1>g. tcall' \in [Cpu -> TlbCalls] /\ tcall'[c] = r /\ \A d \in Cpu \ {c} : tcall'[d] = tcall[d]
  BY <1>0, <1>a, <1>f, Going DEF r, done, x
<1>1. Types'
  BY <1>0, <1>a, <1>g DEF Types
<1>2. Numbers'
  BY <1>0, <1>a, <1>d, <1>g DEF Numbers
<1>3. \A d \in Cpu : Destroys(d)' => Destroys(d) /\ tcall'[d].a = tcall[d].a
  BY <1>a, <1>d, <1>g DEF Destroys
<1>4. TlbCallsSound'
  <2>1. tcall'[c].a = tcall[c].a /\ tcall'[c].pc = "wait"
    BY <1>d, <1>g
  <2>2. UNCHANGED <<state, asid, allocated>>
    BY <1>a
  <2> QED BY <1>0, <1>a, <1>3, <1>g, <2>1, <2>2 DEF TlbCallsSound
<1>5. \A d, g \in Cpu : Unserved(d, g) => tcall'[d].a = tcall[d].a /\ Unserved(d, g)'
  <2> SUFFICES ASSUME NEW d \in Cpu, NEW g \in Cpu, Unserved(d, g)
               PROVE  tcall'[d].a = tcall[d].a /\ Unserved(d, g)'
    OBVIOUS
  <2>1. tcall'[g].ack = tcall[g].ack
    BY <1>d, <1>g
  <2>2. CASE d # c
    BY <1>a, <1>g, <2>1, <2>2 DEF Unserved
  <2>3. CASE d = c /\ ~ tcall[c].ok
    <3>1. ~ tcall'[c].ok
      BY <1>e, <1>g, <2>3
    <3> QED BY <1>d, <1>g, <2>3, <3>1 DEF Unserved
  <2>4. CASE d = c /\ g \in tcall[c].targets /\ completed[g] < tcall[c].seq /\ tcall[g].ack < tcall[c].seq
    <3>1. CASE g = x
      <4>1. ~ done
        BY <1>b, <1>c, <2>4, <3>1 DEF done
      <4>2. ~ tcall'[c].ok
        BY <1>e, <1>g, <4>1
      <4> QED BY <1>d, <1>g, <2>4, <4>2 DEF Unserved
    <3>2. CASE g # x
      <4>1. g \in tcall'[c].targets /\ tcall'[c].seq = tcall[c].seq /\ tcall'[c].pc = "wait" /\ tcall'[c].a = tcall[c].a
        BY <1>d, <1>g, <2>4, <3>2
      <4> QED BY <1>a, <2>1, <2>4, <4>1 DEF Unserved
    <3> QED BY <3>1, <3>2
  <2> QED BY <1>a, <2>2, <2>3, <2>4 DEF Unserved
<1> QED BY <1>a, <1>d, <1>g, <1>1, <1>2, <1>3, <1>4, <1>5, Moves

(* The list is empty: who was on it answered, or the call says that it failed.  *)
LEMMA EndKeeps == ASSUME TlbAssumption, TlbInv, NEW c \in Cpu, shootdown_ends(c) PROVE TlbInv'
<1> USE TlbAssumption DEF TlbAssumption
<1>0. Types /\ Numbers /\ TlbCallsSound /\ Users /\ Owners /\ EntriesKnown /\ StaleServed /\ DestroyServed
  BY DEF TlbInv
<1>1. /\ tcall[c].pc = "wait" /\ tcall[c].ack = 0 /\ tcall[c].targets = {} /\ release(c, tcall[c].ok) /\ lock' = 0
      /\ UNCHANGED <<sequence, pending, completed, ipi, tlb_cpus, tlb, running>>
  BY DEF shootdown_ends, TIn, wires
<1>2. tcall[c].ok \in BOOLEAN
  <2>1. tcall[c] \in TlbCalls
    BY <1>0 DEF Types
  <2> QED BY <2>1 DEF TlbCalls
<1>3. tcall[c].ok => \A d \in Cpu : ~ Unserved(c, d)
  BY <1>1 DEF Unserved
<1> QED BY <1>0, <1>1, <1>2, <1>3, Ends DEF Types

(* An answer is prepared after the flush: whoever had to reach c has.          *)
LEMMA ServeKeeps ==
  ASSUME TlbAssumption, TlbInv, NEW c \in Cpu, NEW n \in Nat, n <= pending[c], tlb' = flush_all(tlb, {c}),
         TGo(c, [tcall[c] EXCEPT !.ack = n]), ipi' \in SUBSET Cpu,
         UNCHANGED <<state, asid, allocated, pte, gave_up, sequence, pending, completed, tlb_cpus, running, lock>>
  PROVE  TlbInv'
<1> USE TlbAssumption DEF TlbAssumption
<1>0. Types /\ Numbers /\ TlbCallsSound /\ Users /\ Owners /\ EntriesKnown /\ StaleServed /\ DestroyServed
  BY DEF TlbInv
<1> DEFINE r == [tcall[c] EXCEPT !.ack = n]
<1>a. tcall[c] \in TlbCalls
  BY <1>0 DEF Types
<1>b. r \in TlbCalls
  <2>1. {} \in SUBSET Cpu /\ TRUE \in BOOLEAN
    OBVIOUS
  <2> QED BY <1>a, <2>1, CallFields, Zenon
<1>c. r.pc = tcall[c].pc /\ r.targets = tcall[c].targets /\ r.a = tcall[c].a /\ r.kind = tcall[c].kind
      /\ r.seq = tcall[c].seq /\ r.ack = n
  BY <1>a DEF TlbCalls
<1>d. r.ok = tcall[c].ok
  BY <1>a, Zenon DEF TlbCalls
<1> HIDE DEF r
<1>e. tcall' \in [Cpu -> TlbCalls] /\ tcall'[c] = r /\ \A d \in Cpu \ {c} : tcall'[d] = tcall[d]
  BY <1>0, <1>b, Going DEF r
<1>f. \A d \in Cpu : /\ tcall'[d].pc = tcall[d].pc /\ tcall'[d].a = tcall[d].a /\ tcall'[d].kind = tcall[d].kind
                      /\ tcall'[d].targets = tcall[d].targets /\ tcall'[d].seq = tcall[d].seq
                      /\ (d # c => tcall'[d].ack = tcall[d].ack)
  BY <1>c, <1>e
<1>g. \A d \in Cpu : tcall'[d].ok = tcall[d].ok
  BY <1>d, <1>e
<1>h. tlb' \in [Cpu -> SUBSET Entries] /\ tlb'[c] = {} /\ \A d \in Cpu : tlb'[d] \subseteq tlb[d]
  BY <1>0 DEF flush_all, Types
<1>1. Types'
  BY <1>0, <1>e, <1>h DEF Types
<1>2. Numbers'
  <2>1. \A d \in Cpu : tcall'[d].ack <= pending[d]
    BY <1>0, <1>c, <1>e DEF Numbers
  <2> QED BY <1>0, <1>f, <2>1 DEF Numbers
<1>3. \A d \in Cpu : Destroys(d)' => Destroys(d) /\ tcall'[d].a = tcall[d].a
  BY <1>f DEF Destroys
<1>4. TlbCallsSound'
  BY <1>0, <1>3, <1>f, <1>g DEF TlbCallsSound
<1>5. \A d, g \in Cpu : Unserved(d, g) => tlb'[g] = {} \/ (tcall'[d].a = tcall[d].a /\ Unserved(d, g)')
  <2> SUFFICES ASSUME NEW d \in Cpu, NEW g \in Cpu, Unserved(d, g), g # c
               PROVE  tcall'[d].a = tcall[d].a /\ Unserved(d, g)'
    BY <1>h
  <2> QED BY <1>f, <1>g DEF Unserved
<1> QED BY <1>f, <1>h, <1>1, <1>2, <1>3, <1>4, <1>5, Moves

LEMMA HandleKeeps == ASSUME TlbAssumption, TlbInv, NEW c \in Cpu, handle_tlb_shootdown_ipi(c) PROVE TlbInv'
<1>1. ipi' \in SUBSET Cpu /\ pending[c] \in Nat
  BY DEF handle_tlb_shootdown_ipi, TlbInv, Types
<1>2. CASE serve(c)
  BY <1>1, <1>2, ServeKeeps DEF serve, handle_tlb_shootdown_ipi, spaces
<1>3. CASE UNCHANGED <<tlb, tcall>>
  <2>1. UNCHANGED <<state, asid, allocated, pte, gave_up, sequence, pending, completed, tlb_cpus, running, lock, tlb, tcall>>
    BY <1>3 DEF handle_tlb_shootdown_ipi, spaces
  <2> QED BY <1>1, <2>1 DEF TlbInv, Types, Numbers, TlbCallsSound, Users, Owners, EntriesKnown, StaleServed, DestroyServed,
                             Destroys, Unserved
<1> QED BY <1>2, <1>3 DEF handle_tlb_shootdown_ipi

LEMMA PollKeeps == ASSUME TlbAssumption, TlbInv, NEW c \in Cpu, poll_while_waiting(c) PROVE TlbInv'
<1>1. ipi' \in SUBSET Cpu /\ pending[c] \in Nat
  BY DEF poll_while_waiting, TlbInv, Types, wires
<1> QED BY <1>1, ServeKeeps DEF serve, poll_while_waiting, spaces, wires

(* The answer of c is published; nobody in whose list c is has a number up to   *)
(* it without c having flushed.                                               *)
LEMMA AcknowledgeKeeps == ASSUME TlbAssumption, TlbInv, NEW c \in Cpu, acknowledge(c) PROVE TlbInv'
<1> USE TlbAssumption DEF TlbAssumption
<1>0. Types /\ Numbers /\ TlbCallsSound /\ Users /\ Owners /\ EntriesKnown /\ StaleServed /\ DestroyServed
  BY DEF TlbInv
<1> DEFINE r == [tcall[c] EXCEPT !.ack = 0]
<1>a. /\ completed' = [completed EXCEPT ![c] = tcall[c].ack] /\ TGo(c, r)
      /\ UNCHANGED <<state, asid, allocated, pte, gave_up, sequence, pending, ipi, tlb_cpus, tlb, running, lock>>
  BY DEF acknowledge, spaces
<1>b. tcall[c] \in TlbCalls /\ tcall[c].ack \in Nat /\ tcall[c].ok \in BOOLEAN
  <2>1. tcall[c] \in TlbCalls
    BY <1>0 DEF Types
  <2> QED BY <2>1 DEF TlbCalls
<1>c. r.pc = tcall[c].pc /\ r.targets = tcall[c].targets /\ r.a = tcall[c].a /\ r.kind = tcall[c].kind
      /\ r.seq = tcall[c].seq /\ r.ack = 0
  BY <1>b DEF TlbCalls
<1>d. r.ok = tcall[c].ok
  BY <1>b, Zenon DEF TlbCalls
<1>i. r \in TlbCalls
  <2>1. {} \in SUBSET Cpu /\ TRUE \in BOOLEAN /\ 0 \in Nat
    OBVIOUS
  <2> QED BY <1>b, <2>1, CallFields, Zenon
<1> HIDE DEF r
<1>e. tcall' \in [Cpu -> TlbCalls] /\ tcall'[c] = r /\ \A d \in Cpu \ {c} : tcall'[d] = tcall[d]
  BY <1>0, <1>a, <1>i, Going DEF r
<1>f. \A d \in Cpu : /\ tcall'[d].pc = tcall[d].pc /\ tcall'[d].a = tcall[d].a /\ tcall'[d].kind = tcall[d].kind
                      /\ tcall'[d].targets = tcall[d].targets /\ tcall'[d].seq = tcall[d].seq
                      /\ (d # c => tcall'[d].ack = tcall[d].ack)
  BY <1>c, <1>e
<1>g. \A d \in Cpu : tcall'[d].ok = tcall[d].ok
  BY <1>d, <1>e
<1>h. /\ completed' \in [Cpu -> Nat] /\ completed'[c] = tcall[c].ack /\ tcall'[c].ack = 0
      /\ \A d \in Cpu \ {c} : completed'[d] = completed[d]
  BY <1>0, <1>a, <1>b, <1>c, <1>e DEF Types
<1>1. Types'
  BY <1>0, <1>a, <1>e, <1>h DEF Types
<1>2. Numbers'
  <2>1. pending[c] \in Nat
    BY <1>0 DEF Types
  <2>2. \A d \in Cpu : tcall'[d].ack <= pending[d] /\ completed'[d] <= pending[d]
    BY <1>0, <1>f, <1>h, <2>1 DEF Numbers
  <2> QED BY <1>0, <1>a, <1>f, <2>2 DEF Numbers
<1>3. \A d \in Cpu : Destroys(d)' => Destroys(d) /\ tcall'[d].a = tcall[d].a
  BY <1>f DEF Destroys
<1>4. TlbCallsSound'
  <2>1. UNCHANGED <<state, asid, allocated>>
    BY <1>a
  <2> QED BY <1>0, <1>3, <1>f, <1>g, <2>1 DEF TlbCallsSound
<1>5. \A d, g \in Cpu : Unserved(d, g) => tcall'[d].a = tcall[d].a /\ Unserved(d, g)'
  <2> SUFFICES ASSUME NEW d \in Cpu, NEW g \in Cpu, Unserved(d, g)
               PROVE  tcall'[d].a = tcall[d].a /\ Unserved(d, g)'
    OBVIOUS
  <2>1. CASE g # c
    BY <1>f, <1>g, <1>h, <2>1 DEF Unserved
  <2>2. CASE g = c
    <3>1. tcall[d].pc \in {"send", "wait"} => 0 < tcall[d].seq
      BY <1>0 DEF Numbers
    <3> QED BY <1>f, <1>g, <1>h, <2>2, <3>1 DEF Unserved
  <2> QED BY <2>1, <2>2
<1> QED BY <1>a, <1>f, <1>1, <1>2, <1>3, <1>4, <1>5, Moves

(* A change makes every other CPU's entry of the space old, and the call that   *)
(* made it is still to ask who they are.                                      *)
LEMMA ChangeKeeps ==
  ASSUME TlbAssumption, TlbInv, NEW c \in Cpu, NEW a \in Aspace, NEW changed \in BOOLEAN, with_user_aspace_mut(c, a, changed)
  PROVE  TlbInv'
<1> USE TlbAssumption DEF TlbAssumption
<1>0. Types /\ Numbers /\ TlbCallsSound /\ Users /\ Owners /\ EntriesKnown /\ StaleServed /\ DestroyServed
  BY DEF TlbInv
<1>a. /\ tcall[c].pc = "idle" /\ tcall[c].ack = 0 /\ state[a] = "live" /\ (changed => pte[a] < MaxVer)
      /\ UNCHANGED <<state, asid, allocated, gave_up, sequence, pending, completed, ipi, tlb_cpus, running, lock>>
      /\ tlb' = flush_all(tlb, {c}) /\ pte' = IF changed THEN [pte EXCEPT ![a] = @ + 1] ELSE pte
  BY DEF with_user_aspace_mut, TIn, wires
<1> DEFINE r == IF changed THEN [Idle EXCEPT !.pc = "load", !.a = a, !.kind = "change"] ELSE Idle
<1>b. /\ r \in TlbCalls /\ r.pc = (IF changed THEN "load" ELSE "idle") /\ r.ack = 0
      /\ (changed => r.a = a /\ r.kind = "change")
  BY DEF Idle, TlbCalls
<1>c. r.ok
  BY Zenon, <1>b DEF Idle
<1> HIDE DEF r
<1>d. tcall' \in [Cpu -> TlbCalls] /\ tcall'[c] = r /\ \A d \in Cpu \ {c} : tcall'[d] = tcall[d]
  BY <1>0, <1>b, Going DEF r, with_user_aspace_mut
<1>e. tlb' \in [Cpu -> SUBSET Entries] /\ tlb'[c] = {} /\ \A d \in Cpu : tlb'[d] \subseteq tlb[d]
  BY <1>0, <1>a DEF flush_all, Types
<1>f. /\ pte' \in [Aspace -> 0 .. MaxVer] /\ \A b \in Aspace : b # a \/ ~ changed => pte'[b] = pte[b]
  <2>1. pte \in [Aspace -> 0 .. MaxVer]
    BY <1>0 DEF Types
  <2>2. CASE changed
    <3>1. pte[a] \in 0 .. MaxVer /\ pte[a] < MaxVer
      BY <1>a, <2>1, <2>2
    <3>2. pte[a] + 1 \in 0 .. MaxVer
      BY <3>1
    <3> QED BY <1>a, <2>1, <2>2, <3>2
  <2>3. CASE ~ changed
    BY <1>a, <2>1, <2>3
  <2> QED BY <2>2, <2>3
<1>g. \A d \in Cpu : Destroys(d)' => d # c /\ Destroys(d) /\ tcall'[d] = tcall[d]
  BY <1>b, <1>d DEF Destroys
<1>h. \A d \in Cpu : tcall'[d].ack = tcall[d].ack
  BY <1>a, <1>b, <1>d
<1>1. Types'
  BY <1>0, <1>a, <1>d, <1>e, <1>f DEF Types
<1>2. Numbers'
  BY <1>0, <1>a, <1>b, <1>d, <1>h DEF Numbers
<1>3. TlbCallsSound'
  <2>1. tcall'[c].ok /\ (tcall'[c].pc # "idle" => tcall'[c].pc = "load" /\ tcall'[c].a = a /\ tcall'[c].kind = "change")
    BY <1>b, <1>c, <1>d
  <2>2. UNCHANGED <<state, asid, allocated>> /\ state[a] # "none"
    BY <1>a
  <2> QED BY <1>0, <1>d, <1>g, <2>1, <2>2 DEF TlbCallsSound
<1>4. Users'
  BY <1>0, <1>a DEF Users
<1>5. Owners'
  BY <1>0, <1>a, <1>g, OwnersKept
<1>6. EntriesKnown'
  BY <1>0, <1>a, <1>e DEF EntriesKnown
<1>7. StaleServed'
  <2> SUFFICES ASSUME NEW d \in Cpu, NEW e \in tlb'[d], state[e.a] = "live", e.ver # pte'[e.a], e.a \notin gave_up
               PROVE  \E g \in Cpu \ {d} : tcall'[g].a = e.a /\ (tcall'[g].pc = "load" \/ Unserved(g, d)')
    BY <1>a DEF StaleServed
  <2>1. d # c /\ e \in tlb[d]
    BY <1>e
  <2>2. CASE changed /\ e.a = a
    BY <1>b, <1>d, <2>1, <2>2
  <2>3. CASE ~ (changed /\ e.a = a)
    <3>1. e.a \in Aspace
      BY <1>e, EntryFields
    <3>2. PICK g \in Cpu \ {d} : tcall[g].a = e.a /\ (tcall[g].pc = "load" \/ Unserved(g, d))
      BY <1>0, <1>f, <2>1, <2>3, <3>1 DEF StaleServed
    <3>3. g # c
      BY <1>a, <3>2 DEF Unserved
    <3> QED BY <1>a, <1>d, <1>h, <3>2, <3>3 DEF Unserved
  <2> QED BY <2>2, <2>3
<1>8. DestroyServed'
  <2> SUFFICES ASSUME NEW d \in Cpu, NEW g \in Cpu, NEW e \in tlb'[d], Destroys(g)', asid[tcall'[g].a] = e.asid
               PROVE  Unserved(g, d)'
    BY <1>a DEF DestroyServed
  <2>1. e \in tlb[d] /\ Destroys(g) /\ tcall'[g] = tcall[g]
    BY <1>e, <1>g
  <2>2. Unserved(g, d)
    BY <1>0, <2>1 DEF DestroyServed
  <2> QED BY <1>a, <1>h, <2>1, <2>2 DEF Unserved
<1> QED BY <1>1, <1>2, <1>3, <1>4, <1>5, <1>6, <1>7, <1>8 DEF TlbInv

(* A destroyed space keeps its identifier while any other CPU may hold an entry. *)
LEMMA DestroyKeeps ==
  ASSUME TlbAssumption, TlbInv, NEW c \in Cpu, NEW a \in Aspace, destroy(c, a)
  PROVE  TlbInv'
<1> USE TlbAssumption DEF TlbAssumption
<1>0. Types /\ Numbers /\ TlbCallsSound /\ Users /\ Owners /\ EntriesKnown /\ StaleServed /\ DestroyServed
  BY DEF TlbInv
<1>a. /\ tcall[c].pc = "idle" /\ tcall[c].ack = 0 /\ state[a] = "live" /\ \A d \in Cpu : running[d] # a
      /\ UNCHANGED <<asid, allocated, pte, gave_up, sequence, pending, completed, ipi, running, lock>>
      /\ state' = [state EXCEPT ![a] = "gone"] /\ tlb_cpus' = [tlb_cpus EXCEPT ![a] = {}] /\ tlb' = flush_space(c, a)
  BY DEF destroy, TIn, wires
<1> DEFINE r == [Idle EXCEPT !.pc = "lock", !.a = a, !.kind = "destroy", !.targets = tlb_cpus[a] \ {c}]
<1>b. /\ r \in TlbCalls /\ r.pc = "lock" /\ r.ack = 0 /\ r.a = a /\ r.kind = "destroy" /\ r.targets = tlb_cpus[a] \ {c}
  <2>1. tlb_cpus[a] \in SUBSET Cpu
    BY <1>0 DEF Types
  <2> QED BY <2>1 DEF Idle, TlbCalls
<1>c. r.ok
  BY Zenon DEF Idle
<1> HIDE DEF r
<1>d. tcall' \in [Cpu -> TlbCalls] /\ tcall'[c] = r /\ \A d \in Cpu \ {c} : tcall'[d] = tcall[d]
  BY <1>0, <1>b, Going DEF r, destroy
<1>e. /\ tlb' \in [Cpu -> SUBSET Entries] /\ \A d \in Cpu : tlb'[d] \subseteq tlb[d]
      /\ \A e \in tlb'[c] : e.asid # asid[a]
  BY <1>0, <1>a DEF flush_space, Types
<1>f. /\ state' \in [Aspace -> {"none", "live", "gone"}] /\ state'[a] = "gone" /\ \A b \in Aspace \ {a} : state'[b] = state[b]
      /\ tlb_cpus' \in [Aspace -> SUBSET Cpu] /\ \A b \in Aspace \ {a} : tlb_cpus'[b] = tlb_cpus[b]
  BY <1>0, <1>a DEF Types
<1>g. \A d \in Cpu \ {c} : Destroys(d)' <=> Destroys(d)
  BY <1>d DEF Destroys
<1>h. \A d \in Cpu : tcall'[d].ack = tcall[d].ack
  BY <1>a, <1>b, <1>d
<1>i. asid[a] \in allocated
  BY <1>0, <1>a DEF Owners
<1>j. \A d \in Cpu, g \in Cpu \ {c} : Unserved(g, d) => Unserved(g, d)'
  BY <1>a, <1>d, <1>h DEF Unserved
<1>1. Types'
  BY <1>0, <1>a, <1>d, <1>e, <1>f DEF Types
<1>2. Numbers'
  BY <1>0, <1>a, <1>b, <1>d, <1>h DEF Numbers
<1>3. TlbCallsSound'
  <2>1. tcall'[c].ok /\ tcall'[c].pc = "lock" /\ tcall'[c].a = a
    BY <1>b, <1>c, <1>d
  <2>2. \A b \in Aspace : (state[b] # "none" => state'[b] # "none") /\ (state[b] = "gone" => state'[b] = "gone")
    BY <1>f
  <2>3. UNCHANGED <<asid, allocated>>
    BY <1>a
  <2>4. \A d \in Cpu : Destroys(d) => tcall[d].a \in Aspace
    BY <1>0 DEF TlbCallsSound, Destroys
  <2> SUFFICES ASSUME NEW d \in Cpu
               PROVE  /\ tcall'[d].pc \in {"load", "lock", "send"} => tcall'[d].ok
                      /\ tcall'[d].pc # "idle" => tcall'[d].a \in Aspace /\ state'[tcall'[d].a] # "none"
                      /\ tcall'[d].pc = "load" => tcall'[d].kind = "change"
                      /\ Destroys(d)' => state'[tcall'[d].a] = "gone" /\ asid'[tcall'[d].a] \in allocated'
    BY DEF TlbCallsSound
  <2>5. CASE d = c
    BY <1>f, <1>i, <2>1, <2>3, <2>5
  <2>6. CASE d # c
    BY <1>0, <1>d, <1>g, <2>2, <2>3, <2>4, <2>6 DEF TlbCallsSound
  <2> QED BY <2>5, <2>6
<1>4. Users'
  <2>1. ASSUME NEW d \in Cpu, running[d] # 0 PROVE state'[running[d]] = "live" /\ d \in tlb_cpus'[running[d]]
    <3>1. running[d] \in Aspace \ {a}
      BY <1>0, <1>a, <2>1 DEF Types
    <3> QED BY <1>0, <1>f, <2>1, <3>1 DEF Users
  <2> QED BY <1>a, <2>1 DEF Users
<1>5. Owners'
  <2>1. \A b \in Aspace : state'[b] = "live" => b # a /\ state[b] = "live"
    BY <1>f
  <2>2. ASSUME NEW d \in Cpu, NEW b \in Aspace, Destroys(d)', state'[b] = "live" PROVE asid[b] # asid[tcall'[d].a]
    <3>1. CASE d = c
      BY <1>0, <1>a, <1>b, <1>d, <2>1, <2>2, <3>1 DEF Owners
    <3>2. CASE d # c
      BY <1>0, <1>d, <1>g, <2>1, <2>2, <3>2 DEF Owners
    <3> QED BY <3>1, <3>2
  <2>3. ASSUME NEW d \in Cpu, NEW g \in Cpu, Destroys(d)', Destroys(g)', d # g PROVE asid[tcall'[d].a] # asid[tcall'[g].a]
    <3>1. \A x \in Cpu \ {c} : Destroys(x)' => asid[a] # asid[tcall'[x].a]
      BY <1>0, <1>a, <1>d, <1>g DEF Owners
    <3>2. tcall'[c].a = a
      BY <1>b, <1>d
    <3>3. CASE d = c \/ g = c
      BY <2>3, <3>1, <3>2, <3>3
    <3>4. CASE d # c /\ g # c
      BY <1>0, <1>d, <1>g, <2>3, <3>4 DEF Owners
    <3> QED BY <3>3, <3>4
  <2>4. \A b \in Aspace : state'[b] = "live" => asid[b] \in allocated
    BY <1>0, <2>1 DEF Owners
  <2>5. \A x, y \in Aspace : state'[x] = "live" /\ state'[y] = "live" /\ asid[x] = asid[y] => x = y
    BY <1>0, <2>1 DEF Owners
  <2> QED BY <1>a, <2>2, <2>3, <2>4, <2>5 DEF Owners
<1>6. EntriesKnown'
  <2> SUFFICES ASSUME NEW d \in Cpu, NEW e \in tlb'[d]
               PROVE  /\ e.asid = asid[e.a] /\ e.asid \in allocated /\ state'[e.a] # "none"
                      /\ state'[e.a] = "live" => d \in tlb_cpus'[e.a]
                      /\ \A b \in Aspace : state'[b] = "live" /\ asid[b] = e.asid => b = e.a
    BY <1>a DEF EntriesKnown
  <2>1. e \in tlb[d] /\ e.a \in Aspace
    BY <1>e, EntryFields
  <2> QED BY <1>0, <1>f, <2>1 DEF EntriesKnown
<1>7. StaleServed'
  <2> SUFFICES ASSUME NEW d \in Cpu, NEW e \in tlb'[d], state'[e.a] = "live", e.ver # pte[e.a], e.a \notin gave_up
               PROVE  \E g \in Cpu \ {d} : tcall'[g].a = e.a /\ (tcall'[g].pc = "load" \/ Unserved(g, d)')
    BY <1>a DEF StaleServed
  <2>1. e \in tlb[d] /\ e.a \in Aspace
    BY <1>e, EntryFields
  <2>4. state[e.a] = "live"
    BY <1>f, <2>1
  <2>2. PICK g \in Cpu \ {d} : tcall[g].a = e.a /\ (tcall[g].pc = "load" \/ Unserved(g, d))
    BY <1>0, <2>1, <2>4 DEF StaleServed
  <2>3. g # c
    BY <1>a, <2>2 DEF Unserved
  <2> QED BY <1>d, <1>j, <2>2, <2>3
<1>8. DestroyServed'
  <2> SUFFICES ASSUME NEW d \in Cpu, NEW g \in Cpu, NEW e \in tlb'[d], Destroys(g)', asid[tcall'[g].a] = e.asid
               PROVE  Unserved(g, d)'
    BY <1>a DEF DestroyServed
  <2>1. e \in tlb[d]
    BY <1>e
  <2>2. CASE g # c
    BY <1>0, <1>d, <1>g, <1>j, <2>1, <2>2 DEF DestroyServed
  <2>3. CASE g = c
    <3>1. tcall'[c].a = a /\ tcall'[c].pc = "lock" /\ tcall'[c].targets = tlb_cpus[a] \ {c}
      BY <1>b, <1>d
    <3>2. d # c
      BY <1>e, <2>3, <3>1
    <3>3. d \in tlb_cpus[a]
      <4>1. /\ state[e.a] = "live" => d \in tlb_cpus[e.a]
            /\ \A b \in Aspace : state[b] = "live" /\ asid[b] = e.asid => b = e.a
        BY <1>0, <2>1 DEF EntriesKnown
      <4>2. asid[a] = e.asid /\ state[a] = "live"
        BY <1>a, <2>3, <3>1
      <4> QED BY <4>1, <4>2
    <3> QED BY <2>3, <3>1, <3>2, <3>3 DEF Unserved
  <2> QED BY <2>2, <2>3
<1> QED BY <1>1, <1>2, <1>3, <1>4, <1>5, <1>6, <1>7, <1>8 DEF TlbInv

-----------------------------------------------------------------------------
(* The invariant holds in every state of every instance.                      *)
THEOREM TlbInvariance == TlbSpec => []TlbInv
<1> USE TlbAssumption
<1>1. TlbInit => TlbInv
  BY InvInit
<1>2. TlbInv /\ [TlbNext]_tlbvars => TlbInv'
  <2> SUFFICES ASSUME TlbInv, [TlbNext]_tlbvars PROVE TlbInv'
    OBVIOUS
  <2>1. CASE UNCHANGED tlbvars
    BY <2>1 DEF tlbvars, spaces, wires, TlbInv, Types, Numbers, TlbCallsSound, Users, Owners, EntriesKnown, StaleServed,
                DestroyServed, Destroys, Unserved
  <2>2. ASSUME NEW c \in Cpu, Kernel(c) PROVE TlbInv'
    BY <2>2, RequestKeeps, LockKeeps, SendKeeps, WaitKeeps, EndKeeps, HandleKeeps, PollKeeps, AcknowledgeKeeps DEF Kernel
  <2>3. ASSUME NEW c \in Cpu, mark_inactive(c) \/ Access(c) PROVE TlbInv'
    BY <2>3, MarkInactiveKeeps, AccessKeeps
  <2>4. ASSUME NEW c \in Cpu, NEW a \in Aspace, allocate(c, a) \/ mark_active(c, a) \/ destroy(c, a) PROVE TlbInv'
    BY <2>4, AllocateKeeps, MarkActiveKeeps, DestroyKeeps
  <2>5. ASSUME NEW c \in Cpu, NEW a \in Aspace, NEW changed \in BOOLEAN, with_user_aspace_mut(c, a, changed) PROVE TlbInv'
    BY <2>5, ChangeKeeps
  <2> QED BY <2>1, <2>2, <2>3, <2>4, <2>5 DEF TlbNext
<1> QED BY <1>1, <1>2, PTL DEF TlbSpec

(* Every variable keeps its type, and no CPU acknowledges what was not asked.   *)
THEOREM TlbTypeCorrect == TlbSpec => []TlbTypeOK
<1>1. TlbInv => TlbTypeOK
  BY DEF TlbInv, Types, Numbers, TlbTypeOK
<1> QED BY <1>1, TlbInvariance, PTL

(* An old translation survives in a TLB only while its change is still being     *)
(* announced or after the announcement gave up (user_aspace.rs:               *)
(* request_tlb_shootdown, wait_completed).                                    *)
THEOREM StaleCoveredHolds == TlbSpec => []StaleCovered
<1>1. TlbInv => StaleCovered
  <2> SUFFICES ASSUME TlbInv, NEW c \in Cpu, NEW e \in tlb[c], state[e.a] = "live", e.ver # pte[e.a], e.a \notin gave_up
               PROVE  \E d \in Cpu \ {c} : Reaches(d, c, e.a)
    BY DEF StaleCovered
  <2>1. PICK d \in Cpu \ {c} : tcall[d].a = e.a /\ (tcall[d].pc = "load" \/ Unserved(d, c))
    BY DEF TlbInv, StaleServed
  <2> QED BY <2>1 DEF Reaches, Unserved
<1> QED BY <1>1, TlbInvariance, PTL

(* No TLB holds an entry under an identifier that may be given out, and the      *)
(* running space finds only its own entries (asid.rs: release).               *)
THEOREM AsidColdHolds == TlbSpec => []AsidCold
<1>1. TlbInv => AsidCold
  BY DEF TlbInv, Types, Users, EntriesKnown, AsidCold
<1> QED BY <1>1, TlbInvariance, PTL

(* The two together, the property of the runs.                                *)
THEOREM TlbCoherentHolds == TlbSpec => []TlbCoherent
BY StaleCoveredHolds, AsidColdHolds, PTL DEF TlbCoherent

-----------------------------------------------------------------------------
(***************************************************************************)
(* Frames.                                                                 *)
(***************************************************************************)
Usable == Ppn \ Reserved
Allocators == [rec : Seq(Ppn), nov : 1 .. NFrame + 1, cnt : [Ppn -> 0 .. MaxRef]]
Injective(s) == \A i, j \in DOMAIN s : s[i] = s[j] => i = j

(* An allocator without the frames H: a frame is in its stack, in the range    *)
(* never used or in H, and counts only if in H.                               *)
Pieces(A, H) ==
  /\ A \in Allocators /\ Injective(A.rec) /\ A.nov \notin Reserved
  /\ H \subseteq Usable /\ Range(A.rec) \subseteq Usable
  /\ \A f \in Usable : f >= A.nov => (f \in Range(A.rec) \/ f \in H)
  /\ \A f \in Range(A.rec) : f >= A.nov /\ f \notin H
  /\ \A f \in H : f >= A.nov /\ A.cnt[f] >= 1
  /\ \A f \in Ppn \ H : A.cnt[f] = 0

Own(c) == Range(fcall[c].frames)
Used == {f \in Ppn : users[f] > 0}
Held == Range(pool) \cup (UNION {Own(c) : c \in FCpu}) \cup Used

(* Whoever holds a frame holds it alone and once.                             *)
Apart ==
  /\ Injective(pool) /\ \A c \in FCpu : Injective(fcall[c].frames)
  /\ \A c, d \in FCpu : c # d => Own(c) \cap Own(d) = {}
  /\ \A c \in FCpu : Own(c) \cap Range(pool) = {} /\ Own(c) \cap Used = {}
  /\ Range(pool) \cap Used = {}

Counts == \A f \in Held : ref_counts[f] = IF users[f] > 0 THEN users[f] ELSE 1

(* What a call has claimed and holds at each of its steps.                      *)
CallSound(k) ==
  /\ k.pc \in {"idle", "drain", "giveback", "retry", "claim"} => k.claimed = 0
  /\ k.pc \in {"idle", "drain", "retry", "claim", "batch", "unclaim", "idlebatch"} => k.frames = <<>>
  /\ k.pc \in {"giveback", "zero", "publish"} => k.frames # <<>>
  /\ k.pc \in {"batch", "unclaim", "zero", "publish"} => k.claimed < Batch
  /\ k.pc \in {"zero", "publish"} => Len(k.frames) <= k.claimed + 1
  /\ k.pc \in {"idlezero", "idlepublish"} => Len(k.frames) <= k.claimed
  /\ Len(k.frames) <= Batch
Clean(k) == k.pc \in {"publish", "idlepublish"} => \A f \in Range(k.frames) : ~dirty[f]
CallsSound == \A c \in FCpu : CallSound(fcall[c]) /\ Clean(fcall[c])

FrameInv == FrTypeOK /\ CallsSound /\ Apart /\ Pieces(Alloc, Held) /\ Counts /\ PoolSound

-----------------------------------------------------------------------------
(* Numbers.                                                                   *)
LEMMA MinOfTwo == ASSUME NEW a \in Nat, NEW b \in Nat PROVE Min({a, b}) = IF a <= b THEN a ELSE b
<1>1. Min({a, b}) \in {a, b} /\ \A y \in {a, b} : Min({a, b}) <= y
  BY Least
<1> QED BY <1>1

LEMMA MaxOfTwo == ASSUME NEW a \in Int, NEW b \in Int PROVE Max({a, b}) = IF a >= b THEN a ELSE b
<1>1. \E x \in {a, b} : \A y \in {a, b} : x >= y
  OBVIOUS
<1>2. Max({a, b}) \in {a, b} /\ \A y \in {a, b} : Max({a, b}) >= y
  BY <1>1 DEF Max
<1> QED BY <1>2

(* What is said of 0 and passes from each number below n to the next is said    *)
(* of all up to n.                                                            *)
LEMMA UpTo ==
  ASSUME NEW n \in Nat, NEW S \in SUBSET (0 .. n), 0 \in S, \A i \in 0 .. n : i + 1 <= n /\ i \in S => i + 1 \in S
  PROVE  n \in S
<1> SUFFICES ASSUME n \notin S PROVE FALSE
  OBVIOUS
<1> DEFINE T == (0 .. n) \ S  m == Min(T)
<1>1. T \in SUBSET Nat /\ n \in T
  OBVIOUS
<1>2. m \in T /\ \A y \in T : m <= y
  BY <1>1, Least
<1>3. m # 0 /\ m \in 0 .. n
  BY <1>2
<1> HIDE DEF m
<1>4. m - 1 \in 0 .. n /\ (m - 1) + 1 = m /\ m - 1 \notin T
  BY <1>2, <1>3
<1> QED BY <1>2, <1>3, <1>4

-----------------------------------------------------------------------------
(* Sequences without repetition.                                              *)
LEMMA Appended ==
  ASSUME NEW s \in Seq(Ppn), NEW f \in Ppn
  PROVE  /\ Append(s, f) \in Seq(Ppn) /\ Range(Append(s, f)) = Range(s) \cup {f}
         /\ Len(Append(s, f)) = Len(s) + 1 /\ Append(s, f) # <<>>
         /\ (Injective(s) /\ f \notin Range(s)) => Injective(Append(s, f))
<1> DEFINE t == Append(s, f)
<1>1. t \in Seq(Ppn) /\ Len(t) = Len(s) + 1 /\ DOMAIN t = 1 .. Len(s) + 1 /\ Len(s) \in Nat /\ DOMAIN s = 1 .. Len(s)
  OBVIOUS
<1>2. \A i \in DOMAIN t : t[i] = IF i = Len(s) + 1 THEN f ELSE s[i]
  OBVIOUS
<1>3. Range(t) = Range(s) \cup {f}
  <2>1. t[Len(s) + 1] = f /\ Len(s) + 1 \in DOMAIN t
    BY <1>1, <1>2
  <2>2. \A i \in DOMAIN s : i \in DOMAIN t /\ t[i] = s[i]
    BY <1>1, <1>2
  <2>3. \A i \in DOMAIN t : t[i] = f \/ (i \in DOMAIN s /\ t[i] = s[i])
    BY <1>1, <1>2
  <2> HIDE DEF t
  <2> QED BY <2>1, <2>2, <2>3 DEF Range
<1>4. ASSUME Injective(s), f \notin Range(s) PROVE Injective(t)
  <2>1. \A i \in DOMAIN s : s[i] # f
    BY <1>4 DEF Range
  <2> HIDE DEF t
  <2> QED BY <1>1, <1>2, <1>4, <2>1 DEF Injective
<1>5. t # <<>>
  BY <1>1
<1> QED BY <1>1, <1>3, <1>4, <1>5

(* A prefix and the rest.                                                      *)
LEMMA Split ==
  ASSUME NEW s \in Seq(Ppn), NEW n \in 0 .. Len(s), Injective(s)
  PROVE  LET a == SubSeq(s, 1, n)  b == SubSeq(s, n + 1, Len(s)) IN
         /\ a \in Seq(Ppn) /\ b \in Seq(Ppn) /\ Len(a) = n /\ Len(b) = Len(s) - n
         /\ Injective(a) /\ Injective(b)
         /\ Range(a) \cup Range(b) = Range(s) /\ Range(a) \cap Range(b) = {}
<1> DEFINE a == SubSeq(s, 1, n)  b == SubSeq(s, n + 1, Len(s))
<1>1. a \in Seq(Ppn) /\ Len(a) = n /\ DOMAIN a = 1 .. n /\ \A i \in 1 .. n : a[i] = s[i]
  OBVIOUS
<1>2. /\ b \in Seq(Ppn) /\ Len(b) = Len(s) - n /\ DOMAIN b = 1 .. Len(s) - n
      /\ \A i \in 1 .. Len(s) - n : b[i] = s[n + i]
  OBVIOUS
<1>3. DOMAIN s = 1 .. Len(s) /\ Len(s) \in Nat
  OBVIOUS
<1> HIDE DEF a, b
<1>4. Injective(a) /\ Injective(b)
  <2>1. Injective(a)
    BY <1>1, <1>3 DEF Injective
  <2>2. Injective(b)
    <3> SUFFICES ASSUME NEW i \in DOMAIN b, NEW j \in DOMAIN b, b[i] = b[j] PROVE i = j
      BY DEF Injective
    <3>1. n + i \in DOMAIN s /\ n + j \in DOMAIN s /\ s[n + i] = s[n + j]
      BY <1>2, <1>3
    <3>2. n + i = n + j
      BY <3>1 DEF Injective
    <3> QED BY <3>2, <1>2
  <2> QED BY <2>1, <2>2
<1>5. Range(a) \cup Range(b) = Range(s)
  <2>1. \A i \in DOMAIN s : i \in DOMAIN a \/ (i - n \in DOMAIN b /\ n + (i - n) = i)
    BY <1>1, <1>2, <1>3
  <2>2. Range(s) \subseteq Range(a) \cup Range(b)
    BY <1>1, <1>2, <2>1 DEF Range
  <2>3. Range(a) \subseteq Range(s)
    BY <1>1, <1>3 DEF Range
  <2>4. Range(b) \subseteq Range(s)
    <3>1. \A i \in 1 .. Len(s) - n : n + i \in DOMAIN s
      BY <1>3
    <3> QED BY <1>2, <3>1 DEF Range
  <2> QED BY <2>2, <2>3, <2>4
<1>6. Range(a) \cap Range(b) = {}
  <2> SUFFICES ASSUME NEW i \in DOMAIN a, NEW j \in DOMAIN b PROVE a[i] # b[j]
    BY DEF Range
  <2>1. i \in DOMAIN s /\ n + j \in DOMAIN s /\ i # n + j /\ a[i] = s[i] /\ b[j] = s[n + j]
    BY <1>1, <1>2, <1>3
  <2> QED BY <2>1 DEF Injective
<1> QED BY <1>1, <1>2, <1>4, <1>5, <1>6 DEF a, b

LEMMA Joined ==
  ASSUME NEW s \in Seq(Ppn), NEW t \in Seq(Ppn)
  PROVE  /\ s \o t \in Seq(Ppn) /\ Len(s \o t) = Len(s) + Len(t) /\ Range(s \o t) = Range(s) \cup Range(t)
         /\ (Injective(s) /\ Injective(t) /\ Range(s) \cap Range(t) = {}) => Injective(s \o t)
<1> DEFINE u == s \o t  n == Len(s)  m == Len(t)
<1>1. /\ u \in Seq(Ppn) /\ Len(u) = n + m /\ DOMAIN u = 1 .. n + m /\ n \in Nat /\ m \in Nat
      /\ DOMAIN s = 1 .. n /\ DOMAIN t = 1 .. m
  OBVIOUS
<1>2. \A i \in 1 .. n + m : u[i] = IF i <= n THEN s[i] ELSE t[i - n]
  OBVIOUS
<1> HIDE DEF u, n, m
<1>3. \A i \in DOMAIN u : (i \in DOMAIN s /\ u[i] = s[i]) \/ (i - n \in DOMAIN t /\ u[i] = t[i - n])
  BY <1>1, <1>2
<1>4. Range(u) = Range(s) \cup Range(t)
  <2>1. Range(u) \subseteq Range(s) \cup Range(t)
    BY <1>3 DEF Range
  <2>2. Range(s) \subseteq Range(u)
    BY <1>1, <1>2 DEF Range
  <2>3. \A i \in DOMAIN t : n + i \in DOMAIN u /\ u[n + i] = t[i]
    <3> SUFFICES ASSUME NEW i \in DOMAIN t PROVE n + i \in DOMAIN u /\ u[n + i] = t[i]
      OBVIOUS
    <3>1. n + i \in 1 .. n + m /\ ~(n + i <= n) /\ (n + i) - n = i
      BY <1>1
    <3> QED BY <1>1, <1>2, <3>1
  <2>4. Range(t) \subseteq Range(u)
    BY <2>3 DEF Range
  <2> QED BY <2>1, <2>2, <2>4
<1>5. ASSUME Injective(s), Injective(t), Range(s) \cap Range(t) = {} PROVE Injective(u)
  <2> SUFFICES ASSUME NEW i \in DOMAIN u, NEW j \in DOMAIN u, u[i] = u[j] PROVE i = j
    BY DEF Injective
  <2>1. CASE i <= n /\ j <= n
    BY <2>1, <1>1, <1>2, <1>5 DEF Injective
  <2>2. CASE i > n /\ j > n
    <3>1. i - n \in DOMAIN t /\ j - n \in DOMAIN t /\ t[i - n] = t[j - n]
      BY <2>2, <1>1, <1>2
    <3>2. i - n = j - n
      BY <3>1, <1>5 DEF Injective
    <3> QED BY <3>2, <1>1
  <2>3. CASE (i <= n /\ j > n) \/ (i > n /\ j <= n)
    <3>1. \A k \in DOMAIN u : IF k <= n THEN u[k] \in Range(s) ELSE u[k] \in Range(t)
      BY <1>1, <1>2, <1>3 DEF Range
    <3> QED BY <3>1, <2>3, <1>1, <1>5
  <2> QED BY <2>1, <2>2, <2>3, <1>1
<1> QED BY <1>1, <1>4, <1>5 DEF u, n, m

-----------------------------------------------------------------------------
(* The allocator, one frame at a time.                                        *)
LEMMA Sizes ==
  /\ NFrame \in Nat /\ Capacity \in Nat /\ LowMark \in Nat /\ Batch \in Nat \ {0} /\ MaxRef \in Nat \ {0}
  /\ IsFiniteSet(FCpu) /\ Reserved \subseteq Ppn /\ Ppn \subseteq Nat
BY FrameAssumption DEF FrameAssumption, Ppn

(* The next frame of the range never used: nothing usable is passed over.      *)
LEMMA Below ==
  ASSUME NEW n \in 1 .. NFrame + 1, n \notin Reserved, below(n) >= 1
  PROVE  below(n) \in Usable /\ below(n) < n /\ \A g \in Usable : g < n => g <= below(n)
<1>1. CASE n - 1 \notin Reserved
  <2>1. below(n) = n - 1
    BY <1>1 DEF below
  <2>2. n - 1 \in Ppn
    BY <2>1, Sizes DEF Ppn
  <2>3. \A g \in Usable : g \in Int
    BY DEF Usable, Ppn
  <2> QED BY <1>1, <2>1, <2>2, <2>3, Sizes DEF Usable
<1>2. CASE n - 1 \in Reserved
  <2> DEFINE m == Min(Reserved)
  <2>1. m \in Reserved /\ \A y \in Reserved : m <= y
    BY <1>2, Least, Sizes
  <2>2. below(n) = m - 1 /\ m \in 1 .. NFrame
    BY <1>2, <2>1, Sizes DEF below, Ppn
  <2> HIDE DEF m
  <2>3. m - 1 \in Ppn /\ m - 1 \notin Reserved /\ m - 1 < n
    <3>1. m <= n - 1
      BY <1>2, <2>1
    <3>2. m - 1 \notin Reserved
      BY <2>1, <2>2
    <3> QED BY <2>2, <3>1, <3>2, Sizes DEF Ppn
  <2>4. ASSUME NEW g \in Usable, g < n PROVE g <= m - 1
    <3>1. m .. n - 1 \subseteq Reserved
      BY <1>2, <2>1, FrameAssumption DEF FrameAssumption
    <3>2. g \in 1 .. NFrame /\ g \notin Reserved
      BY DEF Usable, Ppn
    <3> QED BY <2>2, <2>4, <3>1, <3>2, Sizes
  <2> QED BY <2>2, <2>3, <2>4 DEF Usable
<1> QED BY <1>1, <1>2

LEMMA CountOne == ASSUME NEW k \in [Ppn -> 0 .. MaxRef], NEW f PROVE [k EXCEPT ![f] = 1] \in [Ppn -> 0 .. MaxRef]
<1>1. 1 \in 0 .. MaxRef
  BY Sizes
<1> QED BY <1>1

LEMMA AllocOne ==
  ASSUME NEW A, NEW H, Pieces(A, H), can_alloc(A)
  PROVE  LET f == next_frame(A) IN
         /\ f \in Usable /\ f \notin H /\ Pieces(alloc_frame(A), H \cup {f})
         /\ alloc_frame(A).cnt = [A.cnt EXCEPT ![f] = 1]
<1> DEFINE f == next_frame(A)  B == alloc_frame(A)  G == H \cup {f}
<1>1. /\ A \in Allocators /\ A.rec \in Seq(Ppn) /\ A.nov \in 1 .. NFrame + 1 /\ A.cnt \in [Ppn -> 0 .. MaxRef]
      /\ Injective(A.rec) /\ A.nov \notin Reserved /\ H \subseteq Usable /\ Range(A.rec) \subseteq Usable
  BY DEF Pieces, Allocators
<1>2. /\ \A g \in Usable : g >= A.nov => (g \in Range(A.rec) \/ g \in H)
      /\ \A g \in Range(A.rec) : g >= A.nov /\ g \notin H
      /\ \A g \in H : g >= A.nov /\ A.cnt[g] >= 1
      /\ \A g \in Ppn \ H : A.cnt[g] = 0
  BY DEF Pieces
<1>3. B.cnt = [A.cnt EXCEPT ![f] = 1]
  BY DEF alloc_frame
<1>4. \A g \in Usable : g \in Ppn /\ g \in Nat
  BY Sizes DEF Usable
(* What remains of the stack and of the range, in each case.                   *)
<1>5. CASE A.rec # <<>>
  <2> DEFINE n == Len(A.rec) - 1
  <2>1. f = A.rec[Len(A.rec)] /\ B.rec = SubSeq(A.rec, 1, n) /\ B.nov = A.nov
    BY <1>5 DEF next_frame, alloc_frame, Last, Front
  <2>2. Len(A.rec) \in Nat /\ Len(A.rec) > 0 /\ n \in 0 .. Len(A.rec) /\ n + 1 = Len(A.rec)
    BY <1>1, <1>5
  <2> DEFINE b == SubSeq(A.rec, n + 1, Len(A.rec))
  <2>3. /\ B.rec \in Seq(Ppn) /\ Injective(B.rec) /\ Range(B.rec) \cup Range(b) = Range(A.rec)
        /\ Range(B.rec) \cap Range(b) = {}
    <3> HIDE DEF B, f, n
    <3>1. A.rec \in Seq(Ppn) /\ n \in 0 .. Len(A.rec) /\ Injective(A.rec)
      BY <1>1, <2>2
    <3>2. /\ SubSeq(A.rec, 1, n) \in Seq(Ppn) /\ Injective(SubSeq(A.rec, 1, n))
          /\ Range(SubSeq(A.rec, 1, n)) \cup Range(SubSeq(A.rec, n + 1, Len(A.rec))) = Range(A.rec)
          /\ Range(SubSeq(A.rec, 1, n)) \cap Range(SubSeq(A.rec, n + 1, Len(A.rec))) = {}
      BY <3>1, Split, Zenon
    <3> QED BY <2>1, <3>2, Zenon
  <2>4. Range(b) = {f}
    <3>1. Len(b) = 1 /\ DOMAIN b = {1} /\ b[1] = f
      BY <1>1, <2>1, <2>2
    <3> HIDE DEF b, f
    <3> QED BY <3>1 DEF Range
  <2> HIDE DEF b, n
  <2>5. f \in Usable /\ f \notin H /\ f >= A.nov
    BY <1>1, <1>2, <2>3, <2>4
  <2>6. B \in Allocators
    <3>1. B = [rec |-> B.rec, nov |-> B.nov, cnt |-> B.cnt]
      BY DEF alloc_frame
    <3>2. [A.cnt EXCEPT ![f] = 1] \in [Ppn -> 0 .. MaxRef]
      BY <1>1, CountOne
    <3> HIDE DEF B
    <3> QED BY <3>1, <3>2, <1>1, <1>3, <2>1, <2>3 DEF Allocators
  <2>7. \A g \in Ppn : B.cnt[g] = IF g = f THEN 1 ELSE A.cnt[g]
    BY <1>1, <1>3
  <2> HIDE DEF B, f
  <2>8. Pieces(B, G)
    <3>1. \A g \in Usable : g >= B.nov => (g \in Range(B.rec) \/ g \in G)
      BY <1>2, <2>1, <2>3, <2>4
    <3>2. \A g \in Range(B.rec) : g >= B.nov /\ g \notin G
      BY <1>2, <2>1, <2>3, <2>4
    <3>3. \A g \in G : g >= B.nov /\ B.cnt[g] >= 1
      BY <1>1, <1>2, <1>4, <2>1, <2>5, <2>7
    <3>4. \A g \in Ppn \ G : B.cnt[g] = 0
      BY <1>2, <2>7
    <3>5. B.nov \notin Reserved /\ G \subseteq Usable /\ Range(B.rec) \subseteq Usable
      BY <1>1, <2>1, <2>3, <2>5
    <3> QED BY <2>3, <2>6, <3>1, <3>2, <3>3, <3>4, <3>5 DEF Pieces
  <2> QED BY <1>3, <2>5, <2>8 DEF B, f
<1>6. CASE A.rec = <<>>
  <2>1. f = below(A.nov) /\ B.rec = <<>> /\ B.nov = f /\ below(A.nov) >= 1
    BY <1>6 DEF next_frame, alloc_frame, can_alloc
  <2>2. f \in Usable /\ f < A.nov /\ \A g \in Usable : g < A.nov => g <= f
    BY <1>1, <2>1, Below
  <2>3. f \in Ppn /\ f \in 1 .. NFrame + 1 /\ f \notin Reserved
    BY <2>2, Sizes DEF Usable, Ppn
  <2>4. B \in Allocators
    <3>1. B = [rec |-> B.rec, nov |-> B.nov, cnt |-> B.cnt]
      BY DEF alloc_frame
    <3>2. [A.cnt EXCEPT ![f] = 1] \in [Ppn -> 0 .. MaxRef]
      BY <1>1, CountOne
    <3>3. <<>> \in Seq(Ppn)
      OBVIOUS
    <3> HIDE DEF B
    <3> QED BY <3>1, <3>2, <3>3, <1>3, <2>1, <2>3 DEF Allocators
  <2>5. \A g \in Ppn : B.cnt[g] = IF g = f THEN 1 ELSE A.cnt[g]
    BY <1>1, <1>3
  <2>6. Range(B.rec) = {} /\ Range(A.rec) = {} /\ Injective(B.rec)
    BY <1>6, <2>1 DEF Range, Injective
  <2> HIDE DEF B, f
  <2>7. f \notin H
    BY <1>1, <1>2, <1>4, <2>2
  <2>8. \A g \in Usable : g \in Nat /\ f \in Nat /\ A.nov \in Nat
    BY <1>1, <1>4, <2>2, Sizes
  <2>9. Pieces(B, G)
    <3>1. \A g \in Usable : g >= B.nov => (g \in Range(B.rec) \/ g \in G)
      BY <1>2, <2>1, <2>2, <2>6, <2>8
    <3>2. \A g \in G : g >= B.nov /\ B.cnt[g] >= 1
      BY <1>1, <1>2, <1>4, <2>1, <2>2, <2>3, <2>5, <2>8
    <3>3. \A g \in Ppn \ G : B.cnt[g] = 0
      BY <1>2, <2>5
    <3> QED BY <1>1, <2>1, <2>2, <2>3, <2>4, <2>6, <3>1, <3>2, <3>3 DEF Pieces
  <2> QED BY <1>3, <2>2, <2>7, <2>9 DEF B, f
<1> QED BY <1>5, <1>6

LEMMA FreeOne ==
  ASSUME NEW A, NEW H, Pieces(A, H), NEW f \in H
  PROVE  /\ dealloc_frame(A, f).cnt = [A.cnt EXCEPT ![f] = A.cnt[f] - 1]
         /\ A.cnt[f] = 1 => (Pieces(dealloc_frame(A, f), H \ {f}) /\ dealloc_frame(A, f).rec # <<>>)
         /\ A.cnt[f] > 1 => Pieces(dealloc_frame(A, f), H)
<1> DEFINE B == dealloc_frame(A, f)
<1>1. /\ A \in Allocators /\ A.rec \in Seq(Ppn) /\ A.nov \in 1 .. NFrame + 1 /\ A.cnt \in [Ppn -> 0 .. MaxRef]
      /\ Injective(A.rec) /\ A.nov \notin Reserved /\ H \subseteq Usable /\ Range(A.rec) \subseteq Usable
  BY DEF Pieces, Allocators
<1>2. /\ \A g \in Usable : g >= A.nov => (g \in Range(A.rec) \/ g \in H)
      /\ \A g \in Range(A.rec) : g >= A.nov /\ g \notin H
      /\ \A g \in H : g >= A.nov /\ A.cnt[g] >= 1
      /\ \A g \in Ppn \ H : A.cnt[g] = 0
  BY DEF Pieces
<1>3. f \in Usable /\ f \in Ppn /\ A.cnt[f] \in 1 .. MaxRef /\ f \notin Range(A.rec) /\ f >= A.nov
  BY <1>1, <1>2, Sizes DEF Usable
<1>4. B = [rec |-> IF A.cnt[f] = 1 THEN Append(A.rec, f) ELSE A.rec, nov |-> A.nov,
           cnt |-> [A.cnt EXCEPT ![f] = A.cnt[f] - 1]]
  <2>1. PICK r \in Seq(Ppn), n \in 1 .. NFrame + 1, k \in [Ppn -> 0 .. MaxRef] : A = [rec |-> r, nov |-> n, cnt |-> k]
    BY <1>1 DEF Allocators
  <2>2. k[f] = A.cnt[f] /\ r = A.rec /\ n = A.nov /\ k = A.cnt
    BY <2>1
  <2>3. B = [A EXCEPT !.cnt = [A.cnt EXCEPT ![f] = A.cnt[f] - 1], !.rec = IF A.cnt[f] = 1 THEN Append(A.rec, f) ELSE A.rec]
    BY Zenon DEF dealloc_frame
  <2> QED BY <2>1, <2>2, <2>3
<1>5. [A.cnt EXCEPT ![f] = A.cnt[f] - 1] \in [Ppn -> 0 .. MaxRef]
  <2>1. A.cnt[f] - 1 \in 0 .. MaxRef
    BY <1>3, Sizes
  <2> QED BY <1>1, <2>1
<1>6. /\ Append(A.rec, f) \in Seq(Ppn) /\ Range(Append(A.rec, f)) = Range(A.rec) \cup {f}
      /\ Injective(Append(A.rec, f)) /\ Append(A.rec, f) # <<>>
  BY <1>1, <1>3, Appended
<1>7. /\ B.nov = A.nov /\ B.cnt = [A.cnt EXCEPT ![f] = A.cnt[f] - 1]
      /\ B.rec = IF A.cnt[f] = 1 THEN Append(A.rec, f) ELSE A.rec
  BY <1>4
<1>8. B \in Allocators
  BY <1>1, <1>4, <1>5, <1>6 DEF Allocators
<1>9. \A g \in Ppn : B.cnt[g] = IF g = f THEN A.cnt[f] - 1 ELSE A.cnt[g]
  BY <1>1, <1>7
<1>10. \A g \in H : g \in Ppn
  BY <1>1 DEF Usable
<1> HIDE DEF B
<1>11. ASSUME A.cnt[f] = 1 PROVE Pieces(B, H \ {f}) /\ B.rec # <<>>
  <2>1. B.rec # <<>> /\ B.rec \in Seq(Ppn) /\ Injective(B.rec) /\ Range(B.rec) = Range(A.rec) \cup {f}
    BY <1>6, <1>7, <1>11
  <2>2. \A g \in Ppn \ (H \ {f}) : B.cnt[g] = 0
    BY <1>2, <1>9, <1>11
  <2>3. \A g \in H \ {f} : B.cnt[g] >= 1
    BY <1>2, <1>9, <1>10
  <2>4. \A g \in Usable : g >= B.nov => (g \in Range(B.rec) \/ g \in H \ {f})
    BY <1>2, <1>7, <2>1
  <2>5. \A g \in Range(B.rec) : g >= B.nov /\ g \notin H \ {f}
    BY <1>2, <1>3, <1>7, <2>1
  <2>6. Range(B.rec) \subseteq Usable /\ H \ {f} \subseteq Usable /\ B.nov \notin Reserved
    BY <1>1, <1>3, <1>7, <2>1
  <2>7. \A g \in H \ {f} : g >= B.nov
    BY <1>2, <1>7
  <2> QED BY <1>8, <2>1, <2>2, <2>3, <2>4, <2>5, <2>6, <2>7 DEF Pieces
<1>12. ASSUME A.cnt[f] > 1 PROVE Pieces(B, H)
  <2>1. B.rec = A.rec
    BY <1>3, <1>7, <1>12
  <2>2. \A g \in H : B.cnt[g] >= 1
    <3>1. A.cnt[f] - 1 >= 1
      BY <1>3, <1>12
    <3> QED BY <1>2, <1>9, <1>10, <3>1
  <2>3. \A g \in Ppn \ H : B.cnt[g] = 0
    BY <1>2, <1>9
  <2> QED BY <1>1, <1>2, <1>7, <1>8, <2>1, <2>2, <2>3 DEF Pieces
<1> QED BY <1>7, <1>11, <1>12 DEF B

-----------------------------------------------------------------------------
(* The allocator, a batch at a time: what each round computes exists, so a      *)
(* batch is the last of rounds that are one frame each.                        *)
LEMMA AllocRounds ==
  ASSUME NEW n \in Nat
  PROVE  \E g : /\ g = [i \in 0 .. n |-> IF i = 0 THEN [a |-> Alloc, got |-> <<>>] ELSE alloc_next(g[i - 1])]
                /\ alloc_batch(n) = g[n]
<1> DEFINE s == [a |-> Alloc, got |-> <<>>]
           Rounds(r, m) == r = [i \in 0 .. m |-> IF i = 0 THEN s ELSE alloc_next(r[i - 1])]
           S == {m \in 0 .. n : \E r : Rounds(r, m)}
<1>1. 0 \in S
  <2> DEFINE first == [i \in 0 .. 0 |-> s]
  <2>1. \A i \in 0 .. 0 : i = 0
    OBVIOUS
  <2> HIDE DEF s
  <2>2. Rounds(first, 0)
    BY <2>1
  <2>3. 0 \in 0 .. n
    OBVIOUS
  <2> HIDE DEF Rounds, first
  <2> QED BY <2>2, <2>3
<1>2. ASSUME NEW m \in 0 .. n, m + 1 <= n, m \in S PROVE m + 1 \in S
  <2>1. PICK g : Rounds(g, m)
    BY <1>2
  <2> DEFINE h == [i \in 0 .. m + 1 |-> IF i <= m THEN g[i] ELSE alloc_next(g[m])]
  <2>2. \A i \in 0 .. m : h[i] = g[i] /\ i \in 0 .. m + 1
    OBVIOUS
  <2>3. \A i \in 0 .. m + 1 : h[i] = IF i = 0 THEN s ELSE alloc_next(h[i - 1])
    <3> SUFFICES ASSUME NEW i \in 0 .. m + 1 PROVE h[i] = IF i = 0 THEN s ELSE alloc_next(h[i - 1])
      OBVIOUS
    <3>1. CASE i <= m
      <4>1. i \in 0 .. m /\ (i # 0 => i - 1 \in 0 .. m)
        BY <3>1
      <4>2. g[i] = IF i = 0 THEN s ELSE alloc_next(g[i - 1])
        BY <2>1, <4>1
      <4> HIDE DEF h, s
      <4> QED BY <2>2, <4>1, <4>2
    <3>2. CASE i = m + 1
      <4>1. i # 0 /\ i - 1 = m /\ h[i] = alloc_next(g[m])
        BY <3>2
      <4> HIDE DEF h, s
      <4> QED BY <2>2, <4>1
    <3> QED BY <3>1, <3>2
  <2>4. h = [i \in 0 .. m + 1 |-> h[i]]
    OBVIOUS
  <2> HIDE DEF h, s
  <2>5. Rounds(h, m + 1)
    BY <2>3, <2>4
  <2>6. m + 1 \in 0 .. n
    BY <1>2
  <2> QED BY <2>5, <2>6
<1>3. n \in S
  <2> HIDE DEF S
  <2>1. S \in SUBSET (0 .. n)
    BY DEF S
  <2> QED BY <1>1, <1>2, <2>1, UpTo
<1>4. PICK g : Rounds(g, n)
  BY <1>3
<1> DEFINE c == CHOOSE r : Rounds(r, n)
<1>5. Rounds(c, n)
  BY <1>4
<1>6. alloc_batch(n) = c[n]
  BY DEF alloc_batch
<1> HIDE DEF c
<1> QED BY <1>5, <1>6

LEMMA FreeRounds ==
  ASSUME NEW A, NEW fs \in Seq(Ppn)
  PROVE  \E g : /\ g = [i \in 0 .. Len(fs) |-> IF i = 0 THEN A ELSE dealloc_frame(g[i - 1], fs[i])]
                /\ dealloc_batch(A, fs) = g[Len(fs)]
<1> DEFINE n == Len(fs)
           Rounds(r, m) == r = [i \in 0 .. m |-> IF i = 0 THEN A ELSE dealloc_frame(r[i - 1], fs[i])]
           S == {m \in 0 .. n : \E r : Rounds(r, m)}
<1>0. n \in Nat
  OBVIOUS
<1>1. 0 \in S
  <2> DEFINE first == [i \in 0 .. 0 |-> A]
  <2>1. \A i \in 0 .. 0 : i = 0
    OBVIOUS
  <2>2. Rounds(first, 0)
    BY <2>1
  <2>3. 0 \in 0 .. n
    BY <1>0
  <2> HIDE DEF Rounds, first
  <2> QED BY <2>2, <2>3
<1>2. ASSUME NEW m \in 0 .. n, m + 1 <= n, m \in S PROVE m + 1 \in S
  <2>1. PICK g : Rounds(g, m)
    BY <1>2
  <2> DEFINE h == [i \in 0 .. m + 1 |-> IF i <= m THEN g[i] ELSE dealloc_frame(g[m], fs[m + 1])]
  <2>2. \A i \in 0 .. m : h[i] = g[i] /\ i \in 0 .. m + 1
    BY <1>0
  <2>3. \A i \in 0 .. m + 1 : h[i] = IF i = 0 THEN A ELSE dealloc_frame(h[i - 1], fs[i])
    <3> SUFFICES ASSUME NEW i \in 0 .. m + 1 PROVE h[i] = IF i = 0 THEN A ELSE dealloc_frame(h[i - 1], fs[i])
      OBVIOUS
    <3>1. CASE i <= m
      <4>1. i \in 0 .. m /\ (i # 0 => i - 1 \in 0 .. m)
        BY <3>1, <1>0
      <4>2. g[i] = IF i = 0 THEN A ELSE dealloc_frame(g[i - 1], fs[i])
        BY <2>1, <4>1
      <4> HIDE DEF h
      <4> QED BY <2>2, <4>1, <4>2
    <3>2. CASE i = m + 1
      <4>1. i # 0 /\ i - 1 = m /\ h[i] = dealloc_frame(g[m], fs[m + 1]) /\ m \in 0 .. m
        BY <3>2, <1>0
      <4> HIDE DEF h
      <4> QED BY <2>2, <3>2, <4>1
    <3> QED BY <3>1, <3>2, <1>0
  <2>4. h = [i \in 0 .. m + 1 |-> h[i]]
    OBVIOUS
  <2> HIDE DEF h
  <2>5. Rounds(h, m + 1)
    BY <2>3, <2>4
  <2>6. m + 1 \in 0 .. n
    BY <1>2, <1>0
  <2> QED BY <2>5, <2>6
<1>3. n \in S
  <2> HIDE DEF S, n
  <2>1. S \in SUBSET (0 .. n)
    BY DEF S
  <2> QED BY <1>0, <1>1, <1>2, <2>1, UpTo
<1>4. PICK g : Rounds(g, n)
  BY <1>3
<1> DEFINE c == CHOOSE r : Rounds(r, n)
<1>5. Rounds(c, n)
  BY <1>4
<1>6. dealloc_batch(A, fs) = c[n]
  BY DEF dealloc_batch
<1> HIDE DEF c
<1> QED BY <1>5, <1>6

(* A batch takes frames that nobody has, at most as many as were asked for.    *)
LEMMA AllocBatch ==
  ASSUME NEW H, Pieces(Alloc, H), NEW n \in Nat
  PROVE  LET x == alloc_batch(n) IN
         /\ x.got \in Seq(Ppn) /\ Len(x.got) <= n /\ Injective(x.got)
         /\ Range(x.got) \subseteq Usable /\ Range(x.got) \cap H = {}
         /\ Pieces(x.a, H \cup Range(x.got))
         /\ \A f \in H : x.a.cnt[f] = ref_counts[f]
         /\ \A f \in Range(x.got) : x.a.cnt[f] = 1
<1>1. PICK g : /\ g = [i \in 0 .. n |-> IF i = 0 THEN [a |-> Alloc, got |-> <<>>] ELSE alloc_next(g[i - 1])]
               /\ alloc_batch(n) = g[n]
  BY AllocRounds
<1> DEFINE Good(x, i) ==
             /\ x.got \in Seq(Ppn) /\ Len(x.got) <= i /\ Injective(x.got)
             /\ Range(x.got) \subseteq Usable /\ Range(x.got) \cap H = {}
             /\ Pieces(x.a, H \cup Range(x.got))
             /\ \A f \in H : x.a.cnt[f] = ref_counts[f]
             /\ \A f \in Range(x.got) : x.a.cnt[f] = 1
           S == {i \in 0 .. n : Good(g[i], i)}
<1>2. 0 \in S
  <2>1. g[0] = [a |-> Alloc, got |-> <<>>] /\ 0 \in 0 .. n
    BY <1>1
  <2>2. g[0].a = Alloc /\ g[0].got = <<>> /\ Alloc.cnt = ref_counts
    BY <2>1 DEF Alloc
  <2>3. <<>> \in Seq(Ppn) /\ Len(<<>>) = 0 /\ Injective(<<>>) /\ Range(<<>>) = {}
    BY DEF Injective, Range
  <2>4. H \cup {} = H
    OBVIOUS
  <2>5. Good(g[0], 0)
    <3> DEFINE x == g[0]
    <3>1. x.a = Alloc /\ x.got = <<>>
      BY <2>2
    <3>2. x.got \in Seq(Ppn) /\ Len(x.got) <= 0 /\ Injective(x.got) /\ Range(x.got) = {}
      BY <2>3, <3>1
    <3> HIDE DEF x
    <3>3. Pieces(x.a, H \cup Range(x.got)) /\ \A f \in H : x.a.cnt[f] = ref_counts[f]
      BY <2>2, <2>4, <3>1, <3>2
    <3> QED BY <3>2, <3>3 DEF x
  <2> QED BY <2>1, <2>5
<1>3. ASSUME NEW i \in 0 .. n, i + 1 <= n, i \in S PROVE i + 1 \in S
  <2> DEFINE x == g[i]  y == g[i + 1]
  <2>1. y = alloc_next(x) /\ i + 1 \in 0 .. n
    <3>1. i + 1 \in 0 .. n /\ i + 1 # 0 /\ (i + 1) - 1 = i
      BY <1>3
    <3> QED BY <1>1, <3>1
  <2>2. Good(x, i)
    BY <1>3
  <2> HIDE DEF x, y
  <2>3. CASE ~can_alloc(x.a)
    <3>1. y = x
      BY <2>1, <2>3 DEF alloc_next
    <3>2. Len(x.got) <= i + 1
      BY <2>2
    <3> QED BY <2>1, <2>2, <3>1, <3>2 DEF x, y
  <2>4. CASE can_alloc(x.a)
    <3> DEFINE f == next_frame(x.a)  B == alloc_frame(x.a)  K == Range(x.got)
    <3>1. y = [a |-> B, got |-> Append(x.got, f)]
      BY <2>1, <2>4 DEF alloc_next
    <3>2. f \in Usable /\ f \notin H \cup K /\ Pieces(B, (H \cup K) \cup {f}) /\ B.cnt = [x.a.cnt EXCEPT ![f] = 1]
      BY <2>2, <2>4, AllocOne
    <3>3. y.a = B /\ y.got = Append(x.got, f)
      BY <3>1
    <3>4. f \in Ppn /\ x.got \in Seq(Ppn)
      BY <2>2, <3>2 DEF Usable
    <3> HIDE DEF f, B
    <3>5. /\ y.got \in Seq(Ppn) /\ Range(y.got) = K \cup {f} /\ Len(y.got) = Len(x.got) + 1 /\ Injective(y.got)
      BY <2>2, <3>2, <3>3, <3>4, Appended
    <3>6. Len(y.got) <= i + 1
      BY <2>2, <3>5
    <3>7. (H \cup K) \cup {f} = H \cup (K \cup {f})
      OBVIOUS
    <3>8. \A h \in H \cup K : h \in DOMAIN x.a.cnt
      BY <2>2 DEF Pieces, Allocators, Usable
    <3>9. \A h \in H : y.a.cnt[h] = ref_counts[h]
      BY <2>2, <3>2, <3>3, <3>8
    <3>10. \A h \in K \cup {f} : y.a.cnt[h] = 1
      <4>1. f \in DOMAIN x.a.cnt
        BY <2>2, <3>4 DEF Pieces, Allocators
      <4> QED BY <2>2, <3>2, <3>3, <3>8, <4>1
    <3>11. Good(y, i + 1)
      BY <2>2, <3>2, <3>3, <3>5, <3>6, <3>7, <3>9, <3>10
    <3> QED BY <2>1, <3>11 DEF y
  <2> QED BY <2>3, <2>4
<1>4. n \in S
  <2> HIDE DEF S
  <2>1. S \in SUBSET (0 .. n)
    BY DEF S
  <2> QED BY <1>2, <1>3, <2>1, UpTo
<1> QED BY <1>1, <1>4

(* Frames that each have one holder all return.                               *)
LEMMA FreeBatch ==
  ASSUME NEW A, NEW H, Pieces(A, H), NEW fs \in Seq(Ppn), Injective(fs), Range(fs) \subseteq H,
         \A f \in Range(fs) : A.cnt[f] = 1
  PROVE  LET B == dealloc_batch(A, fs) IN
         /\ Pieces(B, H \ Range(fs)) /\ \A f \in H \ Range(fs) : B.cnt[f] = A.cnt[f]
         /\ fs # <<>> => B.rec # <<>>
<1> DEFINE n == Len(fs)
<1>1. PICK g : /\ g = [i \in 0 .. n |-> IF i = 0 THEN A ELSE dealloc_frame(g[i - 1], fs[i])]
               /\ dealloc_batch(A, fs) = g[n]
  BY FreeRounds
<1>2. n \in Nat /\ DOMAIN fs = 1 .. n
  OBVIOUS
<1> DEFINE Gone(i) == {fs[j] : j \in 1 .. i}
           Good(B, i) == /\ Pieces(B, H \ Gone(i)) /\ \A f \in H \ Gone(i) : B.cnt[f] = A.cnt[f]
                         /\ i > 0 => B.rec # <<>>
           S == {i \in 0 .. n : Good(g[i], i)}
<1>3. 0 \in S
  <2>1. g[0] = A /\ 0 \in 0 .. n
    BY <1>1, <1>2
  <2>2. H \ Gone(0) = H
    OBVIOUS
  <2> HIDE DEF Gone
  <2>3. Pieces(g[0], H \ Gone(0)) /\ (\A f \in H \ Gone(0) : g[0].cnt[f] = A.cnt[f]) /\ ~(0 > 0)
    <3>1. ~(0 > 0)
      OBVIOUS
    <3>2. Pieces(g[0], H \ Gone(0))
      BY <2>1, <2>2, Zenon
    <3>3. \A f \in H \ Gone(0) : g[0].cnt[f] = A.cnt[f]
      BY <2>1, Zenon
    <3> QED BY <3>1, <3>2, <3>3
  <2> QED BY <2>1, <2>3
<1>4. ASSUME NEW i \in 0 .. n, i + 1 <= n, i \in S PROVE i + 1 \in S
  <2> DEFINE f == fs[i + 1]  B == g[i]  C == g[i + 1]  G == H \ Gone(i)
  <2>1. C = dealloc_frame(B, f) /\ i + 1 \in 0 .. n
    <3>1. i + 1 \in 0 .. n /\ i + 1 # 0 /\ (i + 1) - 1 = i
      BY <1>2, <1>4
    <3> QED BY <1>1, <3>1
  <2>2. f \in G /\ A.cnt[f] = 1
    <3>1. i + 1 \in DOMAIN fs /\ \A j \in 1 .. i : j \in DOMAIN fs /\ j # i + 1
      BY <1>2, <1>4
    <3>2. f \in Range(fs) /\ f \notin Gone(i)
      BY <3>1 DEF Injective, Range
    <3> QED BY <3>2
  <2>3. Pieces(B, G) /\ B.cnt[f] = 1 /\ \A h \in G : B.cnt[h] = A.cnt[h]
    BY <1>4, <2>2
  <2>4. G \ {f} = H \ Gone(i + 1)
    <3>1. 1 .. i + 1 = (1 .. i) \cup {i + 1}
      BY <1>2
    <3>2. Gone(i + 1) = Gone(i) \cup {f}
      BY <3>1
    <3> QED BY <3>2
  <2> HIDE DEF f, B, C, G
  <2>5. C.cnt = [B.cnt EXCEPT ![f] = B.cnt[f] - 1] /\ Pieces(C, G \ {f}) /\ C.rec # <<>>
    <3>1. Pieces(B, G) /\ f \in G /\ B.cnt[f] = 1
      BY <2>2, <2>3
    <3>2. /\ dealloc_frame(B, f).cnt = [B.cnt EXCEPT ![f] = B.cnt[f] - 1]
          /\ Pieces(dealloc_frame(B, f), G \ {f}) /\ dealloc_frame(B, f).rec # <<>>
      BY <3>1, FreeOne, Zenon
    <3> QED BY <2>1, <3>2, Zenon
  <2>6. \A h \in G \ {f} : C.cnt[h] = A.cnt[h]
    <3>1. \A h \in G : h \in DOMAIN B.cnt
      BY <2>3 DEF Pieces, Allocators, Usable
    <3> QED BY <2>3, <2>5, <3>1
  <2>7. Good(C, i + 1)
    BY <2>4, <2>5, <2>6
  <2> HIDE DEF Good
  <2> QED BY <2>1, <2>7 DEF C
<1>5. n \in S
  <2> HIDE DEF S, n
  <2>1. S \in SUBSET (0 .. n)
    BY DEF S
  <2> QED BY <1>2, <1>3, <1>4, <2>1, UpTo
<1>6. Gone(n) = Range(fs)
  BY <1>2 DEF Range
<1>7. fs # <<>> => n > 0
  OBVIOUS
<1> QED BY <1>1, <1>5, <1>6, <1>7

-----------------------------------------------------------------------------
(* The slots a call has claimed are as many as its number says.                *)
LEMMA SlotCount ==
  ASSUME NEW c, NEW n \in Nat
  PROVE  IsFiniteSet({c} \X (1 .. n)) /\ Cardinality({c} \X (1 .. n)) = n
<1> DEFINE S == {c} \X (1 .. n)  f == [i \in 1 .. n |-> <<c, i>>]
<1>1. IsFiniteSet(1 .. n) /\ Cardinality(1 .. n) = n
  <2>1. Cardinality(1 .. n) = (IF 1 > n THEN 0 ELSE n - 1 + 1) /\ IsFiniteSet(1 .. n)
    BY FS_Interval
  <2> QED BY <2>1
<1>2. f \in Surjection(1 .. n, S)
  <2>1. f \in [1 .. n -> S]
    OBVIOUS
  <2>2. \A x \in S : \E i \in 1 .. n : f[i] = x
    OBVIOUS
  <2> HIDE DEF f, S
  <2> QED BY <2>1, <2>2 DEF Surjection
<1>3. f \in Injection(1 .. n, S)
  <2>1. f \in [1 .. n -> S] /\ \A i, j \in 1 .. n : f[i] = f[j] => i = j
    OBVIOUS
  <2> HIDE DEF f, S
  <2> QED BY <2>1 DEF Injection, IsInjective
<1> HIDE DEF f, S
<1>4. IsFiniteSet(S) /\ Cardinality(S) = n
  BY <1>1, <1>2, <1>3, FS_Surjection
<1> QED BY <1>4 DEF S

LEMMA ClaimsOf ==
  ASSUME fcall \in [FCpu -> Calls], NEW c \in FCpu, NEW r \in Calls, fcall' = [fcall EXCEPT ![c] = r],
         in_flight \in Nat, in_flight = Cardinality(Claims)
  PROVE  Cardinality(Claims') = (in_flight - fcall[c].claimed) + r.claimed /\ fcall[c].claimed <= in_flight
<1> DEFINE n == fcall[c].claimed  m == r.claimed
           Rest == {x \in FCpu \X (1 .. Batch) : x[1] # c /\ x[2] <= fcall[x[1]].claimed}
<1>1. n \in 0 .. Batch /\ m \in 0 .. Batch /\ Batch \in Nat
  BY Sizes DEF Calls
<1>2. IsFiniteSet(FCpu \X (1 .. Batch))
  <2>1. 1 \in Int /\ Batch \in Int
    BY <1>1
  <2>2. IsFiniteSet(1 .. Batch)
    BY <2>1, FS_Interval
  <2> QED BY <2>2, Sizes, FS_Product
<1>3. IsFiniteSet(Rest)
  <2>1. Rest \in SUBSET (FCpu \X (1 .. Batch))
    OBVIOUS
  <2> QED BY <1>2, <2>1, FS_Subset
<1>4. Claims = Rest \cup ({c} \X (1 .. n))
  <2> SUFFICES ASSUME NEW x PROVE x \in Claims <=> x \in Rest \cup ({c} \X (1 .. n))
    OBVIOUS
  <2> QED BY <1>1 DEF Claims
<1>5. Claims' = Rest \cup ({c} \X (1 .. m))
  <2>1. \A d \in FCpu : fcall'[d].claimed = IF d = c THEN m ELSE fcall[d].claimed
    OBVIOUS
  <2>2. Claims' = {x \in FCpu \X (1 .. Batch) : x[2] <= fcall'[x[1]].claimed}
    BY DEF Claims
  <2> SUFFICES ASSUME NEW x PROVE x \in Claims' <=> x \in Rest \cup ({c} \X (1 .. m))
    OBVIOUS
  <2> QED BY <1>1, <2>1, <2>2
<1>6. Rest \cap ({c} \X (1 .. n)) = {} /\ Rest \cap ({c} \X (1 .. m)) = {}
  OBVIOUS
<1> HIDE DEF n, m, Rest
<1>7. /\ Cardinality(Rest) \in Nat
      /\ Cardinality(Claims) = Cardinality(Rest) + n /\ Cardinality(Claims') = Cardinality(Rest) + m
  <2>1. /\ IsFiniteSet({c} \X (1 .. n)) /\ Cardinality({c} \X (1 .. n)) = n
        /\ IsFiniteSet({c} \X (1 .. m)) /\ Cardinality({c} \X (1 .. m)) = m
    <3>1. n \in Nat /\ m \in Nat
      BY <1>1
    <3> QED BY <3>1, SlotCount
  <2>2. Cardinality(Rest) \in Nat
    BY <1>3, FS_CardinalityType
  <2>3. Cardinality(Claims) = Cardinality(Rest) + n
    <3>1. Cardinality({}) = 0
      BY FS_EmptySet
    <3>2. Cardinality(Claims) = Cardinality(Rest) + Cardinality({c} \X (1 .. n)) - Cardinality(Rest \cap ({c} \X (1 .. n)))
      BY <1>3, <1>4, <2>1, FS_Union
    <3>3. Cardinality(Rest \cap ({c} \X (1 .. n))) = 0
      BY <1>6, <3>1, Zenon
    <3> DEFINE a == Cardinality(Claims)  b == Cardinality(Rest)
    <3>4. a = b + n - 0
      BY <2>1, <3>2, <3>3
    <3> HIDE DEF a, b
    <3>5. b \in Nat /\ n \in Nat
      BY <1>1, <2>2 DEF b
    <3>6. a = b + n
      BY <3>4, <3>5
    <3> QED BY <3>6 DEF a, b
  <2>4. Cardinality(Claims') = Cardinality(Rest) + m
    <3>1. Cardinality({}) = 0
      BY FS_EmptySet
    <3>2. Cardinality(Claims') = Cardinality(Rest) + Cardinality({c} \X (1 .. m)) - Cardinality(Rest \cap ({c} \X (1 .. m)))
      BY <1>3, <1>5, <2>1, FS_Union
    <3>3. Cardinality(Rest \cap ({c} \X (1 .. m))) = 0
      BY <1>6, <3>1, Zenon
    <3> DEFINE a == Cardinality(Claims')  b == Cardinality(Rest)
    <3>4. a = b + m - 0
      BY <2>1, <3>2, <3>3
    <3> HIDE DEF a, b
    <3>5. b \in Nat /\ m \in Nat
      BY <1>1, <2>2 DEF b
    <3>6. a = b + m
      BY <3>4, <3>5
    <3> QED BY <3>6 DEF a, b
  <2> QED BY <2>2, <2>3, <2>4
<1> QED BY <1>1, <1>7 DEF n, m

-----------------------------------------------------------------------------
(* The frames that the calls of the other CPUs hold.                          *)
Others(c) == UNION {Own(d) : d \in FCpu \ {c}}

LEMMA Around ==
  ASSUME FrameInv, NEW c \in FCpu
  PROVE  /\ Held = (Range(pool) \cup Own(c) \cup Used) \cup Others(c)
         /\ Others(c) \cap (Range(pool) \cup Own(c) \cup Used) = {}
         /\ Own(c) \cap Range(pool) = {} /\ Own(c) \cap Used = {} /\ Range(pool) \cap Used = {}
         /\ Injective(pool) /\ Injective(fcall[c].frames) /\ fcall[c] \in Calls
         /\ Held \subseteq Usable /\ Held \subseteq Ppn /\ Range(pool) \subseteq Ppn
         /\ fcall[c].frames \in Seq(Ppn) /\ fcall[c].claimed \in 0 .. Batch
<1>1. Apart /\ Pieces(Alloc, Held) /\ FrTypeOK
  BY DEF FrameInv
<1>2. Held = (Range(pool) \cup Own(c) \cup Used) \cup Others(c)
  BY DEF Held, Others
<1>3. Others(c) \cap (Range(pool) \cup Own(c) \cup Used) = {}
  BY <1>1 DEF Apart, Others
<1>4. Held \subseteq Usable /\ Usable \subseteq Ppn
  BY <1>1 DEF Pieces, Usable
<1>5. fcall[c] \in Calls /\ fcall[c].frames \in Seq(Ppn) /\ fcall[c].claimed \in 0 .. Batch
  BY <1>1 DEF FrTypeOK, Calls
<1>6. Range(pool) \subseteq Ppn
  BY <1>2, <1>4
<1> QED BY <1>1, <1>2, <1>3, <1>4, <1>5, <1>6 DEF Apart

(* A step that touches the call of c only keeps the invariant if what c, the   *)
(* pool and the users hold after it is apart from what the others hold, and is  *)
(* what the allocator has given.                                              *)
LEMMA StepOf ==
  ASSUME FrameInv, NEW c \in FCpu, NEW r \in Calls, fcall' = [fcall EXCEPT ![c] = r],
         CallSound(r), r.pc \in {"publish", "idlepublish"} => \A f \in Range(r.frames) : ~dirty'[f],
         dirty' \in [Ppn -> BOOLEAN], \A f \in Held : dirty'[f] => dirty[f],
         pool' \in Seq(Ppn), Injective(pool'), Injective(r.frames), users' \in [Ppn -> 0 .. MaxRef],
         (Range(pool') \cup Range(r.frames) \cup Used') \cap Others(c) = {},
         Range(pool') \cap Range(r.frames) = {}, Range(pool') \cap Used' = {}, Range(r.frames) \cap Used' = {},
         Pieces(Alloc', (Range(pool') \cup Range(r.frames) \cup Used') \cup Others(c)),
         \A f \in Range(pool') \cup Range(r.frames) \cup Used' :
           ref_counts'[f] = IF users'[f] > 0 THEN users'[f] ELSE 1,
         \A f \in Others(c) : ref_counts'[f] = ref_counts[f],
         \A f \in Range(pool') : ~dirty'[f], Len(pool') + in_flight' <= Capacity,
         in_flight' = (in_flight - fcall[c].claimed) + r.claimed, refill_active' \in BOOLEAN
  PROVE  FrameInv'
<1>1. FrTypeOK /\ CallsSound /\ Apart /\ Counts /\ PoolSound /\ fcall \in [FCpu -> Calls] /\ in_flight \in Nat
  BY DEF FrameInv, FrTypeOK
<1>2. fcall' \in [FCpu -> Calls] /\ fcall'[c] = r /\ \A d \in FCpu \ {c} : fcall'[d] = fcall[d]
  BY <1>1
<1>3. Own(c)' = Range(r.frames) /\ \A d \in FCpu \ {c} : Own(d)' = Own(d)
  BY <1>2 DEF Own
<1>4. Held' = (Range(pool') \cup Range(r.frames) \cup Used') \cup Others(c)
  <2>1. Held' = Range(pool') \cup (UNION {Own(d)' : d \in FCpu}) \cup Used'
    BY DEF Held
  <2>2. UNION {Own(d)' : d \in FCpu} = Own(c)' \cup UNION {Own(d)' : d \in FCpu \ {c}}
    OBVIOUS
  <2>3. UNION {Own(d)' : d \in FCpu \ {c}} = Others(c)
    BY <1>3 DEF Others
  <2> QED BY <1>3, <2>1, <2>2, <2>3
<1>5. Apart'
  <2>1. Injective(pool') /\ \A d \in FCpu : Injective(fcall'[d].frames)
    BY <1>1, <1>2 DEF Apart
  <2>2. \A d \in FCpu \ {c} : Own(d) \subseteq Others(c)
    BY DEF Others
  <2>3. \A d, e \in FCpu : d # e => Own(d)' \cap Own(e)' = {}
    <3> SUFFICES ASSUME NEW d \in FCpu, NEW e \in FCpu, d # e PROVE Own(d)' \cap Own(e)' = {}
      OBVIOUS
    <3>1. CASE d # c /\ e # c
      BY <3>1, <1>1, <1>3 DEF Apart
    <3>2. CASE d = c
      BY <3>2, <1>3, <2>2
    <3>3. CASE e = c
      BY <3>3, <1>3, <2>2
    <3> QED BY <3>1, <3>2, <3>3
  <2>4. \A d \in FCpu : Own(d)' \cap Range(pool') = {} /\ Own(d)' \cap Used' = {}
    <3> SUFFICES ASSUME NEW d \in FCpu PROVE Own(d)' \cap Range(pool') = {} /\ Own(d)' \cap Used' = {}
      OBVIOUS
    <3>1. CASE d = c
      BY <3>1, <1>3
    <3>2. CASE d # c
      BY <3>2, <1>3, <2>2
    <3> QED BY <3>1, <3>2
  <2> QED BY <2>1, <2>3, <2>4 DEF Apart
<1>6. \A f \in Others(c) : f \in Held /\ users'[f] = 0 /\ users[f] = 0 /\ ref_counts[f] = 1
  <2> SUFFICES ASSUME NEW f \in Others(c) PROVE f \in Held /\ users'[f] = 0 /\ users[f] = 0 /\ ref_counts[f] = 1
    OBVIOUS
  <2>1. f \in Held /\ f \in Ppn /\ f \notin Used /\ f \notin Used'
    BY Around
  <2>2. users[f] \in 0 .. MaxRef /\ users'[f] \in 0 .. MaxRef /\ MaxRef \in Nat
    BY <2>1, <1>1, Sizes DEF FrTypeOK
  <2>3. users[f] = 0 /\ users'[f] = 0
    BY <2>1, <2>2 DEF Used
  <2>4. ref_counts[f] = 1
    BY <1>1, <2>1, <2>3 DEF Counts
  <2> QED BY <2>1, <2>3, <2>4
<1>7. Counts'
  <2> SUFFICES ASSUME NEW f \in Held' PROVE ref_counts'[f] = IF users'[f] > 0 THEN users'[f] ELSE 1
    BY DEF Counts
  <2>1. CASE f \in Others(c)
    <3>1. ref_counts'[f] = 1 /\ users'[f] = 0
      BY <2>1, <1>6
    <3> QED BY <3>1
  <2>2. CASE f \notin Others(c)
    BY <2>2, <1>4
  <2> QED BY <2>1, <2>2
<1>8. CallsSound'
  <2> SUFFICES ASSUME NEW d \in FCpu PROVE CallSound(fcall'[d]) /\ Clean(fcall[d])'
    BY DEF CallsSound, CallSound
  <2>1. CASE d = c
    BY <2>1, <1>2 DEF Clean
  <2>2. CASE d # c
    <3>1. fcall'[d] = fcall[d] /\ CallSound(fcall[d]) /\ Clean(fcall[d])
      BY <2>2, <1>1, <1>2 DEF CallsSound
    <3>2. \A f \in Range(fcall[d].frames) : f \in Held
      BY DEF Held, Own
    <3> QED BY <3>1, <3>2 DEF Clean
  <2> QED BY <2>1, <2>2
<1>9. in_flight' = Cardinality(Claims') /\ in_flight' \in Nat
  <2>1. in_flight = Cardinality(Claims)
    BY <1>1 DEF PoolSound
  <2>2. Cardinality(Claims') = (in_flight - fcall[c].claimed) + r.claimed /\ fcall[c].claimed <= in_flight
    BY <1>1, <2>1, ClaimsOf
  <2>3. fcall[c].claimed \in Nat /\ r.claimed \in Nat
    <3>1. fcall[c].claimed \in 0 .. Batch /\ r.claimed \in 0 .. Batch
      BY <1>1 DEF Calls
    <3> QED BY <3>1, Sizes
  <2> QED BY <1>1, <2>2, <2>3
<1>10. PoolSound'
  <2>1. \A i \in DOMAIN pool' : pool'[i] \in Range(pool')
    BY DEF Range
  <2> QED BY <1>9, <2>1 DEF PoolSound
<1>11. FrTypeOK'
  <2>1. Alloc' \in Allocators
    BY DEF Pieces
  <2>2. recycled' \in Seq(Ppn) /\ next_novel' \in 1 .. NFrame + 1 /\ ref_counts' \in [Ppn -> 0 .. MaxRef]
    BY <2>1 DEF Allocators, Alloc
  <2> QED BY <1>2, <1>9, <2>2 DEF FrTypeOK
<1> QED BY <1>4, <1>5, <1>7, <1>8, <1>10, <1>11 DEF FrameInv

-----------------------------------------------------------------------------
(* Small facts about what the steps write.                                    *)
LEMMA SetTo == ASSUME NEW A \in Allocators, SetAlloc(A) PROVE Alloc' = A /\ ref_counts' = A.cnt
BY DEF Allocators, SetAlloc, Alloc

LEMMA Refilled ==
  ASSUME FrTypeOK, NEW n, NEW m, update_refill_state(n, m) PROVE refill_active' \in BOOLEAN
BY DEF FrTypeOK, update_refill_state

LEMMA Given ==
  ASSUME FrameInv, NEW f \in Ppn, f \notin Used, Give(f)
  PROVE  /\ users' \in [Ppn -> 0 .. MaxRef] /\ Used' = Used \cup {f} /\ users'[f] = 1
         /\ \A g \in Ppn \ {f} : users'[g] = users[g]
<1>1. users \in [Ppn -> 0 .. MaxRef] /\ MaxRef \in Nat \ {0}
  BY Sizes DEF FrameInv, FrTypeOK
<1>2. users[f] = 0
  BY <1>1 DEF Used
<1>3. users' = [users EXCEPT ![f] = 1]
  BY <1>1, <1>2 DEF Give
<1>4. users'[f] = 1 /\ \A g \in Ppn \ {f} : users'[g] = users[g]
  BY <1>1, <1>3
<1>5. users' \in [Ppn -> 0 .. MaxRef]
  <2>1. 1 \in 0 .. MaxRef
    BY <1>1
  <2> QED BY <1>1, <1>3, <2>1
<1> QED BY <1>4, <1>5 DEF Used

LEMMA NewCall ==
  ASSUME NEW l \in {"idle", "drain", "giveback", "retry", "claim", "batch", "unclaim", "zero", "publish",
                    "idlebatch", "idlezero", "idlepublish"},
         NEW n \in 0 .. Batch, NEW fs \in Seq(Ppn)
  PROVE  [pc |-> l, claimed |-> n, frames |-> fs] \in Calls
BY DEF Calls

LEMMA NoCall == /\ None \in Calls /\ None.frames = <<>> /\ None.claimed = 0 /\ None.pc = "idle" /\ CallSound(None)
                /\ Range(<<>>) = {} /\ Injective(<<>>) /\ <<>> \in Seq(Ppn) /\ 0 \in 0 .. Batch /\ Len(<<>>) = 0
<1>1. 0 \in 0 .. Batch /\ <<>> \in Seq(Ppn) /\ Len(<<>>) = 0 /\ 0 <= Batch
  BY Sizes
<1>2. None \in Calls
  BY <1>1, NewCall DEF None
<1> QED BY <1>1, <1>2 DEF None, CallSound, Range, Injective

(* A frame of the pool or of a batch has no user and is counted once.          *)
LEMMA Unused ==
  ASSUME FrameInv, NEW c \in FCpu, NEW f \in Range(pool) \cup Own(c)
  PROVE  f \in Held /\ f \in Ppn /\ f \notin Used /\ users[f] = 0 /\ ref_counts[f] = 1
<1>1. f \in Held /\ f \in Ppn /\ f \notin Used
  BY Around
<1>2. users[f] \in 0 .. MaxRef /\ MaxRef \in Nat
  BY <1>1, Sizes DEF FrameInv, FrTypeOK
<1>3. users[f] = 0
  BY <1>1, <1>2 DEF Used
<1> QED BY <1>1, <1>3 DEF FrameInv, Counts

LEMMA CountsOf ==
  ASSUME FrameInv, NEW c \in FCpu, NEW f \in Used
  PROVE  f \in Held /\ f \in Ppn /\ users[f] > 0 /\ ref_counts[f] = users[f]
BY Around DEF FrameInv, Counts, Used

(* A step of c that moves no frame.                                            *)
LEMMA SameFrames ==
  ASSUME FrameInv, NEW c \in FCpu, NEW r \in Calls, fcall' = [fcall EXCEPT ![c] = r], r.frames = fcall[c].frames,
         CallSound(r), r.pc \in {"publish", "idlepublish"} => \A f \in Range(r.frames) : ~dirty'[f],
         dirty' \in [Ppn -> BOOLEAN], \A f \in Held : dirty'[f] => dirty[f],
         UNCHANGED <<recycled, next_novel, ref_counts, pool, users>>, Len(pool) + in_flight' <= Capacity,
         in_flight' = (in_flight - fcall[c].claimed) + r.claimed, refill_active' \in BOOLEAN
  PROVE  FrameInv'
<1>1. /\ Range(r.frames) = Own(c) /\ Used' = Used /\ Alloc' = Alloc /\ Range(pool') = Range(pool)
      /\ pool' = pool /\ users' = users /\ ref_counts' = ref_counts
  BY DEF Own, Used, Alloc
<1>2. /\ pool' \in Seq(Ppn) /\ Injective(pool') /\ Injective(r.frames) /\ users' \in [Ppn -> 0 .. MaxRef]
  BY <1>1, Around DEF FrameInv, FrTypeOK
<1>3. Pieces(Alloc', (Range(pool') \cup Range(r.frames) \cup Used') \cup Others(c))
  BY <1>1, Around DEF FrameInv
<1>4. \A f \in Range(pool') \cup Range(r.frames) \cup Used' :
        ref_counts'[f] = IF users'[f] > 0 THEN users'[f] ELSE 1
  BY <1>1, Around DEF FrameInv, Counts
<1>5. \A f \in Range(pool') : ~dirty'[f]
  <2>1. \A f \in Range(pool) : ~dirty[f] /\ f \in Held
    BY Around DEF FrameInv, PoolSound, Range
  <2> QED BY <1>1, <2>1
<1>6. /\ (Range(pool') \cup Range(r.frames) \cup Used') \cap Others(c) = {}
      /\ Range(pool') \cap Range(r.frames) = {} /\ Range(pool') \cap Used' = {} /\ Range(r.frames) \cap Used' = {}
  BY <1>1, Around
<1> QED BY <1>1, <1>2, <1>3, <1>4, <1>5, <1>6, StepOf

(* A step of c that hands f to a user: f comes from nobody, from the pool or    *)
(* from the batch of c, and the rest stays where it is or goes to the pool.     *)
LEMMA Handed ==
  ASSUME FrameInv, NEW c \in FCpu, NEW r \in Calls, fcall' = [fcall EXCEPT ![c] = r], CallSound(r), r.frames = <<>>,
         UNCHANGED dirty, NEW f \in Ppn, f \notin Used, f \notin Others(c), Give(f),
         pool' \in Seq(Ppn), Injective(pool'), f \notin Range(pool'), Range(pool') \cap Used = {},
         Range(pool') \cap Others(c) = {}, \A g \in Range(pool') : ~dirty[g] /\ ref_counts'[g] = 1,
         Pieces(Alloc', (Range(pool') \cup Used \cup {f}) \cup Others(c)), ref_counts'[f] = 1,
         \A g \in Used \cup Others(c) : ref_counts'[g] = ref_counts[g],
         Len(pool') + in_flight' <= Capacity, in_flight' = (in_flight - fcall[c].claimed) + r.claimed,
         refill_active' \in BOOLEAN
  PROVE  FrameInv'
<1>1. /\ users' \in [Ppn -> 0 .. MaxRef] /\ Used' = Used \cup {f} /\ users'[f] = 1
      /\ \A g \in Ppn \ {f} : users'[g] = users[g]
  BY Given
<1>2. Range(r.frames) = {} /\ Injective(r.frames)
  BY NoCall
<1>3. dirty' \in [Ppn -> BOOLEAN] /\ dirty' = dirty
  BY DEF FrameInv, FrTypeOK
<1>4. (Range(pool') \cup Range(r.frames) \cup Used') \cup Others(c) = (Range(pool') \cup Used \cup {f}) \cup Others(c)
  BY <1>1, <1>2
<1>5. /\ (Range(pool') \cup Range(r.frames) \cup Used') \cap Others(c) = {}
      /\ Range(pool') \cap Range(r.frames) = {} /\ Range(pool') \cap Used' = {} /\ Range(r.frames) \cap Used' = {}
  BY <1>1, <1>2, Around
<1>6. ASSUME NEW g \in Range(pool') \cup Range(r.frames) \cup Used'
      PROVE  ref_counts'[g] = IF users'[g] > 0 THEN users'[g] ELSE 1
  <2>1. CASE g = f
    BY <2>1, <1>1
  <2>2. CASE g \in Range(pool')
    <3>1. g \in Ppn /\ g # f /\ g \notin Used
      BY <2>2 DEF Range
    <3>2. users'[g] = users[g] /\ ~(users[g] > 0)
      BY <1>1, <3>1 DEF Used
    <3> QED BY <2>2, <3>2
  <2>3. CASE g \in Used /\ g # f
    <3>1. users[g] > 0 /\ ref_counts[g] = users[g] /\ g \in Ppn
      BY <2>3, CountsOf
    <3> QED BY <2>3, <3>1, <1>1
  <2> QED BY <1>1, <1>2, <2>1, <2>2, <2>3
<1>7. r.pc \in {"publish", "idlepublish"} => \A g \in Range(r.frames) : ~dirty'[g]
  BY <1>2
<1>8. /\ \A g \in Held : dirty'[g] => dirty[g]
      /\ \A g \in Others(c) : ref_counts'[g] = ref_counts[g]
      /\ \A g \in Range(pool') : ~dirty'[g]
  BY <1>3
<1>9. Pieces(Alloc', (Range(pool') \cup Range(r.frames) \cup Used') \cup Others(c))
  BY <1>4
<1>10. \A g \in Range(pool') \cup Range(r.frames) \cup Used' :
         ref_counts'[g] = IF users'[g] > 0 THEN users'[g] ELSE 1
  BY <1>6
<1> QED BY <1>1, <1>2, <1>3, <1>5, <1>7, <1>8, <1>9, <1>10, StepOf

-----------------------------------------------------------------------------
(* The steps.                                                                 *)
LEMMA Now ==
  ASSUME FrameInv, NEW c \in FCpu
  PROVE  /\ in_flight \in Nat /\ Len(pool) \in Nat /\ Len(pool) + in_flight <= Capacity /\ pool \in Seq(Ppn)
         /\ CallSound(fcall[c]) /\ Clean(fcall[c]) /\ fcall[c] \in Calls /\ fcall \in [FCpu -> Calls]
         /\ fcall[c].claimed \in 0 .. Batch /\ fcall[c].claimed \in Nat /\ fcall[c].frames \in Seq(Ppn)
         /\ Len(fcall[c].frames) \in Nat /\ dirty \in [Ppn -> BOOLEAN] /\ users \in [Ppn -> 0 .. MaxRef]
         /\ \A f \in Range(pool) : ~dirty[f]
<1>1. FrTypeOK /\ CallsSound /\ PoolSound
  BY DEF FrameInv
<1>2. fcall[c].claimed \in 0 .. Batch /\ fcall[c].claimed \in Nat /\ fcall[c].frames \in Seq(Ppn)
  BY Around, Sizes
<1>3. \A f \in Range(pool) : ~dirty[f]
  BY <1>1 DEF PoolSound, Range
<1>4. Len(pool) \in Nat /\ Len(fcall[c].frames) \in Nat
  BY <1>1, <1>2 DEF FrTypeOK
<1> QED BY <1>1, <1>2, <1>3, <1>4, Around DEF FrTypeOK, CallsSound, PoolSound

(* A step of c that moves nothing but its call and its claim.                  *)
LEMMA CallMoves ==
  ASSUME FrameInv, NEW c \in FCpu, NEW r \in Calls, fcall' = [fcall EXCEPT ![c] = r],
         r.frames = <<>>, fcall[c].frames = <<>>, CallSound(r),
         UNCHANGED <<recycled, next_novel, ref_counts, pool, users, dirty>>, Len(pool) + in_flight' <= Capacity,
         in_flight' = (in_flight - fcall[c].claimed) + r.claimed, refill_active' \in BOOLEAN
  PROVE  FrameInv'
<1>1. \A f \in Range(r.frames) : ~dirty'[f]
  BY NoCall
<1>2. dirty' \in [Ppn -> BOOLEAN] /\ \A f \in Held : dirty'[f] => dirty[f]
  BY Now
<1>3. r.frames = fcall[c].frames /\ UNCHANGED <<recycled, next_novel, ref_counts, pool, users>>
  OBVIOUS
<1> QED BY <1>1, <1>2, <1>3, SameFrames

LEMMA TakeRaw ==
  ASSUME FrameInv, NEW c \in FCpu, FIn(c, "idle"), can_alloc(Alloc), SetAlloc(alloc_frame(Alloc)),
         Give(next_frame(Alloc)), UNCHANGED <<fcall, poolvars, dirty>>
  PROVE  FrameInv'
<1> DEFINE f == next_frame(Alloc)
<1>1. /\ f \in Usable /\ f \notin Held /\ Pieces(alloc_frame(Alloc), Held \cup {f})
      /\ alloc_frame(Alloc).cnt = [ref_counts EXCEPT ![f] = 1]
  BY AllocOne DEF FrameInv, Alloc
<1>2. Alloc' = alloc_frame(Alloc) /\ ref_counts' = alloc_frame(Alloc).cnt
  BY <1>1, SetTo DEF Pieces
<1>3. fcall[c].frames = <<>> /\ fcall[c] \in Calls /\ CallSound(fcall[c]) /\ Own(c) = {}
  BY Now, NoCall DEF FIn, CallSound, Own
<1>4. /\ fcall' = [fcall EXCEPT ![c] = fcall[c]] /\ pool' = pool /\ dirty' = dirty /\ in_flight' = in_flight
      /\ refill_active' \in BOOLEAN
  BY DEF poolvars, FrameInv, FrTypeOK
<1> HIDE DEF f
<1>5. f \in Ppn /\ f \notin Used /\ f \notin Others(c) /\ f \notin Range(pool)
  BY <1>1, Around DEF Usable
<1>6. ref_counts \in [Ppn -> 0 .. MaxRef]
  BY DEF FrameInv, FrTypeOK
<1>7. ref_counts'[f] = 1 /\ \A g \in Used \cup Others(c) \cup Range(pool) : ref_counts'[g] = ref_counts[g]
  <2>1. \A g \in Used \cup Others(c) \cup Range(pool) : g \in Ppn /\ g # f
    BY <1>1, Around
  <2> QED BY <1>1, <1>2, <1>5, <1>6, <2>1
<1>8. \A g \in Range(pool') : ~dirty[g] /\ ref_counts'[g] = 1
  BY <1>4, <1>7, Now, Unused
<1>9. Pieces(Alloc', (Range(pool') \cup Used \cup {f}) \cup Others(c))
  <2>1. Held \cup {f} = (Range(pool') \cup Used \cup {f}) \cup Others(c)
    BY <1>3, <1>4, Around
  <2> QED BY <1>1, <1>2, <2>1
<1>10. /\ pool' \in Seq(Ppn) /\ Injective(pool') /\ f \notin Range(pool') /\ Range(pool') \cap Used = {}
       /\ Range(pool') \cap Others(c) = {}
  BY <1>4, <1>5, Now, Around
<1>11. /\ Len(pool') + in_flight' <= Capacity /\ in_flight' = (in_flight - fcall[c].claimed) + fcall[c].claimed
       /\ UNCHANGED dirty /\ Give(f) /\ \A g \in Used \cup Others(c) : ref_counts'[g] = ref_counts[g]
  BY <1>4, <1>7, Now DEF f
<1> QED BY <1>3, <1>4, <1>5, <1>7, <1>8, <1>9, <1>10, <1>11, Handed

LEMMA AllocStep == ASSUME FrameInv, NEW c \in FCpu, frame_alloc_result(c) PROVE FrameInv'
<1>1. FIn(c, "idle") /\ UNCHANGED <<poolvars, dirty>>
  BY DEF frame_alloc_result
<1>2. CASE can_alloc(Alloc) /\ SetAlloc(alloc_frame(Alloc)) /\ Give(next_frame(Alloc)) /\ UNCHANGED fcall
  BY <1>1, <1>2, TakeRaw
<1>3. CASE FGo(c, "drain", 0, <<>>) /\ UNCHANGED <<allocator, users>>
  <2> DEFINE r == [pc |-> "drain", claimed |-> 0, frames |-> <<>>]
  <2>1. r \in Calls /\ CallSound(r) /\ r.frames = <<>> /\ r.claimed = 0
    BY NewCall, NoCall DEF CallSound
  <2>2. fcall[c].frames = <<>> /\ fcall[c].claimed = 0
    BY <1>1, Now DEF FIn, CallSound
  <2>3. fcall' = [fcall EXCEPT ![c] = r] /\ UNCHANGED <<recycled, next_novel, ref_counts, pool, users, dirty>>
    BY <1>1, <1>3 DEF FGo, allocator, poolvars
  <2>4. in_flight' = in_flight /\ refill_active' \in BOOLEAN
    BY <1>1 DEF poolvars, FrameInv, FrTypeOK
  <2> HIDE DEF r
  <2>5. Len(pool) + in_flight' <= Capacity /\ in_flight' = (in_flight - fcall[c].claimed) + r.claimed
    BY <2>1, <2>2, <2>4, Now
  <2> QED BY <2>1, <2>2, <2>3, <2>4, <2>5, CallMoves
<1> QED BY <1>2, <1>3 DEF frame_alloc_result

(* The last frame of the pool goes to a user.                                  *)
LEMMA TakePooled ==
  ASSUME FrameInv, NEW c \in FCpu, fcall[c].pc \in {"idle", "retry"}, Len(pool) # 0, Taken, Give(Last(pool)), FDone(c),
         UNCHANGED <<allocator, dirty>>
  PROVE  FrameInv'
<1> DEFINE n == Len(pool) - 1  f == pool[Len(pool)]  b == SubSeq(pool, n + 1, Len(pool))
<1>1. n \in 0 .. Len(pool) /\ n + 1 = Len(pool)
  BY Now
<1>2. /\ pool' = SubSeq(pool, 1, n) /\ in_flight' = in_flight /\ refill_active' \in BOOLEAN /\ Last(pool) = f
      /\ fcall' = [fcall EXCEPT ![c] = None]
  BY Refilled DEF Taken, Front, Last, FDone, FrameInv
<1>3. /\ pool' \in Seq(Ppn) /\ Len(pool') = n /\ Injective(pool')
      /\ Range(pool') \cup Range(b) = Range(pool) /\ Range(pool') \cap Range(b) = {}
  BY <1>1, <1>2, Now, Around, Split
<1>4. Range(b) = {f}
  <2>1. Len(b) = 1 /\ DOMAIN b = {1} /\ b[1] = f
    BY <1>1, Now
  <2> HIDE DEF b, f
  <2> QED BY <2>1 DEF Range
<1>5. f \in Range(pool) /\ f \notin Range(pool') /\ Range(pool') \subseteq Range(pool)
  BY <1>3, <1>4
<1>6. fcall[c].frames = <<>> /\ fcall[c].claimed = 0 /\ Own(c) = {}
  BY Now, NoCall DEF CallSound, Own
<1>7. ref_counts' = ref_counts /\ Alloc' = Alloc
  BY DEF allocator, Alloc
<1>8. Len(pool') + in_flight' <= Capacity /\ in_flight' = (in_flight - fcall[c].claimed) + None.claimed
  <2>1. Len(pool') = Len(pool) - 1 /\ in_flight' = in_flight
    BY <1>2, <1>3
  <2>2. in_flight' = (in_flight - 0) + 0
    BY <2>1, Now
  <2>3. Capacity \in Nat
    BY Sizes
  <2> QED BY <1>6, <2>1, <2>2, <2>3, Now, NoCall
<1> HIDE DEF n, f, b
<1>9. f \in Ppn /\ f \notin Used /\ f \notin Others(c) /\ ref_counts[f] = 1
  BY <1>5, Around, Unused
<1>10. \A g \in Range(pool') : ~dirty[g] /\ ref_counts'[g] = 1
  BY <1>5, <1>7, Now, Unused
<1>11. Pieces(Alloc', (Range(pool') \cup Used \cup {f}) \cup Others(c))
  <2>1. Held = (Range(pool') \cup Used \cup {f}) \cup Others(c)
    BY <1>3, <1>4, <1>6, Around
  <2> QED BY <1>7, <2>1 DEF FrameInv
<1>12. Range(pool') \cap Used = {} /\ Range(pool') \cap Others(c) = {}
  BY <1>5, Around
<1>13. UNCHANGED dirty /\ Give(f) /\ ref_counts'[f] = 1 /\ \A g \in Used \cup Others(c) : ref_counts'[g] = ref_counts[g]
  BY <1>2, <1>7, <1>9
<1> QED BY <1>2, <1>3, <1>5, <1>8, <1>9, <1>10, <1>11, <1>12, <1>13, NoCall, Handed

(* A step that changes the call from one step that holds nothing to another,    *)
(* and claims m slots instead of those claimed before.                         *)
LEMMA Claiming ==
  ASSUME FrameInv, NEW c \in FCpu, fcall[c].pc \in {"idle", "drain", "retry", "claim", "unclaim"},
         NEW l \in {"idle", "drain", "retry", "claim", "batch", "idlebatch"}, NEW m \in 0 .. Batch,
         (l \in {"idle", "drain", "retry", "claim"} => m = 0) /\ (l = "batch" => m < Batch),
         fcall' = [fcall EXCEPT ![c] = [pc |-> l, claimed |-> m, frames |-> <<>>]],
         UNCHANGED <<recycled, next_novel, ref_counts, pool, users, dirty>>,
         in_flight' = (in_flight - fcall[c].claimed) + m, Len(pool) + in_flight' <= Capacity,
         refill_active' \in BOOLEAN
  PROVE  FrameInv'
<1> DEFINE r == [pc |-> l, claimed |-> m, frames |-> <<>>]
<1>1. r \in Calls
  BY NewCall, NoCall
<1>2. CallSound(r) /\ r.frames = <<>> /\ r.claimed = m
  BY NoCall, Sizes DEF CallSound
<1>3. fcall[c].frames = <<>>
  BY Now DEF CallSound
<1>4. fcall' = [fcall EXCEPT ![c] = r]
  OBVIOUS
<1> HIDE DEF r
<1> QED BY <1>1, <1>2, <1>3, <1>4, CallMoves

LEMMA TakeZeroedStep == ASSUME FrameInv, NEW c \in FCpu, NEW keep \in BOOLEAN, take_zeroed(c, keep) PROVE FrameInv'
<1>1. fcall[c].pc \in {"idle", "retry"} /\ UNCHANGED <<allocator, dirty>>
  BY DEF take_zeroed, FIn
<1>2. CASE take(keep) /\ Taken /\ Give(Last(pool)) /\ FDone(c)
  BY <1>1, <1>2, TakePooled DEF take
<1>3. CASE /\ UNCHANGED <<poolvars, users>>
           /\ IF keep \/ FIn(c, "retry") THEN FDone(c) ELSE FGo(c, "claim", 0, <<>>)
  <2>1. /\ UNCHANGED <<recycled, next_novel, ref_counts, pool, users, dirty>> /\ in_flight' = in_flight
        /\ refill_active' \in BOOLEAN
    BY <1>1, <1>3 DEF allocator, poolvars, FrameInv, FrTypeOK
  <2>2. PICK l \in {"idle", "claim"} : fcall' = [fcall EXCEPT ![c] = [pc |-> l, claimed |-> 0, frames |-> <<>>]]
    BY <1>3 DEF FDone, FGo, None
  <2>3. fcall[c].claimed = 0
    BY <1>1, Now DEF CallSound
  <2>4. in_flight' = (in_flight - fcall[c].claimed) + 0 /\ Len(pool) + in_flight' <= Capacity
    BY <2>1, <2>3, Now
  <2> QED BY <1>1, <2>1, <2>2, <2>4, NoCall, Claiming
<1> QED BY <1>2, <1>3 DEF take_zeroed

(* What is claimed fits into the pool together with all that is promised.      *)
LEMMA Room ==
  ASSUME FrameInv, NEW c \in FCpu, NEW b \in Nat
  PROVE  LET n == Min({b, Max({0, Capacity - Len(pool) - in_flight})}) IN
         n \in Nat /\ n <= b /\ Len(pool) + (in_flight + n) <= Capacity
<1> DEFINE left == Capacity - Len(pool) - in_flight  room == Max({0, left})  n == Min({b, room})
<1>1. left \in Nat /\ Len(pool) + (in_flight + left) = Capacity
  BY Now, Sizes
<1> HIDE DEF left
<1>2. room = left
  <2>1. 0 \in Int /\ left \in Int
    BY <1>1
  <2>2. room = IF 0 >= left THEN 0 ELSE left
    BY <2>1, MaxOfTwo
  <2> QED BY <1>1, <2>2
<1> HIDE DEF room
<1>3. n = IF b <= room THEN b ELSE room
  BY <1>1, <1>2, MinOfTwo
<1> HIDE DEF n
<1>4. n \in Nat /\ n <= b /\ n <= left
  BY <1>1, <1>2, <1>3
<1>5. Len(pool) + (in_flight + n) <= Capacity
  BY <1>1, <1>4, Now, Sizes
<1> QED BY <1>4, <1>5 DEF n, room, left

LEMMA ClaimStep == ASSUME FrameInv, NEW c \in FCpu, claim_sync_publish_slots(c) PROVE FrameInv'
<1> DEFINE b == Batch - 1  m == Min({b, Max({0, Capacity - Len(pool) - in_flight})})
<1>1. /\ fcall[c].pc = "claim" /\ in_flight' = in_flight + m
      /\ fcall' = [fcall EXCEPT ![c] = [pc |-> "batch", claimed |-> m, frames |-> <<>>]]
      /\ UNCHANGED <<recycled, next_novel, ref_counts, pool, users, dirty>> /\ refill_active' = refill_active
  BY DEF claim_sync_publish_slots, FGo, FIn, allocator
<1>2. b \in Nat /\ b + 1 = Batch /\ Batch \in Nat
  BY Sizes
<1> HIDE DEF b
<1>3. m \in Nat /\ m <= b /\ Len(pool) + (in_flight + m) <= Capacity
  BY <1>2, Room
<1> HIDE DEF m
<1>4. m \in 0 .. Batch /\ m < Batch
  BY <1>2, <1>3
<1>5. fcall[c].claimed = 0 /\ refill_active' \in BOOLEAN
  BY <1>1, Now DEF CallSound, FrameInv, FrTypeOK
<1>6. in_flight' = (in_flight - fcall[c].claimed) + m /\ Len(pool) + in_flight' <= Capacity
  BY <1>1, <1>3, <1>5, Now
<1> QED BY <1>1, <1>4, <1>5, <1>6, Claiming

LEMMA IdleClaimStep == ASSUME FrameInv, NEW c \in FCpu, claim_idle_publish_slots(c) PROVE FrameInv'
<1> DEFINE m == Min({Batch, Max({0, Capacity - Len(pool) - in_flight})})
<1>1. /\ fcall[c].pc = "idle" /\ in_flight' = in_flight + m
      /\ fcall' = [fcall EXCEPT ![c] = [pc |-> "idlebatch", claimed |-> m, frames |-> <<>>]]
      /\ UNCHANGED <<recycled, next_novel, ref_counts, pool, users, dirty>>
      /\ refill_active' = (Len(pool) + in_flight + m < Capacity)
  BY DEF claim_idle_publish_slots, FGo, FIn, allocator
<1>2. m \in Nat /\ m <= Batch /\ Len(pool) + (in_flight + m) <= Capacity
  BY Sizes, Room
<1>3. refill_active' \in BOOLEAN
  BY <1>1
<1> HIDE DEF m
<1>4. m \in 0 .. Batch
  BY <1>2, Sizes
<1>5. fcall[c].claimed = 0
  BY <1>1, Now DEF CallSound
<1>6. in_flight' = (in_flight - fcall[c].claimed) + m /\ Len(pool) + in_flight' <= Capacity
  BY <1>1, <1>2, <1>5, Now
<1> QED BY <1>1, <1>3, <1>4, <1>6, Claiming

LEMMA UnclaimStep == ASSUME FrameInv, NEW c \in FCpu, unclaim(c) PROVE FrameInv'
<1>1. /\ fcall[c].pc = "unclaim" /\ pool' = pool \o <<>> /\ in_flight' = in_flight - fcall[c].claimed
      /\ update_refill_state(Len(pool) + Len(<<>>), in_flight - fcall[c].claimed)
      /\ fcall' = [fcall EXCEPT ![c] = [pc |-> "retry", claimed |-> 0, frames |-> <<>>]]
      /\ UNCHANGED <<recycled, next_novel, ref_counts, users, dirty>>
  BY DEF unclaim, finish_claim, FGo, FIn, allocator
<1>2. pool' = pool
  BY <1>1, Now
<1>3. refill_active' \in BOOLEAN
  BY <1>1, Refilled DEF FrameInv
<1>4. fcall[c].claimed <= in_flight
  <2>1. [pc |-> "retry", claimed |-> 0, frames |-> <<>>] \in Calls
    BY NewCall, NoCall
  <2>2. in_flight = Cardinality(Claims) /\ fcall \in [FCpu -> Calls] /\ in_flight \in Nat
    BY Now DEF FrameInv, PoolSound
  <2> QED BY <1>1, <2>1, <2>2, ClaimsOf
<1>5. in_flight' = (in_flight - fcall[c].claimed) + 0 /\ Len(pool) + in_flight' <= Capacity
  BY <1>1, <1>4, Now, Sizes
<1> QED BY <1>1, <1>2, <1>3, <1>5, NoCall, Claiming

(* A step that allocates a batch for c; got is empty or as many as claimed and   *)
(* one more at most.                                                          *)
LEMMA Batched ==
  ASSUME FrameInv, NEW c \in FCpu, fcall[c].pc \in {"batch", "idlebatch"}, NEW n \in Nat,
         SetAlloc(alloc_batch(n).a), NEW l, n <= Batch,
         fcall' = [fcall EXCEPT ![c] = [pc |-> l, claimed |-> fcall[c].claimed, frames |-> alloc_batch(n).got]],
         IF alloc_batch(n).got = <<>> THEN l \in {"unclaim", "idlepublish"} ELSE l \in {"zero", "idlezero"},
         l \in {"unclaim", "zero"} => (n = fcall[c].claimed + 1 /\ fcall[c].claimed < Batch),
         l \in {"idlepublish", "idlezero"} => n = fcall[c].claimed,
         UNCHANGED <<poolvars, users, dirty>>
  PROVE  FrameInv'
<1> DEFINE x == alloc_batch(n)  r == [pc |-> l, claimed |-> fcall[c].claimed, frames |-> x.got]
<1>1. Pieces(Alloc, Held)
  BY DEF FrameInv
<1>2. /\ x.got \in Seq(Ppn) /\ Len(x.got) <= n /\ Injective(x.got)
      /\ Range(x.got) \subseteq Usable /\ Range(x.got) \cap Held = {}
      /\ Pieces(x.a, Held \cup Range(x.got))
      /\ \A f \in Held : x.a.cnt[f] = ref_counts[f]
      /\ \A f \in Range(x.got) : x.a.cnt[f] = 1
  BY <1>1, AllocBatch
<1>3. Alloc' = x.a /\ ref_counts' = x.a.cnt
  BY <1>2, SetTo DEF Pieces
<1>4. fcall' = [fcall EXCEPT ![c] = r] /\ r.pc = l /\ r.claimed = fcall[c].claimed /\ r.frames = x.got
  OBVIOUS
<1>5. r \in Calls
  BY <1>2, Now, NewCall
<1>6. /\ pool' = pool /\ users' = users /\ dirty' = dirty /\ in_flight' = in_flight /\ Used' = Used
      /\ refill_active' \in BOOLEAN
  BY DEF poolvars, Used, FrameInv, FrTypeOK
<1>7. IF x.got = <<>> THEN l \in {"unclaim", "idlepublish"} ELSE l \in {"zero", "idlezero"}
  OBVIOUS
<1>8. Own(c) = {}
  BY Now, NoCall DEF CallSound, Own
<1> HIDE DEF r, x
<1>9. Len(x.got) \in Nat /\ Len(x.got) <= Batch /\ (l = "idlepublish" => Len(x.got) = 0)
  BY <1>2, <1>7, Sizes
<1>10. CallSound(r)
  BY <1>4, <1>7, <1>2, <1>9, Now DEF CallSound
<1>11. l \in {"publish", "idlepublish"} => \A f \in Range(r.frames) : ~dirty'[f]
  BY <1>4, <1>7, NoCall
<1>12. /\ dirty' \in [Ppn -> BOOLEAN] /\ \A f \in Held : dirty'[f] => dirty[f]
       /\ pool' \in Seq(Ppn) /\ Injective(pool') /\ Injective(r.frames) /\ users' \in [Ppn -> 0 .. MaxRef]
       /\ \A f \in Range(pool') : ~dirty'[f]
  BY <1>2, <1>4, <1>6, Now, Around
<1>13. /\ (Range(pool') \cup Range(r.frames) \cup Used') \cap Others(c) = {}
       /\ Range(pool') \cap Range(r.frames) = {} /\ Range(pool') \cap Used' = {} /\ Range(r.frames) \cap Used' = {}
  BY <1>2, <1>4, <1>6, Around
<1>14. Pieces(Alloc', (Range(pool') \cup Range(r.frames) \cup Used') \cup Others(c))
  <2>1. Held \cup Range(x.got) = (Range(pool') \cup Range(r.frames) \cup Used') \cup Others(c)
    BY <1>4, <1>6, <1>8, Around
  <2> QED BY <1>2, <1>3, <2>1
<1>15. ASSUME NEW f \in Range(pool') \cup Range(r.frames) \cup Used'
       PROVE  ref_counts'[f] = IF users'[f] > 0 THEN users'[f] ELSE 1
  <2>1. CASE f \in Range(pool') \cup Used'
    BY <2>1, <1>2, <1>3, <1>6, Around DEF FrameInv, Counts
  <2>2. CASE f \in Range(x.got)
    <3>1. f \in Ppn /\ f \notin Used /\ users[f] \in 0 .. MaxRef /\ MaxRef \in Nat
      BY <2>2, <1>2, Around, Now, Sizes DEF Usable
    <3>2. users[f] = 0
      BY <3>1 DEF Used
    <3> QED BY <2>2, <3>2, <1>2, <1>3, <1>6
  <2> QED BY <1>4, <2>1, <2>2
<1>16. \A f \in Others(c) : ref_counts'[f] = ref_counts[f]
  BY <1>2, <1>3, Around
<1>17. in_flight' = (in_flight - fcall[c].claimed) + r.claimed /\ Len(pool') + in_flight' <= Capacity
  BY <1>4, <1>6, Now
<1>18. \A f \in Range(pool') \cup Range(r.frames) \cup Used' :
         ref_counts'[f] = IF users'[f] > 0 THEN users'[f] ELSE 1
  BY <1>15
<1> QED BY <1>4, <1>5, <1>6, <1>10, <1>11, <1>12, <1>13, <1>14, <1>16, <1>17, <1>18, StepOf

LEMMA BatchStep == ASSUME FrameInv, NEW c \in FCpu, batch(c) PROVE FrameInv'
<1> DEFINE n == fcall[c].claimed + 1  l == IF alloc_batch(n).got = <<>> THEN "unclaim" ELSE "zero"
<1>1. /\ fcall[c].pc = "batch" /\ SetAlloc(alloc_batch(n).a)
      /\ fcall' = [fcall EXCEPT ![c] = [pc |-> l, claimed |-> fcall[c].claimed, frames |-> alloc_batch(n).got]]
      /\ UNCHANGED <<poolvars, users, dirty>>
  BY DEF batch, FGo, FIn
<1>2. fcall[c].claimed < Batch
  BY <1>1, Now DEF CallSound
<1>3. n \in Nat /\ n <= Batch /\ n = fcall[c].claimed + 1
  BY <1>2, Now, Sizes
<1> HIDE DEF n
<1>4. IF alloc_batch(n).got = <<>> THEN l = "unclaim" ELSE l = "zero"
  OBVIOUS
<1> HIDE DEF l
<1> QED BY <1>1, <1>2, <1>3, <1>4, Batched

LEMMA IdleBatchStep == ASSUME FrameInv, NEW c \in FCpu, idle_batch(c) PROVE FrameInv'
<1>1. fcall[c].pc = "idlebatch" /\ UNCHANGED <<poolvars, users, dirty>>
  BY DEF idle_batch, FIn
<1> DEFINE n == fcall[c].claimed  l == IF alloc_batch(n).got = <<>> THEN "idlepublish" ELSE "idlezero"
<1>2. CASE /\ SetAlloc(alloc_batch(n).a)
           /\ fcall' = [fcall EXCEPT ![c] = [pc |-> l, claimed |-> n, frames |-> alloc_batch(n).got]]
  <2>1. n \in Nat /\ n <= Batch /\ n = fcall[c].claimed
    BY Now, Sizes
  <2>2. IF alloc_batch(n).got = <<>> THEN l = "idlepublish" ELSE l = "idlezero"
    OBVIOUS
  <2>3. fcall' = [fcall EXCEPT ![c] = [pc |-> l, claimed |-> fcall[c].claimed, frames |-> alloc_batch(n).got]]
    BY <1>2
  <2> HIDE DEF n, l
  <2> QED BY <1>1, <1>2, <2>1, <2>2, <2>3, Batched
<1>3. CASE UNCHANGED allocator /\ FGo(c, "idlepublish", fcall[c].claimed, <<>>)
  <2> DEFINE r == [pc |-> "idlepublish", claimed |-> fcall[c].claimed, frames |-> <<>>]
  <2>1. r \in Calls
    BY Now, NewCall, NoCall
  <2>2. CallSound(r) /\ r.frames = <<>> /\ r.claimed = fcall[c].claimed
    BY Now, NoCall, Sizes DEF CallSound
  <2>3. fcall[c].frames = <<>>
    BY <1>1, Now DEF CallSound
  <2>4. fcall' = [fcall EXCEPT ![c] = r] /\ UNCHANGED <<recycled, next_novel, ref_counts, pool, users, dirty>>
    BY <1>1, <1>3 DEF FGo, allocator, poolvars
  <2>5. in_flight' = in_flight /\ refill_active' \in BOOLEAN
    BY <1>1 DEF poolvars, FrameInv, FrTypeOK
  <2> HIDE DEF r
  <2>6. Len(pool) + in_flight' <= Capacity /\ in_flight' = (in_flight - fcall[c].claimed) + r.claimed
    BY <2>2, <2>5, Now
  <2> QED BY <2>1, <2>2, <2>3, <2>4, <2>5, <2>6, CallMoves
<1>4. \/ SetAlloc(alloc_batch(n).a) /\ FGo(c, l, n, alloc_batch(n).got)
      \/ UNCHANGED allocator /\ FGo(c, "idlepublish", fcall[c].claimed, <<>>)
  BY DEF idle_batch
<1>5. FGo(c, l, n, alloc_batch(n).got) =>
        fcall' = [fcall EXCEPT ![c] = [pc |-> l, claimed |-> n, frames |-> alloc_batch(n).got]]
  BY DEF FGo
<1> HIDE DEF l
<1> QED BY <1>2, <1>3, <1>4, <1>5

(* A step that moves frames between the pool and the call of c.                 *)
LEMMA Shifted ==
  ASSUME FrameInv, NEW c \in FCpu, NEW r \in Calls, fcall' = [fcall EXCEPT ![c] = r], CallSound(r),
         r.pc \in {"publish", "idlepublish"} => \A f \in Range(r.frames) : ~dirty[f],
         UNCHANGED <<allocator, users, dirty>>, pool' \in Seq(Ppn), Injective(pool'), Injective(r.frames),
         Range(pool') \cup Range(r.frames) = Range(pool) \cup Own(c), Range(pool') \cap Range(r.frames) = {},
         \A f \in Range(pool') : ~dirty[f], Len(pool') + in_flight' <= Capacity,
         in_flight' = (in_flight - fcall[c].claimed) + r.claimed, refill_active' \in BOOLEAN
  PROVE  FrameInv'
<1>1. /\ Used' = Used /\ Alloc' = Alloc /\ users' = users /\ ref_counts' = ref_counts /\ dirty' = dirty
  BY DEF Used, Alloc, allocator
<1>2. /\ users' \in [Ppn -> 0 .. MaxRef] /\ dirty' \in [Ppn -> BOOLEAN] /\ \A f \in Held : dirty'[f] => dirty[f]
  BY <1>1, Now
<1>3. /\ (Range(pool') \cup Range(r.frames) \cup Used') \cap Others(c) = {}
      /\ Range(pool') \cap Used' = {} /\ Range(r.frames) \cap Used' = {}
  BY <1>1, Around
<1>4. (Range(pool') \cup Range(r.frames) \cup Used') \cup Others(c) = Held
  BY <1>1, Around
<1>5. Pieces(Alloc', (Range(pool') \cup Range(r.frames) \cup Used') \cup Others(c))
  BY <1>1, <1>4 DEF FrameInv
<1>6. \A f \in Range(pool') \cup Range(r.frames) \cup Used' :
        ref_counts'[f] = IF users'[f] > 0 THEN users'[f] ELSE 1
  <2>1. \A f \in Held : ref_counts[f] = IF users[f] > 0 THEN users[f] ELSE 1
    BY DEF FrameInv, Counts
  <2> QED BY <1>1, <1>4, <2>1
<1>7. /\ r.pc \in {"publish", "idlepublish"} => \A f \in Range(r.frames) : ~dirty'[f]
      /\ \A f \in Range(pool') : ~dirty'[f]
      /\ \A f \in Others(c) : ref_counts'[f] = ref_counts[f]
  BY <1>1
<1> QED BY <1>2, <1>3, <1>5, <1>6, <1>7, StepOf

LEMMA DrainStep == ASSUME FrameInv, NEW c \in FCpu, drain(c) PROVE FrameInv'
<1> DEFINE n == Min({Len(pool), Batch})  k == Len(pool) - n
           a == SubSeq(pool, 1, k)  b == SubSeq(pool, k + 1, Len(pool))
           r == [pc |-> "giveback", claimed |-> 0, frames |-> b]
<1>1. /\ fcall[c].pc = "drain" /\ pool' = a /\ in_flight' = in_flight /\ UNCHANGED <<allocator, users, dirty>>
      /\ refill_active' \in BOOLEAN
  BY Refilled DEF drain, FIn, FrameInv
<1>2. IF n = 0 THEN FDone(c) ELSE fcall' = [fcall EXCEPT ![c] = r]
  BY DEF drain, FGo
<1>3. n = IF Len(pool) <= Batch THEN Len(pool) ELSE Batch
  <2>1. Len(pool) \in Nat /\ Batch \in Nat
    BY Now, Sizes
  <2> QED BY <2>1, MinOfTwo
<1> HIDE DEF n
<1>4. n \in 0 .. Len(pool) /\ n <= Batch /\ Len(pool) \in Nat
  BY <1>3, Now, Sizes
<1>5. k \in 0 .. Len(pool) /\ Len(pool) - k = n
  BY <1>4
<1> HIDE DEF k
<1>6. /\ a \in Seq(Ppn) /\ b \in Seq(Ppn) /\ Len(a) = k /\ Len(b) = n /\ Injective(a) /\ Injective(b)
      /\ Range(a) \cup Range(b) = Range(pool) /\ Range(a) \cap Range(b) = {}
  BY <1>5, Now, Around, Split
<1>7. fcall[c].frames = <<>> /\ fcall[c].claimed = 0 /\ Own(c) = {}
  BY <1>1, Now, NoCall DEF CallSound, Own
<1>8. CASE n = 0
  <2>1. k = Len(pool)
    BY <1>5, <1>8
  <2>2. a = pool
    BY <2>1, Now
  <2>3. /\ fcall' = [fcall EXCEPT ![c] = [pc |-> "idle", claimed |-> 0, frames |-> <<>>]]
        /\ UNCHANGED <<recycled, next_novel, ref_counts, pool, users, dirty>>
    BY <1>1, <1>2, <1>8, <2>2 DEF FDone, None, allocator
  <2>4. in_flight' = (in_flight - fcall[c].claimed) + 0 /\ Len(pool) + in_flight' <= Capacity
    BY <1>1, <1>7, Now
  <2> QED BY <1>1, <2>3, <2>4, NoCall, Claiming
<1>9. CASE n # 0
  <2>1. r \in Calls
    BY <1>6, NewCall, NoCall
  <2>2. CallSound(r)
    <3>1. b # <<>> /\ Len(b) <= Batch
      BY <1>4, <1>6, <1>9, NoCall
    <3> HIDE DEF b
    <3> QED BY <3>1 DEF CallSound
  <2>3. fcall' = [fcall EXCEPT ![c] = r] /\ r.frames = b /\ r.claimed = 0 /\ r.pc = "giveback"
    BY <1>2, <1>9
  <2> HIDE DEF a, b, r
  <2>4. Range(pool') \cup Range(r.frames) = Range(pool) \cup Own(c) /\ Range(pool') \cap Range(r.frames) = {}
    BY <1>1, <1>6, <1>7, <2>3
  <2>5. \A f \in Range(pool') : ~dirty[f]
    BY <1>1, <1>6, Now
  <2>6. pool' \in Seq(Ppn) /\ Injective(pool') /\ Injective(r.frames)
    BY <1>1, <1>6, <2>3
  <2>7. in_flight' = (in_flight - fcall[c].claimed) + r.claimed
    BY <1>1, <1>7, <2>3, Now
  <2>8. Len(pool') + in_flight' <= Capacity
    <3>1. Len(pool') = k /\ k <= Len(pool) /\ k \in Nat
      BY <1>1, <1>4, <1>5, <1>6
    <3> QED BY <1>1, <3>1, Now, Sizes
  <2>9. r.pc \in {"publish", "idlepublish"} => \A f \in Range(r.frames) : ~dirty[f]
    BY <2>3
  <2> QED BY <1>1, <2>1, <2>2, <2>3, <2>4, <2>5, <2>6, <2>7, <2>8, <2>9, Shifted
<1> QED BY <1>8, <1>9

(* The frames of c go behind those of the pool, after which nothing is claimed. *)
LEMMA IdlePublishStep == ASSUME FrameInv, NEW c \in FCpu, idle_publish(c) PROVE FrameInv'
<1> DEFINE fs == fcall[c].frames  n == fcall[c].claimed
<1>1. /\ fcall[c].pc = "idlepublish" /\ pool' = pool \o fs /\ in_flight' = in_flight - n
      /\ UNCHANGED <<allocator, users, dirty>> /\ refill_active' \in BOOLEAN
      /\ fcall' = [fcall EXCEPT ![c] = None]
  BY Refilled DEF idle_publish, finish_claim, FIn, FDone, FrameInv
<1>2. Len(fs) <= n /\ Len(fs) \in Nat /\ n \in Nat /\ \A f \in Own(c) : ~dirty[f]
  BY <1>1, Now DEF CallSound, Clean, Own
<1>3. /\ pool' \in Seq(Ppn) /\ Len(pool') = Len(pool) + Len(fs) /\ Range(pool') = Range(pool) \cup Own(c)
      /\ Injective(pool')
  BY <1>1, Now, Around, Joined DEF Own
<1>4. n <= in_flight
  <2>1. in_flight = Cardinality(Claims) /\ fcall \in [FCpu -> Calls] /\ in_flight \in Nat
    BY Now DEF FrameInv, PoolSound
  <2> QED BY <1>1, <2>1, NoCall, ClaimsOf
<1> HIDE DEF fs, n
<1>5. Len(pool') + in_flight' <= Capacity
  BY <1>1, <1>2, <1>3, <1>4, Now, Sizes
<1>6. in_flight' = (in_flight - n) + None.claimed
  BY <1>1, <1>2, Now, NoCall
<1>7. \A f \in Range(pool') : ~dirty[f]
  BY <1>2, <1>3, Now
<1>8. /\ Range(pool') \cup Range(None.frames) = Range(pool) \cup Own(c) /\ Range(pool') \cap Range(None.frames) = {}
      /\ Injective(None.frames) /\ \A f \in Range(None.frames) : ~dirty[f]
  BY <1>3, NoCall
<1> QED BY <1>1, <1>3, <1>5, <1>6, <1>7, <1>8, NoCall, Shifted DEF n

LEMMA ZeroStep == ASSUME FrameInv, NEW c \in FCpu, zero_frames(c) PROVE FrameInv'
<1> DEFINE k == fcall[c]  l == IF k.pc = "zero" THEN "publish" ELSE "idlepublish"
           r == [pc |-> l, claimed |-> k.claimed, frames |-> k.frames]
<1>1. /\ k.pc \in {"zero", "idlezero"} /\ dirty' = [f \in Ppn |-> dirty[f] /\ f \notin Range(k.frames)]
      /\ fcall' = [fcall EXCEPT ![c] = r] /\ in_flight' = in_flight /\ refill_active' = refill_active
      /\ UNCHANGED <<recycled, next_novel, ref_counts, pool, users>>
  BY DEF zero_frames, FIn, FGo, allocator, poolvars
<1>2. r \in Calls
  BY Now, NewCall
<1>3. CallSound(r)
  BY <1>1, Now DEF CallSound
<1>4. r.frames = fcall[c].frames /\ r.claimed = fcall[c].claimed
  OBVIOUS
<1>5. dirty' \in [Ppn -> BOOLEAN]
  BY <1>1
<1>6. \A f \in Ppn : dirty'[f] => (dirty[f] /\ f \notin Range(k.frames))
  BY <1>1
<1>7. \A f \in Range(r.frames) : ~dirty'[f]
  <2>1. \A f \in Range(r.frames) : f \in Ppn
    BY Now DEF Range
  <2> QED BY <1>4, <1>6, <2>1
<1>8. \A f \in Held : dirty'[f] => dirty[f]
  BY <1>6, Around
<1>9. /\ in_flight' = (in_flight - fcall[c].claimed) + r.claimed /\ Len(pool) + in_flight' <= Capacity
      /\ refill_active' \in BOOLEAN
  BY <1>1, Now DEF FrameInv, FrTypeOK
<1> HIDE DEF r
<1> QED BY <1>1, <1>2, <1>3, <1>4, <1>5, <1>7, <1>8, <1>9, SameFrames

(* The first frame of the batch goes to a user, the others behind the pool's.    *)
LEMMA PublishStep == ASSUME FrameInv, NEW c \in FCpu, publish(c) PROVE FrameInv'
<1> DEFINE fs == fcall[c].frames  n == fcall[c].claimed  f == fs[1]
           a == SubSeq(fs, 1, 1)  b == SubSeq(fs, 2, Len(fs))
<1>1. /\ fcall[c].pc = "publish" /\ pool' = pool \o b /\ in_flight' = in_flight - n
      /\ UNCHANGED <<allocator, dirty>> /\ refill_active' \in BOOLEAN /\ Give(f)
      /\ fcall' = [fcall EXCEPT ![c] = None]
  <2>1. /\ fcall[c].pc = "publish" /\ pool' = pool \o Tail(fs) /\ in_flight' = in_flight - n
        /\ UNCHANGED <<allocator, dirty>> /\ refill_active' \in BOOLEAN /\ Give(Head(fs))
        /\ fcall' = [fcall EXCEPT ![c] = None]
    BY Refilled DEF publish, finish_claim, FIn, FDone, FrameInv
  <2>2. Tail(fs) = b /\ Head(fs) = f
    <3>1. fs \in Seq(Ppn) /\ fs # <<>>
      BY <2>1, Now DEF CallSound
    <3> QED BY <3>1
  <2> QED BY <2>1, <2>2
<1>2. /\ fs \in Seq(Ppn) /\ Len(fs) <= n + 1 /\ Len(fs) \in Nat /\ Len(fs) > 0 /\ n \in Nat /\ n < Batch
      /\ \A g \in Own(c) : ~dirty[g]
  <2>1. fs # <<>> /\ fs \in Seq(Ppn)
    BY <1>1, Now DEF CallSound
  <2>2. Len(fs) > 0
    BY <2>1
  <2> QED BY <2>1, <2>2, <1>1, Now DEF CallSound, Clean, Own
<1>3. /\ b \in Seq(Ppn) /\ Len(b) = Len(fs) - 1 /\ Injective(b) /\ Range(a) \cup Range(b) = Own(c)
      /\ Range(a) \cap Range(b) = {} /\ Range(a) = {f}
  <2>1. 1 \in 0 .. Len(fs) /\ 1 + 1 = 2
    BY <1>2
  <2>2. Injective(fs)
    BY Around
  <2>3. /\ b \in Seq(Ppn) /\ Len(b) = Len(fs) - 1 /\ Injective(b) /\ Range(a) \cup Range(b) = Range(fs)
        /\ Range(a) \cap Range(b) = {}
    BY <1>2, <2>1, <2>2, Split
  <2>4. Len(a) = 1 /\ DOMAIN a = {1} /\ a[1] = f
    BY <1>2
  <2> HIDE DEF a, f
  <2>5. Range(a) = {f}
    BY <2>4 DEF Range
  <2> QED BY <2>3, <2>5 DEF Own
<1>4. f \in Own(c) /\ f \notin Range(b) /\ Range(b) \subseteq Own(c) /\ Own(c) = Range(b) \cup {f}
  BY <1>3
<1>5. n <= in_flight
  <2>1. in_flight = Cardinality(Claims) /\ fcall \in [FCpu -> Calls] /\ in_flight \in Nat
    BY Now DEF FrameInv, PoolSound
  <2> QED BY <1>1, <2>1, NoCall, ClaimsOf
<1> HIDE DEF a, b, f, fs, n
<1>6. /\ pool' \in Seq(Ppn) /\ Len(pool') = Len(pool) + Len(b) /\ Range(pool') = Range(pool) \cup Range(b)
      /\ Injective(pool')
  <2>1. Range(pool) \cap Range(b) = {}
    BY <1>4, Around
  <2> QED BY <1>1, <1>3, <2>1, Now, Around, Joined
<1>7. ref_counts' = ref_counts /\ Alloc' = Alloc
  BY <1>1 DEF allocator, Alloc
<1>8. f \in Ppn /\ f \notin Used /\ f \notin Others(c) /\ ref_counts'[f] = 1 /\ f \notin Range(pool')
  BY <1>4, <1>6, <1>7, Around, Unused
<1>9. Range(pool') \cap Used = {} /\ Range(pool') \cap Others(c) = {}
  BY <1>4, <1>6, Around
<1>10. \A g \in Range(pool') : ~dirty[g] /\ ref_counts'[g] = 1
  BY <1>2, <1>4, <1>6, <1>7, Now, Unused
<1>11. Pieces(Alloc', (Range(pool') \cup Used \cup {f}) \cup Others(c))
  <2>1. Held = (Range(pool') \cup Used \cup {f}) \cup Others(c)
    BY <1>4, <1>6, Around
  <2> QED BY <1>7, <2>1 DEF FrameInv
<1>12. Len(pool') + in_flight' <= Capacity
  BY <1>1, <1>2, <1>3, <1>5, <1>6, Now, Sizes
<1>13. in_flight' = (in_flight - n) + None.claimed
  BY <1>1, <1>2, Now, NoCall
<1>14. UNCHANGED dirty /\ \A g \in Used \cup Others(c) : ref_counts'[g] = ref_counts[g]
  BY <1>1, <1>7
<1> QED BY <1>1, <1>6, <1>8, <1>9, <1>10, <1>11, <1>12, <1>13, <1>14, NoCall, Handed DEF n

(* The drained frames are returned and one of them is taken.                    *)
LEMMA GiveBackStep == ASSUME FrameInv, NEW c \in FCpu, give_back(c) PROVE FrameInv'
<1> DEFINE fs == fcall[c].frames  A == dealloc_batch(Alloc, fs)  B == alloc_frame(A)  f == next_frame(A)
           H == Held \ Own(c)
<1>1. /\ fcall[c].pc = "giveback" /\ SetAlloc(B) /\ Give(f) /\ fcall' = [fcall EXCEPT ![c] = None]
      /\ pool' = pool /\ dirty' = dirty /\ in_flight' = in_flight /\ refill_active' = refill_active
  BY DEF give_back, FIn, FDone, poolvars
<1>2. fs \in Seq(Ppn) /\ fs # <<>> /\ fcall[c].claimed = 0 /\ Injective(fs) /\ Range(fs) = Own(c)
  BY <1>1, Now, Around DEF CallSound, Own
<1>3. Pieces(Alloc, Held) /\ Own(c) \subseteq Held /\ Alloc.cnt = ref_counts /\ \A g \in Own(c) : ref_counts[g] = 1
  BY Around, Unused DEF FrameInv, Alloc
<1> HIDE DEF fs
<1>4. Pieces(A, H) /\ A.rec # <<>> /\ \A g \in H : A.cnt[g] = ref_counts[g]
  <2>1. Range(fs) \subseteq Held /\ \A g \in Range(fs) : Alloc.cnt[g] = 1
    BY <1>2, <1>3
  <2>2. /\ Pieces(A, Held \ Range(fs)) /\ \A g \in Held \ Range(fs) : A.cnt[g] = Alloc.cnt[g]
        /\ fs # <<>> => A.rec # <<>>
    BY <1>2, <1>3, <2>1, FreeBatch
  <2> QED BY <1>2, <1>3, <2>2
<1> HIDE DEF A
<1>5. f \in Usable /\ f \notin H /\ Pieces(B, H \cup {f}) /\ B.cnt = [A.cnt EXCEPT ![f] = 1]
  <2>1. can_alloc(A)
    BY <1>4 DEF can_alloc
  <2> QED BY <1>4, <2>1, AllocOne
<1>6. Alloc' = B /\ ref_counts' = B.cnt
  BY <1>1, <1>5, SetTo DEF Pieces
<1> HIDE DEF B, f
<1>7. Range(pool) \cup Used \cup Others(c) = H
  BY Around
<1> HIDE DEF H
<1>8. f \in Ppn /\ f \notin Used /\ f \notin Others(c) /\ f \notin Range(pool)
  BY <1>5, <1>7 DEF Usable
<1>9. ref_counts'[f] = 1 /\ \A g \in H : ref_counts'[g] = ref_counts[g]
  <2>1. A.cnt \in [Ppn -> 0 .. MaxRef]
    BY <1>4 DEF Pieces, Allocators
  <2>2. \A g \in H : g \in Ppn /\ g # f
    BY <1>4, <1>5 DEF Pieces, Usable
  <2> QED BY <1>4, <1>5, <1>6, <1>8, <2>1, <2>2
<1>10. /\ pool' \in Seq(Ppn) /\ Injective(pool') /\ f \notin Range(pool') /\ Range(pool') \cap Used = {}
       /\ Range(pool') \cap Others(c) = {}
  BY <1>1, <1>8, Now, Around
<1>11. \A g \in Range(pool') : ~dirty[g] /\ ref_counts'[g] = 1
  <2>1. \A g \in Range(pool) : ~dirty[g] /\ ref_counts[g] = 1 /\ g \in H
    BY <1>7, Now, Unused
  <2> QED BY <1>1, <1>9, <2>1
<1>12. Pieces(Alloc', (Range(pool') \cup Used \cup {f}) \cup Others(c))
  <2>1. H \cup {f} = (Range(pool') \cup Used \cup {f}) \cup Others(c)
    BY <1>1, <1>7
  <2> QED BY <1>5, <1>6, <2>1
<1>13. Len(pool') + in_flight' <= Capacity /\ refill_active' \in BOOLEAN
  BY <1>1, Now DEF FrameInv, FrTypeOK
<1>14. in_flight' = (in_flight - fcall[c].claimed) + None.claimed
  BY <1>1, <1>2, Now, NoCall
<1>15. UNCHANGED dirty /\ \A g \in Used \cup Others(c) : ref_counts'[g] = ref_counts[g]
  BY <1>1, <1>7, <1>9
<1> QED BY <1>1, <1>8, <1>9, <1>10, <1>11, <1>12, <1>13, <1>14, <1>15, NoCall, Handed

(* A step that changes the references to one frame of a user.                    *)
LEMMA Counted ==
  ASSUME FrameInv, NEW c \in FCpu, FIn(c, "idle"), UNCHANGED <<poolvars, fcall, dirty>>, NEW f \in Used,
         users' \in [Ppn -> 0 .. MaxRef], \A g \in Ppn \ {f} : users'[g] = users[g] /\ ref_counts'[g] = ref_counts[g],
         users'[f] > 0 => ref_counts'[f] = users'[f], Pieces(Alloc', IF users'[f] > 0 THEN Held ELSE Held \ {f})
  PROVE  FrameInv'
<1> DEFINE r == fcall[c]
<1>1. /\ r \in Calls /\ fcall' = [fcall EXCEPT ![c] = r] /\ r.frames = <<>> /\ r.claimed = fcall[c].claimed
      /\ CallSound(r) /\ r.pc = "idle" /\ Range(r.frames) = {} /\ Injective(r.frames) /\ Own(c) = {}
  BY Now, NoCall DEF FIn, CallSound, Own
<1>2. pool' = pool /\ dirty' = dirty /\ in_flight' = in_flight /\ refill_active' \in BOOLEAN
  BY DEF poolvars, FrameInv, FrTypeOK
<1>3. f \in Ppn /\ f \in Held /\ f \notin Range(pool) /\ f \notin Others(c)
  BY Around, CountsOf
<1>4. Used' = IF users'[f] > 0 THEN Used ELSE Used \ {f}
  BY <1>3 DEF Used
<1> HIDE DEF r
<1>5. (Range(pool') \cup Range(r.frames) \cup Used') \cup Others(c) = IF users'[f] > 0 THEN Held ELSE Held \ {f}
  <2>1. Held = (Range(pool) \cup Used) \cup Others(c)
    BY <1>1, Around
  <2> QED BY <1>1, <1>2, <1>3, <1>4, <2>1
<1>6. Pieces(Alloc', (Range(pool') \cup Range(r.frames) \cup Used') \cup Others(c))
  BY <1>5
<1>7. /\ (Range(pool') \cup Range(r.frames) \cup Used') \cap Others(c) = {}
      /\ Range(pool') \cap Range(r.frames) = {} /\ Range(pool') \cap Used' = {} /\ Range(r.frames) \cap Used' = {}
  BY <1>1, <1>2, <1>4, Around
<1>8. ASSUME NEW g \in Range(pool') \cup Range(r.frames) \cup Used'
      PROVE  ref_counts'[g] = IF users'[g] > 0 THEN users'[g] ELSE 1
  <2>1. CASE g = f
    BY <2>1, <1>1, <1>2, <1>3, <1>4 DEF Used
  <2>2. CASE g # f
    <3>1. g \in Held /\ g \in Ppn
      BY <1>1, <1>2, <1>4, Around
    <3>2. users'[g] = users[g] /\ ref_counts'[g] = ref_counts[g]
      BY <2>2, <3>1
    <3> QED BY <3>1, <3>2 DEF FrameInv, Counts
  <2> QED BY <2>1, <2>2
<1>9. \A g \in Range(pool') \cup Range(r.frames) \cup Used' :
        ref_counts'[g] = IF users'[g] > 0 THEN users'[g] ELSE 1
  BY <1>8
<1>10. \A g \in Others(c) : ref_counts'[g] = ref_counts[g]
  BY <1>3, Around
<1>11. /\ dirty' \in [Ppn -> BOOLEAN] /\ (\A g \in Held : dirty'[g] => dirty[g]) /\ pool' \in Seq(Ppn) /\ Injective(pool')
       /\ \A g \in Range(pool') : ~dirty'[g]
  BY <1>2, Now, Around
<1>12. Len(pool') + in_flight' <= Capacity
  BY <1>2, Now
<1>13. r.pc \in {"publish", "idlepublish"} => \A g \in Range(r.frames) : ~dirty'[g]
  BY <1>1
<1>14. in_flight' = (in_flight - fcall[c].claimed) + r.claimed
  <2>1. in_flight' = in_flight /\ in_flight \in Nat /\ fcall[c].claimed \in Nat
    BY <1>2, Now
  <2>2. in_flight = (in_flight - fcall[c].claimed) + fcall[c].claimed
    BY <2>1
  <2> QED BY <1>1, <2>1, <2>2
<1> QED BY <1>1, <1>2, <1>6, <1>7, <1>9, <1>10, <1>11, <1>12, <1>13, <1>14, StepOf

LEMMA IncStep == ASSUME FrameInv, NEW c \in FCpu, NEW f \in Ppn, frame_inc_ref(c, f) PROVE FrameInv'
<1>1. /\ FIn(c, "idle") /\ users[f] \in 1 .. MaxRef - 1 /\ ref_counts' = [ref_counts EXCEPT ![f] = ref_counts[f] + 1]
      /\ users' = [users EXCEPT ![f] = users[f] + 1] /\ UNCHANGED <<poolvars, fcall, dirty>>
      /\ recycled' = recycled /\ next_novel' = next_novel
  BY DEF frame_inc_ref, Give, poolvars
<1>2. MaxRef \in Nat \ {0} /\ users \in [Ppn -> 0 .. MaxRef] /\ ref_counts \in [Ppn -> 0 .. MaxRef]
  BY Sizes DEF FrameInv, FrTypeOK
<1>3. users[f] \in Nat /\ users[f] >= 1 /\ users[f] + 1 \in 0 .. MaxRef
  BY <1>1, <1>2
<1>4. f \in Used
  BY <1>3 DEF Used
<1>5. ref_counts[f] = users[f] /\ f \in Held
  BY <1>4, CountsOf
<1>6. users' \in [Ppn -> 0 .. MaxRef] /\ ref_counts' \in [Ppn -> 0 .. MaxRef]
  BY <1>1, <1>2, <1>3, <1>5
<1>7. /\ users'[f] = users[f] + 1 /\ ref_counts'[f] = users[f] + 1
      /\ \A g \in Ppn \ {f} : users'[g] = users[g] /\ ref_counts'[g] = ref_counts[g]
  BY <1>1, <1>2, <1>5
<1>8. Pieces(Alloc', Held)
  <2> DEFINE A == Alloc  B == Alloc'
  <2>1. A.rec = recycled /\ A.nov = next_novel /\ A.cnt = ref_counts
    BY DEF Alloc
  <2>2. B.rec = recycled /\ B.nov = next_novel /\ B.cnt = ref_counts'
    BY <1>1 DEF Alloc
  <2>3. Pieces(A, Held)
    BY DEF FrameInv
  <2>4. B \in Allocators
    <3>1. recycled \in Seq(Ppn) /\ next_novel \in 1 .. NFrame + 1
      BY DEF FrameInv, FrTypeOK
    <3> QED BY <1>1, <1>6, <3>1 DEF Alloc, Allocators
  <2> HIDE DEF A, B
  <2>5. Held \subseteq Ppn
    BY <2>3 DEF Pieces, Usable
  <2>6. \A g \in Held : B.cnt[g] >= 1
    <3> SUFFICES ASSUME NEW g \in Held PROVE B.cnt[g] >= 1
      OBVIOUS
    <3>1. CASE g = f
      BY <3>1, <1>3, <1>7, <2>2
    <3>2. CASE g # f
      BY <3>2, <1>7, <2>1, <2>2, <2>3, <2>5 DEF Pieces
    <3> QED BY <3>1, <3>2
  <2>7. \A g \in Ppn \ Held : B.cnt[g] = 0
    BY <1>5, <1>7, <2>1, <2>2, <2>3 DEF Pieces
  <2>8. B.rec = A.rec /\ B.nov = A.nov
    BY <2>1, <2>2
  <2> QED BY <2>3, <2>4, <2>6, <2>7, <2>8 DEF Pieces, B
<1>9. users'[f] > 0 /\ ref_counts'[f] = users'[f]
  BY <1>3, <1>7
<1> QED BY <1>1, <1>4, <1>6, <1>7, <1>8, <1>9, Counted

LEMMA DeallocStep == ASSUME FrameInv, NEW c \in FCpu, NEW f \in Ppn, frame_dealloc_result(c, f) PROVE FrameInv'
<1> DEFINE B == dealloc_frame(Alloc, f)
<1>1. /\ FIn(c, "idle") /\ users[f] > 0 /\ SetAlloc(B) /\ users' = [users EXCEPT ![f] = users[f] - 1]
      /\ UNCHANGED <<poolvars, fcall, dirty>>
  BY DEF frame_dealloc_result
<1>2. MaxRef \in Nat \ {0} /\ users \in [Ppn -> 0 .. MaxRef] /\ ref_counts \in [Ppn -> 0 .. MaxRef]
  BY Sizes DEF FrameInv, FrTypeOK
<1>3. f \in Used
  BY <1>1 DEF Used
<1>4. f \in Held /\ ref_counts[f] = users[f] /\ Alloc.cnt = ref_counts /\ Pieces(Alloc, Held)
  BY <1>3, CountsOf DEF Alloc, FrameInv
<1>5. /\ B.cnt = [ref_counts EXCEPT ![f] = ref_counts[f] - 1]
      /\ ref_counts[f] = 1 => Pieces(B, Held \ {f})
      /\ ref_counts[f] > 1 => Pieces(B, Held)
  BY <1>4, FreeOne
<1>6. users[f] \in Nat /\ users[f] >= 1 /\ users[f] <= MaxRef /\ users[f] - 1 \in 0 .. MaxRef
  BY <1>1, <1>2
<1> HIDE DEF B
<1>7. users' \in [Ppn -> 0 .. MaxRef] /\ users'[f] = users[f] - 1 /\ \A g \in Ppn \ {f} : users'[g] = users[g]
  BY <1>1, <1>2, <1>6
<1>8. Pieces(B, IF users'[f] > 0 THEN Held ELSE Held \ {f})
  <2>1. CASE users[f] = 1
    <3>1. ~(users'[f] > 0)
      BY <2>1, <1>7
    <3> QED BY <2>1, <3>1, <1>4, <1>5
  <2>2. CASE users[f] > 1
    <3>1. users'[f] > 0
      BY <2>2, <1>6, <1>7
    <3> QED BY <2>2, <3>1, <1>4, <1>5
  <2> QED BY <2>1, <2>2, <1>6
<1>9. Alloc' = B /\ ref_counts' = B.cnt
  BY <1>1, <1>8, SetTo DEF Pieces
<1>10. ref_counts'[f] = users'[f] /\ \A g \in Ppn \ {f} : ref_counts'[g] = ref_counts[g]
  BY <1>2, <1>4, <1>5, <1>7, <1>9
<1> QED BY <1>1, <1>3, <1>7, <1>8, <1>9, <1>10, Counted

(* The frames of a user are neither in the pool nor in a batch.                 *)
LEMMA WriteStep == ASSUME FrameInv, NEW f \in Ppn, Write(f) PROVE FrameInv'
<1>1. /\ users[f] > 0 /\ dirty' = [dirty EXCEPT ![f] = TRUE] /\ recycled' = recycled /\ next_novel' = next_novel
      /\ ref_counts' = ref_counts /\ pool' = pool /\ in_flight' = in_flight /\ refill_active' = refill_active
      /\ fcall' = fcall /\ users' = users
  BY DEF Write, allocator, poolvars
<1>2. FrTypeOK /\ CallsSound /\ Apart /\ Pieces(Alloc, Held) /\ Counts /\ PoolSound /\ f \in Used
  BY <1>1 DEF FrameInv, Used
<1>3. dirty' \in [Ppn -> BOOLEAN] /\ \A g \in Ppn \ {f} : dirty'[g] = dirty[g]
  BY <1>1, <1>2 DEF FrTypeOK
<1>4. FrTypeOK'
  BY <1>1, <1>2, <1>3 DEF FrTypeOK
<1>5. Held' = Held /\ Alloc' = Alloc
  BY <1>1 DEF Held, Alloc, Own, Used
<1>6. Apart' /\ Counts' /\ Pieces(Alloc', Held')
  BY <1>1, <1>2, <1>5 DEF Apart, Counts, Own, Used
<1>7. CallsSound'
  <2> SUFFICES ASSUME NEW c \in FCpu PROVE CallSound(fcall[c])' /\ Clean(fcall[c])'
    BY DEF CallsSound
  <2>1. CallSound(fcall[c]) /\ Clean(fcall[c]) /\ CallSound(fcall[c])'
    BY <1>1, <1>2 DEF CallsSound, CallSound
  <2>2. \A g \in Own(c) : g \in Ppn /\ g # f
    BY <1>2, Around
  <2> QED BY <1>1, <1>3, <2>1, <2>2 DEF Clean, Own
<1>8. PoolSound'
  <2>1. \A i \in DOMAIN pool : pool[i] \in Ppn /\ pool[i] # f
    <3>1. \A i \in DOMAIN pool : pool[i] \in Range(pool) /\ pool[i] \in Ppn
      BY <1>2 DEF FrTypeOK, Range
    <3> QED BY <1>2, <3>1 DEF Apart
  <2>2. \A i \in DOMAIN pool' : ~dirty'[pool'[i]]
    BY <1>1, <1>2, <1>3, <2>1 DEF PoolSound
  <2>3. Claims' = Claims
    BY <1>1 DEF Claims
  <2> QED BY <1>1, <1>2, <2>2, <2>3 DEF PoolSound
<1> QED BY <1>4, <1>6, <1>7, <1>8 DEF FrameInv

LEMMA SameState == ASSUME FrameInv, UNCHANGED fvars PROVE FrameInv'
<1>1. /\ recycled' = recycled /\ next_novel' = next_novel /\ ref_counts' = ref_counts /\ pool' = pool
      /\ in_flight' = in_flight /\ refill_active' = refill_active /\ fcall' = fcall /\ users' = users /\ dirty' = dirty
  BY DEF fvars
<1>2. Held' = Held /\ Alloc' = Alloc /\ Claims' = Claims
  BY <1>1 DEF Held, Alloc, Own, Used, Claims
<1>3. FrTypeOK' /\ PoolSound' /\ CallsSound'
  BY <1>1, <1>2 DEF FrameInv, FrTypeOK, PoolSound, CallsSound, CallSound, Clean
<1>4. Apart' /\ Counts' /\ Pieces(Alloc', Held')
  BY <1>1, <1>2 DEF FrameInv, Apart, Counts, Own, Used
<1> QED BY <1>3, <1>4 DEF FrameInv

LEMMA AtFirst == ASSUME FrInit PROVE FrameInv
<1>1. /\ recycled = <<>> /\ next_novel = NFrame + 1 /\ ref_counts = [f \in Ppn |-> 0]
      /\ pool = <<>> /\ in_flight = 0 /\ refill_active = TRUE
      /\ fcall = [c \in FCpu |-> None] /\ users = [f \in Ppn |-> 0] /\ dirty = [f \in Ppn |-> TRUE]
  BY DEF FrInit
<1>2. 0 \in 0 .. MaxRef /\ next_novel \in 1 .. NFrame + 1 /\ next_novel \notin Ppn /\ \A f \in Ppn : f < next_novel
  BY <1>1, Sizes DEF Ppn
<1>3. FrTypeOK
  BY <1>1, <1>2, NoCall DEF FrTypeOK
<1>4. \A c \in FCpu : fcall[c] = None /\ Own(c) = {}
  BY <1>1, NoCall DEF Own
<1>5. Used = {} /\ Held = {} /\ Range(pool) = {}
  <2>1. Used = {}
    BY <1>1 DEF Used
  <2>2. Range(pool) = {}
    BY <1>1, NoCall
  <2> QED BY <1>4, <2>1, <2>2 DEF Held
<1>6. CallsSound
  BY <1>4, NoCall DEF CallsSound, Clean
<1>7. Apart
  BY <1>1, <1>4, <1>5, NoCall DEF Apart
<1>8. Counts
  BY <1>5 DEF Counts
<1>9. Pieces(Alloc, Held)
  <2> DEFINE A == Alloc
  <2>1. A.rec = <<>> /\ A.nov = next_novel /\ A.cnt = ref_counts
    BY <1>1 DEF Alloc
  <2>2. Injective(A.rec) /\ Range(A.rec) = {}
    BY <2>1, NoCall
  <2>3. A.nov \notin Reserved
    BY <2>1, <1>2, Sizes
  <2>4. \A f \in Usable : ~(f >= A.nov)
    <3>1. \A f \in Usable : f \in Ppn /\ f \in Nat
      BY Sizes DEF Usable
    <3> QED BY <2>1, <1>2, <3>1
  <2>5. \A f \in Ppn : A.cnt[f] = 0
    BY <2>1, <1>1
  <2>6. A \in Allocators
    BY <1>3 DEF Alloc, Allocators, FrTypeOK
  <2> HIDE DEF A
  <2> QED BY <1>5, <2>1, <2>2, <2>3, <2>4, <2>5, <2>6 DEF Pieces, A
<1>10. PoolSound
  <2>1. Claims = {}
    <3>1. \A x \in FCpu \X (1 .. Batch) : fcall[x[1]].claimed = 0 /\ x[2] >= 1
      BY <1>4, NoCall, Sizes
    <3>2. \A x \in FCpu \X (1 .. Batch) : ~(x[2] <= fcall[x[1]].claimed)
      BY <3>1, Sizes
    <3> QED BY <3>2 DEF Claims
  <2>2. Cardinality(Claims) = 0
    BY <2>1, FS_EmptySet
  <2>3. Len(pool) = 0 /\ DOMAIN pool = {}
    BY <1>1
  <2>4. Len(pool) + in_flight <= Capacity
    BY <1>1, <2>3, Sizes
  <2> QED BY <1>1, <2>2, <2>3, <2>4 DEF PoolSound
<1> QED BY <1>3, <1>6, <1>7, <1>8, <1>9, <1>10 DEF FrameInv

(* The invariant that carries everything that is said of the frames.             *)
THEOREM FrameInvariance == FrSpec => []FrameInv
<1>1. FrInit => FrameInv
  BY AtFirst
<1>2. ASSUME FrameInv, [FrNext]_fvars PROVE FrameInv'
  <2>1. CASE UNCHANGED fvars
    BY <1>2, <2>1, SameState
  <2>2. ASSUME NEW f \in Ppn, Write(f) PROVE FrameInv'
    BY <1>2, <2>2, WriteStep
  <2>3. ASSUME NEW c \in FCpu,
               \/ frame_alloc_result(c) \/ drain(c) \/ give_back(c)
               \/ (\E keep \in BOOLEAN : take_zeroed(c, keep)) \/ claim_sync_publish_slots(c) \/ batch(c) \/ unclaim(c)
               \/ zero_frames(c) \/ publish(c) \/ claim_idle_publish_slots(c) \/ idle_batch(c) \/ idle_publish(c)
               \/ \E f \in Ppn : frame_inc_ref(c, f) \/ frame_dealloc_result(c, f)
        PROVE  FrameInv'
    <3>1. CASE frame_alloc_result(c) \/ drain(c) \/ give_back(c)
      BY <1>2, <3>1, AllocStep, DrainStep, GiveBackStep
    <3>2. CASE \E keep \in BOOLEAN : take_zeroed(c, keep)
      BY <1>2, <3>2, TakeZeroedStep
    <3>3. CASE claim_sync_publish_slots(c) \/ batch(c) \/ unclaim(c)
      BY <1>2, <3>3, ClaimStep, BatchStep, UnclaimStep
    <3>4. CASE zero_frames(c) \/ publish(c)
      BY <1>2, <3>4, ZeroStep, PublishStep
    <3>5. CASE claim_idle_publish_slots(c) \/ idle_batch(c) \/ idle_publish(c)
      BY <1>2, <3>5, IdleClaimStep, IdleBatchStep, IdlePublishStep
    <3>6. CASE \E f \in Ppn : frame_inc_ref(c, f) \/ frame_dealloc_result(c, f)
      BY <1>2, <3>6, IncStep, DeallocStep
    <3> QED BY <2>3, <3>1, <3>2, <3>3, <3>4, <3>5, <3>6
  <2> QED BY <1>2, <2>1, <2>2, <2>3 DEF FrNext
<1> QED BY <1>1, <1>2, PTL DEF FrSpec

(* Whatever is handed out, returned and refilled, the allocator, the pool and    *)
(* the calls under way stay well formed.                                       *)
THEOREM FrameTypeCorrect == FrSpec => []FrTypeOK
<1>1. FrameInv => FrTypeOK
  BY DEF FrameInv
<1> QED BY <1>1, FrameInvariance, PTL

-----------------------------------------------------------------------------
(* From sets of holders to the number of places.                                *)
LEMMA OneOf ==
  ASSUME NEW S, \A x, y \in S : x = y
  PROVE  Cardinality(S) = IF S = {} THEN 0 ELSE 1
<1>1. CASE S = {}
  BY <1>1, FS_EmptySet
<1>2. CASE S # {}
  <2>1. PICK x : x \in S
    BY <1>2
  <2>2. S = {x}
    BY <2>1
  <2>3. Cardinality({x}) = 1
    BY FS_Singleton
  <2> QED BY <1>2, <2>2, <2>3
<1> QED BY <1>1, <1>2

LEMMA Occurs ==
  ASSUME NEW s \in Seq(Ppn), Injective(s), NEW f
  PROVE  Cardinality({i \in DOMAIN s : s[i] = f}) = IF f \in Range(s) THEN 1 ELSE 0
<1> DEFINE S == {i \in DOMAIN s : s[i] = f}
<1>1. \A x, y \in S : x = y
  BY DEF Injective
<1>2. S = {} <=> f \notin Range(s)
  BY DEF Range
<1> HIDE DEF S
<1>3. Cardinality(S) = IF S = {} THEN 0 ELSE 1
  BY <1>1, OneOf
<1> QED BY <1>2, <1>3 DEF S

LEMMA OccursInBatch ==
  ASSUME FrameInv, NEW f
  PROVE  /\ Cardinality(InBatch(f)) = IF InBatch(f) = {} THEN 0 ELSE 1
         /\ InBatch(f) # {} <=> \E c \in FCpu : f \in Own(c)
<1>1. ASSUME NEW c \in FCpu
      PROVE  /\ fcall[c].frames \in Seq(Ppn) /\ Len(fcall[c].frames) \in Nat /\ Injective(fcall[c].frames)
             /\ DOMAIN fcall[c].frames = 1 .. Len(fcall[c].frames) /\ Len(fcall[c].frames) <= Batch
  <2>1. fcall[c].frames \in Seq(Ppn) /\ Injective(fcall[c].frames)
    BY Around
  <2>2. Len(fcall[c].frames) <= Batch
    BY Now DEF CallSound
  <2> QED BY <2>1, <2>2
<1>2. ASSUME NEW x \in InBatch(f)
      PROVE  /\ x = <<x[1], x[2]>> /\ x[1] \in FCpu /\ x[2] \in DOMAIN fcall[x[1]].frames
             /\ fcall[x[1]].frames[x[2]] = f /\ f \in Own(x[1])
  <2>1. /\ x \in FCpu \X (1 .. Batch) /\ x[2] <= Len(fcall[x[1]].frames) /\ fcall[x[1]].frames[x[2]] = f
    BY DEF InBatch
  <2>2. x = <<x[1], x[2]>> /\ x[1] \in FCpu /\ x[2] \in 1 .. Batch
    BY <2>1
  <2>3. x[2] \in DOMAIN fcall[x[1]].frames
    BY <1>1, <2>1, <2>2, Sizes
  <2> QED BY <2>1, <2>2, <2>3 DEF Own, Range
<1>3. \A x, y \in InBatch(f) : x = y
  <2> SUFFICES ASSUME NEW x \in InBatch(f), NEW y \in InBatch(f) PROVE x = y
    OBVIOUS
  <2>1. x[1] = y[1]
    BY <1>2 DEF FrameInv, Apart
  <2>2. x[2] = y[2]
    BY <1>1, <1>2, <2>1 DEF Injective
  <2> QED BY <1>2, <2>1, <2>2
<1>4. ASSUME NEW c \in FCpu, f \in Own(c) PROVE InBatch(f) # {}
  <2>1. PICK i \in DOMAIN fcall[c].frames : fcall[c].frames[i] = f
    BY <1>4 DEF Own, Range
  <2>2. i \in 1 .. Batch /\ i <= Len(fcall[c].frames)
    BY <1>1, <2>1, Sizes
  <2>3. <<c, i>> \in InBatch(f)
    BY <2>1, <2>2 DEF InBatch
  <2> QED BY <2>3
<1>5. InBatch(f) # {} <=> \E c \in FCpu : f \in Own(c)
  BY <1>2, <1>4
<1> QED BY <1>3, <1>5, OneOf

LEMMA Partitioned == FrameInv => FramePartition
<1> SUFFICES ASSUME FrameInv, NEW f \in Ppn
             PROVE  /\ Places(f) = IF f \in Reserved THEN 0 ELSE 1
                    /\ ref_counts[f] = IF users[f] > 0 THEN users[f]
                                       ELSE IF f \in Range(pool) \/ InBatch(f) # {} THEN 1 ELSE 0
  BY DEF FramePartition
<1> DEFINE a == Cardinality({i \in DOMAIN recycled : recycled[i] = f})
           b == Cardinality({i \in DOMAIN pool : pool[i] = f})
           d == Cardinality(InBatch(f))
           u == IF users[f] > 0 THEN 1 ELSE 0
           v == IF f < next_novel /\ f \notin Reserved THEN 1 ELSE 0
<1>1. FrTypeOK /\ Apart /\ Counts /\ Alloc.rec = recycled /\ Alloc.nov = next_novel /\ Alloc.cnt = ref_counts
  BY DEF FrameInv, Alloc
<1>2. /\ Injective(recycled) /\ Held \subseteq Usable /\ Range(recycled) \subseteq Usable
      /\ \A g \in Usable : g >= next_novel => (g \in Range(recycled) \/ g \in Held)
      /\ \A g \in Range(recycled) : g >= next_novel /\ g \notin Held
      /\ \A g \in Held : g >= next_novel
      /\ \A g \in Ppn \ Held : ref_counts[g] = 0
  BY <1>1 DEF FrameInv, Pieces
<1>3. a = IF f \in Range(recycled) THEN 1 ELSE 0
  BY <1>1, <1>2, Occurs DEF FrTypeOK
<1>4. b = IF f \in Range(pool) THEN 1 ELSE 0
  BY <1>1, Occurs DEF FrTypeOK, Apart
<1>5. d = (IF InBatch(f) = {} THEN 0 ELSE 1) /\ (InBatch(f) # {} <=> \E c \in FCpu : f \in Own(c))
  BY OccursInBatch
<1>6. u = (IF f \in Used THEN 1 ELSE 0) /\ (f \in Used <=> users[f] > 0)
  BY DEF Used
<1>7. Places(f) = a + b + d + u + v
  BY DEF Places
<1>8. f \in Held <=> (f \in Range(pool) \/ InBatch(f) # {} \/ f \in Used)
  BY <1>5 DEF Held
<1>9. (f \in Used => (f \notin Range(pool) /\ InBatch(f) = {})) /\ (f \in Range(pool) => InBatch(f) = {})
  BY <1>1, <1>5 DEF Apart
<1>10. f \in Nat /\ next_novel \in Nat /\ (f \in Usable <=> f \notin Reserved)
  BY <1>1, Sizes DEF FrTypeOK, Usable
<1> HIDE DEF a, b, d, u, v
<1>11. Places(f) = IF f \in Reserved THEN 0 ELSE 1
  <2>1. CASE f \in Reserved
    <3>1. f \notin Held /\ f \notin Range(recycled)
      BY <2>1, <1>2, <1>10
    <3>2. a = 0 /\ b = 0 /\ d = 0 /\ u = 0 /\ v = 0
      BY <2>1, <3>1, <1>3, <1>4, <1>5, <1>6, <1>8 DEF v
    <3> QED BY <2>1, <3>2, <1>7
  <2>2. CASE f \notin Reserved /\ f < next_novel
    <3>1. f \notin Held /\ f \notin Range(recycled)
      BY <2>2, <1>2, <1>10
    <3>2. a = 0 /\ b = 0 /\ d = 0 /\ u = 0 /\ v = 1
      BY <2>2, <3>1, <1>3, <1>4, <1>5, <1>6, <1>8 DEF v
    <3> QED BY <2>2, <3>2, <1>7
  <2>3. CASE f \notin Reserved /\ ~(f < next_novel)
    <3>1. f >= next_novel /\ f \in Usable
      BY <2>3, <1>10
    <3>2. (f \in Range(recycled) \/ f \in Held) /\ ~(f \in Range(recycled) /\ f \in Held)
      BY <3>1, <1>2
    <3>3. v = 0
      BY <2>3 DEF v
    <3>4. CASE f \in Range(recycled)
      <4>1. a = 1 /\ b = 0 /\ d = 0 /\ u = 0
        BY <3>2, <3>4, <1>3, <1>4, <1>5, <1>6, <1>8
      <4> QED BY <2>3, <3>3, <4>1, <1>7
    <3>5. CASE f \notin Range(recycled)
      <4>1. a = 0 /\ f \in Held
        BY <3>2, <3>5, <1>3
      <4>2. \/ b = 1 /\ d = 0 /\ u = 0
            \/ b = 0 /\ d = 1 /\ u = 0
            \/ b = 0 /\ d = 0 /\ u = 1
        BY <4>1, <1>4, <1>5, <1>6, <1>8, <1>9
      <4> QED BY <2>3, <3>3, <4>1, <4>2, <1>7
    <3> QED BY <3>4, <3>5
  <2> QED BY <2>1, <2>2, <2>3
<1>12. ref_counts[f] = IF users[f] > 0 THEN users[f] ELSE IF f \in Range(pool) \/ InBatch(f) # {} THEN 1 ELSE 0
  <2>1. f \in Held => ref_counts[f] = IF users[f] > 0 THEN users[f] ELSE 1
    BY <1>1 DEF Counts
  <2>2. f \notin Held => ref_counts[f] = 0
    BY <1>2
  <2> QED BY <2>1, <2>2, <1>6, <1>8
<1> QED BY <1>11, <1>12

(* Every frame is free, pooled, in one CPU's batch or with users whose references *)
(* are its count, a reserved one is nowhere, and the pool is zeroed and never     *)
(* over its capacity, for any number of CPUs, frames and slots.                   *)
THEOREM FramesAccountedHolds == FrSpec => []FramesAccounted
<1>1. FrameInv => FramesAccounted
  BY Partitioned DEF FramesAccounted, FrameInv
<1> QED BY <1>1, FrameInvariance, PTL
=============================================================================
