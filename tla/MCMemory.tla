----------------------------- MODULE MCMemory -----------------------------
(***************************************************************************)
(* Memory for TLC: address spaces, the frame allocator with its pool of       *)
(* zeroed frames, and TLB shootdown.  A behaviour uses one of them, the one    *)
(* that focus names, with one of the sets of calls below.  The module extends  *)
(* Tlb, with the constants of "reuse", and Frames, so that its properties and   *)
(* the theorems speak of the same definitions.                                *)
(***************************************************************************)
EXTENDS Integers, Tlb, Frames

VARIABLES focus,
          vmas, spte, ref, data, brk_end, alive, tied, touched

spaceVars == <<vmas, spte, ref, data, brk_end, alive, tied, touched>>
allVars == <<focus, spaceVars, fvars, tlbvars>>

RW == {"r", "w"}
RO == {"r"}
Cow     == INSTANCE AddressSpace WITH pte <- spte, Space <- {1, 2}, NPage <- 2, Frame <- {1, 2, 3}, NExt <- 2, NDev <- 1,
             Prots <- {RW}, MOps <- {"mmap", "anon", "fault", "fork", "madvise"}
Protect == INSTANCE AddressSpace WITH pte <- spte, Space <- {1, 2}, NPage <- 2, Frame <- {1, 2}, NExt <- 2, NDev <- 1,
             Prots <- {RW, RO}, MOps <- {"mmap", "anon", "fault", "fork", "mprotect"}
Shared  == INSTANCE AddressSpace WITH pte <- spte, Space <- {1, 2}, NPage <- 2, Frame <- {1, 2, 3}, NExt <- 2, NDev <- 1,
             Prots <- {RW}, MOps <- {"shared", "anon", "munmap", "fork"}
Foreign == INSTANCE AddressSpace WITH pte <- spte, Space <- {1, 2}, NPage <- 2, Frame <- {1}, NExt <- 2, NDev <- 1,
             Prots <- {RW}, MOps <- {"ext", "device", "munmap", "fork"}
Remap   == INSTANCE AddressSpace WITH pte <- spte, Space <- {1}, NPage <- 3, Frame <- {1, 2}, NExt <- 2, NDev <- 1,
             Prots <- {RW}, MOps <- {"mmap", "anon", "fault", "mremap", "device"}
Heap    == INSTANCE AddressSpace WITH pte <- spte, Space <- {1}, NPage <- 3, Frame <- {1, 2, 3}, NExt <- 2, NDev <- 1,
             Prots <- {RW}, MOps <- {"mmap", "anon", "fault", "brk", "fixed"}
Files   == INSTANCE AddressSpace WITH pte <- spte, Space <- {1}, NPage <- 3, Frame <- {1}, NExt <- 2, NDev <- 1,
             Prots <- {RW, RO}, MOps <- {"mmap", "anon", "file", "mprotect", "munmap", "fault"}
Shoot   == INSTANCE Tlb WITH Cpu <- {1, 2}, Aspace <- {1}, Asid <- {1}, MaxVer <- 2, MaxSeq <- 3, TlbOps <- {}

Init ==
  /\ focus \in {"cow", "protect", "shared", "foreign", "remap", "heap", "files", "frames", "reuse", "shoot"}
  /\ CASE focus \in {"protect"} -> Protect!MInit [] focus = "foreign" -> Foreign!MInit
       [] focus = "remap" -> Remap!MInit [] focus = "heap" -> Heap!MInit [] focus = "files" -> Files!MInit
       [] OTHER -> Cow!MInit
  /\ FrInit
  /\ IF focus = "shoot" THEN Shoot!TlbInit ELSE TlbInit

SpaceNext == \/ focus = "cow" /\ Cow!MNext
             \/ focus = "protect" /\ Protect!MNext
             \/ focus = "shared" /\ Shared!MNext
             \/ focus = "foreign" /\ Foreign!MNext
             \/ focus = "remap" /\ Remap!MNext
             \/ focus = "heap" /\ Heap!MNext
             \/ focus = "files" /\ Files!MNext
FrameNext == focus = "frames" /\ FrNext
FlushNext == \/ focus = "reuse" /\ TlbNext
             \/ focus = "shoot" /\ Shoot!TlbNext
Next ==
  /\ UNCHANGED focus
  /\ \/ SpaceNext /\ UNCHANGED <<fvars, tlbvars>>
     \/ FrameNext /\ UNCHANGED <<spaceVars, tlbvars>>
     \/ FlushNext /\ UNCHANGED <<spaceVars, fvars>>
(* The kernel of every CPU of "shoot" runs on.                               *)
KernelRuns(c) == focus = "shoot" /\ Shoot!Kernel(c) /\ UNCHANGED <<focus, spaceVars, fvars>>
Spec == Init /\ [][Next]_allVars /\ \A c \in {1, 2} : WF_allVars(KernelRuns(c))

-----------------------------------------------------------------------------
(* Type correctness of the three components.                                 *)
MemoryTypes ==
  /\ CASE focus = "foreign" -> Foreign!MTypeOK [] focus = "protect" -> Protect!MTypeOK
       [] focus = "remap" -> Remap!MTypeOK [] focus = "heap" -> Heap!MTypeOK [] focus = "files" -> Files!MTypeOK
       [] OTHER -> Cow!MTypeOK
  /\ FrTypeOK
  /\ IF focus = "shoot" THEN Shoot!TlbTypeOK ELSE TlbTypeOK

(* AddressSpace: the count of a frame is the number of the entries that own     *)
(* it, the VMAs are canonical, a shared page is one frame for parent and       *)
(* child and a private writable one is nobody else's.                         *)
MappingsSound ==
  CASE focus = "foreign" -> Foreign!FrameCounts /\ Foreign!VmaCanonical /\ Foreign!SharedTogether
    [] focus = "protect" -> Protect!FrameCounts /\ Protect!VmaCanonical /\ Protect!SharedTogether
    [] focus = "remap" -> Remap!FrameCounts /\ Remap!VmaCanonical
    [] focus = "heap" -> Heap!FrameCounts /\ Heap!VmaCanonical
    [] focus = "files" -> Files!FrameCounts /\ Files!VmaCanonical
    [] OTHER -> Cow!FrameCounts /\ Cow!VmaCanonical /\ Cow!SharedTogether
(* AddressSpace::Isolated: no call changes what a program finds at a page that  *)
(* the call was not about, in any space.                                      *)
SpacesIsolated ==
  [][CASE focus = "foreign" -> Foreign!OthersUntouched [] focus = "protect" -> Protect!OthersUntouched
       [] focus = "remap" -> Remap!OthersUntouched [] focus = "heap" -> Heap!OthersUntouched
       [] focus = "files" -> Files!OthersUntouched [] OTHER -> Cow!OthersUntouched]_allVars
(* Tlb::ShootdownsEnd for "shoot": every shootdown ends although all CPUs wait for one      *)
(* another with interrupts off.  It is checked where no interrupt is lost; a   *)
(* shootdown of "reuse" may end by its timeout only.                          *)
EveryShootdownEnds == \A c \in {1, 2} : (focus = "shoot" /\ tcall[c].pc # "idle") ~> (tcall[c].pc = "idle")
=============================================================================
