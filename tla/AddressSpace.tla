--------------------------- MODULE AddressSpace ---------------------------
(***************************************************************************)
(* User address spaces: the VMA set (mm-impl/common/src/vma.rs), the resident  *)
(* page-table entries and the reference counts of the physical frames, under   *)
(* mmap, munmap, mprotect, mremap, brk, madvise, page faults, fork with        *)
(* copy-on-write and destruction (impl-sv39).  Every call holds the lock of    *)
(* its address space from start to end, so each one is a step; the spaces      *)
(* interact through frames.  Addresses are page numbers, a range is            *)
(* [lo, hi), contents are abstracted to a few values.                          *)
(***************************************************************************)
EXTENDS Integers, FiniteSets, FiniteSetsExt, SequencesExt

CONSTANTS Space,     \* address spaces; the least is there at the start
          NPage,     \* pages 1 .. NPage; the heap starts at page 1
          Frame,     \* frames of the allocator, a set of numbers from 1
          NExt,      \* pages of the SysV segment
          NDev,      \* pages of the device
          Prots,     \* protections the programs ask for
          MOps       \* calls and flags of this instance

VARIABLES vmas,      \* vmas[s]: set of VMAs
          pte,       \* pte[s][p]: resident leaf or NoPte
          ref,       \* ref[f]: count of the frame allocator, 0 is free
          data,      \* data[f]: contents
          brk_end,   \* brk_end[s]: first page after the heap
          alive,     \* alive[s]
          tied,      \* pages that are one shared object in every live space
          touched    \* <<space, page>> pairs the last call was asked to change
mvars == <<vmas, pte, ref, data, brk_end, alive, tied, touched>>

Page == 1 .. NPage
NoFrame == 0
ExtFrame == [i \in 1 .. NExt |-> Max(Frame) + i]
DevFrame == [i \in 1 .. NDev |-> Max(Frame) + NExt + i]
AllFrame == Frame \cup Range(ExtFrame) \cup Range(DevFrame)
Perms == {{}, {"r"}, {"r", "w"}}
NoPte == [f |-> NoFrame, perm |-> {}, cow |-> FALSE]
Pages(lo, hi) == lo .. hi - 1
Ranges == {r \in Page \X (2 .. NPage + 1) : r[1] < r[2]}
Resident(t, p) == t[p].f # NoFrame

-----------------------------------------------------------------------------
(* VMAs and the ordered set of them.                                          *)
VmArea(lo, hi, perm, shared, kind, demand, off) ==
  [lo |-> lo, hi |-> hi, perm |-> perm, shared |-> shared, kind |-> kind, demand |-> demand, off |-> off]
overlapping(V, lo, hi) == {v \in V : v.lo < hi /\ v.hi > lo}
lookup(V, p) == overlapping(V, p, p + 1)
Vma(V, p) == CHOOSE v \in lookup(V, p) : TRUE
is_non_owned(v) == v.kind \in {"ext", "device"}
non_owned_vma_contains(V, p) == \E v \in lookup(V, p) : is_non_owned(v)
covers_where(V, lo, hi, kinds) == \A p \in Pages(lo, hi) : \E v \in lookup(V, p) : v.kind \in kinds
duplicate_range(v, lo, hi) ==
  [v EXCEPT !.lo = lo, !.hi = hi, !.off = IF v.kind = "file" THEN @ + lo - v.lo ELSE @]
alike(a, b) ==
  /\ a.perm = b.perm /\ a.shared = b.shared /\ a.kind = b.kind /\ a.demand = b.demand
  /\ a.kind \in {"anon", "heap"}
mergeable_with(a, b) == a.hi = b.lo /\ alike(a, b)

(* The VMA at key joins its predecessor, then every successor in a row.        *)
coalesce_at(V, key) ==
  LET c == CHOOSE v \in V : v.lo = key
      left == {v \in V : mergeable_with(v, c)}
      right == {v \in V : /\ v.lo > c.lo /\ alike(c, v)
                          /\ \A p \in Pages(c.hi, v.lo) : \E w \in lookup(V, p) : alike(c, w)}
      all == left \cup {c} \cup right
  IN (V \ all) \cup {duplicate_range(CHOOSE v \in all : \A w \in all : v.lo <= w.lo,
                                     Min({v.lo : v \in all}), Max({v.hi : v \in all}))}
insert(V, v) == coalesce_at(V \cup {v}, v.lo)
(* Keys leave, fragments come, and each fragment (or what it became part of)   *)
(* is coalesced.                                                              *)
commit_replacement(V, keys, fragments) ==
  LET W == (V \ keys) \cup fragments
      one(U, lo) == coalesce_at(U, IF \E v \in U : v.lo = lo THEN lo ELSE Vma(U, lo).lo)
  IN FoldLeft(one, W, SetToSortSeq({v.lo : v \in fragments}, LAMBDA a, b : a < b))
remove_range_no_offset(V, lo, hi) ==
  LET keys == overlapping(V, lo, hi)
  IN commit_replacement(V, keys, {[v EXCEPT !.hi = lo] : v \in {k \in keys : k.lo < lo}}
                                 \cup {[v EXCEPT !.lo = hi] : v \in {k \in keys : hi < k.hi}})
remove_range(V, lo, hi) ==
  LET keys == overlapping(V, lo, hi)
  IN commit_replacement(V, keys, {duplicate_range(v, v.lo, lo) : v \in {k \in keys : k.lo < lo}}
                                 \cup {duplicate_range(v, hi, v.hi) : v \in {k \in keys : hi < k.hi}})
protect_range(V, lo, hi, perm) ==
  LET keys == overlapping(V, lo, hi)
      parts(v) == LET a == Max({lo, v.lo})  b == Min({hi, v.hi})
                  IN {duplicate_range(v, v.lo, a) : x \in {y \in {1} : v.lo < a}}
                     \cup {[duplicate_range(v, a, b) EXCEPT !.perm = perm]}
                     \cup {duplicate_range(v, b, v.hi) : x \in {y \in {1} : b < v.hi}}
  IN commit_replacement(V, keys, UNION {parts(v) : v \in keys})

-----------------------------------------------------------------------------
(* Frames.  M is a bundle of the state a call works on: the table t of one     *)
(* space, the counts r, the contents d, and ok until an allocation fails.      *)
Bundle(t) == [t |-> t, r |-> ref, d |-> data, ok |-> TRUE]
FreeIn(r) == {f \in Frame : r[f] = 0}
frame_dealloc(r, f) == [r EXCEPT ![f] = @ - 1]
unmap_page_with_alloc(M, p) ==
  IF ~Resident(M.t, p) THEN M
  ELSE [M EXCEPT !.t[p] = NoPte, !.r = frame_dealloc(@, M.t[p].f)]
unmap_page_to_ppn(M, p) == [M EXCEPT !.t[p] = NoPte]
InOrder(lo, hi) == [i \in 1 .. hi - lo |-> lo + i - 1]
unmap_range_with_alloc(M, lo, hi) == FoldLeft(unmap_page_with_alloc, M, InOrder(lo, hi))
unmap_mmap_range(M, V, lo, hi) ==
  LET one(N, p) == IF non_owned_vma_contains(V, p) THEN unmap_page_to_ppn(N, p) ELSE unmap_page_with_alloc(N, p)
  IN FoldLeft(one, M, InOrder(lo, hi))
map_page_with(M, p, perm, content) ==
  IF ~M.ok \/ FreeIn(M.r) = {} THEN [M EXCEPT !.ok = FALSE]
  ELSE LET f == Min(FreeIn(M.r))
       IN [M EXCEPT !.t[p] = [f |-> f, perm |-> perm, cow |-> FALSE], !.r[f] = 1, !.d[f] = content]
(* Stops at the first failure and leaves what it mapped.                      *)
map_zeroed_range(M, lo, hi, perm, content) ==
  LET one(N, p) == map_page_with(N, p, perm, content) IN FoldLeft(one, M, InOrder(lo, hi))
map_external_pages(M, lo, hi, perm, frames) ==
  [M EXCEPT !.t = [p \in Page |-> IF p \in Pages(lo, hi)
                                  THEN [f |-> frames[p - lo + 1], perm |-> perm, cow |-> FALSE] ELSE @[p]]]
(* A frame of one's own, copied: the old one loses a reference.                *)
copy_frame(M, p, perm) ==
  IF FreeIn(M.r) = {} THEN [M EXCEPT !.ok = FALSE]
  ELSE LET f == Min(FreeIn(M.r))  old == M.t[p].f
       IN [M EXCEPT !.t[p] = [f |-> f, perm |-> perm, cow |-> FALSE],
                    !.r = frame_dealloc([@ EXCEPT ![f] = 1], old), !.d[f] = M.d[old]]
handle_cow_page(M, p) ==
  IF ~M.t[p].cow THEN M
  ELSE IF M.r[M.t[p].f] <= 1 THEN [M EXCEPT !.t[p].perm = @ \cup {"w"}, !.t[p].cow = FALSE]
  ELSE copy_frame(M, p, M.t[p].perm \cup {"w"})
(* For a private page: COW first, else a copy if others hold the frame.        *)
ensure_private_for_write(M, p) ==
  IF M.t[p].cow THEN handle_cow_page(M, p)
  ELSE IF M.r[M.t[p].f] <= 1 THEN M ELSE copy_frame(M, p, M.t[p].perm)

Commit(s, M) == pte' = [pte EXCEPT ![s] = M.t] /\ ref' = M.r /\ data' = M.d
Touch(s, lo, hi) == touched' = {s} \X Pages(lo, hi)
Untie(lo, hi) == tied' = tied \ Pages(lo, hi)

MInit ==
  /\ alive = [s \in Space |-> s = Min(Space)]
  /\ vmas = [s \in Space |-> {}] /\ pte = [s \in Space |-> [p \in Page |-> NoPte]]
  /\ ref = [f \in AllFrame |-> IF f \in Frame THEN 0 ELSE 1] /\ data = [f \in AllFrame |-> 0]
  /\ brk_end = [s \in Space |-> 1] /\ tied = {} /\ touched = {}

-----------------------------------------------------------------------------
(* What MAP_FIXED does to the range first; a range without a hint is free.     *)
find_free(s, lo, hi) == \A p \in Pages(lo, hi) : lookup(vmas[s], p) = {} /\ ~Resident(pte[s], p)
Cleared(s, lo, hi, fixed) == IF fixed THEN unmap_mmap_range(Bundle(pte[s]), vmas[s], lo, hi) ELSE Bundle(pte[s])
placed(s, lo, hi, fixed) ==
  IF fixed THEN \A v \in overlapping(vmas[s], lo, hi) : v.kind # "ext" ELSE find_free(s, lo, hi)

(* Private mappings and shared read-only files only register a VMA.            *)
mmap_lazy(s, lo, hi, perm, kind, shared, fixed) ==
  /\ "mmap" \in MOps /\ alive[s] /\ placed(s, lo, hi, fixed)
  /\ shared => kind = "file" /\ "w" \notin perm
  /\ Commit(s, Cleared(s, lo, hi, fixed))
  /\ vmas' = [vmas EXCEPT ![s] = insert(remove_range(@, lo, hi),
                                        VmArea(lo, hi, perm, shared, kind, TRUE, IF kind = "file" THEN 1 ELSE 0))]
  /\ Untie(lo, hi) /\ Touch(s, lo, hi) /\ UNCHANGED <<brk_end, alive>>
(* Shared ones are mapped at once; out of memory leaves a part without VMA.    *)
mmap_shared(s, lo, hi, perm, kind, fixed) ==
  /\ "shared" \in MOps /\ alive[s] /\ placed(s, lo, hi, fixed) /\ (kind = "file" => "w" \in perm)
  /\ LET M == map_zeroed_range(Cleared(s, lo, hi, fixed), lo, hi, perm, IF kind = "file" THEN 2 ELSE 0)
         V == remove_range(vmas[s], lo, hi)
     IN /\ Commit(s, M)
        /\ vmas' = [vmas EXCEPT ![s] =
             IF M.ok THEN insert(V, VmArea(lo, hi, perm, TRUE, kind, FALSE, IF kind = "file" THEN 1 ELSE 0)) ELSE V]
  /\ Untie(lo, hi) /\ Touch(s, lo, hi) /\ UNCHANGED <<brk_end, alive>>
mmap_external(s, lo, hi, perm, kind, fixed) ==
  LET frames == IF kind = "ext" THEN ExtFrame ELSE DevFrame IN
  /\ kind \in MOps /\ alive[s] /\ placed(s, lo, hi, fixed) /\ hi - lo <= Len(frames)
  /\ Commit(s, map_external_pages(Cleared(s, lo, hi, fixed), lo, hi, perm, frames))
  /\ vmas' = [vmas EXCEPT ![s] = insert(remove_range(@, lo, hi), VmArea(lo, hi, perm, TRUE, kind, FALSE, 0))]
  /\ Untie(lo, hi) /\ Touch(s, lo, hi) /\ UNCHANGED <<brk_end, alive>>
munmap(s, lo, hi) ==
  /\ "munmap" \in MOps /\ alive[s] /\ placed(s, lo, hi, TRUE)
  /\ Commit(s, unmap_mmap_range(Bundle(pte[s]), vmas[s], lo, hi))
  /\ vmas' = [vmas EXCEPT ![s] = remove_range(@, lo, hi)]
  /\ Untie(lo, hi) /\ Touch(s, lo, hi) /\ UNCHANGED <<brk_end, alive>>
munmap_external(s, lo, hi) ==
  /\ "ext" \in MOps /\ alive[s] /\ covers_where(vmas[s], lo, hi, {"ext"})
  /\ Commit(s, FoldLeft(unmap_page_to_ppn, Bundle(pte[s]), InOrder(lo, hi)))
  /\ vmas' = [vmas EXCEPT ![s] = remove_range(@, lo, hi)]
  /\ Untie(lo, hi) /\ Touch(s, lo, hi) /\ UNCHANGED <<brk_end, alive>>

(* Page by page; when a copy fails, the pages before it keep their new         *)
(* permission and the VMAs their old one.                                     *)
mprotect_page(M, p, V, perm) ==
  IF ~M.ok \/ ~Resident(M.t, p) THEN [M EXCEPT !.ok = @ /\ (Resident(M.t, p) \/ Vma(V, p).demand)]
  ELSE LET old == M.t[p].perm
           N == IF "w" \in perm /\ ~Vma(V, p).shared THEN ensure_private_for_write(M, p) ELSE M
       IN IF N.ok /\ old # perm THEN [N EXCEPT !.t[p].perm = perm, !.t[p].cow = FALSE] ELSE N
mprotect(s, lo, hi, perm) ==
  /\ "mprotect" \in MOps /\ alive[s] /\ covers_where(vmas[s], lo, hi, {"anon", "heap", "file", "ext", "device"})
  /\ LET one(M, p) == mprotect_page(M, p, vmas[s], perm)
         M == FoldLeft(one, Bundle(pte[s]), InOrder(lo, hi))
     IN Commit(s, M) /\ vmas' = IF M.ok THEN [vmas EXCEPT ![s] = protect_range(@, lo, hi, perm)] ELSE vmas
  /\ touched' = {} /\ UNCHANGED <<brk_end, alive, tied>>

(* mremap of [lo, hi), inside one private VMA and resident, to n pages at dst. *)
mremap_source(s, lo, hi) ==
  \E v \in lookup(vmas[s], lo) : /\ hi <= v.hi /\ ~v.shared /\ v.kind # "heap"
                                 /\ \A p \in Pages(lo, hi) : Resident(pte[s], p)
copy_mapped(M, lo, dst, n) ==
  [M EXCEPT !.d = [f \in AllFrame |-> IF \E i \in 0 .. n - 1 : M.t[dst + i].f = f
                                      THEN @[M.t[lo + (CHOOSE i \in 0 .. n - 1 : M.t[dst + i].f = f)].f] ELSE @[f]]]
moved_vma(s, lo, hi, dst, n) ==
  LET v == duplicate_range(Vma(vmas[s], lo), lo, hi) IN [v EXCEPT !.lo = dst, !.hi = dst + n]
mremap_relocate(s, lo, hi, dst, n, M0, V0, keep_old) ==
  LET M1 == map_zeroed_range(M0, dst, dst + n, Vma(vmas[s], lo).perm, 0)
      M2 == copy_mapped(M1, lo, dst, Min({hi - lo, n}))
      V == IF keep_old THEN V0 ELSE remove_range(V0, lo, hi)
  IN /\ Commit(s, IF ~M1.ok THEN M1 ELSE IF keep_old THEN M2 ELSE unmap_range_with_alloc(M2, lo, hi))
     /\ vmas' = [vmas EXCEPT ![s] = IF M1.ok THEN insert(remove_range(V, dst, dst + n), moved_vma(s, lo, hi, dst, n))
                                    ELSE V0]
     /\ touched' = {s} \X (Pages(lo, hi) \cup Pages(dst, dst + n)) /\ Untie(dst, dst + n)
     /\ UNCHANGED <<brk_end, alive>>
mremap_fixed(s, lo, hi, dst, n, keep_old) ==
  /\ "mremap" \in MOps /\ alive[s] /\ mremap_source(s, lo, hi) /\ dst + n <= NPage + 1
  /\ (dst >= hi \/ dst + n <= lo) /\ covers_where(vmas[s], lo, hi, {"anon", "file"})
  /\ LET kinds == {v.kind : v \in overlapping(vmas[s], dst, dst + n)}
         device == "device" \in kinds
         M == IF device THEN unmap_mmap_range(Bundle(pte[s]), vmas[s], dst, dst + n) ELSE Bundle(pte[s])
         V == IF device THEN remove_range(vmas[s], dst, dst + n) ELSE vmas[s]
     IN /\ device => "ext" \notin kinds
        /\ mremap_relocate(s, lo, hi, dst, n, unmap_range_with_alloc(M, dst, dst + n), V, keep_old)
(* A device in the way is unmapped before the source is looked at.            *)
mremap_refused(s, lo, hi, dst, n) ==
  /\ {"mremap", "device"} \subseteq MOps /\ alive[s] /\ ~mremap_source(s, lo, hi) /\ dst + n <= NPage + 1
  /\ (dst >= hi \/ dst + n <= lo) /\ \A v \in overlapping(vmas[s], lo, hi) : v.kind # "device"
  /\ LET kinds == {v.kind : v \in overlapping(vmas[s], dst, dst + n)} IN "device" \in kinds /\ "ext" \notin kinds
  /\ Commit(s, unmap_mmap_range(Bundle(pte[s]), vmas[s], dst, dst + n))
  /\ vmas' = [vmas EXCEPT ![s] = remove_range(@, dst, dst + n)]
  /\ Touch(s, dst, dst + n) /\ Untie(dst, dst + n) /\ UNCHANGED <<brk_end, alive>>
mremap_move(s, lo, hi, dst, n) ==
  /\ "mremap" \in MOps /\ alive[s] /\ mremap_source(s, lo, hi) /\ n > hi - lo
  /\ lo + n <= NPage + 1 /\ ~find_free(s, hi, lo + n)
  /\ dst + n <= NPage + 1 /\ find_free(s, dst, dst + n)
  /\ mremap_relocate(s, lo, hi, dst, n, Bundle(pte[s]), vmas[s], FALSE)
mremap_in_place(s, lo, hi, n) ==
  /\ "mremap" \in MOps /\ alive[s] /\ mremap_source(s, lo, hi) /\ n # hi - lo /\ lo + n <= NPage + 1
  /\ n > hi - lo => find_free(s, hi, lo + n)
  /\ LET M == IF n < hi - lo THEN unmap_range_with_alloc(Bundle(pte[s]), lo + n, hi)
              ELSE map_zeroed_range(Bundle(pte[s]), hi, lo + n, Vma(vmas[s], lo).perm, 0)
     IN /\ Commit(s, M)
        /\ vmas' = [vmas EXCEPT ![s] = IF M.ok THEN insert(remove_range(@, lo, hi), moved_vma(s, lo, hi, lo, n)) ELSE @]
  /\ touched' = {s} \X Pages(Min({hi, lo + n}), Max({hi, lo + n})) /\ UNCHANGED <<brk_end, alive, tied>>

(* The heap grows page by page and registers its VMAs at the end.              *)
brk_page(M, p, V) ==
  IF ~M.ok \/ (\E v \in lookup(V, p) : v.kind # "heap") THEN [M EXCEPT !.ok = FALSE]
  ELSE IF Resident(M.t, p) THEN M ELSE map_page_with(M, p, {"r", "w"}, 0)
brk(s, new) ==
  LET cur == brk_end[s]
      grow(M, p) == brk_page(M, p, vmas[s])
      reg(V, p) == IF lookup(V, p) # {} THEN V ELSE insert(V, VmArea(p, p + 1, {"r", "w"}, FALSE, "heap", TRUE, 0))
      M == IF new > cur THEN FoldLeft(grow, Bundle(pte[s]), InOrder(cur, new))
           ELSE unmap_range_with_alloc(Bundle(pte[s]), new, cur)
  IN /\ "brk" \in MOps /\ alive[s] /\ new # cur /\ Commit(s, M)
     /\ vmas' = IF ~M.ok THEN vmas
                ELSE [vmas EXCEPT ![s] = IF new > cur THEN FoldLeft(reg, @, InOrder(cur, new))
                                         ELSE remove_range(@, new, cur)]
     /\ brk_end' = IF M.ok THEN [brk_end EXCEPT ![s] = new] ELSE brk_end
     /\ Untie(Min({cur, new}), Max({cur, new})) /\ Touch(s, Min({cur, new}), Max({cur, new})) /\ UNCHANGED alive
madvise_discard(s, lo, hi) ==
  /\ "madvise" \in MOps /\ alive[s]
  /\ \A v \in overlapping(vmas[s], lo, hi) : ~v.shared /\ v.kind # "file"
  /\ Commit(s, unmap_range_with_alloc(Bundle(pte[s]), lo, hi))
  /\ Touch(s, lo, hi) /\ UNCHANGED <<vmas, brk_end, alive, tied>>

-----------------------------------------------------------------------------
(* A store fault is copy-on-write first, whatever the VMA says; what is left   *)
(* is a demand fault of the VMA.  A read-only file page may be the page        *)
(* cache's frame with one more reference; the model loads a copy.              *)
handle_cow_fault(s, p) ==
  /\ "fault" \in MOps /\ alive[s] /\ pte[s][p].cow
  /\ LET M == handle_cow_page(Bundle(pte[s]), p) IN M.ok /\ Commit(s, M)
  /\ touched' = {} /\ UNCHANGED <<vmas, brk_end, alive, tied>>
handle_vma_fault(s, p, access) ==
  /\ "fault" \in MOps /\ alive[s] /\ ~Resident(pte[s], p)
  /\ \E v \in lookup(vmas[s], p) :
       /\ v.demand /\ access \in v.perm
       /\ LET M == map_page_with(Bundle(pte[s]), p, v.perm, IF v.kind = "file" THEN 2 ELSE 0) IN M.ok /\ Commit(s, M)
  /\ touched' = {} /\ UNCHANGED <<vmas, brk_end, alive, tied>>
(* The program writes where its page table lets it.                           *)
Store(s, p) ==
  /\ alive[s] /\ "w" \in pte[s][p].perm /\ data[pte[s][p].f] # 1
  /\ data' = [data EXCEPT ![pte[s][p].f] = 1]
  /\ touched' = IF pte[s][p].f \notin Frame THEN {x \in Space \X Page : pte[x[1]][x[2]].f = pte[s][p].f}
                ELSE IF p \in tied THEN Space \X {p} ELSE {<<s, p>>}
  /\ UNCHANGED <<vmas, pte, ref, brk_end, alive, tied>>

(* fork: pages below k are copied; the rest fails, and the child's part is     *)
(* given back while the parent keeps its copy-on-write marks.                  *)
prepare_cow(e) == IF "w" \in e.perm THEN [e EXCEPT !.perm = @ \ {"w"}, !.cow = TRUE] ELSE e
forked(s, p) == IF \E v \in lookup(vmas[s], p) : v.shared THEN pte[s][p] ELSE prepare_cow(pte[s][p])
inc_refs_all(s) == [f \in AllFrame |-> ref[f] + Cardinality({p \in Page : pte[s][p].f = f})]
inc_refs(s) ==
  [f \in AllFrame |-> ref[f] + Cardinality({p \in Page : pte[s][p].f = f /\ ~non_owned_vma_contains(vmas[s], p)})]
fork_cow(s, c) ==
  /\ "fork" \in MOps /\ alive[s] /\ ~alive[c]
  /\ LET t == [p \in Page |-> forked(s, p)] IN pte' = [pte EXCEPT ![s] = t, ![c] = t]
  /\ ref' = inc_refs(s) /\ alive' = [alive EXCEPT ![c] = TRUE]
  /\ vmas' = [vmas EXCEPT ![c] = vmas[s]] /\ brk_end' = [brk_end EXCEPT ![c] = brk_end[s]]
  /\ tied' = {p \in Page : \E v \in lookup(vmas[s], p) : v.shared}
  /\ touched' = {c} \X Page /\ UNCHANGED data
fork_fails(s, k) ==
  /\ "fork" \in MOps /\ alive[s] /\ \E c \in Space : ~alive[c]
  /\ pte' = [pte EXCEPT ![s] = [p \in Page |-> IF p < k THEN forked(s, p) ELSE @[p]]]
  /\ touched' = {} /\ UNCHANGED <<vmas, ref, data, brk_end, alive, tied>>
destroy(s) ==
  /\ "fork" \in MOps /\ alive[s] /\ \E c \in Space \ {s} : alive[c]
  /\ ref' = [f \in AllFrame |-> ref[f] - Cardinality({p \in Page : /\ pte[s][p].f = f
                                                                   /\ ~non_owned_vma_contains(vmas[s], p)})]
  /\ pte' = [pte EXCEPT ![s] = [p \in Page |-> NoPte]] /\ vmas' = [vmas EXCEPT ![s] = {}]
  /\ alive' = [alive EXCEPT ![s] = FALSE] /\ brk_end' = [brk_end EXCEPT ![s] = 1]
  /\ tied' = {} /\ touched' = {s} \X Page /\ UNCHANGED data

MNext ==
  \/ \E s \in Space, r \in Ranges :
       \/ \E perm \in Prots, fixed \in {"fixed" \in MOps, FALSE} :
            \/ \E kind \in {"anon", "file"} \cap MOps, shared \in BOOLEAN : mmap_lazy(s, r[1], r[2], perm, kind, shared, fixed)
            \/ \E kind \in {"anon", "file"} \cap MOps : mmap_shared(s, r[1], r[2], perm, kind, fixed)
            \/ \E kind \in {"ext", "device"} : mmap_external(s, r[1], r[2], perm, kind, fixed)
       \/ munmap(s, r[1], r[2]) \/ munmap_external(s, r[1], r[2])
       \/ \E perm \in Prots : mprotect(s, r[1], r[2], perm)
       \/ \E n \in Page : \/ \E dst \in Page : \/ \E keep \in BOOLEAN : mremap_fixed(s, r[1], r[2], dst, n, keep)
                                              \/ mremap_refused(s, r[1], r[2], dst, n)
                                              \/ mremap_move(s, r[1], r[2], dst, n)
                          \/ mremap_in_place(s, r[1], r[2], n)
       \/ madvise_discard(s, r[1], r[2])
  \/ \E s \in Space, p \in Page :
       \/ handle_cow_fault(s, p) \/ (\E a \in {"r", "w"} : handle_vma_fault(s, p, a)) \/ Store(s, p)
       \/ brk(s, p) \/ fork_fails(s, p + 1)
  \/ \E s, c \in Space : fork_cow(s, c)
  \/ \E s \in Space : destroy(s)
MSpec == MInit /\ [][MNext]_mvars

-----------------------------------------------------------------------------
MTypeOK ==
  /\ alive \in [Space -> BOOLEAN] /\ brk_end \in [Space -> Page] /\ tied \subseteq Page
  /\ ref \in [AllFrame -> Nat] /\ data \in [AllFrame -> 0 .. 2] /\ touched \subseteq Space \X Page
  /\ \A s \in Space : /\ pte[s] \in [Page -> [f : AllFrame \cup {NoFrame}, perm : Perms, cow : BOOLEAN]]
                      /\ \A v \in vmas[s] : <<v.lo, v.hi>> \in Ranges /\ v.perm \in Perms

(* The count of every frame is the number of the page-table entries that own   *)
(* it, and one for the segment or the device that does: no frame is freed      *)
(* while a table maps it, none is leaked, across failed forks and maps.        *)
Owners(f) == {sp \in Space \X Page : /\ pte[sp[1]][sp[2]].f = f
                                     /\ ~non_owned_vma_contains(vmas[sp[1]], sp[2])}
FrameCounts == \A f \in AllFrame : ref[f] = Cardinality(Owners(f)) + (IF f \in Frame THEN 0 ELSE 1)

(* The VMAs of a space do not overlap and none could be merged with its        *)
(* neighbour: what remove_range, protect_range and insert leave is canonical.  *)
VmaCanonical ==
  \A s \in Space : \A a, b \in vmas[s] : a # b => (a.hi <= b.lo \/ b.hi <= a.lo) /\ ~mergeable_with(a, b)

(* A page that parent and child share is one frame for both, and a private     *)
(* page that is writable without a fault is nobody else's.                     *)
SharedTogether ==
  \A s, c \in Space : \A p, q \in Page :
    /\ (s # c /\ alive[s] /\ alive[c] /\ p \in tied /\ (\E v \in lookup(vmas[s], p) : v.kind = "anon"))
         => pte[s][p].f = pte[c][p].f
    /\ ("w" \in pte[s][p].perm /\ <<s, p>> # <<c, q>> /\ pte[s][p].f = pte[c][q].f)
         => \A v \in lookup(vmas[s], p) : v.shared

(* What the program of s finds at page p: the attributes of its mapping and    *)
(* the contents, those a fault would bring if the page is not resident.        *)
View(s, p) ==
  IF lookup(vmas[s], p) = {} THEN <<>>
  ELSE LET v == Vma(vmas[s], p)
       IN <<v.shared, v.kind, v.demand, IF v.kind = "file" THEN v.off + p - v.lo ELSE 0,
            IF Resident(pte[s], p) THEN data[pte[s][p].f] ELSE IF v.kind = "file" THEN 2 ELSE 0>>
(* No call changes what any program finds at a page the call was not about,    *)
(* whichever space it is in and however the page is held: faults, forks,       *)
(* protections and calls on neighbouring pages are invisible; and a child      *)
(* starts with its parent's view.                                             *)
OthersUntouched ==
  /\ \A s \in Space, p \in Page : (alive[s] /\ <<s, p>> \notin touched') => View(s, p)' = View(s, p)
  /\ \A c \in Space : (~alive[c] /\ alive'[c]) => \E s \in Space : alive[s] /\ \A p \in Page : View(c, p)' = View(s, p)
Isolated == [][OthersUntouched]_mvars

(* The page table never allows what the VMA forbids.                          *)
ProtectionHolds ==
  \A s \in Space, p \in Page : \A v \in lookup(vmas[s], p) : pte[s][p].perm \subseteq v.perm
=============================================================================
