-------------------------------- MODULE Elf --------------------------------
(***************************************************************************)
(* Program loading: the ELF loader of mm/impl-sv39 (kernel_elf.rs) in its     *)
(* three ways to map a segment, the shebang chain in front of it and the      *)
(* initial user stack behind it.  Addresses are bytes of small pages; a byte  *)
(* of a file is its offset plus the tag of its image, so that it is never 0   *)
(* and never a byte of another file.                                         *)
(***************************************************************************)
EXTENDS Integers, Sequences, FiniteSets, TLC, SequencesExt

CONSTANTS Image,       \* the program files: records of kind, tag, len, segs, entry, interp
          Interp,      \* the dynamic linker, a record of the same kind
          PageSize,
          PieBase, InterpBase,           \* byte addresses
          KernelPages,                   \* the trampoline window
          StackTop, StackPages, Premap,  \* page numbers
          Gap, MmapBase,                 \* USER_HEAP_MMAP_GAP, PREFERRED_MMAP_BASE, in pages
          Ways,        \* "lazy", "eager" (from_elf_path) and "bytes" (from_elf_bytes)
          Frames, Pools,                 \* free frames, and zeroed frames of the pool, at first
          Programs, Depth,               \* files a shebang names; MAX_INTERPRETER_RECURSION
          Argvs, Envps, Auxv, Room       \* strings in units of 16 bytes; auxv; words of stack

VARIABLES ld,      \* the load under way
          space,   \* the new address space: page table, VMAs, frames left
          ex,      \* the shebang chain of the last exec
          stack    \* the initial stack of the last exec
evars == <<ld, space, ex, stack>>

Empty == [pte |-> <<>>, vma |-> <<>>, free |-> 0, pool |-> 0, lost |-> 0, err |-> "", stop |-> FALSE]
NoLoad == [pc |-> "idle", way |-> "lazy", img |-> Interp, at |-> 1, bias |-> 0, min |-> 0, max |-> 0,
           entry |-> 0, prog |-> {}, layout |-> {}]
EInit ==
  /\ ld = NoLoad
  /\ \E f \in Frames, z \in Pools : space = [Empty EXCEPT !.free = f, !.pool = z]
  /\ ex = {} /\ stack = {}

FloorPage(a) == a \div PageSize
CeilPage(a) == (a + PageSize - 1) \div PageSize
Run(a, b) == [i \in 1 .. (IF b > a THEN b - a ELSE 0) |-> a + i - 1]   \* the pages from a up to b
Zero == [k \in 1 .. PageSize |-> 0]
Byte(img, off) == IF off < img.len THEN img.tag + off ELSE 0
perm_from_pf(flags) == {"u"} \cup (IF flags = {} THEN {"r"} ELSE flags)
executable_load_bias(kind) == IF kind = "dyn" THEN PieBase ELSE 0
Perm(s) == perm_from_pf(s.flags)

(***************************************************************************)
(* Pages of the new space.                                                   *)
(***************************************************************************)
Fails(S, e) == [S EXCEPT !.err = IF @ = "" THEN e ELSE @]
(* frame_alloc, zero_phys_page and map_page_to_ppn; a page that is mapped      *)
(* already fails the call after the frame was taken.                         *)
map_new(S, p, perm, data) ==
  IF S.free = 0 THEN Fails(S, "nomem")
  ELSE IF p \in DOMAIN S.pte THEN [Fails(S, "mapped") EXCEPT !.free = @ - 1, !.lost = @ + 1]
  ELSE [S EXCEPT !.free = @ - 1, !.pte = (p :> [perm |-> perm, data |-> data]) @@ @]
(* A page two segments share: permissions are merged, never with the window.  *)
share_page(S, p, perm) ==
  IF "u" \notin S.pte[p].perm THEN Fails(S, "parse") ELSE [S EXCEPT !.pte[p].perm = @ \cup perm]
map_or_share(S, p, perm) == IF p \in DOMAIN S.pte THEN share_page(S, p, perm) ELSE map_new(S, p, perm, Zero)
merge_demand_vma_perm(S, p, perm) == [S EXCEPT !.vma[p].perm = @ \cup perm]
(* What the bytes of page p become when a segment is copied over them.        *)
filled(old, p, s, base, img) ==
  [k \in 1 .. PageSize |->
     LET a == p * PageSize + k - 1
     IN IF a < base \/ a >= base + s.memsz THEN old[k]
        ELSE IF a - base < s.filesz THEN Byte(img, s.off + a - base) ELSE 0]
fill_pages(S, s, base, img) ==
  [S EXCEPT !.pte = [p \in DOMAIN @ |->
     IF p \in FloorPage(base) .. (CeilPage(base + s.memsz) - 1) THEN [@[p] EXCEPT !.data = filled(@, p, s, base, img)]
     ELSE @[p]]]
full_bss_page(p, s, base) == p * PageSize >= base + s.filesz /\ (p + 1) * PageSize <= base + s.memsz

(* from_elf_bytes: full BSS pages are skipped in the first pass and looked up  *)
(* in the second.                                                            *)
map_segment(S, s, base, img) ==
  LET pages == Run(FloorPage(base), CeilPage(base + s.memsz))
      first == FoldLeft(LAMBDA T, p : IF T.err # "" \/ full_bss_page(p, s, base) THEN T
                                      ELSE map_or_share(T, p, Perm(s)), S, pages)
  IN IF s.memsz = 0 \/ first.err # "" THEN first
     ELSE IF \E i \in DOMAIN pages : pages[i] \notin DOMAIN first.pte THEN Fails(first, "notmapped")
     ELSE fill_pages(first, s, base, img)
(* VMAs of pages that are mapped already.                                     *)
register_resident_file_segment(S, s, base) ==
  IF s.memsz = 0 THEN S
  ELSE IF s.off < base % PageSize THEN Fails(S, "parse")
  ELSE [S EXCEPT !.vma =
         [p \in DOMAIN @ |-> IF p \in FloorPage(base) .. (CeilPage(base + s.memsz) - 1) /\ p \in DOMAIN S.pte
                             THEN [@[p] EXCEPT !.perm = @ \cup Perm(s)] ELSE @[p]]
         @@ [p \in (FloorPage(base) .. (CeilPage(base + s.memsz) - 1)) \cap DOMAIN S.pte |->
               [perm |-> Perm(s), demand |-> FALSE, of |-> {}]]]
map_segment_from_path_eager(S, s, base, img) ==
  IF s.memsz = 0 THEN S
  ELSE IF s.filesz > s.memsz THEN Fails(S, "parse")
  ELSE LET first == FoldLeft(LAMBDA T, p : IF T.err # "" THEN T ELSE map_or_share(T, p, Perm(s)), S,
                             Run(FloorPage(base), CeilPage(base + s.memsz)))
       IN IF first.err # "" THEN first
          ELSE IF s.off + s.filesz > img.len THEN Fails(first, "short")
          ELSE register_resident_file_segment(fill_pages(first, s, base, img), s, base)
(* A run of pages nothing is known of becomes one VMA whose loader reads the    *)
(* segment's bytes page by page.                                              *)
register_lazy_segment_run(S, p, s, base, img) ==
  IF s.off < (IF base > p * PageSize THEN base - p * PageSize ELSE 0) THEN Fails(S, "parse")
  ELSE [S EXCEPT !.vma = (p :> [perm |-> Perm(s), demand |-> TRUE,
                                of |-> {[s |-> s, base |-> base, img |-> img]}]) @@ @]
demand_vma_contains(S, p) == p \in DOMAIN S.vma /\ S.vma[p].demand
map_segment_from_path_lazy(S, s, base, img) ==
  IF s.memsz = 0 THEN S
  ELSE IF s.filesz > s.memsz THEN Fails(S, "parse")
  ELSE FoldLeft(LAMBDA T, p :
                  IF T.err # "" THEN T
                  ELSE IF p \in DOMAIN T.pte THEN share_page(T, p, Perm(s))
                  ELSE IF demand_vma_contains(T, p) THEN merge_demand_vma_perm(T, p, Perm(s))
                  ELSE register_lazy_segment_run(T, p, s, base, img),
                S, Run(FloorPage(base), CeilPage(base + s.memsz)))
map_segment_from_path(way, S, s, base, img) ==
  CASE way = "bytes" -> LET T == map_segment(S, s, base, img)
                        IN IF T.err # "" THEN T ELSE register_resident_file_segment(T, s, base)
    [] way = "eager" -> map_segment_from_path_eager(S, s, base, img)
    [] OTHER -> map_segment_from_path_lazy(S, s, base, img)

(* Full BSS pages get a zeroed frame of the pool if there is one and no segment *)
(* has file bytes on the page.  The lazy build gives up at an empty pool, the   *)
(* other one leaves an anonymous VMA.                                         *)
bss_perm(img, bias, p) ==
  UNION {Perm(img.segs[j]) : j \in {j \in DOMAIN img.segs :
           /\ p * PageSize < bias + img.segs[j].va + img.segs[j].memsz
           /\ bias + img.segs[j].va < (p + 1) * PageSize}}
overlaps_file_bytes(img, bias, p) ==
  \E j \in DOMAIN img.segs :
    LET s == img.segs[j]
    IN s.filesz # 0 /\ p * PageSize < bias + s.va + s.filesz /\ bias + s.va < (p + 1) * PageSize
map_bss_page(way, S, img, bias, p) ==
  IF S.stop \/ p \in DOMAIN S.pte \/ overlaps_file_bytes(img, bias, p) THEN S
  ELSE IF S.pool > 0
  THEN [S EXCEPT !.pool = @ - 1, !.pte = (p :> [perm |-> bss_perm(img, bias, p), data |-> Zero]) @@ @]
  ELSE IF way = "lazy" THEN [S EXCEPT !.stop = TRUE]
  ELSE IF demand_vma_contains(S, p) THEN S
  ELSE [S EXCEPT !.vma = (p :> [perm |-> bss_perm(img, bias, p), demand |-> TRUE, of |-> {}]) @@ @]
eager_map_available_bss_pages(way, S, img, bias) ==
  LET bss(s) == IF s.filesz >= s.memsz THEN <<>>
                ELSE Run(CeilPage(bias + s.va + s.filesz), FloorPage(bias + s.va + s.memsz))
      all == FlattenSeq([i \in DOMAIN img.segs |-> bss(img.segs[i])])
  IN [FoldLeft(LAMBDA T, p : map_bss_page(way, T, img, bias, p), S, all) EXCEPT !.stop = FALSE]

(***************************************************************************)
(* The load: one action for each of its calls.                               *)
(***************************************************************************)
Fail(S) == /\ ld' = [ld EXCEPT !.pc = "failed"] /\ space' = S
Step(S, next) == IF S.err # "" THEN Fail(S) ELSE ld' = next /\ space' = S
parse_elf_header(img) == img.kind \in {"exec", "dyn"} /\ Len(img.segs) > 0
map_kernel_trampoline_window == [p \in KernelPages |-> [perm |-> {"x"}, data |-> Zero]]
(* The header is read and checked, the space is made and gets the window.      *)
Begin(way, img) ==
  /\ ld.pc = "idle"
  /\ ld' = [NoLoad EXCEPT !.pc = IF parse_elf_header(img) THEN "segments" ELSE "failed",
                          !.way = way, !.img = img, !.bias = executable_load_bias(img.kind), !.min = -1]
  /\ space' = [space EXCEPT !.pte = map_kernel_trampoline_window, !.vma = <<>>, !.err = ""]
  /\ ex' = {} /\ stack' = {}
from_elf_path(way, img) == way # "bytes" /\ Begin(way, img)
from_elf_bytes(way, img) == way = "bytes" /\ Begin(way, img)
map_load_segments_from_path_at ==
  /\ ld.pc = "segments" /\ ld.at <= Len(ld.img.segs)
  /\ \E s \in {ld.img.segs[ld.at]} : \E base \in {ld.bias + s.va} :
       Step(map_segment_from_path(ld.way, space, s, base, ld.img),
            [ld EXCEPT !.at = @ + 1, !.max = IF @ > base + s.memsz THEN @ ELSE base + s.memsz,
                       !.min = IF @ # -1 /\ @ < base THEN @ ELSE base])
  /\ UNCHANGED <<ex, stack>>
MapBss ==
  /\ ld.pc = "segments" /\ ld.at > Len(ld.img.segs)
  /\ Step(IF ld.way = "bytes" THEN space ELSE eager_map_available_bss_pages(ld.way, space, ld.img, ld.bias),
          [ld EXCEPT !.pc = IF ld.prog = {} THEN "stack" ELSE "interp"])
  /\ UNCHANGED <<ex, stack>>

(* The stack: pages at its top, one above it, and the signal trampoline.      *)
map_signal_trampoline(S) == map_new(S, StackTop + 1, {"r", "x", "u"}, [Zero EXCEPT ![1] = 1])
map_user_stack(S) ==
  LET T == FoldLeft(LAMBDA R, p : IF R.err # "" THEN R ELSE map_new(R, p, {"r", "w", "u"}, Zero), S,
                    Run(StackTop - Premap, StackTop + 1))
  IN IF T.err # "" THEN T ELSE map_signal_trampoline(T)
Layout ==
  LET heap == CeilPage(ld.max)
  IN [brk |-> heap, brk_max |-> IF heap + Gap > MmapBase THEN heap + Gap ELSE MmapBase,
      bottom |-> StackTop - StackPages]
(* The stack's VMA, and one for every page that has none yet.                  *)
init_user_layout(S, l) ==
  IF \E p \in DOMAIN S.vma : p \in l.bottom .. StackTop THEN Fails(S, "mapped")
  ELSE LET T == [S EXCEPT !.vma = [p \in l.bottom .. StackTop |->
                                     [perm |-> {"r", "w", "u"}, demand |-> TRUE, of |-> {}]] @@ @]
       IN [T EXCEPT !.vma = @ @@ [p \in {q \in DOMAIN T.pte : "u" \in T.pte[q].perm} |->
                                    [perm |-> T.pte[p].perm, demand |-> FALSE, of |-> {}]]]

(* handle_vma_page_fault of a page that is not there: the loader fills a zeroed *)
(* page with what its segment has in the file.                               *)
loaded_page(v, p) ==
  [k \in 1 .. PageSize |->
     LET a == p * PageSize + k - 1
         hit == {o \in v.of : a >= o.base /\ a < o.base + o.s.filesz}
     IN IF hit = {} THEN 0 ELSE LET o == CHOOSE o \in hit : TRUE IN Byte(o.img, o.s.off + a - o.base)]
short_read(v, p) ==
  \E o \in v.of : \E a \in p * PageSize .. (p + 1) * PageSize - 1 :
    a >= o.base /\ a < o.base + o.s.filesz /\ o.s.off + a - o.base >= o.img.len
fault(S, p, access) ==
  IF p \notin DOMAIN S.vma \/ ~S.vma[p].demand \/ access \notin S.vma[p].perm THEN Fails(S, "fault")
  ELSE IF p \in DOMAIN S.pte THEN S
  ELSE IF short_read(S.vma[p], p) THEN Fails(S, "fault")
  ELSE map_new(S, p, S.vma[p].perm, loaded_page(S.vma[p], p))
entry_file_offset_at(img, bias, pc) ==
  LET hit == {i \in DOMAIN img.segs : pc >= bias + img.segs[i].va /\ pc < bias + img.segs[i].va + img.segs[i].memsz}
      s == img.segs[CHOOSE i \in hit : \A j \in hit : i <= j]
  IN IF hit = {} THEN -1 ELSE s.off + pc - bias - s.va
(* The first instruction is compared with the file; the lazy build brings the   *)
(* page in first.                                                            *)
verify_mapped_entry(way, S, img, bias, pc) ==
  LET off == entry_file_offset_at(img, bias, pc)
      p == FloorPage(pc)
      T == IF way = "lazy" /\ p \notin DOMAIN S.pte THEN fault(S, p, "x") ELSE S
  IN IF T.err # "" THEN T
     ELSE IF off = -1 \/ off >= img.len \/ p \notin DOMAIN T.pte THEN Fails(T, "parse")
     ELSE IF T.pte[p].data[(pc % PageSize) + 1] # Byte(img, off) THEN Fails(T, "parse") ELSE T
SetupProgram ==
  /\ ld.pc = "stack"
  /\ \E pc \in {ld.bias + ld.img.entry}, l \in {Layout} :
       IF ld.img.entry = 0 \/ pc < ld.min \/ pc >= ld.max THEN Fail(Fails(space, "parse"))
       ELSE \E T \in {map_user_stack(space)} :
              IF T.err # "" THEN Fail(T)
              ELSE IF l.brk_max <= l.brk \/ l.brk_max >= l.bottom THEN Fail(Fails(T, "parse"))
              ELSE \E U \in {init_user_layout(T, l)} :
                     IF U.err # "" THEN Fail(U)
                     ELSE Step(verify_mapped_entry(ld.way, U, ld.img, ld.bias, pc),
                               [ld EXCEPT !.pc = IF ld.way # "bytes" /\ ld.img.interp THEN "open" ELSE "loaded",
                                          !.entry = pc, !.layout = {l}])
  /\ UNCHANGED <<ex, stack>>
(* The dynamic linker is mapped at its own base and verified like the program. *)
OpenInterp ==
  /\ ld.pc = "open"
  /\ ld' = [ld EXCEPT !.pc = "segments", !.img = Interp, !.at = 1, !.bias = InterpBase,
                      !.prog = {[img |-> ld.img, bias |-> ld.bias, entry |-> ld.entry]}]
  /\ UNCHANGED <<space, ex, stack>>
VerifyInterp ==
  /\ ld.pc = "interp"
  /\ \E pc \in {InterpBase + ld.img.entry} :
       Step(verify_mapped_entry(ld.way, space, ld.img, InterpBase, pc), [ld EXCEPT !.pc = "loaded", !.entry = pc])
  /\ UNCHANGED <<ex, stack>>
(* The program touches a page it may touch.                                   *)
Touch(p, access) ==
  /\ ld.pc = "loaded" /\ p \in DOMAIN space.vma /\ p \notin DOMAIN space.pte
  /\ \E S \in {fault(space, p, access)} : S.err = "" /\ space' = S
  /\ UNCHANGED <<ld, ex, stack>>
(* The space is dropped, by a failed load or at exit, with its frames.         *)
DropSpace ==
  /\ ld.pc \in {"failed", "loaded"}
  /\ ld' = NoLoad
  /\ space' = [space EXCEPT !.free = @ + Cardinality(DOMAIN space.pte \ KernelPages), !.pte = <<>>, !.vma = <<>>,
                            !.err = ""]
  /\ UNCHANGED <<ex, stack>>

(***************************************************************************)
(* Shebang scripts.  A program is an ELF file, a script that names an         *)
(* interpreter with arguments, a text without one, or neither.                *)
(***************************************************************************)
busybox(n) == n \in {"/glibc/busybox", "/musl/busybox", "/busybox"}
busybox_path_for_script(f) == f.libc   \* "" outside of the two test trees
resolve_script_interpreter(f) ==
  CASE f.kind = "script" -> [to |-> IF f.to = "/busybox" /\ f.libc # "" THEN f.libc ELSE f.to, args |-> f.args]
    [] f.kind = "text" /\ f.libc # "" -> [to |-> busybox_path_for_script(f), args |-> <<"sh">>]
    [] OTHER -> [to |-> "", args |-> <<>>]
build_interpreted_argv(path, r, argv) ==
  (IF busybox(r.to) THEN (IF r.args = <<>> THEN <<"sh">> ELSE r.args) ELSE <<r.to>> \o r.args)
    \o <<path>> \o (IF Len(argv) > 1 THEN Tail(argv) ELSE <<>>)
load_program_from_path_rec(path, argv) ==
  LET step(c) ==
        IF c.end # "" THEN c
        ELSE IF c.path \notin DOMAIN Programs THEN [c EXCEPT !.end = "missing"]
        ELSE LET f == Programs[c.path]
                 r == resolve_script_interpreter(f)
             IN IF f.kind = "elf" THEN [c EXCEPT !.end = "elf", !.argv = IF @ = <<>> THEN <<c.path>> ELSE @]
                ELSE IF r.to = "" THEN [c EXCEPT !.end = "noexec"]
                ELSE [c EXCEPT !.path = r.to, !.argv = build_interpreted_argv(c.path, r, @)]
      walk[n \in 0 .. Depth] == IF n = 0 THEN [path |-> path, argv |-> argv, end |-> ""] ELSE step(walk[n - 1])
  IN IF walk[Depth].end = "" THEN [walk[Depth] EXCEPT !.end = "recursion"] ELSE walk[Depth]
ResolveScript(path, argv) ==
  /\ ld.pc = "idle"
  /\ ex' = {[path |-> path, given |-> argv, got |-> load_program_from_path_rec(path, argv)]}
  /\ stack' = {} /\ UNCHANGED <<ld, space>>

(***************************************************************************)
(* prepare_elf_user_stack, in words; a string takes whole units of two words.  *)
(***************************************************************************)
push_words(s, ws) ==
  IF s.sp - Len(ws) < 0 THEN [s EXCEPT !.ok = FALSE]
  ELSE [s EXCEPT !.sp = @ - Len(ws), !.mem = [i \in s.sp - Len(ws) .. s.sp - 1 |-> ws[i - (s.sp - Len(ws)) + 1]] @@ @]
push_to_user_stack(s, id, units) ==
  [push_words(s, [k \in 1 .. 2 * units |-> id]) EXCEPT !.at = Append(@, s.sp - 2 * units)]
push_user_word(s, w) == push_words(s, <<w>>)
push_all(s, ws) == FoldLeft(LAMBDA t, w : push_user_word(t, w), s, Reverse(ws))
prepare_elf_user_stack(argv, envp) ==
  LET strings == argv \o envp \o <<1>>    \* and the 16 bytes of AT_RANDOM
      put == FoldLeft(LAMBDA t, i : push_to_user_stack(t, 100 + i, strings[i]),
                      [sp |-> Room, mem |-> <<>>, at |-> <<>>, ok |-> TRUE], Run(1, Len(strings) + 1))
      count == 1 + Len(argv) + 1 + Len(envp) + 1 + 2 * Len(Auxv)
      padded == IF count % 2 # 0 THEN push_user_word(put, 0) ELSE put
      aux == FoldLeft(LAMBDA t, pair : push_words(t, pair), padded, Reverse(Auxv))
      envs == push_all(push_user_word(aux, 0), SubSeq(put.at, Len(argv) + 1, Len(argv) + Len(envp)))
      args == push_all(push_user_word(envs, 0), SubSeq(put.at, 1, Len(argv)))
  IN push_user_word(args, Len(argv))
PrepareStack(argv, envp) ==
  /\ ld.pc = "idle"
  /\ stack' = {[argv |-> argv, envp |-> envp, got |-> prepare_elf_user_stack(argv, envp)]}
  /\ ex' = {} /\ UNCHANGED <<ld, space>>

ENext ==
  \/ \E way \in Ways, img \in Image : from_elf_path(way, img) \/ from_elf_bytes(way, img)
  \/ map_load_segments_from_path_at \/ MapBss \/ SetupProgram \/ OpenInterp \/ VerifyInterp \/ DropSpace
  \/ \E p \in DOMAIN space.vma, access \in {"r", "w", "x"} : Touch(p, access)
  \/ \E path \in DOMAIN Programs : \E argv \in {<<>>, <<path>>, <<path, "x">>, <<path, "x", "y">>} :
       ResolveScript(path, argv)
  \/ \E argv \in Argvs, envp \in Envps : PrepareStack(argv, envp)
ESpec == EInit /\ [][ENext]_evars

-----------------------------------------------------------------------------
ETypeOK ==
  /\ ld.pc \in {"idle", "segments", "stack", "open", "interp", "loaded", "failed"}
  /\ space.free >= 0 /\ space.pool >= 0 /\ space.lost >= 0
  /\ \A p \in DOMAIN space.pte : DOMAIN space.pte[p].data = 1 .. PageSize
  /\ ld.pc # "failed" => space.err = ""

(* The images a load has mapped.                                             *)
Mapped == {[img |-> ld.img, bias |-> ld.bias]} \cup {[img |-> o.img, bias |-> o.bias] : o \in ld.prog}
On(m, p) == {i \in DOMAIN m.img.segs :
               /\ m.img.segs[i].memsz > 0 /\ p * PageSize < m.bias + m.img.segs[i].va + m.img.segs[i].memsz
               /\ m.bias + m.img.segs[i].va < (p + 1) * PageSize}
PagesOf(m) == UNION {FloorPage(m.bias + m.img.segs[i].va) ..
                       (CeilPage(m.bias + m.img.segs[i].va + m.img.segs[i].memsz) - 1) : i \in DOMAIN m.img.segs}
(* What the program should find at an address: the byte of the segment there,  *)
(* zero behind its file part and between segments.                            *)
Expected(m, a) ==
  LET in == {i \in DOMAIN m.img.segs : a >= m.bias + m.img.segs[i].va /\ a < m.bias + m.img.segs[i].va + m.img.segs[i].filesz}
  IN IF in = {} THEN 0
     ELSE LET s == m.img.segs[CHOOSE i \in in : TRUE] IN m.img.tag + s.off + a - m.bias - s.va
Found(p) == IF p \in DOMAIN space.pte THEN space.pte[p].data ELSE loaded_page(space.vma[p], p)
(* kernel_elf.rs: whichever way a program was mapped, what it finds in memory,   *)
(* touched or not, is what its segments say, and each page has the permissions  *)
(* of the segments on it, in the page table as in the VMAs.                    *)
ImageExact ==
  ld.pc = "loaded" => \A m \in Mapped : \A p \in PagesOf(m) : On(m, p) # {} =>
    /\ p \in DOMAIN space.pte \/ demand_vma_contains(space, p)
    /\ p \in DOMAIN space.vma
    /\ \A k \in 1 .. PageSize : Found(p)[k] = Expected(m, p * PageSize + k - 1)
    /\ \E perm \in {UNION {Perm(m.img.segs[i]) : i \in On(m, p)}} :
         space.vma[p].perm = perm /\ (p \in DOMAIN space.pte => space.pte[p].perm = perm)

(* from_elf_path: image, heap, stack and linker keep apart, and nothing of the   *)
(* kernel's window is open to the program.                                    *)
LayoutDisjoint ==
  ld.pc = "loaded" => \A l \in ld.layout :
    LET heap == l.brk .. (l.brk_max - 1)
        stk == l.bottom .. (StackTop + 1)
    IN /\ \A m \in Mapped : PagesOf(m) \cap (heap \cup stk \cup KernelPages) = {}
       /\ heap \cap stk = {}
       /\ \A m, n \in Mapped : m # n => PagesOf(m) \cap PagesOf(n) = {}
       /\ \A p \in KernelPages : space.pte[p].perm = {"x"}

(* A failed or finished load gives all of its frames back.                     *)
FramesReturned == /\ space.lost = 0
                  /\ ld.pc = "idle" => space.free + space.pool \in {f + z : f \in Frames, z \in Pools}

(* The chain of interpreters: what the user passed behind argv[0] arrives at the *)
(* end of the arguments, behind the path of the script.                        *)
ArgumentsKept ==
  \A e \in ex : e.got.end = "elf" =>
    LET rest == IF Len(e.given) > 1 THEN Tail(e.given) ELSE <<>>
        n == Len(e.got.argv) - Len(rest)
    IN /\ SubSeq(e.got.argv, n + 1, Len(e.got.argv)) = rest
       /\ e.got.path # e.path => n > 1 /\ e.got.argv[n] = e.path
       /\ e.got.path \in DOMAIN Programs /\ Programs[e.got.path].kind = "elf"

(* The stack a program starts on: aligned, with argc, the two vectors and their  *)
(* terminators and the auxiliary vector in this order, and every pointer at the  *)
(* string it stands for, which nothing pushed later has overwritten.            *)
StackAsPromised ==
  \A s \in stack : s.got.ok =>
    LET sp == s.got.sp
        n == Len(s.argv)
        e == Len(s.envp)
        m == s.got.mem
    IN /\ sp % 2 = 0 /\ m[sp] = n
       /\ \A i \in 1 .. n : m[m[sp + i]] = 100 + i /\ m[m[sp + i] + 2 * s.argv[i] - 1] = 100 + i
       /\ m[sp + n + 1] = 0
       /\ \A i \in 1 .. e : m[m[sp + n + 1 + i]] = 100 + n + i
       /\ m[sp + n + e + 2] = 0
       /\ \A i \in 1 .. Len(Auxv) : /\ m[sp + n + e + 2 + 2 * i - 1] = Auxv[i][1]
                                    /\ m[sp + n + e + 2 + 2 * i] = Auxv[i][2]

(* A well-formed program loads when there is memory.  One with a full page of    *)
(* BSS does not from memory: the page is skipped and then missed.              *)
WellFormedLoads == ld.pc = "failed" => space.err \in {"nomem", ""}
=============================================================================
