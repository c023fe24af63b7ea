----------------------------- MODULE PageCache -----------------------------
(***************************************************************************)
(* The global page cache of regular files (vfs-impl/impl-page-cache) under    *)
(* the file handles that use it (impl-fs-bridge paged_handle).  A fixed pool   *)
(* of slots holds pages of files; a slot is free, in the clean or the dirty    *)
(* LRU list, or in the hands of a thread that writes its page back.  The lock  *)
(* `state` covers the pool, the lock of a file's entry covers its logical      *)
(* size and its table of dirty pages, and every read or write of the disk is   *)
(* made with neither: each critical section and each disk access is a step of  *)
(* its own.  A cell of data carries the version of the write that produced     *)
(* it, 0 being a zero byte.                                                   *)
(***************************************************************************)
EXTENDS Integers, Sequences, SequencesExt, FiniteSets

CONSTANTS PThread,      \* threads in the file system calls
          PFile,        \* file keys, naturals above 0
          NPage,        \* pages of a file
          PageSize,     \* cells of a page (FILE_PAGE_SIZE)
          NSlot,        \* slots of the pool (FILE_PAGE_CACHE_CAPACITY)
          MaxVersion,   \* bound on the writes of a behaviour
          PathKeyed,    \* keys are paths, not stable node numbers
          POps          \* the calls the threads make

VARIABLES cache, files, disk, th, want, excused
pcVars == <<cache, files, disk, th, want, excused>>

Page == 0 .. NPage - 1
Slot == 0 .. NSlot - 1
Cell == 0 .. NPage * PageSize - 1
NoKey == <<0, 0>>
Zeros == [i \in 0 .. PageSize - 1 |-> 0]
NoVictim == [slot |-> -1, key |-> NoKey, version |-> 0, data |-> Zeros, size |-> 0]
Idle == [pc |-> "idle", call |-> "none", f |-> 0, pos |-> 0, end |-> 0, size |-> 0, zero |-> FALSE, page |-> 0,
         buf |-> Zeros, vic |-> NoVictim, ret |-> "idle", slot |-> -1, todo |-> <<>>, run |-> <<>>,
         batch |-> <<>>, done |-> {}, ahead |-> FALSE, g |-> 0, rest |-> <<>>]

PcInit ==
  /\ cache = [frame |-> [s \in Slot |-> [key |-> NoKey, dirty |-> FALSE, version |-> 0, data |-> Zeros]],
              clean |-> <<>>, dirty |-> <<>>, free |-> [i \in 1 .. NSlot |-> NSlot - i], next |-> 0]
  /\ files = [f \in PFile |-> [entry |-> FALSE, size |-> 0, dirty |-> [p \in Page |-> 0], last |-> -1,
                               refs |-> 0, held |-> {}]]
  /\ disk = [f \in PFile |-> [size |-> 0, cell |-> [i \in Cell |-> 0]]]
  /\ th = [t \in PThread |-> Idle]
  /\ want = disk /\ excused = {}

(***************************************************************************)
(* GlobalCacheState: operators on the pool.                                  *)
(***************************************************************************)
Key(f, p) == <<f, p>>
index(c, k) == {s \in Slot : c.frame[s].key = k}
remove_from_lru(c, s) == [c EXCEPT !.clean = SelectSeq(@, LAMBDA x : x # s),
                                   !.dirty = SelectSeq(@, LAMBDA x : x # s)]
push_lru_back(c, s) == IF c.frame[s].dirty THEN [c EXCEPT !.dirty = Append(@, s)]
                                           ELSE [c EXCEPT !.clean = Append(@, s)]
touch_lru(c, s) == push_lru_back(remove_from_lru(c, s), s)
mark_dirty(c, s) ==
  LET v == c.next + 1
      d == [c EXCEPT !.next = v, !.frame[s].dirty = TRUE, !.frame[s].version = v]
  IN push_lru_back(remove_from_lru(d, s), s)
mark_clean(c, s) ==
  LET d == [remove_from_lru(c, s) EXCEPT !.frame[s].dirty = FALSE]
  IN IF ~c.frame[s].dirty THEN c
     ELSE IF d.frame[s].key = NoKey THEN d ELSE push_lru_back(d, s)
(* pop_free_or_lru_index: a free slot, else the oldest clean one, else the      *)
(* oldest dirty one; -1 when every slot is being written back.                 *)
victim_of(c) == IF c.free # <<>> THEN Last(c.free)
                ELSE IF c.clean # <<>> THEN Head(c.clean)
                ELSE IF c.dirty # <<>> THEN Head(c.dirty) ELSE -1
pop_free_or_lru_index(c) == IF c.free # <<>> THEN [c EXCEPT !.free = Front(@)]
                            ELSE remove_from_lru(c, victim_of(c))
detach_slot_for_reuse(c, s) == [remove_from_lru(c, s) EXCEPT !.frame[s].key = NoKey, !.frame[s].dirty = FALSE]
return_detached_slot(c, s) == IF s \in Range(c.free) THEN c ELSE [c EXCEPT !.free = Append(@, s)]
install(c, s, k, data) ==
  touch_lru([c EXCEPT !.frame[s] = [key |-> k, dirty |-> FALSE, version |-> 0, data |-> data]], s)
\* Mutant: the slot of a dropped page is not given back.
drop_slot_lost(c, s) ==
  [remove_from_lru(c, s) EXCEPT !.frame[s].key = NoKey, !.frame[s].dirty = FALSE, !.frame[s].version = 0]
drop_slot(c, s) ==
  [remove_from_lru(c, s) EXCEPT !.frame[s].key = NoKey, !.frame[s].dirty = FALSE, !.frame[s].version = 0,
                                !.free = Append(@, s)]
drop_slots(c, S) == FoldLeft(LAMBDA d, s : drop_slot(d, s), c, SetToSortSeq(S, LAMBDA a, b :
                      c.frame[a].key[1] < c.frame[b].key[1]
                      \/ (c.frame[a].key[1] = c.frame[b].key[1] /\ c.frame[a].key[2] < c.frame[b].key[2])))
clear_in_place(c) ==
  [c EXCEPT !.frame = [s \in Slot |-> [@[s] EXCEPT !.key = NoKey, !.dirty = FALSE, !.version = 0]],
            !.clean = <<>>, !.dirty = <<>>, !.free = [i \in 1 .. NSlot |-> NSlot - i]]

(***************************************************************************)
(* The entry of a file and the disk under it.                                *)
(***************************************************************************)
PMin(a, b) == IF a < b THEN a ELSE b
PMax(a, b) == IF a < b THEN b ELSE a
NoDirty == [p \in Page |-> 0]
get_file_entry_for_key(f, initial) ==
  IF files[f].entry THEN [files EXCEPT ![f].size = PMax(@, initial)]
  ELSE [files EXCEPT ![f].entry = TRUE, ![f].size = initial, ![f].dirty = NoDirty, ![f].last = -1]
(* A handle falls back to the size the disk had when it was opened or last       *)
(* truncated; here the disk's, which no other path changes while it is open.     *)
current_size(f) == IF files[f].entry THEN files[f].size ELSE disk[f].size
logical_size_for_key(f, fallback) == IF files[f].entry THEN files[f].size ELSE fallback
read_range(f, p, size) ==
  [i \in 0 .. PageSize - 1 |->
     IF p * PageSize + i < PMin(size, disk[f].size) THEN disk[f].cell[p * PageSize + i] ELSE 0]
(* The first n cells of consecutive pages starting at page p, as one write.     *)
write_range(f, p, pages, size) ==
  LET end == PMin((p + Len(pages)) * PageSize, size)
  IN [disk EXCEPT ![f] =
        [size |-> PMax(@.size, end),
         cell |-> [i \in Cell |-> IF i \in p * PageSize .. end - 1
                                  THEN pages[(i \div PageSize) - p + 1][i % PageSize] ELSE @.cell[i]]]]
(* The back end may refuse a write; a page of a node no handle holds cannot be   *)
(* written at all (stable_node_for_cache_key).                                 *)
MayFail(f) == "fail" \in POps \/ (~PathKeyed /\ files[f].held = {})
MayWrite(f) == PathKeyed \/ files[f].held # {}

(***************************************************************************)
(* Steps of a thread.  go(t, r) gives it the record r.                       *)
(***************************************************************************)
go(t, r) == th' = [th EXCEPT ![t] = r]
Return(t) == go(t, Idle)
At(t, pc) == th[t].pc = pc
Me(t) == Key(th[t].f, th[t].page)

Begin(t, call, f, pos, end) ==
  /\ At(t, "idle") /\ call \in POps
  /\ call \notin {"overwrite", "rename", "reset"} => t \in files[f].held
  /\ go(t, [Idle EXCEPT !.call = call, !.f = f, !.pos = pos, !.end = end, !.pc = call])
  /\ UNCHANGED <<cache, files, disk, want, excused>>

open(t, f) ==
  /\ At(t, "idle") /\ "open" \in POps /\ t \notin files[f].held
  /\ files' = [files EXCEPT ![f].refs = @ + 1, ![f].held = @ \cup {t}]
  /\ UNCHANGED <<cache, disk, th, want, excused>>

(* read_key and write_key: the size is read, then the entry is found or made.    *)
ReadStart(t) ==
  /\ At(t, "read") /\ LET size == current_size(th[t].f) IN
     IF th[t].pos >= size THEN Return(t)
     ELSE go(t, [th[t] EXCEPT !.size = size, !.end = PMin(@, size), !.pc = "read_entry"])
  /\ UNCHANGED <<cache, files, disk, want, excused>>
ReadEntry(t) ==
  /\ At(t, "read_entry")
  /\ files' = get_file_entry_for_key(th[t].f, th[t].size)
  /\ go(t, [th[t] EXCEPT !.page = th[t].pos \div PageSize, !.pc = "find", !.ret = "copy",
                         !.ahead = (th[t].pos \div PageSize = files'[th[t].f].last + 1 /\ files'[th[t].f].last # -1)])
  /\ UNCHANGED <<cache, disk, want, excused>>
ReadCopy(t) ==
  /\ At(t, "copy")
  /\ LET r == th[t] next == (r.page + 1) * PageSize
         start == r.pos \div PageSize IN
     \/ /\ index(cache, Me(t)) = {} /\ go(t, [r EXCEPT !.pc = "find"]) /\ UNCHANGED files
     \/ /\ index(cache, Me(t)) # {} /\ next < r.end
        /\ go(t, [r EXCEPT !.page = @ + 1, !.pc = "find"]) /\ UNCHANGED files
     \/ /\ index(cache, Me(t)) # {} /\ next >= r.end
        /\ files' = [files EXCEPT ![r.f].last = (r.end - 1) \div PageSize]
        /\ IF r.ahead /\ (start + 1) * PageSize < r.size
           THEN go(t, [r EXCEPT !.page = start + 1, !.pc = "find", !.ret = "prefetched"])
           ELSE Return(t)
  /\ UNCHANGED <<cache, disk, want, excused>>
Finish(t) ==
  /\ th[t].pc \in {"prefetched", "flushed"} /\ Return(t) /\ UNCHANGED <<cache, files, disk, want, excused>>

WriteStart(t) ==
  /\ At(t, "write")
  /\ go(t, [th[t] EXCEPT !.size = current_size(th[t].f), !.pc = "write_entry"])
  /\ UNCHANGED <<cache, files, disk, want, excused>>
WriteEntry(t) ==
  /\ At(t, "write_entry")
  /\ files' = get_file_entry_for_key(th[t].f, th[t].size)
  /\ go(t, [th[t] EXCEPT !.pc = "write_page"])
  /\ UNCHANGED <<cache, disk, want, excused>>
(* A page past the end, or one that is written whole, is not read first.         *)
WritePage(t) ==
  /\ At(t, "write_page")
  /\ LET r == th[t] p == r.pos \div PageSize size == files[r.f].size IN
     go(t, [r EXCEPT !.page = p, !.size = size, !.pc = "find", !.ret = "publish",
                     !.zero = (p * PageSize >= size \/ (r.pos % PageSize = 0 /\ r.end >= (p + 1) * PageSize))])
  /\ UNCHANGED <<cache, files, disk, want, excused>>
publish(t) ==
  /\ At(t, "publish") /\ index(cache, Me(t)) # {} /\ cache.next < MaxVersion
  /\ LET r == th[t] s == CHOOSE x \in index(cache, Me(t)) : TRUE
         end == PMin(r.end, (r.page + 1) * PageSize) v == cache.next + 1 IN
     /\ cache' = touch_lru(mark_dirty([cache EXCEPT !.frame[s].data =
                   [i \in DOMAIN @ |-> IF r.page * PageSize + i \in r.pos .. end - 1 THEN v ELSE @[i]]], s), s)
     /\ files' = [files EXCEPT ![r.f].dirty[r.page] = v, ![r.f].size = PMax(@, end)]
     /\ want' = [want EXCEPT ![r.f] = [size |-> PMax(@.size, end),
                   cell |-> [i \in Cell |-> IF i \in r.pos .. end - 1 THEN v ELSE @.cell[i]]]]
     /\ IF end < r.end THEN go(t, [r EXCEPT !.pos = end, !.pc = "write_page"]) ELSE Return(t)
  /\ UNCHANGED <<disk, excused>>
PublishRetry(t) ==
  /\ At(t, "publish") /\ index(cache, Me(t)) = {} /\ go(t, [th[t] EXCEPT !.pc = "find"])
  /\ UNCHANGED <<cache, files, disk, want, excused>>

(***************************************************************************)
(* install_page and install_zero_page.                                       *)
(***************************************************************************)
Found(t) ==
  /\ At(t, "find") \/ At(t, "pop")
  /\ \E s \in index(cache, Me(t)) : cache' = touch_lru(cache, s)
  /\ go(t, [th[t] EXCEPT !.pc = th[t].ret, !.zero = FALSE, !.buf = Zeros])
  /\ UNCHANGED <<files, disk, want, excused>>
Missing(t) ==
  /\ At(t, "find") /\ index(cache, Me(t)) = {}
  /\ go(t, [th[t] EXCEPT !.pc = IF th[t].zero THEN "pop" ELSE "load"])
  /\ UNCHANGED <<cache, files, disk, want, excused>>
Load(t) ==
  /\ At(t, "load")
  /\ go(t, [th[t] EXCEPT !.buf = read_range(th[t].f, th[t].page, th[t].size), !.pc = "pop"])
  /\ UNCHANGED <<cache, files, disk, want, excused>>
Evict(t) ==
  /\ index(cache, Me(t)) = {} /\ victim_of(cache) # -1
  /\ LET s == victim_of(cache) f == cache.frame[s] c == pop_free_or_lru_index(cache) IN
     \/ /\ ~f.dirty
        /\ cache' = install(detach_slot_for_reuse(c, s), s, Me(t), th[t].buf)
        /\ go(t, [th[t] EXCEPT !.pc = th[t].ret, !.zero = FALSE, !.buf = Zeros])
     \/ /\ f.dirty
        /\ cache' = c
        /\ go(t, [th[t] EXCEPT !.pc = "victim_size", !.vic =
                    [slot |-> s, key |-> f.key, version |-> f.version, data |-> f.data, size |-> 0]])
  /\ UNCHANGED <<files, disk, want, excused>>
install_page(t) == At(t, "pop") /\ ~th[t].zero /\ Evict(t)
install_zero_page(t) == At(t, "pop") /\ th[t].zero /\ Evict(t)
VictimSize(t) ==
  /\ At(t, "victim_size")
  /\ LET k == th[t].vic.key IN
     go(t, [th[t] EXCEPT !.vic.size = logical_size_for_key(k[1], (k[2] + 1) * PageSize), !.pc = "victim_write"])
  /\ UNCHANGED <<cache, files, disk, want, excused>>
writeback_evicted_page(t) ==
  /\ At(t, "victim_write")
  /\ LET v == th[t].vic f == v.key[1] p == v.key[2] IN
     \/ /\ p * PageSize >= v.size /\ UNCHANGED disk /\ go(t, [th[t] EXCEPT !.pc = "victim_note"])
     \/ /\ p * PageSize < v.size /\ MayWrite(f)
        /\ disk' = write_range(f, p, <<v.data>>, v.size) /\ go(t, [th[t] EXCEPT !.pc = "victim_note"])
     \/ /\ p * PageSize < v.size /\ MayFail(f) /\ UNCHANGED disk /\ go(t, [th[t] EXCEPT !.pc = "victim_fail"])
  /\ UNCHANGED <<cache, files, want, excused>>
note_page_written_back(t) ==
  /\ At(t, "victim_note")
  /\ LET v == th[t].vic f == v.key[1] p == v.key[2] IN
     files' = IF files[f].entry /\ files[f].dirty[p] = v.version THEN [files EXCEPT ![f].dirty[p] = 0] ELSE files
  /\ go(t, [th[t] EXCEPT !.pc = "victim_done"])
  /\ UNCHANGED <<cache, disk, want, excused>>
still_same(t) == LET v == th[t].vic f == cache.frame[v.slot]
                 IN f.dirty /\ f.version = v.version /\ f.key = v.key
VictimDone(t) ==
  /\ At(t, "victim_done")
  /\ LET s == th[t].vic.slot
         c == detach_slot_for_reuse(mark_clean(cache, s), s)
         out == [th[t] EXCEPT !.pc = th[t].ret, !.vic = NoVictim, !.zero = FALSE, !.buf = Zeros] IN
     \/ /\ ~still_same(t) /\ go(t, [th[t] EXCEPT !.pc = "pop", !.vic = NoVictim]) /\ UNCHANGED cache
     \/ /\ still_same(t) /\ index(cache, Me(t)) # {}
        /\ cache' = touch_lru(return_detached_slot(c, s), CHOOSE x \in index(cache, Me(t)) : TRUE)
        /\ go(t, out)
     \/ /\ still_same(t) /\ index(cache, Me(t)) = {}
        /\ cache' = install(c, s, Me(t), th[t].buf)
        /\ go(t, out)
  /\ UNCHANGED <<files, disk, want, excused>>
(* The error goes to the caller; a prefetch ignores it, a flush keeps its         *)
(* dirty pages.                                                               *)
Failed(t) == IF th[t].call = "close" THEN go(t, [th[t] EXCEPT !.pc = "release", !.vic = NoVictim]) ELSE Return(t)
Excuse(t) == excused' = IF th[t].call = "close" THEN excused \cup {th[t].f} ELSE excused
VictimFail(t) ==
  /\ At(t, "victim_fail")
  /\ cache' = IF still_same(t) THEN touch_lru(cache, th[t].vic.slot) ELSE cache
  /\ Failed(t) /\ Excuse(t)
  /\ UNCHANGED <<files, disk, want>>

(***************************************************************************)
(* flush_key: the dirty pages of a file, run by run.                          *)
(***************************************************************************)
DirtyList(f) == SetToSortSeq({<<p, files[f].dirty[p]>> : p \in {q \in Page : files[f].dirty[q] # 0}},
                             LAMBDA a, b : a[1] < b[1])
(* The first run of consecutive pages of a list.                               *)
RunLength(s) == Cardinality({i \in 1 .. Len(s) : s[i][1] = s[1][1] + i - 1})
(* What follows the flush in a call that begins with one.                       *)
After(r) == CASE r.call = "close" -> "release" [] r.call = "truncate" -> "cut_disk"
              [] r.call \in {"rename", "reset"} -> "next_file" [] OTHER -> "flushed"
FlushStart(t) ==
  /\ th[t].pc \in {"flush", "close", "truncate", "rename", "reset"}
  /\ LET r == th[t] none == ~files[r.f].entry \/ (r.call = "truncate" /\ r.end = 0) IN
     \/ none /\ go(t, [r EXCEPT !.pc = After(r)])
     \/ /\ ~none
        /\ go(t, [r EXCEPT !.todo = DirtyList(r.f), !.size = files[r.f].size, !.pc = "flush_run"])
  /\ UNCHANGED <<cache, files, disk, want, excused>>
FlushRun(t) ==
  /\ At(t, "flush_run")
  /\ LET r == th[t] n == RunLength(r.todo) IN
     IF r.todo = <<>>
     THEN go(t, [r EXCEPT !.pc = After(r), !.ret = "idle"])
     ELSE go(t, [r EXCEPT !.run = SubSeq(r.todo, 1, n), !.todo = SubSeq(@, n + 1, Len(@)),
                          !.batch = <<>>, !.done = {}, !.pc = "flush_slot"])
  /\ UNCHANGED <<cache, files, disk, want, excused>>
(* A page of the run that the cache no longer holds is installed from the disk.  *)
FlushSlot(t) ==
  /\ At(t, "flush_slot")
  /\ LET r == th[t] IN
     IF r.run = <<>> THEN go(t, [r EXCEPT !.pc = "flush_write"])
     ELSE LET p == Head(r.run)[1] S == index(cache, Key(r.f, p)) IN
       IF S # {} THEN go(t, [r EXCEPT !.slot = CHOOSE s \in S : TRUE, !.pc = "flush_copy"])
       ELSE IF p * PageSize < r.size THEN go(t, [r EXCEPT !.page = p, !.pc = "find", !.ret = "flush_slot2"])
       ELSE go(t, [r EXCEPT !.done = @ \cup {Head(r.run)}, !.run = Tail(@)])
  /\ UNCHANGED <<cache, files, disk, want, excused>>
FlushSlot2(t) ==
  /\ At(t, "flush_slot2")
  /\ LET r == th[t] S == index(cache, Me(t)) IN
     IF S # {} THEN go(t, [r EXCEPT !.slot = CHOOSE s \in S : TRUE, !.pc = "flush_copy"])
     ELSE go(t, [r EXCEPT !.run = Tail(@), !.pc = "flush_slot"])
  /\ UNCHANGED <<cache, files, disk, want, excused>>
(* batch is a sequence of [page, data] records; a page that is clean, newer or   *)
(* gone is left out and counts as flushed.                                     *)
FlushCopy(t) ==
  /\ At(t, "flush_copy")
  /\ LET r == th[t] h == Head(r.run) f == cache.frame[r.slot]
         skip == h[1] * PageSize >= r.size \/ ~f.dirty \/ f.version # h[2] \/ f.key # Key(r.f, h[1])
     IN go(t, [r EXCEPT !.run = Tail(@), !.done = @ \cup {h}, !.slot = -1, !.pc = "flush_slot",
                        !.batch = IF skip THEN @ ELSE Append(@, [page |-> h[1], data |-> f.data])])
  /\ UNCHANGED <<cache, files, disk, want, excused>>
BatchLength(b) == Cardinality({i \in 1 .. Len(b) : b[i].page = b[1].page + i - 1})
FlushWrite(t) ==
  /\ At(t, "flush_write")
  /\ LET r == th[t] n == BatchLength(r.batch) IN
     \/ /\ r.batch = <<>> /\ go(t, [r EXCEPT !.pc = "flush_clean"]) /\ UNCHANGED <<disk, excused>>
     \/ /\ r.batch # <<>> /\ MayWrite(r.f)
        /\ disk' = write_range(r.f, r.batch[1].page, [i \in 1 .. n |-> r.batch[i].data], r.size)
        /\ go(t, [r EXCEPT !.batch = SubSeq(@, n + 1, Len(@))]) /\ UNCHANGED excused
     \/ /\ r.batch # <<>> /\ MayFail(r.f) /\ Failed(t) /\ Excuse(t) /\ UNCHANGED disk
  /\ UNCHANGED <<cache, files, want>>
CleanSame(c, f, d) ==
  LET S == {s \in index(c, Key(f, d[1])) : c.frame[s].dirty /\ c.frame[s].version = d[2]}
  IN IF S = {} THEN c ELSE mark_clean(c, CHOOSE s \in S : TRUE)
flush_dirty_run(t) ==
  /\ At(t, "flush_clean")
  /\ cache' = FoldLeft(LAMBDA c, d : CleanSame(c, th[t].f, d), cache,
                       SetToSortSeq(th[t].done, LAMBDA a, b : a[1] < b[1]))
  /\ go(t, [th[t] EXCEPT !.pc = "flush_untrack"])
  /\ UNCHANGED <<files, disk, want, excused>>
flush_key(t) ==
  /\ At(t, "flush_untrack")
  /\ files' = [files EXCEPT ![th[t].f].dirty =
                 [p \in Page |-> IF @[p] # 0 /\ <<p, @[p]>> \in th[t].done THEN 0 ELSE @[p]]]
  /\ go(t, [th[t] EXCEPT !.done = {}, !.pc = "flush_run"])
  /\ UNCHANGED <<cache, disk, want, excused>>

(* close after its flush: release_open_ref_key forgets the entry with the last   *)
(* reference and leaves the pages in the cache.                                *)
release_open_ref(t) ==
  /\ At(t, "release")
  /\ LET f == th[t].f n == files[f].refs IN
     files' = [files EXCEPT ![f].refs = IF n = 0 THEN 0 ELSE n - 1, ![f].held = @ \ {t},
                            ![f].entry = @ /\ n # 1,
                            ![f].size = IF n = 1 THEN 0 ELSE @, ![f].last = IF n = 1 THEN -1 ELSE @,
                            ![f].dirty = IF n = 1 THEN NoDirty ELSE @]
  /\ Return(t)
  /\ UNCHANGED <<cache, disk, want, excused>>

(***************************************************************************)
(* truncate: the disk, then the entry, then the pages past the end.           *)
(***************************************************************************)
FirstPast(len) == IF len = 0 THEN 0 ELSE ((len - 1) \div PageSize) + 1
Cut(d, len) == [size |-> len, cell |-> [i \in Cell |-> IF i < len THEN d.cell[i] ELSE 0]]
CutDisk(t) ==
  /\ At(t, "cut_disk")
  /\ disk' = [disk EXCEPT ![th[t].f] = Cut(@, th[t].end)]
  /\ want' = [want EXCEPT ![th[t].f] = Cut(@, th[t].end)]
  /\ go(t, [th[t] EXCEPT !.pc = "cut_entry"])
  /\ UNCHANGED <<cache, files, excused>>
CutEntry(t) ==
  /\ At(t, "cut_entry")
  /\ LET f == th[t].f len == th[t].end IN
     files' = [get_file_entry_for_key(f, len) EXCEPT ![f].size = len,
                 ![f].dirty = [p \in Page |-> IF p >= FirstPast(len) THEN 0 ELSE @[p]]]
  /\ go(t, [th[t] EXCEPT !.pc = "cut_pages"])
  /\ UNCHANGED <<cache, disk, want, excused>>
truncate_key(t) ==
  /\ At(t, "cut_pages")
  /\ LET f == th[t].f len == th[t].end
         c == drop_slots(cache, {s \in Slot : cache.frame[s].key[1] = f /\ cache.frame[s].key[2] >= FirstPast(len)})
     IN cache' = [c EXCEPT !.frame = [s \in Slot |->
                    IF c.frame[s].key = Key(f, len \div PageSize)
                    THEN [@[s] EXCEPT !.data = [i \in DOMAIN @ |-> IF i >= len % PageSize THEN 0 ELSE @[i]]]
                    ELSE @[s]]]
  /\ Return(t)
  /\ UNCHANGED <<files, disk, want, excused>>

(* overwrite_file_at: the content is replaced on the disk, then the references,   *)
(* the entry and the pages of the path are dropped.  Only paths are keys here.   *)
OverwriteDisk(t) ==
  /\ At(t, "overwrite") /\ PathKeyed /\ cache.next < MaxVersion
  /\ LET f == th[t].f v == cache.next + 1
         d == [size |-> th[t].end, cell |-> [i \in Cell |-> IF i < th[t].end THEN v ELSE 0]] IN
     /\ disk' = [disk EXCEPT ![f] = d] /\ want' = [want EXCEPT ![f] = d]
     /\ cache' = [cache EXCEPT !.next = v]
  /\ go(t, [th[t] EXCEPT !.pc = "purge"])
  /\ UNCHANGED <<files, excused>>
purge_closed_file(t) ==
  /\ At(t, "purge")
  /\ LET f == th[t].f IN
     /\ files' = [files EXCEPT ![f].refs = 0, ![f].entry = FALSE, ![f].size = 0, ![f].dirty = NoDirty, ![f].last = -1]
     /\ cache' = drop_slots(cache, {s \in Slot : cache.frame[s].key[1] = f})
  /\ Return(t)
  /\ UNCHANGED <<disk, want, excused>>

(* rename_path and reset_file_page_cache flush several files first.  The rename   *)
(* moves the directory entry, then drops the entries and the pages of both paths *)
(* and moves the open references; the target has no open handle here.           *)
NextFile(t) ==
  /\ At(t, "next_file")
  /\ LET r == th[t] last == IF r.call = "rename" THEN "rename_disk" ELSE "clear" IN
     go(t, IF r.rest = <<>> THEN [r EXCEPT !.pc = last]
           ELSE [r EXCEPT !.f = Head(r.rest), !.rest = Tail(@), !.pc = r.call])
  /\ UNCHANGED <<cache, files, disk, want, excused>>
Empty == [size |-> 0, cell |-> [i \in Cell |-> 0]]
rename_path(t) ==
  /\ At(t, "rename_disk") /\ PathKeyed
  /\ disk' = [disk EXCEPT ![th[t].f] = disk[th[t].g], ![th[t].g] = Empty]
  /\ want' = [want EXCEPT ![th[t].f] = want[th[t].g], ![th[t].g] = Empty]
  /\ go(t, [th[t] EXCEPT !.pc = "finish_rename"])
  /\ UNCHANGED <<cache, files, excused>>
NoEntry == [entry |-> FALSE, size |-> 0, dirty |-> NoDirty, last |-> -1, refs |-> 0, held |-> {}]
finish_rename(t) ==
  /\ At(t, "finish_rename")
  /\ LET old == th[t].g new == th[t].f IN
     /\ files' = [files EXCEPT ![old] = NoEntry,
                     ![new] = [NoEntry EXCEPT !.refs = files[old].refs, !.held = files[old].held]]
     /\ cache' = drop_slots(cache, {s \in Slot : cache.frame[s].key[1] \in {old, new}})
  /\ Return(t)
  /\ UNCHANGED <<disk, want, excused>>
reset_to_gen(t) ==
  /\ At(t, "clear")
  /\ cache' = clear_in_place(cache)
  /\ files' = [f \in PFile |-> [NoEntry EXCEPT !.held = files[f].held]]
  /\ Return(t)
  /\ UNCHANGED <<disk, want, excused>>
StartRename(t, old, new) ==
  /\ At(t, "idle") /\ "rename" \in POps /\ old # new /\ files[new].held = {} /\ ~(excused \cap {old, new} # {})
  /\ go(t, [Idle EXCEPT !.call = "rename", !.f = old, !.g = old, !.rest = <<new>>, !.pc = "rename"])
  /\ UNCHANGED <<cache, files, disk, want, excused>>
StartReset(t) ==
  /\ At(t, "idle") /\ "reset" \in POps
  /\ LET all == SetToSortSeq({f \in PFile : files[f].entry}, <) IN
     /\ all # <<>>
     /\ go(t, [Idle EXCEPT !.call = "reset", !.f = Head(all), !.rest = Tail(all), !.pc = "reset"])
  /\ UNCHANGED <<cache, files, disk, want, excused>>

PcNext ==
  \E t \in PThread :
    \/ \E f \in PFile : open(t, f)
    \/ \E f \in PFile, pos \in Cell, n \in 1 .. PageSize + 1 :
         pos + n <= NPage * PageSize /\ (Begin(t, "read", f, pos, pos + n) \/ Begin(t, "write", f, pos, pos + n))
    \/ \E f \in PFile : Begin(t, "flush", f, 0, 0) \/ Begin(t, "close", f, 0, 0)
    \/ \E f \in PFile, len \in 0 .. NPage * PageSize : Begin(t, "truncate", f, 0, len) \/ Begin(t, "overwrite", f, 0, len)
    \/ ReadStart(t) \/ ReadEntry(t) \/ ReadCopy(t) \/ Finish(t)
    \/ WriteStart(t) \/ WriteEntry(t) \/ WritePage(t) \/ publish(t) \/ PublishRetry(t)
    \/ Found(t) \/ Missing(t) \/ Load(t) \/ install_page(t) \/ install_zero_page(t)
    \/ VictimSize(t) \/ writeback_evicted_page(t) \/ note_page_written_back(t) \/ VictimDone(t) \/ VictimFail(t)
    \/ FlushStart(t) \/ FlushRun(t) \/ FlushSlot(t) \/ FlushSlot2(t) \/ FlushCopy(t) \/ FlushWrite(t)
    \/ flush_dirty_run(t) \/ flush_key(t) \/ release_open_ref(t)
    \/ (\E f, g \in PFile : StartRename(t, f, g)) \/ StartReset(t) \/ NextFile(t) \/ rename_path(t) \/ finish_rename(t)
    \/ reset_to_gen(t) \/ CutDisk(t) \/ CutEntry(t) \/ truncate_key(t) \/ OverwriteDisk(t) \/ purge_closed_file(t)
PcSpec == PcInit /\ [][PcNext]_pcVars

-----------------------------------------------------------------------------
(* Type correctness.                                                         *)
PcTypeOK ==
  /\ \A s \in Slot : /\ cache.frame[s].key \in ({NoKey} \cup (PFile \X Page))
                     /\ cache.frame[s].version \in 0 .. MaxVersion
  /\ {Range(cache.clean), Range(cache.dirty), Range(cache.free)} \subseteq SUBSET Slot
  /\ \A f \in PFile : files[f].size \in 0 .. NPage * PageSize /\ files[f].dirty \in [Page -> 0 .. MaxVersion]
  /\ \A f \in PFile : disk[f].size \in 0 .. NPage * PageSize /\ disk[f].cell \in [Cell -> 0 .. MaxVersion]
  /\ \A t \in PThread : th[t].f \in PFile \cup {0} /\ th[t].page \in Page

(* A slot of the pool is never in two places and never lost: a free slot holds    *)
(* no page and is free once, a page has one slot, and the slot of a page is in   *)
(* the list of its class unless a thread is writing it back.                    *)
SlotsAccounted ==
  LET Held == {th[t].vic.slot : t \in PThread}
      All == cache.free \o cache.clean \o cache.dirty
  IN /\ Cardinality(Range(All)) = Len(All)
     /\ \A s \in Slot :
          /\ s \in Range(cache.free) <=> cache.frame[s].key = NoKey
          /\ s \in Range(cache.clean) => ~cache.frame[s].dirty
          /\ s \in Range(cache.dirty) => cache.frame[s].dirty
          /\ s \in Range(All) \/ (s \in Held /\ cache.frame[s].dirty)
     /\ \A f \in PFile, p \in Page : Cardinality(index(cache, Key(f, p))) <= 1

(* A dirty page of a file that has an entry is in the entry's table with its      *)
(* version, so that the next flush finds it; the exceptions are the pages whose  *)
(* write back is done but for the marking, and those a truncate is dropping.     *)
DirtyTracked ==
  \A s \in Slot :
    LET fr == cache.frame[s] f == fr.key[1] p == fr.key[2] IN
    (fr.dirty /\ f \notin excused) =>
       \/ files[f].dirty[p] = fr.version
       \/ \E t \in PThread : At(t, "victim_done") /\ still_same(t) /\ th[t].vic.slot = s
       \/ \E t \in PThread : th[t].pc \in {"cut_pages", "purge", "finish_rename"} /\ th[t].f = f

(* What a read returns now: the cached page, else the disk's.                    *)
Content(f) ==
  [i \in 0 .. current_size(f) - 1 |->
     LET S == index(cache, Key(f, i \div PageSize)) IN
     IF S # {} THEN cache.frame[CHOOSE s \in S : TRUE].data[i % PageSize]
     ELSE IF i < disk[f].size THEN disk[f].cell[i] ELSE 0]
(* Between calls a file reads as the writes and truncations of the calls that      *)
(* returned have left it, whatever was evicted, written back, failed or closed.  *)
LastWriteSeen ==
  (\A t \in PThread : At(t, "idle")) =>
    \A f \in PFile \ excused :
      /\ current_size(f) = want[f].size
      /\ \A i \in 0 .. want[f].size - 1 : Content(f)[i] = want[f].cell[i]

(* A page the cache calls clean is on the disk, as far as the file's size goes:   *)
(* it may be dropped without a write.  The page a thread is about to overwrite   *)
(* whole is the exception: it is installed as zeros first.                      *)
CleanIsOnDisk ==
  \A s \in Slot :
    LET fr == cache.frame[s] f == fr.key[1] p == fr.key[2] IN
    (fr.key # NoKey /\ ~fr.dirty /\ \A t \in PThread : /\ th[t].pc \notin {"cut_entry", "cut_pages", "purge", "finish_rename"}
                                                      /\ ~(At(t, "publish") /\ Me(t) = fr.key)) =>
      \A i \in 0 .. PageSize - 1 :
        p * PageSize + i < current_size(f) => fr.data[i] = disk[f].cell[p * PageSize + i]
=============================================================================
