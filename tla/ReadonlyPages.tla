---------------------------- MODULE ReadonlyPages ----------------------------
(***************************************************************************)
(* The caches of read-only pages (mm-impl/common, cache.rs): frames shared by  *)
(* every mapping of the same page of the same version of a file.  Pages are    *)
(* read without the lock; a writer changes the data first and the version      *)
(* afterwards (paged_handle.rs).  One file; a page's content is a number that   *)
(* no other write of the file gives it.                                      *)
(***************************************************************************)
EXTENDS Integers, FiniteSets, FiniteSetsExt

CONSTANTS RTask, RWriter, RPage, RFrame, Kinds,   \* Kinds: "elf", "mmap"
          Capacity,                              \* *_READONLY_PAGE_CACHE_CAPACITY
          MaxVersion                             \* bound: writes of the file

ASSUME PageAssumption ==
  /\ IsFiniteSet(RTask) /\ IsFiniteSet(RWriter) /\ IsFiniteSet(RPage)
  /\ Kinds \subseteq {"elf", "mmap"}
  /\ Capacity \in Nat \ {0} /\ MaxVersion \in Nat

VARIABLES file,    \* what the file has now, by page
          ver,     \* VfsFileContentIdentity::version
          write,   \* the write of each writer between data and version: {} or its page and what was there
          cache,   \* by kind: key -> frame and time of its last use
          tick,
          frame,   \* frame -> its references and bytes
          call,    \* the call of each task
          held     \* the page each task has mapped
rvars == <<file, ver, write, cache, tick, frame, call, held>>

NoCall == [pc |-> "idle", k |-> "", p |-> 0, seen |-> {}, key |-> 0, f |-> 0, drop |-> {}]
RInit ==
  /\ file = [p \in RPage |-> 0] /\ ver = 0 /\ write = [w \in RWriter |-> {}]
  /\ cache = [k \in Kinds |-> <<>>] /\ tick = 0
  /\ frame = [f \in RFrame |-> [ref |-> 0, data |-> 0]]
  /\ call = [t \in RTask |-> NoCall] /\ held = [t \in RTask |-> {}]

readonly_page_key(v, p) == [v |-> v, p |-> p]
dec(fr, f) == [fr EXCEPT ![f].ref = @ - 1]
inc(fr, f) == [fr EXCEPT ![f].ref = @ + 1]
Used(n) == IF n < 2 * MaxVersion THEN n + 1 ELSE n   \* the clock only orders victims

(* `seen' is what the page held at some time of the call, from before the       *)
(* writes that were under way when it began.                                  *)
load_or_get(t, k, p) ==
  /\ call[t].pc = "idle" /\ held[t] = {}
  /\ call' = [call EXCEPT ![t] = [NoCall EXCEPT !.pc = "lookup", !.k = k, !.p = p,
               !.seen = {file[p]} \cup {o.old : o \in {o \in UNION {write[w] : w \in RWriter} : o.p = p}}]]
  /\ UNCHANGED <<file, ver, write, cache, tick, frame, held>>
(* The version is read before the lock is taken.                              *)
ReadVersion(t) ==
  /\ call[t].pc = "lookup"
  /\ call' = [call EXCEPT ![t] = [@ EXCEPT !.pc = "search", !.key = readonly_page_key(ver, call[t].p)]]
  /\ UNCHANGED <<file, ver, write, cache, tick, frame, held>>
Lookup(t) ==
  LET c == call[t] IN
  /\ c.pc = "search" /\ tick' = Used(tick)
  /\ \/ /\ c.key \in DOMAIN cache[c.k]
        /\ \E f \in {cache[c.k][c.key].f} :
             /\ frame' = inc(frame, f)
             /\ cache' = [cache EXCEPT ![c.k][c.key].used = tick']
             /\ call' = [call EXCEPT ![t] = [@ EXCEPT !.pc = "recheck", !.f = f, !.drop = {}]]
     \/ /\ c.key \notin DOMAIN cache[c.k]
        /\ call' = [call EXCEPT ![t].pc = "alloc"]
        /\ UNCHANGED <<cache, frame>>
  /\ UNCHANGED <<file, ver, write, held>>
Alloc(t) ==
  /\ call[t].pc = "alloc"
  /\ \/ \E f \in RFrame :
          /\ frame[f].ref = 0
          /\ frame' = [frame EXCEPT ![f] = [ref |-> 1, data |-> 0]]
          /\ call' = [call EXCEPT ![t] = [@ EXCEPT !.pc = "load", !.f = f, !.drop = {}]]
     \/ /\ \A f \in RFrame : frame[f].ref # 0
        /\ call' = [call EXCEPT ![t] = NoCall] /\ UNCHANGED frame
  /\ UNCHANGED <<file, ver, write, cache, tick, held>>
(* The file is read into the frame; a version that moved on meanwhile starts    *)
(* the call again.                                                           *)
Load(t) ==
  LET c == call[t] IN
  /\ c.pc = "load"
  /\ \/ /\ frame' = [frame EXCEPT ![c.f].data = file[c.p]]
        /\ call' = [call EXCEPT ![t].pc = "loaded"]
     \/ frame' = dec(frame, c.f) /\ call' = [call EXCEPT ![t] = NoCall]
  /\ UNCHANGED <<file, ver, write, cache, tick, held>>
CheckLoaded(t) ==
  LET c == call[t] IN
  /\ c.pc = "loaded"
  /\ \/ ver = c.key.v /\ call' = [call EXCEPT ![t].pc = "publish"] /\ UNCHANGED frame
     \/ ver # c.key.v /\ call' = [call EXCEPT ![t].pc = "lookup"] /\ frame' = dec(frame, c.f)
  /\ UNCHANGED <<file, ver, write, cache, tick, held>>
(* Under the lock again: another task's page wins; a full ELF cache gives up     *)
(* its oldest page, a full mmap cache takes no new one.                        *)
oldest(m) == CHOOSE x \in DOMAIN m : \A y \in DOMAIN m : m[x].used <= m[y].used
without(m, X) == [x \in DOMAIN m \ X |-> m[x]]
with(m, k, e) == [x \in DOMAIN m \cup {k} |-> IF x = k THEN e ELSE m[x]]
publish_page(c, k) ==
  LET m == cache[c.k]
      full == Cardinality(DOMAIN m) >= Capacity
      victims == IF full /\ c.k = "elf" THEN {oldest(m)} ELSE {}
  IN IF k \in DOMAIN m
     THEN [frame |-> inc(frame, m[k].f), cache |-> [m EXCEPT ![k].used = Used(tick)], f |-> m[k].f, drop |-> {c.f}]
     ELSE IF full /\ c.k = "mmap" THEN [frame |-> frame, cache |-> m, f |-> c.f, drop |-> {}]
     ELSE [frame |-> inc(frame, c.f), f |-> c.f, drop |-> {m[x].f : x \in victims},
           cache |-> with(without(m, victims), k, [f |-> c.f, used |-> Used(tick)])]
Publish_new_version(t) ==
  LET c == call[t] IN
  /\ c.pc = "publish" /\ tick' = Used(tick)
  /\ \E r \in {publish_page(c, readonly_page_key(ver, c.p))} :
       /\ frame' = r.frame /\ cache' = [cache EXCEPT ![c.k] = r.cache]
       /\ call' = [call EXCEPT ![t] = [@ EXCEPT !.pc = "recheck", !.f = r.f, !.drop = r.drop]]
  /\ UNCHANGED <<file, ver, write, held>>
Publish(t) ==
  LET c == call[t] IN
  /\ c.pc = "publish" /\ tick' = Used(tick)
  /\ \E r \in {publish_page(c, c.key)} :
       /\ frame' = r.frame /\ cache' = [cache EXCEPT ![c.k] = r.cache]
       /\ call' = [call EXCEPT ![t] = [@ EXCEPT !.pc = "recheck", !.f = r.f, !.drop = r.drop]]
  /\ UNCHANGED <<file, ver, write, held>>
(* The loser or the victim is released, the version checked a last time.       *)
Finish(t) ==
  LET c == call[t]
      fr == [f \in RFrame |-> IF f \in c.drop THEN [frame[f] EXCEPT !.ref = @ - 1] ELSE frame[f]]
  IN
  /\ c.pc = "recheck"
  /\ \/ /\ ver = c.key.v
        /\ call' = [call EXCEPT ![t] = NoCall] /\ held' = [held EXCEPT ![t] = {[f |-> c.f, p |-> c.p, seen |-> c.seen]}]
        /\ frame' = fr
     \/ /\ ver # c.key.v
        /\ call' = [call EXCEPT ![t].pc = "lookup"] /\ frame' = dec(fr, c.f) /\ UNCHANGED held
  /\ UNCHANGED <<file, ver, write, cache, tick>>
(* The mapping goes, with its reference.                                      *)
Unmap(t) ==
  /\ held[t] # {}
  /\ \E h \in held[t] : frame' = dec(frame, h.f)
  /\ held' = [held EXCEPT ![t] = {}]
  /\ UNCHANGED <<file, ver, write, cache, tick, call>>

(* A write: the data, then mark_changed.                                      *)
WriteData(w, p) ==
  /\ write[w] = {} /\ ver + Cardinality({x \in RWriter : write[x] # {}}) < MaxVersion
  /\ \E new \in {1 + Max({file[q] : q \in RPage})} :
       /\ file' = [file EXCEPT ![p] = new]
       /\ call' = [t \in RTask |-> IF call[t].pc # "idle" /\ call[t].p = p THEN [call[t] EXCEPT !.seen = @ \cup {new}]
                                   ELSE call[t]]
  /\ write' = [write EXCEPT ![w] = {[p |-> p, old |-> file[p]]}]
  /\ UNCHANGED <<ver, cache, tick, frame, held>>
mark_changed(w) ==
  /\ write[w] # {} /\ ver' = ver + 1 /\ write' = [write EXCEPT ![w] = {}]
  /\ UNCHANGED <<file, cache, tick, frame, call, held>>

RNext ==
  \/ \E t \in RTask : \/ \E k \in Kinds, p \in RPage : load_or_get(t, k, p)
                      \/ ReadVersion(t) \/ Lookup(t) \/ Alloc(t) \/ Load(t) \/ CheckLoaded(t)
                      \/ Publish(t) \/ Finish(t) \/ Unmap(t)
  \/ \E w \in RWriter : (\E p \in RPage : WriteData(w, p)) \/ mark_changed(w)
RSpec == RInit /\ [][RNext]_rvars

-----------------------------------------------------------------------------
RTypeOK ==
  /\ \A k \in Kinds : Cardinality(DOMAIN cache[k]) <= Capacity
  /\ \A f \in RFrame : frame[f].ref >= 0
  /\ \A t \in RTask : call[t].pc # "idle" => held[t] = {}

(* cache.rs: a frame has one reference for each entry, mapping and call that has  *)
(* it, and none once they are gone, whoever lost a race or was evicted.         *)
Holders(f) ==
  Cardinality({x \in Kinds \X [v : 0 .. MaxVersion, p : RPage] : x[2] \in DOMAIN cache[x[1]] /\ cache[x[1]][x[2]].f = f})
  + Cardinality({t \in RTask : \E h \in held[t] : h.f = f})
  + Cardinality({t \in RTask : call[t].pc \in {"load", "loaded", "publish", "recheck"} /\ call[t].f = f})
  + Cardinality({t \in RTask : call[t].pc = "recheck" /\ f \in call[t].drop})
PageRefsExact == \A f \in RFrame : frame[f].ref = Holders(f)

(* An entry of the current version has what the file has, as soon as no write is   *)
(* between its data and its version.                                         *)
VersionMatches ==
  (\A w \in RWriter : write[w] = {}) =>
    \A k \in Kinds : \A x \in DOMAIN cache[k] : x.v = ver => frame[cache[k][x].f].data = file[x.p]

(* The page a call returns is one the file had during the call, and the frame    *)
(* keeps it as long as it is mapped.                                          *)
PageOfItsTime == \A t \in RTask : \A h \in held[t] : frame[h.f].data \in h.seen

(* The three together: a page taken from the cache is counted and has the bytes  *)
(* of its version.                                                            *)
ReadonlyPagesSound == PageRefsExact /\ VersionMatches /\ PageOfItsTime
=============================================================================
