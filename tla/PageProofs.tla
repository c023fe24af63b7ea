----------------------------- MODULE PageProofs -----------------------------
(***************************************************************************)
(* Theorems about ReadonlyPages: the references of a frame are its entries,   *)
(* mappings and calls; an entry of the current version has bytes the file has, *)
(* or had before a write that is still between its data and its version; and   *)
(* the page a call returns is one the file had during the call.              *)
(***************************************************************************)
EXTENDS ReadonlyPages, FiniteSetTheorems, WellFoundedInduction, TLAPS

Keys == [v : 0 .. MaxVersion, p : RPage]
Loads == {"load", "loaded", "publish"}      \* a frame that only this call has
InCall == Loads \cup {"recheck"}
Keyed == {"search", "alloc"} \cup InCall
Pending == {w \in RWriter : write[w] # {}}

\* The shape of the state; a key has the page of its call.
CallShape(c) ==
  /\ DOMAIN c = DOMAIN NoCall /\ c.pc \in {"idle", "lookup"} \cup Keyed
  /\ c.pc # "idle" => c.k \in Kinds /\ c.p \in RPage
  /\ c.pc \in Keyed => c.key \in Keys /\ c.key.p = c.p
  /\ c.pc \in InCall => c.f \in RFrame
EntriesShape(m) ==
  /\ DOMAIN m \subseteq Keys /\ Cardinality(DOMAIN m) <= Capacity
  /\ \A x \in DOMAIN m : DOMAIN m[x] = {"f", "used"} /\ m[x].f \in RFrame /\ m[x].used \in Nat
PageShape ==
  /\ DOMAIN file = RPage /\ DOMAIN write = RWriter /\ DOMAIN cache = Kinds
  /\ DOMAIN frame = RFrame /\ DOMAIN call = RTask /\ DOMAIN held = RTask
  /\ tick \in Nat /\ ver \in Nat /\ ver + Cardinality(Pending) <= MaxVersion
  /\ \A f \in RFrame : DOMAIN frame[f] = {"ref", "data"} /\ frame[f].ref \in Int
  /\ \A k \in Kinds : EntriesShape(cache[k])
  /\ \A t \in RTask : CallShape(call[t])
  /\ \A t \in RTask : held[t] # {} => \E h \in held[t] : held[t] = {h} /\ h.f \in RFrame

\* A frame that is being filled has no other user.
Alone(t, f) ==
  /\ \A k \in Kinds : \A x \in DOMAIN cache[k] : cache[k][x].f # f
  /\ \A u \in RTask : \A h \in held[u] : h.f # f
  /\ \A u \in RTask \ {t} : call[u].pc \in InCall => call[u].f # f
  /\ \A u \in RTask : call[u].pc = "recheck" => f \notin call[u].drop
Apart == \A t \in RTask : call[t].pc \in Loads => Alone(t, call[t].f)

\* What page p has, or had before a write that is under way.
Current(p) == {file[p]} \cup {o.old : o \in {o \in UNION {write[w] : w \in RWriter} : o.p = p}}
EntriesFresh ==
  \A k \in Kinds : \A x \in DOMAIN cache[k] :
    x.v <= ver /\ (x.v = ver => frame[cache[k][x].f].data \in Current(x.p))
CallFresh(t, c) ==
  /\ c.pc # "idle" => held[t] = {} /\ Current(c.p) \subseteq c.seen
  /\ c.pc \in Keyed => c.key.v <= ver
  /\ c.pc \in {"loaded", "publish"} /\ c.key.v = ver => frame[c.f].data \in Current(c.p)
  /\ c.pc = "recheck" /\ c.key.v = ver => frame[c.f].data \in c.seen
PageInv ==
  /\ PageShape /\ PageRefsExact /\ Apart /\ EntriesFresh
  /\ \A t \in RTask : CallFresh(t, call[t])
  /\ PageOfItsTime

-----------------------------------------------------------------------------
(***************************************************************************)
(* Sets and numbers.                                                       *)
(***************************************************************************)
N(b) == IF b THEN 1 ELSE 0

\* A set that gains or loses one element.
LEMMA Toggled ==
  ASSUME NEW S, NEW T, NEW e, IsFiniteSet(S), IsFiniteSet(T), \A x : x # e => (x \in S <=> x \in T)
  PROVE  /\ Cardinality(S) \in Nat /\ Cardinality(T) \in Nat
         /\ Cardinality(T) = Cardinality(S) + N(e \in T) - N(e \in S)
<1>1. Cardinality(S) \in Nat /\ Cardinality(T) \in Nat
  BY FS_CardinalityType
<1>2. S \ {e} = T \ {e}
  OBVIOUS
<1>3. Cardinality(S \ {e}) = IF e \in S THEN Cardinality(S) - 1 ELSE Cardinality(S)
  BY FS_RemoveElement
<1>4. Cardinality(T \ {e}) = IF e \in T THEN Cardinality(T) - 1 ELSE Cardinality(T)
  BY FS_RemoveElement
<1>5. (IF e \in S THEN Cardinality(S) - 1 ELSE Cardinality(S)) = (IF e \in T THEN Cardinality(T) - 1 ELSE Cardinality(T))
  BY <1>2, <1>3, <1>4
<1> QED BY <1>1, <1>5 DEF N

LEMMA KeysFinite == IsFiniteSet(Keys) /\ IsFiniteSet(Kinds \X Keys)
<1> DEFINE Q == (0 .. MaxVersion) \X RPage
           g == [x \in Keys |-> <<x.v, x.p>>]
<1>1. IsFiniteSet(0 .. MaxVersion)
  BY PageAssumption, FS_Interval
<1>2. IsFiniteSet(Q)
  BY <1>1, PageAssumption, FS_Product
<1>3. g \in Injection(Keys, Q)
  <2>1. g \in [Keys -> Q]
    BY DEF Keys
  <2>2. ASSUME NEW x \in Keys, NEW y \in Keys, g[x] = g[y] PROVE x = y
    <3>1. x.v = y.v /\ x.p = y.p
      BY <2>2
    <3> QED BY <3>1 DEF Keys
  <2> QED BY <2>1, <2>2 DEF Injection, IsInjective
<1>4. IsFiniteSet(Keys)
  BY <1>2, <1>3, FS_Injection
<1>5. IsFiniteSet({"elf", "mmap"})
  <2>1. {"elf", "mmap"} = {"elf"} \cup {"mmap"}
    OBVIOUS
  <2>2. IsFiniteSet({"elf"})
    BY FS_Singleton
  <2>3. IsFiniteSet({"elf"} \cup {"mmap"})
    BY <2>2, FS_AddElement
  <2> QED BY <2>1, <2>3
<1>6. IsFiniteSet(Kinds)
  BY <1>5, PageAssumption, FS_Subset
<1> QED BY <1>4, <1>6, FS_Product

\* The victim of a full cache is one of its entries.
LEMMA Oldest ==
  ASSUME NEW m, DOMAIN m # {}, \A x \in DOMAIN m : m[x].used \in Nat
  PROVE  oldest(m) \in DOMAIN m
<1> DEFINE U == {m[x].used : x \in DOMAIN m}
<1>1. IsWellFoundedOn(OpToRel(<, Nat), Nat)
  BY NatLessThanWellFounded
<1>2. U \subseteq Nat /\ U # {}
  OBVIOUS
<1>3. PICK n \in U : \A y \in U : ~ (<<y, n>> \in OpToRel(<, Nat))
  BY <1>1, <1>2, WFMin
<1>4. \A y \in U : n <= y
  <2> SUFFICES ASSUME NEW y \in U PROVE n <= y
    OBVIOUS
  <2>1. y \in Nat /\ n \in Nat
    BY <1>2
  <2>2. <<y, n>> \in Nat \X Nat /\ <<y, n>>[1] = y /\ <<y, n>>[2] = n
    BY <2>1
  <2>3. ~ (y < n)
    BY <1>3, <2>2 DEF OpToRel
  <2> QED BY <2>1, <2>3
<1>5. PICK x \in DOMAIN m : n = m[x].used
  OBVIOUS
<1>6. \A y \in DOMAIN m : m[x].used <= m[y].used
  BY <1>4, <1>5
<1> QED BY <1>5, <1>6 DEF oldest

-----------------------------------------------------------------------------
(***************************************************************************)
(* The users of a frame, and how a step of one task changes their number.    *)
(***************************************************************************)
InCache(C, f) == {x \in Kinds \X [v : 0 .. MaxVersion, p : RPage] : x[2] \in DOMAIN C[x[1]] /\ C[x[1]][x[2]].f = f}
HasF(c, f) == c.pc \in {"load", "loaded", "publish", "recheck"} /\ c.f = f
Drops(c, f) == c.pc = "recheck" /\ f \in c.drop
Maps(h, f) == \E x \in h : x.f = f
Users(h, c, f) == N(Maps(h, f)) + N(HasF(c, f)) + N(Drops(c, f))

LEMMA CacheFinite == ASSUME NEW C, NEW f PROVE IsFiniteSet(InCache(C, f)) /\ Cardinality(InCache(C, f)) \in Nat
<1>1. InCache(C, f) \subseteq Kinds \X Keys
  BY DEF InCache, Keys
<1>2. IsFiniteSet(InCache(C, f))
  BY <1>1, KeysFinite, FS_Subset
<1> QED BY <1>2, FS_CardinalityType

LEMMA HoldersType == ASSUME NEW f PROVE Holders(f) \in Nat
<1>1. ASSUME NEW S \in SUBSET RTask PROVE Cardinality(S) \in Nat
  BY PageAssumption, FS_Subset, FS_CardinalityType
<1>2. /\ Cardinality({t \in RTask : \E h \in held[t] : h.f = f}) \in Nat
      /\ Cardinality({t \in RTask : call[t].pc \in {"load", "loaded", "publish", "recheck"} /\ call[t].f = f}) \in Nat
      /\ Cardinality({t \in RTask : call[t].pc = "recheck" /\ f \in call[t].drop}) \in Nat
  BY <1>1
<1>3. Holders(f) = Cardinality(InCache(cache, f))
                   + Cardinality({t \in RTask : \E h \in held[t] : h.f = f})
                   + Cardinality({t \in RTask : call[t].pc \in {"load", "loaded", "publish", "recheck"} /\ call[t].f = f})
                   + Cardinality({t \in RTask : call[t].pc = "recheck" /\ f \in call[t].drop})
  BY DEF Holders, InCache
<1> QED BY <1>2, <1>3, CacheFinite

LEMMA CountStep ==
  ASSUME NEW f, NEW t \in RTask, \A u \in RTask \ {t} : call'[u] = call[u] /\ held'[u] = held[u]
  PROVE  Holders(f)' = Holders(f) + Users(held'[t], call'[t], f) - Users(held[t], call[t], f)
                       + Cardinality(InCache(cache', f)) - Cardinality(InCache(cache, f))
<1> DEFINE H1 == {u \in RTask : Maps(held[u], f)}
           H2 == {u \in RTask : Maps(held'[u], f)}
           L1 == {u \in RTask : HasF(call[u], f)}
           L2 == {u \in RTask : HasF(call'[u], f)}
           D1 == {u \in RTask : Drops(call[u], f)}
           D2 == {u \in RTask : Drops(call'[u], f)}
<1>1. /\ Holders(f) = Cardinality(InCache(cache, f)) + Cardinality(H1) + Cardinality(L1) + Cardinality(D1)
      /\ Holders(f)' = Cardinality(InCache(cache', f)) + Cardinality(H2) + Cardinality(L2) + Cardinality(D2)
  BY DEF Holders, InCache, Maps, HasF, Drops
<1>2. ASSUME NEW S \in SUBSET RTask PROVE IsFiniteSet(S)
  BY PageAssumption, FS_Subset
<1>3. /\ IsFiniteSet(H1) /\ IsFiniteSet(H2) /\ IsFiniteSet(L1) /\ IsFiniteSet(L2)
      /\ IsFiniteSet(D1) /\ IsFiniteSet(D2)
  BY <1>2
<1>4. /\ \A x : x # t => (x \in H1 <=> x \in H2)
      /\ \A x : x # t => (x \in L1 <=> x \in L2)
      /\ \A x : x # t => (x \in D1 <=> x \in D2)
  OBVIOUS
<1>5. /\ (t \in H1 <=> Maps(held[t], f)) /\ (t \in H2 <=> Maps(held'[t], f))
      /\ (t \in L1 <=> HasF(call[t], f)) /\ (t \in L2 <=> HasF(call'[t], f))
      /\ (t \in D1 <=> Drops(call[t], f)) /\ (t \in D2 <=> Drops(call'[t], f))
  OBVIOUS
<1> HIDE DEF H1, H2, L1, L2, D1, D2
<1>6. /\ Cardinality(H1) \in Nat /\ Cardinality(H2) \in Nat
      /\ Cardinality(H2) = Cardinality(H1) + N(t \in H2) - N(t \in H1)
  BY <1>3, <1>4, Toggled
<1>7. /\ Cardinality(L1) \in Nat /\ Cardinality(L2) \in Nat
      /\ Cardinality(L2) = Cardinality(L1) + N(t \in L2) - N(t \in L1)
  BY <1>3, <1>4, Toggled
<1>8. /\ Cardinality(D1) \in Nat /\ Cardinality(D2) \in Nat
      /\ Cardinality(D2) = Cardinality(D1) + N(t \in D2) - N(t \in D1)
  BY <1>3, <1>4, Toggled
<1>9. /\ N(t \in H2) - N(t \in H1) = N(Maps(held'[t], f)) - N(Maps(held[t], f))
      /\ N(t \in L2) - N(t \in L1) = N(HasF(call'[t], f)) - N(HasF(call[t], f))
      /\ N(t \in D2) - N(t \in D1) = N(Drops(call'[t], f)) - N(Drops(call[t], f))
  BY <1>5 DEF N
<1>10. /\ N(Maps(held'[t], f)) \in Int /\ N(Maps(held[t], f)) \in Int
       /\ N(HasF(call'[t], f)) \in Int /\ N(HasF(call[t], f)) \in Int
       /\ N(Drops(call'[t], f)) \in Int /\ N(Drops(call[t], f)) \in Int
       /\ N(t \in H2) \in Int /\ N(t \in H1) \in Int /\ N(t \in L2) \in Int /\ N(t \in L1) \in Int
       /\ N(t \in D2) \in Int /\ N(t \in D1) \in Int
  BY DEF N
<1>11. Cardinality(InCache(cache, f)) \in Nat /\ Cardinality(InCache(cache', f)) \in Nat
  BY CacheFinite
<1> QED BY <1>1, <1>6, <1>7, <1>8, <1>9, <1>10, <1>11 DEF Users

LEMMA SameEntries ==
  ASSUME NEW f, \A k \in Kinds : DOMAIN cache'[k] = DOMAIN cache[k] /\ \A x \in DOMAIN cache[k] : cache'[k][x].f = cache[k][x].f
  PROVE  InCache(cache', f) = InCache(cache, f)
BY DEF InCache

\* A frame without references has no user.
LEMMA NoUser ==
  ASSUME PageShape, PageRefsExact, NEW f \in RFrame, frame[f].ref = 0
  PROVE  /\ \A k \in Kinds : \A x \in DOMAIN cache[k] : cache[k][x].f # f
         /\ \A u \in RTask : ~Maps(held[u], f) /\ ~HasF(call[u], f) /\ ~Drops(call[u], f)
<1> DEFINE H == {u \in RTask : Maps(held[u], f)}
           L == {u \in RTask : HasF(call[u], f)}
           D == {u \in RTask : Drops(call[u], f)}
<1>1. Cardinality(InCache(cache, f)) + Cardinality(H) + Cardinality(L) + Cardinality(D) = 0
  BY DEF PageRefsExact, Holders, InCache, Maps, HasF, Drops
<1>2. ASSUME NEW S \in SUBSET RTask PROVE IsFiniteSet(S) /\ Cardinality(S) \in Nat
  BY PageAssumption, FS_Subset, FS_CardinalityType
<1>3. /\ IsFiniteSet(H) /\ Cardinality(H) \in Nat /\ IsFiniteSet(L) /\ Cardinality(L) \in Nat
      /\ IsFiniteSet(D) /\ Cardinality(D) \in Nat
  BY <1>2
<1>4. IsFiniteSet(InCache(cache, f)) /\ Cardinality(InCache(cache, f)) \in Nat
  BY CacheFinite
<1>5. /\ Cardinality(InCache(cache, f)) = 0 /\ Cardinality(H) = 0 /\ Cardinality(L) = 0 /\ Cardinality(D) = 0
  BY <1>1, <1>3, <1>4
<1>6. InCache(cache, f) = {} /\ H = {} /\ L = {} /\ D = {}
  BY <1>3, <1>4, <1>5, FS_EmptySet
<1>7. ASSUME NEW k \in Kinds, NEW x \in DOMAIN cache[k], cache[k][x].f = f PROVE FALSE
  <2>1. x \in Keys
    BY DEF PageShape, EntriesShape
  <2>2. <<k, x>> \in InCache(cache, f)
    BY <1>7, <2>1 DEF InCache, Keys
  <2> QED BY <1>6, <2>2
<1> QED BY <1>6, <1>7

-----------------------------------------------------------------------------
(***************************************************************************)
(* Steps of a call that leave frames and caches alone.                      *)
(***************************************************************************)
\* The call of t becomes c.
Becomes(t, c) == /\ DOMAIN call' = RTask /\ call'[t] = c
                 /\ \A u \in RTask \ {t} : call'[u] = call[u]

LEMMA CallOf == ASSUME PageShape, NEW t \in RTask, NEW c, call' = [call EXCEPT ![t] = c] PROVE Becomes(t, c)
BY DEF PageShape, Becomes

LEMMA UsersType == ASSUME NEW h, NEW c, NEW f PROVE Users(h, c, f) \in Nat
BY DEF Users, N

LEMMA RefsKept ==
  ASSUME PageShape, PageRefsExact, NEW t \in RTask,
         \A u \in RTask \ {t} : call'[u] = call[u] /\ held'[u] = held[u],
         \A k \in Kinds : DOMAIN cache'[k] = DOMAIN cache[k] /\ \A x \in DOMAIN cache[k] : cache'[k][x].f = cache[k][x].f,
         \A f \in RFrame : frame'[f].ref = frame[f].ref + Users(held'[t], call'[t], f) - Users(held[t], call[t], f)
  PROVE  PageRefsExact'
<1> SUFFICES ASSUME NEW f \in RFrame PROVE (frame[f].ref)' = Holders(f)'
  BY DEF PageRefsExact
<1>1. Holders(f)' = Holders(f) + Users(held'[t], call'[t], f) - Users(held[t], call[t], f)
                    + Cardinality(InCache(cache', f)) - Cardinality(InCache(cache, f))
  BY CountStep
<1>2. InCache(cache', f) = InCache(cache, f) /\ Cardinality(InCache(cache, f)) \in Nat
  BY SameEntries, CacheFinite
<1>3. frame[f].ref = Holders(f) /\ Holders(f) \in Nat
  BY HoldersType DEF PageRefsExact
<1>4. Users(held'[t], call'[t], f) \in Nat /\ Users(held[t], call[t], f) \in Nat
  BY UsersType
<1> QED BY <1>1, <1>2, <1>3, <1>4

LEMMA Moved ==
  ASSUME PageInv, NEW t \in RTask, NEW c, Becomes(t, c), tick' \in Nat,
         UNCHANGED <<file, ver, write, cache, frame, held>>,
         CallShape(c), CallFresh(t, c), c.pc \in Loads => call[t].pc \in Loads,
         \A f : (HasF(c, f) <=> HasF(call[t], f)) /\ (Drops(c, f) <=> Drops(call[t], f))
  PROVE  PageInv'
<1>1. PageShape'
  BY DEF PageInv, PageShape, Becomes, CallShape, EntriesShape, Pending
<1>2. PageRefsExact'
  <2>1. \A f \in RFrame : Users(held'[t], call'[t], f) = Users(held[t], call[t], f)
    BY DEF Users, N, Becomes
  <2>2. \A f \in RFrame : Users(held[t], call[t], f) \in Nat /\ frame[f].ref \in Int
    BY UsersType DEF PageInv, PageShape
  <2>3. \A f \in RFrame : frame'[f].ref = frame[f].ref + Users(held'[t], call'[t], f) - Users(held[t], call[t], f)
    BY <2>1, <2>2
  <2> QED BY <2>3, RefsKept DEF PageInv, Becomes
<1>3. Apart'
  <2> SUFFICES ASSUME NEW u \in RTask, call'[u].pc \in Loads PROVE Alone(u, call[u].f)'
    BY DEF Apart
  <2>1. call[u].pc \in Loads /\ call'[u].f = call[u].f
    <3>1. CASE u = t
      BY <3>1 DEF Becomes, HasF, Loads, InCall
    <3>2. CASE u # t
      BY <3>2 DEF Becomes
    <3> QED BY <3>1, <3>2
  <2>2. Alone(u, call[u].f)
    BY <2>1 DEF PageInv, Apart
  <2>3. \A r \in RTask : (HasF(call'[r], call[u].f) <=> HasF(call[r], call[u].f)) /\ (Drops(call'[r], call[u].f) <=> Drops(call[r], call[u].f))
    BY DEF Becomes
  <2> QED BY <2>1, <2>2, <2>3 DEF Alone, HasF, Drops, InCall, Loads
<1>4. EntriesFresh'
  BY DEF PageInv, EntriesFresh, Current
<1>5. \A u \in RTask : CallFresh(u, call[u])'
  <2>1. CallFresh(t, call[t])'
    BY DEF Becomes, CallFresh, Current
  <2>2. ASSUME NEW u \in RTask \ {t} PROVE CallFresh(u, call[u])'
    <3>1. CallFresh(u, call[u]) /\ call'[u] = call[u]
      BY DEF PageInv, Becomes
    <3> QED BY <3>1 DEF CallFresh, Current
  <2> QED BY <2>1, <2>2
<1>6. PageOfItsTime'
  BY DEF PageInv, PageOfItsTime
<1> QED BY <1>1, <1>2, <1>3, <1>4, <1>5, <1>6 DEF PageInv

LEMMA BeginKeeps ==
  ASSUME PageInv, NEW t \in RTask, NEW k \in Kinds, NEW p \in RPage, load_or_get(t, k, p)
  PROVE  PageInv'
<1> DEFINE c == [NoCall EXCEPT !.pc = "lookup", !.k = k, !.p = p, !.seen = Current(p)]
<1>1. call[t].pc = "idle" /\ held[t] = {} /\ call' = [call EXCEPT ![t] = c]
      /\ UNCHANGED <<file, ver, write, cache, tick, frame, held>>
  BY DEF load_or_get, Current
<1>2. Becomes(t, c)
  BY <1>1, CallOf DEF PageInv
<1>3. c.pc = "lookup" /\ c.k = k /\ c.p = p /\ c.seen = Current(p) /\ DOMAIN c = DOMAIN NoCall
  BY DEF NoCall
<1> HIDE DEF c
<1>4. CallShape(c) /\ CallFresh(t, c)
  BY <1>1, <1>3 DEF CallShape, CallFresh, Keyed, InCall, Loads
<1>5. \A f : ~HasF(c, f) /\ ~HasF(call[t], f) /\ ~Drops(c, f) /\ ~Drops(call[t], f)
  BY <1>1, <1>3 DEF HasF, Drops
<1>6. c.pc \notin Loads /\ tick' \in Nat
  BY <1>1, <1>3 DEF Loads, PageInv, PageShape
<1> QED BY <1>1, <1>2, <1>4, <1>5, <1>6, Moved

LEMMA VersionRange == ASSUME PageShape PROVE ver \in 0 .. MaxVersion /\ Cardinality(Pending) \in Nat /\ IsFiniteSet(Pending)
<1>1. IsFiniteSet(Pending) /\ Cardinality(Pending) \in Nat
  <2>1. Pending \subseteq RWriter
    BY DEF Pending
  <2> QED BY <2>1, PageAssumption, FS_Subset, FS_CardinalityType
<1> QED BY <1>1, PageAssumption DEF PageShape

LEMMA ReadVersionKeeps == ASSUME PageInv, NEW t \in RTask, ReadVersion(t) PROVE PageInv'
<1> DEFINE key == readonly_page_key(ver, call[t].p)
           c == [call[t] EXCEPT !.pc = "search", !.key = key]
<1>1. call[t].pc = "lookup" /\ call' = [call EXCEPT ![t] = c] /\ UNCHANGED <<file, ver, write, cache, tick, frame, held>>
  BY DEF ReadVersion
<1>2. Becomes(t, c)
  BY <1>1, CallOf DEF PageInv
<1>3. CallShape(call[t]) /\ CallFresh(t, call[t]) /\ tick \in Nat
  BY DEF PageInv, PageShape
<1>4. DOMAIN call[t] = {"pc", "k", "p", "seen", "key", "f", "drop"}
  BY <1>3 DEF CallShape, NoCall
<1>5. /\ c.pc = "search" /\ c.k = call[t].k /\ c.p = call[t].p /\ c.seen = call[t].seen /\ c.key = key
      /\ DOMAIN c = DOMAIN call[t]
  BY <1>4
<1>6. key.v = ver /\ key.p = call[t].p /\ key \in Keys
  BY <1>1, <1>3, VersionRange DEF readonly_page_key, Keys, PageInv, CallShape
<1> HIDE DEF c, key
<1>7. CallShape(c) /\ CallFresh(t, c)
  BY <1>1, <1>3, <1>5, <1>6, VersionRange DEF CallShape, CallFresh, Keyed, InCall, Loads, PageInv
<1>8. \A f : ~HasF(c, f) /\ ~HasF(call[t], f) /\ ~Drops(c, f) /\ ~Drops(call[t], f)
  BY <1>1, <1>5 DEF HasF, Drops
<1>9. c.pc \notin Loads /\ tick' \in Nat
  BY <1>1, <1>3, <1>5 DEF Loads
<1> QED BY <1>1, <1>2, <1>7, <1>8, <1>9, Moved

-----------------------------------------------------------------------------
(***************************************************************************)
(* Steps that take and give references.                                     *)
(***************************************************************************)
SameData ==
  /\ DOMAIN frame' = RFrame
  /\ \A f \in RFrame : DOMAIN frame'[f] = {"ref", "data"} /\ frame'[f].data = frame[f].data
SameCache ==
  /\ DOMAIN cache' = Kinds
  /\ \A k \in Kinds : /\ DOMAIN cache'[k] = DOMAIN cache[k]
                      /\ \A x \in DOMAIN cache[k] : /\ DOMAIN cache'[k][x] = {"f", "used"}
                                                    /\ cache'[k][x].f = cache[k][x].f /\ cache'[k][x].used \in Nat
OnlyTask(t) ==
  /\ DOMAIN call' = RTask /\ DOMAIN held' = RTask
  /\ \A u \in RTask \ {t} : call'[u] = call[u] /\ held'[u] = held[u]
HeldShape(h) == h # {} => \E x \in h : h = {x} /\ x.f \in RFrame
UsedBy(t, f) == Maps(held[t], f) \/ HasF(call[t], f) \/ Drops(call[t], f)

LEMMA Stepped ==
  ASSUME PageInv, NEW t \in RTask, OnlyTask(t), SameData, SameCache, UNCHANGED <<file, ver, write>>, tick' \in Nat,
         CallShape(call'[t]), HeldShape(held'[t]), CallFresh(t, call[t])',
         \A h \in held'[t] : frame'[h.f].data \in h.seen,
         \A f \in RFrame : frame'[f].ref = frame[f].ref + Users(held'[t], call'[t], f) - Users(held[t], call[t], f),
         call'[t].pc \notin Loads,
         \A u \in RTask \ {t} : call[u].pc \in Loads => ~UsedBy(t, call[u].f)'
  PROVE  PageInv'
<1>0. PageShape /\ PageRefsExact
  BY DEF PageInv
<1>1. PageShape'
  <2>1. \A f \in RFrame : DOMAIN frame'[f] = {"ref", "data"} /\ frame'[f].ref \in Int
    <3> SUFFICES ASSUME NEW f \in RFrame PROVE DOMAIN frame'[f] = {"ref", "data"} /\ frame'[f].ref \in Int
      OBVIOUS
    <3>1. frame[f].ref \in Int /\ Users(held'[t], call'[t], f) \in Nat /\ Users(held[t], call[t], f) \in Nat
      BY <1>0, UsersType DEF PageShape
    <3> QED BY <3>1 DEF SameData
  <2>2. \A k \in Kinds : EntriesShape(cache'[k])
    BY <1>0 DEF PageShape, EntriesShape, SameCache
  <2>3. \A u \in RTask : CallShape(call'[u])
    BY <1>0 DEF PageShape, OnlyTask
  <2>4. \A u \in RTask : held'[u] # {} => \E h \in held'[u] : held'[u] = {h} /\ h.f \in RFrame
    <3>1. HeldShape(held'[t]) => (held'[t] # {} => \E h \in held'[t] : held'[t] = {h} /\ h.f \in RFrame)
      BY DEF HeldShape
    <3>2. ASSUME NEW u \in RTask \ {t} PROVE held'[u] # {} => \E h \in held'[u] : held'[u] = {h} /\ h.f \in RFrame
      BY <1>0 DEF PageShape, OnlyTask
    <3> QED BY <3>1, <3>2
  <2>5. Pending' = Pending
    BY DEF Pending
  <2> QED BY <1>0, <2>1, <2>2, <2>3, <2>4, <2>5 DEF PageShape, EntriesShape, CallShape, OnlyTask, SameData, SameCache
<1>2. PageRefsExact'
  BY <1>0, RefsKept DEF OnlyTask, SameCache
<1>3. Apart'
  <2> SUFFICES ASSUME NEW u \in RTask, call'[u].pc \in Loads PROVE Alone(u, call[u].f)'
    BY DEF Apart
  <2>1. u # t /\ call'[u] = call[u]
    BY DEF OnlyTask
  <2> DEFINE f == call[u].f
  <2>2. Alone(u, f)
    BY <2>1 DEF PageInv, Apart
  <2>3. ~Maps(held'[t], f) /\ ~HasF(call'[t], f) /\ ~Drops(call'[t], f)
    BY <2>1 DEF UsedBy
  <2> HIDE DEF f
  <2>4. \A k \in Kinds : \A x \in DOMAIN cache'[k] : cache'[k][x].f # f
    BY <2>2 DEF Alone, SameCache
  <2>5. \A r \in RTask : \A h \in held'[r] : h.f # f
    BY <2>2, <2>3 DEF Alone, OnlyTask, Maps
  <2>6. \A r \in RTask \ {u} : call'[r].pc \in InCall => call'[r].f # f
    BY <2>2, <2>3 DEF Alone, OnlyTask, HasF, InCall, Loads
  <2>7. \A r \in RTask : call'[r].pc = "recheck" => f \notin call'[r].drop
    BY <2>2, <2>3 DEF Alone, OnlyTask, Drops
  <2>8. call'[u].f = f
    BY <2>1 DEF f
  <2> QED BY <2>4, <2>5, <2>6, <2>7, <2>8 DEF Alone
<1>4. EntriesFresh'
  <2> SUFFICES ASSUME NEW k \in Kinds, NEW x \in DOMAIN cache'[k]
               PROVE  x.v <= ver /\ (x.v = ver => frame'[cache'[k][x].f].data \in Current(x.p))
    BY DEF EntriesFresh, Current
  <2>1. x \in DOMAIN cache[k] /\ cache'[k][x].f = cache[k][x].f /\ cache[k][x].f \in RFrame
    BY <1>0 DEF SameCache, PageShape, EntriesShape
  <2> QED BY <2>1 DEF PageInv, EntriesFresh, SameData
<1>5. \A u \in RTask : CallFresh(u, call[u])'
  <2>1. ASSUME NEW u \in RTask \ {t} PROVE CallFresh(u, call[u])'
    <3>1. CallFresh(u, call[u]) /\ CallShape(call[u]) /\ call'[u] = call[u] /\ held'[u] = held[u]
      BY DEF PageInv, PageShape, OnlyTask
    <3>2. call[u].pc \in InCall => frame'[call[u].f].data = frame[call[u].f].data
      BY <3>1 DEF CallShape, SameData
    <3> QED BY <3>1, <3>2 DEF CallFresh, Current, InCall, Loads
  <2> QED BY <2>1
<1>6. PageOfItsTime'
  <2>1. ASSUME NEW u \in RTask \ {t}, NEW h \in held'[u] PROVE frame'[h.f].data \in h.seen
    <3>1. h \in held[u] /\ h.f \in RFrame
      BY <1>0 DEF OnlyTask, PageShape
    <3> QED BY <3>1 DEF PageInv, PageOfItsTime, SameData
  <2> QED BY <2>1 DEF PageOfItsTime
<1> QED BY <1>1, <1>2, <1>3, <1>4, <1>5, <1>6 DEF PageInv

\* A reference more, a reference less.
LEMMA Dec ==
  ASSUME PageShape, NEW g \in RFrame
  PROVE  /\ DOMAIN dec(frame, g) = RFrame
         /\ \A f \in RFrame : /\ DOMAIN dec(frame, g)[f] = {"ref", "data"} /\ dec(frame, g)[f].data = frame[f].data
                              /\ dec(frame, g)[f].ref = frame[f].ref - N(f = g)
BY DEF PageShape, dec, N

LEMMA Inc ==
  ASSUME PageShape, NEW g \in RFrame
  PROVE  /\ DOMAIN inc(frame, g) = RFrame
         /\ \A f \in RFrame : /\ DOMAIN inc(frame, g)[f] = {"ref", "data"} /\ inc(frame, g)[f].data = frame[f].data
                              /\ inc(frame, g)[f].ref = frame[f].ref + N(f = g)
BY DEF PageShape, inc, N

\* What the invariant says of a call that is under way.
LEMMA CallIn ==
  ASSUME PageInv, NEW t \in RTask
  PROVE  /\ PageShape /\ CallShape(call[t]) /\ CallFresh(t, call[t]) /\ tick \in Nat /\ Used(tick) \in Nat
         /\ DOMAIN call = RTask /\ DOMAIN held = RTask /\ DOMAIN frame = RFrame /\ DOMAIN cache = Kinds
         /\ DOMAIN call[t] = {"pc", "k", "p", "seen", "key", "f", "drop"}
<1>1. PageShape /\ CallShape(call[t]) /\ CallFresh(t, call[t]) /\ tick \in Nat
  BY DEF PageInv, PageShape
<1>2. DOMAIN call[t] = {"pc", "k", "p", "seen", "key", "f", "drop"}
  BY <1>1 DEF CallShape, NoCall
<1>3. Used(tick) \in Nat
  BY <1>1, PageAssumption DEF Used
<1> QED BY <1>1, <1>2, <1>3 DEF PageShape

\* The call of t gives up its frame, and what it had to drop.
LEMMA Released ==
  ASSUME PageInv, NEW t \in RTask, NEW c, call' = [call EXCEPT ![t] = c], UNCHANGED <<file, ver, write, cache, tick, held>>,
         CallShape(c), CallFresh(t, c), c.pc \in {"idle", "lookup"}, SameData,
         \A f \in RFrame : frame'[f].ref = frame[f].ref - N(HasF(call[t], f)) - N(Drops(call[t], f))
  PROVE  PageInv'
<1>1. PageShape /\ DOMAIN held = RTask /\ tick \in Nat /\ call'[t] = c /\ held'[t] = held[t]
  BY CallIn DEF PageShape
<1>2. OnlyTask(t)
  BY <1>1 DEF OnlyTask, PageShape
<1>3. SameCache
  BY <1>1 DEF SameCache, PageShape, EntriesShape
<1>4. HeldShape(held'[t]) /\ \A h \in held'[t] : frame'[h.f].data \in h.seen
  <2>1. HeldShape(held[t])
    BY <1>1 DEF HeldShape, PageShape
  <2>2. \A h \in held[t] : h.f \in RFrame /\ frame[h.f].data \in h.seen
    BY <1>1, <2>1 DEF HeldShape, PageInv, PageOfItsTime
  <2> QED BY <1>1, <2>1, <2>2 DEF SameData
<1>5. CallFresh(t, call[t])'
  BY <1>1 DEF CallFresh, Current, Keyed, InCall, Loads
<1>6. ASSUME NEW f PROVE ~HasF(c, f) /\ ~Drops(c, f)
  BY DEF HasF, Drops
<1>7. ASSUME NEW f \in RFrame
      PROVE  frame'[f].ref = frame[f].ref + Users(held'[t], call'[t], f) - Users(held[t], call[t], f)
  <2>1. N(HasF(c, f)) = 0 /\ N(Drops(c, f)) = 0
    BY <1>6 DEF N
  <2>2. /\ N(HasF(call[t], f)) \in Int /\ N(Drops(call[t], f)) \in Int /\ N(Maps(held[t], f)) \in Int
        /\ frame[f].ref \in Int
    BY <1>1 DEF N, PageShape
  <2> QED BY <1>1, <2>1, <2>2 DEF Users
<1>8. ASSUME NEW u \in RTask \ {t}, call[u].pc \in Loads PROVE ~UsedBy(t, call[u].f)'
  <2>1. ~Maps(held[t], call[u].f)
    BY <1>8 DEF PageInv, Apart, Alone, Maps
  <2>2. call'[u].f = call[u].f
    BY <1>2 DEF OnlyTask
  <2> QED BY <1>1, <1>6, <2>1, <2>2 DEF UsedBy
<1>9. c.pc \notin Loads
  BY DEF Loads
<1> QED BY <1>1, <1>2, <1>3, <1>4, <1>5, <1>7, <1>8, <1>9, Stepped

LEMMA NoCallSound == ASSUME NEW t PROVE CallShape(NoCall) /\ CallFresh(t, NoCall) /\ NoCall.pc = "idle"
<1>1. NoCall.pc = "idle"
  BY DEF NoCall
<1> QED BY <1>1 DEF CallShape, CallFresh, Keyed, InCall, Loads

\* The call starts again.
LEMMA AgainSound ==
  ASSUME PageInv, NEW t \in RTask, call[t].pc # "idle"
  PROVE  LET c == [call[t] EXCEPT !.pc = "lookup"]
         IN  CallShape(c) /\ CallFresh(t, c) /\ c.pc = "lookup"
<1> DEFINE c == [call[t] EXCEPT !.pc = "lookup"]
<1>1. CallShape(call[t]) /\ CallFresh(t, call[t])
  BY CallIn
<1>2. c.pc = "lookup" /\ c.k = call[t].k /\ c.p = call[t].p /\ c.seen = call[t].seen /\ DOMAIN c = DOMAIN call[t]
  BY CallIn
<1> HIDE DEF c
<1>3. CallShape(c) /\ CallFresh(t, c)
  BY <1>1, <1>2 DEF CallShape, CallFresh, Keyed, InCall, Loads
<1> QED BY <1>2, <1>3 DEF c

LEMMA LoadFails ==
  ASSUME PageInv, NEW t \in RTask, call[t].pc \in {"load", "loaded"}, NEW c, call' = [call EXCEPT ![t] = c],
         UNCHANGED <<file, ver, write, cache, tick, held>>, CallShape(c), CallFresh(t, c), c.pc \in {"idle", "lookup"},
         frame' = dec(frame, call[t].f)
  PROVE  PageInv'
<1>1. PageShape /\ call[t].f \in RFrame
  BY CallIn DEF CallShape, InCall, Loads
<1>2. SameData /\ \A f \in RFrame : frame'[f].ref = frame[f].ref - N(f = call[t].f)
  BY <1>1, Dec DEF SameData
<1>3. ASSUME NEW f \in RFrame PROVE frame'[f].ref = frame[f].ref - N(HasF(call[t], f)) - N(Drops(call[t], f))
  <2>1. N(HasF(call[t], f)) = N(f = call[t].f) /\ N(Drops(call[t], f)) = 0 /\ N(f = call[t].f) \in Int
    BY DEF HasF, Drops, N
  <2>2. frame[f].ref \in Int
    BY <1>1 DEF PageShape
  <2> QED BY <1>2, <2>1, <2>2
<1> QED BY <1>2, <1>3, Released

\* The call goes on with its frame: what may change is its place.
LEMMA WithPc ==
  ASSUME PageInv, NEW t \in RTask, NEW pc
  PROVE  LET c == [call[t] EXCEPT !.pc = pc]
         IN  /\ c.pc = pc /\ c.k = call[t].k /\ c.p = call[t].p /\ c.seen = call[t].seen /\ c.key = call[t].key
             /\ c.f = call[t].f /\ c.drop = call[t].drop /\ DOMAIN c = DOMAIN NoCall
<1>1. DOMAIN call[t] = DOMAIN NoCall
  BY CallIn DEF CallShape
<1> QED BY <1>1, CallIn

LEMMA CheckLoadedKeeps == ASSUME PageInv, NEW t \in RTask, CheckLoaded(t) PROVE PageInv'
<1>1. call[t].pc = "loaded" /\ UNCHANGED <<file, ver, write, cache, tick, held>> /\ PageShape /\ tick \in Nat
  BY CallIn DEF CheckLoaded
<1>2. CASE ver = call[t].key.v /\ call' = [call EXCEPT ![t].pc = "publish"] /\ UNCHANGED frame
  <2> DEFINE c == [call[t] EXCEPT !.pc = "publish"]
  <2>1. Becomes(t, c)
    BY <1>1, <1>2, CallOf
  <2>2. /\ c.pc = "publish" /\ c.k = call[t].k /\ c.p = call[t].p /\ c.seen = call[t].seen /\ c.key = call[t].key
        /\ c.f = call[t].f /\ c.drop = call[t].drop /\ DOMAIN c = DOMAIN NoCall
    BY WithPc
  <2> HIDE DEF c
  <2>3. CallShape(c)
    BY <1>1, <2>2, CallIn DEF CallShape, Keyed, InCall, Loads
  <2>4. CallFresh(t, c)
    BY <1>1, <2>2, CallIn DEF CallFresh, Keyed, InCall, Loads
  <2>5. \A f : (HasF(c, f) <=> HasF(call[t], f)) /\ (Drops(c, f) <=> Drops(call[t], f))
    BY <1>1, <2>2 DEF HasF, Drops
  <2>6. call[t].pc \in Loads /\ tick' \in Nat
    BY <1>1 DEF Loads
  <2> QED BY <1>1, <1>2, <2>1, <2>3, <2>4, <2>5, <2>6, Moved
<1>3. CASE ver # call[t].key.v /\ call' = [call EXCEPT ![t].pc = "lookup"] /\ frame' = dec(frame, call[t].f)
  <2> DEFINE c == [call[t] EXCEPT !.pc = "lookup"]
  <2>1. call' = [call EXCEPT ![t] = c]
    BY <1>3
  <2>2. CallShape(c) /\ CallFresh(t, c) /\ c.pc = "lookup"
    BY <1>1, AgainSound
  <2> HIDE DEF c
  <2> QED BY <1>1, <1>3, <2>1, <2>2, LoadFails
<1> QED BY <1>2, <1>3 DEF CheckLoaded

\* Bytes are put into a frame that nobody else has.
LEMMA Filled ==
  ASSUME PageInv, NEW t \in RTask, call[t].pc = "load", frame' = [frame EXCEPT ![call[t].f].data = file[call[t].p]],
         call' = [call EXCEPT ![t].pc = "loaded"], UNCHANGED <<file, ver, write, cache, tick, held>>
  PROVE  PageInv'
<1> DEFINE g == call[t].f
           c == [call[t] EXCEPT !.pc = "loaded"]
<1>1. PageShape /\ CallShape(call[t]) /\ CallFresh(t, call[t]) /\ tick \in Nat
  BY CallIn
<1>2. g \in RFrame
  BY <1>1 DEF CallShape, InCall, Loads
<1>3. /\ c.pc = "loaded" /\ c.k = call[t].k /\ c.p = call[t].p /\ c.seen = call[t].seen /\ c.key = call[t].key
      /\ c.f = g /\ c.drop = call[t].drop /\ DOMAIN c = DOMAIN NoCall
  BY WithPc
<1>4. Becomes(t, c)
  BY <1>1, CallOf
<1>5. /\ DOMAIN frame' = RFrame /\ frame'[g].data = file[call[t].p]
      /\ \A f \in RFrame : DOMAIN frame'[f] = {"ref", "data"} /\ frame'[f].ref = frame[f].ref
                            /\ (f # g => frame'[f].data = frame[f].data)
  BY <1>1, <1>2 DEF PageShape
<1> HIDE DEF c
<1>6. Alone(t, g)
  BY DEF PageInv, Apart, Loads
<1>7. CallShape(c)
  BY <1>1, <1>3 DEF CallShape, Keyed, InCall, Loads
<1>8. \A f : (HasF(c, f) <=> HasF(call[t], f)) /\ (Drops(c, f) <=> Drops(call[t], f))
  BY <1>3 DEF HasF, Drops
<1>9. PageShape'
  <2>1. \A u \in RTask : CallShape(call'[u])
    BY <1>1, <1>4, <1>7 DEF Becomes, PageShape
  <2> QED BY <1>1, <1>4, <1>5, <2>1 DEF PageShape, Becomes, CallShape, EntriesShape, Pending
<1>10. PageRefsExact'
  <2>1. \A f \in RFrame : Users(held'[t], call'[t], f) = Users(held[t], call[t], f)
    BY <1>4, <1>8 DEF Users, N, Becomes
  <2>2. \A f \in RFrame : Users(held[t], call[t], f) \in Nat /\ frame[f].ref \in Int
    BY <1>1, UsersType DEF PageShape
  <2>3. \A f \in RFrame : frame'[f].ref = frame[f].ref + Users(held'[t], call'[t], f) - Users(held[t], call[t], f)
    BY <1>5, <2>1, <2>2
  <2> QED BY <1>1, <1>4, <2>3, RefsKept DEF PageInv, Becomes
<1>11. Apart'
  <2> SUFFICES ASSUME NEW u \in RTask, call'[u].pc \in Loads PROVE Alone(u, call[u].f)'
    BY DEF Apart
  <2>1. call[u].pc \in Loads /\ call'[u].f = call[u].f
    BY <1>3, <1>4 DEF Becomes, Loads
  <2>2. Alone(u, call[u].f)
    BY <2>1 DEF PageInv, Apart
  <2>3. \A r \in RTask : (HasF(call'[r], call[u].f) <=> HasF(call[r], call[u].f)) /\ (Drops(call'[r], call[u].f) <=> Drops(call[r], call[u].f))
    BY <1>4, <1>8 DEF Becomes
  <2> QED BY <2>1, <2>2, <2>3 DEF Alone, HasF, Drops, InCall, Loads
<1>12. EntriesFresh'
  <2>1. ASSUME NEW k \in Kinds, NEW x \in DOMAIN cache[k] PROVE frame'[cache[k][x].f].data = frame[cache[k][x].f].data
    <3>1. cache[k][x].f \in RFrame /\ cache[k][x].f # g
      BY <1>1, <1>6 DEF PageShape, EntriesShape, Alone
    <3> QED BY <1>5, <3>1
  <2> QED BY <2>1 DEF PageInv, EntriesFresh, Current
<1>13. \A u \in RTask : CallFresh(u, call[u])'
  <2>1. CallFresh(t, call[t])'
    BY <1>1, <1>3, <1>4, <1>5 DEF CallFresh, Current, Becomes, Keyed, InCall, Loads
  <2>2. ASSUME NEW u \in RTask \ {t} PROVE CallFresh(u, call[u])'
    <3>1. CallFresh(u, call[u]) /\ CallShape(call[u]) /\ call'[u] = call[u]
      BY <1>1, <1>4 DEF PageInv, Becomes, PageShape
    <3>2. call[u].pc \in InCall => frame'[call[u].f].data = frame[call[u].f].data
      BY <1>5, <1>6, <3>1 DEF CallShape, Alone
    <3> QED BY <3>1, <3>2 DEF CallFresh, Current, InCall, Loads
  <2> QED BY <2>1, <2>2
<1>14. PageOfItsTime'
  <2>1. ASSUME NEW u \in RTask, NEW h \in held[u] PROVE frame'[h.f].data = frame[h.f].data
    <3>1. h.f \in RFrame /\ h.f # g
      BY <1>1, <1>6 DEF PageShape, Alone
    <3> QED BY <1>5, <3>1
  <2> QED BY <2>1 DEF PageInv, PageOfItsTime
<1> QED BY <1>9, <1>10, <1>11, <1>12, <1>13, <1>14 DEF PageInv

LEMMA LoadKeeps == ASSUME PageInv, NEW t \in RTask, Load(t) PROVE PageInv'
<1>1. call[t].pc = "load" /\ UNCHANGED <<file, ver, write, cache, tick, held>>
  BY DEF Load
<1>2. CASE frame' = [frame EXCEPT ![call[t].f].data = file[call[t].p]] /\ call' = [call EXCEPT ![t].pc = "loaded"]
  BY <1>1, <1>2, Filled
<1>3. CASE frame' = dec(frame, call[t].f) /\ call' = [call EXCEPT ![t] = NoCall]
  BY <1>1, <1>3, NoCallSound, LoadFails
<1> QED BY <1>2, <1>3 DEF Load

LEMMA AllocKeeps == ASSUME PageInv, NEW t \in RTask, Alloc(t) PROVE PageInv'
<1>1. call[t].pc = "alloc" /\ UNCHANGED <<file, ver, write, cache, tick, held>>
  BY DEF Alloc
<1>2. PageShape /\ CallShape(call[t]) /\ CallFresh(t, call[t]) /\ tick \in Nat
  BY CallIn
<1>3. ASSUME call' = [call EXCEPT ![t] = NoCall], UNCHANGED frame PROVE PageInv'
  <2>1. Becomes(t, NoCall)
    BY <1>2, <1>3, CallOf
  <2>2. \A f : ~HasF(NoCall, f) /\ ~HasF(call[t], f) /\ ~Drops(NoCall, f) /\ ~Drops(call[t], f)
    BY <1>1, NoCallSound DEF HasF, Drops
  <2>3. NoCall.pc \notin Loads /\ tick' \in Nat
    BY <1>1, <1>2, NoCallSound DEF Loads
  <2> QED BY <1>1, <1>3, <2>1, <2>2, <2>3, NoCallSound, Moved
<1>4. ASSUME NEW g \in RFrame, frame[g].ref = 0, frame' = [frame EXCEPT ![g] = [ref |-> 1, data |-> 0]],
             call' = [call EXCEPT ![t] = [@ EXCEPT !.pc = "load", !.f = g, !.drop = {}]]
      PROVE  PageInv'
  <2> DEFINE c == [call[t] EXCEPT !.pc = "load", !.f = g, !.drop = {}]
  <2>1. call' = [call EXCEPT ![t] = c]
    BY <1>4
  <2>2. Becomes(t, c)
    BY <1>2, <2>1, CallOf
  <2>3. /\ c.pc = "load" /\ c.k = call[t].k /\ c.p = call[t].p /\ c.seen = call[t].seen /\ c.key = call[t].key
        /\ c.f = g /\ c.drop = {} /\ DOMAIN c = DOMAIN call[t]
    BY CallIn
  <2> HIDE DEF c
  <2>4. /\ \A k \in Kinds : \A x \in DOMAIN cache[k] : cache[k][x].f # g
        /\ \A u \in RTask : ~Maps(held[u], g) /\ ~HasF(call[u], g) /\ ~Drops(call[u], g)
    BY <1>2, <1>4, NoUser DEF PageInv
  <2>5. /\ DOMAIN frame' = RFrame /\ frame'[g].ref = 1 /\ DOMAIN frame'[g] = {"ref", "data"}
        /\ \A f \in RFrame \ {g} : frame'[f] = frame[f]
    BY <1>2, <1>4 DEF PageShape
  <2>6. CallShape(c)
    BY <1>1, <1>2, <2>3 DEF CallShape, Keyed, InCall, Loads
  <2>7. PageShape'
    <3>1. \A u \in RTask : CallShape(call'[u])
      BY <1>2, <2>2, <2>6 DEF Becomes, PageShape
    <3>2. \A f \in RFrame : DOMAIN frame'[f] = {"ref", "data"} /\ frame'[f].ref \in Int
      BY <1>2, <2>5 DEF PageShape
    <3> QED BY <1>1, <1>2, <2>2, <2>5, <3>1, <3>2 DEF PageShape, Becomes, CallShape, EntriesShape, Pending
  <2>8. PageRefsExact'
    <3>1. ASSUME NEW f \in RFrame
          PROVE  frame'[f].ref = frame[f].ref + Users(held'[t], call'[t], f) - Users(held[t], call[t], f)
      <4>1. call'[t] = c /\ held'[t] = held[t]
        BY <1>1, <2>2 DEF Becomes
      <4>2. Users(held[t], c, f) = N(Maps(held[t], f)) + N(f = g)
        BY <2>3 DEF Users, HasF, Drops, N
      <4>3. Users(held[t], call[t], f) = N(Maps(held[t], f))
        BY <1>1 DEF Users, HasF, Drops, N
      <4>4. N(Maps(held[t], f)) \in Int /\ N(f = g) = (IF f = g THEN 1 ELSE 0) /\ frame[f].ref \in Int
        BY <1>2 DEF N, PageShape
      <4>5. frame'[f].ref = IF f = g THEN 1 ELSE frame[f].ref
        BY <2>5
      <4> QED BY <1>4, <4>1, <4>2, <4>3, <4>4, <4>5
    <3> QED BY <1>1, <1>2, <2>2, <3>1, RefsKept DEF PageInv, Becomes
  <2>9. Apart'
    <3> SUFFICES ASSUME NEW u \in RTask, call'[u].pc \in Loads PROVE Alone(u, call[u].f)'
      BY DEF Apart
    <3>1. CASE u = t
      <4>1. call'[u].f = g
        BY <2>2, <2>3, <3>1 DEF Becomes
      <4>2. \A r \in RTask \ {u} : ~HasF(call'[r], g)
        BY <2>2, <2>4, <3>1 DEF Becomes
      <4>3. \A r \in RTask : ~Drops(call'[r], g)
        BY <2>2, <2>3, <2>4 DEF Becomes, Drops
      <4> QED BY <1>1, <2>4, <4>1, <4>2, <4>3 DEF Alone, Maps, HasF, Drops, InCall, Loads
    <3>2. CASE u # t
      <4>1. call'[u] = call[u] /\ Alone(u, call[u].f)
        BY <2>2, <3>2 DEF Becomes, PageInv, Apart
      <4>2. call[u].f # g
        BY <2>4, <4>1 DEF HasF, Loads
      <4>3. \A r \in RTask \ {u} : call'[r].pc \in InCall => call'[r].f # call[u].f
        BY <2>2, <2>3, <4>1, <4>2 DEF Becomes, Alone
      <4>4. \A r \in RTask : call'[r].pc = "recheck" => call[u].f \notin call'[r].drop
        BY <2>2, <2>3, <4>1, <4>2 DEF Becomes, Alone
      <4> QED BY <1>1, <4>1, <4>3, <4>4 DEF Alone
    <3> QED BY <3>1, <3>2
  <2>10. EntriesFresh'
    <3>1. ASSUME NEW k \in Kinds, NEW x \in DOMAIN cache[k] PROVE frame'[cache[k][x].f] = frame[cache[k][x].f]
      <4>1. cache[k][x].f \in RFrame
        BY <1>2 DEF PageShape, EntriesShape
      <4> QED BY <2>4, <2>5, <4>1
    <3> QED BY <1>1, <3>1 DEF PageInv, EntriesFresh, Current
  <2>11. \A u \in RTask : CallFresh(u, call[u])'
    <3>1. CallFresh(t, call[t])'
      BY <1>1, <1>2, <2>2, <2>3 DEF CallFresh, Current, Becomes, Keyed, InCall, Loads
    <3>2. ASSUME NEW u \in RTask \ {t} PROVE CallFresh(u, call[u])'
      <4>1. CallFresh(u, call[u]) /\ CallShape(call[u]) /\ call'[u] = call[u] /\ held'[u] = held[u]
        BY <1>1, <1>2, <2>2 DEF PageInv, Becomes, PageShape
      <4>2. call[u].pc \in InCall => frame'[call[u].f] = frame[call[u].f]
        BY <2>4, <2>5, <4>1 DEF CallShape, HasF, InCall, Loads
      <4> QED BY <1>1, <4>1, <4>2 DEF CallFresh, Current, InCall, Loads
    <3> QED BY <3>1, <3>2
  <2>12. PageOfItsTime'
    <3>1. ASSUME NEW u \in RTask, NEW h \in held[u] PROVE frame'[h.f] = frame[h.f]
      <4>1. h.f \in RFrame /\ h.f # g
        BY <1>2, <2>4 DEF PageShape, Maps
      <4> QED BY <2>5, <4>1
    <3> QED BY <1>1, <3>1 DEF PageInv, PageOfItsTime
  <2> QED BY <2>7, <2>8, <2>9, <2>10, <2>11, <2>12 DEF PageInv
<1> QED BY <1>3, <1>4 DEF Alloc

\* The call of t has a page.
WithFrame(t, c, f, drop) ==
  /\ c.pc = "recheck" /\ c.k = call[t].k /\ c.p = call[t].p /\ c.seen = call[t].seen /\ c.key = call[t].key
  /\ c.f = f /\ c.drop = drop /\ DOMAIN c = DOMAIN NoCall

\* The call of t takes the page that is in the cache; a page of its own goes later.
LEMMA Shared ==
  ASSUME PageInv, NEW t \in RTask, call[t].pc \in {"search", "publish"},
         call[t].key \in DOMAIN cache[call[t].k],
         NEW c, Becomes(t, c), c.pc = "recheck", c.k = call[t].k, c.p = call[t].p, c.seen = call[t].seen, c.key = call[t].key,
         c.f = cache[call[t].k][call[t].key].f, \A f : f \in c.drop <=> HasF(call[t], f), DOMAIN c = DOMAIN NoCall,
         frame' = inc(frame, cache[call[t].k][call[t].key].f), tick' = Used(tick),
         cache' = [cache EXCEPT ![call[t].k] = [cache[call[t].k] EXCEPT ![call[t].key].used = Used(tick)]],
         UNCHANGED <<file, ver, write, held>>
  PROVE  PageInv'
<1> DEFINE k == call[t].k
           key == call[t].key
           g == cache[k][key].f
           D == c.drop
<1>1. /\ PageShape /\ CallShape(call[t]) /\ CallFresh(t, call[t]) /\ tick' \in Nat
      /\ DOMAIN held = RTask /\ DOMAIN cache = Kinds /\ Used(tick) \in Nat
  BY CallIn
<1>2. /\ c.pc = "recheck" /\ c.k = k /\ c.p = call[t].p /\ c.seen = call[t].seen /\ c.key = key
      /\ c.f = g /\ c.drop = D /\ DOMAIN c = DOMAIN call[t]
  BY CallIn, <1>1 DEF CallShape
<1>3. Becomes(t, c)
  OBVIOUS
<1>4. k \in Kinds /\ key \in Keys /\ key.p = call[t].p /\ EntriesShape(cache[k])
  BY <1>1 DEF CallShape, Keyed, InCall, Loads, PageShape
<1>5. g \in RFrame
  BY <1>4 DEF EntriesShape
<1>6. OnlyTask(t)
  BY <1>1, <1>3 DEF OnlyTask, Becomes
<1>7. SameData /\ \A f \in RFrame : frame'[f].ref = frame[f].ref + N(f = g)
  <2>1. /\ DOMAIN inc(frame, g) = RFrame
        /\ \A f \in RFrame : /\ DOMAIN inc(frame, g)[f] = {"ref", "data"} /\ inc(frame, g)[f].data = frame[f].data
                             /\ inc(frame, g)[f].ref = frame[f].ref + N(f = g)
    BY <1>1, <1>5, Inc
  <2>2. frame' = inc(frame, g)
    OBVIOUS
  <2> QED BY ONLY <2>1, <2>2 DEF SameData
<1>8. SameCache
  <2>1. /\ DOMAIN cache' = Kinds /\ cache'[k] = [cache[k] EXCEPT ![key].used = Used(tick)]
        /\ \A j \in Kinds \ {k} : cache'[j] = cache[j]
    BY <1>1, <1>4
  <2> DEFINE m == cache[k]
             n == cache'[k]
             e == Used(tick)
  <2>old. /\ DOMAIN m \subseteq Keys /\ e \in Nat /\ n = [m EXCEPT ![key].used = e]
          /\ \A x \in DOMAIN m : DOMAIN m[x] = {"f", "used"} /\ m[x].f \in RFrame /\ m[x].used \in Nat
    BY <1>1, <1>4, <2>1 DEF EntriesShape
  <2> HIDE DEF m, n, e, key
  <2>new. /\ DOMAIN n = DOMAIN m
          /\ \A x \in DOMAIN m : DOMAIN n[x] = {"f", "used"} /\ n[x].f = m[x].f /\ n[x].used \in Nat
    BY ONLY <2>old
  <2>2. /\ DOMAIN cache'[k] = DOMAIN cache[k]
        /\ \A x \in DOMAIN cache[k] : /\ DOMAIN cache'[k][x] = {"f", "used"}
                                      /\ cache'[k][x].f = cache[k][x].f /\ cache'[k][x].used \in Nat
    BY ONLY <2>new DEF m, n
  <2>3. ASSUME NEW j \in Kinds \ {k}
        PROVE  /\ DOMAIN cache'[j] = DOMAIN cache[j]
               /\ \A x \in DOMAIN cache[j] : /\ DOMAIN cache'[j][x] = {"f", "used"}
                                             /\ cache'[j][x].f = cache[j][x].f /\ cache'[j][x].used \in Nat
    BY <1>1, <2>1 DEF EntriesShape, PageShape
  <2> QED BY ONLY <2>1, <2>2, <2>3 DEF SameCache
<1>9. held[t] = {} /\ held'[t] = {}
  BY <1>1 DEF CallFresh
<1>10. call'[t] = c
  BY <1>3 DEF Becomes
<1>11. CallShape(c)
  BY <1>1, <1>2, <1>4, <1>5 DEF CallShape, Keyed, InCall, Loads
<1>12. CallFresh(t, call[t])'
  <2>1. key.v = ver => frame[g].data \in Current(key.p)
    BY <1>4 DEF PageInv, EntriesFresh
  <2>2. Current(c.p) \subseteq c.seen /\ key.v <= ver
    BY <1>1, <1>2 DEF CallFresh, Keyed, InCall, Loads
  <2>3. frame'[g].data = frame[g].data
    BY <1>5, <1>7 DEF SameData
  <2>4. key.v = ver => frame'[g].data \in c.seen
    BY <1>2, <1>4, <2>1, <2>2, <2>3
  <2>5. /\ file' = file /\ write' = write /\ ver' = ver
        /\ call'[t].pc = "recheck" /\ call'[t].p = c.p /\ call'[t].seen = c.seen /\ call'[t].key = key /\ call'[t].f = g
    BY <1>2, <1>10
  <2>6. Current(call[t].p)' \subseteq call'[t].seen
    <3>1. Current(call[t].p)' = Current(c.p)
      BY ONLY <2>5 DEF Current
    <3> QED BY ONLY <2>2, <2>5, <3>1
  <2>7. ~ (call'[t].pc \in {"loaded", "publish"})
    BY <2>5
  <2> HIDE DEF g, key
  <2> QED BY ONLY <1>9, <2>2, <2>4, <2>5, <2>6, <2>7 DEF CallFresh
<1>13. ASSUME NEW f \in RFrame
       PROVE  frame'[f].ref = frame[f].ref + Users(held'[t], call'[t], f) - Users(held[t], call[t], f)
  <2>1. Users(held[t], call[t], f) = N(Maps(held[t], f)) + N(HasF(call[t], f))
    BY DEF Users, Drops, N
  <2>2. Users(held'[t], c, f) = N(Maps(held[t], f)) + N(f = g) + N(HasF(call[t], f))
    BY <1>2, <1>9 DEF Users, Drops, HasF, N
  <2>3. /\ N(Maps(held[t], f)) \in Int /\ N(HasF(call[t], f)) \in Int /\ N(f = g) \in Int /\ frame[f].ref \in Int
    BY <1>1 DEF N, PageShape
  <2>4. frame'[f].ref = frame[f].ref + N(f = g) /\ call'[t] = c
    BY <1>7, <1>10
  <2> QED BY ONLY <2>1, <2>2, <2>3, <2>4
<1>14. ASSUME NEW u \in RTask \ {t}, call[u].pc \in Loads PROVE ~UsedBy(t, call[u].f)'
  <2>1. Alone(u, call[u].f) /\ call'[u].f = call[u].f
    BY <1>3, <1>14 DEF PageInv, Apart, Becomes
  <2>2. call[u].f # g /\ call[u].f \notin D
    BY <1>4, <2>1 DEF Alone, HasF, InCall, Loads
  <2> QED BY <1>2, <1>9, <1>10, <2>1, <2>2 DEF UsedBy, Maps, HasF, Drops
<1>15. HeldShape(held'[t]) /\ \A h \in held'[t] : frame'[h.f].data \in h.seen
  BY <1>9 DEF HeldShape
<1>16. call'[t].pc \notin Loads
  BY <1>2, <1>10 DEF Loads
<1> QED BY <1>1, <1>6, <1>7, <1>8, <1>10, <1>11, <1>12, <1>13, <1>14, <1>15, <1>16, Stepped

LEMMA LookupKeeps == ASSUME PageInv, NEW t \in RTask, Lookup(t) PROVE PageInv'
<1>1. call[t].pc = "search" /\ tick' = Used(tick) /\ UNCHANGED <<file, ver, write, held>>
  BY DEF Lookup
<1>2. PageShape /\ CallShape(call[t]) /\ CallFresh(t, call[t]) /\ tick' \in Nat
  BY <1>1, CallIn
<1>3. \A f : ~HasF(call[t], f) /\ ~Drops(call[t], f)
  BY <1>1 DEF HasF, Drops
<1>4. CASE /\ call[t].key \notin DOMAIN cache[call[t].k]
           /\ call' = [call EXCEPT ![t].pc = "alloc"] /\ UNCHANGED <<cache, frame>>
  <2> DEFINE c == [call[t] EXCEPT !.pc = "alloc"]
  <2>1. Becomes(t, c)
    BY <1>2, <1>4, CallOf
  <2>2. /\ c.pc = "alloc" /\ c.k = call[t].k /\ c.p = call[t].p /\ c.seen = call[t].seen /\ c.key = call[t].key
        /\ c.f = call[t].f /\ c.drop = call[t].drop /\ DOMAIN c = DOMAIN NoCall
    BY WithPc
  <2> HIDE DEF c
  <2>3. CallShape(c)
    BY <1>1, <1>2, <2>2 DEF CallShape, Keyed, InCall, Loads
  <2>4. CallFresh(t, c)
    BY <1>1, <1>2, <2>2 DEF CallFresh, Keyed, InCall, Loads
  <2>5. \A f : ~HasF(c, f) /\ ~Drops(c, f)
    BY <2>2 DEF HasF, Drops
  <2>6. c.pc \notin Loads
    BY <2>2 DEF Loads
  <2> QED BY <1>1, <1>2, <1>3, <1>4, <2>1, <2>3, <2>4, <2>5, <2>6, Moved
<1>5. CASE /\ call[t].key \in DOMAIN cache[call[t].k]
           /\ \E f \in {cache[call[t].k][call[t].key].f} :
                /\ frame' = inc(frame, f)
                /\ cache' = [cache EXCEPT ![call[t].k][call[t].key].used = tick']
                /\ call' = [call EXCEPT ![t] = [@ EXCEPT !.pc = "recheck", !.f = f, !.drop = {}]]
  <2> DEFINE g == cache[call[t].k][call[t].key].f
             c == [call[t] EXCEPT !.pc = "recheck", !.f = g, !.drop = {}]
  <2>1. frame' = inc(frame, g) /\ call' = [call EXCEPT ![t] = c]
    BY <1>5
  <2>2. cache' = [cache EXCEPT ![call[t].k] = [cache[call[t].k] EXCEPT ![call[t].key].used = Used(tick)]]
    BY <1>1, <1>5
  <2>3. Becomes(t, c)
    BY <1>2, <2>1, CallOf
  <2>4. WithFrame(t, c, g, {})
    BY CallIn, <1>2 DEF WithFrame, CallShape
  <2>5. call[t].pc \in {"search", "publish"} /\ call[t].key \in DOMAIN cache[call[t].k]
    BY <1>1, <1>5
  <2> HIDE DEF c
  <2>6. /\ c.pc = "recheck" /\ c.k = call[t].k /\ c.p = call[t].p /\ c.seen = call[t].seen /\ c.key = call[t].key
        /\ c.f = g /\ DOMAIN c = DOMAIN NoCall /\ \A f : f \in c.drop <=> HasF(call[t], f)
    BY <1>3, <2>4 DEF WithFrame
  <2> QED BY <1>1, <2>1, <2>2, <2>3, <2>5, <2>6, Shared
<1> QED BY <1>1, <1>4, <1>5 DEF Lookup

-----------------------------------------------------------------------------
(***************************************************************************)
(* publish_page.                                                           *)
(***************************************************************************)
\* The outcomes of Publish: the page is there already, there is no room for it, it goes in.
PublishCase(t, c) ==
  LET k == call[t].k
      key == call[t].key
      m == cache[k]
      g == call[t].f
  IN \/ /\ key \in DOMAIN m /\ WithFrame(t, c, m[key].f, {g}) /\ frame' = inc(frame, m[key].f)
        /\ cache' = [cache EXCEPT ![k] = [m EXCEPT ![key].used = Used(tick)]]
     \/ /\ WithFrame(t, c, g, {}) /\ frame' = frame /\ cache' = [cache EXCEPT ![k] = m]
     \/ \E V \in SUBSET DOMAIN m :
          /\ (V = {} /\ Cardinality(DOMAIN m) < Capacity) \/ \E x \in DOMAIN m : V = {x}
          /\ key \notin DOMAIN m /\ WithFrame(t, c, g, {m[x].f : x \in V}) /\ frame' = inc(frame, g)
          /\ cache' = [cache EXCEPT ![k] = with(without(m, V), key, [f |-> g, used |-> Used(tick)])]

LEMMA PublishCases ==
  ASSUME PageInv, NEW t \in RTask, Publish(t)
  PROVE  /\ call[t].pc = "publish" /\ tick' = Used(tick) /\ UNCHANGED <<file, ver, write, held>>
         /\ \E c : Becomes(t, c) /\ PublishCase(t, c)
<1> DEFINE k == call[t].k
           key == call[t].key
           m == cache[k]
           g == call[t].f
           full == Cardinality(DOMAIN m) >= Capacity
           V == IF full /\ k = "elf" THEN {oldest(m)} ELSE {}
<1>1. call[t].pc = "publish" /\ tick' = Used(tick) /\ UNCHANGED <<file, ver, write, held>>
  BY DEF Publish
<1>2. PageShape /\ CallShape(call[t])
  BY CallIn
<1>3. k \in Kinds /\ EntriesShape(m)
  BY <1>1, <1>2 DEF CallShape, PageShape
<1>4. PICK r : /\ r = publish_page(call[t], key) /\ frame' = r.frame /\ cache' = [cache EXCEPT ![k] = r.cache]
               /\ call' = [call EXCEPT ![t] = [@ EXCEPT !.pc = "recheck", !.f = r.f, !.drop = r.drop]]
  BY DEF Publish
<1>5. r = IF key \in DOMAIN m
          THEN [frame |-> inc(frame, m[key].f), cache |-> [m EXCEPT ![key].used = Used(tick)], f |-> m[key].f, drop |-> {g}]
          ELSE IF full /\ k = "mmap" THEN [frame |-> frame, cache |-> m, f |-> g, drop |-> {}]
          ELSE [frame |-> inc(frame, g), f |-> g, drop |-> {m[x].f : x \in V},
                cache |-> with(without(m, V), key, [f |-> g, used |-> Used(tick)])]
  BY <1>4 DEF publish_page
<1> DEFINE c == [call[t] EXCEPT !.pc = "recheck", !.f = r.f, !.drop = r.drop]
<1>6. Becomes(t, c)
  BY <1>2, <1>4, CallOf
<1>7. WithFrame(t, c, r.f, r.drop)
  BY CallIn, <1>2 DEF WithFrame, CallShape
<1> HIDE DEF c
<1>8. CASE key \in DOMAIN m
  <2>1. /\ r.frame = inc(frame, m[key].f) /\ r.cache = [m EXCEPT ![key].used = Used(tick)]
        /\ r.f = m[key].f /\ r.drop = {g}
    BY <1>5, <1>8
  <2>2. PublishCase(t, c)
    BY <1>4, <1>7, <1>8, <2>1 DEF PublishCase
  <2> QED BY <1>1, <1>6, <2>2
<1>9. CASE key \notin DOMAIN m /\ full /\ k = "mmap"
  <2>1. r.frame = frame /\ r.cache = m /\ r.f = g /\ r.drop = {}
    BY <1>5, <1>9
  <2>2. PublishCase(t, c)
    BY <1>4, <1>7, <2>1 DEF PublishCase
  <2> QED BY <1>1, <1>6, <2>2
<1>10. CASE key \notin DOMAIN m /\ ~(full /\ k = "mmap")
  <2>1. /\ r.frame = inc(frame, g) /\ r.f = g /\ r.drop = {m[x].f : x \in V}
        /\ r.cache = with(without(m, V), key, [f |-> g, used |-> Used(tick)])
    BY <1>5, <1>10
  <2>2. /\ V \in SUBSET DOMAIN m
        /\ (V = {} /\ Cardinality(DOMAIN m) < Capacity) \/ \E x \in DOMAIN m : V = {x}
    <3>1. IsFiniteSet(DOMAIN m) /\ Cardinality(DOMAIN m) \in Nat
      BY <1>3, KeysFinite, FS_Subset, FS_CardinalityType DEF EntriesShape
    <3>2. CASE full /\ k = "elf"
      <4>1. DOMAIN m # {}
        BY <3>1, <3>2, FS_EmptySet, PageAssumption
      <4>2. oldest(m) \in DOMAIN m
        BY <1>3, <4>1, Oldest DEF EntriesShape
      <4> QED BY <3>2, <4>2
    <3>3. CASE ~full
      BY <3>1, <3>3, PageAssumption
    <3>4. k = "elf" \/ k = "mmap"
      BY <1>3, PageAssumption
    <3> QED BY <1>10, <3>2, <3>3, <3>4
  <2> HIDE DEF V
  <2>3. PublishCase(t, c)
    BY <1>4, <1>7, <1>10, <2>1, <2>2 DEF PublishCase
  <2> QED BY <1>1, <1>6, <2>3
<1> QED BY <1>8, <1>9, <1>10

\* The cache has no room: the page stays with its call.
LEMMA Bypassed ==
  ASSUME PageInv, NEW t \in RTask, call[t].pc = "publish", NEW c, Becomes(t, c), WithFrame(t, c, call[t].f, {}),
         frame' = frame, cache' = [cache EXCEPT ![call[t].k] = cache[call[t].k]], tick' = Used(tick),
         UNCHANGED <<file, ver, write, held>>
  PROVE  PageInv'
<1>1. /\ PageShape /\ CallShape(call[t]) /\ CallFresh(t, call[t]) /\ tick' \in Nat
      /\ DOMAIN held = RTask /\ DOMAIN cache = Kinds
  BY CallIn
<1>2. /\ c.pc = "recheck" /\ c.k = call[t].k /\ c.p = call[t].p /\ c.seen = call[t].seen /\ c.key = call[t].key
      /\ c.f = call[t].f /\ c.drop = {} /\ DOMAIN c = DOMAIN NoCall
  BY DEF WithFrame
<1>3. call'[t] = c /\ held[t] = {} /\ held'[t] = {}
  BY <1>1 DEF Becomes, CallFresh
<1>4. OnlyTask(t)
  BY <1>1 DEF OnlyTask, Becomes
<1>5. SameData
  BY <1>1 DEF SameData, PageShape
<1>6. SameCache
  <2>1. DOMAIN cache' = Kinds /\ \A k \in Kinds : cache'[k] = cache[k]
    BY <1>1
  <2> QED BY <1>1, <2>1 DEF SameCache, PageShape, EntriesShape
<1>7. CallShape(c)
  BY <1>1, <1>2 DEF CallShape, Keyed, InCall, Loads
<1>8. CallFresh(t, call[t])'
  <2>1. call[t].key.v <= ver /\ Current(c.p) \subseteq c.seen /\ (call[t].key.v = ver => frame[c.f].data \in c.seen)
    BY <1>1, <1>2 DEF CallFresh, Keyed, InCall, Loads
  <2>2. Current(call[t].p)' \subseteq call'[t].seen
    BY <1>2, <1>3, <2>1 DEF Current
  <2>3. ~ (call'[t].pc \in {"loaded", "publish"})
    BY <1>2, <1>3
  <2> QED BY <1>2, <1>3, <2>1, <2>2, <2>3 DEF CallFresh
<1>9. ASSUME NEW f \in RFrame
      PROVE  frame'[f].ref = frame[f].ref + Users(held'[t], call'[t], f) - Users(held[t], call[t], f)
  <2>1. Users(held'[t], c, f) = Users(held[t], call[t], f)
    BY <1>2, <1>3 DEF Users, Drops, HasF, N
  <2>2. Users(held[t], call[t], f) \in Nat /\ frame[f].ref \in Int
    BY <1>1, UsersType DEF PageShape
  <2>3. frame'[f].ref = frame[f].ref /\ call'[t] = c
    BY <1>3
  <2> QED BY ONLY <2>1, <2>2, <2>3
<1>10. ASSUME NEW u \in RTask \ {t}, call[u].pc \in Loads PROVE ~UsedBy(t, call[u].f)'
  <2>1. Alone(u, call[u].f) /\ call'[u].f = call[u].f
    BY <1>10 DEF PageInv, Apart, Becomes
  <2>2. call[u].f # call[t].f
    BY <2>1 DEF Alone, InCall, Loads
  <2> QED BY <1>2, <1>3, <2>1, <2>2 DEF UsedBy, Maps, HasF, Drops
<1>11. HeldShape(held'[t]) /\ \A h \in held'[t] : frame'[h.f].data \in h.seen
  BY <1>3 DEF HeldShape
<1>12. call'[t].pc \notin Loads
  BY <1>2, <1>3 DEF Loads
<1> QED BY <1>1, <1>3, <1>4, <1>5, <1>6, <1>7, <1>8, <1>9, <1>10, <1>11, <1>12, Stepped

\* What the cache of a kind has when a page goes in, and its size.
LEMMA With ==
  ASSUME NEW m, EntriesShape(m), NEW V \in SUBSET DOMAIN m, NEW key \in Keys, key \notin DOMAIN m,
         (V = {} /\ Cardinality(DOMAIN m) < Capacity) \/ \E x \in DOMAIN m : V = {x},
         NEW g \in RFrame, NEW n \in Nat
  PROVE  LET w == with(without(m, V), key, [f |-> g, used |-> n])
         IN  /\ EntriesShape(w) /\ DOMAIN w = (DOMAIN m \ V) \cup {key} /\ w[key].f = g
             /\ \A x \in DOMAIN m \ V : w[x] = m[x]
<1> DEFINE w == with(without(m, V), key, [f |-> g, used |-> n])
           S == DOMAIN m \ V
<1>1. /\ DOMAIN w = S \cup {key} /\ w[key] = [f |-> g, used |-> n]
      /\ \A x \in S : w[x] = m[x]
  BY DEF with, without
<1>2. DOMAIN m \subseteq Keys /\ Cardinality(DOMAIN m) <= Capacity /\ IsFiniteSet(DOMAIN m) /\ Cardinality(DOMAIN m) \in Nat
  BY KeysFinite, FS_Subset, FS_CardinalityType DEF EntriesShape
<1>3. IsFiniteSet(S) /\ Cardinality(S) \in Nat /\ Cardinality(S) < Capacity
  <2>1. CASE V = {} /\ Cardinality(DOMAIN m) < Capacity
    <3>1. S = DOMAIN m
      BY <2>1
    <3> QED BY <1>2, <2>1, <3>1
  <2>2. CASE \E x \in DOMAIN m : V = {x}
    <3>1. PICK x \in DOMAIN m : V = {x}
      BY <2>2
    <3>2. IsFiniteSet(DOMAIN m \ {x}) /\ Cardinality(DOMAIN m \ {x}) = Cardinality(DOMAIN m) - 1
      BY <1>2, FS_RemoveElement
    <3>3. Cardinality(S) \in Nat
      BY <3>1, <3>2, FS_CardinalityType
    <3> QED BY <1>2, <3>1, <3>2, <3>3, PageAssumption
  <2> QED BY <2>1, <2>2
<1>4. Cardinality(S \cup {key}) <= Capacity
  <2>1. Cardinality(S \cup {key}) = Cardinality(S) + 1
    BY <1>3, FS_AddElement
  <2> QED BY <1>3, <2>1, PageAssumption
<1> HIDE DEF w
<1>5. EntriesShape(w)
  <2>1. \A x \in S : DOMAIN m[x] = {"f", "used"} /\ m[x].f \in RFrame /\ m[x].used \in Nat
    BY DEF EntriesShape
  <2>2. ASSUME NEW x \in DOMAIN w PROVE DOMAIN w[x] = {"f", "used"} /\ w[x].f \in RFrame /\ w[x].used \in Nat
    <3>1. CASE x = key
      BY <1>1, <3>1
    <3>2. CASE x \in S
      BY <1>1, <2>1, <3>2
    <3> QED BY <1>1, <3>1, <3>2
  <2> QED BY <1>1, <1>2, <1>4, <2>2 DEF EntriesShape
<1>6. w[key].f = g
  BY <1>1
<1> QED BY <1>1, <1>5, <1>6 DEF w

\* One of the entries V has frame f.
Has(m, V, f) == \E x \in V : m[x].f = f

\* The entries with frame f, when a page goes in and its victim out.
LEMMA EntriesMoved ==
  ASSUME PageShape, NEW k \in Kinds, DOMAIN cache' = Kinds, \A j \in Kinds \ {k} : cache'[j] = cache[j],
         NEW V \in SUBSET DOMAIN cache[k], V = {} \/ \E x \in DOMAIN cache[k] : V = {x},
         NEW key \in Keys, key \notin DOMAIN cache[k], NEW g, NEW f,
         DOMAIN cache'[k] = (DOMAIN cache[k] \ V) \cup {key}, cache'[k][key].f = g,
         \A x \in DOMAIN cache[k] \ V : cache'[k][x] = cache[k][x]
  PROVE  Cardinality(InCache(cache', f)) = Cardinality(InCache(cache, f)) + N(f = g) - N(Has(cache[k], V, f))
<1> DEFINE S == InCache(cache, f)
           T == InCache(cache', f)
           M == {e \in S : ~(e[1] = k /\ e[2] \in V)}
           gone == Has(cache[k], V, f)
<1>1. /\ IsFiniteSet(S) /\ IsFiniteSet(T) /\ IsFiniteSet(M)
      /\ Cardinality(S) \in Nat /\ Cardinality(T) \in Nat /\ Cardinality(M) \in Nat
  <2>1. M \subseteq S
    OBVIOUS
  <2> QED BY <2>1, CacheFinite, FS_Subset, FS_CardinalityType
<1>2. \A j \in Kinds, x \in Keys : /\ <<j, x>> \in S <=> x \in DOMAIN cache[j] /\ cache[j][x].f = f
                                   /\ <<j, x>> \in T <=> x \in DOMAIN cache'[j] /\ cache'[j][x].f = f
                                   /\ <<j, x>> \in M <=> <<j, x>> \in S /\ ~(j = k /\ x \in V)
  BY DEF InCache, Keys
<1>3. S \subseteq Kinds \X Keys /\ T \subseteq Kinds \X Keys /\ M \subseteq Kinds \X Keys
  BY DEF InCache, Keys
<1>4. DOMAIN cache[k] \subseteq Keys
  BY DEF PageShape, EntriesShape
<1> HIDE DEF S, T, M
<1>5. Cardinality(T) = Cardinality(M) + N(f = g)
  <2> DEFINE e == <<k, key>>
  <2>1. \A j \in Kinds, x \in Keys : <<j, x>> # e => (<<j, x>> \in M <=> <<j, x>> \in T)
    BY <1>2
  <2>2. \A y : y # e => (y \in M <=> y \in T)
    BY <1>3, <2>1
  <2>3. e \notin M /\ (e \in T <=> f = g)
    BY <1>2
  <2>4. Cardinality(T) = Cardinality(M) + N(e \in T) - N(e \in M)
    BY <1>1, <2>2, Toggled
  <2>5. N(e \in M) = 0 /\ N(e \in T) = N(f = g) /\ N(f = g) \in Int
    BY <2>3 DEF N
  <2> QED BY ONLY <1>1, <2>4, <2>5
<1>6. Cardinality(M) = Cardinality(S) - N(gone)
  <2>1. CASE V = {}
    <3>1. \A y : y \in M <=> y \in S
      BY <1>2, <1>3, <2>1
    <3>2. M = S /\ ~gone
      BY <2>1, <3>1 DEF Has
    <3> QED BY <1>1, <3>2 DEF N
  <2>2. ASSUME NEW z \in DOMAIN cache[k], V = {z} PROVE Cardinality(M) = Cardinality(S) - N(gone)
    <3> DEFINE e == <<k, z>>
    <3>1. \A j \in Kinds, x \in Keys : <<j, x>> # e => (<<j, x>> \in S <=> <<j, x>> \in M)
      BY <1>2, <2>2
    <3>2. \A y : y # e => (y \in S <=> y \in M)
      BY <1>3, <3>1
    <3>3. e \notin M /\ (e \in S <=> gone)
      BY <1>2, <1>4, <2>2 DEF Has
    <3>4. Cardinality(M) = Cardinality(S) + N(e \in M) - N(e \in S)
      BY <1>1, <3>2, Toggled
    <3>5. N(e \in M) = 0 /\ N(e \in S) = N(gone) /\ N(gone) \in Int
      BY <3>3 DEF N
    <3> HIDE DEF gone, e
    <3> QED BY ONLY <1>1, <3>4, <3>5
  <2> QED BY <2>1, <2>2
<1>7. N(f = g) \in Int /\ N(gone) \in Int
  BY DEF N
<1> HIDE DEF gone
<1>8. Cardinality(T) = Cardinality(S) + N(f = g) - N(gone)
  BY ONLY <1>1, <1>5, <1>6, <1>7
<1> QED BY <1>8 DEF S, T, gone

\* The page goes into the cache, and a victim out.
LEMMA Inserted ==
  ASSUME PageInv, NEW t \in RTask, call[t].pc = "publish", NEW c, Becomes(t, c), NEW V \in SUBSET DOMAIN cache[call[t].k],
         (V = {} /\ Cardinality(DOMAIN cache[call[t].k]) < Capacity) \/ \E x \in DOMAIN cache[call[t].k] : V = {x},
         call[t].key \notin DOMAIN cache[call[t].k],
         WithFrame(t, c, call[t].f, {cache[call[t].k][x].f : x \in V}), frame' = inc(frame, call[t].f),
         cache' = [cache EXCEPT ![call[t].k] = with(without(cache[call[t].k], V), call[t].key, [f |-> call[t].f, used |-> Used(tick)])],
         tick' = Used(tick), UNCHANGED <<file, ver, write, held>>
  PROVE  PageInv'
<1> DEFINE k == call[t].k
           key == call[t].key
           g == call[t].f
           m == cache[k]
<1>1. /\ PageShape /\ CallShape(call[t]) /\ CallFresh(t, call[t]) /\ tick' \in Nat /\ Used(tick) \in Nat
      /\ DOMAIN held = RTask /\ DOMAIN cache = Kinds
  BY CallIn
<1>2. /\ c.pc = "recheck" /\ c.k = k /\ c.p = call[t].p /\ c.seen = call[t].seen /\ c.key = key
      /\ c.f = g /\ c.drop = {m[x].f : x \in V} /\ DOMAIN c = DOMAIN NoCall
  BY DEF WithFrame
<1>3. call'[t] = c /\ held[t] = {} /\ held'[t] = {} /\ \A u \in RTask \ {t} : call'[u] = call[u] /\ held'[u] = held[u]
  BY <1>1 DEF Becomes, CallFresh
<1>4. /\ k \in Kinds /\ key \in Keys /\ key.p = call[t].p /\ g \in RFrame /\ EntriesShape(m)
      /\ key.v <= ver /\ (key.v = ver => frame[g].data \in Current(key.p)) /\ Current(c.p) \subseteq c.seen
  BY <1>1, <1>2 DEF CallShape, CallFresh, Keyed, InCall, Loads, PageShape
<1>5. Alone(t, g)
  BY DEF PageInv, Apart, Loads
<1>room. /\ V \in SUBSET DOMAIN m /\ key \notin DOMAIN m
         /\ (V = {} /\ Cardinality(DOMAIN m) < Capacity) \/ \E x \in DOMAIN m : V = {x}
  OBVIOUS
<1>6. /\ DOMAIN cache' = Kinds /\ \A j \in Kinds \ {k} : cache'[j] = cache[j]
      /\ cache'[k] = with(without(m, V), key, [f |-> g, used |-> Used(tick)])
  BY <1>1, <1>4
<1>7. /\ EntriesShape(cache'[k]) /\ DOMAIN cache'[k] = (DOMAIN m \ V) \cup {key} /\ cache'[k][key].f = g
      /\ \A x \in DOMAIN m \ V : cache'[k][x] = m[x]
  <2> HIDE DEF k, key, g, m
  <2>1. EntriesShape(m) /\ key \in Keys /\ g \in RFrame /\ Used(tick) \in Nat
    BY <1>1, <1>4
  <2> DEFINE w == with(without(m, V), key, [f |-> g, used |-> Used(tick)])
  <2>2. EntriesShape(w) /\ DOMAIN w = (DOMAIN m \ V) \cup {key} /\ w[key].f = g /\ \A x \in DOMAIN m \ V : w[x] = m[x]
    BY ONLY <1>room, <2>1, With
  <2>3. cache'[k] = w
    BY <1>6
  <2> HIDE DEF w
  <2> QED BY ONLY <2>2, <2>3
<1>8. SameData /\ \A f \in RFrame : frame'[f].ref = frame[f].ref + N(f = g)
  <2>1. /\ DOMAIN inc(frame, g) = RFrame
        /\ \A f \in RFrame : /\ DOMAIN inc(frame, g)[f] = {"ref", "data"} /\ inc(frame, g)[f].data = frame[f].data
                             /\ inc(frame, g)[f].ref = frame[f].ref + N(f = g)
    BY <1>1, <1>4, Inc
  <2>2. frame' = inc(frame, g)
    OBVIOUS
  <2> QED BY ONLY <2>1, <2>2 DEF SameData
<1>9. /\ file' = file /\ ver' = ver /\ write' = write /\ held' = held /\ DOMAIN call' = RTask
  BY DEF Becomes
<1> HIDE DEF k, key, g, m
<1>10. CallShape(c)
  BY <1>1, <1>2, <1>4 DEF CallShape, Keyed, InCall, Loads, k, g, key
<1>11. PageShape'
  <2>1. \A j \in Kinds : EntriesShape(cache'[j])
    BY <1>1, <1>6, <1>7 DEF PageShape
  <2>2. \A u \in RTask : CallShape(call'[u])
    BY <1>1, <1>3, <1>10 DEF PageShape
  <2>3. \A f \in RFrame : DOMAIN frame'[f] = {"ref", "data"} /\ frame'[f].ref \in Int
    BY <1>1, <1>8 DEF SameData, PageShape, N
  <2>4. Pending' = Pending /\ DOMAIN frame' = RFrame
    BY <1>8, <1>9 DEF Pending, SameData
  <2>5. \A u \in RTask : held'[u] # {} => \E h \in held'[u] : held'[u] = {h} /\ h.f \in RFrame
    BY <1>1, <1>9 DEF PageShape
  <2> QED BY <1>1, <1>6, <1>9, <2>1, <2>2, <2>3, <2>4, <2>5 DEF PageShape
<1>12. PageRefsExact'
  <2> SUFFICES ASSUME NEW f \in RFrame PROVE (frame[f].ref)' = Holders(f)'
    BY DEF PageRefsExact
  <2> DEFINE gone == Has(m, V, f)
  <2>1. Holders(f)' = Holders(f) + Users(held'[t], call'[t], f) - Users(held[t], call[t], f)
                      + Cardinality(InCache(cache', f)) - Cardinality(InCache(cache, f))
    BY <1>3, CountStep
  <2>2. Cardinality(InCache(cache', f)) = Cardinality(InCache(cache, f)) + N(f = g) - N(gone)
    <3>1. /\ V \in SUBSET DOMAIN cache[k] /\ key \notin DOMAIN cache[k]
          /\ V = {} \/ \E x \in DOMAIN cache[k] : V = {x}
          /\ DOMAIN cache'[k] = (DOMAIN cache[k] \ V) \cup {key} /\ cache'[k][key].f = g
          /\ \A x \in DOMAIN cache[k] \ V : cache'[k][x] = cache[k][x]
      BY <1>7, <1>room DEF m
    <3>2. PageShape /\ k \in Kinds /\ key \in Keys
      BY <1>1, <1>4
    <3>3. Cardinality(InCache(cache', f)) = Cardinality(InCache(cache, f)) + N(f = g) - N(Has(cache[k], V, f))
      BY ONLY <1>6, <3>1, <3>2, EntriesMoved
    <3> QED BY <3>3 DEF m
  <2>3. Users(held'[t], call'[t], f) = N(Maps(held[t], f)) + N(f = g) + N(gone)
    BY <1>2, <1>3 DEF Users, HasF, Drops, N, Has
  <2>4. Users(held[t], call[t], f) = N(Maps(held[t], f)) + N(f = g)
    BY <1>2 DEF Users, HasF, Drops, N, g
  <2>5. frame[f].ref = Holders(f) /\ Holders(f) \in Nat /\ Cardinality(InCache(cache, f)) \in Nat
    BY HoldersType, CacheFinite DEF PageInv, PageRefsExact
  <2>6. N(Maps(held[t], f)) \in Int /\ N(f = g) \in Int /\ N(gone) \in Int
    BY DEF N
  <2>7. frame'[f].ref = frame[f].ref + N(f = g)
    BY <1>8
  <2> HIDE DEF gone
  <2> QED BY ONLY <2>1, <2>2, <2>3, <2>4, <2>5, <2>6, <2>7
<1>13. Apart'
  <2> SUFFICES ASSUME NEW u \in RTask, call'[u].pc \in Loads PROVE Alone(u, call[u].f)'
    BY DEF Apart
  <2> DEFINE f == call[u].f
  <2>1. u # t /\ call'[u] = call[u]
    BY <1>2, <1>3 DEF Loads
  <2>2. Alone(u, f)
    BY <2>1 DEF PageInv, Apart
  <2>3. f # g
    BY <2>1, <2>2 DEF Alone, InCall, Loads, g
  <2>4. \A j \in Kinds : \A x \in DOMAIN cache[j] : cache[j][x].f # f
    BY <2>2 DEF Alone
  <2> HIDE DEF f
  <2>5. ASSUME NEW j \in Kinds, NEW x \in DOMAIN cache'[j] PROVE cache'[j][x].f # f
    <3>1. CASE j # k
      BY <1>6, <2>4, <2>5, <3>1
    <3>2. CASE j = k /\ x = key
      BY <1>7, <2>3, <3>2
    <3>3. CASE j = k /\ x # key
      BY <1>4, <1>7, <2>4, <2>5, <3>3 DEF m
    <3> QED BY <3>1, <3>2, <3>3
  <2>6. \A r \in RTask : \A h \in held'[r] : h.f # f
    BY <1>9, <2>2 DEF Alone
  <2>7. \A r \in RTask \ {u} : call'[r].pc \in InCall => call'[r].f # f
    BY <1>2, <1>3, <2>2, <2>3 DEF Alone
  <2>8. f \notin c.drop
    BY <1>2, <1>4, <1>room, <2>4 DEF m
  <2>9. \A r \in RTask : call'[r].pc = "recheck" => f \notin call'[r].drop
    BY <1>3, <2>2, <2>8 DEF Alone
  <2>10. call'[u].f = f
    BY <2>1 DEF f
  <2> QED BY <2>5, <2>6, <2>7, <2>9, <2>10 DEF Alone
<1>14. EntriesFresh'
  <2> SUFFICES ASSUME NEW j \in Kinds, NEW x \in DOMAIN cache'[j]
               PROVE  x.v <= ver' /\ (x.v = ver' => frame'[cache'[j][x].f].data \in Current(x.p)')
    BY DEF EntriesFresh
  <2>1. Current(x.p)' = Current(x.p)
    BY <1>9 DEF Current
  <2>2. CASE j = k /\ x = key
    <3>1. frame'[g].data = frame[g].data
      BY <1>4, <1>8 DEF SameData
    <3> QED BY <1>4, <1>7, <1>9, <2>1, <2>2, <3>1
  <2>3. CASE ~(j = k /\ x = key)
    <3>1. x \in DOMAIN cache[j] /\ cache'[j][x] = cache[j][x]
      BY <1>6, <1>7, <2>3 DEF m
    <3>2. cache[j][x].f \in RFrame /\ x.v <= ver /\ (x.v = ver => frame[cache[j][x].f].data \in Current(x.p))
      BY <1>1, <3>1 DEF PageInv, EntriesFresh, PageShape, EntriesShape
    <3>3. frame'[cache[j][x].f].data = frame[cache[j][x].f].data
      BY <1>8, <3>2 DEF SameData
    <3> QED BY <1>9, <2>1, <3>1, <3>2, <3>3
  <2> QED BY <2>2, <2>3
<1>15. \A u \in RTask : CallFresh(u, call[u])'
  <2>1. CallFresh(t, call[t])'
    <3>1. frame'[g].data = frame[g].data /\ Current(c.p)' = Current(c.p)
      <4>1. frame'[g].data = frame[g].data
        BY <1>4, <1>8 DEF SameData
      <4>2. /\ file' = file /\ write' = write
        BY <1>9
      <4> QED BY <4>1, <4>2 DEF Current
    <3>2. Current(call[t].p)' \subseteq call'[t].seen
      BY <1>3, <1>4, <1>9 DEF Current
    <3>3. key.v = ver => frame'[g].data \in c.seen
      BY <1>2, <1>4, <3>1
    <3> QED BY <1>2, <1>3, <1>4, <1>9, <3>2, <3>3 DEF CallFresh
  <2>2. ASSUME NEW u \in RTask \ {t} PROVE CallFresh(u, call[u])'
    <3>1. CallFresh(u, call[u]) /\ CallShape(call[u]) /\ call'[u] = call[u] /\ held'[u] = held[u]
      BY <1>1, <1>3 DEF PageInv, PageShape
    <3>2. call[u].pc \in InCall => frame'[call[u].f].data = frame[call[u].f].data
      BY <1>8, <3>1 DEF CallShape, SameData
    <3> QED BY <1>9, <3>1, <3>2 DEF CallFresh, Current, InCall, Loads
  <2> QED BY <2>1, <2>2
<1>16. PageOfItsTime'
  <2>1. ASSUME NEW u \in RTask, NEW h \in held[u] PROVE frame'[h.f].data \in h.seen
    <3>1. h.f \in RFrame
      BY <1>1 DEF PageShape
    <3> QED BY <1>8, <3>1 DEF PageInv, PageOfItsTime, SameData
  <2> QED BY <1>9, <2>1 DEF PageOfItsTime
<1> QED BY <1>11, <1>12, <1>13, <1>14, <1>15, <1>16 DEF PageInv

LEMMA PublishKeeps == ASSUME PageInv, NEW t \in RTask, Publish(t) PROVE PageInv'
<1>1. /\ call[t].pc = "publish" /\ tick' = Used(tick) /\ UNCHANGED <<file, ver, write, held>>
      /\ \E c : Becomes(t, c) /\ PublishCase(t, c)
  BY PublishCases
<1>2. PICK c : Becomes(t, c) /\ PublishCase(t, c)
  BY <1>1
<1>3. CASE /\ call[t].key \in DOMAIN cache[call[t].k]
           /\ WithFrame(t, c, cache[call[t].k][call[t].key].f, {call[t].f})
           /\ frame' = inc(frame, cache[call[t].k][call[t].key].f)
           /\ cache' = [cache EXCEPT ![call[t].k] = [cache[call[t].k] EXCEPT ![call[t].key].used = Used(tick)]]
  <2>1. /\ c.pc = "recheck" /\ c.k = call[t].k /\ c.p = call[t].p /\ c.seen = call[t].seen /\ c.key = call[t].key
        /\ c.f = cache[call[t].k][call[t].key].f /\ DOMAIN c = DOMAIN NoCall /\ \A f : f \in c.drop <=> HasF(call[t], f)
    BY <1>1, <1>3 DEF WithFrame, HasF
  <2>2. call[t].pc \in {"search", "publish"}
    BY <1>1
  <2> QED BY <1>1, <1>2, <1>3, <2>1, <2>2, Shared
<1>4. CASE /\ WithFrame(t, c, call[t].f, {}) /\ frame' = frame
           /\ cache' = [cache EXCEPT ![call[t].k] = cache[call[t].k]]
  BY <1>1, <1>2, <1>4, Bypassed
<1>5. ASSUME NEW V \in SUBSET DOMAIN cache[call[t].k],
             (V = {} /\ Cardinality(DOMAIN cache[call[t].k]) < Capacity) \/ \E x \in DOMAIN cache[call[t].k] : V = {x},
             call[t].key \notin DOMAIN cache[call[t].k],
             WithFrame(t, c, call[t].f, {cache[call[t].k][x].f : x \in V}), frame' = inc(frame, call[t].f),
             cache' = [cache EXCEPT ![call[t].k] = with(without(cache[call[t].k], V), call[t].key, [f |-> call[t].f, used |-> Used(tick)])]
      PROVE  PageInv'
  BY <1>1, <1>2, <1>5, Inserted
<1> QED BY <1>2, <1>3, <1>4, <1>5 DEF PublishCase

-----------------------------------------------------------------------------
(***************************************************************************)
(* The end of a call, and of a mapping.                                     *)
(***************************************************************************)
LEMMA FinishKeeps == ASSUME PageInv, NEW t \in RTask, Finish(t) PROVE PageInv'
<1> DEFINE d == call[t]
           fr == [f \in RFrame |-> IF f \in d.drop THEN [frame[f] EXCEPT !.ref = @ - 1] ELSE frame[f]]
<1>1. d.pc = "recheck" /\ UNCHANGED <<file, ver, write, cache, tick>>
  BY DEF Finish
<1>2. /\ PageShape /\ CallShape(d) /\ CallFresh(t, d) /\ tick \in Nat /\ DOMAIN held = RTask /\ DOMAIN call = RTask
      /\ DOMAIN cache = Kinds
  BY CallIn
<1>3. d.f \in RFrame /\ held[t] = {}
  BY <1>1, <1>2 DEF CallShape, CallFresh, InCall, Loads
<1>4. /\ DOMAIN fr = RFrame
      /\ \A f \in RFrame : /\ DOMAIN fr[f] = {"ref", "data"} /\ fr[f].data = frame[f].data
                           /\ fr[f].ref = frame[f].ref - N(f \in d.drop)
  BY <1>2 DEF PageShape, N
<1>5. \A f \in RFrame : frame[f].ref \in Int /\ N(f \in d.drop) \in Int /\ N(f = d.f) \in Int
  BY <1>2 DEF PageShape, N
<1>6. CASE /\ ver = d.key.v /\ call' = [call EXCEPT ![t] = NoCall]
           /\ held' = [held EXCEPT ![t] = {[f |-> d.f, p |-> d.p, seen |-> d.seen]}] /\ frame' = fr
  <2>1. /\ DOMAIN call' = RTask /\ call'[t] = NoCall /\ DOMAIN held' = RTask
        /\ held'[t] = {[f |-> d.f, p |-> d.p, seen |-> d.seen]}
        /\ \A u \in RTask \ {t} : call'[u] = call[u] /\ held'[u] = held[u]
    BY <1>2, <1>6
  <2>2. OnlyTask(t)
    BY <2>1 DEF OnlyTask
  <2>3. SameData
    BY <1>4, <1>6 DEF SameData
  <2>4. SameCache
    BY <1>1, <1>2 DEF SameCache, PageShape, EntriesShape
  <2>5. CallShape(call'[t]) /\ call'[t].pc = "idle"
    BY <2>1, NoCallSound
  <2>6. CallFresh(t, call[t])' /\ call'[t].pc \notin Loads
    BY <2>5 DEF CallFresh, Keyed, InCall, Loads
  <2>7. HeldShape(held'[t])
    BY <1>3, <2>1 DEF HeldShape
  <2>8. \A h \in held'[t] : frame'[h.f].data \in h.seen
    <3>1. frame[d.f].data \in d.seen
      BY <1>1, <1>2, <1>6 DEF CallFresh
    <3> QED BY <1>3, <2>1, <2>3, <3>1 DEF SameData
  <2>9. ASSUME NEW f \in RFrame
        PROVE  frame'[f].ref = frame[f].ref + Users(held'[t], call'[t], f) - Users(held[t], call[t], f)
    <3>1. Users(held'[t], call'[t], f) = N(f = d.f)
      BY <2>1, <2>5 DEF Users, Maps, HasF, Drops, N
    <3>2. Users(held[t], call[t], f) = N(f = d.f) + N(f \in d.drop)
      BY <1>1, <1>3 DEF Users, Maps, HasF, Drops, N
    <3>3. frame'[f].ref = frame[f].ref - N(f \in d.drop)
      BY <1>4, <1>6
    <3> HIDE DEF d
    <3> QED BY ONLY <1>5, <3>1, <3>2, <3>3
  <2>10. ASSUME NEW u \in RTask \ {t}, call[u].pc \in Loads PROVE ~UsedBy(t, call[u].f)'
    <3>1. call'[u].f = call[u].f /\ call[u].f # d.f
      BY <1>1, <2>1, <2>10 DEF PageInv, Apart, Alone, InCall
    <3>2. ~Maps(held'[t], call[u].f)
      BY <2>1, <3>1 DEF Maps
    <3> QED BY <2>5, <3>1, <3>2 DEF UsedBy, HasF, Drops
  <2> QED BY <1>1, <1>2, <2>2, <2>3, <2>4, <2>5, <2>6, <2>7, <2>8, <2>9, <2>10, Stepped
<1>7. CASE /\ ver # d.key.v /\ call' = [call EXCEPT ![t].pc = "lookup"] /\ frame' = dec(fr, d.f) /\ UNCHANGED held
  <2> DEFINE c == [call[t] EXCEPT !.pc = "lookup"]
  <2>1. call' = [call EXCEPT ![t] = c]
    BY <1>7
  <2>2. CallShape(c) /\ CallFresh(t, c) /\ c.pc = "lookup"
    BY <1>1, AgainSound
  <2> HIDE DEF c, fr
  <2>3. /\ DOMAIN frame' = RFrame
        /\ \A f \in RFrame : /\ DOMAIN frame'[f] = {"ref", "data"} /\ frame'[f].data = fr[f].data
                             /\ frame'[f].ref = fr[f].ref - N(f = d.f)
    <3>1. frame' = [fr EXCEPT ![d.f] = [fr[d.f] EXCEPT !.ref = @ - 1]]
      BY <1>7 DEF dec
    <3>2. \A f \in RFrame : frame'[f] = IF f = d.f THEN [fr[d.f] EXCEPT !.ref = @ - 1] ELSE fr[f]
      BY <1>4, <3>1
    <3>3. \A f \in RFrame : fr[f].ref \in Int
      BY <1>4, <1>5
    <3> QED BY <1>3, <1>4, <3>1, <3>2, <3>3 DEF N
  <2>4. SameData
    BY <1>4, <2>3 DEF SameData
  <2>5. ASSUME NEW f \in RFrame PROVE frame'[f].ref = frame[f].ref - N(HasF(call[t], f)) - N(Drops(call[t], f))
    <3>1. N(HasF(call[t], f)) = N(f = d.f) /\ N(Drops(call[t], f)) = N(f \in d.drop)
      BY <1>1 DEF HasF, Drops, N
    <3>2. frame'[f].ref = frame[f].ref - N(f \in d.drop) - N(f = d.f)
      BY <1>4, <2>3
    <3> HIDE DEF d
    <3> QED BY ONLY <1>5, <3>1, <3>2
  <2> QED BY <1>1, <1>7, <2>1, <2>2, <2>4, <2>5, Released
<1> QED BY <1>6, <1>7 DEF Finish

LEMMA UnmapKeeps == ASSUME PageInv, NEW t \in RTask, Unmap(t) PROVE PageInv'
<1>1. /\ PageShape /\ CallShape(call[t]) /\ CallFresh(t, call[t]) /\ tick \in Nat /\ DOMAIN held = RTask /\ DOMAIN call = RTask
      /\ DOMAIN cache = Kinds
  BY CallIn
<1>2. PICK h \in held[t] : held[t] = {h} /\ h.f \in RFrame
  BY <1>1 DEF Unmap, PageShape
<1>3. /\ frame' = dec(frame, h.f) /\ held' = [held EXCEPT ![t] = {}]
      /\ UNCHANGED <<file, ver, write, cache, tick, call>> /\ call[t].pc = "idle"
  BY <1>1, <1>2 DEF Unmap, CallFresh
<1>4. OnlyTask(t) /\ held'[t] = {}
  BY <1>1, <1>3 DEF OnlyTask
<1>5. SameData /\ \A f \in RFrame : frame'[f].ref = frame[f].ref - N(f = h.f)
  BY <1>1, <1>2, <1>3, Dec DEF SameData
<1>6. SameCache
  BY <1>1, <1>3 DEF SameCache, PageShape, EntriesShape
<1>7. CallFresh(t, call[t])' /\ CallShape(call'[t]) /\ call'[t].pc \notin Loads
  BY <1>1, <1>3 DEF CallFresh, Keyed, InCall, Loads
<1>8. ASSUME NEW f \in RFrame
      PROVE  frame'[f].ref = frame[f].ref + Users(held'[t], call'[t], f) - Users(held[t], call[t], f)
  <2>1. Users(held'[t], call'[t], f) = 0
    BY <1>3, <1>4 DEF Users, Maps, HasF, Drops, N
  <2>2. Users(held[t], call[t], f) = N(f = h.f)
    BY <1>2, <1>3 DEF Users, Maps, HasF, Drops, N
  <2>3. frame[f].ref \in Int /\ N(f = h.f) \in Int
    BY <1>1 DEF PageShape, N
  <2> QED BY <1>5, <2>1, <2>2, <2>3
<1>9. ASSUME NEW u \in RTask \ {t} PROVE ~UsedBy(t, call[u].f)'
  BY <1>3, <1>4 DEF UsedBy, Maps, HasF, Drops
<1>10. HeldShape(held'[t]) /\ \A x \in held'[t] : frame'[x.f].data \in x.seen
  BY <1>4 DEF HeldShape
<1> QED BY <1>1, <1>3, <1>4, <1>5, <1>6, <1>7, <1>8, <1>9, <1>10, Stepped

-----------------------------------------------------------------------------
(***************************************************************************)
(* The writers: neither frames, entries nor mappings move.                  *)
(***************************************************************************)
LEMMA CurrentIn ==
  ASSUME NEW p, NEW d
  PROVE  d \in Current(p) <=> d = file[p] \/ \E w \in RWriter : \E o \in write[w] : o.p = p /\ d = o.old
BY DEF Current

\* What a page has after the step.
Now(p) == {file'[p]} \cup {o.old : o \in {o \in UNION {write'[w] : w \in RWriter} : o.p = p}}

\* Calls have what they had, but for what they have seen.
SameCalls ==
  \A t \in RTask : /\ call'[t].pc = call[t].pc /\ call'[t].k = call[t].k /\ call'[t].p = call[t].p
                   /\ call'[t].key = call[t].key /\ call'[t].f = call[t].f /\ call'[t].drop = call[t].drop
                   /\ DOMAIN call'[t] = DOMAIN call[t] /\ call[t].seen \subseteq call'[t].seen

LEMMA Written ==
  ASSUME PageInv, UNCHANGED <<cache, tick, frame, held>>, DOMAIN file' = RPage, DOMAIN write' = RWriter, DOMAIN call' = RTask,
         SameCalls, ver' \in Nat, ver <= ver', ver' + Cardinality(Pending)' <= MaxVersion,
         \A p \in RPage : ver' = ver => Current(p) \subseteq Now(p),
         \A t \in RTask : call[t].pc # "idle" => Now(call[t].p) \subseteq call'[t].seen
  PROVE  PageInv'
<1>0. PageShape
  BY DEF PageInv
<1>1. PageShape'
  <2>1. \A t \in RTask : CallShape(call'[t])
    BY <1>0 DEF PageShape, SameCalls, CallShape
  <2>2. \A k \in Kinds : EntriesShape(cache'[k])
    BY <1>0 DEF PageShape
  <2> QED BY <1>0, <2>1, <2>2 DEF PageShape
<1>2. PageRefsExact'
  <2> SUFFICES ASSUME NEW f \in RFrame PROVE (frame[f].ref)' = Holders(f)'
    BY DEF PageRefsExact
  <2>1. /\ {t \in RTask : call'[t].pc \in {"load", "loaded", "publish", "recheck"} /\ call'[t].f = f}
             = {t \in RTask : call[t].pc \in {"load", "loaded", "publish", "recheck"} /\ call[t].f = f}
        /\ {t \in RTask : call'[t].pc = "recheck" /\ f \in call'[t].drop}
             = {t \in RTask : call[t].pc = "recheck" /\ f \in call[t].drop}
    BY DEF SameCalls
  <2>2. Holders(f)' = Holders(f)
    BY <2>1 DEF Holders
  <2> QED BY <2>2 DEF PageInv, PageRefsExact
<1>3. Apart'
  BY DEF PageInv, Apart, Alone, SameCalls
<1>4. EntriesFresh'
  <2> SUFFICES ASSUME NEW k \in Kinds, NEW x \in DOMAIN cache[k]
               PROVE  x.v <= ver' /\ (x.v = ver' => frame[cache[k][x].f].data \in Now(x.p))
    BY DEF EntriesFresh, Current, Now
  <2>1. x.v \in Nat /\ x.p \in RPage /\ ver \in Nat
    BY <1>0, PageAssumption DEF PageShape, EntriesShape, Keys
  <2>2. x.v <= ver /\ (x.v = ver => frame[cache[k][x].f].data \in Current(x.p))
    BY DEF PageInv, EntriesFresh
  <2>3. x.v <= ver'
    BY <2>1, <2>2
  <2>4. x.v = ver' => x.v = ver /\ ver' = ver
    BY <2>1, <2>2
  <2> QED BY <2>1, <2>2, <2>3, <2>4
<1>5. \A t \in RTask : CallFresh(t, call[t])'
  <2> SUFFICES ASSUME NEW t \in RTask PROVE CallFresh(t, call[t])'
    OBVIOUS
  <2>1. CallFresh(t, call[t]) /\ CallShape(call[t]) /\ ver \in Nat
    BY <1>0 DEF PageInv, PageShape
  <2>2. call[t].pc # "idle" => held'[t] = {} /\ Now(call'[t].p) \subseteq call'[t].seen /\ call[t].p \in RPage
    BY <2>1 DEF CallFresh, CallShape, SameCalls
  <2>3. call[t].pc \in Keyed => call'[t].key.v \in Nat /\ call[t].key.v <= ver /\ call'[t].key.v <= ver'
    BY <2>1, PageAssumption DEF CallFresh, CallShape, Keys, SameCalls
  <2>4. call'[t].pc \in {"loaded", "publish"} /\ call'[t].key.v = ver' => frame[call'[t].f].data \in Now(call'[t].p)
    <3> SUFFICES ASSUME call'[t].pc \in {"loaded", "publish"}, call'[t].key.v = ver'
                 PROVE  frame[call'[t].f].data \in Now(call'[t].p)
      OBVIOUS
    <3>1. call[t].pc \in {"loaded", "publish"} /\ call'[t].key = call[t].key /\ call'[t].f = call[t].f /\ call'[t].p = call[t].p
      BY DEF SameCalls
    <3>2. ver' = ver /\ call[t].key.v = ver
      BY <2>1, <2>3, <3>1 DEF Keyed, InCall, Loads
    <3>3. frame[call[t].f].data \in Current(call[t].p) /\ call[t].p \in RPage
      BY <2>1, <2>2, <3>1, <3>2 DEF CallFresh
    <3>4. frame[call[t].f].data \in Now(call[t].p)
      BY <3>2, <3>3
    <3> QED BY <3>1, <3>4
  <2>5. call'[t].pc = "recheck" /\ call'[t].key.v = ver' => frame[call'[t].f].data \in call'[t].seen
    <3> SUFFICES ASSUME call'[t].pc = "recheck", call'[t].key.v = ver' PROVE frame[call'[t].f].data \in call'[t].seen
      OBVIOUS
    <3>1. call[t].pc = "recheck" /\ call'[t].key = call[t].key /\ call'[t].f = call[t].f
      BY DEF SameCalls
    <3>2. call[t].key.v = ver
      BY <2>1, <2>3, <3>1 DEF Keyed, InCall, Loads
    <3> QED BY <2>1, <3>1, <3>2 DEF CallFresh, SameCalls
  <2>6. call'[t].pc = call[t].pc
    BY DEF SameCalls
  <2>7. Current(call[t].p)' = Now(call'[t].p)
    BY DEF Current, Now
  <2> HIDE DEF Now
  <2> QED BY <2>2, <2>3, <2>4, <2>5, <2>6, <2>7 DEF CallFresh
<1>6. PageOfItsTime'
  BY DEF PageInv, PageOfItsTime
<1> QED BY <1>1, <1>2, <1>3, <1>4, <1>5, <1>6 DEF PageInv

LEMMA WriteDataKeeps ==
  ASSUME PageInv, NEW w \in RWriter, NEW p \in RPage, WriteData(w, p)
  PROVE  PageInv'
<1>1. PageShape /\ Pending \subseteq RWriter /\ IsFiniteSet(Pending) /\ Cardinality(Pending) \in Nat /\ ver \in Nat
  BY VersionRange DEF PageInv, PageShape, Pending
<1>2. PICK new :
        /\ file' = [file EXCEPT ![p] = new]
        /\ call' = [t \in RTask |-> IF call[t].pc # "idle" /\ call[t].p = p THEN [call[t] EXCEPT !.seen = @ \cup {new}] ELSE call[t]]
  BY DEF WriteData
<1>3. /\ write[w] = {} /\ ver + Cardinality(Pending) < MaxVersion /\ UNCHANGED <<ver, cache, tick, frame, held>>
      /\ write' = [write EXCEPT ![w] = {[p |-> p, old |-> file[p]]}]
  BY DEF WriteData, Pending
<1>4. /\ DOMAIN file' = RPage /\ file'[p] = new /\ \A q \in RPage \ {p} : file'[q] = file[q]
      /\ DOMAIN write' = RWriter /\ write'[w] = {[p |-> p, old |-> file[p]]} /\ \A x \in RWriter \ {w} : write'[x] = write[x]
  BY <1>1, <1>2, <1>3 DEF PageShape
<1>5. ver' + Cardinality(Pending)' <= MaxVersion
  <2>1. w \notin Pending /\ Pending' = Pending \cup {w}
    BY <1>3, <1>4 DEF Pending
  <2>2. Cardinality(Pending \cup {w}) = Cardinality(Pending) + 1
    BY <1>1, <2>1, FS_AddElement
  <2>3. Cardinality(Pending)' = Cardinality(Pending) + 1
    BY <2>1, <2>2
  <2> QED BY <1>1, <1>3, <2>3, PageAssumption
<1>6. SameCalls /\ DOMAIN call' = RTask
  <2>1. \A t \in RTask : DOMAIN call[t] = {"pc", "k", "p", "seen", "key", "f", "drop"}
    BY CallIn
  <2>2. ASSUME NEW t \in RTask
        PROVE  /\ call'[t].pc = call[t].pc /\ call'[t].k = call[t].k /\ call'[t].p = call[t].p
               /\ call'[t].key = call[t].key /\ call'[t].f = call[t].f /\ call'[t].drop = call[t].drop
               /\ DOMAIN call'[t] = DOMAIN call[t] /\ call[t].seen \subseteq call'[t].seen
    <3>1. call'[t] = call[t] \/ call'[t] = [call[t] EXCEPT !.seen = @ \cup {new}]
      BY <1>2
    <3> QED BY <2>1, <3>1
  <2> QED BY <1>2, <2>2 DEF SameCalls
<1>7. ASSUME NEW q \in RPage, NEW d
      PROVE  /\ d \in Current(q) => d \in Now(q)
             /\ d \in Now(q) => d \in Current(q) \/ (q = p /\ d = new)
  <2>1. d \in Current(q) <=> d = file[q] \/ \E x \in RWriter : \E o \in write[x] : o.p = q /\ d = o.old
    BY CurrentIn
  <2>2. d \in Now(q) <=> d = file'[q] \/ \E x \in RWriter : \E o \in write'[x] : o.p = q /\ d = o.old
    BY DEF Now
  <2>3. (\E x \in RWriter : \E o \in write'[x] : o.p = q /\ d = o.old)
        <=> (q = p /\ d = file[p]) \/ \E x \in RWriter : \E o \in write[x] : o.p = q /\ d = o.old
    <3>1. (\E o \in write'[w] : o.p = q /\ d = o.old) <=> (q = p /\ d = file[p])
      BY <1>4
    <3>2. ~ \E o \in write[w] : o.p = q /\ d = o.old
      BY <1>3
    <3> QED BY <1>4, <3>1, <3>2
  <2> QED BY <1>4, <2>1, <2>2, <2>3
<1>8. \A q \in RPage : Current(q) \subseteq Now(q)
  BY <1>7
<1>9. ASSUME NEW t \in RTask, call[t].pc # "idle" PROVE Now(call[t].p) \subseteq call'[t].seen
  <2>1. /\ call[t].p \in RPage /\ Current(call[t].p) \subseteq call[t].seen
        /\ DOMAIN call[t] = {"pc", "k", "p", "seen", "key", "f", "drop"}
    BY <1>9, CallIn DEF CallShape, CallFresh
  <2>3. ASSUME NEW d, d \in Now(call[t].p) PROVE d \in call'[t].seen
    <3>2. CASE call[t].p = p
      <4>1. call'[t].seen = call[t].seen \cup {new}
        BY <1>2, <1>9, <2>1, <3>2
      <4> QED BY <1>7, <2>1, <2>3, <4>1
    <3>3. CASE call[t].p # p
      <4>1. call'[t].seen = call[t].seen
        BY <1>2, <3>3
      <4> QED BY <1>7, <2>1, <2>3, <3>3, <4>1
    <3> QED BY <3>2, <3>3
  <2> QED BY <2>3
<1> QED BY <1>1, <1>3, <1>4, <1>5, <1>6, <1>8, <1>9, Written

LEMMA mark_changedKeeps ==
  ASSUME PageInv, NEW w \in RWriter, mark_changed(w)
  PROVE  PageInv'
<1>1. PageShape /\ Pending \subseteq RWriter /\ IsFiniteSet(Pending) /\ Cardinality(Pending) \in Nat /\ ver \in Nat
  BY VersionRange DEF PageInv, PageShape, Pending
<1>2. /\ write[w] # {} /\ ver' = ver + 1 /\ write' = [write EXCEPT ![w] = {}]
      /\ UNCHANGED <<file, cache, tick, frame, call, held>>
  BY DEF mark_changed
<1>3. DOMAIN write' = RWriter /\ write'[w] = {} /\ \A x \in RWriter \ {w} : write'[x] = write[x]
  BY <1>1, <1>2 DEF PageShape
<1>4. ver' + Cardinality(Pending)' <= MaxVersion
  <2>1. w \in Pending /\ Pending' = Pending \ {w}
    BY <1>2, <1>3 DEF Pending
  <2>2. Cardinality(Pending \ {w}) = Cardinality(Pending) - 1
    BY <1>1, <2>1, FS_RemoveElement
  <2>3. Cardinality(Pending)' = Cardinality(Pending) - 1
    BY <2>1, <2>2
  <2>4. ver + Cardinality(Pending) <= MaxVersion
    BY <1>1 DEF PageShape
  <2> QED BY <1>1, <1>2, <2>3, <2>4, PageAssumption
<1>5. SameCalls /\ DOMAIN call' = RTask /\ DOMAIN file' = RPage
  BY <1>1, <1>2 DEF SameCalls, PageShape
<1>6. ASSUME NEW q, NEW d, d \in Now(q) PROVE d \in Current(q)
  <2>1. d \in Current(q) <=> d = file[q] \/ \E x \in RWriter : \E o \in write[x] : o.p = q /\ d = o.old
    BY CurrentIn
  <2>2. d = file'[q] \/ \E x \in RWriter : \E o \in write'[x] : o.p = q /\ d = o.old
    BY <1>6 DEF Now
  <2> QED BY <1>2, <1>3, <2>1, <2>2
<1>7. ASSUME NEW t \in RTask, call[t].pc # "idle" PROVE Now(call[t].p) \subseteq call'[t].seen
  <2>1. Current(call[t].p) \subseteq call[t].seen /\ call'[t] = call[t]
    BY <1>2, <1>7, CallIn DEF CallFresh
  <2>2. Now(call[t].p) \subseteq Current(call[t].p)
    BY <1>6
  <2> QED BY <2>1, <2>2
<1>8. ver' # ver /\ ver' \in Nat /\ ver <= ver'
  BY <1>1, <1>2
<1> QED BY <1>2, <1>3, <1>4, <1>5, <1>7, <1>8, Written

-----------------------------------------------------------------------------
(***************************************************************************)
(* The theorems.                                                           *)
(***************************************************************************)
LEMMA InitSound == RInit => PageInv
<1> SUFFICES ASSUME RInit PROVE PageInv
  OBVIOUS
<1>1. /\ \A k \in Kinds : DOMAIN cache[k] = {} /\ DOMAIN cache = Kinds
      /\ \A t \in RTask : call[t] = NoCall /\ held[t] = {}
      /\ \A w \in RWriter : write[w] = {}
      /\ \A f \in RFrame : frame[f].ref = 0 /\ DOMAIN frame[f] = {"ref", "data"}
  BY DEF RInit
<1>2. NoCall.pc = "idle" /\ \A t : CallShape(NoCall) /\ CallFresh(t, NoCall)
  BY NoCallSound
<1>3. Cardinality({}) = 0
  BY FS_EmptySet
<1>4. PageShape
  <2>1. Pending = {}
    BY <1>1 DEF Pending
  <2>2. ver + Cardinality(Pending) <= MaxVersion
    BY <1>3, <2>1, PageAssumption DEF RInit
  <2>3. \A k \in Kinds : EntriesShape(cache[k])
    <3> SUFFICES ASSUME NEW k \in Kinds PROVE EntriesShape(cache[k])
      OBVIOUS
    <3>1. DOMAIN cache[k] = {}
      BY <1>1
    <3>2. Cardinality(DOMAIN cache[k]) = 0
      BY <1>3, <3>1
    <3> QED BY <3>1, <3>2, PageAssumption DEF EntriesShape
  <2>4. /\ DOMAIN file = RPage /\ DOMAIN write = RWriter /\ DOMAIN cache = Kinds /\ DOMAIN frame = RFrame
        /\ DOMAIN call = RTask /\ DOMAIN held = RTask /\ tick \in Nat /\ ver \in Nat
    BY DEF RInit
  <2>5. \A t \in RTask : CallShape(call[t])
    BY <1>1, <1>2
  <2> QED BY <1>1, <2>2, <2>3, <2>4, <2>5 DEF PageShape
<1>5. PageRefsExact
  <2> SUFFICES ASSUME NEW f \in RFrame PROVE Holders(f) = 0
    BY <1>1 DEF PageRefsExact
  <2> DEFINE C == {x \in Kinds \X [v : 0 .. MaxVersion, p : RPage] : x[2] \in DOMAIN cache[x[1]] /\ cache[x[1]][x[2]].f = f}
             H == {t \in RTask : \E h \in held[t] : h.f = f}
             L == {t \in RTask : call[t].pc \in {"load", "loaded", "publish", "recheck"} /\ call[t].f = f}
             D == {t \in RTask : call[t].pc = "recheck" /\ f \in call[t].drop}
  <2>1. C = {} /\ H = {} /\ L = {} /\ D = {}
    BY <1>1, <1>2
  <2>2. Holders(f) = Cardinality(C) + Cardinality(H) + Cardinality(L) + Cardinality(D)
    BY DEF Holders
  <2> HIDE DEF C, H, L, D
  <2> QED BY <1>3, <2>1, <2>2
<1>6. Apart /\ EntriesFresh /\ PageOfItsTime
  BY <1>1, <1>2 DEF Apart, EntriesFresh, PageOfItsTime, Loads
<1>7. \A t \in RTask : CallFresh(t, call[t])
  BY <1>1, <1>2
<1> QED BY <1>4, <1>5, <1>6, <1>7 DEF PageInv

LEMMA StillSound == ASSUME PageInv, UNCHANGED rvars PROVE PageInv'
<1>1. /\ file' = file /\ ver' = ver /\ write' = write /\ cache' = cache /\ tick' = tick /\ frame' = frame
      /\ call' = call /\ held' = held
  BY DEF rvars
<1>2. PageShape'
  BY <1>1 DEF PageInv, PageShape, Pending
<1>3. PageRefsExact' /\ Apart'
  BY <1>1 DEF PageInv, PageRefsExact, Holders, Apart, Alone
<1>4. EntriesFresh' /\ PageOfItsTime'
  BY <1>1 DEF PageInv, EntriesFresh, PageOfItsTime, Current
<1>5. \A t \in RTask : CallFresh(t, call[t])'
  BY <1>1 DEF PageInv, CallFresh, Current
<1> QED BY <1>2, <1>3, <1>4, <1>5 DEF PageInv

\* Whatever calls, mappings and writers do, in any order and with any number of
\* tasks, pages, frames and cache entries, a frame has the references and the
\* bytes the caches, calls and mappings count on.
THEOREM PageInvariance == RSpec => []PageInv
<1>1. PageInv /\ [RNext]_rvars => PageInv'
  <2> SUFFICES ASSUME PageInv, [RNext]_rvars PROVE PageInv'
    OBVIOUS
  <2>1. ASSUME NEW t \in RTask, NEW k \in Kinds, NEW p \in RPage, load_or_get(t, k, p) PROVE PageInv'
    BY <2>1, BeginKeeps
  <2>2. ASSUME NEW t \in RTask, ReadVersion(t) \/ Lookup(t) \/ Alloc(t) \/ Load(t) \/ CheckLoaded(t) PROVE PageInv'
    BY <2>2, ReadVersionKeeps, LookupKeeps, AllocKeeps, LoadKeeps, CheckLoadedKeeps
  <2>3. ASSUME NEW t \in RTask, Publish(t) \/ Finish(t) \/ Unmap(t) PROVE PageInv'
    BY <2>3, PublishKeeps, FinishKeeps, UnmapKeeps
  <2>4. ASSUME NEW w \in RWriter, NEW p \in RPage, WriteData(w, p) PROVE PageInv'
    BY <2>4, WriteDataKeeps
  <2>5. ASSUME NEW w \in RWriter, mark_changed(w) PROVE PageInv'
    BY <2>5, mark_changedKeeps
  <2>6. CASE UNCHANGED rvars
    BY <2>6, StillSound
  <2> QED BY <2>1, <2>2, <2>3, <2>4, <2>5, <2>6 DEF RNext
<1> QED BY <1>1, InitSound, PTL DEF RSpec

\* No cache grows beyond its capacity, no count falls below zero, and a task has
\* either a mapping or a call.
THEOREM PageTypeCorrect == RSpec => []RTypeOK
<1>1. PageInv => RTypeOK
  <2> SUFFICES ASSUME PageInv PROVE RTypeOK
    OBVIOUS
  <2>1. \A k \in Kinds : Cardinality(DOMAIN cache[k]) <= Capacity
    BY DEF PageInv, PageShape, EntriesShape
  <2>2. \A f \in RFrame : frame[f].ref >= 0
    BY HoldersType DEF PageInv, PageRefsExact
  <2>3. \A t \in RTask : call[t].pc # "idle" => held[t] = {}
    BY DEF PageInv, CallFresh
  <2> QED BY <2>1, <2>2, <2>3 DEF RTypeOK
<1> QED BY <1>1, PageInvariance, PTL

\* cache.rs: a frame has one reference for each entry, call and mapping that has
\* it; an entry of the current version has the bytes the file has unless a write
\* is between its data and its version; what a call maps is a page the file had
\* while it ran.
THEOREM ReadonlyPagesSoundHolds == RSpec => []ReadonlyPagesSound
<1>1. PageInv => ReadonlyPagesSound
  <2> SUFFICES ASSUME PageInv PROVE ReadonlyPagesSound
    OBVIOUS
  <2>1. VersionMatches
    <3> SUFFICES ASSUME \A w \in RWriter : write[w] = {}, NEW k \in Kinds, NEW x \in DOMAIN cache[k], x.v = ver
                 PROVE  frame[cache[k][x].f].data = file[x.p]
      BY DEF VersionMatches
    <3>1. frame[cache[k][x].f].data \in Current(x.p)
      BY DEF PageInv, EntriesFresh
    <3> QED BY <3>1, CurrentIn
  <2> QED BY <2>1 DEF ReadonlyPagesSound, PageInv
<1> QED BY <1>1, PageInvariance, PTL
=============================================================================
