----------------------------- MODULE LockProofs -----------------------------
(***************************************************************************)
(* Theorems about FileLocks: locks of an inode's lock object do not         *)
(* conflict however ranges are split and locks converted, nobody sleeps on  *)
(* a lock that is free, and a call changes its own locks only.              *)
(*                                                                         *)
(* The arithmetic of ranges is in one lemma, RegionPieces: what is left of a *)
(* lock around a region covers what the lock covered outside it.            *)
(***************************************************************************)
EXTENDS FileLocks, FiniteSetTheorems, TLAPS

ObjType == [posix: SUBSET Locks, shared: SUBSET LOwner, exclusive: LOwner \cup {NoOwner}]
CallType == [pc: {"user", "try", "sleep", "blocked", "wake", "check", "remove"},
             op: {"none", "setlk", "unlck", "sh", "ex", "un", "drop"}, i: Obj \cup {0},
             typ: Types, start: Bytes, len: 0 .. Top + 1, owner: LOwner \cup {NoOwner}]
Asks == {"setlk", "unlck", "sh", "ex", "un"}

\* What a call is about.
CallSound(k) ==
  /\ k.pc # "user" => k.i \in Obj
  /\ k.pc \in {"try", "sleep", "blocked"} =>
       k.op \in Asks /\ (k.op \in {"sh", "ex", "un"} => k.owner \in LOwner)

\* NoWaiterForgotten and the test of a sleeper, as functions of the state.
Blocks(o, k, t) ==
  IF k.op = "setlk" THEN posix_would_block(o, t, k.typ, k.start, k.len)
  ELSE flock_would_block(o, t, k.owner, k.op)
Woken(T, O, K) ==
  \A t \in LTask : K[t].pc = "blocked" /\ K[t].i = T /\ ~Blocks(O[T], K[t], t) =>
    \E u \in LTask : K[u].pc = "wake" /\ K[u].i = T

\* The locks of one object.
RecordsApart(P) ==
  \A p, q \in LTask, b \in Bytes : p # q => (Held(P, p, b) = {} \/ "W" \notin Held(P, q, b))
OneType(P) == \A p \in LTask, b \in Bytes : Cardinality(Held(P, p, b)) <= 1
FlocksApart(o) ==
  \A v, w \in LOwner : (v # w /\ o.exclusive = v) => w # o.exclusive /\ w \notin o.shared
ObjSound(o) == RecordsApart(o.posix) /\ OneType(o.posix) /\ FlocksApart(o)

LockInv ==
  /\ LTypeOK
  /\ \A t \in LTask : CallSound(lk[t])
  /\ \A i \in Obj : ObjSound(obj[i])
  /\ Woken(table, obj, lk)

-----------------------------------------------------------------------------
(***************************************************************************)
(* Ranges.                                                                 *)
(***************************************************************************)
InRegion(b, start, len) == start <= b /\ b <= lock_end(start, len)
Around(l, start, len) ==
  IF ~ranges_overlap(l.start, l.len, start, len) THEN {l} ELSE split_lock_around_region(l, start, len)

LEMMA Ends ==
  ASSUME NEW s \in Bytes, NEW n \in 0 .. Top + 1
  PROVE  lock_end(s, n) \in Bytes /\ s <= lock_end(s, n)
BY LockAssumption DEF lock_end, SatAdd, Bytes

LEMMA RegionPieces ==
  ASSUME NEW l \in Locks, NEW start \in Bytes, NEW len \in 0 .. Top + 1
  PROVE  /\ \A m \in Around(l, start, len) : m \in Locks /\ m.pid = l.pid /\ m.typ = l.typ
         /\ \A b \in Bytes : (\E m \in Around(l, start, len) : Covers(m, b))
                               <=> Covers(l, b) /\ ~InRegion(b, start, len)
<1> DEFINE ce == lock_end(start, len)
           le == lock_end(l.start, l.len)
<1>1. /\ l.start \in Bytes /\ l.len \in 0 .. Top + 1 /\ l.typ \in Types /\ l.pid \in LTask
      /\ l = [pid |-> l.pid, typ |-> l.typ, start |-> l.start, len |-> l.len]
  BY DEF Locks
<1>2. ce \in Bytes /\ le \in Bytes /\ start <= ce /\ l.start <= le
  BY <1>1, Ends
<1>3. Top \in Nat /\ Bytes = 0 .. Top
  BY LockAssumption DEF Bytes
<1>4. CASE start > le \/ ce < l.start
  <2>1. Around(l, start, len) = {l}
    BY <1>4 DEF Around, split_lock_around_region
  <2>2. \A b \in Bytes : Covers(l, b) => ~InRegion(b, start, len)
    BY <1>1, <1>2, <1>3, <1>4 DEF Covers, InRegion
  <2> QED BY <2>1, <2>2
<1>5. CASE start <= le /\ l.start <= ce
  <2> DEFINE a == [l EXCEPT !.len = start - l.start]
             rs == SatAdd(ce, 1)
             n == IF l.len = 0 THEN 0 ELSE le - rs + 1
             z == [l EXCEPT !.start = rs, !.len = n]
             A == Left(l, start)
             Z == IF ce < le THEN {z} ELSE {}
  <2>1. Around(l, start, len) = A \cup Z
    <3>1. ranges_overlap(l.start, l.len, start, len)
      BY <1>5 DEF ranges_overlap
    <3>2. ~(start > le \/ ce < l.start)
      BY <1>1, <1>2, <1>3, <1>5
    <3> QED BY <3>1, <3>2 DEF Around, split_lock_around_region
  <2>2. A = IF l.start < start THEN {a} ELSE {}
    BY DEF Left
  <2>3. a = [pid |-> l.pid, typ |-> l.typ, start |-> l.start, len |-> start - l.start]
    BY <1>1
  <2>4. z.start = rs /\ z.len = n /\ z.pid = l.pid /\ z.typ = l.typ
    BY DEF Locks
  <2>5. ASSUME l.start < start
        PROVE  a \in Locks /\ \A b \in Bytes : Covers(a, b) <=> l.start <= b /\ b < start
    <3>1. start - l.start \in 1 .. Top + 1 /\ lock_end(l.start, start - l.start) = start - 1
      BY <1>1, <1>3, <2>5 DEF lock_end, SatAdd
    <3>2. a \in Locks
      BY <1>1, <2>3, <3>1 DEF Locks
    <3>3. \A b \in Bytes : Covers(a, b) <=> l.start <= b /\ b < start
      BY <1>1, <1>3, <2>3, <3>1 DEF Covers
    <3> QED BY <3>2, <3>3
  <2>6. ASSUME ce < le
        PROVE  z \in Locks /\ \A b \in Bytes : Covers(z, b) <=> ce < b /\ b <= le
    <3>1. rs = ce + 1 /\ rs \in Bytes
      BY <1>2, <1>3, <2>6 DEF SatAdd
    <3>2. n \in 0 .. Top + 1 /\ lock_end(rs, n) = le
      <4>1. CASE l.len = 0
        BY <1>3, <4>1 DEF lock_end
      <4>2. CASE l.len # 0
        BY <1>2, <1>3, <2>6, <3>1, <4>2 DEF lock_end, SatAdd
      <4> QED BY <4>1, <4>2
    <3>3. z \in Locks
      BY <3>1, <3>2 DEF Locks
    <3>4. z.start = rs /\ z.len = n
      BY <2>4
    <3> HIDE DEF n, rs, z
    <3>5. \A b \in Bytes : Covers(z, b) <=> rs <= b /\ b <= le
      BY <3>2, <3>4 DEF Covers
    <3>6. \A b \in Bytes : Covers(z, b) <=> ce < b /\ b <= le
      BY <1>2, <1>3, <3>1, <3>5
    <3> QED BY <3>3, <3>6
  <2>7. /\ a.pid = l.pid /\ a.typ = l.typ
        /\ z.pid = l.pid /\ z.typ = l.typ
    BY <2>3, <2>4
  <2> HIDE DEF a, z, A
  <2>8. \A m \in A \cup Z : m \in Locks /\ m.pid = l.pid /\ m.typ = l.typ
    BY <2>2, <2>5, <2>6, <2>7
  <2>9. ASSUME NEW b \in Bytes
        PROVE  (\E m \in A \cup Z : Covers(m, b)) <=> Covers(l, b) /\ ~InRegion(b, start, len)
    <3>1. (\E m \in A : Covers(m, b)) <=> l.start < start /\ l.start <= b /\ b < start
      BY <2>2, <2>5
    <3>2. (\E m \in Z : Covers(m, b)) <=> ce < le /\ ce < b /\ b <= le
      BY <2>6
    <3>3. Covers(l, b) /\ ~InRegion(b, start, len)
            <=> l.start <= b /\ b <= le /\ ~(start <= b /\ b <= ce)
      BY DEF Covers, InRegion
    <3> HIDE DEF ce, le
    <3>4. l.start <= b /\ b <= le /\ ~(start <= b /\ b <= ce)
            <=> \/ l.start < start /\ l.start <= b /\ b < start
                \/ ce < le /\ ce < b /\ b <= le
      BY <1>1, <1>2, <1>3, <1>5
    <3> QED BY <3>1, <3>2, <3>3, <3>4
  <2> QED BY <2>1, <2>8, <2>9
<1> QED BY <1>1, <1>2, <1>3, <1>4, <1>5

\* What a process holds after a region is cut out of its locks, and after a lock
\* is put there: V over the bytes of S, and what it held elsewhere.
Region(start, len) == {b \in Bytes : InRegion(b, start, len)}
Puts(P, R, p, S, V) ==
  /\ R \in SUBSET Locks
  /\ \A q \in LTask, b \in Bytes : Held(R, q, b) = IF q = p /\ b \in S THEN V ELSE Held(P, q, b)

LEMMA HeldRemove ==
  ASSUME NEW P \in SUBSET Locks, NEW p \in LTask, NEW start \in Bytes, NEW len \in 0 .. Top + 1
  PROVE  Puts(P, remove_posix_for_pid_region(P, p, start, len), p, Region(start, len), {})
<1> DEFINE R == remove_posix_for_pid_region(P, p, start, len)
           Of(l) == IF l.pid # p \/ ~ranges_overlap(l.start, l.len, start, len) THEN {l}
                    ELSE split_lock_around_region(l, start, len)
<1>1. \A m : m \in R <=> \E l \in P : m \in Of(l)
  BY DEF remove_posix_for_pid_region
<1>2. \A l \in P : Of(l) = IF l.pid # p THEN {l} ELSE Around(l, start, len)
  BY DEF Around
<1> HIDE DEF R, Of
<1>3. ASSUME NEW l \in P
      PROVE  /\ l \in Locks
             /\ \A m \in Of(l) : m \in Locks /\ m.pid = l.pid /\ m.typ = l.typ
             /\ \A b \in Bytes : (\E m \in Of(l) : Covers(m, b))
                                   <=> Covers(l, b) /\ ~(l.pid = p /\ InRegion(b, start, len))
  <2>1. l \in Locks
    OBVIOUS
  <2>2. CASE l.pid # p
    BY <1>2, <2>1, <2>2
  <2>3. CASE l.pid = p
    <3>1. Of(l) = Around(l, start, len)
      BY <1>2, <2>3
    <3> QED BY <2>1, <2>3, <3>1, RegionPieces
  <2> QED BY <2>2, <2>3
<1>4. R \subseteq Locks
  BY <1>1, <1>3
<1>5. ASSUME NEW q \in LTask, NEW b \in Bytes
      PROVE  Held(R, q, b) = IF q = p /\ InRegion(b, start, len) THEN {} ELSE Held(P, q, b)
  <2>1. ASSUME NEW ty
        PROVE  ty \in Held(R, q, b) <=> ty \in Held(P, q, b) /\ ~(q = p /\ InRegion(b, start, len))
    <3>1. ty \in Held(R, q, b) <=> \E m \in R : m.pid = q /\ Covers(m, b) /\ m.typ = ty
      BY DEF Held
    <3>2. ty \in Held(P, q, b) <=> \E l \in P : l.pid = q /\ Covers(l, b) /\ l.typ = ty
      BY DEF Held
    <3>3. ASSUME NEW m \in R, m.pid = q, Covers(m, b), m.typ = ty
          PROVE  (\E l \in P : l.pid = q /\ Covers(l, b) /\ l.typ = ty) /\ ~(q = p /\ InRegion(b, start, len))
      <4>1. PICK l \in P : m \in Of(l)
        BY <1>1
      <4> QED BY <1>3, <3>3, <4>1
    <3>4. ASSUME NEW l \in P, l.pid = q, Covers(l, b), l.typ = ty, ~(q = p /\ InRegion(b, start, len))
          PROVE  \E m \in R : m.pid = q /\ Covers(m, b) /\ m.typ = ty
      <4>1. \E m \in Of(l) : Covers(m, b)
        BY <1>3, <3>4
      <4> QED BY <1>1, <1>3, <3>4, <4>1
    <3> QED BY <3>1, <3>2, <3>3, <3>4
  <2> QED BY <2>1
<1> QED BY <1>4, <1>5 DEF R, Puts, Region

LEMMA HeldApply ==
  ASSUME NEW P \in SUBSET Locks, NEW p \in LTask, NEW typ \in Types, NEW start \in Bytes, NEW len \in 0 .. Top + 1
  PROVE  Puts(P, apply_posix_lock(P, p, typ, start, len), p, Region(start, len), {typ})
<1> DEFINE S == remove_posix_for_pid_region(P, p, start, len)
           l == [pid |-> p, typ |-> typ, start |-> start, len |-> len]
           R == apply_posix_lock(P, p, typ, start, len)
<1>1. R = S \cup {l} /\ l \in Locks
  BY DEF apply_posix_lock, Locks
<1>2. S \in SUBSET Locks
  BY HeldRemove DEF Puts
<1>3. /\ l.pid = p /\ l.typ = typ
      /\ \A b : Covers(l, b) <=> InRegion(b, start, len)
  BY DEF Covers, InRegion
<1>4. \A q \in LTask, b \in Bytes :
        Held(S, q, b) = IF q = p /\ InRegion(b, start, len) THEN {} ELSE Held(P, q, b)
  BY HeldRemove DEF Puts, Region
<1> HIDE DEF S, l, R
<1>5. ASSUME NEW q \in LTask, NEW b \in Bytes
      PROVE  Held(R, q, b) = IF q = p /\ InRegion(b, start, len) THEN {typ} ELSE Held(P, q, b)
  <2>1. \A ty : ty \in Held(R, q, b)
                <=> ty \in Held(S, q, b) \/ (q = p /\ InRegion(b, start, len) /\ ty = typ)
    BY <1>1, <1>3 DEF Held
  <2>2. Held(S, q, b) = IF q = p /\ InRegion(b, start, len) THEN {} ELSE Held(P, q, b)
    BY <1>4
  <2> QED BY <2>1, <2>2
<1>6. R \in SUBSET Locks
  BY <1>1, <1>2
<1> QED BY <1>5, <1>6 DEF R, Puts, Region

LEMMA HeldRetain ==
  ASSUME NEW P \in SUBSET Locks, NEW p \in LTask
  PROVE  Puts(P, {l \in P : l.pid # p}, p, Bytes, {})
BY DEF Held, Puts

\* A lock that somebody holds over a byte of the region stands in the way.
LEMMA NoConflict ==
  ASSUME NEW o \in ObjType, NEW p \in LTask, NEW typ, NEW start \in Bytes, NEW len \in 0 .. Top + 1,
         ~posix_conflict(o, p, typ, start, len), NEW q \in LTask, q # p, NEW b \in Bytes, InRegion(b, start, len)
  PROVE  Held(o.posix, q, b) = {} \/ (typ = "R" /\ "W" \notin Held(o.posix, q, b))
<1>1. ASSUME NEW l \in o.posix, l.pid = q, Covers(l, b) PROVE typ = "R" /\ l.typ = "R"
  <2>1. l \in Locks
    BY DEF ObjType
  <2>2. l.start \in Bytes /\ l.len \in 0 .. Top + 1
    BY <2>1 DEF Locks
  <2>3. /\ lock_end(l.start, l.len) \in Bytes /\ lock_end(start, len) \in Bytes
        /\ l.start <= b /\ b <= lock_end(l.start, l.len) /\ start <= b /\ b <= lock_end(start, len)
    BY <1>1, <2>2, Ends DEF Covers, InRegion
  <2>4. ranges_overlap(l.start, l.len, start, len)
    <3>1. \A x, y \in Bytes : x <= b /\ b <= y => x <= y
      BY LockAssumption DEF Bytes
    <3> QED BY <2>2, <2>3, <3>1 DEF ranges_overlap
  <2> QED BY <1>1, <2>4 DEF posix_conflict
<1>2. \A ty \in Held(o.posix, q, b) : typ = "R" /\ ty = "R"
  BY <1>1 DEF Held
<1> QED BY <1>2

LEMMA SmallSets == ASSUME NEW x PROVE Cardinality({}) <= 1 /\ Cardinality({x}) <= 1
<1>1. Cardinality({}) = 0 /\ Cardinality({x}) = 1
  BY FS_EmptySet, FS_Singleton
<1> QED BY <1>1

-----------------------------------------------------------------------------
(***************************************************************************)
(* What a granted call and a close do to one object.                       *)
(***************************************************************************)
\* The record locks after a change that touches p's bytes of a region only.
LEMMA Apart ==
  ASSUME NEW P, NEW R, RecordsApart(P), OneType(P), NEW p \in LTask, NEW S, NEW V,
         V \in {{}, {"R"}, {"W"}}, Puts(P, R, p, S, V),
         \A q \in LTask, b \in Bytes : q # p /\ b \in S =>
            V = {} \/ Held(P, q, b) = {} \/ ("W" \notin V /\ "W" \notin Held(P, q, b))
  PROVE  RecordsApart(R) /\ OneType(R)
<1>1. \A q \in LTask, b \in Bytes : Held(R, q, b) = IF q = p /\ b \in S THEN V ELSE Held(P, q, b)
  BY DEF Puts
<1>2. ASSUME NEW q \in LTask, NEW r \in LTask, NEW b \in Bytes, q # r
      PROVE  Held(R, q, b) = {} \/ "W" \notin Held(R, r, b)
  <2>1. Held(P, q, b) = {} \/ "W" \notin Held(P, r, b)
    BY <1>2 DEF RecordsApart
  <2>2. CASE q = p /\ b \in S
    BY <1>1, <1>2, <2>1, <2>2
  <2>3. CASE r = p /\ b \in S
    BY <1>1, <1>2, <2>1, <2>3
  <2>4. CASE ~(q = p /\ b \in S) /\ ~(r = p /\ b \in S)
    BY <1>1, <2>1, <2>4
  <2> QED BY <2>2, <2>3, <2>4
<1>3. ASSUME NEW q \in LTask, NEW b \in Bytes PROVE Cardinality(Held(R, q, b)) <= 1
  <2>1. Cardinality(V) <= 1
    BY SmallSets
  <2>2. Cardinality(Held(P, q, b)) <= 1
    BY DEF OneType
  <2>3. Held(R, q, b) = V \/ Held(R, q, b) = Held(P, q, b)
    BY <1>1
  <2> QED BY <2>1, <2>2, <2>3
<1> QED BY <1>2, <1>3 DEF RecordsApart, OneType

\* Taking locks away needs no permission.
LEMMA CutSound ==
  ASSUME NEW P, NEW R, RecordsApart(P), OneType(P), NEW p \in LTask, NEW S, Puts(P, R, p, S, {})
  PROVE  RecordsApart(R) /\ OneType(R)
BY Apart

LEMMA ApplySound ==
  ASSUME NEW o \in ObjType, RecordsApart(o.posix), OneType(o.posix), NEW p \in LTask, NEW typ \in Types,
         NEW start \in Bytes, NEW len \in 0 .. Top + 1, ~posix_conflict(o, p, typ, start, len),
         NEW R, Puts(o.posix, R, p, Region(start, len), {typ})
  PROVE  RecordsApart(R) /\ OneType(R)
<1> DEFINE V == {typ}
<1>1. V \in {{}, {"R"}, {"W"}}
  BY DEF Types
<1>2. \A q \in LTask, b \in Bytes : q # p /\ b \in Region(start, len) =>
        Held(o.posix, q, b) = {} \/ (typ = "R" /\ "W" \notin Held(o.posix, q, b))
  BY NoConflict DEF Region
<1>3. \A q \in LTask, b \in Bytes : q # p /\ b \in Region(start, len) =>
        V = {} \/ Held(o.posix, q, b) = {} \/ ("W" \notin V /\ "W" \notin Held(o.posix, q, b))
  BY <1>2
<1>4. Puts(o.posix, R, p, Region(start, len), V)
  OBVIOUS
<1> HIDE DEF V
<1> QED BY <1>1, <1>3, <1>4, Apart

\* What a call that is granted does: sound locks, and only those it asked for.
OnlyAsked(o, r, k, t) ==
  /\ \A p \in LTask, b \in Bytes : Held(r.posix, p, b) # Held(o.posix, p, b) =>
       /\ p = t /\ InRegion(b, k.start, k.len)
       /\ Held(r.posix, p, b) = IF k.op = "setlk" THEN {k.typ} ELSE {}
  /\ \A w \in LOwner : FlockOf(r, w) # FlockOf(o, w) => k.owner = w

LEMMA GrantedSound ==
  ASSUME NEW t \in LTask, NEW o \in ObjType, ObjSound(o), lk[t] \in CallType, CallSound(lk[t]),
         lk[t].pc = "try", Release(t) \/ ~Blocks(o, lk[t], t)
  PROVE  /\ Granted(t, o) \in ObjType /\ ObjSound(Granted(t, o))
         /\ OnlyAsked(o, Granted(t, o), lk[t], t)
<1> DEFINE k == lk[t]
           r == Granted(t, o)
<1>1. /\ k.op \in Asks /\ (k.op \in {"sh", "ex", "un"} => k.owner \in LOwner)
      /\ k.typ \in Types /\ k.start \in Bytes /\ k.len \in 0 .. Top + 1
  BY DEF CallSound, CallType
<1>2. /\ o.posix \in SUBSET Locks /\ o.shared \in SUBSET LOwner /\ o.exclusive \in LOwner \cup {NoOwner}
      /\ RecordsApart(o.posix) /\ OneType(o.posix) /\ FlocksApart(o)
  BY DEF ObjType, ObjSound
<1>3. CASE k.op = "setlk"
  <2> DEFINE R == apply_posix_lock(o.posix, t, k.typ, k.start, k.len)
  <2>1. r = [o EXCEPT !.posix = R]
    BY <1>3 DEF Granted
  <2>2. ~posix_conflict(o, t, k.typ, k.start, k.len)
    BY <1>3 DEF Blocks, posix_would_block, Release
  <2>3. Puts(o.posix, R, t, Region(k.start, k.len), {k.typ})
    BY <1>1, <1>2, HeldApply
  <2> HIDE DEF R
  <2>4. RecordsApart(R) /\ OneType(R) /\ R \in SUBSET Locks
    <3>1. R \in SUBSET Locks
      BY <2>3 DEF Puts
    <3>2. RecordsApart(R) /\ OneType(R)
      BY <1>1, <1>2, <2>2, <2>3, ApplySound
    <3> QED BY <3>1, <3>2
  <2>5. r \in ObjType /\ r.posix = R /\ r.shared = o.shared /\ r.exclusive = o.exclusive
    BY <2>1, <2>4 DEF ObjType
  <2> HIDE DEF r
  <2>6. ObjSound(r)
    BY <1>2, <2>4, <2>5 DEF ObjSound, FlocksApart
  <2>7. \A w \in LOwner : FlockOf(r, w) = FlockOf(o, w)
    BY <2>5 DEF FlockOf
  <2>8. OnlyAsked(o, r, k, t)
    BY <1>3, <2>3, <2>5, <2>7 DEF OnlyAsked, Puts, Region
  <2> QED BY <2>5, <2>6, <2>8 DEF r
<1>4. CASE k.op = "unlck"
  <2> DEFINE R == remove_posix_for_pid_region(o.posix, t, k.start, k.len)
  <2>1. r = [o EXCEPT !.posix = R]
    BY <1>4 DEF Granted
  <2>2. Puts(o.posix, R, t, Region(k.start, k.len), {})
    BY <1>1, <1>2, HeldRemove
  <2> HIDE DEF R
  <2>3. RecordsApart(R) /\ OneType(R) /\ R \in SUBSET Locks
    <3>1. R \in SUBSET Locks
      BY <2>2 DEF Puts
    <3>2. RecordsApart(R) /\ OneType(R)
      BY <1>2, <2>2, CutSound
    <3> QED BY <3>1, <3>2
  <2>4. r \in ObjType /\ r.posix = R /\ r.shared = o.shared /\ r.exclusive = o.exclusive
    BY <2>1, <2>3 DEF ObjType
  <2> HIDE DEF r
  <2>5. ObjSound(r)
    BY <1>2, <2>3, <2>4 DEF ObjSound, FlocksApart
  <2>6. \A w \in LOwner : FlockOf(r, w) = FlockOf(o, w)
    BY <2>4 DEF FlockOf
  <2>7. OnlyAsked(o, r, k, t)
    BY <1>4, <2>2, <2>4, <2>6 DEF OnlyAsked, Puts, Region
  <2> QED BY <2>4, <2>5, <2>7 DEF r
<1>5. CASE k.op \in {"sh", "ex"}
  <2>1. /\ o.exclusive \in {NoOwner, k.owner}
        /\ k.op = "ex" => o.shared \in {{}, {k.owner}}
    BY <1>5 DEF Blocks, flock_would_block, Release
  <2>2. /\ r.posix = o.posix
        /\ r.shared = IF k.op = "sh" THEN o.shared \cup {k.owner} ELSE {}
        /\ r.exclusive = IF k.op = "sh" THEN NoOwner ELSE k.owner
        /\ r \in ObjType
    <3>1. CASE k.op = "sh"
      <4>1. r = [o EXCEPT !.shared = o.shared \cup {k.owner}, !.exclusive = NoOwner]
        BY <3>1 DEF Granted
      <4>2. o.shared \cup {k.owner} \in SUBSET LOwner
        BY <1>1, <1>2, <3>1
      <4> QED BY <3>1, <4>1, <4>2 DEF ObjType
    <3>2. CASE k.op = "ex"
      <4>1. r = [o EXCEPT !.shared = {}, !.exclusive = k.owner]
        BY <3>2 DEF Granted
      <4> QED BY <1>1, <1>2, <3>2, <4>1 DEF ObjType
    <3> QED BY <1>5, <3>1, <3>2
  <2> HIDE DEF r
  <2>3. ObjSound(r)
    BY <1>2, <1>5, <2>2, LockAssumption DEF ObjSound, FlocksApart
  <2>4. \A w \in LOwner : FlockOf(r, w) # FlockOf(o, w) => k.owner = w
    BY <1>5, <2>1, <2>2, LockAssumption DEF FlockOf
  <2>5. OnlyAsked(o, r, k, t)
    BY <2>2, <2>4 DEF OnlyAsked
  <2> QED BY <2>2, <2>3, <2>5 DEF r
<1>6. CASE k.op = "un"
  <2>1. r = clear_owner(o, k.owner)
    BY <1>6 DEF Granted
  <2>2. /\ r.posix = o.posix /\ r.shared = o.shared \ {k.owner}
        /\ r.exclusive = IF o.exclusive = k.owner THEN NoOwner ELSE o.exclusive
        /\ r \in ObjType
    BY <1>2, <2>1 DEF ObjType, clear_owner
  <2> HIDE DEF r
  <2>3. ObjSound(r)
    BY <1>2, <2>2, LockAssumption DEF ObjSound, FlocksApart
  <2>4. \A w \in LOwner : FlockOf(r, w) # FlockOf(o, w) => k.owner = w
    BY <2>2, LockAssumption DEF FlockOf
  <2>5. OnlyAsked(o, r, k, t)
    BY <2>2, <2>4 DEF OnlyAsked
  <2> QED BY <2>2, <2>3, <2>5 DEF r
<1> QED BY <1>1, <1>3, <1>4, <1>5, <1>6 DEF Asks

LEMMA ClearSound ==
  ASSUME NEW o \in ObjType, ObjSound(o), NEW w
  PROVE  /\ clear_owner(o, w) \in ObjType /\ ObjSound(clear_owner(o, w))
         /\ clear_owner(o, w).posix = o.posix
<1> DEFINE r == clear_owner(o, w)
<1>1. /\ r.posix = o.posix /\ r.shared = o.shared \ {w}
      /\ r.exclusive = IF o.exclusive = w THEN NoOwner ELSE o.exclusive
      /\ r \in ObjType
  BY DEF ObjType, clear_owner
<1> HIDE DEF r
<1>2. ObjSound(r)
  BY <1>1, LockAssumption DEF ObjSound, FlocksApart
<1> QED BY <1>1, <1>2 DEF r

LEMMA RetainOthersSound ==
  ASSUME NEW o \in ObjType, ObjSound(o), NEW p \in LTask
  PROVE  /\ retain_others(o, p) \in ObjType /\ ObjSound(retain_others(o, p))
         /\ \A q \in LTask, b \in Bytes : q # p => Held(retain_others(o, p).posix, q, b) = Held(o.posix, q, b)
<1> DEFINE r == retain_others(o, p)
           R == {l \in o.posix : l.pid # p}
<1>1. /\ o.posix \in SUBSET Locks /\ RecordsApart(o.posix) /\ OneType(o.posix) /\ FlocksApart(o)
  BY DEF ObjType, ObjSound
<1>2. Puts(o.posix, R, p, Bytes, {})
  BY <1>1, HeldRetain
<1>3. \A q \in LTask, b \in Bytes : q # p => Held(R, q, b) = Held(o.posix, q, b)
  BY DEF Held
<1>4. r = [o EXCEPT !.posix = R]
  BY DEF retain_others
<1> HIDE DEF R
<1>5. RecordsApart(R) /\ OneType(R) /\ R \in SUBSET Locks
  <2>1. R \in SUBSET Locks
    BY <1>2 DEF Puts
  <2>2. RecordsApart(R) /\ OneType(R)
    BY <1>1, <1>2, CutSound
  <2> QED BY <2>1, <2>2
<1>6. r \in ObjType /\ r.posix = R /\ r.shared = o.shared /\ r.exclusive = o.exclusive
  BY <1>4, <1>5 DEF ObjType
<1> HIDE DEF r
<1>7. ObjSound(r)
  BY <1>1, <1>5, <1>6 DEF ObjSound, FlocksApart
<1> QED BY <1>3, <1>6, <1>7 DEF r

-----------------------------------------------------------------------------
(***************************************************************************)
(* Who is woken.                                                           *)
(***************************************************************************)
\* A step of one call that does not end its duty to wake, and does not sleep on a
\* lock it could have.
LEMMA WokenLocal ==
  ASSUME NEW T, NEW O, NEW O2, NEW K \in [LTask -> CallType], Woken(T, O, K),
         NEW t \in LTask, NEW k, K[t].pc # "wake", O2[T] = O[T],
         k.pc = "blocked" /\ k.i = T => Blocks(O2[T], k, t)
  PROVE  Woken(T, O2, [K EXCEPT ![t] = k])
<1> DEFINE L == [K EXCEPT ![t] = k]
<1>1. L[t] = k /\ \A u \in LTask : u # t => L[u] = K[u]
  OBVIOUS
<1> HIDE DEF L
<1>2. ASSUME NEW u \in LTask, L[u].pc = "blocked", L[u].i = T, ~Blocks(O2[T], L[u], u)
      PROVE  \E v \in LTask : L[v].pc = "wake" /\ L[v].i = T
  <2>1. u # t
    BY <1>1, <1>2
  <2>2. PICK v \in LTask : K[v].pc = "wake" /\ K[v].i = T
    BY <1>1, <1>2, <2>1 DEF Woken
  <2> QED BY <1>1, <2>2
<1> QED BY <1>2 DEF Woken, L

\* A call that changed the object of the table is about to wake its sleepers.
LEMMA WokenWaker ==
  ASSUME NEW T, NEW O, NEW K \in [LTask -> CallType], NEW t \in LTask, NEW k, k.pc = "wake", k.i = T
  PROVE  Woken(T, O, [K EXCEPT ![t] = k])
BY DEF Woken

\* Nobody sleeps where there is no object.
LEMMA WokenNone ==
  ASSUME NEW T, NEW O, NEW K, \A u \in LTask : K[u].pc = "blocked" => K[u].i # T
  PROVE  Woken(T, O, K)
BY DEF Woken

-----------------------------------------------------------------------------
(***************************************************************************)
(* The steps.                                                              *)
(***************************************************************************)
CallsSound(K) == K \in [LTask -> CallType] /\ \A t \in LTask : CallSound(K[t])
ObjectsSound(O) == \A i \in Obj : O[i] \in ObjType /\ ObjSound(O[i])
Sound(T, O, K) ==
  /\ T \in Obj \cup {0} /\ O \in [Obj -> ObjType] /\ ObjectsSound(O) /\ CallsSound(K)
  /\ Woken(T, O, K)

LEMMA InvIsSound == LockInv <=> Sound(table, obj, lk)
<1>1. LTypeOK <=> table \in Obj \cup {0} /\ obj \in [Obj -> ObjType] /\ lk \in [LTask -> CallType]
  BY DEF LTypeOK, ObjType, CallType
<1>2. obj \in [Obj -> ObjType] => \A i \in Obj : obj[i] \in ObjType
  OBVIOUS
<1> HIDE DEF ObjType, CallType
<1> QED BY <1>1, <1>2 DEF LockInv, Sound, ObjectsSound, CallsSound

LEMMA CallStep ==
  ASSUME NEW K, CallsSound(K), NEW t \in LTask, NEW k \in CallType, CallSound(k)
  PROVE  CallsSound([K EXCEPT ![t] = k])
<1> DEFINE L == [K EXCEPT ![t] = k]
<1>1. L \in [LTask -> CallType] /\ \A u \in LTask : L[u] = IF u = t THEN k ELSE K[u]
  BY DEF CallsSound
<1> HIDE DEF L
<1>2. CallsSound(L)
  BY <1>1 DEF CallsSound
<1> QED BY <1>2 DEF L

LEMMA IdleSound == LIdle \in CallType /\ CallSound(LIdle) /\ LIdle.pc = "user"
<1>1. LIdle \in CallType
  BY LockAssumption DEF LIdle, CallType, Types, Bytes
<1> QED BY <1>1 DEF LIdle, CallSound

LEMMA InitSound == LInit => Sound(table, obj, lk)
<1> SUFFICES ASSUME LInit PROVE Sound(table, obj, lk)
  OBVIOUS
<1>1. EmptyObj \in ObjType /\ EmptyObj.posix = {} /\ EmptyObj.shared = {} /\ EmptyObj.exclusive = NoOwner
  BY DEF EmptyObj, ObjType
<1>2. \A q, b : Held({}, q, b) = {}
  BY DEF Held
<1>3. RecordsApart({}) /\ OneType({})
  BY <1>2, SmallSets DEF RecordsApart, OneType
<1>4. ObjSound(EmptyObj)
  BY <1>1, <1>3, LockAssumption DEF ObjSound, FlocksApart
<1>5. ObjectsSound(obj) /\ obj \in [Obj -> ObjType]
  BY <1>1, <1>4 DEF LInit, ObjectsSound
<1>6. CallsSound(lk)
  BY IdleSound DEF LInit, CallsSound
<1>7. Woken(table, obj, lk)
  BY IdleSound, WokenNone DEF LInit
<1> QED BY <1>5, <1>6, <1>7 DEF Sound, LInit

LEMMA EnterSound ==
  ASSUME Sound(table, obj, lk), NEW t \in LTask, NEW c \in CallType, c.op \in Asks,
         c.op \in {"sh", "ex", "un"} => c.owner \in LOwner, Enter(t, c)
  PROVE  Sound(table', obj', lk') /\ obj' = obj
<1> DEFINE i == IF table = 0 THEN FreeObj ELSE table
           k == [c EXCEPT !.pc = "try", !.i = i]
<1>1. lk[t].pc = "user" /\ table' = i /\ lk' = [lk EXCEPT ![t] = k] /\ obj' = obj
  BY DEF Enter
<1>2. lk \in [LTask -> CallType] /\ CallsSound(lk) /\ Woken(table, obj, lk) /\ table \in Obj \cup {0}
  BY DEF Sound, CallsSound
<1>3. table = 0 => i \in Obj /\ \A u \in LTask : lk[u].i # i
  BY DEF Enter, HasFree, FreeObj
<1>4. i \in Obj
  BY <1>2, <1>3
<1> HIDE DEF i
<1>5. k \in CallType /\ k.pc = "try" /\ k.i = i /\ k.op = c.op /\ k.owner = c.owner
  BY <1>4 DEF CallType
<1> HIDE DEF k
<1>6. CallSound(k)
  BY <1>4, <1>5 DEF CallSound
<1>7. CallsSound(lk')
  BY <1>1, <1>2, <1>5, <1>6, CallStep
<1>8. Woken(i, obj, lk')
  <2>1. CASE table = 0
    <3>1. Woken(i, obj, lk)
      BY <1>3, <2>1, WokenNone
    <3> QED BY <1>1, <1>2, <1>5, <3>1, WokenLocal
  <2>2. CASE table # 0
    <3>1. i = table
      BY <2>2 DEF i
    <3> QED BY <1>1, <1>2, <1>5, <3>1, WokenLocal
  <2> QED BY <2>1, <2>2
<1> QED BY <1>1, <1>4, <1>7, <1>8 DEF Sound

LEMMA GrantStep ==
  ASSUME Sound(table, obj, lk), NEW t \in LTask, Grant(t)
  PROVE  /\ Sound(table', obj', lk')
         /\ lk[t].pc = "try" /\ lk[t].i \in Obj
         /\ \A u \in LTask : u # t => lk'[u] = lk[u]
         /\ \A j \in Obj : j # lk[t].i => obj'[j] = obj[j]
         /\ OnlyAsked(obj[lk[t].i], obj'[lk[t].i], lk[t], t)
<1> DEFINE i == lk[t].i
           r == Granted(t, obj[i])
           k == [LIdle EXCEPT !.pc = "wake", !.i = i, !.op = IF lk[t].op = "setlk" THEN "setlk" ELSE "drop"]
<1>1. /\ lk[t].pc = "try" /\ (Release(t) \/ ~WouldBlock(t, i))
      /\ obj' = [obj EXCEPT ![i] = r] /\ lk' = [lk EXCEPT ![t] = k] /\ table' = table
  BY DEF Grant
<1>2. /\ lk \in [LTask -> CallType] /\ CallsSound(lk) /\ CallSound(lk[t]) /\ lk[t] \in CallType
      /\ table \in Obj \cup {0} /\ obj \in [Obj -> ObjType] /\ ObjectsSound(obj) /\ Woken(table, obj, lk)
  BY DEF Sound, CallsSound
<1>3. i \in Obj
  BY <1>1, <1>2 DEF CallSound
<1>4. obj[i] \in ObjType /\ ObjSound(obj[i])
  BY <1>2, <1>3 DEF ObjectsSound
<1>5. Release(t) \/ ~Blocks(obj[i], lk[t], t)
  BY <1>1 DEF WouldBlock, Blocks
<1>6. r \in ObjType /\ ObjSound(r) /\ OnlyAsked(obj[i], r, lk[t], t)
  BY <1>1, <1>2, <1>4, <1>5, GrantedSound
<1>7. k \in CallType /\ k.pc = "wake" /\ k.i = i
  BY <1>3, IdleSound DEF CallType
<1> HIDE DEF r, k
<1>8. CallSound(k)
  BY <1>3, <1>7 DEF CallSound
<1>9. CallsSound(lk')
  BY <1>1, <1>2, <1>7, <1>8, CallStep
<1> HIDE DEF i
<1>10. obj' \in [Obj -> ObjType] /\ \A j \in Obj : obj'[j] = IF j = i THEN r ELSE obj[j]
  BY <1>1, <1>2, <1>3, <1>6
<1>11. ObjectsSound(obj')
  BY <1>2, <1>6, <1>10 DEF ObjectsSound
<1>12. Woken(table, obj', lk')
  <2>1. CASE i = table
    BY <1>1, <1>2, <1>7, <2>1, WokenWaker
  <2>2. CASE i # table
    <3>1. obj'[table] = obj[table]
      BY <1>1, <1>2, <2>2
    <3> QED BY <1>1, <1>2, <1>7, <3>1, WokenLocal
  <2> QED BY <2>1, <2>2
<1>13. Sound(table', obj', lk')
  BY <1>1, <1>2, <1>9, <1>10, <1>11, <1>12 DEF Sound
<1>14. \A u \in LTask : u # t => lk'[u] = lk[u]
  BY <1>1, <1>2
<1> QED BY <1>1, <1>3, <1>6, <1>10, <1>13, <1>14 DEF i

\* A step that only moves its own call on.
LEMMA QuietStep ==
  ASSUME Sound(table, obj, lk), NEW t \in LTask, NEW k \in CallType, CallSound(k), lk[t].pc # "wake",
         k.pc = "blocked" => Blocks(obj[k.i], k, t)
  PROVE  Sound(table, obj, [lk EXCEPT ![t] = k])
<1>1. lk \in [LTask -> CallType] /\ CallsSound(lk) /\ Woken(table, obj, lk)
  BY DEF Sound, CallsSound
<1>2. CallsSound([lk EXCEPT ![t] = k])
  BY <1>1, CallStep
<1>3. Woken(table, obj, [lk EXCEPT ![t] = k])
  BY <1>1, WokenLocal
<1> QED BY <1>2, <1>3 DEF Sound

\* Only the place a call has reached changes.
LEMMA MoveOn ==
  ASSUME NEW k \in CallType, CallSound(k), k.pc # "user",
         NEW c \in {"try", "sleep", "blocked", "check", "remove"},
         c \in {"try", "sleep", "blocked"} => k.pc \in {"try", "sleep", "blocked"}
  PROVE  LET m == [k EXCEPT !.pc = c] IN
         /\ m \in CallType /\ CallSound(m) /\ m.pc = c /\ m.i = k.i
         /\ \A o, t : Blocks(o, m, t) <=> Blocks(o, k, t)
<1> DEFINE m == [k EXCEPT !.pc = c]
<1>1. /\ m \in CallType /\ m.pc = c /\ m.i = k.i /\ m.op = k.op /\ m.owner = k.owner
      /\ m.typ = k.typ /\ m.start = k.start /\ m.len = k.len
  BY DEF CallType
<1> HIDE DEF m
<1>2. CallSound(m)
  BY <1>1 DEF CallSound
<1>3. \A o, t : Blocks(o, m, t) <=> Blocks(o, k, t)
  BY <1>1 DEF Blocks
<1> QED BY <1>1, <1>2, <1>3 DEF m

LEMMA QuietSteps ==
  ASSUME Sound(table, obj, lk), NEW t \in LTask, Refuse(t) \/ Sleep(t) \/ Interrupted(t) \/ SeesEmpty(t)
  PROVE  Sound(table', obj', lk') /\ obj' = obj
<1>1. obj' = obj /\ table' = table
  BY DEF Refuse, Sleep, Interrupted, SeesEmpty
<1>2. lk \in [LTask -> CallType] /\ lk[t] \in CallType /\ CallSound(lk[t])
  BY DEF Sound, CallsSound
<1>3. \/ lk' = [lk EXCEPT ![t] = LIdle] /\ lk[t].pc # "wake"
      \/ lk[t].pc = "try" /\ lk' = [lk EXCEPT ![t] = [lk[t] EXCEPT !.pc = "sleep"]]
      \/ /\ lk[t].pc = "sleep"
         /\ lk' = [lk EXCEPT ![t] = [lk[t] EXCEPT !.pc = IF WouldBlock(t, lk[t].i) THEN "blocked" ELSE "try"]]
      \/ lk[t].pc = "check" /\ lk' = [lk EXCEPT ![t] = [lk[t] EXCEPT !.pc = "remove"]]
  <2>1. CASE Refuse(t)
    BY <2>1 DEF Refuse
  <2>2. CASE Sleep(t)
    BY <2>2 DEF Sleep
  <2>3. CASE Interrupted(t)
    BY <2>3 DEF Interrupted
  <2>4. CASE SeesEmpty(t)
    BY <2>4 DEF SeesEmpty
  <2> QED BY <2>1, <2>2, <2>3, <2>4
<1>4. CASE lk' = [lk EXCEPT ![t] = LIdle] /\ lk[t].pc # "wake"
  BY <1>1, <1>4, IdleSound, QuietStep
<1>5. CASE lk[t].pc = "try" /\ lk' = [lk EXCEPT ![t] = [lk[t] EXCEPT !.pc = "sleep"]]
  BY <1>1, <1>2, <1>5, MoveOn, QuietStep
<1>6. CASE /\ lk[t].pc = "sleep"
           /\ lk' = [lk EXCEPT ![t] = [lk[t] EXCEPT !.pc = IF WouldBlock(t, lk[t].i) THEN "blocked" ELSE "try"]]
  <2>1. CASE WouldBlock(t, lk[t].i)
    <3>1. Blocks(obj[lk[t].i], lk[t], t)
      BY <2>1 DEF WouldBlock, Blocks
    <3> QED BY <1>1, <1>2, <1>6, <2>1, <3>1, MoveOn, QuietStep
  <2>2. CASE ~WouldBlock(t, lk[t].i)
    BY <1>1, <1>2, <1>6, <2>2, MoveOn, QuietStep
  <2> QED BY <2>1, <2>2
<1>7. CASE lk[t].pc = "check" /\ lk' = [lk EXCEPT ![t] = [lk[t] EXCEPT !.pc = "remove"]]
  BY <1>1, <1>2, <1>7, MoveOn, QuietStep
<1> QED BY <1>3, <1>4, <1>5, <1>6, <1>7

LEMMA WakeStep ==
  ASSUME Sound(table, obj, lk), NEW t \in LTask, wake_all(t)
  PROVE  Sound(table', obj', lk') /\ obj' = obj
<1>1. lk[t].pc = "wake" /\ obj' = obj /\ table' = table
  BY DEF wake_all
<1>2. lk \in [LTask -> CallType] /\ CallsSound(lk) /\ Woken(table, obj, lk)
  BY DEF Sound, CallsSound
<1>3. ASSUME NEW u \in LTask
      PROVE  /\ lk'[u] \in CallType /\ CallSound(lk'[u])
             /\ \/ lk'[u] = lk[u] /\ u # t /\ ~(lk[u].pc = "blocked" /\ lk[u].i = lk[t].i)
                \/ lk'[u].pc # "blocked" /\ (u = t \/ lk[u].pc = "blocked")
  <2>1. lk[u] \in CallType /\ CallSound(lk[u])
    BY <1>2 DEF CallsSound
  <2>2. CASE u = t /\ lk[t].op = "setlk"
    <3>1. lk'[u] = LIdle
      BY <2>2 DEF wake_all
    <3> QED BY <2>2, <3>1, IdleSound
  <2>3. CASE u = t /\ lk[t].op # "setlk"
    <3>1. lk'[u] = [lk[t] EXCEPT !.pc = "check"]
      BY <2>3 DEF wake_all
    <3> QED BY <1>1, <2>1, <2>3, <3>1, MoveOn
  <2>4. CASE u # t /\ lk[u].pc = "blocked" /\ lk[u].i = lk[t].i
    <3>1. lk'[u] = [lk[u] EXCEPT !.pc = "try"]
      BY <2>4 DEF wake_all
    <3> QED BY <2>1, <2>4, <3>1, MoveOn
  <2>5. CASE u # t /\ ~(lk[u].pc = "blocked" /\ lk[u].i = lk[t].i)
    <3>1. lk'[u] = lk[u]
      BY <2>5 DEF wake_all
    <3> QED BY <2>1, <2>5, <3>1
  <2> QED BY <2>2, <2>3, <2>4, <2>5
<1>4. CallsSound(lk')
  <2>1. lk' \in [LTask -> CallType]
    <3>1. \E F : lk' = [u \in LTask |-> F[u]]
      <4> DEFINE F == [u \in LTask |-> IF u = t THEN IF lk[t].op = "setlk" THEN LIdle ELSE [lk[t] EXCEPT !.pc = "check"]
                       ELSE IF lk[u].pc = "blocked" /\ lk[u].i = lk[t].i THEN [lk[u] EXCEPT !.pc = "try"]
                       ELSE lk[u]]
      <4>1. lk' = F
        BY DEF wake_all
      <4>2. F = [u \in LTask |-> F[u]]
        OBVIOUS
      <4> QED BY <4>1, <4>2
    <3>2. lk' = [u \in LTask |-> lk'[u]]
      BY <3>1
    <3> QED BY <1>3, <3>2
  <2> QED BY <1>3, <2>1 DEF CallsSound
<1>5. Woken(table, obj, lk')
  <2>1. ASSUME NEW u \in LTask, lk'[u].pc = "blocked", lk'[u].i = table, ~Blocks(obj[table], lk'[u], u)
        PROVE  \E v \in LTask : lk'[v].pc = "wake" /\ lk'[v].i = table
    <3>1. lk'[u] = lk[u] /\ lk[u].i # lk[t].i
      BY <1>3, <2>1
    <3>2. PICK v \in LTask : lk[v].pc = "wake" /\ lk[v].i = table
      BY <1>2, <2>1, <3>1 DEF Woken
    <3>3. v # t /\ lk[v].pc # "blocked"
      BY <2>1, <3>1, <3>2
    <3>4. lk'[v] = lk[v]
      BY <1>3, <3>3
    <3> QED BY <3>2, <3>4
  <2> QED BY <2>1 DEF Woken
<1> QED BY <1>1, <1>4, <1>5 DEF Sound

LEMMA DropStep ==
  ASSUME Sound(table, obj, lk), NEW t \in LTask, drop_inode_if_empty(t)
  PROVE  Sound(table', obj', lk') /\ obj' = obj
<1>1. obj' = obj /\ table' = 0 /\ lk' = [lk EXCEPT ![t] = LIdle]
  BY DEF drop_inode_if_empty
<1>2. CallsSound(lk')
  BY <1>1, IdleSound, CallStep DEF Sound
<1>3. \A u \in LTask : lk'[u].pc = "blocked" => lk'[u].i # 0
  BY <1>2, LockAssumption DEF CallsSound, CallSound
<1>4. Woken(0, obj, lk')
  BY <1>3, WokenNone
<1> QED BY <1>1, <1>2, <1>4 DEF Sound

\* A close leaves every object sound and wakes the sleepers of the table's.
LEMMA CloseStep ==
  ASSUME Sound(table, obj, lk), NEW t \in LTask, NEW o \in [Obj -> ObjType], ObjectsSound(o),
         NEW K, lk[t].pc = "user",
         \/ K = lk /\ (table = 0 \/ o[table] = obj[table])
         \/ /\ table # 0
            /\ K = [lk EXCEPT ![t] = [LIdle EXCEPT !.pc = "wake", !.op = "drop", !.i = table]]
  PROVE  Sound(table, o, K) /\ \A u \in LTask : u # t => K[u] = lk[u]
<1>1. /\ lk \in [LTask -> CallType] /\ CallsSound(lk) /\ Woken(table, obj, lk) /\ table \in Obj \cup {0}
  BY DEF Sound, CallsSound
<1>2. CASE K = lk /\ (table = 0 \/ o[table] = obj[table])
  <2>1. Woken(table, o, lk)
    <3>1. CASE table = 0
      <4>1. \A u \in LTask : lk[u].pc = "blocked" => lk[u].i # 0
        BY <1>1, LockAssumption DEF CallsSound, CallSound
      <4> QED BY <3>1, <4>1, WokenNone
    <3>2. CASE o[table] = obj[table]
      BY <1>1, <3>2 DEF Woken
    <3> QED BY <1>2, <3>1, <3>2
  <2> QED BY <1>1, <1>2, <2>1 DEF Sound
<1>3. CASE /\ table # 0
           /\ K = [lk EXCEPT ![t] = [LIdle EXCEPT !.pc = "wake", !.op = "drop", !.i = table]]
  <2> DEFINE k == [LIdle EXCEPT !.pc = "wake", !.op = "drop", !.i = table]
  <2>1. k \in CallType /\ k.pc = "wake" /\ k.i = table
    BY <1>1, IdleSound DEF CallType
  <2>2. K = [lk EXCEPT ![t] = k]
    BY <1>3
  <2> HIDE DEF k
  <2>3. CallSound(k)
    BY <1>1, <1>3, <2>1 DEF CallSound
  <2>4. CallsSound(K)
    BY <1>1, <2>1, <2>2, <2>3, CallStep
  <2>5. Woken(table, o, K)
    BY <1>1, <2>1, <2>2, WokenWaker
  <2> QED BY <1>1, <2>2, <2>4, <2>5 DEF Sound
<1> QED BY <1>2, <1>3

LEMMA CloseSteps ==
  ASSUME Sound(table, obj, lk), NEW t \in LTask
  PROVE  /\ (release_process_inode_locks(t) \/ release_process_all_locks(t)) =>
              /\ Sound(table', obj', lk') /\ lk[t].pc = "user"
              /\ obj' = [i \in Obj |-> retain_others(obj[i], t)]
              /\ \A u \in LTask : u # t => lk'[u] = lk[u]
         /\ \A w \in LOwner : release_flock_owner(t, w) =>
              /\ Sound(table', obj', lk') /\ lk[t].pc = "user"
              /\ obj' = [i \in Obj |-> clear_owner(obj[i], w)]
              /\ \A u \in LTask : u # t => lk'[u] = lk[u]
<1> DEFINE R == [i \in Obj |-> retain_others(obj[i], t)]
           C(w) == [i \in Obj |-> clear_owner(obj[i], w)]
           k == [LIdle EXCEPT !.pc = "wake", !.op = "drop", !.i = table]
<1>1. ObjectsSound(obj) /\ table \in Obj \cup {0}
  BY DEF Sound
<1>2. R \in [Obj -> ObjType] /\ ObjectsSound(R)
  <2>1. \A i \in Obj : retain_others(obj[i], t) \in ObjType /\ ObjSound(retain_others(obj[i], t))
    BY <1>1, RetainOthersSound DEF ObjectsSound
  <2> QED BY <2>1 DEF ObjectsSound
<1>3. ASSUME NEW w \in LOwner PROVE C(w) \in [Obj -> ObjType] /\ ObjectsSound(C(w))
  <2>1. \A i \in Obj : clear_owner(obj[i], w) \in ObjType /\ ObjSound(clear_owner(obj[i], w))
    BY <1>1, ClearSound DEF ObjectsSound
  <2> QED BY <2>1 DEF ObjectsSound
<1>4. \A i \in Obj : R[i] = retain_others(obj[i], t)
  OBVIOUS
<1>5. ASSUME release_process_inode_locks(t)
      PROVE  /\ table' = table /\ obj' = R /\ lk[t].pc = "user"
             /\ table = 0 => lk' = lk
             /\ table # 0 => lk' = [lk EXCEPT ![t] = k]
  BY <1>5 DEF release_process_inode_locks, Lookup
<1>6. ASSUME release_process_all_locks(t)
      PROVE  /\ table' = table /\ obj' = R /\ lk[t].pc = "user"
             /\ \/ lk' = lk /\ (table = 0 \/ retain_others(obj[table], t) = obj[table])
                \/ table # 0 /\ lk' = [lk EXCEPT ![t] = k]
  BY <1>6 DEF release_process_all_locks
<1>7. ASSUME NEW w \in LOwner, release_flock_owner(t, w)
      PROVE  /\ table' = table /\ obj' = C(w) /\ lk[t].pc = "user"
             /\ table = 0 => lk' = lk
             /\ table # 0 => lk' = [lk EXCEPT ![t] = k]
  BY <1>7 DEF release_flock_owner, Lookup
<1>8. ASSUME release_process_inode_locks(t) \/ release_process_all_locks(t)
      PROVE  /\ table' = table /\ obj' = R /\ lk[t].pc = "user"
             /\ Sound(table, R, lk') /\ \A u \in LTask : u # t => lk'[u] = lk[u]
  <2>1. /\ table' = table /\ obj' = R /\ lk[t].pc = "user"
        /\ \/ lk' = lk /\ (table = 0 \/ R[table] = obj[table])
           \/ table # 0 /\ lk' = [lk EXCEPT ![t] = k]
    BY <1>1, <1>4, <1>5, <1>6, <1>8
  <2> HIDE DEF R
  <2> QED BY <1>2, <2>1, CloseStep
<1>9. ASSUME NEW w \in LOwner, release_flock_owner(t, w)
      PROVE  /\ table' = table /\ obj' = C(w) /\ lk[t].pc = "user"
             /\ Sound(table, C(w), lk') /\ \A u \in LTask : u # t => lk'[u] = lk[u]
  <2>1. /\ table' = table /\ obj' = C(w) /\ lk[t].pc = "user"
        /\ \/ lk' = lk /\ table = 0
           \/ table # 0 /\ lk' = [lk EXCEPT ![t] = k]
    BY <1>7, <1>9
  <2> DEFINE D == C(w)
  <2>2. D \in [Obj -> ObjType] /\ ObjectsSound(D)
    BY <1>3
  <2>3. obj' = D
    BY <2>1
  <2> HIDE DEF D
  <2>4. Sound(table, D, lk') /\ \A u \in LTask : u # t => lk'[u] = lk[u]
    BY <2>1, <2>2, CloseStep
  <2> QED BY <2>1, <2>4 DEF D
<1> QED BY <1>8, <1>9

-----------------------------------------------------------------------------
(***************************************************************************)
(* Every step keeps the locks sound and changes only what was asked for.    *)
(***************************************************************************)
\* OwnLocksOnly, from what a step did to each object.
LEMMA OwnIntro ==
  ASSUME \A i \in Obj, p \in LTask, b \in Bytes :
           Held(obj'[i].posix, p, b) # Held(obj[i].posix, p, b) =>
             \/ lk[p].pc = "user"
             \/ /\ lk[p].i = i /\ InRegion(b, lk[p].start, lk[p].len)
                /\ Held(obj'[i].posix, p, b) = IF lk[p].op = "setlk" THEN {lk[p].typ} ELSE {},
         \A i \in Obj, w \in LOwner, t \in LTask :
           FlockOf(obj'[i], w) # FlockOf(obj[i], w) /\ lk[t].pc = "try" /\ lk'[t] # lk[t]
             => lk[t].i = i /\ lk[t].owner = w
  PROVE  OwnLocksOnly
<1>1. \A i \in Obj, p \in LTask, b \in Bytes :
        View(i, p, b) = Held(obj[i].posix, p, b) /\ View(i, p, b)' = Held(obj'[i].posix, p, b)
  BY DEF View
<1>2. \A i \in Obj, w \in LOwner : FlockOf(obj[i], w)' = FlockOf(obj'[i], w)
  BY DEF FlockOf
<1>3. ASSUME NEW i \in Obj, NEW p \in LTask, NEW b \in Bytes, View(i, p, b)' # View(i, p, b)
      PROVE  \/ lk[p].pc = "user"
             \/ /\ lk[p].i = i /\ lk[p].start <= b /\ b <= lock_end(lk[p].start, lk[p].len)
                /\ View(i, p, b)' = IF lk[p].op = "setlk" THEN {lk[p].typ} ELSE {}
  <2>1. Held(obj'[i].posix, p, b) # Held(obj[i].posix, p, b)
    BY <1>1, <1>3
  <2>2. \/ lk[p].pc = "user"
        \/ /\ lk[p].i = i /\ InRegion(b, lk[p].start, lk[p].len)
           /\ Held(obj'[i].posix, p, b) = IF lk[p].op = "setlk" THEN {lk[p].typ} ELSE {}
    BY <2>1
  <2> QED BY <1>1, <2>2 DEF InRegion
<1>4. ASSUME NEW i \in Obj, NEW w \in LOwner, FlockOf(obj[i], w)' # FlockOf(obj[i], w),
             NEW t \in LTask, lk[t].pc = "try", lk'[t] # lk[t]
      PROVE  lk[t].i = i /\ lk[t].owner = w
  BY <1>2, <1>4
<1> QED BY <1>3, <1>4 DEF OwnLocksOnly

LEMMA OwnQuiet == ASSUME obj' = obj PROVE OwnLocksOnly
BY OwnIntro

LEMMA OwnGrant ==
  ASSUME Sound(table, obj, lk), NEW t \in LTask, Grant(t)
  PROVE  OwnLocksOnly
<1>1. /\ lk[t].pc = "try" /\ lk[t].i \in Obj
      /\ \A u \in LTask : u # t => lk'[u] = lk[u]
      /\ \A j \in Obj : j # lk[t].i => obj'[j] = obj[j]
      /\ OnlyAsked(obj[lk[t].i], obj'[lk[t].i], lk[t], t)
  BY GrantStep
<1>2. ASSUME NEW i \in Obj, NEW p \in LTask, NEW b \in Bytes,
             Held(obj'[i].posix, p, b) # Held(obj[i].posix, p, b)
      PROVE  /\ lk[p].i = i /\ InRegion(b, lk[p].start, lk[p].len)
             /\ Held(obj'[i].posix, p, b) = IF lk[p].op = "setlk" THEN {lk[p].typ} ELSE {}
  <2>1. i = lk[t].i
    BY <1>1, <1>2
  <2> QED BY <1>1, <1>2, <2>1 DEF OnlyAsked
<1>3. ASSUME NEW i \in Obj, NEW w \in LOwner, NEW u \in LTask,
             FlockOf(obj'[i], w) # FlockOf(obj[i], w), lk[u].pc = "try", lk'[u] # lk[u]
      PROVE  lk[u].i = i /\ lk[u].owner = w
  <2>1. i = lk[t].i /\ u = t
    BY <1>1, <1>3
  <2> QED BY <1>1, <1>3, <2>1 DEF OnlyAsked
<1> QED BY <1>2, <1>3, OwnIntro

LEMMA OwnClose ==
  ASSUME Sound(table, obj, lk), NEW t \in LTask, lk[t].pc = "user",
         \A u \in LTask : u # t => lk'[u] = lk[u],
         \/ obj' = [i \in Obj |-> retain_others(obj[i], t)]
         \/ \E w \in LOwner : obj' = [i \in Obj |-> clear_owner(obj[i], w)]
  PROVE  OwnLocksOnly
<1>1. \A i \in Obj : obj[i] \in ObjType /\ ObjSound(obj[i])
  BY DEF Sound, ObjectsSound
<1>2. ASSUME NEW i \in Obj, NEW p \in LTask, NEW b \in Bytes,
             Held(obj'[i].posix, p, b) # Held(obj[i].posix, p, b)
      PROVE  p = t
  <2>1. CASE obj' = [j \in Obj |-> retain_others(obj[j], t)]
    <3>1. obj'[i] = retain_others(obj[i], t)
      BY <2>1
    <3> QED BY <1>1, <1>2, <3>1, RetainOthersSound
  <2>2. ASSUME NEW w \in LOwner, obj' = [j \in Obj |-> clear_owner(obj[j], w)] PROVE FALSE
    <3>1. obj'[i] = clear_owner(obj[i], w)
      BY <2>2
    <3> QED BY <1>1, <1>2, <3>1, ClearSound
  <2> QED BY <2>1, <2>2
<1>3. \A u \in LTask : lk[u].pc = "try" => lk'[u] = lk[u]
  OBVIOUS
<1> QED BY <1>2, <1>3, OwnIntro

LEMMA EnterOwn ==
  ASSUME Sound(table, obj, lk), NEW t \in LTask
  PROVE  /\ \A w \in LOwner, op \in {"sh", "ex", "un"} :
              flock_op(t, op, w) => Sound(table', obj', lk') /\ obj' = obj
         /\ \A s \in Bytes : \A n \in 0 .. Top + 1 - s :
              /\ posix_unlock(t, s, n) => Sound(table', obj', lk') /\ obj' = obj
              /\ \A typ \in Types : posix_setlk(t, typ, s, n) => Sound(table', obj', lk') /\ obj' = obj
<1>1. ASSUME NEW w \in LOwner, NEW op \in {"sh", "ex", "un"}, flock_op(t, op, w)
      PROVE  Sound(table', obj', lk') /\ obj' = obj
  <2> DEFINE c == [LIdle EXCEPT !.op = op, !.owner = w]
  <2>1. c \in CallType /\ c.op = op /\ c.owner = w
    BY IdleSound DEF CallType
  <2>2. Enter(t, c)
    BY <1>1 DEF flock_op
  <2> HIDE DEF c
  <2>3. c.op \in Asks
    BY <2>1 DEF Asks
  <2> QED BY <2>1, <2>2, <2>3, EnterSound
<1>2. ASSUME NEW s \in Bytes, NEW n \in 0 .. Top + 1 - s
      PROVE  n \in 0 .. Top + 1
  BY LockAssumption DEF Bytes
<1>3. ASSUME NEW s \in Bytes, NEW n \in 0 .. Top + 1 - s, posix_unlock(t, s, n)
      PROVE  Sound(table', obj', lk') /\ obj' = obj
  <2> DEFINE c == [LIdle EXCEPT !.op = "unlck", !.start = s, !.len = n]
  <2>1. c \in CallType /\ c.op = "unlck"
    BY <1>2, IdleSound DEF CallType
  <2>2. Enter(t, c)
    BY <1>3 DEF posix_unlock
  <2> HIDE DEF c
  <2> QED BY <2>1, <2>2, EnterSound DEF Asks
<1>4. ASSUME NEW s \in Bytes, NEW n \in 0 .. Top + 1 - s, NEW typ \in Types, posix_setlk(t, typ, s, n)
      PROVE  Sound(table', obj', lk') /\ obj' = obj
  <2> DEFINE c == [LIdle EXCEPT !.op = "setlk", !.typ = typ, !.start = s, !.len = n]
  <2>1. c \in CallType /\ c.op = "setlk"
    BY <1>2, IdleSound DEF CallType
  <2>2. Enter(t, c)
    BY <1>4 DEF posix_setlk
  <2> HIDE DEF c
  <2> QED BY <2>1, <2>2, EnterSound DEF Asks
<1> QED BY <1>1, <1>3, <1>4

LEMMA StepSound ==
  ASSUME Sound(table, obj, lk), LNext
  PROVE  Sound(table', obj', lk') /\ OwnLocksOnly
<1> PICK t \in LTask :
      \/ Grant(t) \/ Refuse(t) \/ Sleep(t) \/ Interrupted(t) \/ wake_all(t)
      \/ SeesEmpty(t) \/ drop_inode_if_empty(t)
      \/ release_process_inode_locks(t) \/ release_process_all_locks(t)
      \/ \E w \in LOwner : release_flock_owner(t, w) \/ \E op \in {"sh", "ex", "un"} : flock_op(t, op, w)
      \/ \E s \in Bytes : \E n \in 0 .. Top + 1 - s :
           posix_unlock(t, s, n) \/ \E typ \in Types : posix_setlk(t, typ, s, n)
  BY DEF LNext
<1>1. CASE Grant(t)
  BY <1>1, GrantStep, OwnGrant
<1>2. CASE Refuse(t) \/ Sleep(t) \/ Interrupted(t) \/ SeesEmpty(t)
  BY <1>2, QuietSteps, OwnQuiet
<1>3. CASE wake_all(t)
  BY <1>3, WakeStep, OwnQuiet
<1>4. CASE drop_inode_if_empty(t)
  BY <1>4, DropStep, OwnQuiet
<1>5. CASE release_process_inode_locks(t) \/ release_process_all_locks(t)
  BY <1>5, CloseSteps, OwnClose
<1>6. CASE \E w \in LOwner : release_flock_owner(t, w)
  BY <1>6, CloseSteps, OwnClose
<1>7. CASE \E w \in LOwner : \E op \in {"sh", "ex", "un"} : flock_op(t, op, w)
  BY <1>7, EnterOwn, OwnQuiet
<1>8. CASE \E s \in Bytes : \E n \in 0 .. Top + 1 - s :
             posix_unlock(t, s, n) \/ \E typ \in Types : posix_setlk(t, typ, s, n)
  BY <1>8, EnterOwn, OwnQuiet
<1> QED BY <1>1, <1>2, <1>3, <1>4, <1>5, <1>6, <1>7, <1>8

-----------------------------------------------------------------------------
(***************************************************************************)
(* Theorems, for all processes, owners, objects, lengths of a file and      *)
(* kinds of call.                                                          *)
(***************************************************************************)
\* The inductive invariant of file_lock.rs: types, what a call is about, locks that
\* do not conflict, and no sleeper that nobody is about to wake.
THEOREM LockInvariance == LSpec => []LockInv
<1>1. LInit => LockInv
  BY InitSound, InvIsSound
<1>2. LockInv /\ [LNext]_lvars => LockInv'
  <2> SUFFICES ASSUME LockInv, [LNext]_lvars PROVE LockInv'
    OBVIOUS
  <2>1. Sound(table, obj, lk)
    BY InvIsSound
  <2>2. LockInv' <=> Sound(table', obj', lk')
    <3>1. (LockInv <=> Sound(table, obj, lk))'
      BY InvIsSound, PTL
    <3> QED BY <3>1 DEF Sound, ObjectsSound, CallsSound, Woken, Blocks
  <2>3. CASE LNext
    BY <2>1, <2>2, <2>3, StepSound
  <2>4. CASE UNCHANGED lvars
    BY <2>1, <2>2, <2>4 DEF lvars
  <2> QED BY <2>3, <2>4
<1> QED BY <1>1, <1>2, PTL DEF LSpec

\* LTypeOK of the run "vfs": locks, calls and the table have their types.
THEOREM LockTypeCorrect == LSpec => []LTypeOK
<1>1. LockInv => LTypeOK
  BY DEF LockInv
<1> QED BY <1>1, LockInvariance, PTL

\* No byte is locked twice by a process, no two processes or descriptions hold
\* locks of one object that conflict, and whoever sleeps on a lock of the table's
\* object that it could have is about to be woken (wait_current_while, wake_all).
THEOREM LocksExclusiveHolds == LSpec => []LocksExclusive
<1>1. LockInv => ObjectExclusive
  <2> SUFFICES ASSUME LockInv PROVE ObjectExclusive
    OBVIOUS
  <2>1. \A i \in Obj : RecordsApart(obj[i].posix) /\ OneType(obj[i].posix) /\ FlocksApart(obj[i])
    BY DEF LockInv, ObjSound
  <2> QED BY <2>1 DEF ObjectExclusive, Compatible, View, RecordsApart, OneType, FlocksApart
<1>2. LockInv => NoWaiterForgotten
  BY DEF LockInv, Woken, NoWaiterForgotten, WouldBlock, Blocks
<1>3. LockInv => LocksExclusive
  BY <1>1, <1>2 DEF LocksExclusive
<1> QED BY <1>3, LockInvariance, PTL

\* A record lock call changes its own process's locks on its own bytes only, and a
\* granted flock call the lock of its own description only.
THEOREM LocksOwnedHolds == LSpec => LocksOwned
<1>1. LockInv /\ [LNext]_lvars => [OwnLocksOnly]_lvars
  BY InvIsSound, StepSound DEF lvars
<1> QED BY <1>1, LockInvariance, PTL DEF LSpec, LocksOwned
=============================================================================
