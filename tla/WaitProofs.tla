----------------------------- MODULE WaitProofs -----------------------------
(***************************************************************************)
(* A waiting task is in the one place its TCB names, with its own timeout   *)
(* record, for any tasks, queues and timeouts (WaitersSound), and no task    *)
(* comes back from its exit.  The invariant is stated of a structure W, the  *)
(* deadlines D and a set X of tasks that count as gone: the one in the        *)
(* middle of its exit, which has woken its waiters and left their timeouts    *)
(* behind.                                                                  *)
(***************************************************************************)
EXTENDS WaitQueues, WellFoundedInduction, TLAPS

Queues == {WaitQueue(q) : q \in QueueId}
ExitsOf(x) == {TaskExit(x), ChildExit(x)}
Gone(W, X, g) == \E x \in Task : g \in ExitsOf(x) /\ (W.state[x] \in {"exited", "reaped"} \/ x \in X)

\* Later records are due later, and none is due now.
Ordered(s) == \A i, j \in DOMAIN s : i <= j => s[i].left <= s[j].left
Ahead(s) == \A i \in DOMAIN s : s[i].left > 0

OneEach(s) == \A i, j \in DOMAIN s : s[i].task = s[j].task => i = j
OneLive(W, X, s) ==
  \A i, j \in DOMAIN s :
    s[i].task = s[j].task /\ ~Gone(W, X, s[i].target) /\ ~Gone(W, X, s[j].target) => i = j

QueuesSound(W, X) ==
  /\ \A g \in Target : IsInjective(W.queue[g])
  /\ \A g \in Target : \A t \in ToSet(W.queue[g]) : W.state[t] = "blocked" /\ W.target[t] = g
  /\ \A t \in Task : W.state[t] = "blocked" =>
       W.target[t] \in Target /\ (t \in ToSet(W.queue[W.target[t]]) \/ Gone(W, X, W.target[t]))
  /\ \A q \in W.free : W.queue[WaitQueue(q)] = <<>>

SleepersSound(W) ==
  /\ OneEach(W.sleepers) /\ Ordered(W.sleepers) /\ Ahead(W.sleepers)
  /\ \A t \in Task : W.state[t] = "sleeping" <=> \E e \in ToSet(W.sleepers) : e.task = t

ExitedSound(W) ==
  /\ IsInjective(W.exited)
  /\ \A t \in Task : W.state[t] = "exited" <=> t \in ToSet(W.exited)

\* A record is of a wait on a queue or for an exit, and of one under way unless
\* the exit has happened.
TimeoutsSound(W, X) ==
  /\ OneLive(W, X, W.timeouts) /\ Ordered(W.timeouts) /\ Ahead(W.timeouts)
  /\ \A e \in ToSet(W.timeouts) :
       /\ e.target \in Queues \cup {TaskExit(x) : x \in Task}
       /\ e.task \in ToSet(W.queue[e.target]) \/ Gone(W, X, e.target)

\* A deadline is that of a wait on a queue, which has its record.
Armed(W, D) ==
  \A t \in Task : W.state[t] = "blocked" /\ D[t] # NoTimeout =>
    /\ W.target[t] \in Queues
    /\ [task |-> t, target |-> W.target[t], left |-> D[t]] \in ToSet(W.timeouts)

\* A wait has no result before it ends.
ResultsSound(W, D) ==
  /\ \A t \in Task : Waiting(W, t) => W.result[t] = "none"
  /\ \A t \in Task : W.result[t] = "timed_out" /\ D[t] # NoTimeout => D[t] = 0

Good(W, D, X) ==
  /\ W \in WaitQueuesType /\ D \in [Task -> Nat \cup {NoTimeout}] /\ X \subseteq Task
  /\ QueuesSound(W, X) /\ SleepersSound(W) /\ ExitedSound(W) /\ TimeoutsSound(W, X)
  /\ Armed(W, D) /\ ResultsSound(W, D)

WaitInv == Good(wq, deadline, {})

-----------------------------------------------------------------------------
(***************************************************************************)
(* Sequences                                                               *)
(***************************************************************************)
LEMMA Least == ASSUME NEW S \in SUBSET Nat, S # {} PROVE Min(S) \in S /\ \A y \in S : Min(S) <= y
<1>1. IsWellFoundedOn(OpToRel(<, Nat), Nat)
  BY NatLessThanWellFounded
<1>2. PICK x \in S : \A y \in S : ~ (<<y, x>> \in OpToRel(<, Nat))
  BY <1>1, WFMin
<1>3. \A y \in S : x <= y
  <2> SUFFICES ASSUME NEW y \in S PROVE x <= y
    OBVIOUS
  <2>1. <<y, x>> \in Nat \X Nat /\ <<y, x>>[1] = y /\ <<y, x>>[2] = x
    OBVIOUS
  <2>2. ~ (y < x)
    BY <1>2, <2>1 DEF OpToRel
  <2> QED BY <2>2
<1> QED BY <1>3 DEF Min

\* What holds of 0 and passes on to the next number holds of all up to n.
LEMMA UpTo ==
  ASSUME NEW n \in Nat, NEW S \in SUBSET (0 .. n), 0 \in S, \A i \in 0 .. n : i + 1 <= n /\ i \in S => i + 1 \in S
  PROVE  S = 0 .. n
<1> SUFFICES ASSUME S # 0 .. n PROVE FALSE
  OBVIOUS
<1> DEFINE T == (0 .. n) \ S  m == Min(T)
<1>0. \E x \in 0 .. n : x \notin S
  OBVIOUS
<1>1. T \in SUBSET Nat /\ T # {}
  BY <1>0
<1>2. m \in T /\ \A y \in T : m <= y
  BY <1>1, Least
<1>3. m # 0 /\ m \in 0 .. n
  BY <1>2
<1> HIDE DEF m
<1>4. m - 1 \in 0 .. n /\ (m - 1) + 1 = m /\ m - 1 \notin T
  BY <1>2, <1>3
<1> QED BY <1>2, <1>3, <1>4

LEMMA ContainsIn == ASSUME NEW E, NEW s \in Seq(E), NEW e PROVE Contains(s, e) <=> e \in ToSet(s)
BY DEF Contains, ToSet

LEMMA InSet == ASSUME NEW E, NEW s \in Seq(E) PROVE ToSet(s) \subseteq E /\ (s = <<>> <=> ToSet(s) = {})
<1>1. DOMAIN s = 1 .. Len(s) /\ Len(s) \in Nat /\ \A i \in DOMAIN s : s[i] \in E
  OBVIOUS
<1>2. ToSet(s) \subseteq E
  BY <1>1 DEF ToSet
<1>3. ASSUME s # <<>> PROVE s[1] \in ToSet(s)
  <2>1. 1 \in DOMAIN s
    BY <1>3
  <2> QED BY <2>1 DEF ToSet
<1>4. ToSet(<<>>) = {}
  BY DEF ToSet
<1> QED BY <1>2, <1>3, <1>4

\* r is what is left of s, in its order.
Place(r, s, f) ==
  /\ f \in [DOMAIN r -> DOMAIN s]
  /\ \A i \in DOMAIN r : r[i] = s[f[i]]
  /\ \A i, j \in DOMAIN r : i < j => f[i] < f[j]
Thinned(r, s) == \E f : Place(r, s, f)

LEMMA ThinnedOnce ==
  ASSUME NEW E, NEW r \in Seq(E), NEW s \in Seq(E), NEW f, Place(r, s, f), NEW i \in DOMAIN r, NEW j \in DOMAIN r
  PROVE  /\ f[i] \in DOMAIN s /\ f[j] \in DOMAIN s /\ r[i] = s[f[i]] /\ r[j] = s[f[j]]
         /\ (f[i] = f[j] => i = j) /\ (i <= j => f[i] <= f[j])
<1>1. i \in Nat /\ j \in Nat /\ \A k \in DOMAIN s : k \in Nat
  OBVIOUS
<1>2. f[i] \in DOMAIN s /\ f[j] \in DOMAIN s /\ (i < j => f[i] < f[j]) /\ (j < i => f[j] < f[i])
  BY DEF Place
<1>3. r[i] = s[f[i]] /\ r[j] = s[f[j]]
  BY DEF Place
<1>4. CASE i = j
  BY <1>1, <1>2, <1>3, <1>4
<1>5. CASE i < j
  BY <1>1, <1>2, <1>3, <1>5
<1>6. CASE j < i
  BY <1>1, <1>2, <1>3, <1>6
<1> QED BY <1>1, <1>4, <1>5, <1>6

\* What is left keeps every property of elements and of pairs.
LEMMA ThinnedKeeps ==
  ASSUME NEW E, NEW r \in Seq(E), NEW s \in Seq(E), Thinned(r, s)
  PROVE  /\ ToSet(r) \subseteq ToSet(s)
         /\ IsInjective(s) => IsInjective(r)
         /\ OneEach(s) => OneEach(r)
         /\ Ordered(s) => Ordered(r)
         /\ Ahead(s) => Ahead(r)
         /\ \A W, X : OneLive(W, X, s) => OneLive(W, X, r)
<1>1. PICK f : Place(r, s, f)
  BY DEF Thinned
<1>2. \A i, j \in DOMAIN r :
        /\ f[i] \in DOMAIN s /\ f[j] \in DOMAIN s /\ r[i] = s[f[i]] /\ r[j] = s[f[j]]
        /\ (f[i] = f[j] => i = j) /\ (i <= j => f[i] <= f[j])
  BY <1>1, ThinnedOnce
<1>3. ToSet(r) \subseteq ToSet(s)
  BY <1>2 DEF ToSet
<1>4. IsInjective(s) => IsInjective(r)
  BY <1>2 DEF IsInjective
<1>5. OneEach(s) => OneEach(r)
  BY <1>2 DEF OneEach
<1>6. Ordered(s) => Ordered(r)
  BY <1>2 DEF Ordered
<1>7. Ahead(s) => Ahead(r)
  BY <1>2 DEF Ahead
<1>8. ASSUME NEW W, NEW X, OneLive(W, X, s) PROVE OneLive(W, X, r)
  BY <1>2, <1>8 DEF OneLive
<1> QED BY <1>3, <1>4, <1>5, <1>6, <1>7, <1>8

\* Without is the last of rounds that are one element each.
Round(s, S, k, i) == IF i = 0 THEN <<>> ELSE IF s[i] \in S THEN k[i - 1] ELSE Append(k[i - 1], s[i])
LEMMA WithoutRounds ==
  ASSUME NEW E, NEW s \in Seq(E), NEW S
  PROVE  \E k : k = [i \in 0 .. Len(s) |-> Round(s, S, k, i)] /\ Without(s, S) = k[Len(s)]
<1> DEFINE n == Len(s)
           Rounds(x, m) == x = [i \in 0 .. m |-> Round(s, S, x, i)]
           T == {m \in 0 .. n : \E x : Rounds(x, m)}
<1>0. n \in Nat
  OBVIOUS
<1>1. 0 \in T
  <2> DEFINE first == [i \in 0 .. 0 |-> <<>>]
  <2>1. \A i \in 0 .. 0 : i = 0
    OBVIOUS
  <2>2. Rounds(first, 0)
    BY <2>1 DEF Round
  <2>3. 0 \in 0 .. n
    BY <1>0
  <2> HIDE DEF Rounds, first
  <2> QED BY <2>2, <2>3
<1>2. ASSUME NEW m \in 0 .. n, m + 1 <= n, m \in T PROVE m + 1 \in T
  <2>1. PICK k : Rounds(k, m)
    BY <1>2
  <2> DEFINE h == [i \in 0 .. m + 1 |-> IF i <= m THEN k[i] ELSE Round(s, S, k, i)]
  <2>2. \A i \in 0 .. m : h[i] = k[i] /\ i \in 0 .. m + 1
    BY <1>0
  <2>3. \A i \in 0 .. m + 1 : h[i] = Round(s, S, h, i)
    <3> SUFFICES ASSUME NEW i \in 0 .. m + 1 PROVE h[i] = Round(s, S, h, i)
      OBVIOUS
    <3>1. i # 0 => (i - 1 \in 0 .. m /\ h[i - 1] = k[i - 1])
      BY <1>0, <2>2
    <3>2. h[i] = Round(s, S, k, i)
      <4>1. CASE i <= m
        <5>1. i \in 0 .. m
          BY <4>1
        <5> QED BY <5>1, <2>1, <2>2
      <4>2. CASE i = m + 1
        BY <4>2, <1>0
      <4> QED BY <4>1, <4>2, <1>0
    <3> HIDE DEF h
    <3> QED BY <3>1, <3>2 DEF Round
  <2>4. h = [i \in 0 .. m + 1 |-> h[i]]
    OBVIOUS
  <2> HIDE DEF h
  <2>5. Rounds(h, m + 1)
    BY <2>3, <2>4
  <2>6. m + 1 \in 0 .. n
    BY <1>2, <1>0
  <2> QED BY <2>5, <2>6
<1>3. n \in T
  <2> HIDE DEF T, n
  <2>1. T \in SUBSET (0 .. n)
    BY DEF T
  <2>2. T = 0 .. n
    BY <1>0, <1>1, <1>2, <2>1, UpTo
  <2> QED BY <1>0, <2>2
<1>4. PICK k : Rounds(k, n)
  BY <1>3
<1> DEFINE c == CHOOSE x : Rounds(x, n)
<1>5. Rounds(c, n)
  BY <1>4
<1>6. Without(s, S) = c[n]
  BY DEF Without, Round
<1> HIDE DEF c
<1> QED BY <1>5, <1>6

\* After i rounds: what is left of the first i elements.
Covers(s, S, r, i, f) ==
  /\ f \in [DOMAIN r -> 1 .. i]
  /\ \A j \in DOMAIN r : r[j] = s[f[j]] /\ s[f[j]] \notin S
  /\ \A j, m \in DOMAIN r : j < m => f[j] < f[m]
  /\ \A m \in 1 .. i : s[m] \in S \/ \E j \in DOMAIN r : f[j] = m
LeftOf(s, S, r, i) ==
  /\ \E f : Covers(s, S, r, i, f)
  /\ (\A m \in 1 .. i : s[m] \notin S) => r = SubSeq(s, 1, i)

LEMMA LeftNext ==
  ASSUME NEW E, NEW s \in Seq(E), NEW S, NEW i \in 1 .. Len(s), NEW q \in Seq(E), LeftOf(s, S, q, i - 1),
         NEW r, r = IF s[i] \in S THEN q ELSE Append(q, s[i])
  PROVE  r \in Seq(E) /\ LeftOf(s, S, r, i)
<1>1. i \in Nat \ {0} /\ i - 1 \in Nat /\ s[i] \in E /\ i <= Len(s)
  OBVIOUS
<1>0. PICK f : Covers(s, S, q, i - 1, f)
  BY DEF LeftOf
<1>2. /\ f \in [DOMAIN q -> 1 .. i - 1]
      /\ \A j \in DOMAIN q : q[j] = s[f[j]] /\ s[f[j]] \notin S
      /\ \A j, m \in DOMAIN q : j < m => f[j] < f[m]
      /\ \A m \in 1 .. i - 1 : s[m] \in S \/ \E j \in DOMAIN q : f[j] = m
  BY <1>0 DEF Covers
<1>3. (\A m \in 1 .. i - 1 : s[m] \notin S) => q = SubSeq(s, 1, i - 1)
  BY DEF LeftOf
<1>4. \A m \in 1 .. i : m \in 1 .. i - 1 \/ m = i
  BY <1>1
<1>5. CASE s[i] \in S
  <2>1. r = q
    BY <1>5
  <2>2. f \in [DOMAIN r -> 1 .. i]
    <3>1. 1 .. i - 1 \subseteq 1 .. i
      BY <1>1
    <3> QED BY <1>2, <2>1, <3>1
  <2>3. \A m \in 1 .. i : s[m] \in S \/ \E j \in DOMAIN r : f[j] = m
    BY <1>2, <1>4, <1>5, <2>1
  <2>4. ~ (\A m \in 1 .. i : s[m] \notin S)
    BY <1>1, <1>5
  <2>5. Covers(s, S, r, i, f)
    BY <1>2, <2>1, <2>2, <2>3 DEF Covers
  <2> QED BY <2>1, <2>4, <2>5 DEF LeftOf
<1>6. CASE s[i] \notin S
  <2> DEFINE n == Len(q)  g == [j \in 1 .. n + 1 |-> IF j <= n THEN f[j] ELSE i]
  <2>1. /\ r = Append(q, s[i]) /\ r \in Seq(E) /\ n \in Nat /\ DOMAIN q = 1 .. n /\ DOMAIN r = 1 .. n + 1
        /\ \A j \in 1 .. n : r[j] = q[j] /\ r[n + 1] = s[i]
    BY <1>1, <1>6
  <2>2. r[n + 1] = s[i]
    BY <2>1, <1>1
  <2> HIDE DEF n
  <2>3. \A j \in 1 .. n + 1 : (j \in 1 .. n /\ g[j] = f[j] /\ f[j] \in 1 .. i - 1) \/ (j = n + 1 /\ g[j] = i)
    BY <1>2, <2>1
  <2>4. g \in [DOMAIN r -> 1 .. i]
    <3>1. \A j \in 1 .. n + 1 : g[j] \in 1 .. i
      BY <2>3, <1>1
    <3> QED BY <2>1, <3>1
  <2>5. g[n + 1] = i /\ n + 1 \in DOMAIN r
    BY <2>1
  <2>6. \A j \in 1 .. n : g[j] = f[j] /\ j \in DOMAIN r
    BY <2>1
  <2> HIDE DEF g
  <2>7. \A j \in DOMAIN r : r[j] = s[g[j]] /\ s[g[j]] \notin S
    BY <1>2, <1>6, <2>1, <2>2, <2>3
  <2>8. \A j, k \in DOMAIN r : j < k => g[j] < g[k]
    <3> SUFFICES ASSUME NEW j \in DOMAIN r, NEW k \in DOMAIN r, j < k PROVE g[j] < g[k]
      OBVIOUS
    <3>1. j \in 1 .. n /\ g[j] = f[j] /\ f[j] \in 1 .. i - 1
      BY <2>1, <2>3
    <3>2. CASE k \in 1 .. n
      BY <3>1, <3>2, <2>1, <2>6, <1>2
    <3>3. CASE k = n + 1
      BY <3>1, <3>3, <2>5, <1>1
    <3> QED BY <3>2, <3>3, <2>1
  <2>9. \A m \in 1 .. i : s[m] \in S \/ \E j \in DOMAIN r : g[j] = m
    <3> SUFFICES ASSUME NEW m \in 1 .. i PROVE s[m] \in S \/ \E j \in DOMAIN r : g[j] = m
      OBVIOUS
    <3>1. CASE m = i
      BY <3>1, <2>5
    <3>2. CASE m \in 1 .. i - 1 /\ s[m] \notin S
      <4>1. PICK j \in DOMAIN q : f[j] = m
        BY <1>2, <3>2
      <4> QED BY <4>1, <2>1, <2>6
    <3> QED BY <1>4, <3>1, <3>2
  <2>10. ASSUME \A m \in 1 .. i : s[m] \notin S PROVE r = SubSeq(s, 1, i)
    <3>1. q = SubSeq(s, 1, i - 1)
      <4>1. 1 .. i - 1 \subseteq 1 .. i
        BY <1>1
      <4> QED BY <1>3, <2>10, <4>1
    <3>2. Append(SubSeq(s, 1, i - 1), s[i]) = SubSeq(s, 1, i)
      BY <1>1
    <3> QED BY <2>1, <3>1, <3>2
  <2>11. Covers(s, S, r, i, g)
    BY <2>4, <2>7, <2>8, <2>9 DEF Covers
  <2> QED BY <2>1, <2>10, <2>11 DEF LeftOf
<1> QED BY <1>5, <1>6

LEMMA WithoutLeft ==
  ASSUME NEW E, NEW s \in Seq(E), NEW S
  PROVE  Without(s, S) \in Seq(E) /\ LeftOf(s, S, Without(s, S), Len(s))
<1>1. PICK k : k = [i \in 0 .. Len(s) |-> Round(s, S, k, i)] /\ Without(s, S) = k[Len(s)]
  BY WithoutRounds
<1> DEFINE n == Len(s)  T == {i \in 0 .. n : k[i] \in Seq(E) /\ LeftOf(s, S, k[i], i)}
<1>2. n \in Nat
  OBVIOUS
<1>3. 0 \in T
  <2>1. k[0] = <<>> /\ 0 \in 0 .. n
    BY <1>1, <1>2 DEF Round
  <2>2. LeftOf(s, S, <<>>, 0)
    <3>1. Covers(s, S, <<>>, 0, <<>>)
      BY DEF Covers
    <3>2. SubSeq(s, 1, 0) = <<>>
      <4>1. SubSeq(s, 1, 0) \in Seq(E) /\ Len(SubSeq(s, 1, 0)) = 0
        OBVIOUS
      <4>2. \A x \in Seq(E) : Len(x) = 0 => x = <<>>
        OBVIOUS
      <4> QED BY <4>1, <4>2
    <3> QED BY <3>1, <3>2 DEF LeftOf
  <2>3. <<>> \in Seq(E)
    OBVIOUS
  <2> HIDE DEF n
  <2> QED BY <2>1, <2>2, <2>3
<1>4. ASSUME NEW i \in 0 .. n, i + 1 <= n, i \in T PROVE i + 1 \in T
  <2>1. i + 1 \in 1 .. n /\ (i + 1) - 1 = i /\ i + 1 # 0 /\ i + 1 \in 0 .. n
    BY <1>4
  <2>2. k[i + 1] = Round(s, S, k, i + 1)
    BY <1>1, <2>1
  <2>3. k[i + 1] = IF s[i + 1] \in S THEN k[i] ELSE Append(k[i], s[i + 1])
    BY <2>1, <2>2 DEF Round
  <2>4. k[i] \in Seq(E) /\ LeftOf(s, S, k[i], (i + 1) - 1)
    BY <1>4, <2>1
  <2>5. k[i + 1] \in Seq(E) /\ LeftOf(s, S, k[i + 1], i + 1)
    <3> DEFINE r == k[i + 1]  j == i + 1  q == k[i]
    <3>1. r = IF s[j] \in S THEN q ELSE Append(q, s[j])
      BY <2>3
    <3>2. j \in 1 .. Len(s) /\ q \in Seq(E) /\ LeftOf(s, S, q, j - 1)
      BY <2>1, <2>4
    <3> HIDE DEF r, j, q
    <3>3. r \in Seq(E) /\ LeftOf(s, S, r, j)
      BY <3>1, <3>2, LeftNext
    <3> QED BY <3>3 DEF r, j
  <2> QED BY <2>1, <2>5
<1>5. T = 0 .. n
  <2> HIDE DEF T, n
  <2>1. T \in SUBSET (0 .. n)
    BY DEF T
  <2> QED BY <1>2, <1>3, <1>4, <2>1, UpTo
<1>6. n \in T
  BY <1>2, <1>5
<1> QED BY <1>1, <1>6

\* What the other proofs know of Without.
LEMMA WithoutIs ==
  ASSUME NEW E, NEW s \in Seq(E), NEW S
  PROVE  LET r == Without(s, S) IN
         /\ r \in Seq(E) /\ Thinned(r, s) /\ ToSet(r) = ToSet(s) \ S
         /\ ToSet(s) \cap S = {} => r = s
<1> DEFINE r == Without(s, S)  n == Len(s)
<1>1. r \in Seq(E) /\ LeftOf(s, S, r, n) /\ n \in Nat /\ DOMAIN s = 1 .. n
  BY WithoutLeft
<1> HIDE DEF r, n
<1>0. PICK f : Covers(s, S, r, n, f)
  BY <1>1 DEF LeftOf
<1>2. /\ f \in [DOMAIN r -> 1 .. n]
      /\ \A j \in DOMAIN r : r[j] = s[f[j]] /\ s[f[j]] \notin S
      /\ \A j, m \in DOMAIN r : j < m => f[j] < f[m]
      /\ \A m \in 1 .. n : s[m] \in S \/ \E j \in DOMAIN r : f[j] = m
  BY <1>0 DEF Covers
<1>3. Place(r, s, f)
  BY <1>1, <1>2 DEF Place
<1>4. Thinned(r, s)
  BY <1>3 DEF Thinned
<1>5. ToSet(r) = ToSet(s) \ S
  <2>1. ASSUME NEW j \in DOMAIN r PROVE r[j] \in ToSet(s) \ S
    BY <1>1, <1>2 DEF ToSet
  <2>2. ASSUME NEW m \in DOMAIN s, s[m] \notin S PROVE s[m] \in ToSet(r)
    BY <1>1, <1>2, <2>2 DEF ToSet
  <2> QED BY <2>1, <2>2 DEF ToSet
<1>6. ASSUME ToSet(s) \cap S = {} PROVE r = s
  <2>1. \A m \in 1 .. n : s[m] \notin S
    BY <1>1, <1>6 DEF ToSet
  <2>2. SubSeq(s, 1, n) = s
    BY DEF n
  <2> QED BY <1>1, <2>1, <2>2 DEF LeftOf
<1> QED BY <1>1, <1>4, <1>5, <1>6 DEF r

\* A prefix and the rest.
LEMMA Cut ==
  ASSUME NEW E, NEW s \in Seq(E), NEW n \in 0 .. Len(s)
  PROVE  LET a == FirstN(s, n)  b == WithoutFirstN(s, n) IN
         /\ a \in Seq(E) /\ b \in Seq(E) /\ Thinned(a, s) /\ Thinned(b, s)
         /\ ToSet(a) \cup ToSet(b) = ToSet(s)
         /\ IsInjective(s) => ToSet(a) \cap ToSet(b) = {}
         /\ OneEach(s) => \A x \in ToSet(a), y \in ToSet(b) : x.task # y.task
<1> DEFINE a == FirstN(s, n)  b == WithoutFirstN(s, n)
<1>1. a \in Seq(E) /\ Len(a) = n /\ DOMAIN a = 1 .. n /\ \A i \in 1 .. n : a[i] = s[i]
  BY DEF FirstN
<1>2. /\ b \in Seq(E) /\ Len(b) = Len(s) - n /\ DOMAIN b = 1 .. Len(s) - n
      /\ \A i \in 1 .. Len(s) - n : b[i] = s[n + i]
  BY DEF WithoutFirstN
<1>3. DOMAIN s = 1 .. Len(s) /\ Len(s) \in Nat
  OBVIOUS
<1> HIDE DEF a, b
<1>4. Thinned(a, s)
  <2> DEFINE f == [i \in DOMAIN a |-> i]
  <2>1. Place(a, s, f)
    BY <1>1, <1>3 DEF Place
  <2> HIDE DEF f
  <2> QED BY <2>1 DEF Thinned
<1>5. \A i \in DOMAIN b : n + i \in DOMAIN s /\ b[i] = s[n + i]
  BY <1>2, <1>3
<1>6. Thinned(b, s)
  <2> DEFINE f == [i \in DOMAIN b |-> n + i]
  <2>1. f \in [DOMAIN b -> DOMAIN s] /\ \A i \in DOMAIN b : b[i] = s[f[i]]
    BY <1>5
  <2>2. \A i, j \in DOMAIN b : i < j => f[i] < f[j]
    BY <1>2
  <2> HIDE DEF f
  <2>3. Place(b, s, f)
    BY <2>1, <2>2 DEF Place
  <2> QED BY <2>3 DEF Thinned
<1>7. \A i \in DOMAIN s : i \in DOMAIN a \/ (i - n \in DOMAIN b /\ b[i - n] = s[i])
  <2> SUFFICES ASSUME NEW i \in DOMAIN s, i \notin DOMAIN a PROVE i - n \in DOMAIN b /\ b[i - n] = s[i]
    OBVIOUS
  <2>1. i - n \in 1 .. Len(s) - n /\ n + (i - n) = i
    BY <1>1, <1>3
  <2> QED BY <1>2, <2>1
<1>8. ToSet(a) \cup ToSet(b) = ToSet(s)
  <2>1. ToSet(a) \subseteq ToSet(s)
    BY <1>1, <1>3 DEF ToSet
  <2>2. ToSet(b) \subseteq ToSet(s)
    BY <1>5 DEF ToSet
  <2>3. ToSet(s) \subseteq ToSet(a) \cup ToSet(b)
    BY <1>1, <1>7 DEF ToSet
  <2> QED BY <2>1, <2>2, <2>3
<1>9. ASSUME NEW i \in DOMAIN a, NEW j \in DOMAIN b
      PROVE  i \in DOMAIN s /\ n + j \in DOMAIN s /\ i # n + j /\ a[i] = s[i] /\ b[j] = s[n + j]
  BY <1>1, <1>2, <1>3
<1>10. ASSUME IsInjective(s) PROVE ToSet(a) \cap ToSet(b) = {}
  <2>1. \A i \in DOMAIN a, j \in DOMAIN b : a[i] # b[j]
    BY <1>9, <1>10 DEF IsInjective
  <2> QED BY <2>1 DEF ToSet
<1>11. ASSUME OneEach(s) PROVE \A x \in ToSet(a), y \in ToSet(b) : x.task # y.task
  <2>1. \A i \in DOMAIN a, j \in DOMAIN b : a[i].task # b[j].task
    BY <1>9, <1>11 DEF OneEach
  <2> QED BY <2>1 DEF ToSet
<1> QED BY <1>1, <1>2, <1>4, <1>6, <1>8, <1>10, <1>11 DEF a, b

\* The records that are due are those at the front.
LEMMA DueIs ==
  ASSUME NEW E, \A x \in E : x.left \in Int, NEW s \in Seq(E), Ordered(s)
  PROVE  LET n == due(s) IN
         /\ n \in 0 .. Len(s)
         /\ \A x \in ToSet(FirstN(s, n)) : x.left <= 0
         /\ Ahead(WithoutFirstN(s, n))
         /\ Ahead(s) => n = 0
<1> DEFINE I == {i \in 1 .. Len(s) : s[i].left > 0}  n == due(s)
<1>1. n = IF (IF I # {} THEN Min(I) ELSE 0) = 0 THEN Len(s) ELSE (IF I # {} THEN Min(I) ELSE 0) - 1
  BY DEF due, SelectInSeq
<1>2. Len(s) \in Nat /\ DOMAIN s = 1 .. Len(s) /\ \A i \in DOMAIN s : s[i].left \in Int
  OBVIOUS
<1> DEFINE a == FirstN(s, n)  b == WithoutFirstN(s, n)
<1>3. CASE I = {}
  <2>1. n = Len(s)
    BY <1>1, <1>3
  <2>2. \A i \in DOMAIN s : s[i].left <= 0
    BY <1>2, <1>3
  <2>3. \A x \in ToSet(a) : x.left <= 0
    <3>1. a = s
      BY <2>1 DEF FirstN
    <3> HIDE DEF a
    <3> QED BY <2>2, <3>1 DEF ToSet
  <2>4. Ahead(b)
    <3>1. DOMAIN b = {}
      BY <2>1, <1>2 DEF WithoutFirstN
    <3> HIDE DEF b
    <3> QED BY <3>1 DEF Ahead
  <2>5. ASSUME Ahead(s) PROVE n = 0
    <3>1. \A i \in DOMAIN s : FALSE
      BY <1>2, <2>2, <2>5 DEF Ahead
    <3> QED BY <1>2, <2>1, <3>1
  <2> QED BY <1>2, <2>1, <2>3, <2>4, <2>5
<1>4. CASE I # {}
  <2> DEFINE m == Min(I)
  <2>1. m \in I /\ \A y \in I : m <= y
    <3>1. I \in SUBSET Nat
      OBVIOUS
    <3> HIDE DEF I
    <3> QED BY <1>4, <3>1, Least
  <2>2. m \in 1 .. Len(s) /\ s[m].left > 0
    BY <2>1
  <2>3. n = m - 1
    <3> HIDE DEF m, I, n
    <3> QED BY <1>1, <1>4, <2>2 DEF m
  <2>4. \A i \in 1 .. Len(s) : i < m => ~ (s[i].left > 0)
    <3> HIDE DEF m
    <3> QED BY <2>1, <2>2
  <2> HIDE DEF I, m, n
  <2>5. n \in 0 .. Len(s)
    BY <1>2, <2>2, <2>3
  <2>6. \A x \in ToSet(a) : x.left <= 0
    <3>1. DOMAIN a = 1 .. n /\ \A i \in 1 .. n : a[i] = s[i]
      BY <2>5 DEF FirstN
    <3>2. \A i \in 1 .. n : s[i].left <= 0
      <4> SUFFICES ASSUME NEW i \in 1 .. n PROVE s[i].left <= 0
        OBVIOUS
      <4>1. i \in DOMAIN s /\ i < m
        BY <1>2, <2>2, <2>3
      <4>2. ~ (s[i].left > 0) /\ s[i].left \in Int
        BY <4>1, <1>2, <2>4
      <4> QED BY <4>2
    <3> HIDE DEF a
    <3> QED BY <3>1, <3>2 DEF ToSet
  <2>7. Ahead(b)
    <3>1. DOMAIN b = 1 .. Len(s) - n /\ \A i \in 1 .. Len(s) - n : b[i] = s[n + i]
      BY <2>5 DEF WithoutFirstN
    <3> HIDE DEF b
    <3>2. ASSUME NEW i \in DOMAIN b PROVE b[i].left > 0
      <4>1. n + i \in DOMAIN s /\ m \in DOMAIN s /\ m <= n + i
        BY <1>2, <2>2, <2>3, <2>5, <3>1
      <4>2. s[m].left <= s[n + i].left /\ s[m].left \in Int /\ s[n + i].left \in Int
        BY <4>1, <1>2 DEF Ordered
      <4> QED BY <3>1, <4>2, <2>2
    <3> QED BY <3>2 DEF Ahead
  <2>8. ASSUME Ahead(s) PROVE n = 0
    <3>1. ASSUME m # 1 PROVE FALSE
      <4>1. 1 \in DOMAIN s /\ 1 < m
        BY <3>1, <1>2, <2>2
      <4> QED BY <4>1, <2>4, <2>8, <1>2 DEF Ahead
    <3> QED BY <2>3, <3>1
  <2> QED BY <2>5, <2>6, <2>7, <2>8 DEF n
<1> QED BY <1>3, <1>4

\* Where insert_by_wake puts the record: behind those due no later.
LEMMA InsertedAt ==
  ASSUME NEW E, \A x \in E : x.left \in Int, NEW s \in Seq(E), NEW e \in E, Ordered(s)
  PROVE  LET r == insert_by_wake(s, e) IN
         \E at \in 1 .. Len(s) + 1 :
           /\ r \in Seq(E) /\ DOMAIN r = 1 .. Len(s) + 1
           /\ \A i \in DOMAIN r : r[i] = IF i < at THEN s[i] ELSE IF i = at THEN e ELSE s[i - 1]
           /\ \A i \in DOMAIN s : IF i < at THEN s[i].left <= e.left ELSE s[i].left > e.left
<1> DEFINE I == {i \in 1 .. Len(s) : s[i].left > e.left}  k == IF I # {} THEN Min(I) ELSE 0
           r == insert_by_wake(s, e)  n == Len(s)
<1>1. r = IF k = 0 THEN Append(s, e) ELSE InsertAt(s, k, e)
  BY DEF insert_by_wake, SelectInSeq
<1>2. n \in Nat /\ DOMAIN s = 1 .. n /\ e.left \in Int /\ \A i \in DOMAIN s : s[i].left \in Int
  OBVIOUS
<1>3. CASE I = {}
  <2>1. r = Append(s, e)
    BY <1>1, <1>3
  <2>2. /\ n + 1 \in 1 .. n + 1 /\ r \in Seq(E) /\ DOMAIN r = 1 .. n + 1
        /\ \A i \in DOMAIN r : r[i] = IF i < n + 1 THEN s[i] ELSE IF i = n + 1 THEN e ELSE s[i - 1]
    <3> HIDE DEF r
    <3> QED BY <2>1, <1>2
  <2>3. \A i \in DOMAIN s : i < n + 1 /\ s[i].left <= e.left
    BY <1>2, <1>3
  <2> HIDE DEF r, I, n, k
  <2> QED BY <2>2, <2>3 DEF n, r
<1>4. CASE I # {}
  <2>1. k \in I /\ \A y \in I : k <= y
    <3>1. I \in SUBSET Nat
      OBVIOUS
    <3> HIDE DEF I
    <3> QED BY <1>4, <3>1, Least
  <2>2. k \in 1 .. n /\ s[k].left > e.left /\ k # 0
    BY <2>1
  <2>3. \A i \in 1 .. n : i < k => ~ (s[i].left > e.left)
    <3> HIDE DEF k
    <3> QED BY <2>1, <2>2
  <2>4. r = SubSeq(s, 1, k - 1) \o <<e>> \o SubSeq(s, k, n)
    <3> HIDE DEF k, r
    <3> QED BY <1>1, <2>2 DEF InsertAt
  <2> HIDE DEF I, k, r
  <2> DEFINE a == SubSeq(s, 1, k - 1)  b == SubSeq(s, k, n)  c == a \o <<e>>
  <2>5. /\ a \in Seq(E) /\ Len(a) = k - 1 /\ (\A i \in 1 .. k - 1 : a[i] = s[i])
        /\ b \in Seq(E) /\ Len(b) = (n + 1) - k /\ (\A i \in 1 .. (n + 1) - k : b[i] = s[(k - 1) + i])
    BY <1>2, <2>2
  <2> HIDE DEF a, b
  <2>6. c \in Seq(E) /\ Len(c) = k /\ \A i \in 1 .. k : c[i] = IF i < k THEN a[i] ELSE e
    BY <2>2, <2>5
  <2> HIDE DEF c
  <2>7. r = c \o b
    BY <2>4 DEF a, b, c
  <2>8. r \in Seq(E) /\ DOMAIN r = 1 .. n + 1 /\ \A i \in 1 .. n + 1 : r[i] = IF i <= k THEN c[i] ELSE b[i - k]
    <3>1. Len(c) + Len(b) = n + 1 /\ k \in Nat
      BY <1>2, <2>2, <2>5, <2>6
    <3>2. r \in Seq(E) /\ DOMAIN r = 1 .. n + 1
      <4>1. c \o b \in Seq(E) /\ Len(c \o b) = Len(c) + Len(b)
        BY <2>5, <2>6
      <4>2. r \in Seq(E) /\ Len(r) = n + 1
        BY <2>7, <3>1, <4>1
      <4> QED BY <4>2
    <3>3. \A i \in 1 .. Len(c) + Len(b) : r[i] = IF i <= Len(c) THEN c[i] ELSE b[i - Len(c)]
      BY <2>5, <2>6, <2>7
    <3> QED BY <2>6, <3>1, <3>2, <3>3
  <2>9. \A i \in DOMAIN r : r[i] = IF i < k THEN s[i] ELSE IF i = k THEN e ELSE s[i - 1]
    <3> SUFFICES ASSUME NEW i \in 1 .. n + 1
                 PROVE  r[i] = IF i < k THEN s[i] ELSE IF i = k THEN e ELSE s[i - 1]
      BY <2>8
    <3>1. CASE i <= k
      <4>1. i \in 1 .. k /\ r[i] = c[i] /\ (i < k => i \in 1 .. k - 1) /\ (~ (i < k) => i = k)
        BY <3>1, <2>2, <2>8
      <4> QED BY <4>1, <2>5, <2>6
    <3>2. CASE i > k
      <4>1. i - k \in 1 .. (n + 1) - k /\ (k - 1) + (i - k) = i - 1 /\ ~ (i <= k)
        BY <3>2, <1>2, <2>2
      <4>2. b[i - k] = s[i - 1]
        BY <2>5, <4>1
      <4> QED BY <2>8, <3>2, <4>1, <4>2, <2>2
    <3> QED BY <3>1, <3>2, <2>2
  <2>10. \A i \in DOMAIN s : IF i < k THEN s[i].left <= e.left ELSE s[i].left > e.left
    <3> SUFFICES ASSUME NEW i \in DOMAIN s PROVE IF i < k THEN s[i].left <= e.left ELSE s[i].left > e.left
      OBVIOUS
    <3>1. CASE i < k
      BY <3>1, <1>2, <2>3
    <3>2. CASE ~ (i < k)
      <4>1. k \in DOMAIN s /\ k <= i
        BY <3>2, <1>2, <2>2
      <4>2. s[k].left <= s[i].left /\ s[k].left \in Int /\ s[i].left \in Int
        BY <4>1, <1>2 DEF Ordered
      <4> QED BY <3>2, <4>2, <1>2, <2>2
    <3> QED BY <3>1, <3>2
  <2>11. k \in 1 .. n + 1
    BY <1>2, <2>2
  <2> HIDE DEF n
  <2> QED BY <2>8, <2>9, <2>10, <2>11 DEF n, r
<1> QED BY <1>3, <1>4

LEMMA Inserted ==
  ASSUME NEW E, \A x \in E : x.left \in Int, NEW s \in Seq(E), NEW e \in E, Ordered(s)
  PROVE  LET r == insert_by_wake(s, e) IN
         /\ r \in Seq(E) /\ ToSet(r) = ToSet(s) \cup {e} /\ Ordered(r)
         /\ Ahead(s) /\ e.left > 0 => Ahead(r)
         /\ OneEach(s) /\ (\A x \in ToSet(s) : x.task # e.task) => OneEach(r)
         /\ \A W, X : /\ OneLive(W, X, s)
                      /\ \A x \in ToSet(s) : x.task = e.task => Gone(W, X, x.target)
                      => OneLive(W, X, r)
<1> DEFINE r == insert_by_wake(s, e)  n == Len(s)
<1>1. PICK at \in 1 .. n + 1 :
           /\ r \in Seq(E) /\ DOMAIN r = 1 .. n + 1
           /\ \A i \in DOMAIN r : r[i] = IF i < at THEN s[i] ELSE IF i = at THEN e ELSE s[i - 1]
           /\ \A i \in DOMAIN s : IF i < at THEN s[i].left <= e.left ELSE s[i].left > e.left
  BY InsertedAt
<1> HIDE DEF r
<1>2. n \in Nat /\ DOMAIN s = 1 .. n /\ e.left \in Int /\ \A i \in DOMAIN s : s[i].left \in Int
  OBVIOUS
\* Each place of r but at is one of s.
<1> DEFINE f(i) == IF i < at THEN i ELSE i - 1
<1>3. ASSUME NEW i \in DOMAIN r, i # at
      PROVE  f(i) \in DOMAIN s /\ r[i] = s[f(i)] /\ (f(i) < at <=> i < at)
  <2>1. CASE i < at
    BY <1>1, <1>2, <2>1
  <2>2. CASE i > at
    BY <1>1, <1>2, <2>2
  <2> QED BY <1>1, <1>3, <2>1, <2>2
<1>4. r[at] = e /\ at \in DOMAIN r
  BY <1>1, <1>2
<1>5. \A i, j \in DOMAIN r : i # at /\ j # at => (f(i) = f(j) => i = j) /\ (i <= j => f(i) <= f(j))
  BY <1>1, <1>2
<1>6. \A i \in DOMAIN s : \E j \in DOMAIN r : j # at /\ r[j] = s[i]
  <2> SUFFICES ASSUME NEW i \in DOMAIN s PROVE \E j \in DOMAIN r : j # at /\ r[j] = s[i]
    OBVIOUS
  <2>1. CASE i < at
    <3>1. i \in DOMAIN r /\ i # at /\ r[i] = s[i]
      BY <1>1, <1>2, <2>1
    <3> QED BY <3>1
  <2>2. CASE ~ (i < at)
    <3>1. i + 1 \in DOMAIN r /\ i + 1 # at /\ ~ (i + 1 < at) /\ (i + 1) - 1 = i
      BY <1>1, <1>2, <2>2
    <3>2. r[i + 1] = s[i]
      BY <1>1, <3>1
    <3> QED BY <3>1, <3>2
  <2> QED BY <2>1, <2>2
<1>7. \A i \in DOMAIN r : i < at => r[i].left <= e.left
  BY <1>3, <1>2, <1>1
<1>8. \A i \in DOMAIN r : i > at => r[i].left > e.left
  <2> SUFFICES ASSUME NEW i \in DOMAIN r, i > at PROVE r[i].left > e.left
    OBVIOUS
  <2>1. i # at /\ ~ (i < at)
    BY <1>1
  <2>2. f(i) \in DOMAIN s /\ r[i] = s[f(i)] /\ ~ (f(i) < at)
    BY <1>3, <2>1
  <2> HIDE DEF f
  <2> QED BY <1>1, <2>2
<1>9. \A i \in DOMAIN r : i \in Nat /\ r[i].left \in Int
  BY <1>1
<1> HIDE DEF f, n
<1>10. ToSet(r) = ToSet(s) \cup {e}
  <2>1. \A i \in DOMAIN r : r[i] \in ToSet(s) \cup {e}
    BY <1>3, <1>4 DEF ToSet
  <2>2. \A i \in DOMAIN s : s[i] \in ToSet(r)
    BY <1>6 DEF ToSet
  <2>3. e \in ToSet(r)
    BY <1>4 DEF ToSet
  <2> QED BY <2>1, <2>2, <2>3 DEF ToSet
<1>11. Ordered(r)
  <2> SUFFICES ASSUME NEW i \in DOMAIN r, NEW j \in DOMAIN r, i <= j PROVE r[i].left <= r[j].left
    BY DEF Ordered
  <2>1. CASE i = at /\ j = at
    BY <2>1, <1>9
  <2>2. CASE i = at /\ j # at
    BY <2>2, <1>2, <1>4, <1>8, <1>9
  <2>3. CASE i # at /\ j = at
    <3>1. i < at
      BY <2>3, <1>9
    <3> QED BY <2>3, <3>1, <1>4, <1>7
  <2>4. CASE i # at /\ j # at
    <3>1. f(i) \in DOMAIN s /\ f(j) \in DOMAIN s /\ r[i] = s[f(i)] /\ r[j] = s[f(j)] /\ f(i) <= f(j)
      BY <2>4, <1>3, <1>5
    <3> QED BY <3>1 DEF Ordered
  <2> QED BY <2>1, <2>2, <2>3, <2>4
<1>12. ASSUME Ahead(s), e.left > 0 PROVE Ahead(r)
  BY <1>3, <1>4, <1>12 DEF Ahead
<1>13. ASSUME OneEach(s), \A x \in ToSet(s) : x.task # e.task PROVE OneEach(r)
  <2>1. \A i \in DOMAIN r : i # at => r[i].task # e.task
    BY <1>3, <1>13 DEF ToSet
  <2> QED BY <1>3, <1>4, <1>5, <1>13, <2>1 DEF OneEach
<1>14. ASSUME NEW W, NEW X, OneLive(W, X, s), \A x \in ToSet(s) : x.task = e.task => Gone(W, X, x.target)
       PROVE  OneLive(W, X, r)
  <2>1. \A i \in DOMAIN r : i # at /\ r[i].task = e.task => Gone(W, X, r[i].target)
    BY <1>3, <1>14 DEF ToSet
  <2> QED BY <1>3, <1>4, <1>5, <1>14, <2>1 DEF OneLive
<1> QED BY <1>1, <1>10, <1>11, <1>12, <1>13, <1>14 DEF r

LEMMA Appended ==
  ASSUME NEW E, NEW s \in Seq(E), NEW e \in E
  PROVE  /\ Append(s, e) \in Seq(E) /\ ToSet(Append(s, e)) = ToSet(s) \cup {e}
         /\ IsInjective(s) /\ e \notin ToSet(s) => IsInjective(Append(s, e))
<1> DEFINE t == Append(s, e)  n == Len(s)
<1>1. t \in Seq(E) /\ DOMAIN t = 1 .. n + 1 /\ n \in Nat /\ DOMAIN s = 1 .. n
  OBVIOUS
<1>2. \A i \in DOMAIN t : t[i] = IF i = n + 1 THEN e ELSE s[i]
  OBVIOUS
<1> HIDE DEF t, n
<1>3. \A i \in DOMAIN t : (i = n + 1 /\ t[i] = e) \/ (i \in DOMAIN s /\ t[i] = s[i])
  BY <1>1, <1>2
<1>4. t[n + 1] = e /\ n + 1 \in DOMAIN t /\ \A i \in DOMAIN s : i \in DOMAIN t /\ t[i] = s[i]
  BY <1>1, <1>2
<1>5. ToSet(t) = ToSet(s) \cup {e}
  BY <1>3, <1>4 DEF ToSet
<1>6. ASSUME IsInjective(s), e \notin ToSet(s) PROVE IsInjective(t)
  <2>1. \A i \in DOMAIN s : s[i] # e
    BY <1>6 DEF ToSet
  <2> QED BY <1>3, <1>6, <2>1 DEF IsInjective
<1> QED BY <1>1, <1>5, <1>6 DEF t

LEMMA Joined ==
  ASSUME NEW E, NEW s \in Seq(E), NEW t \in Seq(E)
  PROVE  /\ s \o t \in Seq(E) /\ ToSet(s \o t) = ToSet(s) \cup ToSet(t)
         /\ IsInjective(s) /\ IsInjective(t) /\ ToSet(s) \cap ToSet(t) = {} => IsInjective(s \o t)
<1> DEFINE u == s \o t  n == Len(s)  m == Len(t)
<1>1. /\ u \in Seq(E) /\ Len(u) = n + m /\ n \in Nat /\ m \in Nat
      /\ DOMAIN s = 1 .. n /\ DOMAIN t = 1 .. m
  OBVIOUS
<1>2. DOMAIN u = 1 .. n + m
  BY <1>1
<1>3. \A i \in 1 .. n + m : u[i] = IF i <= n THEN s[i] ELSE t[i - n]
  OBVIOUS
<1> HIDE DEF u, n, m
<1>4. \A i \in DOMAIN u : \/ i \in DOMAIN s /\ u[i] = s[i]
                          \/ i \notin DOMAIN s /\ i - n \in DOMAIN t /\ u[i] = t[i - n]
  BY <1>1, <1>2, <1>3
<1>5. \A i \in DOMAIN s : i \in DOMAIN u /\ u[i] = s[i]
  BY <1>1, <1>2, <1>3
<1>6. \A i \in DOMAIN t : n + i \in DOMAIN u /\ u[n + i] = t[i]
  <2> SUFFICES ASSUME NEW i \in DOMAIN t PROVE n + i \in DOMAIN u /\ u[n + i] = t[i]
    OBVIOUS
  <2>1. n + i \in 1 .. n + m /\ ~ (n + i <= n) /\ (n + i) - n = i
    BY <1>1
  <2> QED BY <1>2, <1>3, <2>1
<1>7. ToSet(u) = ToSet(s) \cup ToSet(t)
  BY <1>4, <1>5, <1>6 DEF ToSet
<1>8. ASSUME IsInjective(s), IsInjective(t), ToSet(s) \cap ToSet(t) = {} PROVE IsInjective(u)
  <2> SUFFICES ASSUME NEW i \in DOMAIN u, NEW j \in DOMAIN u, u[i] = u[j] PROVE i = j
    BY DEF IsInjective
  <2>1. \A k \in DOMAIN u : IF k \in DOMAIN s THEN u[k] \in ToSet(s) ELSE u[k] \in ToSet(t)
    BY <1>4 DEF ToSet
  <2>2. CASE i \in DOMAIN s /\ j \in DOMAIN s
    BY <2>2, <1>4, <1>8 DEF IsInjective
  <2>3. CASE i \notin DOMAIN s /\ j \notin DOMAIN s
    <3>1. i - n \in DOMAIN t /\ j - n \in DOMAIN t /\ t[i - n] = t[j - n]
      BY <2>3, <1>4
    <3>2. i - n = j - n
      BY <3>1, <1>8 DEF IsInjective
    <3> QED BY <3>2, <1>1, <1>2
  <2>4. CASE i \in DOMAIN s /\ j \notin DOMAIN s
    BY <2>1, <2>4, <1>8
  <2>5. CASE i \notin DOMAIN s /\ j \in DOMAIN s
    BY <2>1, <2>5, <1>8
  <2> QED BY <2>2, <2>3, <2>4, <2>5
<1> QED BY <1>1, <1>7, <1>8 DEF u

\* Ticks lower all records alike.
LEMMA MinusIs ==
  ASSUME NEW s, NEW n \in Nat, \A i \in DOMAIN s : s[i].left \in Nat
  PROVE  LET r == Minus(s, n) IN
         /\ DOMAIN r = DOMAIN s /\ \A i \in DOMAIN s : r[i] = [s[i] EXCEPT !.left = s[i].left - n]
BY DEF Minus

-----------------------------------------------------------------------------
(***************************************************************************)
(* Targets and structures                                                  *)
(***************************************************************************)
LEMMA Kinds ==
  /\ Queues \subseteq Target /\ Manual \in Target
  /\ \A x \in Task : TaskExit(x) \in Target /\ ChildExit(x) \in Target
  /\ \A g \in Queues, x \in Task : g # TaskExit(x) /\ g # ChildExit(x) /\ g # Manual
  /\ \A x, y \in Task : ChildExit(x) # TaskExit(y) /\ Manual # TaskExit(y) /\ Manual # ChildExit(y)
  /\ \A x, y \in Task : (TaskExit(x) = TaskExit(y) => x = y) /\ (ChildExit(x) = ChildExit(y) => x = y)
  /\ \A p, q : WaitQueue(p) = WaitQueue(q) => p = q
<1>1. /\ Queues \subseteq Target /\ Manual \in Target
      /\ \A x \in Task : TaskExit(x) \in Target /\ ChildExit(x) \in Target
  BY DEF Queues, Target
<1>2. \A q, x : WaitQueue(q) # TaskExit(x) /\ WaitQueue(q) # ChildExit(x) /\ WaitQueue(q) # Manual
  BY DEF WaitQueue, TaskExit, ChildExit, Manual
<1>3. \A x, y : ChildExit(x) # TaskExit(y) /\ Manual # TaskExit(y) /\ Manual # ChildExit(y)
  BY DEF TaskExit, ChildExit, Manual
<1>4. \A x, y : (TaskExit(x) = TaskExit(y) => x = y) /\ (ChildExit(x) = ChildExit(y) => x = y)
  BY DEF TaskExit, ChildExit
<1>5. \A p, q : WaitQueue(p) = WaitQueue(q) => p = q
  BY DEF WaitQueue
<1> QED BY <1>1, <1>2, <1>3, <1>4, <1>5 DEF Queues

\* A queue id is never gone.
LEMMA QueuesStay == ASSUME NEW W, NEW X, NEW g \in Queues PROVE ~ Gone(W, X, g)
BY Kinds DEF Gone, ExitsOf

LEMMA GoneMore ==
  ASSUME NEW W, NEW X, NEW V, NEW Y, \A g : Gone(W, X, g) => Gone(V, Y, g), NEW s, OneLive(W, X, s)
  PROVE  OneLive(V, Y, s)
BY DEF OneLive

LEMMA Fields ==
  ASSUME NEW W \in WaitQueuesType
  PROVE  /\ W = [queue |-> W.queue, len |-> W.len, free |-> W.free, timeouts |-> W.timeouts,
                 sleepers |-> W.sleepers, exited |-> W.exited, state |-> W.state, target |-> W.target,
                 result |-> W.result]
         /\ DOMAIN W = {"queue", "len", "free", "timeouts", "sleepers", "exited", "state", "target", "result"}
         /\ W.queue \in [Target -> Seq(Task)] /\ W.len \in Nat /\ W.free \subseteq QueueId
         /\ W.timeouts \in Seq(TimeoutTask) /\ W.sleepers \in Seq(Sleeper) /\ W.exited \in Seq(Task)
         /\ W.state \in [Task -> TaskStates] /\ W.target \in [Task -> Target \cup {NoTarget}]
         /\ W.result \in [Task -> Results]
BY DEF WaitQueuesType

LEMMA Lefts ==
  /\ \A x \in TimeoutTask : x.left \in Int /\ x.left \in Nat /\ x.task \in Task /\ x.target \in Target
  /\ \A x \in Sleeper : x.left \in Int /\ x.left \in Nat /\ x.task \in Task
BY DEF TimeoutTask, Sleeper

\* Nothing is due between two ticks, so an entry on the timekeeper's CPU finds
\* nothing to do.
LEMMA NothingDue ==
  ASSUME NEW W \in WaitQueuesType, Ordered(W.sleepers), Ahead(W.sleepers), Ordered(W.timeouts), Ahead(W.timeouts)
  PROVE  activate_woken_and_timeout_tasks(W) = {W}
<1>1. due(W.sleepers) = 0 /\ due(W.timeouts) = 0
  BY Fields, Lefts, DueIs
<1>2. /\ WithoutFirstN(W.sleepers, 0) = W.sleepers /\ FirstN(W.sleepers, 0) = <<>>
      /\ WithoutFirstN(W.timeouts, 0) = W.timeouts /\ FirstN(W.timeouts, 0) = <<>>
  <2>1. \A E : \A s \in Seq(E) : SubSeq(s, 0 + 1, Len(s)) = s
    OBVIOUS
  <2>2. \A E : \A s \in Seq(E) : SubSeq(s, 1, 0) = <<>>
    <3> SUFFICES ASSUME NEW E, NEW s \in Seq(E) PROVE SubSeq(s, 1, 0) = <<>>
      OBVIOUS
    <3>1. SubSeq(s, 1, 0) \in Seq(E) /\ Len(SubSeq(s, 1, 0)) = 0
      OBVIOUS
    <3>2. \A x \in Seq(E) : Len(x) = 0 => x = <<>>
      OBVIOUS
    <3> QED BY <3>1, <3>2
  <2> QED BY <2>1, <2>2, Fields DEF FirstN, WithoutFirstN
<1>3. ToSet(<<>>) = {}
  BY DEF ToSet
<1>4. [t \in Task |-> W.state[t]] = W.state /\ [t \in Task |-> W.target[t]] = W.target
      /\ [t \in Task |-> W.result[t]] = W.result /\ [g \in Target |-> W.queue[g]] = W.queue
  BY Fields
<1>5. woken_tasks(W) = W
  <2>1. {e.task : e \in {}} = {}
    OBVIOUS
  <2>2. woken_tasks(W) = [W EXCEPT !.sleepers = W.sleepers,
                                   !.state = [t \in Task |-> IF t \in {} THEN "active" ELSE W.state[t]]]
    BY <1>1, <1>2, <1>3, <2>1 DEF woken_tasks
  <2>3. [t \in Task |-> IF t \in {} THEN "active" ELSE W.state[t]] = W.state
    BY <1>4
  <2> QED BY <2>2, <2>3, Fields
<1>6. timeout_tasks(W) = W
  <2> DEFINE q == [g \in Target |-> Without(W.queue[g], {d.task : d \in {x \in {} : x.target = g}})]
             Q == [W EXCEPT !.timeouts = W.timeouts, !.queue = q]
             T == {e.task : e \in {d \in {} : Contains(W.queue[d.target], d.task) /\ W.state[d.task] = "blocked"
                                               /\ W.target[d.task] = d.target}}
  <2>1. timeout_tasks(W) = activate(Q, T, "timed_out")
    BY <1>1, <1>2, <1>3 DEF timeout_tasks
  <2>2. T = {} /\ \A g : {d.task : d \in {x \in {} : x.target = g}} = {}
    OBVIOUS
  <2>3. \A g \in Target : Without(W.queue[g], {}) = W.queue[g]
    BY Fields, WithoutIs
  <2>4. q = W.queue
    BY <1>4, <2>2, <2>3
  <2> HIDE DEF q
  <2>5. Q = W
    BY <2>4, Fields
  <2> HIDE DEF Q, T
  <2>6. activate(W, {}, "timed_out") = W
    <3>1. /\ [t \in Task |-> IF t \in {} THEN "active" ELSE W.state[t]] = W.state
          /\ [t \in Task |-> IF t \in {} THEN NoTarget ELSE W.target[t]] = W.target
          /\ [t \in Task |-> IF t \in {} THEN "timed_out" ELSE W.result[t]] = W.result
      BY <1>4
    <3>2. activate(W, {}, "timed_out") = [W EXCEPT !.state = W.state, !.target = W.target, !.result = W.result]
      BY <3>1 DEF activate
    <3> QED BY <3>2, Fields
  <2> QED BY <2>1, <2>2, <2>5, <2>6
<1> QED BY <1>5, <1>6 DEF activate_woken_and_timeout_tasks

LEMMA EnteredSame == ASSUME NEW X, Good(wq, deadline, X) PROVE Entered = {wq}
BY NothingDue DEF Good, SleepersSound, TimeoutsSound, Entered

-----------------------------------------------------------------------------
(***************************************************************************)
(* Steps of a structure                                                    *)
(***************************************************************************)
\* t leaves every container, and so do those that wait for t if t is gone (G are
\* the queues that are removed).  t is active or gone after it, or it was in none.
LeftBy(V, W, X, Y, t, G) ==
  /\ V \in WaitQueuesType
  /\ \A g \in Target : V.queue[g] = IF g \in G THEN <<>> ELSE Without(W.queue[g], {t})
  /\ V.sleepers = NotOf(W.sleepers, t) /\ V.timeouts = NotOf(W.timeouts, t) /\ V.free = W.free
  /\ \A u \in Task \ {t} : V.state[u] = W.state[u] /\ V.target[u] = W.target[u] /\ V.result[u] = W.result[u]
  /\ V.state[t] # "sleeping"
  /\ V.state[t] = "blocked" =>
       W.state[t] = "blocked" /\ V.target[t] = W.target[t] /\ Gone(W, X, W.target[t]) /\ V.result[t] = W.result[t]
  /\ V.result[t] \in {W.result[t], "woken", "interrupted"}
  /\ ExitedSound(V)
  /\ \A g : Gone(W, X, g) => Gone(V, Y, g)
  /\ \A g \in G : Gone(V, Y, g)
LEMMA Leave ==
  ASSUME NEW W, NEW D, NEW X, Good(W, D, X), NEW t \in Task, NEW V, NEW Y \in SUBSET Task,
         NEW G \in SUBSET Target, LeftBy(V, W, X, Y, t, G)
  PROVE  Good(V, D, Y)
<1>0. /\ V \in WaitQueuesType
      /\ \A g \in Target : V.queue[g] = IF g \in G THEN <<>> ELSE Without(W.queue[g], {t})
      /\ V.sleepers = NotOf(W.sleepers, t) /\ V.timeouts = NotOf(W.timeouts, t) /\ V.free = W.free
      /\ \A u \in Task \ {t} : V.state[u] = W.state[u] /\ V.target[u] = W.target[u] /\ V.result[u] = W.result[u]
      /\ V.state[t] # "sleeping"
      /\ V.state[t] = "blocked" =>
           W.state[t] = "blocked" /\ V.target[t] = W.target[t] /\ Gone(W, X, W.target[t]) /\ V.result[t] = W.result[t]
      /\ V.result[t] \in {W.result[t], "woken", "interrupted"}
      /\ ExitedSound(V)
      /\ \A g : Gone(W, X, g) => Gone(V, Y, g)
      /\ \A g \in G : Gone(V, Y, g)
  BY DEF LeftBy
<1> USE <1>0
<1>1. /\ W \in WaitQueuesType /\ D \in [Task -> Nat \cup {NoTimeout}]
      /\ QueuesSound(W, X) /\ SleepersSound(W) /\ TimeoutsSound(W, X) /\ Armed(W, D) /\ ResultsSound(W, D)
  BY DEF Good
<1>2. /\ W.queue \in [Target -> Seq(Task)] /\ W.timeouts \in Seq(TimeoutTask) /\ W.sleepers \in Seq(Sleeper)
      /\ W.free \subseteq QueueId
  BY <1>1, Fields
<1> DEFINE L == {e \in ToSet(W.sleepers) : e.task = t}  R == {e \in ToSet(W.timeouts) : e.task = t}
<1>3. /\ V.sleepers \in Seq(Sleeper) /\ Thinned(V.sleepers, W.sleepers) /\ ToSet(V.sleepers) = ToSet(W.sleepers) \ L
  BY <1>2, WithoutIs DEF NotOf
<1>4. /\ V.timeouts \in Seq(TimeoutTask) /\ Thinned(V.timeouts, W.timeouts) /\ ToSet(V.timeouts) = ToSet(W.timeouts) \ R
  BY <1>2, WithoutIs DEF NotOf
<1>5. \A g \in Target : IsInjective(V.queue[g]) /\ ToSet(V.queue[g]) = IF g \in G THEN {} ELSE ToSet(W.queue[g]) \ {t}
  <2> SUFFICES ASSUME NEW g \in Target
               PROVE  IsInjective(V.queue[g]) /\ ToSet(V.queue[g]) = IF g \in G THEN {} ELSE ToSet(W.queue[g]) \ {t}
    OBVIOUS
  <2>1. CASE g \in G
    <3>1. V.queue[g] = <<>>
      BY <2>1
    <3>2. IsInjective(<<>>) /\ ToSet(<<>>) = {}
      BY DEF IsInjective, ToSet
    <3> QED BY <2>1, <3>1, <3>2
  <2>2. CASE g \notin G
    <3> DEFINE s == W.queue[g]  r == V.queue[g]
    <3>1. r = Without(s, {t}) /\ s \in Seq(Task) /\ IsInjective(s)
      BY <1>1, <1>2, <2>2 DEF QueuesSound
    <3> HIDE DEF r, s
    <3>2. r \in Seq(Task) /\ Thinned(r, s) /\ ToSet(r) = ToSet(s) \ {t}
      BY <3>1, WithoutIs
    <3>3. IsInjective(r)
      BY <3>1, <3>2, ThinnedKeeps
    <3> QED BY <2>2, <3>2, <3>3 DEF r, s
  <2> QED BY <2>1, <2>2
<1>6. \A g \in Target : \A u \in ToSet(W.queue[g]) : u \in Task /\ W.state[u] = "blocked" /\ W.target[u] = g
  BY <1>1, <1>2, InSet DEF QueuesSound
<1>7. QueuesSound(V, Y)
  <2>1. \A g \in Target : \A u \in ToSet(V.queue[g]) : V.state[u] = "blocked" /\ V.target[u] = g
    <3> SUFFICES ASSUME NEW g \in Target, NEW u \in ToSet(V.queue[g]) PROVE V.state[u] = "blocked" /\ V.target[u] = g
      OBVIOUS
    <3>1. u \in ToSet(W.queue[g]) /\ u # t
      BY <1>5
    <3> QED BY <1>6, <3>1
  <2>2. ASSUME NEW u \in Task, V.state[u] = "blocked"
        PROVE  V.target[u] \in Target /\ (u \in ToSet(V.queue[V.target[u]]) \/ Gone(V, Y, V.target[u]))
    <3>1. W.state[u] = "blocked" /\ V.target[u] = W.target[u]
      BY <2>2
    <3>2. W.target[u] \in Target /\ (u \in ToSet(W.queue[W.target[u]]) \/ Gone(W, X, W.target[u]))
      BY <1>1, <3>1 DEF QueuesSound
    <3>3. CASE u = t
      BY <2>2, <3>1, <3>2, <3>3
    <3>4. CASE u # t
      BY <1>5, <3>1, <3>2, <3>4
    <3> QED BY <3>3, <3>4
  <2>3. ASSUME NEW q \in V.free PROVE V.queue[WaitQueue(q)] = <<>>
    <3>1. WaitQueue(q) \in Target /\ W.queue[WaitQueue(q)] = <<>>
      BY <1>1, <1>2, Kinds DEF QueuesSound, Queues
    <3>2. ToSet(W.queue[WaitQueue(q)]) = {}
      BY <3>1 DEF ToSet
    <3>3. ToSet(V.queue[WaitQueue(q)]) = {}
      BY <1>5, <3>1, <3>2
    <3>4. V.queue[WaitQueue(q)] \in Seq(Task)
      BY <3>1, Fields
    <3> QED BY <3>3, <3>4, InSet
  <2> QED BY <1>5, <2>1, <2>2, <2>3 DEF QueuesSound
<1>8. SleepersSound(V)
  <2>1. OneEach(V.sleepers) /\ Ordered(V.sleepers) /\ Ahead(V.sleepers)
    BY <1>1, <1>2, <1>3, ThinnedKeeps DEF SleepersSound
  <2>2. \A u \in Task : W.state[u] = "sleeping" <=> \E e \in ToSet(W.sleepers) : e.task = u
    BY <1>1 DEF SleepersSound
  <2>3. ASSUME NEW u \in Task, u # t PROVE V.state[u] = "sleeping" <=> \E e \in ToSet(V.sleepers) : e.task = u
    <3>1. (\E e \in ToSet(V.sleepers) : e.task = u) <=> (\E e \in ToSet(W.sleepers) : e.task = u)
      BY <1>3, <2>3
    <3> QED BY <2>2, <2>3, <3>1
  <2>4. \A e \in ToSet(V.sleepers) : e.task # t
    BY <1>3
  <2> QED BY <2>1, <2>3, <2>4 DEF SleepersSound
<1>9. TimeoutsSound(V, Y)
  <2>1. OneLive(W, X, V.timeouts) /\ Ordered(V.timeouts) /\ Ahead(V.timeouts)
    BY <1>1, <1>2, <1>4, ThinnedKeeps DEF TimeoutsSound
  <2>2. OneLive(V, Y, V.timeouts)
    BY <2>1, GoneMore
  <2>3. ASSUME NEW e \in ToSet(V.timeouts)
        PROVE  /\ e.target \in Queues \cup {TaskExit(x) : x \in Task}
               /\ e.task \in ToSet(V.queue[e.target]) \/ Gone(V, Y, e.target)
    <3>1. e \in ToSet(W.timeouts) /\ e.task # t
      BY <1>4
    <3>2. /\ e.target \in Queues \cup {TaskExit(x) : x \in Task}
          /\ e.task \in ToSet(W.queue[e.target]) \/ Gone(W, X, e.target)
      BY <1>1, <3>1 DEF TimeoutsSound
    <3>3. e.target \in Target
      BY <3>2, Kinds
    <3> QED BY <1>5, <3>1, <3>2, <3>3
  <2> QED BY <2>1, <2>2, <2>3 DEF TimeoutsSound
<1>10. Armed(V, D)
  <2> SUFFICES ASSUME NEW u \in Task, V.state[u] = "blocked", D[u] # NoTimeout
               PROVE  /\ V.target[u] \in Queues
                      /\ [task |-> u, target |-> V.target[u], left |-> D[u]] \in ToSet(V.timeouts)
    BY DEF Armed
  <2>1. W.state[u] = "blocked" /\ V.target[u] = W.target[u]
    OBVIOUS
  <2>2. /\ W.target[u] \in Queues
        /\ [task |-> u, target |-> W.target[u], left |-> D[u]] \in ToSet(W.timeouts)
    BY <1>1, <2>1 DEF Armed
  <2>3. u # t
    BY <2>2, QueuesStay
  <2> QED BY <1>4, <2>1, <2>2, <2>3
<1>11. ResultsSound(V, D)
  <2>1. ASSUME NEW u \in Task, Waiting(V, u) PROVE V.result[u] = "none"
    <3>1. W.state[u] = V.state[u] /\ V.result[u] = W.result[u]
      BY <2>1 DEF Waiting
    <3> QED BY <1>1, <2>1, <3>1 DEF ResultsSound, Waiting
  <2>2. ASSUME NEW u \in Task, V.result[u] = "timed_out", D[u] # NoTimeout PROVE D[u] = 0
    <3>1. W.result[u] = "timed_out"
      BY <2>2
    <3> QED BY <1>1, <2>2, <3>1 DEF ResultsSound
  <2> QED BY <2>1, <2>2 DEF ResultsSound
<1> QED BY <1>1, <1>7, <1>8, <1>9, <1>10, <1>11 DEF Good

\* The tasks P leave the queue g and become active; their records leave too, unless
\* g has none or is gone.
WokenFrom(V, W, X, g, P) ==
  /\ V \in WaitQueuesType /\ P \subseteq ToSet(W.queue[g])
  /\ \A h \in Target : h # g => V.queue[h] = W.queue[h]
  /\ Thinned(V.queue[g], W.queue[g]) /\ ToSet(V.queue[g]) = ToSet(W.queue[g]) \ P
  /\ \/ V.timeouts = Without(W.timeouts, {e \in ToSet(W.timeouts) : e.task \in P /\ e.target = g})
     \/ V.timeouts = W.timeouts /\ (Gone(W, X, g) \/ g \notin Queues \cup {TaskExit(x) : x \in Task})
  /\ V.sleepers = W.sleepers /\ V.exited = W.exited /\ V.free = W.free
  /\ \A u \in Task : /\ V.state[u] = IF u \in P THEN "active" ELSE W.state[u]
                     /\ u \notin P => V.target[u] = W.target[u] /\ V.result[u] = W.result[u]
                     /\ u \in P => V.result[u] = "woken"
LEMMA Woken ==
  ASSUME NEW W, NEW D, NEW X, Good(W, D, X), NEW V, NEW g \in Target, NEW P, WokenFrom(V, W, X, g, P)
  PROVE  Good(V, D, X)
<1>0. /\ V \in WaitQueuesType /\ P \subseteq ToSet(W.queue[g])
      /\ \A h \in Target : h # g => V.queue[h] = W.queue[h]
      /\ Thinned(V.queue[g], W.queue[g]) /\ ToSet(V.queue[g]) = ToSet(W.queue[g]) \ P
      /\ \/ V.timeouts = Without(W.timeouts, {e \in ToSet(W.timeouts) : e.task \in P /\ e.target = g})
         \/ V.timeouts = W.timeouts /\ (Gone(W, X, g) \/ g \notin Queues \cup {TaskExit(x) : x \in Task})
      /\ V.sleepers = W.sleepers /\ V.exited = W.exited /\ V.free = W.free
      /\ \A u \in Task : /\ V.state[u] = IF u \in P THEN "active" ELSE W.state[u]
                         /\ u \notin P => V.target[u] = W.target[u] /\ V.result[u] = W.result[u]
                         /\ u \in P => V.result[u] = "woken"
  BY DEF WokenFrom
<1> USE <1>0
<1>1. /\ W \in WaitQueuesType /\ D \in [Task -> Nat \cup {NoTimeout}] /\ X \subseteq Task
      /\ QueuesSound(W, X) /\ SleepersSound(W) /\ ExitedSound(W) /\ TimeoutsSound(W, X)
      /\ Armed(W, D) /\ ResultsSound(W, D)
  BY DEF Good
<1>2. /\ W.queue \in [Target -> Seq(Task)] /\ W.timeouts \in Seq(TimeoutTask) /\ W.free \subseteq QueueId
      /\ V.queue \in [Target -> Seq(Task)] /\ V.timeouts \in Seq(TimeoutTask)
  BY <1>1, Fields
<1> DEFINE R == {e \in ToSet(W.timeouts) : e.task \in P /\ e.target = g}
<1>3. \A h \in Target : \A u \in ToSet(W.queue[h]) : u \in Task /\ W.state[u] = "blocked" /\ W.target[u] = h
  BY <1>1, <1>2, InSet DEF QueuesSound
<1>4. \A h \in Target : ToSet(V.queue[h]) = ToSet(W.queue[h]) \ P
  <2> SUFFICES ASSUME NEW h \in Target, h # g PROVE ToSet(V.queue[h]) = ToSet(W.queue[h]) \ P
    OBVIOUS
  <2>1. \A u \in ToSet(W.queue[h]) : u \notin P
    BY <1>3
  <2> QED BY <2>1
<1>5. \A x : Gone(V, X, x) <=> Gone(W, X, x)
  <2>1. \A u \in Task : V.state[u] \in {"exited", "reaped"} <=> W.state[u] \in {"exited", "reaped"}
    BY <1>3
  <2> QED BY <2>1 DEF Gone
<1>6. /\ Thinned(V.timeouts, W.timeouts) \/ V.timeouts = W.timeouts
      /\ \A e \in ToSet(W.timeouts) : e \in ToSet(V.timeouts) \/ e \in R
      /\ ToSet(V.timeouts) \subseteq ToSet(W.timeouts)
      /\ \A e \in ToSet(V.timeouts) : e.target = g => e.task \notin P \/ Gone(W, X, g)
  <2>1. CASE V.timeouts = Without(W.timeouts, R)
    <3>1. Thinned(V.timeouts, W.timeouts) /\ ToSet(V.timeouts) = ToSet(W.timeouts) \ R
      BY <1>2, <2>1, WithoutIs
    <3> QED BY <3>1
  <2>2. CASE V.timeouts = W.timeouts /\ (Gone(W, X, g) \/ g \notin Queues \cup {TaskExit(x) : x \in Task})
    <3>1. \A e \in ToSet(W.timeouts) : e.target \in Queues \cup {TaskExit(x) : x \in Task}
      BY <1>1 DEF TimeoutsSound
    <3> QED BY <2>2, <3>1
  <2> QED BY <2>1, <2>2
<1>7. QueuesSound(V, X)
  <2>1. \A h \in Target : IsInjective(V.queue[h])
    <3> SUFFICES ASSUME NEW h \in Target PROVE IsInjective(V.queue[h])
      OBVIOUS
    <3>1. IsInjective(W.queue[h])
      BY <1>1 DEF QueuesSound
    <3>2. CASE h = g
      <4>1. V.queue[h] \in Seq(Task) /\ W.queue[h] \in Seq(Task) /\ Thinned(V.queue[h], W.queue[h])
        BY <1>2, <3>2
      <4> QED BY <3>1, <4>1, ThinnedKeeps
    <3> QED BY <3>1, <3>2
  <2>2. \A h \in Target : \A u \in ToSet(V.queue[h]) : V.state[u] = "blocked" /\ V.target[u] = h
    BY <1>3, <1>4
  <2>3. ASSUME NEW u \in Task, V.state[u] = "blocked"
        PROVE  V.target[u] \in Target /\ (u \in ToSet(V.queue[V.target[u]]) \/ Gone(V, X, V.target[u]))
    <3>1. u \notin P /\ W.state[u] = "blocked" /\ V.target[u] = W.target[u]
      BY <2>3
    <3>2. W.target[u] \in Target /\ (u \in ToSet(W.queue[W.target[u]]) \/ Gone(W, X, W.target[u]))
      BY <1>1, <3>1 DEF QueuesSound
    <3> QED BY <1>4, <1>5, <3>1, <3>2
  <2>4. ASSUME NEW q \in V.free PROVE V.queue[WaitQueue(q)] = <<>>
    <3>1. WaitQueue(q) \in Target /\ W.queue[WaitQueue(q)] = <<>>
      BY <1>1, <1>2, Kinds DEF QueuesSound, Queues
    <3>2. ToSet(W.queue[WaitQueue(q)]) = {}
      BY <3>1 DEF ToSet
    <3> QED BY <1>2, <1>4, <3>1, <3>2, InSet
  <2> QED BY <2>1, <2>2, <2>3, <2>4 DEF QueuesSound
<1>8. SleepersSound(V)
  <2>1. \A u \in Task : V.state[u] = "sleeping" <=> W.state[u] = "sleeping"
    BY <1>3
  <2> QED BY <1>1, <2>1 DEF SleepersSound
<1>9. ExitedSound(V)
  <2>1. \A u \in Task : V.state[u] = "exited" <=> W.state[u] = "exited"
    BY <1>3
  <2> QED BY <1>1, <2>1 DEF ExitedSound
<1>10. TimeoutsSound(V, X)
  <2>1. OneLive(W, X, V.timeouts) /\ Ordered(V.timeouts) /\ Ahead(V.timeouts)
    BY <1>1, <1>2, <1>6, ThinnedKeeps DEF TimeoutsSound
  <2>2. OneLive(V, X, V.timeouts)
    BY <1>5, <2>1, GoneMore
  <2>3. ASSUME NEW e \in ToSet(V.timeouts)
        PROVE  /\ e.target \in Queues \cup {TaskExit(x) : x \in Task}
               /\ e.task \in ToSet(V.queue[e.target]) \/ Gone(V, X, e.target)
    <3>1. e \in ToSet(W.timeouts)
      BY <1>6
    <3>2. /\ e.target \in Queues \cup {TaskExit(x) : x \in Task}
          /\ e.task \in ToSet(W.queue[e.target]) \/ Gone(W, X, e.target)
      BY <1>1, <3>1 DEF TimeoutsSound
    <3>3. e.target \in Target
      BY <3>2, Kinds
    <3>4. CASE e.task \in ToSet(W.queue[e.target]) /\ ~ Gone(W, X, e.target)
      <4>1. e.task \notin P
        <5> SUFFICES ASSUME e.task \in P PROVE FALSE
          OBVIOUS
        <5>1. e.target = g
          BY <1>3, <3>3, <3>4
        <5> QED BY <1>6, <3>4, <5>1
      <4> QED BY <1>4, <3>2, <3>3, <3>4, <4>1
    <3> QED BY <1>5, <3>2, <3>4
  <2> QED BY <2>1, <2>2, <2>3 DEF TimeoutsSound
<1>11. Armed(V, D)
  <2> SUFFICES ASSUME NEW u \in Task, V.state[u] = "blocked", D[u] # NoTimeout
               PROVE  /\ V.target[u] \in Queues
                      /\ [task |-> u, target |-> V.target[u], left |-> D[u]] \in ToSet(V.timeouts)
    BY DEF Armed
  <2>1. u \notin P /\ W.state[u] = "blocked" /\ V.target[u] = W.target[u]
    OBVIOUS
  <2>2. /\ W.target[u] \in Queues
        /\ [task |-> u, target |-> W.target[u], left |-> D[u]] \in ToSet(W.timeouts)
    BY <1>1, <2>1 DEF Armed
  <2>3. [task |-> u, target |-> W.target[u], left |-> D[u]] \notin R
    BY <2>1
  <2> HIDE DEF R
  <2> QED BY <1>6, <2>1, <2>2, <2>3
<1>12. ResultsSound(V, D)
  <2>1. ASSUME NEW u \in Task, Waiting(V, u) PROVE V.result[u] = "none"
    <3>1. u \notin P /\ W.state[u] = V.state[u] /\ V.result[u] = W.result[u]
      BY <2>1 DEF Waiting
    <3> QED BY <1>1, <2>1, <3>1 DEF ResultsSound, Waiting
  <2>2. ASSUME NEW u \in Task, V.result[u] = "timed_out", D[u] # NoTimeout PROVE D[u] = 0
    <3>1. W.result[u] = "timed_out"
      BY <2>2
    <3> QED BY <1>1, <2>2, <3>1 DEF ResultsSound
  <2> QED BY <2>1, <2>2 DEF ResultsSound
<1> QED BY <1>1, <1>7, <1>8, <1>9, <1>10, <1>11, <1>12 DEF Good

Record(t, g, d) == [task |-> t, target |-> g, left |-> d]

\* An active task has no record but of exits that have happened.
LEMMA OldRecords ==
  ASSUME NEW W, NEW D, NEW X, Good(W, D, X), NEW e \in ToSet(W.timeouts), W.state[e.task] # "blocked"
  PROVE  Gone(W, X, e.target)
<1>1. W \in WaitQueuesType /\ QueuesSound(W, X) /\ TimeoutsSound(W, X)
  BY DEF Good
<1>2. /\ e.target \in Queues \cup {TaskExit(x) : x \in Task}
      /\ e.task \in ToSet(W.queue[e.target]) \/ Gone(W, X, e.target)
  BY <1>1 DEF TimeoutsSound
<1>3. e.target \in Target
  BY <1>2, Kinds
<1> QED BY <1>1, <1>2, <1>3 DEF QueuesSound

BlockResult(V, W, t, g, d) ==
  /\ V \in WaitQueuesType /\ V.queue = [W.queue EXCEPT ![g] = Append(W.queue[g], t)]
  /\ V.state = [W.state EXCEPT ![t] = "blocked"] /\ V.target = [W.target EXCEPT ![t] = g]
  /\ V.result = [W.result EXCEPT ![t] = "none"]
  /\ V.timeouts = IF d = NoTimeout THEN W.timeouts ELSE insert_by_wake(W.timeouts, Record(t, g, d))
  /\ V.sleepers = W.sleepers /\ V.exited = W.exited /\ V.free = W.free
LEMMA BlockIs ==
  ASSUME NEW W \in WaitQueuesType, NEW t \in Task, NEW g \in Target, NEW d \in Timeout \cup {NoTimeout},
         Ordered(W.timeouts)
  PROVE  BlockResult(block(W, t, g, d), W, t, g, d)
<1> DEFINE V == block(W, t, g, d)
           q == [W.queue EXCEPT ![g] = Append(W.queue[g], t)]
           ts == IF d = NoTimeout THEN W.timeouts ELSE insert_by_wake(W.timeouts, Record(t, g, d))
           st == [W.state EXCEPT ![t] = "blocked"]  tg == [W.target EXCEPT ![t] = g]
           rs == [W.result EXCEPT ![t] = "none"]
           A == [W EXCEPT !.state[t] = "blocked", !.target[t] = g, !.result[t] = "none"]
           B == [A EXCEPT !.queue[g] = Append(@, t)]
<1>0. V = IF d = NoTimeout THEN B
          ELSE [B EXCEPT !.timeouts = insert_by_wake(B.timeouts, Record(t, g, d))]
  BY DEF block, enqueue_wait_task, Record
<1>a. A = [queue |-> W.queue, len |-> W.len, free |-> W.free, timeouts |-> W.timeouts, sleepers |-> W.sleepers,
           exited |-> W.exited, state |-> st, target |-> tg, result |-> rs]
  <2>1. A = [W EXCEPT !.state = st, !.target = tg, !.result = rs]
    OBVIOUS
  <2> HIDE DEF A, st, tg, rs
  <2>2. DOMAIN W = {"queue", "len", "free", "timeouts", "sleepers", "exited", "state", "target", "result"}
    BY Fields
  <2> QED BY <2>1, <2>2
<1> HIDE DEF A
<1>b. B = [queue |-> q, len |-> W.len, free |-> W.free, timeouts |-> W.timeouts, sleepers |-> W.sleepers,
           exited |-> W.exited, state |-> st, target |-> tg, result |-> rs]
  BY <1>a
<1> HIDE DEF B
<1>2. q \in [Target -> Seq(Task)]
  <2>1. W.queue[g] \in Seq(Task) /\ Append(W.queue[g], t) \in Seq(Task)
    BY Fields
  <2> QED BY <2>1, Fields
<1>3. ts \in Seq(TimeoutTask)
  <2>1. CASE d = NoTimeout
    BY <2>1, Fields
  <2>2. CASE d # NoTimeout
    <3>1. Record(t, g, d) \in TimeoutTask
      BY <2>2, TimeAssumption DEF TimeAssumption, Record, TimeoutTask
    <3>2. insert_by_wake(W.timeouts, Record(t, g, d)) \in Seq(TimeoutTask)
      BY <3>1, Inserted, Lefts, Fields
    <3> QED BY <2>2, <3>2
  <2> QED BY <2>1, <2>2
<1>4. st \in [Task -> TaskStates] /\ tg \in [Task -> Target \cup {NoTarget}] /\ rs \in [Task -> Results]
  BY Fields DEF TaskStates, Results
<1> HIDE DEF q, ts, st, tg, rs, V
<1>5. V = [queue |-> q, len |-> W.len, free |-> W.free, timeouts |-> ts, sleepers |-> W.sleepers,
           exited |-> W.exited, state |-> st, target |-> tg, result |-> rs]
  <2>1. CASE d = NoTimeout
    <3>1. ts = W.timeouts
      BY <2>1 DEF ts
    <3> QED BY <2>1, <3>1, <1>0, <1>b
  <2>2. CASE d # NoTimeout
    <3>1. ts = insert_by_wake(B.timeouts, Record(t, g, d))
      BY <2>2, <1>b DEF ts
    <3> QED BY <2>2, <3>1, <1>0, <1>b
  <2> QED BY <2>1, <2>2
<1>6. V \in WaitQueuesType
  BY <1>2, <1>3, <1>4, <1>5, Fields DEF WaitQueuesType
<1>7. /\ V.queue = q /\ V.state = st /\ V.target = tg /\ V.result = rs /\ V.timeouts = ts
      /\ V.sleepers = W.sleepers /\ V.exited = W.exited /\ V.free = W.free
  BY <1>5
<1>8. BlockResult(V, W, t, g, d)
  BY <1>6, <1>7 DEF q, ts, st, tg, rs, BlockResult
<1> QED BY <1>8 DEF V

\* A task waits: e is the deadline that is kept of its wait.
LEMMA Blocked ==
  ASSUME NEW W, NEW D, Good(W, D, {}), NEW t \in Task, W.state[t] = "active", NEW g \in Target,
         NEW d \in Timeout \cup {NoTimeout}, d # NoTimeout => g \in Queues \cup {TaskExit(x) : x \in Task},
         \A q \in W.free : WaitQueue(q) # g,
         NEW e, e = NoTimeout \/ (e = d /\ g \in Queues)
  PROVE  Good(block(W, t, g, d), [D EXCEPT ![t] = e], {})
<1> DEFINE V == block(W, t, g, d)  C == [D EXCEPT ![t] = e]
<1>1. /\ W \in WaitQueuesType /\ D \in [Task -> Nat \cup {NoTimeout}]
      /\ QueuesSound(W, {}) /\ SleepersSound(W) /\ ExitedSound(W) /\ TimeoutsSound(W, {})
      /\ Armed(W, D) /\ ResultsSound(W, D)
  BY DEF Good
<1>2. /\ W.queue \in [Target -> Seq(Task)] /\ W.timeouts \in Seq(TimeoutTask) /\ W.free \subseteq QueueId
      /\ W.state \in [Task -> TaskStates] /\ W.target \in [Task -> Target \cup {NoTarget}] /\ W.result \in [Task -> Results]
  BY <1>1, Fields
<1>3. /\ V \in WaitQueuesType /\ V.queue = [W.queue EXCEPT ![g] = Append(W.queue[g], t)]
      /\ V.state = [W.state EXCEPT ![t] = "blocked"] /\ V.target = [W.target EXCEPT ![t] = g]
      /\ V.result = [W.result EXCEPT ![t] = "none"]
      /\ V.timeouts = IF d = NoTimeout THEN W.timeouts ELSE insert_by_wake(W.timeouts, Record(t, g, d))
      /\ V.sleepers = W.sleepers /\ V.exited = W.exited /\ V.free = W.free
  <2>1. Ordered(W.timeouts)
    BY <1>1 DEF TimeoutsSound
  <2>2. W \in WaitQueuesType
    BY <1>1
  <2>3. BlockResult(V, W, t, g, d)
    BY <2>1, <2>2, BlockIs
  <2> HIDE DEF V
  <2> QED BY <2>3 DEF BlockResult
<1>4. d # NoTimeout => d \in Nat /\ d > 0
  BY TimeAssumption DEF TimeAssumption
<1> HIDE DEF V
<1>5. C \in [Task -> Nat \cup {NoTimeout}] /\ C[t] = e /\ \A u \in Task : u # t => C[u] = D[u]
  BY <1>1, <1>4
<1> HIDE DEF C
<1>6. V.queue[g] = Append(W.queue[g], t) /\ \A h \in Target : h # g => V.queue[h] = W.queue[h]
  BY <1>2, <1>3
<1>7. /\ V.state[t] = "blocked" /\ V.target[t] = g /\ V.result[t] = "none"
      /\ \A u \in Task : u # t => V.state[u] = W.state[u] /\ V.target[u] = W.target[u] /\ V.result[u] = W.result[u]
  BY <1>2, <1>3
<1>8. \A h \in Target : \A u \in ToSet(W.queue[h]) : u \in Task /\ u # t /\ W.state[u] = "blocked" /\ W.target[u] = h
  BY <1>1, <1>2, InSet DEF QueuesSound
<1>9. \A h \in Target : IsInjective(V.queue[h]) /\ ToSet(V.queue[h]) = ToSet(W.queue[h]) \cup (IF h = g THEN {t} ELSE {})
  <2> SUFFICES ASSUME NEW h \in Target
               PROVE  IsInjective(V.queue[h]) /\ ToSet(V.queue[h]) = ToSet(W.queue[h]) \cup (IF h = g THEN {t} ELSE {})
    OBVIOUS
  <2>1. IsInjective(W.queue[h]) /\ W.queue[h] \in Seq(Task)
    BY <1>1, <1>2 DEF QueuesSound
  <2>2. CASE h = g
    <3> DEFINE a == W.queue[h]  b == V.queue[h]
    <3>1. t \notin ToSet(a) /\ b = Append(a, t) /\ a \in Seq(Task) /\ IsInjective(a)
      BY <1>6, <1>8, <2>1, <2>2
    <3> HIDE DEF a, b
    <3>2. IsInjective(b) /\ ToSet(b) = ToSet(a) \cup {t}
      BY <3>1, Appended
    <3> QED BY <2>2, <3>2 DEF a, b
  <2>3. CASE h # g
    BY <1>6, <2>1, <2>3
  <2> QED BY <2>2, <2>3
<1>10. \A x : Gone(V, {}, x) <=> Gone(W, {}, x)
  BY <1>7 DEF Gone
<1>11. QueuesSound(V, {})
  <2>1. \A h \in Target : \A u \in ToSet(V.queue[h]) : V.state[u] = "blocked" /\ V.target[u] = h
    BY <1>7, <1>8, <1>9
  <2>2. ASSUME NEW u \in Task, V.state[u] = "blocked"
        PROVE  V.target[u] \in Target /\ (u \in ToSet(V.queue[V.target[u]]) \/ Gone(V, {}, V.target[u]))
    <3>1. CASE u = t
      BY <1>7, <1>9, <3>1
    <3>2. CASE u # t
      <4>1. W.state[u] = "blocked" /\ V.target[u] = W.target[u]
        BY <1>7, <2>2, <3>2
      <4>2. W.target[u] \in Target /\ (u \in ToSet(W.queue[W.target[u]]) \/ Gone(W, {}, W.target[u]))
        BY <1>1, <4>1 DEF QueuesSound
      <4> QED BY <1>9, <1>10, <4>1, <4>2
    <3> QED BY <3>1, <3>2
  <2>3. ASSUME NEW q \in V.free PROVE V.queue[WaitQueue(q)] = <<>>
    <3>1. WaitQueue(q) \in Target /\ W.queue[WaitQueue(q)] = <<>> /\ WaitQueue(q) # g
      BY <1>1, <1>2, <1>3, Kinds DEF QueuesSound, Queues
    <3> QED BY <1>6, <3>1
  <2> QED BY <1>9, <2>1, <2>2, <2>3 DEF QueuesSound
<1>12. SleepersSound(V)
  <2>1. \A u \in Task : V.state[u] = "sleeping" <=> W.state[u] = "sleeping"
    BY <1>7
  <2> QED BY <1>1, <1>3, <2>1 DEF SleepersSound
<1>13. ExitedSound(V)
  <2>1. \A u \in Task : V.state[u] = "exited" <=> W.state[u] = "exited"
    BY <1>7
  <2> QED BY <1>1, <1>3, <2>1 DEF ExitedSound
<1>14. /\ OneLive(W, {}, V.timeouts) /\ Ordered(V.timeouts) /\ Ahead(V.timeouts)
       /\ ToSet(V.timeouts) = ToSet(W.timeouts) \cup (IF d = NoTimeout THEN {} ELSE {Record(t, g, d)})
  <2>1. OneLive(W, {}, W.timeouts) /\ Ordered(W.timeouts) /\ Ahead(W.timeouts)
    BY <1>1 DEF TimeoutsSound
  <2>2. CASE d = NoTimeout
    BY <1>3, <2>1, <2>2
  <2>3. CASE d # NoTimeout
    <3> DEFINE r == Record(t, g, d)  R == insert_by_wake(W.timeouts, r)
    <3>1. r \in TimeoutTask /\ r.left > 0 /\ r.task = t
      BY <1>4, <2>3 DEF Record, TimeoutTask
    <3>2. \A x \in ToSet(W.timeouts) : x.task = r.task => Gone(W, {}, x.target)
      BY <3>1, OldRecords
    <3>3. V.timeouts = R
      BY <1>3, <2>3
    <3> HIDE DEF r
    <3>4. ToSet(R) = ToSet(W.timeouts) \cup {r} /\ Ordered(R) /\ Ahead(R) /\ OneLive(W, {}, R)
      <4> DEFINE s == W.timeouts
      <4>1. s \in Seq(TimeoutTask) /\ Ordered(s) /\ \A x \in TimeoutTask : x.left \in Int
        BY <1>2, <2>1, Lefts
      <4> HIDE DEF s
      <4>2. /\ ToSet(insert_by_wake(s, r)) = ToSet(s) \cup {r} /\ Ordered(insert_by_wake(s, r))
            /\ Ahead(s) /\ r.left > 0 => Ahead(insert_by_wake(s, r))
            /\ OneLive(W, {}, s) /\ (\A x \in ToSet(s) : x.task = r.task => Gone(W, {}, x.target))
               => OneLive(W, {}, insert_by_wake(s, r))
        BY <3>1, <4>1, Inserted
      <4> QED BY <2>1, <3>1, <3>2, <4>2 DEF s
    <3> QED BY <2>3, <3>3, <3>4 DEF r
  <2> QED BY <2>2, <2>3
<1>15. TimeoutsSound(V, {})
  <2>1. OneLive(V, {}, V.timeouts)
    BY <1>10, <1>14, GoneMore
  <2>2. ASSUME NEW x \in ToSet(V.timeouts)
        PROVE  /\ x.target \in Queues \cup {TaskExit(y) : y \in Task}
               /\ x.task \in ToSet(V.queue[x.target]) \/ Gone(V, {}, x.target)
    <3>1. CASE x \in ToSet(W.timeouts)
      <4>1. /\ x.target \in Queues \cup {TaskExit(y) : y \in Task}
            /\ x.task \in ToSet(W.queue[x.target]) \/ Gone(W, {}, x.target)
        BY <1>1, <3>1 DEF TimeoutsSound
      <4>2. x.target \in Target
        BY <4>1, Kinds
      <4> QED BY <1>9, <1>10, <4>1, <4>2
    <3>2. CASE d # NoTimeout /\ x = Record(t, g, d)
      <4>1. x.target = g /\ x.task = t
        BY <3>2 DEF Record
      <4> QED BY <1>9, <3>2, <4>1
    <3> QED BY <1>14, <3>1, <3>2
  <2> QED BY <1>14, <2>1, <2>2 DEF TimeoutsSound
<1>16. Armed(V, C)
  <2> SUFFICES ASSUME NEW u \in Task, V.state[u] = "blocked", C[u] # NoTimeout
               PROVE  /\ V.target[u] \in Queues
                      /\ [task |-> u, target |-> V.target[u], left |-> C[u]] \in ToSet(V.timeouts)
    BY DEF Armed
  <2>1. CASE u = t
    <3>1. e = d /\ d # NoTimeout /\ g \in Queues
      BY <1>5, <2>1
    <3> QED BY <1>5, <1>7, <1>14, <2>1, <3>1 DEF Record
  <2>2. CASE u # t
    <3>1. W.state[u] = "blocked" /\ V.target[u] = W.target[u] /\ C[u] = D[u]
      BY <1>5, <1>7, <2>2
    <3>2. /\ W.target[u] \in Queues
          /\ [task |-> u, target |-> W.target[u], left |-> D[u]] \in ToSet(W.timeouts)
      BY <1>1, <3>1 DEF Armed
    <3> QED BY <1>14, <3>1, <3>2
  <2> QED BY <2>1, <2>2
<1>17. ResultsSound(V, C)
  <2>1. ASSUME NEW u \in Task, Waiting(V, u) PROVE V.result[u] = "none"
    <3>1. CASE u = t
      BY <1>7, <3>1
    <3>2. CASE u # t
      BY <1>1, <1>7, <2>1, <3>2 DEF ResultsSound, Waiting
    <3> QED BY <3>1, <3>2
  <2>2. ASSUME NEW u \in Task, V.result[u] = "timed_out", C[u] # NoTimeout PROVE C[u] = 0
    <3>1. u # t
      BY <1>7, <2>2
    <3> QED BY <1>1, <1>5, <1>7, <2>2, <3>1 DEF ResultsSound
  <2> QED BY <2>1, <2>2 DEF ResultsSound
<1> QED BY <1>3, <1>5, <1>11, <1>12, <1>13, <1>15, <1>16, <1>17 DEF Good, V, C

SleepResult(V, W, t, d) ==
  /\ V \in WaitQueuesType /\ V.queue = W.queue /\ V.target = W.target
  /\ V.state = [W.state EXCEPT ![t] = "sleeping"] /\ V.result = [W.result EXCEPT ![t] = "none"]
  /\ V.timeouts = W.timeouts /\ V.exited = W.exited /\ V.free = W.free
  /\ V.sleepers = insert_by_wake(W.sleepers, [task |-> t, left |-> d])
LEMMA SleepIs ==
  ASSUME NEW W \in WaitQueuesType, NEW t \in Task, NEW d \in Timeout, Ordered(W.sleepers)
  PROVE  SleepResult([W EXCEPT !.state[t] = "sleeping", !.result[t] = "none",
                               !.sleepers = insert_by_wake(@, [task |-> t, left |-> d])], W, t, d)
<1> DEFINE V == [W EXCEPT !.state[t] = "sleeping", !.result[t] = "none",
                          !.sleepers = insert_by_wake(@, [task |-> t, left |-> d])]
           ss == insert_by_wake(W.sleepers, [task |-> t, left |-> d])
           st == [W.state EXCEPT ![t] = "sleeping"]  rs == [W.result EXCEPT ![t] = "none"]
<1>1. ss \in Seq(Sleeper)
  <2>1. [task |-> t, left |-> d] \in Sleeper
    BY TimeAssumption DEF TimeAssumption, Sleeper
  <2> QED BY <2>1, Inserted, Lefts, Fields
<1>2. st \in [Task -> TaskStates] /\ rs \in [Task -> Results]
  BY Fields DEF TaskStates, Results
<1>3. V = [W EXCEPT !.state = st, !.result = rs, !.sleepers = ss]
  OBVIOUS
<1>4. DOMAIN W = {"queue", "len", "free", "timeouts", "sleepers", "exited", "state", "target", "result"}
  BY Fields
<1> HIDE DEF V, ss, st, rs
<1>5. V = [queue |-> W.queue, len |-> W.len, free |-> W.free, timeouts |-> W.timeouts, sleepers |-> ss,
           exited |-> W.exited, state |-> st, target |-> W.target, result |-> rs]
  BY <1>3, <1>4
<1>6. V \in WaitQueuesType
  BY <1>1, <1>2, <1>5, Fields DEF WaitQueuesType
<1>7. /\ V.queue = W.queue /\ V.state = st /\ V.target = W.target /\ V.result = rs /\ V.timeouts = W.timeouts
      /\ V.sleepers = ss /\ V.exited = W.exited /\ V.free = W.free
  BY <1>5
<1>8. SleepResult(V, W, t, d)
  BY <1>6, <1>7 DEF ss, st, rs, SleepResult
<1> QED BY <1>8 DEF V

LEMMA Slept ==
  ASSUME NEW W, NEW D, Good(W, D, {}), NEW t \in Task, W.state[t] = "active", NEW d \in Timeout,
         NEW V, SleepResult(V, W, t, d)
  PROVE  Good(V, [D EXCEPT ![t] = NoTimeout], {})
<1> DEFINE C == [D EXCEPT ![t] = NoTimeout]  e == [task |-> t, left |-> d]
<1>1. /\ W \in WaitQueuesType /\ D \in [Task -> Nat \cup {NoTimeout}]
      /\ QueuesSound(W, {}) /\ SleepersSound(W) /\ ExitedSound(W) /\ TimeoutsSound(W, {})
      /\ Armed(W, D) /\ ResultsSound(W, D)
  BY DEF Good
<1>2. /\ W.queue \in [Target -> Seq(Task)] /\ W.sleepers \in Seq(Sleeper)
      /\ W.state \in [Task -> TaskStates] /\ W.result \in [Task -> Results]
  BY <1>1, Fields
<1>3. /\ V \in WaitQueuesType /\ V.queue = W.queue /\ V.target = W.target
      /\ V.timeouts = W.timeouts /\ V.exited = W.exited /\ V.free = W.free
      /\ V.sleepers = insert_by_wake(W.sleepers, e)
  BY DEF SleepResult
<1>4. /\ V.state[t] = "sleeping" /\ V.result[t] = "none"
      /\ \A u \in Task : u # t => V.state[u] = W.state[u] /\ V.result[u] = W.result[u]
  BY <1>2 DEF SleepResult
<1>5. C \in [Task -> Nat \cup {NoTimeout}] /\ C[t] = NoTimeout /\ \A u \in Task : u # t => C[u] = D[u]
  BY <1>1
<1> HIDE DEF C
<1>6. \A h \in Target : \A u \in ToSet(W.queue[h]) : u \in Task /\ u # t /\ W.state[u] = "blocked" /\ W.target[u] = h
  BY <1>1, <1>2, InSet DEF QueuesSound
<1>7. \A x : Gone(V, {}, x) <=> Gone(W, {}, x)
  BY <1>4 DEF Gone
<1>8. QueuesSound(V, {})
  <2>1. \A h \in Target : \A u \in ToSet(V.queue[h]) : V.state[u] = "blocked" /\ V.target[u] = h
    BY <1>3, <1>4, <1>6
  <2>2. ASSUME NEW u \in Task, V.state[u] = "blocked"
        PROVE  V.target[u] \in Target /\ (u \in ToSet(V.queue[V.target[u]]) \/ Gone(V, {}, V.target[u]))
    <3>1. W.state[u] = "blocked"
      BY <1>4, <2>2
    <3> QED BY <1>1, <1>3, <1>7, <3>1 DEF QueuesSound
  <2> QED BY <1>1, <1>3, <2>1, <2>2 DEF QueuesSound
<1>9. SleepersSound(V)
  <2>1. e \in Sleeper /\ e.left > 0 /\ e.task = t
    BY TimeAssumption DEF TimeAssumption, Sleeper
  <2>2. OneEach(W.sleepers) /\ Ordered(W.sleepers) /\ Ahead(W.sleepers)
    BY <1>1 DEF SleepersSound
  <2>3. \A u \in Task : W.state[u] = "sleeping" <=> \E x \in ToSet(W.sleepers) : x.task = u
    BY <1>1 DEF SleepersSound
  <2>4. \A x \in ToSet(W.sleepers) : x.task # t
    BY <2>3
  <2> DEFINE s == W.sleepers  r == V.sleepers
  <2>5. s \in Seq(Sleeper) /\ r = insert_by_wake(s, e)
    BY <1>2, <1>3
  <2> HIDE DEF s, r, e
  <2>6. ToSet(r) = ToSet(s) \cup {e} /\ Ordered(r) /\ Ahead(r) /\ OneEach(r)
    <3>1. \A x \in Sleeper : x.left \in Int
      BY Lefts
    <3>2. OneEach(s) /\ Ordered(s) /\ Ahead(s) /\ \A x \in ToSet(s) : x.task # e.task
      BY <2>1, <2>2, <2>4 DEF s
    <3>3. /\ ToSet(insert_by_wake(s, e)) = ToSet(s) \cup {e} /\ Ordered(insert_by_wake(s, e))
          /\ Ahead(s) /\ e.left > 0 => Ahead(insert_by_wake(s, e))
          /\ OneEach(s) /\ (\A x \in ToSet(s) : x.task # e.task) => OneEach(insert_by_wake(s, e))
      BY <2>1, <2>5, <3>1, <3>2, Inserted
    <3> QED BY <2>1, <2>5, <3>2, <3>3
  <2>7. \A u \in Task : V.state[u] = "sleeping" <=> \E x \in ToSet(r) : x.task = u
    <3>1. ASSUME NEW u \in Task, u # t PROVE V.state[u] = "sleeping" <=> \E x \in ToSet(r) : x.task = u
      <4>1. (\E x \in ToSet(r) : x.task = u) <=> (\E x \in ToSet(s) : x.task = u)
        BY <2>1, <2>6, <3>1
      <4> QED BY <1>4, <2>3, <3>1, <4>1 DEF s
    <3>2. \E x \in ToSet(r) : x.task = t
      BY <2>1, <2>6
    <3> QED BY <1>4, <3>1, <3>2
  <2> QED BY <2>6, <2>7 DEF SleepersSound, r
<1>10. ExitedSound(V)
  <2>1. \A u \in Task : V.state[u] = "exited" <=> W.state[u] = "exited"
    BY <1>4
  <2> QED BY <1>1, <1>3, <2>1 DEF ExitedSound
<1>11. TimeoutsSound(V, {})
  BY <1>1, <1>3, <1>7, GoneMore DEF TimeoutsSound
<1>12. Armed(V, C)
  BY <1>1, <1>3, <1>4, <1>5 DEF Armed
<1>13. ResultsSound(V, C)
  <2>1. ASSUME NEW u \in Task, Waiting(V, u) PROVE V.result[u] = "none"
    <3>1. CASE u = t
      BY <1>4, <3>1
    <3>2. CASE u # t
      BY <1>1, <1>4, <2>1, <3>2 DEF ResultsSound, Waiting
    <3> QED BY <3>1, <3>2
  <2>2. ASSUME NEW u \in Task, V.result[u] = "timed_out", C[u] # NoTimeout PROVE C[u] = 0
    BY <1>1, <1>4, <1>5, <2>2 DEF ResultsSound
  <2> QED BY <2>1, <2>2 DEF ResultsSound
<1> QED BY <1>3, <1>5, <1>8, <1>9, <1>10, <1>11, <1>12, <1>13 DEF Good, C

\* The first of g, which are a, are in h, with their timeouts; b is the rest of g.
MoveResult(V, W, g, h, a, b) ==
  /\ V \in WaitQueuesType
  /\ V.queue = [[W.queue EXCEPT ![g] = b] EXCEPT ![h] = W.queue[h] \o a]
  /\ V.target = [t \in Task |-> IF t \in ToSet(a) THEN h ELSE W.target[t]]
  /\ V.timeouts = [i \in DOMAIN W.timeouts |->
       IF W.timeouts[i].task \in ToSet(a) /\ W.timeouts[i].target = g
       THEN [W.timeouts[i] EXCEPT !.target = h] ELSE W.timeouts[i]]
  /\ V.state = W.state /\ V.result = W.result /\ V.sleepers = W.sleepers /\ V.exited = W.exited /\ V.free = W.free

LEMMA MoveIs ==
  ASSUME NEW W \in WaitQueuesType, NEW p \in QueueId, NEW q \in QueueId, p # q,
         \A t \in ToSet(W.queue[WaitQueue(p)]) : W.target[t] = WaitQueue(p),
         NEW n \in 0 .. Len(W.queue[WaitQueue(p)])
  PROVE  MoveResult(move_tasks_between_queues(W, p, q, n), W, WaitQueue(p), WaitQueue(q),
                    FirstN(W.queue[WaitQueue(p)], n), WithoutFirstN(W.queue[WaitQueue(p)], n))
<1> DEFINE g == WaitQueue(p)  h == WaitQueue(q)
           a == FirstN(W.queue[g], n)  b == WithoutFirstN(W.queue[g], n)
           m == Without(a, {t \in Task : W.target[t] # g})
           Q == [[W.queue EXCEPT ![g] = b] EXCEPT ![h] = W.queue[h] \o a]
           tg == [t \in Task |-> IF t \in ToSet(a) THEN h ELSE W.target[t]]
           ts == [i \in DOMAIN W.timeouts |->
                    IF W.timeouts[i].task \in ToSet(a) /\ W.timeouts[i].target = g
                    THEN [W.timeouts[i] EXCEPT !.target = h] ELSE W.timeouts[i]]
           V == move_tasks_between_queues(W, p, q, n)
<1>1. g \in Target /\ h \in Target /\ g # h
  BY Kinds DEF Queues
<1>2. W.queue \in [Target -> Seq(Task)] /\ W.queue[g] \in Seq(Task) /\ n \in 0 .. Len(W.queue[g])
  BY <1>1, Fields
<1>3. \A t \in ToSet(W.queue[g]) : W.target[t] = g
  OBVIOUS
<1>4. a \in Seq(Task) /\ b \in Seq(Task) /\ ToSet(a) \subseteq ToSet(W.queue[g])
  <2> DEFINE s == W.queue[g]
  <2>1. s \in Seq(Task) /\ n \in 0 .. Len(s)
    BY <1>2
  <2> HIDE DEF s
  <2>2. FirstN(s, n) \in Seq(Task) /\ WithoutFirstN(s, n) \in Seq(Task)
        /\ ToSet(FirstN(s, n)) \cup ToSet(WithoutFirstN(s, n)) = ToSet(s)
    BY <2>1, Cut
  <2> QED BY <2>2 DEF s
<1> HIDE DEF a, b
<1>5. m = a
  <2>1. ToSet(a) \cap {t \in Task : W.target[t] # g} = {}
    BY <1>3, <1>4
  <2> HIDE DEF g
  <2> QED BY <1>4, <2>1, WithoutIs
<1>6. V = [W EXCEPT !.queue[g] = b, !.queue[h] = W.queue[h] \o m,
                    !.target = [t \in Task |-> IF t \in ToSet(m) THEN h ELSE W.target[t]],
                    !.timeouts = [i \in DOMAIN W.timeouts |->
                       IF W.timeouts[i].task \in ToSet(m) /\ W.timeouts[i].target = g
                       THEN [W.timeouts[i] EXCEPT !.target = h] ELSE W.timeouts[i]]]
  BY DEF move_tasks_between_queues, a, b
<1>7. V = [W EXCEPT !.queue[g] = b, !.queue[h] = W.queue[h] \o a, !.target = tg, !.timeouts = ts]
  BY <1>5, <1>6
<1>8. V = [W EXCEPT !.queue = Q, !.target = tg, !.timeouts = ts]
  <2> HIDE DEF tg, ts, V, a, b
  <2> QED BY <1>7, Fields
<1>9. Q \in [Target -> Seq(Task)]
  BY <1>1, <1>2, <1>4, Joined
<1>10. tg \in [Task -> Target \cup {NoTarget}]
  BY <1>1, Fields
<1>11. ts \in Seq(TimeoutTask)
  <2>1. W.timeouts \in Seq(TimeoutTask)
    BY Fields
  <2>2. DOMAIN W.timeouts = 1 .. Len(W.timeouts) /\ \A i \in DOMAIN W.timeouts : W.timeouts[i] \in TimeoutTask
    BY <2>1
  <2>3. \A x \in TimeoutTask : [x EXCEPT !.target = h] \in TimeoutTask
    BY <1>1 DEF TimeoutTask
  <2>4. \A i \in DOMAIN W.timeouts : ts[i] \in TimeoutTask
    BY <2>2, <2>3
  <2>5. DOMAIN ts = 1 .. Len(W.timeouts) /\ Len(W.timeouts) \in Nat
    BY <2>1, <2>2
  <2>6. ts = [i \in 1 .. Len(W.timeouts) |-> ts[i]]
    BY <2>2
  <2> HIDE DEF ts
  <2> QED BY <2>2, <2>4, <2>5, <2>6
<1>12. DOMAIN W = {"queue", "len", "free", "timeouts", "sleepers", "exited", "state", "target", "result"}
  BY Fields
<1> HIDE DEF V, Q, tg, ts
<1>13. V = [queue |-> Q, len |-> W.len, free |-> W.free, timeouts |-> ts, sleepers |-> W.sleepers,
            exited |-> W.exited, state |-> W.state, target |-> tg, result |-> W.result]
  BY <1>8, <1>12
<1>14. V \in WaitQueuesType
  BY <1>9, <1>10, <1>11, <1>13, Fields DEF WaitQueuesType
<1>15. /\ V.queue = Q /\ V.target = tg /\ V.timeouts = ts /\ V.state = W.state /\ V.result = W.result
       /\ V.sleepers = W.sleepers /\ V.exited = W.exited /\ V.free = W.free
  BY <1>13
<1>16. MoveResult(V, W, g, h, a, b)
  BY <1>14, <1>15 DEF Q, tg, ts, MoveResult
<1> QED BY <1>16 DEF V, a, b

LEMMA Moved ==
  ASSUME NEW W, NEW D, NEW X, Good(W, D, X), NEW g \in Queues, NEW h \in Queues, g # h,
         \A q \in W.free : WaitQueue(q) # h, NEW n \in 0 .. Len(W.queue[g]),
         NEW V, MoveResult(V, W, g, h, FirstN(W.queue[g], n), WithoutFirstN(W.queue[g], n))
  PROVE  Good(V, D, X)
<1> DEFINE a == FirstN(W.queue[g], n)  b == WithoutFirstN(W.queue[g], n)  M == ToSet(a)
<1>1. /\ W \in WaitQueuesType /\ D \in [Task -> Nat \cup {NoTimeout}] /\ X \subseteq Task
      /\ QueuesSound(W, X) /\ SleepersSound(W) /\ ExitedSound(W) /\ TimeoutsSound(W, X)
      /\ Armed(W, D) /\ ResultsSound(W, D)
  BY DEF Good
<1>2. /\ W.queue \in [Target -> Seq(Task)] /\ W.timeouts \in Seq(TimeoutTask) /\ W.free \subseteq QueueId
      /\ W.target \in [Task -> Target \cup {NoTarget}] /\ g \in Target /\ h \in Target
  BY <1>1, Fields, Kinds
<1>3. /\ a \in Seq(Task) /\ b \in Seq(Task) /\ IsInjective(a) /\ IsInjective(b)
      /\ ToSet(b) = ToSet(W.queue[g]) \ M /\ M \subseteq ToSet(W.queue[g])
  <2> DEFINE s == W.queue[g]
  <2>1. s \in Seq(Task) /\ n \in 0 .. Len(s) /\ IsInjective(s)
    BY <1>1, <1>2 DEF QueuesSound
  <2> HIDE DEF s
  <2>2. /\ FirstN(s, n) \in Seq(Task) /\ WithoutFirstN(s, n) \in Seq(Task)
        /\ Thinned(FirstN(s, n), s) /\ Thinned(WithoutFirstN(s, n), s)
        /\ ToSet(FirstN(s, n)) \cup ToSet(WithoutFirstN(s, n)) = ToSet(s)
        /\ IsInjective(s) => ToSet(FirstN(s, n)) \cap ToSet(WithoutFirstN(s, n)) = {}
    BY <2>1, Cut
  <2>3. IsInjective(FirstN(s, n)) /\ IsInjective(WithoutFirstN(s, n))
    BY <2>1, <2>2, ThinnedKeeps
  <2> QED BY <2>1, <2>2, <2>3 DEF s
<1>4. /\ V \in WaitQueuesType /\ V.state = W.state /\ V.result = W.result
      /\ V.sleepers = W.sleepers /\ V.exited = W.exited /\ V.free = W.free
  BY DEF MoveResult
<1>5. V.queue[g] = b /\ V.queue[h] = W.queue[h] \o a /\ \A k \in Target : k # g /\ k # h => V.queue[k] = W.queue[k]
  <2>1. V.queue = [[W.queue EXCEPT ![g] = b] EXCEPT ![h] = W.queue[h] \o a]
    BY DEF MoveResult
  <2> HIDE DEF a, b
  <2> QED BY <1>2, <2>1
<1>6. \A t \in Task : V.target[t] = IF t \in M THEN h ELSE W.target[t]
  BY DEF MoveResult
<1>7. /\ DOMAIN V.timeouts = DOMAIN W.timeouts
      /\ \A i \in DOMAIN W.timeouts : V.timeouts[i] =
           IF W.timeouts[i].task \in M /\ W.timeouts[i].target = g
           THEN [W.timeouts[i] EXCEPT !.target = h] ELSE W.timeouts[i]
  BY DEF MoveResult
<1> HIDE DEF a, b, M
<1>8. \A k \in Target : \A u \in ToSet(W.queue[k]) : u \in Task /\ W.state[u] = "blocked" /\ W.target[u] = k
  BY <1>1, <1>2, InSet DEF QueuesSound
<1>0. ASSUME NEW k \in Target, NEW u \in M, u \in ToSet(W.queue[k]) PROVE k = g
  BY <1>2, <1>3, <1>8, <1>0
<1>9. \A k \in Target : IsInjective(V.queue[k]) /\ ToSet(V.queue[k]) = (ToSet(W.queue[k]) \ M) \cup (IF k = h THEN M ELSE {})
  <2> SUFFICES ASSUME NEW k \in Target
               PROVE  IsInjective(V.queue[k]) /\ ToSet(V.queue[k]) = (ToSet(W.queue[k]) \ M) \cup (IF k = h THEN M ELSE {})
    OBVIOUS
  <2>1. IsInjective(W.queue[k]) /\ W.queue[k] \in Seq(Task)
    BY <1>1, <1>2 DEF QueuesSound
  <2>2. k # g => ToSet(W.queue[k]) \cap M = {}
    BY <1>0
  <2>3. CASE k = g
    BY <1>3, <1>5, <2>3
  <2>4. CASE k = h
    <3> DEFINE s == W.queue[h]
    <3>1. s \in Seq(Task) /\ IsInjective(s) /\ ToSet(s) \cap ToSet(a) = {}
      BY <2>1, <2>2, <2>4 DEF M
    <3> HIDE DEF s
    <3>2. IsInjective(s \o a) /\ ToSet(s \o a) = ToSet(s) \cup ToSet(a)
      BY <1>3, <3>1, Joined
    <3>3. V.queue[k] = s \o a
      BY <1>5, <2>4 DEF s
    <3> QED BY <2>2, <2>4, <3>2, <3>3 DEF s, M
  <2>5. CASE k # g /\ k # h
    BY <1>5, <2>1, <2>2, <2>5
  <2> QED BY <2>3, <2>4, <2>5
<1>10. \A x : Gone(V, X, x) <=> Gone(W, X, x)
  BY <1>4 DEF Gone
<1>11. ~ Gone(V, X, g) /\ ~ Gone(V, X, h)
  BY QueuesStay
<1>12. QueuesSound(V, X)
  <2>1. ASSUME NEW k \in Target, NEW u \in ToSet(V.queue[k]) PROVE V.state[u] = "blocked" /\ V.target[u] = k
    <3>1. (u \in ToSet(W.queue[k]) /\ u \notin M) \/ (k = h /\ u \in M)
      BY <1>9
    <3>2. CASE u \in ToSet(W.queue[k]) /\ u \notin M
      BY <1>4, <1>6, <1>8, <3>2
    <3>3. CASE k = h /\ u \in M
      <4>1. u \in ToSet(W.queue[g])
        BY <1>3, <3>3
      <4> QED BY <1>2, <1>4, <1>6, <1>8, <3>3, <4>1
    <3> QED BY <3>1, <3>2, <3>3
  <2>2. ASSUME NEW u \in Task, V.state[u] = "blocked"
        PROVE  V.target[u] \in Target /\ (u \in ToSet(V.queue[V.target[u]]) \/ Gone(V, X, V.target[u]))
    <3>1. CASE u \in M
      BY <1>2, <1>6, <1>9, <3>1
    <3>2. CASE u \notin M
      <4>1. W.target[u] \in Target /\ (u \in ToSet(W.queue[W.target[u]]) \/ Gone(W, X, W.target[u]))
        BY <1>1, <1>4, <2>2 DEF QueuesSound
      <4> QED BY <1>6, <1>9, <1>10, <3>2, <4>1
    <3> QED BY <3>1, <3>2
  <2>3. ASSUME NEW q \in V.free PROVE V.queue[WaitQueue(q)] = <<>>
    <3>1. WaitQueue(q) \in Target /\ W.queue[WaitQueue(q)] = <<>> /\ WaitQueue(q) # h
      BY <1>1, <1>2, <1>4, Kinds DEF QueuesSound, Queues
    <3>2. ToSet(W.queue[WaitQueue(q)]) = {}
      BY <3>1 DEF ToSet
    <3>3. ToSet(V.queue[WaitQueue(q)]) = {} /\ V.queue[WaitQueue(q)] \in Seq(Task)
      BY <1>4, <1>9, <3>1, <3>2, Fields
    <3> QED BY <3>3, InSet
  <2> QED BY <1>9, <2>1, <2>2, <2>3 DEF QueuesSound
<1>13. SleepersSound(V) /\ ExitedSound(V) /\ ResultsSound(V, D)
  BY <1>1, <1>4 DEF SleepersSound, ExitedSound, ResultsSound, Waiting
<1>14. \A i \in DOMAIN W.timeouts :
         /\ W.timeouts[i] \in TimeoutTask /\ V.timeouts[i].task = W.timeouts[i].task /\ V.timeouts[i].left = W.timeouts[i].left
         /\ V.timeouts[i].target = IF W.timeouts[i].task \in M /\ W.timeouts[i].target = g THEN h ELSE W.timeouts[i].target
  <2> SUFFICES ASSUME NEW i \in DOMAIN W.timeouts
               PROVE  /\ W.timeouts[i] \in TimeoutTask /\ V.timeouts[i].task = W.timeouts[i].task /\ V.timeouts[i].left = W.timeouts[i].left
                      /\ V.timeouts[i].target = IF W.timeouts[i].task \in M /\ W.timeouts[i].target = g THEN h ELSE W.timeouts[i].target
    OBVIOUS
  <2>1. W.timeouts[i] \in TimeoutTask
    BY <1>2
  <2>2. \A x \in TimeoutTask : LET y == [x EXCEPT !.target = h] IN y.task = x.task /\ y.left = x.left /\ y.target = h
    BY DEF TimeoutTask
  <2> QED BY <1>7, <2>1, <2>2
<1>15. TimeoutsSound(V, X)
  <2>1. OneLive(W, X, W.timeouts) /\ Ordered(W.timeouts) /\ Ahead(W.timeouts)
    BY <1>1 DEF TimeoutsSound
  <2>2. Ordered(V.timeouts) /\ Ahead(V.timeouts)
    BY <1>7, <1>14, <2>1 DEF Ordered, Ahead
  <2>3. \A i \in DOMAIN W.timeouts : ~ Gone(V, X, V.timeouts[i].target) => ~ Gone(W, X, W.timeouts[i].target)
    BY <1>10, <1>11, <1>14
  <2>4. OneLive(V, X, V.timeouts)
    BY <1>7, <1>14, <2>1, <2>3 DEF OneLive
  <2>5. ASSUME NEW i \in DOMAIN W.timeouts
        PROVE  /\ V.timeouts[i].target \in Queues \cup {TaskExit(x) : x \in Task}
               /\ V.timeouts[i].task \in ToSet(V.queue[V.timeouts[i].target]) \/ Gone(V, X, V.timeouts[i].target)
    <3> DEFINE e == W.timeouts[i]
    <3>1. /\ e.target \in Queues \cup {TaskExit(x) : x \in Task}
          /\ e.task \in ToSet(W.queue[e.target]) \/ Gone(W, X, e.target)
      BY <1>1, <1>2 DEF TimeoutsSound, ToSet
    <3>2. e.target \in Target
      BY <3>1, Kinds
    <3>3. CASE e.task \in M /\ e.target = g
      BY <1>2, <1>9, <1>14, <3>3
    <3>4. CASE ~ (e.task \in M /\ e.target = g)
      <4>1. V.timeouts[i].target = e.target /\ V.timeouts[i].task = e.task
        BY <1>14, <3>4
      <4>2. ASSUME e.task \in ToSet(W.queue[e.target]) PROVE e.task \notin M
        BY <1>0, <3>2, <3>4, <4>2
      <4> HIDE DEF e
      <4> QED BY <1>9, <1>10, <3>1, <3>2, <4>1, <4>2
    <3> QED BY <3>3, <3>4
  <2>6. ToSet(V.timeouts) = {V.timeouts[i] : i \in DOMAIN W.timeouts}
    BY <1>7 DEF ToSet
  <2>7. ASSUME NEW x \in ToSet(V.timeouts)
        PROVE  /\ x.target \in Queues \cup {TaskExit(y) : y \in Task}
               /\ x.task \in ToSet(V.queue[x.target]) \/ Gone(V, X, x.target)
    BY <2>5, <2>6
  <2> QED BY <2>2, <2>4, <2>7 DEF TimeoutsSound
<1>16. Armed(V, D)
  <2> SUFFICES ASSUME NEW u \in Task, V.state[u] = "blocked", D[u] # NoTimeout
               PROVE  /\ V.target[u] \in Queues
                      /\ [task |-> u, target |-> V.target[u], left |-> D[u]] \in ToSet(V.timeouts)
    BY DEF Armed
  <2> DEFINE e == [task |-> u, target |-> W.target[u], left |-> D[u]]
  <2>1. W.target[u] \in Queues /\ e \in ToSet(W.timeouts)
    BY <1>1, <1>4 DEF Armed
  <2>2. PICK i \in DOMAIN W.timeouts : W.timeouts[i] = e
    BY <2>1 DEF ToSet
  <2>3. V.timeouts[i] \in ToSet(V.timeouts)
    BY <1>7 DEF ToSet
  <2>4. CASE u \in M
    <3>1. W.target[u] = g /\ V.target[u] = h
      BY <1>2, <1>3, <1>6, <1>8, <2>4
    <3>2. V.timeouts[i] = [e EXCEPT !.target = h]
      BY <1>7, <2>2, <2>4, <3>1
    <3>3. [e EXCEPT !.target = h] = [task |-> u, target |-> h, left |-> D[u]]
      OBVIOUS
    <3> QED BY <2>3, <3>1, <3>2, <3>3
  <2>5. CASE u \notin M
    <3>1. V.target[u] = W.target[u]
      BY <1>6, <2>5
    <3>2. e.task = u
      OBVIOUS
    <3> HIDE DEF e
    <3>3. V.timeouts[i] = e
      BY <1>7, <2>2, <2>5, <3>2
    <3> QED BY <2>1, <2>3, <3>1, <3>3 DEF e
  <2> QED BY <2>4, <2>5
<1> QED BY <1>1, <1>4, <1>12, <1>13, <1>15, <1>16 DEF Good

-----------------------------------------------------------------------------
(***************************************************************************)
(* The tick: records that are late until they are taken out                *)
(***************************************************************************)
LateSleeper == [task : Task, left : Int]
LateTimeout == [task : Task, target : Target, left : Int]

LEMMA LateLefts ==
  /\ \A x \in LateTimeout : x.left \in Int /\ x.task \in Task /\ x.target \in Target
  /\ \A x \in LateSleeper : x.left \in Int /\ x.task \in Task
BY DEF LateTimeout, LateSleeper

LEMMA LoweredSleepers ==
  ASSUME NEW s \in Seq(Sleeper), NEW n \in Nat
  PROVE  LET r == Minus(s, n) IN
         /\ r \in Seq(LateSleeper) /\ DOMAIN r = DOMAIN s
         /\ \A i \in DOMAIN s : r[i].task = s[i].task /\ r[i].left = s[i].left - n
<1> DEFINE r == Minus(s, n)
<1>1. \A i \in DOMAIN s : s[i] \in Sleeper /\ s[i].left \in Nat
  BY Lefts
<1>2. DOMAIN r = DOMAIN s /\ \A i \in DOMAIN s : r[i] = [s[i] EXCEPT !.left = s[i].left - n]
  BY <1>1, MinusIs
<1>3. \A x \in Sleeper : LET y == [x EXCEPT !.left = x.left - n] IN
        y \in LateSleeper /\ y.task = x.task /\ y.left = x.left - n
  BY DEF Sleeper, LateSleeper
<1>4. \A i \in DOMAIN s : r[i] \in LateSleeper /\ r[i].task = s[i].task /\ r[i].left = s[i].left - n
  BY <1>1, <1>2, <1>3
<1>5. DOMAIN s = 1 .. Len(s) /\ Len(s) \in Nat
  OBVIOUS
<1>6. r = [i \in 1 .. Len(s) |-> r[i]]
  BY <1>5 DEF Minus
<1> HIDE DEF r
<1> QED BY <1>2, <1>4, <1>5, <1>6 DEF r

LEMMA LoweredTimeouts ==
  ASSUME NEW s \in Seq(TimeoutTask), NEW n \in Nat
  PROVE  LET r == Minus(s, n) IN
         /\ r \in Seq(LateTimeout) /\ DOMAIN r = DOMAIN s
         /\ \A i \in DOMAIN s :
              r[i].task = s[i].task /\ r[i].target = s[i].target /\ r[i].left = s[i].left - n
<1> DEFINE r == Minus(s, n)
<1>1. \A i \in DOMAIN s : s[i] \in TimeoutTask /\ s[i].left \in Nat
  BY Lefts
<1>2. DOMAIN r = DOMAIN s /\ \A i \in DOMAIN s : r[i] = [s[i] EXCEPT !.left = s[i].left - n]
  BY <1>1, MinusIs
<1>3. \A x \in TimeoutTask : LET y == [x EXCEPT !.left = x.left - n] IN
        y \in LateTimeout /\ y.task = x.task /\ y.target = x.target /\ y.left = x.left - n
  BY DEF TimeoutTask, LateTimeout
<1>4. \A i \in DOMAIN s : /\ r[i] \in LateTimeout
                          /\ r[i].task = s[i].task /\ r[i].target = s[i].target /\ r[i].left = s[i].left - n
  BY <1>1, <1>2, <1>3
<1>5. DOMAIN s = 1 .. Len(s) /\ Len(s) \in Nat
  OBVIOUS
<1>6. r = [i \in 1 .. Len(s) |-> r[i]]
  BY <1>5 DEF Minus
<1> HIDE DEF r
<1> QED BY <1>2, <1>4, <1>5, <1>6 DEF r

\* What is due and what is left of it.
LEMMA Split ==
  ASSUME NEW E, \A x \in E : x.left \in Int, NEW s \in Seq(E), Ordered(s)
  PROVE  LET a == FirstN(s, due(s))  b == WithoutFirstN(s, due(s)) IN
         /\ b \in Seq(E) /\ Thinned(b, s) /\ ToSet(a) \cup ToSet(b) = ToSet(s)
         /\ \A x \in ToSet(a) : x.left <= 0
         /\ Ahead(b)
         /\ OneEach(s) => \A x \in ToSet(a), y \in ToSet(b) : x.task # y.task
<1> DEFINE n == due(s)
<1>1. n \in 0 .. Len(s) /\ (\A x \in ToSet(FirstN(s, n)) : x.left <= 0) /\ Ahead(WithoutFirstN(s, n))
  BY DueIs
<1> HIDE DEF n
<1>2. /\ WithoutFirstN(s, n) \in Seq(E) /\ Thinned(WithoutFirstN(s, n), s)
      /\ ToSet(FirstN(s, n)) \cup ToSet(WithoutFirstN(s, n)) = ToSet(s)
      /\ OneEach(s) => \A x \in ToSet(FirstN(s, n)), y \in ToSet(WithoutFirstN(s, n)) : x.task # y.task
  BY <1>1, Cut
<1> QED BY <1>1, <1>2 DEF n

LEMMA InTime ==
  /\ \A s \in Seq(LateSleeper) : Ahead(s) => s \in Seq(Sleeper)
  /\ \A s \in Seq(LateTimeout) : Ahead(s) => s \in Seq(TimeoutTask)
<1>1. ASSUME NEW s \in Seq(LateSleeper), Ahead(s) PROVE s \in Seq(Sleeper)
  <2>1. \A i \in 1 .. Len(s) : s[i] \in LateSleeper /\ s[i].left > 0
    BY <1>1 DEF Ahead
  <2>2. \A x \in LateSleeper : x.left > 0 => x \in Sleeper
    BY DEF LateSleeper, Sleeper
  <2>3. \A i \in 1 .. Len(s) : s[i] \in Sleeper
    BY <2>1, <2>2
  <2>4. s = [i \in 1 .. Len(s) |-> s[i]] /\ Len(s) \in Nat
    OBVIOUS
  <2> QED BY <2>3, <2>4
<1>2. ASSUME NEW s \in Seq(LateTimeout), Ahead(s) PROVE s \in Seq(TimeoutTask)
  <2>1. \A i \in 1 .. Len(s) : s[i] \in LateTimeout /\ s[i].left > 0
    BY <1>2 DEF Ahead
  <2>2. \A x \in LateTimeout : x.left > 0 => x \in TimeoutTask
    BY DEF LateTimeout, TimeoutTask
  <2>3. \A i \in 1 .. Len(s) : s[i] \in TimeoutTask
    BY <2>1, <2>2
  <2>4. s = [i \in 1 .. Len(s) |-> s[i]] /\ Len(s) \in Nat
    OBVIOUS
  <2> QED BY <2>3, <2>4
<1> QED BY <1>1, <1>2

\* S are the tasks of the sleepers that are due, R the timeouts that are due, U the
\* tasks whose wait they end.
TickResult(V, W, n, S, R, U) ==
  /\ S = {e.task : e \in ToSet(FirstN(Minus(W.sleepers, n), due(Minus(W.sleepers, n))))}
  /\ R = ToSet(FirstN(Minus(W.timeouts, n), due(Minus(W.timeouts, n))))
  /\ U = {d.task : d \in {x \in R : Contains(W.queue[x.target], x.task) /\ x.task \notin S
                                    /\ W.state[x.task] = "blocked" /\ W.target[x.task] = x.target}}
  /\ V = [queue |-> [g \in Target |-> Without(W.queue[g], {d.task : d \in {x \in R : x.target = g}})],
          len |-> W.len, free |-> W.free,
          timeouts |-> WithoutFirstN(Minus(W.timeouts, n), due(Minus(W.timeouts, n))),
          sleepers |-> WithoutFirstN(Minus(W.sleepers, n), due(Minus(W.sleepers, n))), exited |-> W.exited,
          state |-> [t \in Task |-> IF t \in S \cup U THEN "active" ELSE W.state[t]],
          target |-> [t \in Task |-> IF t \in U THEN NoTarget ELSE W.target[t]],
          result |-> [t \in Task |-> IF t \in U THEN "timed_out" ELSE W.result[t]]]

LEMMA TickIs ==
  ASSUME NEW W \in WaitQueuesType, Ordered(W.timeouts), NEW n \in Nat, NEW V \in activate_woken_and_timeout_tasks(advance_ticks(W, n))
  PROVE  \E S, R, U : TickResult(V, W, n, S, R, U)
<1> DEFINE ts == Minus(W.timeouts, n)  ss == Minus(W.sleepers, n)
           ta == FirstN(ts, due(ts))  tb == WithoutFirstN(ts, due(ts))
           sa == FirstN(ss, due(ss))  sb == WithoutFirstN(ss, due(ss))
           S == {e.task : e \in ToSet(sa)}
           R == ToSet(ta)
           st == [t \in Task |-> IF t \in S THEN "active" ELSE W.state[t]]
           P == {e.task : e \in {d \in R : Contains(W.queue[d.target], d.task)
                                           /\ st[d.task] = "blocked" /\ W.target[d.task] = d.target}}
           U == {d.task : d \in {x \in R : Contains(W.queue[x.target], x.task) /\ x.task \notin S
                                           /\ W.state[x.task] = "blocked" /\ W.target[x.task] = x.target}}
           q == [g \in Target |-> Without(W.queue[g], {d.task : d \in {x \in R : x.target = g}})]
           A == advance_ticks(W, n)
           B == woken_tasks(A)
           Q == [B EXCEPT !.timeouts = tb, !.queue = q]
<1>1. V = timeout_tasks(B)
  BY DEF activate_woken_and_timeout_tasks
<1>2. DOMAIN W = {"queue", "len", "free", "timeouts", "sleepers", "exited", "state", "target", "result"}
  BY Fields
<1>3. A = [W EXCEPT !.timeouts = ts, !.sleepers = ss]
  BY DEF advance_ticks
<1>4. A = [queue |-> W.queue, len |-> W.len, free |-> W.free, timeouts |-> ts, sleepers |-> ss, exited |-> W.exited,
           state |-> W.state, target |-> W.target, result |-> W.result]
  <2> HIDE DEF A, ts, ss
  <2> QED BY <1>2, <1>3
<1>5. A.sleepers = ss /\ A.state = W.state
  <2> HIDE DEF A, ts, ss
  <2> QED BY <1>4
<1>6. B = [A EXCEPT !.sleepers = sb, !.state = st]
  <2>1. B = [A EXCEPT !.sleepers = WithoutFirstN(A.sleepers, due(A.sleepers)),
                      !.state = [t \in Task |-> IF t \in {e.task : e \in ToSet(FirstN(A.sleepers, due(A.sleepers)))}
                                                THEN "active" ELSE A.state[t]]]
    BY DEF woken_tasks
  <2> HIDE DEF A, B, ss
  <2> QED BY <1>5, <2>1
<1>7. B = [queue |-> W.queue, len |-> W.len, free |-> W.free, timeouts |-> ts, sleepers |-> sb, exited |-> W.exited,
           state |-> st, target |-> W.target, result |-> W.result]
  <2> HIDE DEF A, B, ss, ts, sb, st
  <2> QED BY <1>4, <1>6
<1>8. B.queue = W.queue /\ B.timeouts = ts /\ B.state = st /\ B.target = W.target /\ B.result = W.result
  <2> HIDE DEF A, B, ss, ts, sb, st
  <2> QED BY <1>7
<1>9. V = activate(Q, P, "timed_out")
  <2>1. timeout_tasks(B) =
          LET m == due(B.timeouts)
              F == ToSet(FirstN(B.timeouts, m))
              T == {e.task : e \in {d \in F : Contains(B.queue[d.target], d.task)
                                              /\ B.state[d.task] = "blocked" /\ B.target[d.task] = d.target}}
          IN  activate([B EXCEPT !.timeouts = WithoutFirstN(B.timeouts, m),
                                 !.queue = [g \in Target |-> Without(B.queue[g], {d.task : d \in {x \in F : x.target = g}})]],
                       T, "timed_out")
    BY DEF timeout_tasks
  <2> HIDE DEF A, B, ts, st
  <2> QED BY <1>1, <1>8, <2>1
<1>10. P = U
  <2>1. \A d \in R : d.task \in Task
    <3>1. W.timeouts \in Seq(TimeoutTask)
      BY Fields
    <3>2. ts \in Seq(LateTimeout)
      BY <3>1, LoweredTimeouts
    <3>3. Ordered(ts)
      <4> DEFINE w == W.timeouts
      <4>1. w \in Seq(TimeoutTask) /\ Ordered(w)
        BY <3>1
      <4>2. DOMAIN ts = DOMAIN w /\ \A i \in DOMAIN w : ts[i].left = w[i].left - n /\ w[i].left \in Nat
        BY <4>1, LoweredTimeouts, Lefts
      <4> HIDE DEF w, ts
      <4> QED BY <4>1, <4>2 DEF Ordered
    <3> HIDE DEF ts
    <3>4. ToSet(ta) \subseteq ToSet(ts)
      BY <3>2, <3>3, Split, LateLefts
    <3>5. ToSet(ts) \subseteq LateTimeout
      BY <3>2, InSet
    <3> QED BY <3>4, <3>5, LateLefts
  <2>2. \A d \in R : st[d.task] = "blocked" <=> (d.task \notin S /\ W.state[d.task] = "blocked")
    <3> HIDE DEF R, S
    <3> QED BY <2>1
  <2> HIDE DEF R, S, st
  <2> QED BY <2>2
<1>11. Q = [queue |-> q, len |-> W.len, free |-> W.free, timeouts |-> tb, sleepers |-> sb, exited |-> W.exited,
            state |-> st, target |-> W.target, result |-> W.result]
  <2>1. Q = [B EXCEPT !.timeouts = tb, !.queue = q]
    OBVIOUS
  <2> HIDE DEF B, ts, tb, sb, st, q, Q
  <2> QED BY <1>7, <2>1
<1>12. V = [queue |-> q, len |-> W.len, free |-> W.free, timeouts |-> tb, sleepers |-> sb, exited |-> W.exited,
            state |-> [t \in Task |-> IF t \in U THEN "active" ELSE st[t]],
            target |-> [t \in Task |-> IF t \in U THEN NoTarget ELSE W.target[t]],
            result |-> [t \in Task |-> IF t \in U THEN "timed_out" ELSE W.result[t]]]
  <2> DEFINE s1 == [t \in Task |-> IF t \in U THEN "active" ELSE Q.state[t]]
             s2 == [t \in Task |-> IF t \in U THEN NoTarget ELSE Q.target[t]]
             s3 == [t \in Task |-> IF t \in U THEN "timed_out" ELSE Q.result[t]]
  <2> HIDE DEF Q, q, st, tb, sb, U, P
  <2>1. V = [Q EXCEPT !.state = s1, !.target = s2, !.result = s3]
    BY <1>9, <1>10 DEF activate
  <2>2. Q.state = st /\ Q.target = W.target /\ Q.result = W.result
    BY <1>11
  <2>3. /\ s1 = [t \in Task |-> IF t \in U THEN "active" ELSE st[t]]
        /\ s2 = [t \in Task |-> IF t \in U THEN NoTarget ELSE W.target[t]]
        /\ s3 = [t \in Task |-> IF t \in U THEN "timed_out" ELSE W.result[t]]
    BY <2>2
  <2> HIDE DEF s1, s2, s3
  <2>4. V = [queue |-> q, len |-> W.len, free |-> W.free, timeouts |-> tb, sleepers |-> sb, exited |-> W.exited,
             state |-> s1, target |-> s2, result |-> s3]
    BY <1>11, <2>1
  <2> QED BY <2>3, <2>4
<1>13. [t \in Task |-> IF t \in U THEN "active" ELSE st[t]] = [t \in Task |-> IF t \in S \cup U THEN "active" ELSE W.state[t]]
  <2> HIDE DEF S, U
  <2> QED OBVIOUS
<1>14. TickResult(V, W, n, S, R, U)
  <2>1. V = [queue |-> q, len |-> W.len, free |-> W.free, timeouts |-> tb, sleepers |-> sb, exited |-> W.exited,
             state |-> [t \in Task |-> IF t \in S \cup U THEN "active" ELSE W.state[t]],
             target |-> [t \in Task |-> IF t \in U THEN NoTarget ELSE W.target[t]],
             result |-> [t \in Task |-> IF t \in U THEN "timed_out" ELSE W.result[t]]]
    <3> HIDE DEF Q, q, st, tb, sb, U, P, S
    <3> QED BY <1>12, <1>13
  <2> QED BY <2>1 DEF TickResult
<1> QED BY <1>14

LEMMA Ticked ==
  ASSUME NEW W, NEW D, Good(W, D, {}), NEW n \in Nat, NEW V, NEW S, NEW R, NEW U, TickResult(V, W, n, S, R, U),
         NEW C, C = [t \in Task |-> IF D[t] = NoTimeout \/ ~ Waiting(W, t) THEN NoTimeout
                                    ELSE IF D[t] > n THEN D[t] - n ELSE 0]
  PROVE  Good(V, C, {}) /\ \A u \in S : W.state[u] = "sleeping"
<1> DEFINE ts == Minus(W.timeouts, n)  ss == Minus(W.sleepers, n)
           tb == WithoutFirstN(ts, due(ts))  sb == WithoutFirstN(ss, due(ss))
           sa == ToSet(FirstN(ss, due(ss)))
           q == [g \in Target |-> Without(W.queue[g], {d.task : d \in {x \in R : x.target = g}})]
           st == [t \in Task |-> IF t \in S \cup U THEN "active" ELSE W.state[t]]
           tg == [t \in Task |-> IF t \in U THEN NoTarget ELSE W.target[t]]
           rs == [t \in Task |-> IF t \in U THEN "timed_out" ELSE W.result[t]]
<1>1. /\ W \in WaitQueuesType /\ D \in [Task -> Nat \cup {NoTimeout}]
      /\ QueuesSound(W, {}) /\ SleepersSound(W) /\ ExitedSound(W) /\ TimeoutsSound(W, {})
      /\ Armed(W, D) /\ ResultsSound(W, D)
  BY DEF Good
<1>2. /\ W.queue \in [Target -> Seq(Task)] /\ W.timeouts \in Seq(TimeoutTask) /\ W.sleepers \in Seq(Sleeper)
      /\ W.free \subseteq QueueId /\ W.state \in [Task -> TaskStates]
      /\ W.target \in [Task -> Target \cup {NoTarget}] /\ W.result \in [Task -> Results]
  BY <1>1, Fields
<1>3. /\ V = [queue |-> q, len |-> W.len, free |-> W.free, timeouts |-> tb, sleepers |-> sb, exited |-> W.exited,
              state |-> st, target |-> tg, result |-> rs]
      /\ S = {e.task : e \in sa} /\ R = ToSet(FirstN(ts, due(ts)))
      /\ U = {d.task : d \in {x \in R : Contains(W.queue[x.target], x.task) /\ x.task \notin S
                                        /\ W.state[x.task] = "blocked" /\ W.target[x.task] = x.target}}
  BY DEF TickResult
\* The sleepers.
<1>4. /\ ss \in Seq(LateSleeper) /\ DOMAIN ss = DOMAIN W.sleepers
      /\ \A i \in DOMAIN W.sleepers : ss[i].task = W.sleepers[i].task /\ ss[i].left = W.sleepers[i].left - n
                                      /\ W.sleepers[i].left \in Nat
  <2> DEFINE w == W.sleepers
  <2>1. w \in Seq(Sleeper)
    BY <1>2
  <2>2. \A i \in DOMAIN w : w[i].left \in Nat
    BY <2>1, Lefts
  <2> HIDE DEF w
  <2>3. /\ Minus(w, n) \in Seq(LateSleeper) /\ DOMAIN Minus(w, n) = DOMAIN w
        /\ \A i \in DOMAIN w : Minus(w, n)[i].task = w[i].task /\ Minus(w, n)[i].left = w[i].left - n
    BY <2>1, LoweredSleepers
  <2> QED BY <2>2, <2>3 DEF w
<1>5. /\ ts \in Seq(LateTimeout) /\ DOMAIN ts = DOMAIN W.timeouts
      /\ \A i \in DOMAIN W.timeouts :
           /\ ts[i].task = W.timeouts[i].task /\ ts[i].target = W.timeouts[i].target
           /\ ts[i].left = W.timeouts[i].left - n /\ W.timeouts[i].left \in Nat
  <2> DEFINE w == W.timeouts
  <2>1. w \in Seq(TimeoutTask)
    BY <1>2
  <2>2. \A i \in DOMAIN w : w[i].left \in Nat
    BY <2>1, Lefts
  <2> HIDE DEF w
  <2>3. /\ Minus(w, n) \in Seq(LateTimeout) /\ DOMAIN Minus(w, n) = DOMAIN w
        /\ \A i \in DOMAIN w : Minus(w, n)[i].task = w[i].task /\ Minus(w, n)[i].target = w[i].target
                               /\ Minus(w, n)[i].left = w[i].left - n
    BY <2>1, LoweredTimeouts
  <2> QED BY <2>2, <2>3 DEF w
<1> HIDE DEF ss, ts
<1>6. Ordered(ss) /\ OneEach(ss)
  <2>1. Ordered(W.sleepers) /\ OneEach(W.sleepers)
    BY <1>1 DEF SleepersSound
  <2>2. Ordered(ss)
    BY <1>4, <2>1 DEF Ordered
  <2> QED BY <1>4, <2>1, <2>2 DEF OneEach
<1>7. Ordered(ts) /\ OneLive(W, {}, ts)
  <2>1. Ordered(W.timeouts) /\ OneLive(W, {}, W.timeouts)
    BY <1>1 DEF TimeoutsSound
  <2>2. Ordered(ts)
    BY <1>5, <2>1 DEF Ordered
  <2> QED BY <1>5, <2>1, <2>2 DEF OneLive
<1>8. /\ sb \in Seq(LateSleeper) /\ sa \cup ToSet(sb) = ToSet(ss)
      /\ Ahead(sb) /\ Ordered(sb) /\ OneEach(sb) /\ \A x \in sa, y \in ToSet(sb) : x.task # y.task
  <2>1. /\ sb \in Seq(LateSleeper) /\ Thinned(sb, ss) /\ sa \cup ToSet(sb) = ToSet(ss)
        /\ Ahead(sb) /\ (OneEach(ss) => \A x \in sa, y \in ToSet(sb) : x.task # y.task)
    BY <1>4, <1>6, LateLefts, Split
  <2> HIDE DEF sa, sb
  <2> QED BY <1>4, <1>6, <2>1, ThinnedKeeps
<1>9. /\ tb \in Seq(LateTimeout) /\ R \cup ToSet(tb) = ToSet(ts) /\ \A x \in R : x.left <= 0
      /\ Ahead(tb) /\ Ordered(tb) /\ OneLive(W, {}, tb)
  <2>1. /\ tb \in Seq(LateTimeout) /\ Thinned(tb, ts) /\ R \cup ToSet(tb) = ToSet(ts)
        /\ (\A x \in R : x.left <= 0) /\ Ahead(tb)
    BY <1>3, <1>5, <1>7, LateLefts, Split
  <2> HIDE DEF tb
  <2> QED BY <1>5, <1>7, <2>1, ThinnedKeeps
<1>10. sb \in Seq(Sleeper) /\ tb \in Seq(TimeoutTask)
  BY <1>8, <1>9, InTime
<1> HIDE DEF sa, sb, tb
\* The tasks.
<1>11. \A u \in Task : W.state[u] = "sleeping" <=> \E e \in ToSet(ss) : e.task = u
  <2>1. ASSUME NEW u PROVE (\E e \in ToSet(ss) : e.task = u) <=> (\E e \in ToSet(W.sleepers) : e.task = u)
    <3>1. (\E e \in ToSet(ss) : e.task = u) <=> (\E i \in DOMAIN ss : ss[i].task = u)
      BY DEF ToSet
    <3>2. (\E e \in ToSet(W.sleepers) : e.task = u) <=> (\E i \in DOMAIN W.sleepers : W.sleepers[i].task = u)
      BY DEF ToSet
    <3> QED BY <1>4, <3>1, <3>2
  <2> QED BY <1>1, <2>1 DEF SleepersSound
<1>12. S \subseteq Task /\ \A u \in S : W.state[u] = "sleeping"
  <2>1. ToSet(ss) \subseteq LateSleeper
    BY <1>4, InSet
  <2>2. \A e \in sa : e.task \in Task /\ W.state[e.task] = "sleeping"
    BY <1>8, <1>11, <2>1, LateLefts
  <2> QED BY <1>3, <2>2
<1>13. \A g \in Target : \A u \in ToSet(W.queue[g]) : u \in Task /\ W.state[u] = "blocked" /\ W.target[u] = g
  BY <1>1, <1>2, InSet DEF QueuesSound
<1>14. \A x \in ToSet(ts) : x \in LateTimeout /\ x.task \in Task /\ x.target \in Target
  BY <1>5, InSet, LateLefts
<1>15. \A u : u \in U <=> \E d \in R : d.task = u /\ u \in ToSet(W.queue[d.target])
  <2>1. ASSUME NEW d \in R
        PROVE  (Contains(W.queue[d.target], d.task) /\ d.task \notin S
                /\ W.state[d.task] = "blocked" /\ W.target[d.task] = d.target)
               <=> d.task \in ToSet(W.queue[d.target])
    <3>1. d.target \in Target /\ W.queue[d.target] \in Seq(Task)
      BY <1>2, <1>9, <1>14
    <3>2. Contains(W.queue[d.target], d.task) <=> d.task \in ToSet(W.queue[d.target])
      BY <3>1, ContainsIn
    <3>3. d.task \in ToSet(W.queue[d.target]) =>
            (d.task \notin S /\ W.state[d.task] = "blocked" /\ W.target[d.task] = d.target)
      BY <1>12, <1>13, <3>1
    <3> QED BY <3>2, <3>3
  <2> QED BY <1>3, <2>1
<1>16. U \subseteq Task /\ \A u \in U : W.state[u] = "blocked" /\ u \notin S
  BY <1>9, <1>12, <1>13, <1>14, <1>15
<1>17. /\ V.queue = q /\ V.free = W.free /\ V.timeouts = tb /\ V.sleepers = sb /\ V.exited = W.exited
       /\ V.state = st /\ V.target = tg /\ V.result = rs
  <2> HIDE DEF q, st, tg, rs
  <2> QED BY <1>3
<1>18. \A u \in Task : /\ V.state[u] = IF u \in S \cup U THEN "active" ELSE W.state[u]
                       /\ V.target[u] = IF u \in U THEN NoTarget ELSE W.target[u]
                       /\ V.result[u] = IF u \in U THEN "timed_out" ELSE W.result[u]
  BY <1>17
\* Who waits in a queue has its record in it.
<1>19. ASSUME NEW g \in Target, NEW u \in ToSet(W.queue[g])
       PROVE  (\E d \in R : d.task = u /\ d.target = g) <=> u \in U
  <2>1. ASSUME NEW d \in R, d.task = u, d.target = g PROVE u \in U
    BY <1>15, <1>19, <2>1
  <2>2. ASSUME NEW d \in R, d.task = u, u \in ToSet(W.queue[d.target]) PROVE d.target = g
    <3>1. d.target \in Target
      BY <1>9, <1>14
    <3> QED BY <1>13, <1>19, <2>2, <3>1
  <2> QED BY <1>15, <2>1, <2>2
<1>20. \A g \in Target : /\ q[g] \in Seq(Task) /\ IsInjective(q[g]) /\ ToSet(q[g]) = ToSet(W.queue[g]) \ U
                         /\ V.queue[g] = q[g]
  <2> SUFFICES ASSUME NEW g \in Target
               PROVE  /\ q[g] \in Seq(Task) /\ IsInjective(q[g]) /\ ToSet(q[g]) = ToSet(W.queue[g]) \ U
                      /\ V.queue[g] = q[g]
    OBVIOUS
  <2> DEFINE K == {d.task : d \in {x \in R : x.target = g}}  w == W.queue[g]
  <2>1. w \in Seq(Task) /\ IsInjective(w)
    BY <1>1, <1>2 DEF QueuesSound
  <2>2. q[g] = Without(w, K)
    OBVIOUS
  <2>3. \A u \in ToSet(w) : u \in K <=> u \in U
    BY <1>19
  <2> HIDE DEF K, w
  <2>4. Without(w, K) \in Seq(Task) /\ Thinned(Without(w, K), w) /\ ToSet(Without(w, K)) = ToSet(w) \ K
    BY <2>1, WithoutIs
  <2>5. IsInjective(Without(w, K))
    BY <2>1, <2>4, ThinnedKeeps
  <2>6. V.queue[g] = q[g]
    BY <1>17
  <2> HIDE DEF q
  <2> QED BY <2>2, <2>3, <2>4, <2>5, <2>6 DEF w
<1>21. V \in WaitQueuesType
  <2>1. q \in [Target -> Seq(Task)]
    BY <1>20
  <2>2. st \in [Task -> TaskStates] /\ tg \in [Task -> Target \cup {NoTarget}] /\ rs \in [Task -> Results]
    <3>1. st \in [Task -> TaskStates]
      BY <1>2 DEF TaskStates
    <3>2. tg \in [Task -> Target \cup {NoTarget}]
      BY <1>2
    <3>3. rs \in [Task -> Results]
      BY <1>2 DEF Results
    <3> HIDE DEF st, tg, rs
    <3> QED BY <3>1, <3>2, <3>3
  <2> HIDE DEF q, st, tg, rs
  <2> QED BY <1>1, <1>3, <1>10, <2>1, <2>2, Fields DEF WaitQueuesType
<1> HIDE DEF q, st, tg, rs
<1>22. \A x : Gone(V, {}, x) <=> Gone(W, {}, x)
  <2>1. \A u \in Task : V.state[u] \in {"exited", "reaped"} <=> W.state[u] \in {"exited", "reaped"}
    BY <1>12, <1>16, <1>18
  <2> QED BY <2>1 DEF Gone
<1>23. QueuesSound(V, {})
  <2>1. \A g \in Target : IsInjective(V.queue[g])
    BY <1>20
  <2>2. ASSUME NEW g \in Target, NEW u \in ToSet(V.queue[g]) PROVE V.state[u] = "blocked" /\ V.target[u] = g
    <3>1. u \in Task /\ W.state[u] = "blocked" /\ W.target[u] = g /\ u \notin U
      BY <1>13, <1>20, <2>2
    <3> QED BY <1>12, <1>18, <3>1
  <2>3. ASSUME NEW u \in Task, V.state[u] = "blocked"
        PROVE  V.target[u] \in Target /\ (u \in ToSet(V.queue[V.target[u]]) \/ Gone(V, {}, V.target[u]))
    <3>1. u \notin U /\ W.state[u] = "blocked" /\ V.target[u] = W.target[u]
      BY <1>18, <2>3
    <3>2. W.target[u] \in Target /\ (u \in ToSet(W.queue[W.target[u]]) \/ Gone(W, {}, W.target[u]))
      BY <1>1, <3>1 DEF QueuesSound
    <3> QED BY <1>20, <1>22, <3>1, <3>2
  <2>4. ASSUME NEW p \in V.free PROVE V.queue[WaitQueue(p)] = <<>>
    <3>1. WaitQueue(p) \in Target /\ W.queue[WaitQueue(p)] = <<>>
      BY <1>1, <1>2, <1>17, Kinds DEF QueuesSound, Queues
    <3>2. ToSet(W.queue[WaitQueue(p)]) = {}
      BY <3>1 DEF ToSet
    <3>3. V.queue[WaitQueue(p)] \in Seq(Task) /\ ToSet(V.queue[WaitQueue(p)]) = {}
      BY <1>20, <3>1, <3>2
    <3> QED BY <3>3, InSet
  <2> QED BY <2>1, <2>2, <2>3, <2>4 DEF QueuesSound
<1>24. SleepersSound(V)
  <2>1. \A u \in Task : V.state[u] = "sleeping" <=> (W.state[u] = "sleeping" /\ u \notin S)
    BY <1>16, <1>18
  <2>2. \A u \in Task : (u \in S) <=> \E e \in sa : e.task = u
    BY <1>3
  <2>3. \A u \in Task : (\E e \in ToSet(sb) : e.task = u) <=> ((\E e \in ToSet(ss) : e.task = u) /\ u \notin S)
    BY <1>8, <2>2
  <2> QED BY <1>8, <1>11, <1>17, <2>1, <2>3 DEF SleepersSound
<1>25. ExitedSound(V)
  <2>1. \A u \in Task : V.state[u] = "exited" <=> W.state[u] = "exited"
    BY <1>12, <1>16, <1>18
  <2> QED BY <1>1, <1>17, <2>1 DEF ExitedSound
\* Two records of a task of which neither is gone are the same.
<1>26. ASSUME NEW x \in ToSet(ts), NEW y \in ToSet(ts), x.task = y.task,
              ~ Gone(W, {}, x.target), ~ Gone(W, {}, y.target)
       PROVE  x = y
  <2>1. PICK i \in DOMAIN ts : ts[i] = x
    BY <1>26 DEF ToSet
  <2>2. PICK j \in DOMAIN ts : ts[j] = y
    BY <1>26 DEF ToSet
  <2> QED BY <1>7, <1>26, <2>1, <2>2 DEF OneLive
<1>27. \A e \in ToSet(tb) : e.left > 0
  BY <1>9 DEF Ahead, ToSet
<1>28. ASSUME NEW d \in R, NEW e \in ToSet(ts), d.task = e.task, ~ Gone(W, {}, d.target), ~ Gone(W, {}, e.target)
       PROVE  e.left <= 0
  <2>1. d \in ToSet(ts)
    BY <1>9
  <2>2. d = e
    BY <1>26, <1>28, <2>1
  <2> QED BY <1>9, <2>2
<1>29. \A x \in ToSet(ts) : x.target \in Queues \cup {TaskExit(y) : y \in Task}
                            /\ (x.task \in ToSet(W.queue[x.target]) \/ Gone(W, {}, x.target))
  <2> SUFFICES ASSUME NEW i \in DOMAIN ts
               PROVE  ts[i].target \in Queues \cup {TaskExit(y) : y \in Task}
                      /\ (ts[i].task \in ToSet(W.queue[ts[i].target]) \/ Gone(W, {}, ts[i].target))
    BY DEF ToSet
  <2>1. W.timeouts[i] \in ToSet(W.timeouts) /\ ts[i].task = W.timeouts[i].task /\ ts[i].target = W.timeouts[i].target
    BY <1>5 DEF ToSet
  <2> QED BY <1>1, <2>1 DEF TimeoutsSound
<1>30. TimeoutsSound(V, {})
  <2>1. OneLive(V, {}, V.timeouts)
    BY <1>9, <1>17, <1>22, GoneMore
  <2>2. ASSUME NEW e \in ToSet(tb)
        PROVE  /\ e.target \in Queues \cup {TaskExit(y) : y \in Task}
               /\ e.task \in ToSet(V.queue[e.target]) \/ Gone(V, {}, e.target)
    <3>1. e \in ToSet(ts) /\ e.target \in Target /\ e.task \in Task
      BY <1>9, <1>14
    <3>2. CASE e.task \in ToSet(W.queue[e.target]) /\ ~ Gone(W, {}, e.target)
      <4>1. ASSUME e.task \in U PROVE FALSE
        <5>1. PICK d \in R : d.task = e.task /\ e.task \in ToSet(W.queue[d.target])
          BY <1>15, <4>1
        <5>2. d.target \in Target
          BY <1>9, <1>14
        <5>3. d.target = e.target
          BY <1>13, <3>1, <3>2, <5>1, <5>2
        <5>4. e.left <= 0
          BY <1>28, <3>1, <3>2, <5>1, <5>3
        <5>5. e.left > 0 /\ e.left \in Int
          BY <1>14, <1>27, <3>1, LateLefts
        <5> QED BY <5>4, <5>5
      <4> QED BY <1>20, <1>29, <3>1, <3>2, <4>1
    <3>3. CASE Gone(W, {}, e.target)
      BY <1>22, <1>29, <3>1, <3>3
    <3> QED BY <1>29, <3>1, <3>2, <3>3
  <2> QED BY <1>9, <1>17, <2>1, <2>2 DEF TimeoutsSound
\* The deadlines.
<1>31. \A u \in Task : C[u] = IF D[u] = NoTimeout \/ ~ Waiting(W, u) THEN NoTimeout
                              ELSE IF D[u] > n THEN D[u] - n ELSE 0
  OBVIOUS
<1>32. C \in [Task -> Nat \cup {NoTimeout}]
  <2>1. \A u \in Task : C[u] \in Nat \cup {NoTimeout}
    <3> SUFFICES ASSUME NEW u \in Task, C[u] # NoTimeout PROVE C[u] \in Nat
      OBVIOUS
    <3>1. D[u] \in Nat /\ C[u] = IF D[u] > n THEN D[u] - n ELSE 0
      BY <1>1, <1>31
    <3> QED BY <3>1
  <2> QED BY <2>1
<1>33. ASSUME NEW u \in Task, W.state[u] = "blocked", D[u] # NoTimeout
       PROVE  /\ W.target[u] \in Queues /\ D[u] \in Nat
              /\ [task |-> u, target |-> W.target[u], left |-> D[u] - n] \in ToSet(ts)
              /\ u \in ToSet(W.queue[W.target[u]])
  <2>1. W.target[u] \in Queues /\ D[u] \in Nat /\ [task |-> u, target |-> W.target[u], left |-> D[u]] \in ToSet(W.timeouts)
    BY <1>1, <1>33 DEF Armed
  <2>2. PICK i \in DOMAIN W.timeouts : W.timeouts[i] = [task |-> u, target |-> W.target[u], left |-> D[u]]
    BY <2>1 DEF ToSet
  <2>3. ts[i] \in LateTimeout /\ ts[i].task = u /\ ts[i].target = W.target[u] /\ ts[i].left = D[u] - n
    BY <1>5, <2>2
  <2>4. ts[i] = [task |-> u, target |-> W.target[u], left |-> D[u] - n]
    BY <2>3 DEF LateTimeout
  <2>5. ts[i] \in ToSet(ts)
    BY <1>5 DEF ToSet
  <2>6. ~ Gone(W, {}, W.target[u])
    BY <2>1, QueuesStay
  <2> QED BY <1>1, <1>33, <2>1, <2>4, <2>5, <2>6 DEF QueuesSound
<1>34. Armed(V, C)
  <2> SUFFICES ASSUME NEW u \in Task, V.state[u] = "blocked", C[u] # NoTimeout
               PROVE  /\ V.target[u] \in Queues
                      /\ [task |-> u, target |-> V.target[u], left |-> C[u]] \in ToSet(tb)
    BY <1>17 DEF Armed
  <2>1. u \notin U /\ W.state[u] = "blocked" /\ V.target[u] = W.target[u]
    BY <1>18
  <2>2. D[u] # NoTimeout /\ C[u] = IF D[u] > n THEN D[u] - n ELSE 0
    BY <1>31
  <2> DEFINE r == [task |-> u, target |-> W.target[u], left |-> D[u] - n]
  <2>3. W.target[u] \in Queues /\ D[u] \in Nat /\ r \in ToSet(ts) /\ u \in ToSet(W.queue[W.target[u]])
    BY <1>33, <2>1, <2>2
  <2>4. r.task = u /\ r.target = W.target[u] /\ r.left = D[u] - n
    OBVIOUS
  <2>5. r \notin R
    BY <1>15, <2>1, <2>3, <2>4
  <2>6. r \in ToSet(tb)
    BY <1>9, <2>3, <2>5
  <2>7. D[u] > n
    <3>1. r.left > 0
      BY <1>27, <2>6
    <3> QED BY <2>3, <2>4, <3>1
  <2> QED BY <2>1, <2>2, <2>3, <2>6, <2>7
<1>35. ResultsSound(V, C)
  <2>1. ASSUME NEW u \in Task, Waiting(V, u) PROVE V.result[u] = "none"
    <3>1. u \notin S \cup U /\ Waiting(W, u)
      BY <1>18, <2>1 DEF Waiting
    <3> QED BY <1>1, <1>18, <3>1 DEF ResultsSound
  <2>2. ASSUME NEW u \in Task, V.result[u] = "timed_out", C[u] # NoTimeout PROVE C[u] = 0
    <3>1. D[u] # NoTimeout /\ Waiting(W, u) /\ C[u] = IF D[u] > n THEN D[u] - n ELSE 0
      BY <1>31, <2>2
    <3>2. W.result[u] = "none"
      BY <1>1, <3>1 DEF ResultsSound
    <3>3. u \in U
      BY <1>18, <2>2, <3>2
    <3>4. W.state[u] = "blocked"
      BY <1>16, <3>3
    <3> DEFINE r == [task |-> u, target |-> W.target[u], left |-> D[u] - n]
    <3>5. W.target[u] \in Queues /\ D[u] \in Nat /\ r \in ToSet(ts)
      BY <1>33, <3>1, <3>4
    <3>6. PICK d \in R : d.task = u /\ u \in ToSet(W.queue[d.target])
      BY <1>15, <3>3
    <3>7. d.target = W.target[u]
      <4>1. d.target \in Target
        BY <1>9, <1>14
      <4> QED BY <1>13, <3>6, <4>1
    <3>8. ~ Gone(W, {}, W.target[u])
      BY <3>5, QueuesStay
    <3>9. r.task = u /\ r.target = W.target[u] /\ r.left = D[u] - n
      OBVIOUS
    <3> HIDE DEF r
    <3>10. r.left <= 0
      BY <1>28, <3>5, <3>6, <3>7, <3>8, <3>9
    <3>11. ~ (D[u] > n)
      BY <3>5, <3>9, <3>10
    <3> QED BY <3>1, <3>11
  <2> QED BY <2>1, <2>2 DEF ResultsSound
<1> QED BY <1>12, <1>21, <1>23, <1>24, <1>25, <1>30, <1>32, <1>34, <1>35 DEF Good

-----------------------------------------------------------------------------
(***************************************************************************)
(* The operations of the code on a structure                               *)
(***************************************************************************)
LEMMA ActivateIs ==
  ASSUME NEW W \in WaitQueuesType, NEW T, NEW r \in Results
  PROVE  LET V == activate(W, T, r) IN
         /\ V \in WaitQueuesType /\ V.queue = W.queue /\ V.len = W.len /\ V.free = W.free
         /\ V.timeouts = W.timeouts /\ V.sleepers = W.sleepers /\ V.exited = W.exited
         /\ \A u \in Task : /\ V.state[u] = IF u \in T THEN "active" ELSE W.state[u]
                            /\ V.target[u] = IF u \in T THEN NoTarget ELSE W.target[u]
                            /\ V.result[u] = IF u \in T THEN r ELSE W.result[u]
<1> DEFINE V == activate(W, T, r)
           st == [t \in Task |-> IF t \in T THEN "active" ELSE W.state[t]]
           tg == [t \in Task |-> IF t \in T THEN NoTarget ELSE W.target[t]]
           rs == [t \in Task |-> IF t \in T THEN r ELSE W.result[t]]
<1>1. V = [W EXCEPT !.state = st, !.target = tg, !.result = rs]
  BY DEF activate
<1>2. st \in [Task -> TaskStates]
  BY Fields DEF TaskStates
<1>3. tg \in [Task -> Target \cup {NoTarget}]
  BY Fields
<1>4. rs \in [Task -> Results]
  BY Fields
<1>5. \A u \in Task : /\ st[u] = IF u \in T THEN "active" ELSE W.state[u]
                      /\ tg[u] = IF u \in T THEN NoTarget ELSE W.target[u]
                      /\ rs[u] = IF u \in T THEN r ELSE W.result[u]
  OBVIOUS
<1>6. DOMAIN W = {"queue", "len", "free", "timeouts", "sleepers", "exited", "state", "target", "result"}
  BY Fields
<1> HIDE DEF V, st, tg, rs
<1>7. V = [queue |-> W.queue, len |-> W.len, free |-> W.free, timeouts |-> W.timeouts, sleepers |-> W.sleepers,
           exited |-> W.exited, state |-> st, target |-> tg, result |-> rs]
  BY <1>1, <1>6
<1>8. V \in WaitQueuesType
  BY <1>2, <1>3, <1>4, <1>7, Fields DEF WaitQueuesType
<1>9. /\ V.queue = W.queue /\ V.len = W.len /\ V.free = W.free /\ V.timeouts = W.timeouts
      /\ V.sleepers = W.sleepers /\ V.exited = W.exited /\ V.state = st /\ V.target = tg /\ V.result = rs
  BY <1>7
<1> QED BY <1>5, <1>8, <1>9 DEF V

\* One queue and the timeouts change.
RequeueResult(V, W, g, x, y) ==
  /\ V \in WaitQueuesType /\ V.queue[g] = x /\ (\A h \in Target : h # g => V.queue[h] = W.queue[h])
  /\ V.timeouts = y /\ V.len = W.len /\ V.free = W.free /\ V.sleepers = W.sleepers /\ V.exited = W.exited
  /\ V.state = W.state /\ V.target = W.target /\ V.result = W.result
LEMMA Requeued ==
  ASSUME NEW W \in WaitQueuesType, NEW g \in Target, NEW x \in Seq(Task), NEW y \in Seq(TimeoutTask)
  PROVE  RequeueResult([W EXCEPT !.queue[g] = x, !.timeouts = y], W, g, x, y)
<1> DEFINE V == [W EXCEPT !.queue[g] = x, !.timeouts = y]  q == [W.queue EXCEPT ![g] = x]
<1>1. q \in [Target -> Seq(Task)] /\ q[g] = x /\ \A h \in Target : h # g => q[h] = W.queue[h]
  BY Fields
<1>2. V = [W EXCEPT !.queue = q, !.timeouts = y]
  OBVIOUS
<1>3. DOMAIN W = {"queue", "len", "free", "timeouts", "sleepers", "exited", "state", "target", "result"}
  BY Fields
<1> HIDE DEF V, q
<1>4. V = [queue |-> q, len |-> W.len, free |-> W.free, timeouts |-> y, sleepers |-> W.sleepers,
           exited |-> W.exited, state |-> W.state, target |-> W.target, result |-> W.result]
  BY <1>2, <1>3
<1>5. V \in WaitQueuesType
  BY <1>1, <1>4, Fields DEF WaitQueuesType
<1>6. /\ V.queue = q /\ V.len = W.len /\ V.free = W.free /\ V.timeouts = y
      /\ V.sleepers = W.sleepers /\ V.exited = W.exited /\ V.state = W.state /\ V.target = W.target /\ V.result = W.result
  BY <1>4
<1>7. RequeueResult(V, W, g, x, y)
  BY <1>1, <1>5, <1>6 DEF RequeueResult
<1> QED BY <1>7 DEF V

WakeResult(V, W, g, n) ==
  /\ V \in WaitQueuesType /\ V.queue[g] = WithoutFirstN(W.queue[g], n) /\ V.free = W.free
  /\ \A h \in Target : h # g => V.queue[h] = W.queue[h]
  /\ \A u \in Task : W.state[u] # "blocked" => V.state[u] = W.state[u]
LEMMA WakeN ==
  ASSUME NEW W, NEW D, NEW X, Good(W, D, X), NEW q \in QueueId, NEW n \in 0 .. Len(W.queue[WaitQueue(q)])
  PROVE  Good(wake_n(W, q, n), D, X) /\ WakeResult(wake_n(W, q, n), W, WaitQueue(q), n)
<1> DEFINE g == WaitQueue(q)  s == W.queue[g]  P == ToSet(FirstN(s, n))  r == WithoutFirstN(s, n)
           R == {e \in ToSet(W.timeouts) : e.task \in P /\ e.target = g}
           B == [W EXCEPT !.queue[g] = r, !.timeouts = Without(W.timeouts, R)]
           T == {t \in P : W.state[t] = "blocked" /\ W.target[t] = g}
           V == wake_n(W, q, n)
<1>1. W \in WaitQueuesType /\ QueuesSound(W, X) /\ g \in Target
  BY Kinds DEF Good, Queues
<1>2. W.queue \in [Target -> Seq(Task)] /\ W.timeouts \in Seq(TimeoutTask)
  BY <1>1, Fields
<1>3. s \in Seq(Task) /\ IsInjective(s) /\ \A t \in ToSet(s) : t \in Task /\ W.state[t] = "blocked" /\ W.target[t] = g
  BY <1>1, <1>2, InSet DEF QueuesSound
<1>4. V = activate(B, T, "woken")
  BY DEF wake_n
<1> HIDE DEF V, g
<1>5. n \in 0 .. Len(s)
  BY DEF g
<1>6. r \in Seq(Task) /\ Thinned(r, s) /\ ToSet(r) = ToSet(s) \ P /\ P \subseteq ToSet(s)
  <2> HIDE DEF s
  <2>1. /\ WithoutFirstN(s, n) \in Seq(Task) /\ Thinned(WithoutFirstN(s, n), s)
        /\ ToSet(FirstN(s, n)) \cup ToSet(WithoutFirstN(s, n)) = ToSet(s)
        /\ IsInjective(s) => ToSet(FirstN(s, n)) \cap ToSet(WithoutFirstN(s, n)) = {}
    BY <1>3, <1>5, Cut
  <2> QED BY <1>3, <2>1
<1>7. T = P
  BY <1>3, <1>6
<1> HIDE DEF P, r, T
<1>8. Without(W.timeouts, R) \in Seq(TimeoutTask)
  <2> HIDE DEF R
  <2> QED BY <1>2, WithoutIs
<1> DEFINE y == Without(W.timeouts, R)
<1> HIDE DEF R, s
<1>9. /\ B \in WaitQueuesType /\ B.queue[g] = r /\ (\A h \in Target : h # g => B.queue[h] = W.queue[h])
      /\ B.timeouts = Without(W.timeouts, R) /\ B.len = W.len /\ B.free = W.free /\ B.sleepers = W.sleepers
      /\ B.exited = W.exited /\ B.state = W.state /\ B.target = W.target /\ B.result = W.result
  <2> HIDE DEF y
  <2>1. RequeueResult([W EXCEPT !.queue[g] = r, !.timeouts = y], W, g, r, y)
    BY <1>1, <1>6, <1>8, Requeued DEF y
  <2>2. RequeueResult(B, W, g, r, y)
    BY <2>1 DEF y
  <2> HIDE DEF B
  <2> QED BY <2>2 DEF RequeueResult, y
<1> HIDE DEF B
<1>10. "woken" \in Results
  BY DEF Results
<1>11. /\ V \in WaitQueuesType /\ V.queue = B.queue /\ V.free = B.free
       /\ V.timeouts = B.timeouts /\ V.sleepers = B.sleepers /\ V.exited = B.exited
       /\ \A u \in Task : /\ V.state[u] = IF u \in P THEN "active" ELSE B.state[u]
                          /\ V.target[u] = IF u \in P THEN NoTarget ELSE B.target[u]
                          /\ V.result[u] = IF u \in P THEN "woken" ELSE B.result[u]
  BY <1>4, <1>7, <1>9, <1>10, ActivateIs
<1>12. WakeResult(V, W, g, n)
  <2>1. \A u \in P : W.state[u] = "blocked"
    BY <1>3, <1>6
  <2> QED BY <1>9, <1>11, <2>1 DEF WakeResult, r, s
<1>13. /\ P \subseteq ToSet(W.queue[g]) /\ Thinned(V.queue[g], W.queue[g]) /\ ToSet(V.queue[g]) = ToSet(W.queue[g]) \ P
       /\ \A h \in Target : h # g => V.queue[h] = W.queue[h]
  BY <1>6, <1>9, <1>11 DEF s
<1>14. V.timeouts = Without(W.timeouts, {e \in ToSet(W.timeouts) : e.task \in P /\ e.target = g})
  BY <1>9, <1>11 DEF R
<1>15. \A u \in Task : /\ V.state[u] = IF u \in P THEN "active" ELSE W.state[u]
                       /\ u \notin P => V.target[u] = W.target[u] /\ V.result[u] = W.result[u]
                       /\ u \in P => V.result[u] = "woken"
  BY <1>9, <1>11
<1>16. V.sleepers = W.sleepers /\ V.exited = W.exited /\ V.free = W.free
  BY <1>9, <1>11
<1>17. Good(V, D, X)
  <2>1. WokenFrom(V, W, X, g, P)
    BY <1>11, <1>13, <1>14, <1>15, <1>16 DEF WokenFrom
  <2> QED BY <1>1, <2>1, Woken
<1> QED BY <1>12, <1>17 DEF V, g

LEMMA WakeAllWaiters ==
  ASSUME NEW W, NEW D, NEW X, Good(W, D, X), NEW g \in Target,
         Gone(W, X, g) \/ g \notin Queues \cup {TaskExit(x) : x \in Task}
  PROVE  LET V == wake_all_waiters(W, g) IN
         Good(V, D, X) /\ \A u \in Task : W.state[u] # "blocked" => V.state[u] = W.state[u]
<1> DEFINE B == [W EXCEPT !.queue[g] = <<>>]  P == ToSet(W.queue[g])  V == wake_all_waiters(W, g)
<1>1. W \in WaitQueuesType /\ QueuesSound(W, X)
  BY DEF Good
<1>2. W.queue \in [Target -> Seq(Task)] /\ W.timeouts \in Seq(TimeoutTask) /\ <<>> \in Seq(Task)
  BY <1>1, Fields
<1>3. V = activate(B, P, "woken")
  BY DEF wake_all_waiters
<1>4. B = [W EXCEPT !.queue[g] = <<>>, !.timeouts = W.timeouts]
  BY <1>1, Fields
<1> HIDE DEF V, B, P
<1>5. /\ B \in WaitQueuesType /\ B.queue[g] = <<>> /\ (\A h \in Target : h # g => B.queue[h] = W.queue[h])
      /\ B.timeouts = W.timeouts /\ B.free = W.free /\ B.sleepers = W.sleepers
      /\ B.exited = W.exited /\ B.state = W.state /\ B.target = W.target /\ B.result = W.result
  <2>1. RequeueResult([W EXCEPT !.queue[g] = <<>>, !.timeouts = W.timeouts], W, g, <<>>, W.timeouts)
    BY <1>1, <1>2, Requeued
  <2>2. RequeueResult(B, W, g, <<>>, W.timeouts)
    BY <1>4, <2>1
  <2> QED BY <2>2 DEF RequeueResult
<1>6. "woken" \in Results
  BY DEF Results
<1>7. /\ V \in WaitQueuesType /\ V.queue = B.queue /\ V.free = B.free
      /\ V.timeouts = B.timeouts /\ V.sleepers = B.sleepers /\ V.exited = B.exited
      /\ \A u \in Task : /\ V.state[u] = IF u \in P THEN "active" ELSE B.state[u]
                         /\ V.target[u] = IF u \in P THEN NoTarget ELSE B.target[u]
                         /\ V.result[u] = IF u \in P THEN "woken" ELSE B.result[u]
  BY <1>3, <1>5, <1>6, ActivateIs
<1>8. Thinned(<<>>, W.queue[g]) /\ ToSet(<<>>) = {}
  <2>1. Place(<<>>, W.queue[g], <<>>)
    BY DEF Place
  <2> QED BY <2>1 DEF Thinned, ToSet
<1>9. /\ P \subseteq ToSet(W.queue[g]) /\ Thinned(V.queue[g], W.queue[g]) /\ ToSet(V.queue[g]) = ToSet(W.queue[g]) \ P
      /\ \A h \in Target : h # g => V.queue[h] = W.queue[h]
  BY <1>5, <1>7, <1>8 DEF P
<1>10. /\ V.sleepers = W.sleepers /\ V.exited = W.exited /\ V.free = W.free
       /\ V.timeouts = W.timeouts /\ (Gone(W, X, g) \/ g \notin Queues \cup {TaskExit(x) : x \in Task})
       /\ \A u \in Task : /\ V.state[u] = IF u \in P THEN "active" ELSE W.state[u]
                          /\ u \notin P => V.target[u] = W.target[u] /\ V.result[u] = W.result[u]
                          /\ u \in P => V.result[u] = "woken"
  BY <1>5, <1>7
<1>11. Good(V, D, X)
  <2>1. WokenFrom(V, W, X, g, P)
    BY <1>7, <1>9, <1>10 DEF WokenFrom
  <2> QED BY <2>1, Woken
<1>12. \A u \in P : W.state[u] = "blocked"
  BY <1>1 DEF QueuesSound, P
<1> QED BY <1>10, <1>11, <1>12 DEF V

\* The fields after detach_task_from_run_queues and remove_task_from_any_queue.
Detached(V, W, t, G) ==
  /\ V \in WaitQueuesType
  /\ \A g \in Target : V.queue[g] = IF g \in G THEN <<>> ELSE Without(W.queue[g], {t})
  /\ V.sleepers = NotOf(W.sleepers, t) /\ V.timeouts = NotOf(W.timeouts, t) /\ V.free = W.free
  /\ V.state = W.state /\ V.target = W.target /\ V.result = W.result /\ V.exited = W.exited

LEMMA DetachedIs ==
  ASSUME NEW W \in WaitQueuesType, NEW t \in Task
  PROVE  /\ Detached(detach_task_from_run_queues(W, t), W, t, ExitsOf(t))
         /\ Detached(remove_task_from_any_queue(W, t), W, t, {})
<1> DEFINE x == NotOf(W.sleepers, t)  y == NotOf(W.timeouts, t)
<1>1. W.queue \in [Target -> Seq(Task)] /\ W.timeouts \in Seq(TimeoutTask) /\ W.sleepers \in Seq(Sleeper)
  BY Fields
<1>2. x \in Seq(Sleeper) /\ y \in Seq(TimeoutTask)
  BY <1>1, WithoutIs DEF NotOf
<1>3. \A g \in Target : Without(W.queue[g], {t}) \in Seq(Task) /\ <<>> \in Seq(Task)
  BY <1>1, WithoutIs
<1>4. DOMAIN W = {"queue", "len", "free", "timeouts", "sleepers", "exited", "state", "target", "result"}
  BY Fields
<1>5. ASSUME NEW q \in [Target -> Seq(Task)], NEW V, V = [W EXCEPT !.queue = q, !.sleepers = x, !.timeouts = y]
      PROVE  /\ V \in WaitQueuesType /\ V.queue = q /\ V.sleepers = x /\ V.timeouts = y /\ V.free = W.free
             /\ V.state = W.state /\ V.target = W.target /\ V.result = W.result /\ V.exited = W.exited
  <2> HIDE DEF x, y
  <2>1. V = [queue |-> q, len |-> W.len, free |-> W.free, timeouts |-> y, sleepers |-> x,
             exited |-> W.exited, state |-> W.state, target |-> W.target, result |-> W.result]
    BY <1>4, <1>5
  <2>2. V \in WaitQueuesType
    BY <1>2, <2>1, Fields DEF WaitQueuesType
  <2> QED BY <2>1, <2>2
<1>6. Detached(detach_task_from_run_queues(W, t), W, t, ExitsOf(t))
  <2> DEFINE q == [g \in Target |-> IF g \in {TaskExit(t), ChildExit(t)} THEN <<>> ELSE take_task_id_by_id(W.queue[g], t)]
             V == detach_task_from_run_queues(W, t)
  <2>1. V = [W EXCEPT !.queue = q, !.sleepers = x, !.timeouts = y]
    BY DEF detach_task_from_run_queues
  <2>2. \A g \in Target : q[g] = IF g \in ExitsOf(t) THEN <<>> ELSE Without(W.queue[g], {t})
    BY DEF ExitsOf, take_task_id_by_id
  <2>3. q \in [Target -> Seq(Task)]
    <3>1. \A g \in Target : q[g] \in Seq(Task)
      <4> HIDE DEF q
      <4> QED BY <1>3, <2>2
    <3> QED BY <3>1
  <2> HIDE DEF q, V, x, y
  <2>5. /\ V \in WaitQueuesType /\ V.queue = q /\ V.sleepers = x /\ V.timeouts = y /\ V.free = W.free
        /\ V.state = W.state /\ V.target = W.target /\ V.result = W.result /\ V.exited = W.exited
    BY <1>5, <2>1, <2>3
  <2>4. Detached(V, W, t, ExitsOf(t))
    BY <2>2, <2>5 DEF Detached, x, y
  <2> QED BY <2>4 DEF V
<1>7. Detached(remove_task_from_any_queue(W, t), W, t, {})
  <2> DEFINE q == [g \in Target |-> take_task_id_by_id(W.queue[g], t)]
             V == remove_task_from_any_queue(W, t)
  <2>1. V = [W EXCEPT !.queue = q, !.sleepers = x, !.timeouts = y]
    BY DEF remove_task_from_any_queue
  <2>2. \A g \in Target : q[g] = Without(W.queue[g], {t})
    BY DEF take_task_id_by_id
  <2>3. q \in [Target -> Seq(Task)]
    <3>1. \A g \in Target : q[g] \in Seq(Task)
      <4> HIDE DEF q
      <4> QED BY <1>3, <2>2
    <3> QED BY <3>1
  <2> HIDE DEF q, V, x, y
  <2>4. Detached(V, W, t, {})
    BY <1>5, <2>1, <2>2, <2>3 DEF Detached, x, y
  <2> QED BY <2>4 DEF V
<1> QED BY <1>6, <1>7

\* The end of a task, of which X are at most the one that ends.
LEMMA Ends ==
  ASSUME NEW W, NEW D, NEW t \in Task, NEW X \in SUBSET {t}, Good(W, D, X), W.state[t] \notin {"exited", "reaped"}
  PROVE  Good(mark_exited(detach_task_from_run_queues(W, t), t), D, {})
<1> DEFINE B == detach_task_from_run_queues(W, t)  V == mark_exited(B, t)
           ex == Append(B.exited, t)  st == [B.state EXCEPT ![t] = "exited"]  tg == [B.target EXCEPT ![t] = NoTarget]
<1>1. W \in WaitQueuesType /\ ExitedSound(W) /\ X \subseteq Task
  BY DEF Good
<1>2. Detached(B, W, t, ExitsOf(t))
  BY <1>1, DetachedIs
<1>3. V = [B EXCEPT !.exited = ex, !.state = st, !.target = tg]
  BY DEF mark_exited
<1> HIDE DEF B
<1>4. B \in WaitQueuesType
  BY <1>2 DEF Detached
<1>5. B.state \in [Task -> TaskStates] /\ B.target \in [Task -> Target \cup {NoTarget}] /\ B.exited \in Seq(Task)
      /\ W.exited \in Seq(Task)
  BY <1>1, <1>4, Fields
<1>6. ex \in Seq(Task) /\ st \in [Task -> TaskStates] /\ tg \in [Task -> Target \cup {NoTarget}]
  BY <1>5 DEF TaskStates
<1>7. DOMAIN B = {"queue", "len", "free", "timeouts", "sleepers", "exited", "state", "target", "result"}
  BY <1>4, Fields
<1>8. st[t] = "exited" /\ \A u \in Task \ {t} : st[u] = W.state[u] /\ tg[u] = W.target[u]
  BY <1>2, <1>5 DEF Detached
<1>9. ex = Append(W.exited, t)
  BY <1>2 DEF Detached
<1> HIDE DEF V, ex, st, tg
<1>10. V = [queue |-> B.queue, len |-> B.len, free |-> B.free, timeouts |-> B.timeouts, sleepers |-> B.sleepers,
            exited |-> ex, state |-> st, target |-> tg, result |-> B.result]
  BY <1>3, <1>7
<1>11. V \in WaitQueuesType
  BY <1>4, <1>6, <1>10, Fields DEF WaitQueuesType
<1>12. /\ V.queue = B.queue /\ V.free = B.free /\ V.timeouts = B.timeouts /\ V.sleepers = B.sleepers
       /\ V.exited = ex /\ V.state = st /\ V.target = tg /\ V.result = B.result
  BY <1>10
<1>13. ExitedSound(V)
  <2>1. t \notin ToSet(W.exited) /\ IsInjective(W.exited)
    BY <1>1 DEF ExitedSound
  <2>2. IsInjective(ex) /\ ToSet(ex) = ToSet(W.exited) \cup {t}
    BY <1>5, <1>9, <2>1, Appended
  <2>3. \A u \in Task : W.state[u] = "exited" <=> u \in ToSet(W.exited)
    BY <1>1 DEF ExitedSound
  <2> QED BY <1>8, <1>12, <2>2, <2>3 DEF ExitedSound
<1>14. \A g : Gone(W, X, g) => Gone(V, {}, g)
  <2>1. \A u \in Task : (W.state[u] \in {"exited", "reaped"} \/ u \in X) => V.state[u] \in {"exited", "reaped"}
    BY <1>8, <1>12
  <2> QED BY <2>1 DEF Gone
<1>15. \A g \in ExitsOf(t) : Gone(V, {}, g)
  BY <1>8, <1>12 DEF Gone
<1>16. ExitsOf(t) \in SUBSET Target
  BY Kinds DEF ExitsOf
<1>17. LeftBy(V, W, X, {}, t, ExitsOf(t))
  BY <1>2, <1>8, <1>11, <1>12, <1>13, <1>14, <1>15 DEF Detached, LeftBy
<1>18. Good(V, D, {})
  BY <1>16, <1>17, Leave
<1> QED BY <1>18 DEF V, B

\* A task that ends counts as gone before it is.
LEMMA GoneSoon == ASSUME NEW W, NEW D, NEW t \in Task, Good(W, D, {}) PROVE Good(W, D, {t})
<1>1. \A g : Gone(W, {}, g) => Gone(W, {t}, g)
  BY DEF Gone
<1>2. QueuesSound(W, {t})
  BY <1>1 DEF Good, QueuesSound
<1>3. TimeoutsSound(W, {t})
  BY <1>1, GoneMore DEF Good, TimeoutsSound
<1> QED BY <1>2, <1>3 DEF Good

\* The ids that are free, and how many were ever in use, may change.
LEMMA SameWaits ==
  ASSUME NEW W, NEW D, NEW X, Good(W, D, X), NEW V \in WaitQueuesType,
         V.queue = W.queue, V.timeouts = W.timeouts, V.sleepers = W.sleepers, V.exited = W.exited,
         V.state = W.state, V.target = W.target, V.result = W.result,
         \A q \in V.free : V.queue[WaitQueue(q)] = <<>>
  PROVE  Good(V, D, X)
<1>1. \A g : Gone(V, X, g) <=> Gone(W, X, g)
  BY DEF Gone
<1>2. QueuesSound(V, X)
  BY <1>1 DEF Good, QueuesSound
<1>3. TimeoutsSound(V, X)
  BY <1>1, GoneMore DEF Good, TimeoutsSound
<1>4. SleepersSound(V) /\ ExitedSound(V)
  BY DEF Good, SleepersSound, ExitedSound
<1>5. Armed(V, D) /\ ResultsSound(V, D)
  BY DEF Good, Armed, ResultsSound, Waiting
<1> QED BY <1>2, <1>3, <1>4, <1>5 DEF Good

\* The wait was over before it began.
LEMMA WaitedAlready ==
  ASSUME NEW W, NEW D, Good(W, D, {}), NEW t \in Task, W.state[t] = "active", NEW e \in Nat \cup {NoTimeout}
  PROVE  Good([W EXCEPT !.result[t] = "woken"], [D EXCEPT ![t] = e], {})
<1> DEFINE rs == [W.result EXCEPT ![t] = "woken"]  V == [W EXCEPT !.result[t] = "woken"]  C == [D EXCEPT ![t] = e]
<1>1. W \in WaitQueuesType /\ D \in [Task -> Nat \cup {NoTimeout}]
  BY DEF Good
<1>2. rs \in [Task -> Results] /\ rs[t] = "woken" /\ \A u \in Task : u # t => rs[u] = W.result[u]
  BY <1>1, Fields DEF Results
<1>3. V = [W EXCEPT !.result = rs]
  OBVIOUS
<1>4. C \in [Task -> Nat \cup {NoTimeout}] /\ \A u \in Task : u # t => C[u] = D[u]
  BY <1>1
<1>5. DOMAIN W = {"queue", "len", "free", "timeouts", "sleepers", "exited", "state", "target", "result"}
  BY <1>1, Fields
<1> HIDE DEF V, rs, C
<1>6. V = [queue |-> W.queue, len |-> W.len, free |-> W.free, timeouts |-> W.timeouts, sleepers |-> W.sleepers,
           exited |-> W.exited, state |-> W.state, target |-> W.target, result |-> rs]
  BY <1>3, <1>5
<1>7. V \in WaitQueuesType
  BY <1>1, <1>2, <1>6, Fields DEF WaitQueuesType
<1>8. /\ V.queue = W.queue /\ V.free = W.free /\ V.timeouts = W.timeouts /\ V.sleepers = W.sleepers
      /\ V.exited = W.exited /\ V.state = W.state /\ V.target = W.target /\ V.result = rs
  BY <1>6
<1>9. \A g : Gone(V, {}, g) <=> Gone(W, {}, g)
  BY <1>8 DEF Gone
<1>10. QueuesSound(V, {})
  BY <1>8, <1>9 DEF Good, QueuesSound
<1>11. TimeoutsSound(V, {})
  BY <1>8, <1>9, GoneMore DEF Good, TimeoutsSound
<1>12. SleepersSound(V) /\ ExitedSound(V)
  BY <1>8 DEF Good, SleepersSound, ExitedSound
<1>13. Armed(V, C)
  <2>1. \A u \in Task : V.state[u] = "blocked" => u # t
    BY <1>8
  <2> QED BY <1>4, <1>8, <2>1 DEF Good, Armed
<1>14. ResultsSound(V, C)
  <2>1. \A u \in Task : Waiting(V, u) => u # t /\ Waiting(W, u)
    BY <1>8 DEF Waiting
  <2>2. \A u \in Task : Waiting(W, u) => W.result[u] = "none"
    BY DEF Good, ResultsSound
  <2>3. \A u \in Task : W.result[u] = "timed_out" /\ D[u] # NoTimeout => D[u] = 0
    BY DEF Good, ResultsSound
  <2>4. \A u \in Task : V.result[u] = "timed_out" => u # t /\ W.result[u] = "timed_out"
    BY <1>2, <1>8
  <2> QED BY <1>2, <1>4, <1>8, <2>1, <2>2, <2>3, <2>4 DEF ResultsSound
<1> QED BY <1>4, <1>7, <1>10, <1>11, <1>12, <1>13, <1>14 DEF Good, V, C

-----------------------------------------------------------------------------
(***************************************************************************)
(* Each action keeps the invariant; those on queues also the exits.        *)
(***************************************************************************)
\* No task comes back from its exit.
Ended(W, t) == W.state[t] \in {"exited", "reaped"}
EndsLast(W, V) == \A t \in Task : Ended(W, t) => Ended(V, t)

LEMMA Entry == ASSUME WaitInv PROVE Entered = {wq} /\ Good(wq, deadline, {}) /\ wq \in WaitQueuesType
BY EnteredSame DEF WaitInv, Good

\* A wait, of which the deadline e is kept.
LEMMA WaitKeeps ==
  ASSUME WaitInv, NEW t \in Task, NEW g \in Target, NEW d \in Timeout \cup {NoTimeout}, schedule_wait(t, g, d),
         g \in Queues \cup {TaskExit(x) : x \in Task} \/ d = NoTimeout,
         \A q \in wq.free : WaitQueue(q) # g,
         NEW e, e = NoTimeout \/ (e = d /\ g \in Queues), deadline' = [deadline EXCEPT ![t] = e]
  PROVE  WaitInv'
<1>1. Entered = {wq} /\ Good(wq, deadline, {}) /\ wq.state[t] = "active"
  BY Entry DEF schedule_wait
<1>2. wq' = IF wait_target_ready(wq, g) THEN [wq EXCEPT !.result[t] = "woken"] ELSE block(wq, t, g, d)
  BY <1>1 DEF schedule_wait
<1>3. e \in Nat \cup {NoTimeout}
  BY TimeAssumption DEF TimeAssumption
<1>4. CASE wait_target_ready(wq, g)
  <2>1. Good([wq EXCEPT !.result[t] = "woken"], [deadline EXCEPT ![t] = e], {})
    BY <1>1, <1>3, WaitedAlready
  <2> QED BY <1>2, <1>4, <2>1 DEF WaitInv
<1>5. CASE ~ wait_target_ready(wq, g)
  <2>1. Good(block(wq, t, g, d), [deadline EXCEPT ![t] = e], {})
    BY <1>1, Blocked
  <2> QED BY <1>2, <1>5, <2>1 DEF WaitInv
<1> QED BY <1>4, <1>5

LEMMA FreeIds == ASSUME WaitInv, NEW q \in wq.free PROVE WaitQueue(q) \in Queues
BY Fields DEF WaitInv, Good, Queues

LEMMA WaitOnQueueKeeps ==
  ASSUME WaitInv, NEW t \in Task, NEW q \in QueueId, NEW d \in Timeout \cup {NoTimeout}, WaitOnQueue(t, q, d)
  PROVE  WaitInv'
<1>1. WaitQueue(q) \in Target /\ WaitQueue(q) \in Queues
  BY Kinds DEF Queues
<1>2. \A p \in wq.free : WaitQueue(p) # WaitQueue(q)
  BY Kinds DEF WaitOnQueue, Allocated
<1>3. schedule_wait(t, WaitQueue(q), d) /\ deadline' = [deadline EXCEPT ![t] = d]
  BY DEF WaitOnQueue
<1> QED BY <1>1, <1>2, <1>3, WaitKeeps

LEMMA WaitForExitKeeps ==
  ASSUME WaitInv, NEW t \in Task, NEW x \in Task, NEW d \in Timeout \cup {NoTimeout}, WaitForExit(t, x, d)
  PROVE  WaitInv'
<1>1. TaskExit(x) \in Target /\ \A p \in wq.free : WaitQueue(p) # TaskExit(x)
  BY Kinds, FreeIds
<1>2. schedule_wait(t, TaskExit(x), d) /\ deadline' = [deadline EXCEPT ![t] = NoTimeout]
  BY DEF WaitForExit
<1> QED BY <1>1, <1>2, WaitKeeps

LEMMA WaitForChildKeeps == ASSUME WaitInv, NEW t \in Task, WaitForChild(t) PROVE WaitInv'
<1>1. Leader[t] \in Task
  BY TaskAssumption DEF TaskAssumption
<1>2. ChildExit(Leader[t]) \in Target /\ \A p \in wq.free : WaitQueue(p) # ChildExit(Leader[t])
  BY <1>1, Kinds, FreeIds
<1>3. schedule_wait(t, ChildExit(Leader[t]), NoTimeout) /\ deadline' = [deadline EXCEPT ![t] = NoTimeout]
  BY DEF WaitForChild
<1> QED BY <1>2, <1>3, WaitKeeps

LEMMA BlockManualKeeps == ASSUME WaitInv, NEW t \in Task, BlockManual(t) PROVE WaitInv'
<1>1. Entered = {wq} /\ Good(wq, deadline, {}) /\ wq.state[t] = "active"
  BY Entry DEF BlockManual
<1>2. wq' = block(wq, t, Manual, NoTimeout) /\ deadline' = [deadline EXCEPT ![t] = NoTimeout]
  BY <1>1 DEF BlockManual
<1>3. Manual \in Target /\ \A p \in wq.free : WaitQueue(p) # Manual
  BY Kinds, FreeIds
<1>4. Good(block(wq, t, Manual, NoTimeout), [deadline EXCEPT ![t] = NoTimeout], {})
  BY <1>1, <1>3, Blocked
<1> QED BY <1>2, <1>4 DEF WaitInv

LEMMA SleepKeeps == ASSUME WaitInv, NEW t \in Task, NEW d \in Timeout, Sleep(t, d) PROVE WaitInv'
<1>1. Entered = {wq} /\ Good(wq, deadline, {}) /\ wq \in WaitQueuesType /\ wq.state[t] = "active"
  BY Entry DEF Sleep
<1>2. /\ wq' = [wq EXCEPT !.state[t] = "sleeping", !.result[t] = "none",
                          !.sleepers = insert_by_wake(@, [task |-> t, left |-> d])]
      /\ deadline' = [deadline EXCEPT ![t] = NoTimeout]
  BY <1>1 DEF Sleep
<1>3. Ordered(wq.sleepers)
  BY <1>1 DEF Good, SleepersSound
<1>4. SleepResult(wq', wq, t, d)
  BY <1>1, <1>2, <1>3, SleepIs
<1>5. Good(wq', [deadline EXCEPT ![t] = NoTimeout], {})
  BY <1>1, <1>4, Slept
<1> QED BY <1>2, <1>5 DEF WaitInv

LEMMA WakeTaskKeeps ==
  ASSUME WaitInv, NEW t \in Task, NEW r \in {"woken", "interrupted"}, WakeTask(t, r)
  PROVE  WaitInv'
<1> DEFINE B == remove_task_from_any_queue(wq, t)
           found == \/ \E g \in Target : Contains(wq.queue[g], t)
                    \/ \E e \in ToSet(wq.sleepers) : e.task = t
           wakes == found /\ Waiting(wq, t)
           V == IF wakes THEN activate(B, {t}, r) ELSE B
<1>1. Good(wq, deadline, {}) /\ wq \in WaitQueuesType
  BY Entry
<1>2. wq' = V /\ deadline' = deadline
  BY DEF WakeTask
<1>3. Detached(B, wq, t, {})
  BY <1>1, DetachedIs
<1> HIDE DEF B
<1>4. B \in WaitQueuesType
  BY <1>3 DEF Detached
<1>5. r \in Results
  BY DEF Results
<1>6. /\ V \in WaitQueuesType /\ V.queue = B.queue /\ V.free = B.free /\ V.timeouts = B.timeouts
      /\ V.sleepers = B.sleepers /\ V.exited = B.exited
      /\ \A u \in Task \ {t} : V.state[u] = B.state[u] /\ V.target[u] = B.target[u] /\ V.result[u] = B.result[u]
      /\ IF wakes THEN V.state[t] = "active" /\ V.result[t] = r
         ELSE V.state[t] = B.state[t] /\ V.target[t] = B.target[t] /\ V.result[t] = B.result[t]
  <2>1. CASE wakes
    <3>1. V = activate(B, {t}, r)
      BY <2>1
    <3> HIDE DEF V, wakes
    <3> QED BY <1>4, <1>5, <2>1, <3>1, ActivateIs
  <2>2. CASE ~ wakes
    <3>1. V = B
      BY <2>2
    <3> HIDE DEF V, wakes
    <3> QED BY <1>4, <2>2, <3>1
  <2> QED BY <2>1, <2>2
<1> HIDE DEF V
<1>7. QueuesSound(wq, {}) /\ SleepersSound(wq) /\ ExitedSound(wq) /\ wq.queue \in [Target -> Seq(Task)]
  BY <1>1, Fields DEF Good
<1>8. wq.state[t] = "sleeping" => wakes
  BY <1>7 DEF SleepersSound, Waiting
<1>9. ASSUME wq.state[t] = "blocked", ~ wakes PROVE Gone(wq, {}, wq.target[t])
  <2>1. wq.target[t] \in Target /\ (t \in ToSet(wq.queue[wq.target[t]]) \/ Gone(wq, {}, wq.target[t]))
    BY <1>7, <1>9 DEF QueuesSound
  <2>2. ASSUME t \in ToSet(wq.queue[wq.target[t]]) PROVE FALSE
    <3>1. Contains(wq.queue[wq.target[t]], t)
      BY <1>7, <2>1, <2>2, ContainsIn
    <3> QED BY <1>9, <2>1, <3>1 DEF Waiting
  <2> QED BY <2>1, <2>2
<1>10. \A u \in Task : V.state[u] \in {"exited", "reaped"} <=> wq.state[u] \in {"exited", "reaped"}
  BY <1>3, <1>6 DEF Detached, Waiting
<1>11. ExitedSound(V)
  <2>1. \A u \in Task : V.state[u] = "exited" <=> wq.state[u] = "exited"
    BY <1>3, <1>6 DEF Detached, Waiting
  <2> QED BY <1>3, <1>6, <1>7, <2>1 DEF Detached, ExitedSound
<1>12. LeftBy(V, wq, {}, {}, t, {})
  <2>1. \A g : Gone(wq, {}, g) => Gone(V, {}, g)
    BY <1>10 DEF Gone
  <2> HIDE DEF wakes
  <2>2. V.state[t] # "sleeping"
    BY <1>3, <1>6, <1>8 DEF Detached
  <2>3. V.state[t] = "blocked" => /\ wq.state[t] = "blocked" /\ V.target[t] = wq.target[t]
                                  /\ Gone(wq, {}, wq.target[t]) /\ V.result[t] = wq.result[t]
    BY <1>3, <1>6, <1>9 DEF Detached
  <2>4. V.result[t] \in {wq.result[t], "woken", "interrupted"}
    BY <1>3, <1>6 DEF Detached
  <2> QED BY <1>3, <1>6, <1>11, <2>1, <2>2, <2>3, <2>4 DEF Detached, LeftBy
<1>13. Good(V, deadline, {})
  BY <1>1, <1>12, Leave
<1> QED BY <1>2, <1>13 DEF WaitInv

LEMMA WakeOneKeeps == ASSUME WaitInv, NEW q \in QueueId, WakeOne(q) PROVE WaitInv' /\ EndsLast(wq, wq')
<1> DEFINE Q == wq.queue[WaitQueue(q)]
           I == {i \in 1 .. Len(Q) : wq.state[Q[i]] = "blocked" /\ wq.target[Q[i]] = WaitQueue(q)}
           first == IF I # {} THEN Min(I) ELSE 0
           n == IF first = 0 THEN Len(Q) ELSE first
<1>1. Good(wq, deadline, {}) /\ wq \in WaitQueuesType
  BY Entry
<1>2. wq' = wake_n(wq, q, n) /\ deadline' = deadline
  BY DEF WakeOne, SelectInSeq
<1>3. n \in 0 .. Len(Q)
  <2>1. Len(Q) \in Nat
    <3>1. WaitQueue(q) \in Target
      BY Kinds DEF Queues
    <3>2. Q \in Seq(Task)
      BY <1>1, <3>1, Fields
    <3> QED BY <3>2
  <2>2. CASE I = {}
    BY <2>1, <2>2
  <2>3. CASE I # {}
    <3>1. I \in SUBSET Nat
      BY <2>1
    <3>2. I \subseteq 1 .. Len(Q)
      OBVIOUS
    <3> HIDE DEF I, Q
    <3>3. Min(I) \in I
      BY <2>3, <3>1, Least
    <3>4. first \in 1 .. Len(Q)
      BY <2>3, <3>2, <3>3
    <3> HIDE DEF first
    <3>5. first # 0 /\ first \in 0 .. Len(Q)
      BY <2>1, <3>4
    <3> QED BY <3>5
  <2> QED BY <2>2, <2>3
<1> HIDE DEF n
<1>4. Good(wake_n(wq, q, n), deadline, {}) /\ WakeResult(wake_n(wq, q, n), wq, WaitQueue(q), n)
  BY <1>1, <1>3, WakeN
<1>5. EndsLast(wq, wq')
  BY <1>2, <1>4 DEF WakeResult, EndsLast, Ended
<1> QED BY <1>2, <1>4, <1>5 DEF WaitInv

LEMMA WakeAllKeeps == ASSUME WaitInv, NEW q \in QueueId, WakeAll(q) PROVE WaitInv' /\ EndsLast(wq, wq')
<1> DEFINE n == Len(wq.queue[WaitQueue(q)])
<1>1. Good(wq, deadline, {}) /\ wq \in WaitQueuesType
  BY Entry
<1>2. wq' = wake_n(wq, q, n) /\ deadline' = deadline
  BY DEF WakeAll
<1>3. n \in 0 .. Len(wq.queue[WaitQueue(q)])
  <2>1. WaitQueue(q) \in Target
    BY Kinds DEF Queues
  <2>2. wq.queue[WaitQueue(q)] \in Seq(Task)
    BY <1>1, <2>1, Fields
  <2> QED BY <2>2
<1> HIDE DEF n
<1>4. Good(wake_n(wq, q, n), deadline, {}) /\ WakeResult(wake_n(wq, q, n), wq, WaitQueue(q), n)
  BY <1>1, <1>3, WakeN
<1>5. EndsLast(wq, wq')
  BY <1>2, <1>4 DEF WakeResult, EndsLast, Ended
<1> QED BY <1>2, <1>4, <1>5 DEF WaitInv

LEMMA RequeueKeeps ==
  ASSUME WaitInv, NEW p \in QueueId, NEW q \in QueueId, NEW wake \in 0 .. 1, NEW move \in 0 .. 1,
         Requeue(p, q, wake, move)
  PROVE  WaitInv' /\ EndsLast(wq, wq')
<1> DEFINE g == WaitQueue(p)  h == WaitQueue(q)  k == Len(wq.queue[g])
           n == IF wake > k THEN k ELSE wake
           m == IF move > k - n THEN k - n ELSE move
           W == wake_n(wq, p, n)
<1>1. Good(wq, deadline, {}) /\ wq \in WaitQueuesType
  BY Entry
<1>2. wq' = (IF p = q THEN W ELSE move_tasks_between_queues(W, p, q, m)) /\ deadline' = deadline
  BY DEF Requeue
<1>3. g \in Target /\ h \in Target /\ g \in Queues /\ h \in Queues
  BY Kinds DEF Queues
<1>4. wq.queue[g] \in Seq(Task) /\ k \in Nat
  <2>1. wq.queue[g] \in Seq(Task)
    BY <1>1, <1>3, Fields
  <2> HIDE DEF g
  <2> QED BY <2>1
<1>5. n \in 0 .. k /\ m \in 0 .. k - n
  <2> HIDE DEF k
  <2> QED BY <1>4
<1> HIDE DEF m, n, W
<1>6. Good(W, deadline, {}) /\ WakeResult(W, wq, g, n)
  BY <1>1, <1>5, WakeN DEF W
<1>9. EndsLast(wq, W)
  BY <1>6 DEF WakeResult, EndsLast, Ended
<1>7. CASE p = q
  BY <1>2, <1>6, <1>7, <1>9 DEF WaitInv
<1>8. CASE p # q
  <2>1. W \in WaitQueuesType /\ W.queue[g] = WithoutFirstN(wq.queue[g], n) /\ W.free = wq.free
    BY <1>6 DEF WakeResult
  <2>2. Len(W.queue[g]) = k - n
    <3> DEFINE s == wq.queue[g]
    <3>1. s \in Seq(Task) /\ n \in 0 .. Len(s)
      BY <1>4, <1>5
    <3> HIDE DEF s
    <3>2. Len(SubSeq(s, n + 1, Len(s))) = Len(s) - n
      BY <3>1
    <3> QED BY <2>1, <3>2 DEF s, WithoutFirstN
  <2>3. m \in 0 .. Len(W.queue[g])
    BY <1>5, <2>2
  <2>4. \A t \in ToSet(W.queue[g]) : W.target[t] = g
    BY <1>3, <1>6 DEF Good, QueuesSound
  <2>5. MoveResult(move_tasks_between_queues(W, p, q, m), W, g, h, FirstN(W.queue[g], m), WithoutFirstN(W.queue[g], m))
    BY <1>8, <2>1, <2>3, <2>4, MoveIs
  <2>6. g # h
    BY <1>8, Kinds
  <2>7. \A x \in W.free : WaitQueue(x) # h
    BY <2>1, Kinds DEF Requeue, Allocated
  <2> DEFINE V == move_tasks_between_queues(W, p, q, m)
  <2> HIDE DEF V, g, h
  <2>8. MoveResult(V, W, g, h, FirstN(W.queue[g], m), WithoutFirstN(W.queue[g], m))
    BY <2>5 DEF V
  <2>9. Good(V, deadline, {})
    BY <1>3, <1>6, <2>3, <2>6, <2>7, <2>8, Moved
  <2>10. EndsLast(wq, V)
    BY <1>9, <2>8 DEF MoveResult, EndsLast, Ended
  <2> QED BY <1>2, <1>8, <2>9, <2>10 DEF WaitInv, V
<1> QED BY <1>7, <1>8

LEMMA WakeChildExitKeeps == ASSUME WaitInv, NEW t \in Task, WakeChildExit(t) PROVE WaitInv'
<1>1. Good(wq, deadline, {}) /\ wq' = wake_all_waiters(wq, ChildExit(t)) /\ deadline' = deadline
  BY Entry DEF WakeChildExit
<1>2. ChildExit(t) \in Target /\ ChildExit(t) \notin Queues \cup {TaskExit(x) : x \in Task}
  BY Kinds
<1>3. Good(wake_all_waiters(wq, ChildExit(t)), deadline, {})
  BY <1>1, <1>2, WakeAllWaiters
<1> QED BY <1>1, <1>3 DEF WaitInv

LEMMA ExitKeeps == ASSUME WaitInv, NEW t \in Task, Exit(t) PROVE WaitInv'
<1> DEFINE E == wake_all_waiters(wq, TaskExit(t))
           C == IF Parent[t] = NoTask THEN E ELSE wake_all_waiters(E, ChildExit(Parent[t]))
<1>1. Entered = {wq} /\ Good(wq, deadline, {t}) /\ wq.state[t] = "active"
  BY Entry, GoneSoon DEF Exit
<1>2. wq' = mark_exited(detach_task_from_run_queues(C, t), t) /\ deadline' = deadline
  BY <1>1 DEF Exit
<1>3. TaskExit(t) \in Target /\ Gone(wq, {t}, TaskExit(t))
  BY Kinds DEF Gone, ExitsOf
<1>4. Good(E, deadline, {t}) /\ E.state[t] = "active"
  BY <1>1, <1>3, WakeAllWaiters
<1> HIDE DEF E
<1>5. Good(C, deadline, {t}) /\ C.state[t] = "active"
  <2>1. CASE Parent[t] = NoTask
    BY <1>4, <2>1
  <2>2. CASE Parent[t] # NoTask
    <3>1. Parent[t] \in Task
      BY <2>2, TaskAssumption DEF TaskAssumption
    <3>2. ChildExit(Parent[t]) \in Target /\ ChildExit(Parent[t]) \notin Queues \cup {TaskExit(x) : x \in Task}
      BY <3>1, Kinds
    <3>3. Good(wake_all_waiters(E, ChildExit(Parent[t])), deadline, {t})
          /\ wake_all_waiters(E, ChildExit(Parent[t])).state[t] = "active"
      BY <1>4, <3>2, WakeAllWaiters
    <3> QED BY <2>2, <3>3
  <2> QED BY <2>1, <2>2
<1> HIDE DEF C
<1>6. Good(mark_exited(detach_task_from_run_queues(C, t), t), deadline, {})
  BY <1>5, Ends
<1> QED BY <1>2, <1>6 DEF WaitInv

LEMMA KillKeeps == ASSUME WaitInv, NEW t \in Task, Kill(t) PROVE WaitInv'
<1>1. Good(wq, deadline, {}) /\ wq.state[t] \notin {"exited", "reaped"}
  BY Entry DEF Kill
<1>2. Good(mark_exited(detach_task_from_run_queues(wq, t), t), deadline, {})
  BY <1>1, Ends
<1> QED BY <1>2 DEF Kill, WaitInv

LEMMA ReapKeeps == ASSUME WaitInv, NEW t \in Task, Reap(t) PROVE WaitInv'
<1> DEFINE B == detach_task_from_run_queues(wq, t)  V == wq'
           ex == take_task_id_by_id(B.exited, t)  st == [B.state EXCEPT ![t] = "reaped"]
<1>1. Good(wq, deadline, {}) /\ wq \in WaitQueuesType
  BY Entry
<1>2. Contains(wq.exited, t) /\ wq' = [B EXCEPT !.exited = ex, !.state = st] /\ deadline' = deadline
  BY DEF Reap
<1>3. Detached(B, wq, t, ExitsOf(t))
  BY <1>1, DetachedIs
<1> HIDE DEF B, V
<1>4. B \in WaitQueuesType
  BY <1>3 DEF Detached
<1>5. B.state \in [Task -> TaskStates] /\ B.exited = wq.exited /\ wq.exited \in Seq(Task)
  BY <1>1, <1>3, <1>4, Fields DEF Detached
<1>6. st \in [Task -> TaskStates] /\ st[t] = "reaped" /\ \A u \in Task \ {t} : st[u] = wq.state[u]
  BY <1>3, <1>5 DEF TaskStates, Detached
<1>7. ex \in Seq(Task) /\ ToSet(ex) = ToSet(wq.exited) \ {t} /\ (IsInjective(wq.exited) => IsInjective(ex))
  <2>1. ex = Without(wq.exited, {t})
    BY <1>5 DEF take_task_id_by_id
  <2> HIDE DEF ex
  <2> DEFINE w == wq.exited
  <2>2. w \in Seq(Task) /\ ex = Without(w, {t})
    BY <1>5, <2>1
  <2> HIDE DEF w
  <2>3. ex \in Seq(Task) /\ Thinned(ex, w) /\ ToSet(ex) = ToSet(w) \ {t}
    BY <2>2, WithoutIs
  <2> QED BY <2>2, <2>3, ThinnedKeeps DEF w
<1>8. DOMAIN B = {"queue", "len", "free", "timeouts", "sleepers", "exited", "state", "target", "result"}
  BY <1>4, Fields
<1>9. V = [B EXCEPT !.exited = ex, !.state = st]
  BY <1>2 DEF V
<1> HIDE DEF ex, st
<1>10. V = [queue |-> B.queue, len |-> B.len, free |-> B.free, timeouts |-> B.timeouts, sleepers |-> B.sleepers,
            exited |-> ex, state |-> st, target |-> B.target, result |-> B.result]
  BY <1>8, <1>9
<1>11. V \in WaitQueuesType
  BY <1>4, <1>6, <1>7, <1>10, Fields DEF WaitQueuesType
<1>12. /\ V.queue = B.queue /\ V.free = B.free /\ V.timeouts = B.timeouts /\ V.sleepers = B.sleepers
       /\ V.exited = ex /\ V.state = st /\ V.target = B.target /\ V.result = B.result
  BY <1>10
<1>13. ExitedSound(V)
  <2>1. ExitedSound(wq)
    BY <1>1 DEF Good
  <2> QED BY <1>6, <1>7, <1>12, <2>1 DEF ExitedSound
<1>14. \A g : Gone(wq, {}, g) => Gone(V, {}, g)
  <2>1. \A u \in Task : wq.state[u] \in {"exited", "reaped"} => V.state[u] \in {"exited", "reaped"}
    BY <1>6, <1>12
  <2> QED BY <2>1 DEF Gone
<1>15. \A g \in ExitsOf(t) : Gone(V, {}, g)
  BY <1>6, <1>12 DEF Gone
<1>16. ExitsOf(t) \in SUBSET Target
  BY Kinds DEF ExitsOf
<1>17. LeftBy(V, wq, {}, {}, t, ExitsOf(t))
  BY <1>3, <1>6, <1>11, <1>12, <1>13, <1>14, <1>15 DEF Detached, LeftBy
<1>18. Good(V, deadline, {})
  BY <1>1, <1>16, <1>17, Leave
<1> QED BY <1>2, <1>18 DEF WaitInv, V

LEMMA AllocateKeeps == ASSUME WaitInv, Allocate PROVE WaitInv'
<1> DEFINE V == wq'
<1>1. Good(wq, deadline, {}) /\ wq \in WaitQueuesType /\ QueuesSound(wq, {}) /\ deadline' = deadline
  BY Entry DEF Good, Allocate
<1>2. DOMAIN wq = {"queue", "len", "free", "timeouts", "sleepers", "exited", "state", "target", "result"}
  BY <1>1, Fields
<1>3. CASE \E q \in wq.free : wq' = [wq EXCEPT !.free = @ \ {q}, !.queue[WaitQueue(q)] = <<>>]
  <2>1. PICK q \in wq.free : wq' = [wq EXCEPT !.free = @ \ {q}, !.queue[WaitQueue(q)] = <<>>]
    BY <1>3
  <2> DEFINE qs == [wq.queue EXCEPT ![WaitQueue(q)] = <<>>]  fr == wq.free \ {q}
  <2>2. V = [wq EXCEPT !.free = fr, !.queue = qs]
    BY <2>1
  <2>3. qs = wq.queue
    <3>1. wq.queue[WaitQueue(q)] = <<>> /\ WaitQueue(q) \in Target /\ wq.queue \in [Target -> Seq(Task)]
      BY <1>1, FreeIds, Kinds, Fields DEF QueuesSound
    <3> QED BY <3>1
  <2> HIDE DEF qs, V, fr
  <2>4. V = [queue |-> wq.queue, len |-> wq.len, free |-> fr, timeouts |-> wq.timeouts, sleepers |-> wq.sleepers,
             exited |-> wq.exited, state |-> wq.state, target |-> wq.target, result |-> wq.result]
    BY <1>2, <2>2, <2>3
  <2>5. fr \subseteq wq.free /\ fr \subseteq QueueId
    BY <1>1, Fields DEF fr
  <2>6. V \in WaitQueuesType
    BY <1>1, <2>4, <2>5, Fields DEF WaitQueuesType
  <2>7. /\ V.queue = wq.queue /\ V.timeouts = wq.timeouts /\ V.sleepers = wq.sleepers /\ V.exited = wq.exited
        /\ V.state = wq.state /\ V.target = wq.target /\ V.result = wq.result /\ V.free = fr
    BY <2>4
  <2>8. \A x \in V.free : V.queue[WaitQueue(x)] = <<>>
    BY <1>1, <2>5, <2>7 DEF QueuesSound
  <2>9. Good(V, deadline, {})
    BY <1>1, <2>6, <2>7, <2>8, SameWaits
  <2> QED BY <1>1, <2>9 DEF WaitInv, V
<1>4. CASE wq' = [wq EXCEPT !.len = @ + 1]
  <2>1. V = [queue |-> wq.queue, len |-> wq.len + 1, free |-> wq.free, timeouts |-> wq.timeouts,
             sleepers |-> wq.sleepers, exited |-> wq.exited, state |-> wq.state, target |-> wq.target,
             result |-> wq.result]
    BY <1>2, <1>4
  <2> HIDE DEF V
  <2>2. wq.len + 1 \in Nat
    BY <1>1, Fields
  <2>3. V \in WaitQueuesType
    BY <1>1, <2>1, <2>2, Fields DEF WaitQueuesType
  <2>4. /\ V.queue = wq.queue /\ V.timeouts = wq.timeouts /\ V.sleepers = wq.sleepers /\ V.exited = wq.exited
        /\ V.state = wq.state /\ V.target = wq.target /\ V.result = wq.result /\ V.free = wq.free
    BY <2>1
  <2>5. \A x \in V.free : V.queue[WaitQueue(x)] = <<>>
    BY <1>1, <2>4 DEF QueuesSound
  <2>6. Good(V, deadline, {})
    BY <1>1, <2>3, <2>4, <2>5, SameWaits
  <2> QED BY <1>1, <2>6 DEF WaitInv, V
<1> QED BY <1>3, <1>4 DEF Allocate

LEMMA TryReleaseKeeps == ASSUME WaitInv, NEW q \in QueueId, TryRelease(q) PROVE WaitInv'
<1> DEFINE V == wq'  g == WaitQueue(q)  fr == wq.free \cup {q}
           R == {e \in ToSet(wq.timeouts) : e.target = g}  ts == Without(wq.timeouts, R)
<1>1. Good(wq, deadline, {}) /\ wq \in WaitQueuesType /\ QueuesSound(wq, {}) /\ TimeoutsSound(wq, {})
  BY Entry DEF Good
<1>2. wq.queue[g] = <<>> /\ wq' = [wq EXCEPT !.free = fr, !.timeouts = ts] /\ deadline' = deadline
  BY DEF TryRelease
<1>3. DOMAIN wq = {"queue", "len", "free", "timeouts", "sleepers", "exited", "state", "target", "result"}
  BY <1>1, Fields
<1>4. R = {}
  <2> SUFFICES ASSUME NEW e \in ToSet(wq.timeouts), e.target = g PROVE FALSE
    OBVIOUS
  <2>1. e.task \in ToSet(wq.queue[e.target]) \/ Gone(wq, {}, e.target)
    BY <1>1 DEF TimeoutsSound
  <2>2. ToSet(<<>>) = {}
    BY DEF ToSet
  <2>3. g \in Queues
    BY DEF Queues
  <2> QED BY <1>2, <2>1, <2>2, <2>3, QueuesStay
<1>5. ts = wq.timeouts
  <2>1. wq.timeouts \in Seq(TimeoutTask) /\ ToSet(wq.timeouts) \cap {} = {}
    BY <1>1, Fields
  <2>2. Without(wq.timeouts, {}) = wq.timeouts
    BY <2>1, WithoutIs
  <2> QED BY <1>4, <2>2
<1>6. V = [wq EXCEPT !.free = fr, !.timeouts = ts]
  BY <1>2
<1> HIDE DEF V, fr, ts
<1>7. V = [queue |-> wq.queue, len |-> wq.len, free |-> fr, timeouts |-> wq.timeouts, sleepers |-> wq.sleepers,
           exited |-> wq.exited, state |-> wq.state, target |-> wq.target, result |-> wq.result]
  BY <1>3, <1>5, <1>6
<1>8. fr \subseteq QueueId
  BY <1>1, Fields DEF fr
<1>9. V \in WaitQueuesType
  BY <1>1, <1>7, <1>8, Fields DEF WaitQueuesType
<1>10. /\ V.queue = wq.queue /\ V.timeouts = wq.timeouts /\ V.sleepers = wq.sleepers /\ V.exited = wq.exited
       /\ V.state = wq.state /\ V.target = wq.target /\ V.result = wq.result /\ V.free = fr
  BY <1>7
<1>11. \A x \in V.free : V.queue[WaitQueue(x)] = <<>>
  BY <1>1, <1>2, <1>10 DEF QueuesSound, fr
<1>12. Good(V, deadline, {})
  BY <1>1, <1>9, <1>10, <1>11, SameWaits
<1> QED BY <1>2, <1>12 DEF WaitInv, V

LEMMA TickKeeps == ASSUME WaitInv, NEW n \in Nat, Tick(n) PROVE WaitInv'
<1> DEFINE V == wq'
           C == [t \in Task |-> IF deadline[t] = NoTimeout \/ ~ Waiting(wq, t) THEN NoTimeout
                                ELSE IF deadline[t] > n THEN deadline[t] - n ELSE 0]
<1>1. Good(wq, deadline, {}) /\ wq \in WaitQueuesType
  BY Entry
<1>2. V \in activate_woken_and_timeout_tasks(advance_ticks(wq, n)) /\ deadline' = C
  BY DEF Tick, left_after
<1>3. Ordered(wq.timeouts)
  BY <1>1 DEF Good, TimeoutsSound
<1> HIDE DEF V, C
<1>4. PICK S, R, U : TickResult(V, wq, n, S, R, U)
  BY <1>1, <1>2, <1>3, TickIs
<1>5. Good(V, C, {})
  BY <1>1, <1>4, Ticked DEF C
<1> QED BY <1>2, <1>5 DEF WaitInv, V

LEMMA StutterKeeps == ASSUME WaitInv, UNCHANGED vars PROVE WaitInv'
<1>1. wq' = wq /\ deadline' = deadline
  BY DEF vars
<1> QED BY <1>1 DEF WaitInv

LEMMA WaitInit == ASSUME Init PROVE WaitInv
<1> DEFINE W == [queue |-> [g \in Target |-> <<>>], len |-> 0, free |-> {},
                 timeouts |-> <<>>, sleepers |-> <<>>, exited |-> <<>>,
                 state |-> [t \in Task |-> "active"], target |-> [t \in Task |-> NoTarget],
                 result |-> [t \in Task |-> "none"]]
<1>1. wq = W /\ deadline = [t \in Task |-> NoTimeout]
  BY DEF Init
<1>2. ToSet(<<>>) = {} /\ IsInjective(<<>>) /\ DOMAIN <<>> = {}
  BY DEF ToSet, IsInjective
<1>3. /\ \A g \in Target : W.queue[g] = <<>>
      /\ W.free = {} /\ W.timeouts = <<>> /\ W.sleepers = <<>> /\ W.exited = <<>>
      /\ \A t \in Task : W.state[t] = "active" /\ W.result[t] = "none"
  OBVIOUS
<1>4. W \in WaitQueuesType
  <2>1. /\ [g \in Target |-> <<>>] \in [Target -> Seq(Task)] /\ 0 \in Nat /\ {} \in SUBSET QueueId
        /\ <<>> \in Seq(TimeoutTask) /\ <<>> \in Seq(Sleeper) /\ <<>> \in Seq(Task)
        /\ [t \in Task |-> NoTarget] \in [Task -> Target \cup {NoTarget}]
    OBVIOUS
  <2>2. [t \in Task |-> "active"] \in [Task -> TaskStates] /\ [t \in Task |-> "none"] \in [Task -> Results]
    BY DEF TaskStates, Results
  <2> QED BY <2>1, <2>2 DEF WaitQueuesType
<1> HIDE DEF W
<1>5. QueuesSound(W, {})
  BY <1>2, <1>3 DEF QueuesSound
<1>6. SleepersSound(W) /\ ExitedSound(W)
  BY <1>2, <1>3 DEF SleepersSound, ExitedSound, OneEach, Ordered, Ahead
<1>7. TimeoutsSound(W, {})
  BY <1>2, <1>3 DEF TimeoutsSound, OneLive, Ordered, Ahead
<1>8. Armed(W, deadline) /\ ResultsSound(W, deadline)
  BY <1>1, <1>3 DEF Armed, ResultsSound
<1>9. deadline \in [Task -> Nat \cup {NoTimeout}]
  BY <1>1
<1> QED BY <1>1, <1>4, <1>5, <1>6, <1>7, <1>8, <1>9 DEF WaitInv, Good

LEMMA TaskKeeps == ASSUME WaitInv, NEW t \in Task, TaskStep(t) PROVE WaitInv'
<1>1. ASSUME NEW d \in Timeout \cup {NoTimeout}, NEW q \in QueueId, WaitOnQueue(t, q, d) PROVE WaitInv'
  BY <1>1, WaitOnQueueKeeps
<1>2. ASSUME NEW d \in Timeout \cup {NoTimeout}, NEW x \in Task, WaitForExit(t, x, d) PROVE WaitInv'
  BY <1>2, WaitForExitKeeps
<1>3. CASE WaitForChild(t)
  BY <1>3, WaitForChildKeeps
<1>4. CASE BlockManual(t)
  BY <1>4, BlockManualKeeps
<1>5. ASSUME NEW d \in Timeout, Sleep(t, d) PROVE WaitInv'
  BY <1>5, SleepKeeps
<1>6. ASSUME NEW r \in {"woken", "interrupted"}, WakeTask(t, r) PROVE WaitInv'
  BY <1>6, WakeTaskKeeps
<1>7. CASE WakeChildExit(t)
  BY <1>7, WakeChildExitKeeps
<1>8. CASE Exit(t)
  BY <1>8, ExitKeeps
<1>9. CASE Kill(t)
  BY <1>9, KillKeeps
<1>10. CASE Reap(t)
  BY <1>10, ReapKeeps
<1> QED BY <1>1, <1>2, <1>3, <1>4, <1>5, <1>6, <1>7, <1>8, <1>9, <1>10 DEF TaskStep

LEMMA QueueKeeps == ASSUME WaitInv, NEW q \in QueueId, QueueStep(q) PROVE WaitInv'
<1>1. CASE WakeOne(q)
  BY <1>1, WakeOneKeeps
<1>2. CASE WakeAll(q)
  BY <1>2, WakeAllKeeps
<1>3. CASE TryRelease(q)
  BY <1>3, TryReleaseKeeps
<1>4. ASSUME NEW p \in QueueId, NEW wake \in 0 .. 1, NEW move \in 0 .. 1, Requeue(q, p, wake, move) PROVE WaitInv'
  BY <1>4, RequeueKeeps
<1> QED BY <1>1, <1>2, <1>3, <1>4 DEF QueueStep

\* Every operation of the wait queues, under the one scheduler lock, keeps the
\* containers, the TCBs and the timeouts in agreement.
LEMMA NextKeeps == ASSUME WaitInv, [Next]_vars PROVE WaitInv'
<1>1. ASSUME NEW t \in Task, TaskStep(t) PROVE WaitInv'
  BY <1>1, TaskKeeps
<1>2. ASSUME NEW q \in QueueId, QueueStep(q) PROVE WaitInv'
  BY <1>2, QueueKeeps
<1>3. CASE Allocate
  BY <1>3, AllocateKeeps
<1>4. CASE TimerTick
  <2>1. PICK n \in 1 .. MaxElapsed : Tick(n)
    BY <1>4 DEF TimerTick
  <2>2. n \in Nat
    BY TimeAssumption DEF TimeAssumption
  <2> QED BY <2>1, <2>2, TickKeeps
<1>5. CASE UNCHANGED vars
  BY <1>5, StutterKeeps
<1> QED BY <1>1, <1>2, <1>3, <1>4, <1>5 DEF Next

\* The inductive invariant of the wait queues: where each task waits, with which
\* record, in what order the records are due, and which of them outlived an exit.
THEOREM WaitInvariance == Spec => []WaitInv
<1>1. Init => WaitInv
  BY WaitInit
<1>2. WaitInv /\ [Next]_vars => WaitInv'
  BY NextKeeps
<1> QED BY <1>1, <1>2, PTL DEF Spec

\* The containers, the TCBs and the deadlines keep their types through every
\* operation of WaitQueues, a record's ticks never below zero.
THEOREM WaitTypeCorrect == Spec => []TypeOK
<1>1. WaitInv => TypeOK
  BY DEF WaitInv, Good, TypeOK
<1> QED BY <1>1, WaitInvariance, PTL

LEMMA PlaceOf == ASSUME WaitInv PROVE OnePlace
<1>1. wq \in WaitQueuesType /\ QueuesSound(wq, {}) /\ SleepersSound(wq) /\ ExitedSound(wq)
  BY DEF WaitInv, Good
<1>2. wq.queue \in [Target -> Seq(Task)] /\ wq.exited \in Seq(Task) /\ wq.sleepers \in Seq(Sleeper)
  BY <1>1, Fields
<1>3. \A g : Gone(wq, {}, g) <=> TargetGone(g)
  BY DEF Gone, TargetGone, ExitsOf
<1>4. \A g \in Target : /\ IsInjective(wq.queue[g])
                        /\ \A t \in ToSet(wq.queue[g]) : wq.state[t] = "blocked" /\ wq.target[t] = g
  BY <1>1 DEF QueuesSound
<1>5. ASSUME NEW t \in Task, wq.state[t] = "blocked"
      PROVE  Contains(wq.queue[wq.target[t]], t) \/ TargetGone(wq.target[t])
  <2>1. wq.target[t] \in Target /\ (t \in ToSet(wq.queue[wq.target[t]]) \/ Gone(wq, {}, wq.target[t]))
    BY <1>1, <1>5 DEF QueuesSound
  <2>2. Contains(wq.queue[wq.target[t]], t) <=> t \in ToSet(wq.queue[wq.target[t]])
    BY <1>2, <2>1, ContainsIn
  <2> QED BY <1>3, <2>1, <2>2
<1>6. IsInjective([i \in DOMAIN wq.sleepers |-> wq.sleepers[i].task])
  <2> DEFINE f == [i \in DOMAIN wq.sleepers |-> wq.sleepers[i].task]
  <2>1. DOMAIN f = DOMAIN wq.sleepers /\ \A i \in DOMAIN wq.sleepers : f[i] = wq.sleepers[i].task
    OBVIOUS
  <2>2. \A i, j \in DOMAIN wq.sleepers : wq.sleepers[i].task = wq.sleepers[j].task => i = j
    BY <1>1 DEF SleepersSound, OneEach
  <2> HIDE DEF f
  <2>3. IsInjective(f)
    BY <2>1, <2>2 DEF IsInjective
  <2> QED BY <2>3 DEF f
<1>7. {e.task : e \in ToSet(wq.sleepers)} = {t \in Task : wq.state[t] = "sleeping"}
  <2>1. \A e \in ToSet(wq.sleepers) : e.task \in Task
    <3>1. ToSet(wq.sleepers) \subseteq Sleeper
      BY <1>2, InSet
    <3> QED BY <3>1, Lefts
  <2>2. \A t \in Task : wq.state[t] = "sleeping" <=> \E e \in ToSet(wq.sleepers) : e.task = t
    BY <1>1 DEF SleepersSound
  <2> QED BY <2>1, <2>2
<1>8. IsInjective(wq.exited) /\ ToSet(wq.exited) = {t \in Task : wq.state[t] = "exited"}
  <2>1. ToSet(wq.exited) \subseteq Task
    BY <1>2, InSet
  <2> QED BY <1>1, <2>1 DEF ExitedSound
<1>9. \A q \in wq.free : wq.queue[WaitQueue(q)] = <<>>
  BY <1>1 DEF QueuesSound
<1> QED BY <1>4, <1>5, <1>6, <1>7, <1>8, <1>9 DEF OnePlace

LEMMA TimersOf == ASSUME WaitInv PROVE TimersArmed
<1>1. /\ wq \in WaitQueuesType /\ QueuesSound(wq, {}) /\ TimeoutsSound(wq, {}) /\ Armed(wq, deadline)
  BY DEF WaitInv, Good
<1>2. wq.queue \in [Target -> Seq(Task)] /\ wq.timeouts \in Seq(TimeoutTask)
  BY <1>1, Fields
<1>3. \A g : Gone(wq, {}, g) <=> TargetGone(g)
  BY DEF Gone, TargetGone, ExitsOf
<1>4. ASSUME NEW t \in Task, wq.state[t] = "blocked", deadline[t] # NoTimeout
      PROVE  \E i \in DOMAIN wq.timeouts :
               /\ wq.timeouts[i] = [task |-> t, target |-> wq.target[t], left |-> deadline[t]]
               /\ \A j \in DOMAIN wq.timeouts :
                    wq.timeouts[j].task = t /\ ~TargetGone(wq.timeouts[j].target) <=> j = i
  <2>1. wq.target[t] \in Queues /\ [task |-> t, target |-> wq.target[t], left |-> deadline[t]] \in ToSet(wq.timeouts)
    BY <1>1, <1>4 DEF Armed
  <2>2. PICK i \in DOMAIN wq.timeouts : wq.timeouts[i] = [task |-> t, target |-> wq.target[t], left |-> deadline[t]]
    BY <2>1 DEF ToSet
  <2>3. wq.timeouts[i].task = t /\ wq.timeouts[i].target = wq.target[t]
    BY <2>2
  <2>4. ~ Gone(wq, {}, wq.target[t])
    BY <2>1, QueuesStay
  <2>5. ASSUME NEW j \in DOMAIN wq.timeouts
        PROVE  wq.timeouts[j].task = t /\ ~TargetGone(wq.timeouts[j].target) <=> j = i
    BY <1>1, <1>3, <2>3, <2>4 DEF TimeoutsSound, OneLive
  <2> QED BY <2>2, <2>5
<1>5. ASSUME NEW e \in ToSet(wq.timeouts) PROVE Contains(wq.queue[e.target], e.task) \/ TargetGone(e.target)
  <2>1. /\ e.target \in Queues \cup {TaskExit(x) : x \in Task}
        /\ e.task \in ToSet(wq.queue[e.target]) \/ Gone(wq, {}, e.target)
    BY <1>1 DEF TimeoutsSound
  <2>2. e.target \in Target
    BY <2>1, Kinds
  <2>3. Contains(wq.queue[e.target], e.task) <=> e.task \in ToSet(wq.queue[e.target])
    BY <1>2, <2>2, ContainsIn
  <2> QED BY <1>3, <2>1, <2>3
<1> QED BY <1>4, <1>5 DEF TimersArmed

\* A waiter is in the one place its TCB names, with its own timeout record through
\* wakes, requeues, kills and late ticks, and no record ends a wait that is not the
\* one it was made for.
THEOREM WaitersSoundHolds == Spec => []WaitersSound
<1>1. WaitInv => WaitersSound
  <2> SUFFICES ASSUME WaitInv PROVE OnePlace /\ TimersArmed /\ NeverEarly
    BY DEF WaitersSound
  <2>1. NeverEarly
    BY DEF WaitInv, Good, ResultsSound, NeverEarly
  <2> QED BY <2>1, PlaceOf, TimersOf
<1> QED BY <1>1, WaitInvariance, PTL

-----------------------------------------------------------------------------
(***************************************************************************)
(* No task comes back from its exit.                                       *)
(***************************************************************************)
LEMMA WaitEnds ==
  ASSUME WaitInv, NEW t \in Task, wq.state[t] = "active", NEW g \in Target, NEW d \in Timeout \cup {NoTimeout}
  PROVE  EndsLast(wq, block(wq, t, g, d)) /\ EndsLast(wq, [wq EXCEPT !.result[t] = "woken"])
<1>1. wq \in WaitQueuesType /\ Ordered(wq.timeouts)
  BY DEF WaitInv, Good, TimeoutsSound
<1>2. BlockResult(block(wq, t, g, d), wq, t, g, d)
  BY <1>1, BlockIs
<1> DEFINE V == block(wq, t, g, d)  W == [wq EXCEPT !.result[t] = "woken"]
<1>3. W.state = wq.state
  BY <1>1, Fields
<1> HIDE DEF V, W
<1>4. V.state = [wq.state EXCEPT ![t] = "blocked"] /\ wq.state \in [Task -> TaskStates]
  BY <1>1, <1>2, Fields DEF BlockResult, V
<1>5. EndsLast(wq, V)
  BY <1>4 DEF EndsLast, Ended
<1>6. EndsLast(wq, W)
  BY <1>3 DEF EndsLast, Ended
<1> QED BY <1>5, <1>6 DEF V, W

LEMMA ScheduleEnds ==
  ASSUME WaitInv, NEW t \in Task, NEW g \in Target, NEW d \in Timeout \cup {NoTimeout}, schedule_wait(t, g, d)
  PROVE  EndsLast(wq, wq')
<1>1. Entered = {wq} /\ wq.state[t] = "active"
  BY Entry DEF schedule_wait
<1>2. wq' = IF wait_target_ready(wq, g) THEN [wq EXCEPT !.result[t] = "woken"] ELSE block(wq, t, g, d)
  BY <1>1 DEF schedule_wait
<1> QED BY <1>1, <1>2, WaitEnds

\* What mark_exited leaves of the states.
LEMMA MarkEnds ==
  ASSUME NEW W \in WaitQueuesType, NEW t \in Task
  PROVE  EndsLast(W, mark_exited(detach_task_from_run_queues(W, t), t))
<1> DEFINE B == detach_task_from_run_queues(W, t)
           V == mark_exited(B, t)  st == [B.state EXCEPT ![t] = "exited"]
<1>1. Detached(B, W, t, ExitsOf(t))
  BY DetachedIs
<1>2. V = [B EXCEPT !.exited = Append(B.exited, t), !.state = st, !.target = [B.target EXCEPT ![t] = NoTarget]]
  BY DEF mark_exited
<1> HIDE DEF B
<1>3. B \in WaitQueuesType /\ B.state = W.state
  BY <1>1 DEF Detached
<1>4. DOMAIN B = {"queue", "len", "free", "timeouts", "sleepers", "exited", "state", "target", "result"}
  BY <1>3, Fields
<1>5. \A u \in Task : Ended(W, u) => st[u] \in {"exited", "reaped"}
  BY <1>3, Fields DEF Ended
<1> HIDE DEF V, st
<1>6. V.state = st
  BY <1>2, <1>4
<1>7. EndsLast(W, V)
  BY <1>5, <1>6 DEF EndsLast, Ended
<1> QED BY <1>7 DEF V, B

LEMMA ActivateEnds ==
  ASSUME NEW W \in WaitQueuesType, NEW T, NEW r \in Results, \A u \in T : ~ Ended(W, u)
  PROVE  EndsLast(W, activate(W, T, r))
<1>1. \A u \in Task : activate(W, T, r).state[u] = IF u \in T THEN "active" ELSE W.state[u]
  BY ActivateIs
<1> QED BY <1>1 DEF EndsLast, Ended

LEMMA TaskEnds == ASSUME WaitInv, NEW t \in Task, TaskStep(t) PROVE EndsLast(wq, wq')
<1>0. Good(wq, deadline, {}) /\ wq \in WaitQueuesType /\ Entered = {wq}
  BY Entry
<1>1. ASSUME NEW d \in Timeout \cup {NoTimeout}, NEW q \in QueueId, WaitOnQueue(t, q, d) PROVE EndsLast(wq, wq')
  <2>1. WaitQueue(q) \in Target /\ schedule_wait(t, WaitQueue(q), d)
    BY <1>1, Kinds DEF Queues, WaitOnQueue
  <2> QED BY <2>1, ScheduleEnds
<1>2. ASSUME NEW d \in Timeout \cup {NoTimeout}, NEW x \in Task, WaitForExit(t, x, d) PROVE EndsLast(wq, wq')
  <2>1. TaskExit(x) \in Target /\ schedule_wait(t, TaskExit(x), d)
    BY <1>2, Kinds DEF WaitForExit
  <2> QED BY <2>1, ScheduleEnds
<1>3. CASE WaitForChild(t)
  <2>1. Leader[t] \in Task
    BY TaskAssumption DEF TaskAssumption
  <2>2. ChildExit(Leader[t]) \in Target /\ schedule_wait(t, ChildExit(Leader[t]), NoTimeout)
    BY <1>3, <2>1, Kinds DEF WaitForChild
  <2> QED BY <2>2, ScheduleEnds
<1>4. CASE BlockManual(t)
  <2>1. wq.state[t] = "active" /\ wq' = block(wq, t, Manual, NoTimeout) /\ Manual \in Target
    BY <1>0, <1>4, Kinds DEF BlockManual
  <2> QED BY <2>1, WaitEnds
<1>5. ASSUME NEW d \in Timeout, Sleep(t, d) PROVE EndsLast(wq, wq')
  <2>1. /\ wq.state[t] = "active"
        /\ wq' = [wq EXCEPT !.state[t] = "sleeping", !.result[t] = "none",
                            !.sleepers = insert_by_wake(@, [task |-> t, left |-> d])]
    BY <1>0, <1>5 DEF Sleep
  <2>2. Ordered(wq.sleepers)
    BY <1>0 DEF Good, SleepersSound
  <2>3. SleepResult(wq', wq, t, d)
    BY <1>0, <2>1, <2>2, SleepIs
  <2>4. wq'.state = [wq.state EXCEPT ![t] = "sleeping"]
    BY <2>3 DEF SleepResult
  <2> QED BY <1>0, <2>1, <2>4, Fields DEF EndsLast, Ended
<1>6. ASSUME NEW r \in {"woken", "interrupted"}, WakeTask(t, r) PROVE EndsLast(wq, wq')
  <2> DEFINE B == remove_task_from_any_queue(wq, t)
  <2>1. Detached(B, wq, t, {})
    BY <1>0, DetachedIs
  <2>2. wq' = B \/ (Waiting(wq, t) /\ wq' = activate(B, {t}, r))
    BY <1>6 DEF WakeTask
  <2> HIDE DEF B
  <2>3. B \in WaitQueuesType /\ B.state = wq.state /\ r \in Results
    BY <2>1 DEF Detached, Results
  <2>4. CASE wq' = B
    BY <2>3, <2>4 DEF EndsLast, Ended
  <2>5. CASE Waiting(wq, t) /\ wq' = activate(B, {t}, r)
    <3>1. \A u \in {t} : ~ Ended(B, u)
      BY <2>3, <2>5 DEF Waiting, Ended
    <3>2. EndsLast(B, wq')
      BY <2>3, <2>5, <3>1, ActivateEnds
    <3> QED BY <2>3, <3>2 DEF EndsLast, Ended
  <2> QED BY <2>2, <2>4, <2>5
<1>7. CASE WakeChildExit(t)
  <2>1. ChildExit(t) \in Target /\ ChildExit(t) \notin Queues \cup {TaskExit(x) : x \in Task}
    BY Kinds
  <2>2. wq' = wake_all_waiters(wq, ChildExit(t))
    BY <1>7 DEF WakeChildExit
  <2>3. \A u \in Task : wq.state[u] # "blocked" => wq'.state[u] = wq.state[u]
    BY <1>0, <2>1, <2>2, WakeAllWaiters
  <2> QED BY <2>3 DEF EndsLast, Ended
<1>8. CASE Exit(t)
  <2> DEFINE E == wake_all_waiters(wq, TaskExit(t))
             C == IF Parent[t] = NoTask THEN E ELSE wake_all_waiters(E, ChildExit(Parent[t]))
  <2>1. wq' = mark_exited(detach_task_from_run_queues(C, t), t)
    BY <1>0, <1>8 DEF Exit
  <2>2. TaskExit(t) \in Target /\ Gone(wq, {t}, TaskExit(t)) /\ Good(wq, deadline, {t})
    BY <1>0, Kinds, GoneSoon DEF Gone, ExitsOf
  <2>3. Good(E, deadline, {t}) /\ EndsLast(wq, E)
    <3>1. Good(E, deadline, {t}) /\ \A u \in Task : wq.state[u] # "blocked" => E.state[u] = wq.state[u]
      BY <2>2, WakeAllWaiters
    <3> HIDE DEF E
    <3> QED BY <3>1 DEF EndsLast, Ended
  <2> HIDE DEF E
  <2>4. Good(C, deadline, {t}) /\ EndsLast(wq, C)
    <3>1. CASE Parent[t] = NoTask
      BY <2>3, <3>1
    <3>2. CASE Parent[t] # NoTask
      <4> DEFINE P == wake_all_waiters(E, ChildExit(Parent[t]))
      <4>1. Parent[t] \in Task
        BY <3>2, TaskAssumption DEF TaskAssumption
      <4>2. ChildExit(Parent[t]) \in Target /\ ChildExit(Parent[t]) \notin Queues \cup {TaskExit(x) : x \in Task}
        BY <4>1, Kinds
      <4>3. Good(P, deadline, {t}) /\ \A u \in Task : E.state[u] # "blocked" => P.state[u] = E.state[u]
        BY <2>3, <4>2, WakeAllWaiters
      <4>4. C = P
        BY <3>2
      <4> HIDE DEF P, C
      <4> QED BY <2>3, <4>3, <4>4 DEF EndsLast, Ended
    <3> QED BY <3>1, <3>2
  <2> HIDE DEF C
  <2>5. C \in WaitQueuesType
    BY <2>4 DEF Good
  <2>6. EndsLast(C, wq')
    BY <2>1, <2>5, MarkEnds
  <2> QED BY <2>4, <2>6 DEF EndsLast
<1>9. CASE Kill(t)
  <2>1. wq' = mark_exited(detach_task_from_run_queues(wq, t), t)
    BY <1>9 DEF Kill
  <2> QED BY <1>0, <2>1, MarkEnds
<1>10. CASE Reap(t)
  <2> DEFINE B == detach_task_from_run_queues(wq, t)  ex == take_task_id_by_id(B.exited, t)
             st == [B.state EXCEPT ![t] = "reaped"]
  <2>1. wq' = [B EXCEPT !.exited = ex, !.state = st]
    BY <1>10 DEF Reap
  <2>2. Detached(B, wq, t, ExitsOf(t))
    BY <1>0, DetachedIs
  <2> HIDE DEF B
  <2>3. B \in WaitQueuesType /\ B.state = wq.state
    BY <2>2 DEF Detached
  <2>4. DOMAIN B = {"queue", "len", "free", "timeouts", "sleepers", "exited", "state", "target", "result"}
    BY <2>3, Fields
  <2>5. \A u \in Task : Ended(wq, u) => st[u] \in {"exited", "reaped"}
    BY <2>3, Fields DEF Ended
  <2> HIDE DEF ex, st
  <2>6. wq'.state = st
    BY <2>1, <2>4
  <2> QED BY <2>5, <2>6 DEF EndsLast, Ended
<1> QED BY <1>1, <1>2, <1>3, <1>4, <1>5, <1>6, <1>7, <1>8, <1>9, <1>10 DEF TaskStep

LEMMA QueueEnds == ASSUME WaitInv, NEW q \in QueueId, QueueStep(q) PROVE EndsLast(wq, wq')
<1>1. CASE WakeOne(q)
  BY <1>1, WakeOneKeeps
<1>2. CASE WakeAll(q)
  BY <1>2, WakeAllKeeps
<1>3. CASE TryRelease(q)
  <2> DEFINE fr == wq.free \cup {q}
             ts == Without(wq.timeouts, {e \in ToSet(wq.timeouts) : e.target = WaitQueue(q)})
  <2>1. wq' = [wq EXCEPT !.free = fr, !.timeouts = ts] /\ wq \in WaitQueuesType
    BY <1>3, Entry DEF TryRelease
  <2> HIDE DEF fr, ts
  <2>2. wq'.state = wq.state
    BY <2>1, Fields
  <2> QED BY <2>2 DEF EndsLast, Ended
<1>4. ASSUME NEW p \in QueueId, NEW wake \in 0 .. 1, NEW move \in 0 .. 1, Requeue(q, p, wake, move)
      PROVE  EndsLast(wq, wq')
  BY <1>4, RequeueKeeps
<1> QED BY <1>1, <1>2, <1>3, <1>4 DEF QueueStep

LEMMA NextEnds == ASSUME WaitInv, [Next]_vars PROVE EndsLast(wq, wq')
<1>0. Good(wq, deadline, {}) /\ wq \in WaitQueuesType
  BY Entry
<1>1. ASSUME NEW t \in Task, TaskStep(t) PROVE EndsLast(wq, wq')
  BY <1>1, TaskEnds
<1>2. ASSUME NEW q \in QueueId, QueueStep(q) PROVE EndsLast(wq, wq')
  BY <1>2, QueueEnds
<1>3. CASE Allocate
  <2>1. wq'.state = wq.state
    <3>1. ASSUME NEW q \in wq.free, wq' = [wq EXCEPT !.free = @ \ {q}, !.queue[WaitQueue(q)] = <<>>]
          PROVE  wq'.state = wq.state
      BY <1>0, <3>1, Fields
    <3>2. CASE wq' = [wq EXCEPT !.len = @ + 1]
      BY <1>0, <3>2, Fields
    <3> QED BY <1>3, <3>1, <3>2 DEF Allocate
  <2> QED BY <2>1 DEF EndsLast, Ended
<1>4. CASE TimerTick
  <2>1. PICK n \in 1 .. MaxElapsed : Tick(n)
    BY <1>4 DEF TimerTick
  <2>2. n \in Nat
    BY TimeAssumption DEF TimeAssumption
  <2>3. wq' \in activate_woken_and_timeout_tasks(advance_ticks(wq, n))
    BY <2>1 DEF Tick
  <2>4. Ordered(wq.timeouts)
    BY <1>0 DEF Good, TimeoutsSound
  <2>5. PICK S, R, U : TickResult(wq', wq, n, S, R, U)
    BY <1>0, <2>2, <2>3, <2>4, TickIs
  <2>6. \A u \in S : ~ Ended(wq, u)
    <3> DEFINE C == [t \in Task |-> IF deadline[t] = NoTimeout \/ ~ Waiting(wq, t) THEN NoTimeout
                                    ELSE IF deadline[t] > n THEN deadline[t] - n ELSE 0]
    <3>1. \A u \in S : wq.state[u] = "sleeping"
      <4>1. C = [t \in Task |-> IF deadline[t] = NoTimeout \/ ~ Waiting(wq, t) THEN NoTimeout
                                ELSE IF deadline[t] > n THEN deadline[t] - n ELSE 0]
        OBVIOUS
      <4> HIDE DEF C
      <4> QED BY <1>0, <2>2, <2>5, <4>1, Ticked
    <3> QED BY <3>1 DEF Ended
  <2>7. \A u \in U : ~ Ended(wq, u)
    BY <2>5 DEF TickResult, Ended
  <2>8. \A u \in Task : wq'.state[u] = IF u \in S \cup U THEN "active" ELSE wq.state[u]
    BY <2>5 DEF TickResult
  <2> QED BY <2>6, <2>7, <2>8 DEF EndsLast, Ended
<1>5. CASE UNCHANGED vars
  <2>1. wq' = wq
    BY <1>5 DEF vars
  <2> QED BY <2>1 DEF EndsLast
<1> QED BY <1>1, <1>2, <1>3, <1>4, <1>5 DEF Next

\* A task that exited or was reaped stays so, whatever wakes, timeouts, requeues and
\* kills still name it.
THEOREM WaitersExitForGood == Spec => ExitIsFinal
<1>1. WaitInv /\ [Next]_vars =>
        [\A t \in Task : wq.state[t] \in {"exited", "reaped"} => wq'.state[t] \in {"exited", "reaped"}]_vars
  BY NextEnds DEF EndsLast, Ended
<1> QED BY <1>1, WaitInvariance, PTL DEF Spec, ExitIsFinal
=============================================================================
