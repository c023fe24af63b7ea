------------------------------ MODULE PipeProofs ------------------------------
(***************************************************************************)
(* The pipe implements the bounded channel of ByteStream and forgets no        *)
(* sleeper, for all capacities, tasks, lengths and calls.                      *)
(* The refinement needs to know that the segments cut the buffer into pieces   *)
(* (Pieces: running totals that end at its length) and that the bytes a reader *)
(* holds outside the lock are still the head of the buffer as long as the      *)
(* reservation is his (HoldersSound).  A forgotten sleeper is excluded because  *)
(* each step that makes a condition false owes a wake, and only wake_all, by   *)
(* waking everybody, pays it.                                                 *)
(***************************************************************************)
EXTENDS Pipe, FiniteSetTheorems, TLAPS

Byte == 0 .. Mod - 1
Waits == {"rblocked", "lblocked", "wblocked", "openrblocked", "openwblocked"}
Transfers == {"read", "rsleep", "rblocked", "lease", "lsleep", "lblocked", "write", "wsleep", "wblocked"}
PcSet == Waits \cup Transfers \cup {"user", "held", "openr", "openw"}
TaskRec == [pc : PcSet, n : 0 .. PMaxLen, id : Nat, data : Seq(Byte)]
SegRec == [len : Nat \ {0}, packet : BOOLEAN]
ResRec == [id : Nat, exposed : Nat, consume : Nat, packet : BOOLEAN]
PTypes ==
  /\ buf \in Seq(Byte) /\ cap \in PCap /\ Len(buf) <= cap /\ direct \in BOOLEAN /\ segments \in Seq(SegRec)
  /\ reservation \in ResRec /\ refs \in [Ends -> Nat] /\ open \in [Ends -> BOOLEAN] /\ seq \in Byte
  /\ task \in [PTask -> TaskRec] /\ ends \in [PTask -> SUBSET Ends]
  /\ todo \in [PTask -> Seq(Ends)] /\ \A t \in PTask : Len(todo[t]) <= 2

(* The lengths of the segments add up to what is in the buffer.                *)
Totals(s, n, f) ==
  /\ f \in [0 .. Len(s) -> 0 .. n] /\ f[0] = 0 /\ f[Len(s)] = n
  /\ \A i \in 1 .. Len(s) : f[i] = f[i - 1] + s[i].len
  /\ \A i, j \in 0 .. Len(s) : i <= j => f[i] <= f[j]
Pieces ==
  /\ \E f \in [0 .. Len(segments) -> 0 .. Len(buf)] : Totals(segments, Len(buf), f)
  /\ \A i \in 1 .. Len(segments) : segments[i].packet = direct

(* A reservation belongs to at most one holder, whose bytes are the head.       *)
HoldersSound ==
  /\ \A t \in PTask : task[t].pc = "held" => task[t].id # 0
  /\ \A t, u \in PTask : task[t].pc = "held" /\ task[u].pc = "held" /\ task[t].id = task[u].id => t = u
  /\ \A t \in PTask : task[t].pc = "held" /\ reservation.id = task[t].id =>
       /\ reservation.exposed \in 1 .. Len(buf) /\ task[t].data = SubSeq(buf, 1, reservation.exposed)
       /\ segments # <<>> /\ reservation.exposed <= reservation.consume /\ reservation.consume <= segments[1].len
       /\ reservation.packet = direct /\ (~direct => reservation.consume = reservation.exposed)

(* A sleeper owes nobody a wake, a transfer has something left to do, and who   *)
(* opens a FIFO has its end already.                                          *)
CallsSound ==
  \A t \in PTask : /\ task[t].pc \in Waits => todo[t] = <<>>
                   /\ task[t].pc \in Transfers => task[t].n # 0
                   /\ task[t].pc \in {"openr", "openrblocked"} => "r" \in ends[t]
                   /\ task[t].pc \in {"openw", "openwblocked"} => "w" \in ends[t]

PInv == PTypes /\ Pieces /\ HoldersSound /\ CallsSound /\ OpenAgrees /\ NoSleeperForgotten

-----------------------------------------------------------------------------
(* The head of what remains, and of what is longer.                            *)
LEMMA SubHead ==
  ASSUME NEW S, NEW s \in Seq(S), NEW n \in 0 .. Len(s)
  PROVE  /\ SubSeq(s, 1, n) \in Seq(S) /\ Len(SubSeq(s, 1, n)) = n
         /\ SubSeq(s, n + 1, Len(s)) \in Seq(S) /\ Len(SubSeq(s, n + 1, Len(s))) = Len(s) - n
         /\ (n = 0 => SubSeq(s, n + 1, Len(s)) = s)
OBVIOUS

LEMMA ReplaceOne ==
  ASSUME NEW S, NEW s \in Seq(S), NEW k \in 1 .. Len(s), NEW x \in S
  PROVE  /\ [s EXCEPT ![k] = x] \in Seq(S) /\ Len([s EXCEPT ![k] = x]) = Len(s)
         /\ [s EXCEPT ![k] = x][k] = x /\ \A i \in 1 .. Len(s) : i # k => [s EXCEPT ![k] = x][i] = s[i]
OBVIOUS

LEMMA HeadOfHead ==
  ASSUME NEW S, NEW s \in Seq(S), NEW n \in 0 .. Len(s), NEW m \in 0 .. n
  PROVE  SubSeq(SubSeq(s, 1, n), 1, m) = SubSeq(s, 1, m)
OBVIOUS

LEMMA ConcatIn ==
  ASSUME NEW S, NEW s \in Seq(S), NEW r \in Seq(S)
  PROVE  s \o r \in Seq(S) /\ Len(s \o r) = Len(s) + Len(r)
OBVIOUS

LEMMA HeadOfLonger ==
  ASSUME NEW S, NEW s \in Seq(S), NEW r \in Seq(S), NEW n \in 0 .. Len(s)
  PROVE  /\ s \o r \in Seq(S) /\ Len(s \o r) = Len(s) + Len(r)
         /\ SubSeq(s \o r, 1, n) = SubSeq(s, 1, n)
OBVIOUS

(* The first piece is not longer than the whole.                               *)
LEMMA FirstPiece ==
  ASSUME PTypes, Pieces
  PROVE  /\ segments = <<>> <=> Len(buf) = 0
         /\ segments # <<>> => Head(segments) = segments[1] /\ segments[1] \in SegRec /\ segments[1].len <= Len(buf)
                               /\ segments[1].packet = direct
         /\ \A i \in 1 .. Len(segments) : segments[i] \in SegRec /\ segments[i].len <= Len(buf)
<1>1. PICK f \in [0 .. Len(segments) -> 0 .. Len(buf)] : Totals(segments, Len(buf), f)
  BY DEF Pieces
<1>2. segments \in Seq(SegRec) /\ Len(segments) \in Nat /\ Len(buf) \in Nat
  BY DEF PTypes
<1>3. \A i \in 1 .. Len(segments) : segments[i] \in SegRec /\ segments[i].len \in Nat \ {0} /\ segments[i].len <= Len(buf)
  <2> SUFFICES ASSUME NEW i \in 1 .. Len(segments)
               PROVE segments[i] \in SegRec /\ segments[i].len \in Nat \ {0} /\ segments[i].len <= Len(buf)
    OBVIOUS
  <2>1. segments[i] \in SegRec
    BY <1>2
  <2>2. segments[i].len \in Nat \ {0}
    BY <2>1 DEF SegRec
  <2>3. f[i] \in 0 .. Len(buf) /\ f[i - 1] \in 0 .. Len(buf) /\ f[i] = f[i - 1] + segments[i].len
    BY <1>1, <1>2 DEF Totals
  <2> QED BY <1>2, <2>1, <2>2, <2>3
<1>4. Len(segments) = 0 => Len(buf) = 0
  BY <1>1 DEF Totals
<1>5. segments = <<>> <=> Len(segments) = 0
  BY <1>2
<1>6. segments # <<>> => 1 \in 1 .. Len(segments) /\ Head(segments) = segments[1]
  BY <1>2
<1> QED BY <1>2, <1>3, <1>4, <1>5, <1>6 DEF Pieces

(* Taking n bytes, at most the first piece, leaves pieces.                     *)
LEMMA ConsumePieces ==
  ASSUME PTypes, Pieces, NEW n \in Nat, n # 0 => segments # <<>> /\ n <= segments[1].len, consume(n), direct' = direct
  PROVE  /\ buf' \in Seq(Byte) /\ Len(buf') = Len(buf) - n /\ n <= Len(buf) /\ segments' \in Seq(SegRec) /\ Pieces'
         /\ (n = 0 => buf' = buf /\ segments' = segments) /\ buf' = SubSeq(buf, n + 1, Len(buf))
<1>1. PICK f \in [0 .. Len(segments) -> 0 .. Len(buf)] : Totals(segments, Len(buf), f)
  BY DEF Pieces
<1>2. buf \in Seq(Byte) /\ segments \in Seq(SegRec) /\ Len(segments) \in Nat /\ Len(buf) \in Nat
  BY DEF PTypes
<1>3. n \in 0 .. Len(buf)
  <2>1. CASE n = 0
    BY <1>2, <2>1
  <2>2. CASE n # 0
    <3>1. segments[1] \in SegRec /\ segments[1].len <= Len(buf) /\ n <= segments[1].len
      BY <2>2, FirstPiece
    <3>2. segments[1].len \in Nat
      BY <3>1 DEF SegRec
    <3> QED BY <1>2, <3>1, <3>2
  <2> QED BY <2>1, <2>2
<1>4. /\ buf' \in Seq(Byte) /\ Len(buf') = Len(buf) - n /\ (n = 0 => buf' = buf)
  BY <1>2, <1>3, SubHead DEF consume
<1>7. buf' = SubSeq(buf, n + 1, Len(buf))
  BY DEF consume
<1>5. CASE n = 0
  <2>1. segments' = segments /\ buf' = buf
    BY <1>4, <1>5 DEF consume
  <2> QED BY <1>2, <1>3, <1>4, <1>5, <2>1 DEF Pieces, consume
<1>6. CASE n # 0
  <2>1. segments # <<>> /\ Head(segments) = segments[1] /\ segments[1] \in SegRec /\ n <= segments[1].len /\ 1 <= Len(segments)
    BY <1>2, <1>6, FirstPiece
  <2>2. segments[1].len \in Nat /\ segments[1].packet \in BOOLEAN
    BY <2>1 DEF SegRec
  <2>3. \A i \in 0 .. Len(segments) : f[i] \in 0 .. Len(buf)
    BY <1>1, <1>2
  <2>4. \A i \in 1 .. Len(segments) : f[1] <= f[i] /\ f[i] = f[i - 1] + segments[i].len
    BY <1>1, <1>2, <2>1 DEF Totals
  <2>5. f[0] = 0 /\ f[1] = segments[1].len /\ f[Len(segments)] = Len(buf)
    BY <1>1, <1>2, <2>1, <2>2, <2>3 DEF Totals
  <2>6. CASE n = segments[1].len
    <3> DEFINE g == [i \in 0 .. Len(segments) - 1 |-> f[i + 1] - n]
    <3>1. segments' = Tail(segments)
      BY <1>6, <2>1, <2>6 DEF consume
    <3>2. segments' \in Seq(SegRec) /\ Len(segments') = Len(segments) - 1
          /\ \A i \in 1 .. Len(segments') : segments'[i] = segments[i + 1]
      BY <1>2, <2>1, <3>1
    <3>3. \A i \in 0 .. Len(segments) - 1 : g[i] = f[i + 1] - n /\ g[i] \in 0 .. Len(buf) - n
      <4> SUFFICES ASSUME NEW i \in 0 .. Len(segments) - 1 PROVE f[i + 1] - n \in 0 .. Len(buf) - n
        BY DEF g
      <4>1. i + 1 \in 1 .. Len(segments)
        BY <1>2
      <4>2. f[i + 1] \in 0 .. Len(buf) /\ n <= f[i + 1]
        BY <2>3, <2>4, <2>5, <2>6, <4>1
      <4> QED BY <1>2, <1>3, <4>2
    <3>4. \A i \in 1 .. Len(segments') : g[i] = g[i - 1] + segments'[i].len
      <4> SUFFICES ASSUME NEW i \in 1 .. Len(segments') PROVE g[i] = g[i - 1] + segments'[i].len
        OBVIOUS
      <4>1. i + 1 \in 1 .. Len(segments) /\ i \in 0 .. Len(segments) - 1 /\ i - 1 \in 0 .. Len(segments) - 1 /\ (i + 1) - 1 = i
            /\ (i - 1) + 1 = i /\ i \in 0 .. Len(segments)
        BY <1>2, <3>2
      <4>2. f[i + 1] = f[i] + segments'[i].len
        BY <2>4, <3>2, <4>1
      <4>3. f[i] \in Nat /\ segments'[i] \in SegRec
        BY <2>3, <3>2, <4>1
      <4>5. segments'[i].len \in Nat
        BY <4>3 DEF SegRec
      <4>4. g[i] = f[i + 1] - n /\ g[i - 1] = f[i] - n
        BY <3>3, <4>1
      <4> HIDE DEF g
      <4> QED BY <4>2, <4>3, <4>4, <4>5
    <3>5. \A i, j \in 0 .. Len(segments') : i <= j => g[i] <= g[j]
      <4> SUFFICES ASSUME NEW i \in 0 .. Len(segments'), NEW j \in 0 .. Len(segments'), i <= j PROVE g[i] <= g[j]
        OBVIOUS
      <4>1. i \in 0 .. Len(segments) - 1 /\ j \in 0 .. Len(segments) - 1 /\ i + 1 \in 0 .. Len(segments)
            /\ j + 1 \in 0 .. Len(segments) /\ i + 1 <= j + 1
        BY <1>2, <3>2
      <4>2. f[i + 1] <= f[j + 1] /\ f[i + 1] \in Nat /\ f[j + 1] \in Nat
        BY <1>1, <2>3, <4>1 DEF Totals
      <4> QED BY <3>3, <4>1, <4>2
    <3>6. g \in [0 .. Len(segments') -> 0 .. Len(buf')] /\ g[0] = 0 /\ g[Len(segments')] = Len(buf')
      <4>1. g \in [0 .. Len(segments') -> 0 .. Len(buf')]
        BY <1>4, <3>2, <3>3
      <4>2. 0 \in 0 .. Len(segments) - 1 /\ Len(segments) - 1 \in 0 .. Len(segments) - 1
        BY <1>2, <2>1
      <4>3. g[0] = f[1] - n /\ g[Len(segments) - 1] = f[Len(segments)] - n
        BY <1>2, <3>3, <4>2
      <4> QED BY <1>2, <1>4, <2>2, <2>5, <2>6, <3>2, <4>1, <4>3
    <3>7. Totals(segments', Len(buf'), g)
      BY <3>4, <3>5, <3>6 DEF Totals
    <3>8. \A i \in 1 .. Len(segments') : segments'[i].packet = direct'
      <4> SUFFICES ASSUME NEW i \in 1 .. Len(segments') PROVE segments'[i].packet = direct'
        OBVIOUS
      <4>1. i + 1 \in 1 .. Len(segments) /\ segments'[i] = segments[i + 1]
        BY <1>2, <3>2
      <4>2. segments[i + 1].packet = direct
        BY <4>1 DEF Pieces
      <4> QED BY <4>1, <4>2
    <3>9. Pieces'
      BY <3>6, <3>7, <3>8 DEF Pieces
    <3> QED BY <1>3, <1>4, <1>6, <1>7, <3>2, <3>9
  <2>7. CASE n < segments[1].len
    <3> DEFINE g == [i \in 0 .. Len(segments) |-> IF i = 0 THEN 0 ELSE f[i] - n]
    <3>1. segments' = [segments EXCEPT ![1].len = @ - n]
      BY <1>6, <2>1, <2>2, <2>7 DEF consume
    <3>2. segments' \in Seq(SegRec) /\ Len(segments') = Len(segments) /\ segments'[1].len = segments[1].len - n
          /\ segments'[1].packet = segments[1].packet /\ \A i \in 2 .. Len(segments) : segments'[i] = segments[i]
      <4> DEFINE x == [segments[1] EXCEPT !.len = @ - n]
      <4>1. x \in SegRec /\ x.len = segments[1].len - n /\ x.packet = segments[1].packet
        BY <2>1, <2>2, <2>7 DEF SegRec
      <4>2. 1 \in 1 .. Len(segments) /\ segments' = [segments EXCEPT ![1] = x]
        BY <1>2, <2>1, <3>1
      <4> HIDE DEF x
      <4>3. \A i \in 2 .. Len(segments) : i \in 1 .. Len(segments) /\ i # 1
        OBVIOUS
      <4> QED BY <1>2, <4>1, <4>2, <4>3, ReplaceOne
    <3>3. \A i \in 1 .. Len(segments) : f[i] \in Nat /\ f[i] >= n /\ f[i] <= Len(buf)
      BY <1>2, <2>2, <2>3, <2>4, <2>5, <2>7
    <3>4. g[0] = 0 /\ \A i \in 1 .. Len(segments) : g[i] = f[i] - n /\ g[i] \in 0 .. Len(buf) - n
      BY <1>2, <1>3, <3>3
    <3>5. \A i \in 1 .. Len(segments') : g[i] = g[i - 1] + segments'[i].len
      <4> SUFFICES ASSUME NEW i \in 1 .. Len(segments) PROVE g[i] = g[i - 1] + segments'[i].len
        BY <3>2
      <4>1. CASE i = 1
        BY <2>2, <2>5, <2>7, <3>2, <3>4, <4>1
      <4>2. CASE i # 1
        <5>1. i \in 2 .. Len(segments) /\ i - 1 \in 1 .. Len(segments)
          BY <1>2, <4>2
        <5>2. f[i] = f[i - 1] + segments'[i].len /\ f[i - 1] \in Nat /\ f[i] \in Nat
          BY <2>4, <3>2, <3>3, <5>1
        <5>5. segments'[i] \in SegRec
          BY <3>2, <5>1
        <5>3. segments'[i].len \in Nat
          BY <5>5 DEF SegRec
        <5>4. g[i] = f[i] - n /\ g[i - 1] = f[i - 1] - n
          BY <3>4, <5>1
        <5> HIDE DEF g
        <5> QED BY <5>2, <5>3, <5>4
      <4> QED BY <4>1, <4>2
    <3>6. \A i, j \in 0 .. Len(segments') : i <= j => g[i] <= g[j]
      <4> SUFFICES ASSUME NEW i \in 0 .. Len(segments), NEW j \in 0 .. Len(segments), i <= j PROVE g[i] <= g[j]
        BY <3>2
      <4>1. f[i] <= f[j]
        BY <1>1 DEF Totals
      <4>2. CASE i = 0
        <5>1. CASE j = 0
          BY <3>4, <4>2, <5>1
        <5>2. CASE j # 0
          <6>1. j \in 1 .. Len(segments)
            BY <1>2, <5>2
          <6>2. g[j] \in 0 .. Len(buf) - n
            BY <3>4, <6>1
          <6>3. g[i] = 0
            BY <3>4, <4>2
          <6> HIDE DEF g
          <6> QED BY <6>2, <6>3
        <5> QED BY <5>1, <5>2
      <4>3. CASE i # 0
        <5>1. i \in 1 .. Len(segments) /\ j \in 1 .. Len(segments)
          BY <1>2, <4>3
        <5> QED BY <3>3, <3>4, <4>1, <5>1
      <4> QED BY <4>2, <4>3
    <3>7. g \in [0 .. Len(segments') -> 0 .. Len(buf')]
      <4>1. ASSUME NEW i \in 0 .. Len(segments) PROVE g[i] \in 0 .. Len(buf) - n
        <5>1. CASE i = 0
          BY <1>2, <1>3, <3>4, <5>1
        <5>2. CASE i # 0
          <6>1. i \in 1 .. Len(segments)
            BY <1>2, <5>2
          <6> HIDE DEF g
          <6> QED BY <3>4, <6>1
        <5> QED BY <5>1, <5>2
      <4> QED BY <1>4, <3>2, <4>1
    <3>8. g[Len(segments')] = Len(buf')
      BY <1>2, <1>4, <2>1, <2>5, <3>2, <3>4
    <3>9. Totals(segments', Len(buf'), g)
      BY <3>4, <3>5, <3>6, <3>7, <3>8 DEF Totals
    <3>10. \A i \in 1 .. Len(segments') : segments'[i].packet = direct'
      <4> SUFFICES ASSUME NEW i \in 1 .. Len(segments) PROVE segments'[i].packet = direct
        BY <3>2
      <4>1. segments[i].packet = direct
        BY DEF Pieces
      <4>2. CASE i = 1
        BY <3>2, <4>1, <4>2
      <4>3. CASE i # 1
        BY <1>2, <3>2, <4>1, <4>3
      <4> QED BY <4>2, <4>3
    <3>11. Pieces'
      BY <3>7, <3>9, <3>10 DEF Pieces
    <3> QED BY <1>3, <1>4, <1>6, <1>7, <3>2, <3>11
  <2> QED BY <2>1, <2>2, <2>6, <2>7
<1> QED BY <1>5, <1>6

(* A last piece is made longer or added.                                       *)
LEMMA LastPiece ==
  ASSUME PTypes, NEW f \in [0 .. Len(segments) -> 0 .. Len(buf)], Totals(segments, Len(buf), f),
         NEW s \in Seq(SegRec), Len(s) \in 1 .. Len(segments) + 1, \A i \in 1 .. Len(s) - 1 : s[i] = segments[i],
         NEW n \in Nat, n >= Len(buf), s[Len(s)].len = n - f[Len(s) - 1]
  PROVE  \E g \in [0 .. Len(s) -> 0 .. n] : Totals(s, n, g)
<1> DEFINE g == [i \in 0 .. Len(s) |-> IF i = Len(s) THEN n ELSE f[i]]
<1>1. Len(s) \in Nat /\ Len(segments) \in Nat /\ Len(buf) \in Nat
  BY DEF PTypes
<1>2. \A i \in 0 .. Len(s) - 1 : i \in 0 .. Len(segments) /\ f[i] \in 0 .. n
  <2> SUFFICES ASSUME NEW i \in 0 .. Len(s) - 1 PROVE i \in 0 .. Len(segments) /\ f[i] \in 0 .. n
    OBVIOUS
  <2>1. i \in 0 .. Len(segments)
    BY <1>1
  <2>2. f[i] \in 0 .. Len(buf)
    BY <2>1
  <2> QED BY <1>1, <2>1, <2>2
<1>3. g[Len(s)] = n /\ \A i \in 0 .. Len(s) - 1 : g[i] = f[i]
  BY <1>1
<1>4. g \in [0 .. Len(s) -> 0 .. n]
  BY <1>1, <1>2
<1>5. g[0] = 0
  BY <1>1, <1>3 DEF Totals
<1> HIDE DEF g
<1>6. \A i \in 1 .. Len(s) : g[i] = g[i - 1] + s[i].len
  <2> SUFFICES ASSUME NEW i \in 1 .. Len(s) PROVE g[i] = g[i - 1] + s[i].len
    OBVIOUS
  <2>1. i - 1 \in 0 .. Len(s) - 1 /\ g[i - 1] = f[i - 1] /\ f[i - 1] \in 0 .. n
    BY <1>1, <1>2, <1>3
  <2>2. CASE i = Len(s)
    BY <1>3, <2>1, <2>2
  <2>3. CASE i # Len(s)
    <3>1. i \in 1 .. Len(s) - 1 /\ i \in 1 .. Len(segments)
      BY <1>1, <2>3
    <3>2. f[i] = f[i - 1] + segments[i].len
      BY <3>1 DEF Totals
    <3> QED BY <1>3, <2>1, <3>1, <3>2
  <2> QED BY <2>2, <2>3
<1>7. \A i, j \in 0 .. Len(s) : i <= j => g[i] <= g[j]
  <2> SUFFICES ASSUME NEW i \in 0 .. Len(s), NEW j \in 0 .. Len(s), i <= j PROVE g[i] <= g[j]
    OBVIOUS
  <2>1. CASE j = Len(s)
    BY <1>3, <1>4, <2>1
  <2>2. CASE j # Len(s)
    <3>1. i \in 0 .. Len(s) - 1 /\ j \in 0 .. Len(s) - 1
      BY <1>1, <2>2
    <3>2. f[i] <= f[j]
      BY <1>2, <3>1 DEF Totals
    <3> QED BY <1>3, <3>1, <3>2
  <2> QED BY <2>1, <2>2
<1> QED BY <1>3, <1>4, <1>5, <1>6, <1>7 DEF Totals

(* What is written comes behind what is there and is one more piece.           *)
LEMMA WritePieces ==
  ASSUME PTypes, Pieces, NEW n \in Nat \ {0}, write_from(n), direct' = direct
  PROVE  /\ buf' \in Seq(Byte) /\ Len(buf') = Len(buf) + n /\ seq' \in Byte /\ segments' \in Seq(SegRec) /\ Pieces'
         /\ \A m \in 0 .. Len(buf) : SubSeq(buf', 1, m) = SubSeq(buf, 1, m)
         /\ segments' # <<>> /\ (segments # <<>> => segments[1].len <= segments'[1].len)
<1>1. PICK f \in [0 .. Len(segments) -> 0 .. Len(buf)] : Totals(segments, Len(buf), f)
  BY DEF Pieces
<1>2. buf \in Seq(Byte) /\ segments \in Seq(SegRec) /\ Len(segments) \in Nat /\ Len(buf) \in Nat
      /\ seq \in Byte /\ direct \in BOOLEAN
  BY DEF PTypes
<1> DEFINE r == [i \in 1 .. n |-> (seq + i - 1) % Mod]
<1>3. r \in Seq(Byte) /\ Len(r) = n
  <2>1. \A i \in 1 .. n : (seq + i - 1) % Mod \in Byte
    BY <1>2 DEF Byte, Mod
  <2>2. r \in [1 .. n -> Byte]
    BY <2>1
  <2> QED BY <2>2
<1>4. buf' = buf \o r /\ seq' = (seq + n) % Mod /\ segments' = record_segment(n)
  BY DEF write_from
<1>5. seq' \in Byte
  BY <1>2, <1>4 DEF Byte, Mod
<1> HIDE DEF r
<1>6. buf' \in Seq(Byte) /\ Len(buf') = Len(buf) + n /\ \A m \in 0 .. Len(buf) : SubSeq(buf', 1, m) = SubSeq(buf, 1, m)
  <2>1. buf \o r \in Seq(Byte) /\ Len(buf \o r) = Len(buf) + n
    BY <1>2, <1>3, ConcatIn
  <2>2. \A m \in 0 .. Len(buf) : SubSeq(buf \o r, 1, m) = SubSeq(buf, 1, m)
    BY <1>2, <1>3, HeadOfLonger
  <2> QED BY <1>4, <2>1, <2>2
<1> DEFINE k == Len(segments)
<1>7. CASE ~direct /\ k > 0 /\ ~segments[k].packet
  <2> DEFINE x == [segments[k] EXCEPT !.len = @ + n]
  <2>1. k \in 1 .. Len(segments) /\ segments[k] \in SegRec /\ f[k] = f[k - 1] + segments[k].len /\ f[k] = Len(buf)
        /\ f[k - 1] \in Nat
    BY <1>1, <1>2, <1>7 DEF Totals
  <2>2. segments[k].len \in Nat \ {0}
    BY <2>1 DEF SegRec
  <2>3. x \in SegRec /\ x.len = segments[k].len + n /\ x.packet = segments[k].packet
    BY <2>1, <2>2 DEF SegRec
  <2>4. segments' = [segments EXCEPT ![k] = x]
    BY <1>4, <1>7 DEF record_segment
  <2> HIDE DEF x
  <2>5. segments' \in Seq(SegRec) /\ Len(segments') = Len(segments) /\ segments'[k] = x
        /\ \A i \in 1 .. Len(segments) : i # k => segments'[i] = segments[i]
    BY <1>2, <2>1, <2>3, <2>4, ReplaceOne
  <2>6. Len(segments') \in 1 .. Len(segments) + 1 /\ \A i \in 1 .. Len(segments') - 1 : segments'[i] = segments[i]
    BY <1>2, <2>1, <2>5
  <2>7. Len(buf') \in Nat /\ Len(buf') >= Len(buf) /\ segments'[Len(segments')].len = Len(buf') - f[Len(segments') - 1]
    <3> DEFINE a == segments[k].len
               b == f[k - 1]
               c == Len(buf)
    <3>1. segments'[Len(segments')].len = a + n /\ f[Len(segments') - 1] = b
      BY <2>3, <2>5
    <3>2. b + a = c /\ b \in Nat /\ a \in Nat /\ c \in Nat
      BY <1>2, <2>1, <2>2
    <3>3. Len(buf') = c + n
      BY <1>6
    <3> HIDE DEF a, b, c
    <3>4. c + n \in Nat /\ c + n >= c /\ a + n = (c + n) - b
      BY <3>2
    <3> USE DEF c
    <3> QED BY <3>1, <3>3, <3>4
  <2>8. \E g \in [0 .. Len(segments') -> 0 .. Len(buf')] : Totals(segments', Len(buf'), g)
    BY <1>1, <2>5, <2>6, <2>7, LastPiece
  <2>9. \A i \in 1 .. Len(segments') : segments'[i].packet = direct'
    <3> SUFFICES ASSUME NEW i \in 1 .. Len(segments) PROVE segments'[i].packet = direct
      BY <2>5
    <3>1. segments[i].packet = direct
      BY DEF Pieces
    <3> QED BY <2>1, <2>3, <2>5, <3>1
  <2>10. segments' # <<>> /\ 1 \in 1 .. Len(segments) /\ segments[1].len <= segments'[1].len
    <3>1. segments' # <<>> /\ 1 \in 1 .. Len(segments) /\ segments[1] \in SegRec
      BY <1>2, <2>1, <2>5
    <3>2. segments[1].len \in Nat
      BY <3>1 DEF SegRec
    <3>3. CASE k = 1
      BY <2>2, <2>3, <2>5, <3>1, <3>3
    <3>4. CASE k # 1
      BY <2>5, <3>1, <3>2, <3>4
    <3> QED BY <3>1, <3>3, <3>4
  <2>11. Pieces'
    BY <2>8, <2>9 DEF Pieces
  <2> QED BY <1>5, <1>6, <2>5, <2>10, <2>11
<1>8. CASE ~(~direct /\ k > 0 /\ ~segments[k].packet)
  <2> DEFINE x == [len |-> n, packet |-> direct]
  <2>1. x \in SegRec /\ x.len = n /\ x.packet = direct
    BY <1>2 DEF SegRec
  <2>2. segments' = Append(segments, x)
    BY <1>4, <1>8 DEF record_segment
  <2> HIDE DEF x
  <2>3. segments' \in Seq(SegRec) /\ Len(segments') = Len(segments) + 1 /\ segments'[Len(segments')] = x
        /\ \A i \in 1 .. Len(segments) : segments'[i] = segments[i]
    BY <1>2, <2>1, <2>2
  <2>4. Len(segments') \in 1 .. Len(segments) + 1 /\ \A i \in 1 .. Len(segments') - 1 : segments'[i] = segments[i]
    BY <1>2, <2>3
  <2>5. Len(segments') - 1 = Len(segments) /\ f[Len(segments)] = Len(buf)
    BY <1>1, <1>2, <2>3 DEF Totals
  <2>6. Len(buf') \in Nat /\ Len(buf') >= Len(buf) /\ segments'[Len(segments')].len = Len(buf') - f[Len(segments') - 1]
    <3>1. segments'[Len(segments')].len = n /\ f[Len(segments') - 1] = Len(buf)
      BY <2>1, <2>3, <2>5
    <3> QED BY <1>2, <1>6, <3>1
  <2>7. \E g \in [0 .. Len(segments') -> 0 .. Len(buf')] : Totals(segments', Len(buf'), g)
    BY <1>1, <2>3, <2>4, <2>6, LastPiece
  <2>8. \A i \in 1 .. Len(segments') : segments'[i].packet = direct'
    <3> SUFFICES ASSUME NEW i \in 1 .. Len(segments') PROVE segments'[i].packet = direct
      OBVIOUS
    <3>1. CASE i = Len(segments')
      BY <2>1, <2>3, <3>1
    <3>2. CASE i # Len(segments')
      <4>1. i \in 1 .. Len(segments)
        BY <1>2, <2>3, <3>2
      <4>2. segments[i].packet = direct
        BY <4>1 DEF Pieces
      <4> QED BY <2>3, <4>1, <4>2
    <3> QED BY <3>1, <3>2
  <2>9. segments' # <<>> /\ (segments # <<>> => segments[1].len <= segments'[1].len)
    <3>1. segments' # <<>>
      BY <1>2, <2>3
    <3>2. ASSUME segments # <<>> PROVE segments[1].len <= segments'[1].len
      <4>1. 1 \in 1 .. Len(segments) /\ segments[1] \in SegRec
        BY <1>2, <3>2
      <4>2. segments[1].len \in Nat
        BY <4>1 DEF SegRec
      <4> QED BY <2>3, <4>1, <4>2
    <3> QED BY <3>1, <3>2
  <2>10. Pieces'
    BY <2>7, <2>8 DEF Pieces
  <2> QED BY <1>5, <1>6, <2>3, <2>9, <2>10
<1> QED BY <1>7, <1>8

-----------------------------------------------------------------------------
(* Every step but wake_all gives one task a new call record and the wakes it    *)
(* now owes; it owed none before.                                             *)
CallStep(t, r, q) == todo[t] = <<>> /\ task' = [task EXCEPT ![t] = r] /\ todo' = [todo EXCEPT ![t] = q]
Has(q, e) == \E i \in 1 .. Len(q) : q[i] = e

LEMMA CallStepKeeps ==
  ASSUME PTypes, CallsSound, NEW t \in PTask, NEW r \in TaskRec, NEW q \in Seq(Ends), Len(q) <= 2, CallStep(t, r, q),
         r.pc \in Waits => q = <<>>, r.pc \in Transfers => r.n # 0,
         ends' \in [PTask -> SUBSET Ends], \A u \in PTask : u # t => ends'[u] = ends[u],
         r.pc \in {"openr", "openrblocked"} => "r" \in ends'[t], r.pc \in {"openw", "openwblocked"} => "w" \in ends'[t]
  PROVE  /\ task' \in [PTask -> TaskRec] /\ todo' \in [PTask -> Seq(Ends)]
         /\ \A u \in PTask : Len(todo'[u]) <= 2
         /\ CallsSound'
<1>1. task \in [PTask -> TaskRec] /\ todo \in [PTask -> Seq(Ends)] /\ \A u \in PTask : Len(todo[u]) <= 2
  BY DEF PTypes
<1>2. task' \in [PTask -> TaskRec] /\ todo' \in [PTask -> Seq(Ends)] /\ task'[t] = r /\ todo'[t] = q
      /\ \A u \in PTask : u # t => task'[u] = task[u] /\ todo'[u] = todo[u]
  BY <1>1 DEF CallStep
<1>3. \A u \in PTask : Len(todo'[u]) <= 2
  BY <1>1, <1>2
<1>4. CallsSound'
  <2> SUFFICES ASSUME NEW u \in PTask
               PROVE  /\ task'[u].pc \in Waits => todo'[u] = <<>>
                      /\ task'[u].pc \in Transfers => task'[u].n # 0
                      /\ task'[u].pc \in {"openr", "openrblocked"} => "r" \in ends'[u]
                      /\ task'[u].pc \in {"openw", "openwblocked"} => "w" \in ends'[u]
    BY DEF CallsSound
  <2>1. CASE u = t
    BY <1>2, <2>1
  <2>2. CASE u # t
    BY <1>2, <2>2 DEF CallsSound
  <2> QED BY <2>1, <2>2
<1> QED BY <1>2, <1>3, <1>4

(* What is there stays and more may come; an empty pipe may change at will.     *)
Grown ==
  Len(buf) # 0 /\ segments # <<>> =>
    /\ Len(buf') \in Nat /\ Len(buf) <= Len(buf') /\ \A m \in 0 .. Len(buf) : SubSeq(buf', 1, m) = SubSeq(buf, 1, m)
    /\ segments' # <<>> /\ segments[1].len \in Nat /\ segments'[1].len \in Nat /\ segments[1].len <= segments'[1].len

LEMMA SameGrown ==
  ASSUME PTypes, UNCHANGED <<buf, segments>>
  PROVE  Grown
<1>1. Len(buf) \in Nat /\ segments \in Seq(SegRec) /\ buf' = buf /\ segments' = segments
  BY DEF PTypes
<1>2. segments # <<>> => segments[1] \in SegRec
  BY <1>1
<1>3. segments # <<>> => segments[1].len \in Nat
  BY <1>2 DEF SegRec
<1> QED BY <1>1, <1>3 DEF Grown

LEMMA HoldersKept ==
  ASSUME PTypes, HoldersSound, NEW t \in PTask, NEW r \in TaskRec, r.pc # "held", task' = [task EXCEPT ![t] = r],
         direct' = direct, reservation' = NoRes \/ (reservation' = reservation /\ Grown)
  PROVE  HoldersSound'
<1>1. task \in [PTask -> TaskRec] /\ Len(buf) \in Nat /\ reservation \in ResRec
  BY DEF PTypes
<1>2. task'[t] = r /\ \A u \in PTask : u # t => task'[u] = task[u]
  BY <1>1
<1>3. \A u \in PTask : task'[u].pc = "held" => task'[u] = task[u] /\ task[u].pc = "held"
  BY <1>2
<1>4. \A u \in PTask : task'[u].pc = "held" => task'[u].id # 0
  BY <1>3 DEF HoldersSound
<1>5. \A u, v \in PTask : task'[u].pc = "held" /\ task'[v].pc = "held" /\ task'[u].id = task'[v].id => u = v
  BY <1>3 DEF HoldersSound
<1>6. ASSUME NEW u \in PTask, task'[u].pc = "held", reservation'.id = task'[u].id
      PROVE  /\ reservation'.exposed \in 1 .. Len(buf') /\ task'[u].data = SubSeq(buf', 1, reservation'.exposed)
             /\ segments' # <<>> /\ reservation'.exposed <= reservation'.consume /\ reservation'.consume <= segments'[1].len
             /\ reservation'.packet = direct' /\ (~direct' => reservation'.consume = reservation'.exposed)
  <2>1. task'[u] = task[u] /\ task[u].pc = "held" /\ task[u].id # 0
    BY <1>3, <1>6 DEF HoldersSound
  <2>2. reservation' = reservation /\ Grown
    <3>1. reservation' # NoRes
      BY <1>6, <2>1 DEF NoRes
    <3> QED BY <3>1
  <2>3. reservation.id = task[u].id
    BY <1>6, <2>1, <2>2
  <2>4. /\ reservation.exposed \in 1 .. Len(buf) /\ task[u].data = SubSeq(buf, 1, reservation.exposed)
        /\ segments # <<>> /\ reservation.exposed <= reservation.consume /\ reservation.consume <= segments[1].len
        /\ reservation.packet = direct /\ (~direct => reservation.consume = reservation.exposed)
    BY <2>1, <2>3 DEF HoldersSound
  <2>5. reservation.consume \in Nat
    BY <1>1 DEF ResRec
  <2>6. /\ Len(buf') \in Nat /\ Len(buf) <= Len(buf') /\ \A m \in 0 .. Len(buf) : SubSeq(buf', 1, m) = SubSeq(buf, 1, m)
        /\ segments' # <<>> /\ segments[1].len \in Nat /\ segments'[1].len \in Nat /\ segments[1].len <= segments'[1].len
    BY <1>1, <2>2, <2>4 DEF Grown
  <2>7. reservation.exposed \in 1 .. Len(buf') /\ SubSeq(buf', 1, reservation.exposed) = SubSeq(buf, 1, reservation.exposed)
    BY <1>1, <2>4, <2>6
  <2>8. reservation.consume <= segments'[1].len
    BY <2>4, <2>5, <2>6
  <2> QED BY <2>1, <2>2, <2>4, <2>6, <2>7, <2>8
<1> QED BY <1>4, <1>5, <1>6 DEF HoldersSound

(* Who sleeps keeps his reason to, or is owed a wake by this step.               *)
LEMMA Sleepers ==
  ASSUME PTypes, NoSleeperForgotten, NEW t \in PTask, NEW r \in TaskRec, NEW q \in Seq(Ends), CallStep(t, r, q),
         r.pc \in {"rblocked", "lblocked"} => read_blocked', r.pc = "wblocked" => write_blocked(t)',
         read_blocked => read_blocked' \/ Has(q, "r"),
         \A u \in PTask : u # t /\ write_blocked(u) => write_blocked(u)' \/ Has(q, "w")
  PROVE  NoSleeperForgotten'
<1>1. task \in [PTask -> TaskRec] /\ todo \in [PTask -> Seq(Ends)]
  BY DEF PTypes
<1>2. task'[t] = r /\ todo'[t] = q /\ (\A u \in PTask : u # t => task'[u] = task[u] /\ todo'[u] = todo[u]) /\ todo[t] = <<>>
  BY <1>1 DEF CallStep
<1>3. \A e : Has(q, e) => Owed(e)'
  BY <1>2 DEF Owed, Has
<1>4. \A e : Owed(e) => Owed(e)'
  <2> SUFFICES ASSUME NEW e, Owed(e) PROVE Owed(e)'
    OBVIOUS
  <2>1. PICK u \in PTask : \E i \in 1 .. Len(todo[u]) : todo[u][i] = e
    BY DEF Owed
  <2>2. u # t
    BY <1>2, <2>1
  <2> QED BY <1>2, <2>1, <2>2 DEF Owed
<1> SUFFICES ASSUME NEW u \in PTask
             PROVE  /\ (task'[u].pc \in {"rblocked", "lblocked"} /\ ~read_blocked') => Owed("r")'
                    /\ (task'[u].pc = "wblocked" /\ ~write_blocked(u)') => Owed("w")'
  BY DEF NoSleeperForgotten
<1>5. CASE u = t
  BY <1>2, <1>5
<1>6. CASE u # t
  <2>1. task'[u].pc = task[u].pc
    BY <1>2, <1>6
  <2>2. ASSUME task[u].pc \in {"rblocked", "lblocked"}, ~read_blocked' PROVE Owed("r")'
    <3>1. ~read_blocked => Owed("r")
      BY <2>2 DEF NoSleeperForgotten
    <3> QED BY <1>3, <1>4, <2>2, <3>1
  <2>3. ASSUME task[u].pc = "wblocked", ~write_blocked(u)' PROVE Owed("w")'
    <3>1. ~write_blocked(u) => Owed("w")
      BY <2>3 DEF NoSleeperForgotten
    <3> QED BY <1>3, <1>4, <1>6, <2>3, <3>1
  <2> QED BY <2>1, <2>2, <2>3
<1> QED BY <1>5, <1>6

-----------------------------------------------------------------------------
(* Counting the endpoints.                                                     *)
LEMMA GainsEnd ==
  ASSUME PTypes, OpenAgrees, NEW t \in PTask, NEW e \in Ends, e \notin ends[t], refs' = [refs EXCEPT ![e] = @ + 1],
         open' = [open EXCEPT ![e] = TRUE], ends' = [ends EXCEPT ![t] = @ \cup {e}]
  PROVE  /\ OpenAgrees' /\ refs' \in [Ends -> Nat] /\ open' \in [Ends -> BOOLEAN] /\ ends' \in [PTask -> SUBSET Ends]
         /\ ends'[t] = ends[t] \cup {e} /\ \A u \in PTask : u # t => ends'[u] = ends[u]
         /\ \A x \in Ends : open[x] => open'[x]
<1>1. refs \in [Ends -> Nat] /\ open \in [Ends -> BOOLEAN] /\ ends \in [PTask -> SUBSET Ends] /\ IsFiniteSet(PTask)
  BY PipeAssumption DEF PTypes
<1>2. refs' \in [Ends -> Nat] /\ open' \in [Ends -> BOOLEAN] /\ ends' \in [PTask -> SUBSET Ends]
  BY <1>1
<1>3. ends'[t] = ends[t] \cup {e} /\ \A u \in PTask : u # t => ends'[u] = ends[u]
  BY <1>1
<1>4. ASSUME NEW x \in Ends
      PROVE  refs'[x] = Cardinality({u \in PTask : x \in ends'[u]}) /\ (open'[x] <=> refs'[x] # 0)
  <2>1. refs[x] = Cardinality({u \in PTask : x \in ends[u]}) /\ (open[x] <=> refs[x] # 0) /\ refs[x] \in Nat
    BY <1>1 DEF OpenAgrees
  <2>2. CASE x # e
    <3>1. {u \in PTask : x \in ends'[u]} = {u \in PTask : x \in ends[u]}
      BY <1>3, <2>2
    <3> QED BY <1>1, <2>1, <2>2, <3>1
  <2>3. CASE x = e
    <3>1. {u \in PTask : x \in ends'[u]} = {u \in PTask : x \in ends[u]} \cup {t}
      BY <1>3, <2>3
    <3>2. t \notin {u \in PTask : x \in ends[u]} /\ IsFiniteSet({u \in PTask : x \in ends[u]})
      BY <1>1, <2>3, FS_Subset
    <3>3. Cardinality({u \in PTask : x \in ends[u]} \cup {t}) = Cardinality({u \in PTask : x \in ends[u]}) + 1
      BY <3>2, FS_AddElement
    <3>4. refs'[x] = refs[x] + 1 /\ open'[x] /\ refs'[x] # 0
      BY <1>1, <2>1, <2>3
    <3>5. refs'[x] = Cardinality({u \in PTask : x \in ends'[u]})
      BY <2>1, <3>1, <3>3, <3>4, Zenon
    <3> QED BY <3>4, <3>5
  <2> QED BY <2>2, <2>3
<1>5. \A x \in Ends : open[x] => open'[x]
  BY <1>1
<1> QED BY <1>2, <1>3, <1>4, <1>5 DEF OpenAgrees

LEMMA LosesEnd ==
  ASSUME PTypes, OpenAgrees, NEW t \in PTask, NEW e \in Ends, e \in ends[t], refs' = [refs EXCEPT ![e] = @ - 1],
         open' = [open EXCEPT ![e] = refs[e] # 1], ends' = [ends EXCEPT ![t] = @ \ {e}]
  PROVE  /\ OpenAgrees' /\ refs' \in [Ends -> Nat] /\ open' \in [Ends -> BOOLEAN] /\ ends' \in [PTask -> SUBSET Ends]
         /\ ends'[t] = ends[t] \ {e} /\ \A u \in PTask : u # t => ends'[u] = ends[u]
         /\ \A x \in Ends : (x # e \/ refs[e] # 1) => open'[x] = open[x]
<1>1. refs \in [Ends -> Nat] /\ open \in [Ends -> BOOLEAN] /\ ends \in [PTask -> SUBSET Ends] /\ IsFiniteSet(PTask)
  BY PipeAssumption DEF PTypes
<1>2. open' \in [Ends -> BOOLEAN] /\ ends' \in [PTask -> SUBSET Ends]
  BY <1>1
<1>3. ends'[t] = ends[t] \ {e} /\ \A u \in PTask : u # t => ends'[u] = ends[u]
  BY <1>1
<1>4. \A x \in Ends : refs[x] = Cardinality({u \in PTask : x \in ends[u]}) /\ (open[x] <=> refs[x] # 0) /\ refs[x] \in Nat
  BY <1>1 DEF OpenAgrees
<1>5. refs[e] # 0
  <2>1. IsFiniteSet({u \in PTask : e \in ends[u]}) /\ t \in {u \in PTask : e \in ends[u]}
    BY <1>1, FS_Subset
  <2> QED BY <1>4, <2>1, FS_EmptySet
<1>6. refs' \in [Ends -> Nat]
  BY <1>1, <1>4, <1>5
<1>7. ASSUME NEW x \in Ends
      PROVE  refs'[x] = Cardinality({u \in PTask : x \in ends'[u]}) /\ (open'[x] <=> refs'[x] # 0)
  <2>1. refs[x] = Cardinality({u \in PTask : x \in ends[u]}) /\ (open[x] <=> refs[x] # 0) /\ refs[x] \in Nat
    BY <1>4
  <2>2. CASE x # e
    <3>1. {u \in PTask : x \in ends'[u]} = {u \in PTask : x \in ends[u]}
      BY <1>3, <2>2
    <3> QED BY <1>1, <2>1, <2>2, <3>1
  <2>3. CASE x = e
    <3>1. {u \in PTask : x \in ends'[u]} = {u \in PTask : x \in ends[u]} \ {t}
      BY <1>3, <2>3
    <3>2. t \in {u \in PTask : x \in ends[u]} /\ IsFiniteSet({u \in PTask : x \in ends[u]})
      BY <1>1, <2>3, FS_Subset
    <3>3. Cardinality({u \in PTask : x \in ends[u]} \ {t}) = Cardinality({u \in PTask : x \in ends[u]}) - 1
      BY <3>2, FS_RemoveElement
    <3>4. refs'[x] = refs[x] - 1 /\ (open'[x] <=> refs'[x] # 0)
      <4>1. open'[e] = (refs[e] # 1)
        BY <1>1, Zenon
      <4>2. refs'[e] = refs[e] - 1
        BY <1>1
      <4>3. refs[e] - 1 # 0 <=> refs[e] # 1
        BY <1>1
      <4> QED BY <2>3, <4>1, <4>2, <4>3, Zenon
    <3>5. refs'[x] = Cardinality({u \in PTask : x \in ends'[u]})
      BY <2>1, <3>1, <3>3, <3>4, Zenon
    <3> QED BY <3>4, <3>5
  <2> QED BY <2>2, <2>3
<1>8. \A x \in Ends : (x # e \/ refs[e] # 1) => open'[x] = open[x]
  <2> SUFFICES ASSUME NEW x \in Ends, x # e \/ refs[e] # 1 PROVE open'[x] = open[x]
    OBVIOUS
  <2>1. CASE x # e
    BY <1>1, <2>1
  <2>2. CASE x = e
    <3>1. refs[e] # 1 /\ open[e] = TRUE
      BY <1>1, <1>4, <1>5, <2>2
    <3>2. open'[e] = TRUE
      BY <1>1, <3>1
    <3> QED BY <2>2, <3>1, <3>2
  <2> QED BY <2>1, <2>2
<1> QED BY <1>2, <1>3, <1>6, <1>7, <1>8 DEF OpenAgrees

-----------------------------------------------------------------------------
(* A step that only moves a call on.                                           *)
LEMMA MovesOn ==
  ASSUME PInv, NEW t \in PTask, NEW r \in TaskRec, r.pc # "held", todo[t] = <<>>, task' = [task EXCEPT ![t] = r],
         UNCHANGED state, UNCHANGED <<ends, todo>>, r.pc \in Transfers => r.n # 0,
         r.pc \in {"rblocked", "lblocked"} => read_blocked, r.pc = "wblocked" => write_blocked(t)',
         r.pc \in {"openr", "openrblocked"} => "r" \in ends[t], r.pc \in {"openw", "openwblocked"} => "w" \in ends[t]
  PROVE  PInv'
<1>1. /\ UNCHANGED <<buf, cap, segments, direct, reservation, refs, open, seq, out, ends, todo>>
      /\ UNCHANGED buf /\ UNCHANGED <<buf, segments>>
  BY DEF state
<1>2. PTypes /\ Pieces /\ HoldersSound /\ CallsSound /\ OpenAgrees /\ NoSleeperForgotten
  BY DEF PInv
<1>3. todo \in [PTask -> Seq(Ends)] /\ task \in [PTask -> TaskRec] /\ ends \in [PTask -> SUBSET Ends]
  BY <1>2 DEF PTypes
<1> DEFINE q == <<>>
<1>4. q \in Seq(Ends) /\ Len(q) = 0 /\ todo' = [todo EXCEPT ![t] = q]
  BY <1>1, <1>3
<1>5. CallStep(t, r, q)
  BY <1>4 DEF CallStep
<1>14. /\ ends' \in [PTask -> SUBSET Ends] /\ \A u \in PTask : u # t => ends'[u] = ends[u]
       /\ r.pc \in {"openr", "openrblocked"} => "r" \in ends'[t]
       /\ r.pc \in {"openw", "openwblocked"} => "w" \in ends'[t]
       /\ Len(q) <= 2
  BY <1>1, <1>3
<1>6. task' \in [PTask -> TaskRec] /\ CallsSound'
  BY <1>2, <1>4, <1>5, <1>14, CallStepKeeps
<1>7. HoldersSound'
  BY <1>1, <1>2, SameGrown, HoldersKept
<1>8. read_blocked' = read_blocked
  BY <1>1 DEF read_blocked, is_empty
<1>9. \A u \in PTask : u # t => task'[u] = task[u]
  BY <1>3
<1>10. \A u \in PTask : u # t => write_blocked(u)' = write_blocked(u)
  BY <1>1, <1>9 DEF write_blocked, free_len, packet_len
<1>11. NoSleeperForgotten'
  BY <1>2, <1>4, <1>5, <1>8, <1>10, Sleepers
<1>12. PTypes'
  BY <1>1, <1>2, <1>6 DEF PTypes
<1>13. Pieces' /\ OpenAgrees'
  BY <1>1, <1>2 DEF Pieces, OpenAgrees, Totals
<1> QED BY <1>6, <1>7, <1>11, <1>12, <1>13 DEF PInv

LEMMA CallFields ==
  ASSUME NEW c \in TaskRec, NEW p \in PcSet, NEW n \in 0 .. PMaxLen
  PROVE  /\ [c EXCEPT !.pc = p] \in TaskRec /\ [c EXCEPT !.pc = p].pc = p /\ [c EXCEPT !.pc = p].n = c.n
         /\ [c EXCEPT !.n = n] \in TaskRec /\ [c EXCEPT !.n = n].pc = c.pc /\ [c EXCEPT !.n = n].n = n
         /\ Off \in TaskRec /\ Off.pc = "user"
         /\ [Off EXCEPT !.pc = p, !.n = n] \in TaskRec /\ [Off EXCEPT !.pc = p, !.n = n].pc = p
         /\ [Off EXCEPT !.pc = p, !.n = n].n = n
<1>1. PMaxLen \in Nat /\ 0 \in 0 .. PMaxLen
  BY PipeAssumption
<1>2. "user" \in PcSet /\ <<>> \in Seq(Byte)
  BY DEF PcSet
<1>3. Off \in TaskRec /\ Off.pc = "user"
  BY <1>1, <1>2 DEF Off, TaskRec
<1>4. [c EXCEPT !.pc = p] \in TaskRec /\ [c EXCEPT !.pc = p].pc = p /\ [c EXCEPT !.pc = p].n = c.n
  BY DEF TaskRec
<1>5. [c EXCEPT !.n = n] \in TaskRec /\ [c EXCEPT !.n = n].pc = c.pc /\ [c EXCEPT !.n = n].n = n
  BY DEF TaskRec
<1>6. [Off EXCEPT !.pc = p, !.n = n] \in TaskRec /\ [Off EXCEPT !.pc = p, !.n = n].pc = p
      /\ [Off EXCEPT !.pc = p, !.n = n].n = n
  BY <1>3 DEF TaskRec
<1> QED BY <1>3, <1>4, <1>5, <1>6

LEMMA GoMoves ==
  ASSUME PInv, NEW t \in PTask, NEW p \in PcSet, p # "held", todo[t] = <<>>, Go(t, p),
         UNCHANGED state, UNCHANGED <<ends, todo>>, p \in Transfers => task[t].n # 0,
         p \in {"rblocked", "lblocked"} => read_blocked, p = "wblocked" => write_blocked(t),
         p \in {"openr", "openrblocked"} => "r" \in ends[t], p \in {"openw", "openwblocked"} => "w" \in ends[t]
  PROVE  PInv'
<1> DEFINE r == [task[t] EXCEPT !.pc = p]
<1>1. task \in [PTask -> TaskRec] /\ task[t] \in TaskRec
  BY DEF PInv, PTypes
<1>2. 0 \in 0 .. PMaxLen
  BY PipeAssumption
<1>3. r \in TaskRec /\ r.pc = p /\ r.n = task[t].n
  BY <1>1, <1>2, CallFields
<1>4. task' = [task EXCEPT ![t] = r]
  BY <1>1 DEF Go
<1> HIDE DEF r
<1>5. task'[t].n = task[t].n
  BY <1>1, <1>3, <1>4
<1>6. write_blocked(t)' = write_blocked(t)
  BY <1>5 DEF write_blocked, free_len, packet_len, state
<1> QED BY <1>3, <1>4, <1>6, MovesOn

LEMMA StartMoves ==
  ASSUME PInv, NEW t \in PTask, NEW p \in {"read", "lease", "write"}, NEW n \in 1 .. PMaxLen, todo[t] = <<>>, Start(t, p, n),
         UNCHANGED state, UNCHANGED <<ends, todo>>
  PROVE  PInv'
<1> DEFINE r == [Off EXCEPT !.pc = p, !.n = n]
<1>1. task \in [PTask -> TaskRec] /\ task[t] \in TaskRec
  BY DEF PInv, PTypes
<1>2. n \in 0 .. PMaxLen /\ n # 0 /\ p \in PcSet
  BY PipeAssumption DEF PcSet, Transfers
<1>3. r \in TaskRec /\ r.pc = p /\ r.n = n
  BY <1>1, <1>2, CallFields
<1>4. task' = [task EXCEPT ![t] = r]
  BY DEF Start
<1> HIDE DEF r
<1> QED BY <1>2, <1>3, <1>4, MovesOn

LEMMA EndMoves ==
  ASSUME PInv, NEW t \in PTask, todo[t] = <<>>, End(t), UNCHANGED state, UNCHANGED <<ends, todo>>
  PROVE  PInv'
<1>1. task \in [PTask -> TaskRec] /\ task[t] \in TaskRec
  BY DEF PInv, PTypes
<1>2. 0 \in 0 .. PMaxLen /\ "user" \in PcSet
  BY PipeAssumption DEF PcSet
<1>3. Off \in TaskRec /\ Off.pc = "user"
  BY <1>1, <1>2, CallFields
<1>4. task' = [task EXCEPT ![t] = Off]
  BY DEF End
<1> HIDE DEF Off
<1> QED BY <1>3, <1>4, MovesOn DEF Transfers

(* What is known of a call that is at p.                                       *)
LEMMA AtFacts ==
  ASSUME PInv, NEW t \in PTask
  PROVE  /\ task[t] \in TaskRec /\ task[t].n \in 0 .. PMaxLen /\ task[t].n \in Nat
         /\ task[t].pc \in Transfers => task[t].n # 0
         /\ task[t].pc \in Waits => todo[t] = <<>>
         /\ task[t].pc \in {"openr", "openrblocked"} => "r" \in ends[t]
         /\ task[t].pc \in {"openw", "openwblocked"} => "w" \in ends[t]
         /\ \A p : At(t, p) => todo[t] = <<>> /\ task[t].pc = p
<1>1. task[t] \in TaskRec
  BY DEF PInv, PTypes
<1>2. task[t].n \in 0 .. PMaxLen
  BY <1>1 DEF TaskRec
<1> QED BY <1>1, <1>2, PipeAssumption DEF PInv, CallsSound, At, Idle

(* The steps that only move a call on.                                         *)
LEMMA MovingSteps ==
  ASSUME PInv, NEW t \in PTask,
         \/ \E n \in 1 .. PMaxLen : read(t, n) \/ read_lease(t, n) \/ write(t, n)
         \/ (try_read(t) /\ (read_blocked \/ is_empty)) \/ (acquire_read_lease(t) /\ (read_blocked \/ is_empty))
         \/ ReadSleep(t) \/ LeaseSleep(t) \/ BrokenPipe(t) \/ WouldBlock(t) \/ write_mode(t)
         \/ wait_for_writer(t) \/ wait_for_reader(t)
  PROVE  PInv' /\ UNCHANGED <<buf, direct, out>>
<1>1. ASSUME NEW n \in 1 .. PMaxLen, read(t, n) \/ read_lease(t, n) \/ write(t, n) PROVE PInv' /\ UNCHANGED state
  <2>1. todo[t] = <<>> /\ UNCHANGED state /\ UNCHANGED <<ends, todo>>
        /\ (Start(t, "read", n) \/ Start(t, "lease", n) \/ Start(t, "write", n))
    BY <1>1, AtFacts DEF read, read_lease, write
  <2> QED BY <2>1, StartMoves
<1>2. ASSUME try_read(t), read_blocked \/ is_empty PROVE PInv' /\ UNCHANGED state
  <2>1. todo[t] = <<>> /\ task[t].n # 0 /\ UNCHANGED state /\ UNCHANGED <<ends, todo>> /\ (Go(t, "rsleep") \/ End(t))
    BY <1>2, AtFacts DEF try_read, Transfers
  <2> QED BY <2>1, GoMoves, EndMoves DEF PcSet, Transfers
<1>3. ASSUME acquire_read_lease(t), read_blocked \/ is_empty PROVE PInv' /\ UNCHANGED state
  <2>1. todo[t] = <<>> /\ task[t].n # 0 /\ UNCHANGED <<ends, todo>> /\ (Go(t, "lsleep") \/ End(t))
    BY <1>3, AtFacts DEF acquire_read_lease, Transfers
  <2>2. UNCHANGED state
    BY <1>3 DEF acquire_read_lease, state
  <2> QED BY <2>1, <2>2, GoMoves, EndMoves DEF PcSet, Transfers
<1>4. ASSUME ReadSleep(t) PROVE PInv' /\ UNCHANGED state
  <2>1. todo[t] = <<>> /\ task[t].n # 0 /\ UNCHANGED state /\ UNCHANGED <<ends, todo>>
        /\ Go(t, IF read_blocked THEN "rblocked" ELSE "read")
    BY <1>4, AtFacts DEF ReadSleep, Transfers
  <2> QED BY <2>1, GoMoves DEF PcSet, Transfers
<1>5. ASSUME LeaseSleep(t) PROVE PInv' /\ UNCHANGED state
  <2>1. todo[t] = <<>> /\ task[t].n # 0 /\ UNCHANGED state /\ UNCHANGED <<ends, todo>>
        /\ Go(t, IF read_blocked THEN "lblocked" ELSE "lease")
    BY <1>5, AtFacts DEF LeaseSleep, Transfers
  <2> QED BY <2>1, GoMoves DEF PcSet, Transfers
<1>6. ASSUME BrokenPipe(t) PROVE PInv' /\ UNCHANGED state
  <2>1. todo[t] = <<>> /\ UNCHANGED state /\ UNCHANGED <<ends, todo>> /\ End(t)
    BY <1>6, AtFacts DEF BrokenPipe
  <2> QED BY <2>1, EndMoves
<1>7. ASSUME WouldBlock(t) PROVE PInv' /\ UNCHANGED state
  <2>1. todo[t] = <<>> /\ task[t].n # 0 /\ UNCHANGED state /\ UNCHANGED <<ends, todo>> /\ Go(t, "wsleep")
    BY <1>7, AtFacts DEF WouldBlock, Transfers
  <2> QED BY <2>1, GoMoves DEF PcSet, Transfers
<1>8. ASSUME write_mode(t) PROVE PInv' /\ UNCHANGED state
  <2>1. todo[t] = <<>> /\ task[t].n # 0 /\ UNCHANGED state /\ UNCHANGED <<ends, todo>>
        /\ Go(t, IF write_blocked(t) THEN "wblocked" ELSE "write")
    BY <1>8, AtFacts DEF write_mode, Transfers
  <2> QED BY <2>1, GoMoves DEF PcSet, Transfers
<1>9. ASSUME wait_for_writer(t) PROVE PInv' /\ UNCHANGED state
  <2>1. todo[t] = <<>> /\ "r" \in ends[t] /\ UNCHANGED state /\ UNCHANGED <<ends, todo>>
        /\ Go(t, IF refs["w"] = 0 THEN "openrblocked" ELSE "user")
    BY <1>9, AtFacts DEF wait_for_writer
  <2> QED BY <2>1, GoMoves DEF PcSet, Waits, Transfers
<1>10. ASSUME wait_for_reader(t) PROVE PInv' /\ UNCHANGED state
  <2>1. todo[t] = <<>> /\ "w" \in ends[t] /\ UNCHANGED state /\ UNCHANGED <<ends, todo>>
        /\ Go(t, IF refs["r"] = 0 THEN "openwblocked" ELSE "user")
    BY <1>10, AtFacts DEF wait_for_reader
  <2> QED BY <2>1, GoMoves DEF PcSet, Waits, Transfers
<1>11. PInv' /\ UNCHANGED state
  BY <1>1, <1>2, <1>3, <1>4, <1>5, <1>6, <1>7, <1>8, <1>9, <1>10
<1> QED BY <1>11 DEF state

-----------------------------------------------------------------------------
(* wake_all wakes whoever sleeps on its queue; what it pays is owed no more.    *)
LEMMA WakeStep ==
  ASSUME PInv, NEW t \in PTask, wake_all(t)
  PROVE  PInv' /\ UNCHANGED <<buf, direct, out>>
<1>1. PTypes /\ Pieces /\ HoldersSound /\ CallsSound /\ OpenAgrees /\ NoSleeperForgotten
  BY DEF PInv
<1>2. task \in [PTask -> TaskRec] /\ todo \in [PTask -> Seq(Ends)] /\ \A u \in PTask : Len(todo[u]) <= 2
  BY <1>1 DEF PTypes
<1>3. UNCHANGED <<buf, cap, segments, direct, reservation, refs, open, seq, out, ends>>
  BY DEF wake_all, state
<1> DEFINE e == Head(todo[t])
<1>4. todo[t] # <<>> /\ todo[t] \in Seq(Ends) /\ e \in Ends
  BY <1>2 DEF wake_all, Idle
<1>5. todo' \in [PTask -> Seq(Ends)] /\ todo'[t] = Tail(todo[t]) /\ \A u \in PTask : u # t => todo'[u] = todo[u]
  BY <1>2, <1>4 DEF wake_all
<1>6. \A u \in PTask : Len(todo'[u]) <= 2
  <2>1. Tail(todo[t]) \in Seq(Ends) /\ Len(Tail(todo[t])) = Len(todo[t]) - 1
    BY <1>4
  <2>2. Len(todo[t]) <= 2 /\ Len(todo[t]) \in Nat
    BY <1>2
  <2>3. Len(todo'[t]) <= 2
    BY <1>5, <2>1, <2>2
  <2> QED BY <1>2, <1>5, <2>3
<1>7. \A u \in PTask : task'[u] = IF task[u].pc \in Asleep(e) THEN [task[u] EXCEPT !.pc = Awake(@)] ELSE task[u]
  BY DEF wake_all
<1>8. \A x \in Ends : Asleep(x) \subseteq Waits
  BY DEF Asleep, Waits, Ends
<1> HIDE DEF e
<1>9. ASSUME NEW u \in PTask
      PROVE  /\ task'[u] \in TaskRec
             /\ task[u].pc \notin Asleep(e) => task'[u] = task[u]
             /\ task[u].pc \in Asleep(e) =>
                  task'[u].n = task[u].n /\ task'[u].pc \in {"read", "lease", "write", "user"}
                  /\ (task'[u].pc # "user" => task[u].pc \in Transfers)
  <2>1. CASE task[u].pc \notin Asleep(e)
    BY <1>2, <1>7, <2>1
  <2>2. CASE task[u].pc \in Asleep(e)
    <3> DEFINE p == Awake(task[u].pc)
    <3>1. p \in {"read", "lease", "write", "user"} /\ (p # "user" => task[u].pc \in Transfers)
      BY DEF Awake, Transfers
    <3>5. task'[u] = [task[u] EXCEPT !.pc = p]
      BY <1>7, <2>2
    <3>2. task'[u] = [task[u] EXCEPT !.pc = p] /\ task[u] \in TaskRec /\ 0 \in 0 .. PMaxLen
      <4> HIDE DEF p
      <4> QED BY <1>2, <3>5, PipeAssumption
    <3>3. p \in PcSet
      BY <3>1 DEF PcSet, Transfers
    <3> HIDE DEF p
    <3>4. [task[u] EXCEPT !.pc = p] \in TaskRec /\ [task[u] EXCEPT !.pc = p].pc = p /\ [task[u] EXCEPT !.pc = p].n = task[u].n
      BY <3>2, <3>3, CallFields
    <3> QED BY <2>2, <3>1, <3>2, <3>4
  <2> QED BY <2>1, <2>2
<1>10. task' \in [PTask -> TaskRec]
  <2>1. task' = [u \in PTask |-> task'[u]]
    BY DEF wake_all
  <2> QED BY <1>9, <2>1
<1>11. \A u \in PTask : task'[u].pc \in Waits \cup {"held", "openr", "openw"} => task'[u] = task[u]
  BY <1>9 DEF Waits
<1>12. CallsSound'
  <2> SUFFICES ASSUME NEW u \in PTask
               PROVE  /\ task'[u].pc \in Waits => todo'[u] = <<>>
                      /\ task'[u].pc \in Transfers => task'[u].n # 0
                      /\ task'[u].pc \in {"openr", "openrblocked"} => "r" \in ends'[u]
                      /\ task'[u].pc \in {"openw", "openwblocked"} => "w" \in ends'[u]
    BY DEF CallsSound
  <2>1. task'[u].pc \in Waits => todo'[u] = <<>>
    BY <1>1, <1>4, <1>5, <1>11 DEF CallsSound
  <2>2. task'[u].pc \in Transfers => task'[u].n # 0
    BY <1>1, <1>9 DEF CallsSound, Transfers
  <2>3. task'[u].pc \in {"openr", "openrblocked"} => "r" \in ends'[u]
    BY <1>1, <1>3, <1>11 DEF CallsSound, Waits
  <2>4. task'[u].pc \in {"openw", "openwblocked"} => "w" \in ends'[u]
    BY <1>1, <1>3, <1>11 DEF CallsSound, Waits
  <2> QED BY <2>1, <2>2, <2>3, <2>4
<1>13. HoldersSound'
  <2>1. \A u \in PTask : task'[u].pc = "held" => task'[u] = task[u]
    BY <1>11
  <2> QED BY <1>1, <1>3, <2>1 DEF HoldersSound
<1>14. ASSUME NEW x \in Ends, x # e, Owed(x) PROVE Owed(x)'
  <2>1. PICK u \in PTask : \E i \in 1 .. Len(todo[u]) : todo[u][i] = x
    BY <1>14 DEF Owed
  <2>2. PICK i \in 1 .. Len(todo[u]) : todo[u][i] = x
    BY <2>1
  <2>3. CASE u # t
    BY <1>5, <2>2, <2>3 DEF Owed
  <2>4. CASE u = t
    <3>1. i # 1
      BY <1>4, <1>14, <2>2, <2>4 DEF e
    <3>2. i - 1 \in 1 .. Len(Tail(todo[t])) /\ Tail(todo[t])[i - 1] = x
      BY <1>4, <2>2, <2>4, <3>1
    <3> QED BY <1>5, <3>2 DEF Owed
  <2> QED BY <2>3, <2>4
<1>15. NoSleeperForgotten'
  <2> SUFFICES ASSUME NEW u \in PTask
               PROVE  /\ (task'[u].pc \in {"rblocked", "lblocked"} /\ ~read_blocked') => Owed("r")'
                      /\ (task'[u].pc = "wblocked" /\ ~write_blocked(u)') => Owed("w")'
    BY DEF NoSleeperForgotten
  <2>1. read_blocked' = read_blocked
    BY <1>3 DEF read_blocked, is_empty
  <2>2. task'[u].pc \in Waits => task'[u] = task[u] /\ task[u].pc \notin Asleep(e)
    BY <1>9 DEF Waits
  <2>3. ASSUME task'[u].pc \in {"rblocked", "lblocked"}, ~read_blocked PROVE Owed("r")'
    <3>1. task[u].pc \in {"rblocked", "lblocked"} /\ task[u].pc \notin Asleep(e)
      BY <2>2, <2>3 DEF Waits
    <3>2. Owed("r") /\ e # "r"
      BY <1>1, <2>3, <3>1 DEF NoSleeperForgotten, Asleep
    <3> QED BY <1>14, <3>2 DEF Ends
  <2>4. ASSUME task'[u].pc = "wblocked", ~write_blocked(u)' PROVE Owed("w")'
    <3>1. task'[u] = task[u] /\ task[u].pc = "wblocked" /\ task[u].pc \notin Asleep(e)
      BY <2>2, <2>4 DEF Waits
    <3>2. write_blocked(u)' = write_blocked(u)
      BY <1>3, <3>1 DEF write_blocked, free_len, packet_len
    <3>3. Owed("w") /\ e # "w"
      BY <1>1, <1>4, <2>4, <3>1, <3>2 DEF NoSleeperForgotten, Asleep
    <3> QED BY <1>14, <3>3 DEF Ends
  <2> QED BY <2>1, <2>3, <2>4
<1>16. PTypes'
  BY <1>1, <1>3, <1>5, <1>6, <1>10 DEF PTypes
<1>17. Pieces' /\ OpenAgrees'
  BY <1>1, <1>3 DEF Pieces, OpenAgrees, Totals
<1> QED BY <1>3, <1>12, <1>13, <1>15, <1>16, <1>17 DEF PInv

-----------------------------------------------------------------------------
(* A step that leaves the endpoints alone.                                     *)
LEMMA DataStep ==
  ASSUME PInv, NEW t \in PTask, NEW r \in TaskRec, NEW q \in Seq(Ends), Len(q) <= 2, CallStep(t, r, q),
         r.pc \in {"user", "write", "held"}, r.pc = "write" => r.n # 0,
         buf' \in Seq(Byte), Len(buf') <= cap, segments' \in Seq(SegRec), Pieces', seq' \in Byte,
         UNCHANGED <<cap, direct, refs, open, ends>>, reservation' \in ResRec, HoldersSound',
         read_blocked => read_blocked' \/ Has(q, "r"),
         \A u \in PTask : u # t /\ write_blocked(u) => write_blocked(u)' \/ Has(q, "w")
  PROVE  PInv'
<1>1. PTypes /\ CallsSound /\ OpenAgrees /\ NoSleeperForgotten
  BY DEF PInv
<1>2. /\ ends' \in [PTask -> SUBSET Ends] /\ \A u \in PTask : u # t => ends'[u] = ends[u]
      /\ r.pc \notin Waits /\ r.pc \notin {"openr", "openrblocked"} /\ r.pc \notin {"openw", "openwblocked"}
      /\ r.pc \notin {"rblocked", "lblocked"} /\ r.pc # "wblocked" /\ (r.pc \in Transfers => r.n # 0)
  BY <1>1 DEF PTypes, Waits, Transfers
<1>3. /\ task' \in [PTask -> TaskRec] /\ todo' \in [PTask -> Seq(Ends)]
      /\ \A u \in PTask : Len(todo'[u]) <= 2
      /\ CallsSound'
  BY <1>1, <1>2, CallStepKeeps
<1>4. NoSleeperForgotten'
  BY <1>1, <1>2, Sleepers
<1>5. OpenAgrees'
  BY <1>1 DEF OpenAgrees
<1>6. PTypes'
  BY <1>1, <1>2, <1>3 DEF PTypes
<1> QED BY <1>3, <1>4, <1>5, <1>6 DEF PInv

(* A plan stays within the first segment.                                      *)
LEMMA PlanFacts ==
  ASSUME PTypes, Pieces, ~is_empty, NEW m \in Nat \ {0}
  PROVE  /\ segments # <<>> /\ read_plan(m).exposed \in 1 .. Len(buf) /\ read_plan(m).consume \in 1 .. Len(buf)
         /\ read_plan(m).exposed <= read_plan(m).consume /\ read_plan(m).consume <= segments[1].len
         /\ read_plan(m).packet = direct /\ (~direct => read_plan(m).consume = read_plan(m).exposed)
<1>1. buf \in Seq(Byte) /\ Len(buf) \in Nat /\ Len(buf) # 0 /\ direct \in BOOLEAN
  BY DEF PTypes, is_empty
<1>2. segments # <<>> /\ Head(segments) = segments[1] /\ segments[1] \in SegRec /\ segments[1].len <= Len(buf)
      /\ segments[1].packet = direct
  BY <1>1, FirstPiece
<1>3. segments[1].len \in Nat \ {0}
  BY <1>2 DEF SegRec
<1> DEFINE l == segments[1].len
           x == PMin(l, m)
<1>4. x \in 1 .. l /\ x > 0
  BY <1>3 DEF PMin
<1>5. read_plan(m) = [exposed |-> x, consume |-> IF direct THEN l ELSE x, packet |-> direct]
  <2>1. Head(segments).len = l /\ Head(segments).packet = direct /\ segments # <<>>
    BY <1>2
  <2>2. (segments # <<>> /\ Head(segments).packet) = direct
    BY <1>1, <2>1
  <2>3. (IF segments = <<>> THEN 0 ELSE PMin(Head(segments).len, m)) = x
    BY <2>1
  <2> HIDE DEF x, l
  <2>4. (IF x > 0 /\ Head(segments).packet THEN Head(segments).len ELSE x) = IF direct THEN l ELSE x
    BY <1>4, <2>1
  <2> QED BY <2>2, <2>3, <2>4, Zenon DEF read_plan
<1> HIDE DEF x, l
<1>6. read_plan(m).exposed = x /\ read_plan(m).consume = (IF direct THEN l ELSE x) /\ read_plan(m).packet = direct
  BY <1>5
<1>7. l \in Nat \ {0} /\ l <= Len(buf)
  BY <1>2, <1>3 DEF l
<1>8. segments[1].len = l
  BY DEF l
<1> QED BY <1>1, <1>2, <1>4, <1>6, <1>7, <1>8

LEMMA NoResType == NoRes \in ResRec
BY DEF NoRes, ResRec

(* Reading at once.                                                            *)
LEMMA TakeStep ==
  ASSUME PInv, NEW t \in PTask, try_read(t), ~read_blocked, ~is_empty
  PROVE  /\ PInv' /\ UNCHANGED direct
         /\ \E n \in 1 .. Len(buf) : \E d \in n .. (IF direct THEN Len(buf) ELSE n) :
              out' = SubSeq(buf, 1, n) /\ buf' = SubSeq(buf, d + 1, Len(buf))
<1>1. PTypes /\ Pieces /\ HoldersSound /\ CallsSound /\ OpenAgrees /\ NoSleeperForgotten
  BY DEF PInv
<1>2. task[t].n \in Nat \ {0} /\ todo[t] = <<>>
  BY AtFacts DEF try_read, Transfers
<1> DEFINE m == task[t].n
           p == read_plan(m)
<1>3. /\ out' = copy_head(p.exposed) /\ consume(p.consume) /\ End(t) /\ Wake(t, <<"w">>)
      /\ UNCHANGED <<cap, direct, reservation, refs, open, seq, ends>>
  BY DEF try_read
<1>4. /\ segments # <<>> /\ p.exposed \in 1 .. Len(buf) /\ p.consume \in 1 .. Len(buf)
      /\ p.exposed <= p.consume /\ p.consume <= segments[1].len /\ (~direct => p.consume = p.exposed)
  BY <1>1, <1>2, PlanFacts
<1> HIDE DEF p
<1>5. p.consume \in Nat /\ Len(buf) \in Nat /\ cap \in Nat /\ Len(buf) <= cap
  BY <1>1, <1>4, PipeAssumption DEF PTypes
<1>6. /\ buf' \in Seq(Byte) /\ Len(buf') = Len(buf) - p.consume /\ segments' \in Seq(SegRec) /\ Pieces'
      /\ buf' = SubSeq(buf, p.consume + 1, Len(buf))
  BY <1>1, <1>3, <1>4, <1>5, ConsumePieces
<1>7. Len(buf') <= cap
  BY <1>4, <1>5, <1>6
<1>8. CallStep(t, Off, <<"w">>) /\ <<"w">> \in Seq(Ends) /\ Len(<<"w">>) <= 2 /\ Has(<<"w">>, "w")
  <2>1. Len(<<"w">>) = 1 /\ <<"w">>[1] = "w" /\ <<"w">> \in Seq(Ends)
    BY DEF Ends
  <2> QED BY <1>2, <1>3, <2>1 DEF CallStep, End, Wake, Has
<1>9. Off \in TaskRec /\ Off.pc = "user"
  <2>1. task[t] \in TaskRec /\ 0 \in 0 .. PMaxLen /\ "user" \in PcSet
    BY AtFacts, PipeAssumption DEF PcSet
  <2> QED BY <2>1, CallFields
<1>10. reservation = NoRes /\ reservation' = NoRes /\ reservation' \in ResRec /\ seq' \in Byte
  BY <1>1, <1>3, NoResType DEF read_blocked, PTypes
<1>11. HoldersSound'
  BY <1>1, <1>3, <1>9, <1>10, HoldersKept DEF End
<1>12. PInv'
  BY <1>3, <1>6, <1>7, <1>8, <1>9, <1>10, <1>11, DataStep
<1>13. out' = SubSeq(buf, 1, p.exposed)
  BY <1>3 DEF copy_head
<1>14. p.consume \in p.exposed .. (IF direct THEN Len(buf) ELSE p.exposed)
  BY <1>4, <1>5
<1> QED BY <1>3, <1>4, <1>6, <1>12, <1>13, <1>14

(* Taking a lease.                                                             *)
LEMMA FreshOne ==
  ASSUME PInv
  PROVE  FreshId \in Nat \ {0} /\ \A u \in PTask : task[u].id # FreshId
<1>1. IsFiniteSet(PTask) /\ task \in [PTask -> TaskRec]
  BY PipeAssumption DEF PInv, PTypes
<1> DEFINE used == {task[u].id : u \in PTask}
           f == [u \in PTask |-> task[u].id]
           N == Cardinality(PTask)
<1>2. f \in Surjection(PTask, used)
  BY DEF Surjection
<1>3. IsFiniteSet(used) /\ Cardinality(used) <= N /\ Cardinality(used) \in Nat /\ N \in Nat
  BY <1>1, <1>2, FS_Surjection, FS_CardinalityType
<1> HIDE DEF used, f
<1>4. IsFiniteSet(1 .. N + 1) /\ Cardinality(1 .. N + 1) = N + 1
  <2>1. N + 1 \in Int /\ 1 \in Int /\ ~(1 > N + 1) /\ (N + 1) - 1 + 1 = N + 1
    BY <1>3
  <2> HIDE DEF N
  <2> QED BY <2>1, FS_Interval
<1>5. ~(1 .. N + 1 \subseteq used)
  <2> SUFFICES ASSUME 1 .. N + 1 \subseteq used PROVE FALSE
    OBVIOUS
  <2>1. Cardinality(1 .. N + 1) <= Cardinality(used)
    BY <1>3, FS_Subset
  <2> QED BY <1>3, <1>4, <2>1
<1>6. \E i \in 1 .. N + 1 : \A u \in PTask : task[u].id # i
  BY <1>5 DEF used
<1>7. FreshId \in 1 .. N + 1 /\ \A u \in PTask : task[u].id # FreshId
  BY <1>6 DEF FreshId
<1> QED BY <1>3, <1>7

LEMMA LeaseStep ==
  ASSUME PInv, NEW t \in PTask, acquire_read_lease(t), ~read_blocked, ~is_empty
  PROVE  PInv' /\ UNCHANGED <<buf, direct, out>>
<1>1. PTypes /\ Pieces /\ HoldersSound /\ CallsSound /\ OpenAgrees /\ NoSleeperForgotten
  BY DEF PInv
<1>2. task[t].n \in Nat \ {0} /\ todo[t] = <<>> /\ task[t] \in TaskRec /\ task[t].pc = "lease"
  BY AtFacts DEF acquire_read_lease, Transfers
<1>3. UNCHANGED <<ends, todo, buf, cap, direct, segments, refs, open, seq, out>> /\ begin_read(t)
  BY DEF acquire_read_lease
<1> DEFINE m == task[t].n
           p == read_plan(m)
           i == FreshId
           r == [task[t] EXCEPT !.pc = "held", !.id = i, !.data = copy_head(p.exposed)]
<1>4. /\ segments # <<>> /\ p.exposed \in 1 .. Len(buf) /\ p.consume \in 1 .. Len(buf) /\ p.packet = direct
      /\ p.exposed <= p.consume /\ p.consume <= segments[1].len /\ (~direct => p.consume = p.exposed)
  BY <1>1, <1>2, PlanFacts
<1>5. i \in Nat \ {0} /\ \A u \in PTask : task[u].id # i
  BY FreshOne
<1>6. /\ reservation' = [id |-> i, exposed |-> p.exposed, consume |-> p.consume, packet |-> p.packet]
      /\ task' = [task EXCEPT ![t] = r]
  BY <1>3 DEF begin_read
<1> HIDE DEF p, i
<1>7. buf \in Seq(Byte) /\ Len(buf) \in Nat /\ direct \in BOOLEAN /\ task \in [PTask -> TaskRec] /\ seq \in Byte
      /\ Len(buf) <= cap /\ todo \in [PTask -> Seq(Ends)] /\ segments \in Seq(SegRec)
  BY <1>1 DEF PTypes
<1>8. copy_head(p.exposed) \in Seq(Byte) /\ copy_head(p.exposed) = SubSeq(buf, 1, p.exposed)
  BY <1>4, <1>7 DEF copy_head
<1>9. /\ reservation' \in ResRec /\ reservation'.id = i /\ reservation'.exposed = p.exposed
      /\ reservation'.consume = p.consume /\ reservation'.packet = direct
  BY <1>4, <1>5, <1>6, <1>7 DEF ResRec
<1>10. r \in TaskRec /\ r.pc = "held" /\ r.id = i /\ r.data = copy_head(p.exposed)
  <2>1. "held" \in PcSet
    BY DEF PcSet
  <2> QED BY <1>2, <1>5, <1>8, <2>1 DEF TaskRec
<1> HIDE DEF r
<1>11. task'[t] = r /\ \A u \in PTask : u # t => task'[u] = task[u]
  BY <1>6, <1>7
<1>12. HoldersSound'
  <2>1. \A u \in PTask : task'[u].pc = "held" => task'[u].id # 0
    BY <1>1, <1>5, <1>10, <1>11 DEF HoldersSound
  <2>2. \A u \in PTask : task'[u].pc = "held" /\ task'[u].id = i => u = t
    BY <1>5, <1>11
  <2>3. \A u, v \in PTask : task'[u].pc = "held" /\ task'[v].pc = "held" /\ task'[u].id = task'[v].id => u = v
    <3> SUFFICES ASSUME NEW u \in PTask, NEW v \in PTask, task'[u].pc = "held", task'[v].pc = "held", task'[u].id = task'[v].id
                 PROVE u = v
      OBVIOUS
    <3>1. CASE u = t \/ v = t
      BY <1>10, <1>11, <2>2, <3>1
    <3>2. CASE u # t /\ v # t
      BY <1>1, <1>11, <3>2 DEF HoldersSound
    <3> QED BY <3>1, <3>2
  <2>4. /\ reservation'.exposed \in 1 .. Len(buf') /\ r.data = SubSeq(buf', 1, reservation'.exposed)
        /\ segments' # <<>> /\ reservation'.exposed <= reservation'.consume /\ reservation'.consume <= segments'[1].len
        /\ reservation'.packet = direct' /\ (~direct' => reservation'.consume = reservation'.exposed)
    BY <1>3, <1>4, <1>8, <1>9, <1>10
  <2>5. \A u \in PTask : task'[u].pc = "held" /\ reservation'.id = task'[u].id => u = t
    BY <1>9, <2>2
  <2> QED BY <1>11, <2>1, <2>3, <2>4, <2>5 DEF HoldersSound
<1> DEFINE q == <<>>
<1>13. q \in Seq(Ends) /\ Len(q) <= 2 /\ CallStep(t, r, q)
  BY <1>2, <1>3, <1>6, <1>7 DEF CallStep
<1> HIDE DEF q
<1>14. \A u \in PTask : u # t => write_blocked(u)' = write_blocked(u)
  BY <1>3, <1>11 DEF write_blocked, free_len, packet_len
<1>15. Pieces' /\ buf' \in Seq(Byte) /\ Len(buf') <= cap /\ segments' \in Seq(SegRec) /\ seq' \in Byte
       /\ UNCHANGED <<cap, direct, refs, open, ends>>
  BY <1>1, <1>3, <1>7 DEF Pieces, Totals
<1>16. PInv'
  BY <1>9, <1>10, <1>12, <1>13, <1>14, <1>15, DataStep
<1> QED BY <1>3, <1>16

(* Finishing a lease.                                                          *)
LEMMA OffFacts == Off \in TaskRec /\ Off.pc = "user" /\ Off.pc # "held"
<1>1. "user" \in PcSet /\ 0 \in 0 .. PMaxLen /\ <<>> \in Seq(Byte)
  BY PipeAssumption DEF PcSet
<1> QED BY <1>1 DEF Off, TaskRec

LEMMA FinishStep ==
  ASSUME PInv, NEW t \in PTask, NEW k \in 0 .. Len(task[t].data), finish_read(t, k)
  PROVE  /\ PInv' /\ UNCHANGED direct
         /\ \/ \E n \in 1 .. Len(buf) : \E d \in n .. (IF direct THEN Len(buf) ELSE n) :
                 out' = SubSeq(buf, 1, n) /\ buf' = SubSeq(buf, d + 1, Len(buf))
            \/ direct /\ out' = out /\ \E d \in 1 .. Len(buf) : buf' = SubSeq(buf, d + 1, Len(buf))
            \/ UNCHANGED <<buf, out>>
<1>1. PTypes /\ Pieces /\ HoldersSound /\ CallsSound /\ OpenAgrees /\ NoSleeperForgotten
  BY DEF PInv
<1>2. task[t] \in TaskRec /\ task[t].pc = "held" /\ todo[t] = <<>> /\ reservation.id = task[t].id
  BY AtFacts DEF finish_read
<1>3. /\ reservation.exposed \in 1 .. Len(buf) /\ task[t].data = SubSeq(buf, 1, reservation.exposed)
      /\ segments # <<>> /\ reservation.exposed <= reservation.consume /\ reservation.consume <= segments[1].len
      /\ reservation.packet = direct /\ (~direct => reservation.consume = reservation.exposed)
  BY <1>1, <1>2 DEF HoldersSound
<1> DEFINE e == reservation.exposed
           c == reservation.consume
           all == k = Len(task[t].data)
           n == Taken(k, all)
           got == k > 0 /\ (all \/ ~reservation.packet)
           q == IF n > 0 THEN <<"r", "w">> ELSE <<"r">>
<1>4. /\ reservation' = NoRes /\ consume(n) /\ out' = IF got THEN SubSeq(task[t].data, 1, k) ELSE out
      /\ Wake(t, q) /\ End(t) /\ UNCHANGED <<ends, cap, direct, refs, open, seq>>
  BY DEF finish_read
<1>5. buf \in Seq(Byte) /\ Len(buf) \in Nat /\ direct \in BOOLEAN /\ task \in [PTask -> TaskRec] /\ seq \in Byte
      /\ Len(buf) <= cap /\ cap \in Nat /\ todo \in [PTask -> Seq(Ends)] /\ segments \in Seq(SegRec) /\ reservation \in ResRec
  BY <1>1, PipeAssumption DEF PTypes
<1>6. Len(task[t].data) = e
  BY <1>3, <1>5, SubHead
<1>7. e \in 1 .. Len(buf) /\ c \in Nat /\ k \in 0 .. e /\ (all <=> k = e) /\ e <= c
  BY <1>3, <1>5, <1>6 DEF ResRec
<1>8. segments[1] \in SegRec /\ segments[1].len <= Len(buf)
  BY <1>1, <1>3, FirstPiece
<1>9. segments[1].len \in Nat /\ c <= segments[1].len /\ c <= Len(buf)
  BY <1>3, <1>5, <1>7, <1>8 DEF SegRec
<1>10. n = (IF ~direct THEN k ELSE IF k > 0 THEN c ELSE 0)
  BY <1>3, <1>5, <1>7 DEF Taken
<1> HIDE DEF n
<1>11. n \in Nat /\ n <= segments[1].len /\ n <= Len(buf)
  BY <1>5, <1>7, <1>9, <1>10, <1>3
<1>12. /\ buf' \in Seq(Byte) /\ Len(buf') = Len(buf) - n /\ segments' \in Seq(SegRec) /\ Pieces'
       /\ (n = 0 => buf' = buf /\ segments' = segments) /\ buf' = SubSeq(buf, n + 1, Len(buf))
  BY <1>1, <1>3, <1>4, <1>11, ConsumePieces
<1>13. Len(buf') <= cap
  BY <1>5, <1>11, <1>12
<1>14. q \in Seq(Ends) /\ Len(q) <= 2 /\ Has(q, "r") /\ (n > 0 => Has(q, "w"))
  <2>1. CASE n > 0
    <3>1. q = <<"r", "w">> /\ Len(q) = 2 /\ q[1] = "r" /\ q[2] = "w"
      BY <2>1
    <3> HIDE DEF q
    <3>2. q \in Seq(Ends)
      BY <3>1 DEF Ends
    <3> QED BY <3>1, <3>2 DEF Has
  <2>2. CASE ~(n > 0)
    <3>1. q = <<"r">> /\ Len(q) = 1 /\ q[1] = "r"
      BY <2>2
    <3> QED BY <2>2, <3>1 DEF Has, Ends
  <2> QED BY <2>1, <2>2
<1> HIDE DEF q
<1>15. CallStep(t, Off, q)
  BY <1>2, <1>4 DEF CallStep, End, Wake
<1>16. HoldersSound' /\ reservation' \in ResRec /\ seq' \in Byte
  BY <1>1, <1>4, <1>5, OffFacts, HoldersKept, NoResType DEF End
<1>17. \A u \in PTask : u # t /\ write_blocked(u) => write_blocked(u)' \/ Has(q, "w")
  <2>1. CASE n > 0
    BY <1>14, <2>1
  <2>2. CASE n = 0
    <3>1. buf' = buf /\ \A u \in PTask : u # t => task'[u] = task[u]
      BY <1>4, <1>5, <1>12, <2>2 DEF End
    <3>2. \A u \in PTask : u # t => write_blocked(u)' = write_blocked(u)
      BY <1>4, <3>1 DEF write_blocked, free_len, packet_len
    <3> QED BY <3>2
  <2> QED BY <1>11, <2>1, <2>2
<1>18. PInv'
  BY <1>4, <1>12, <1>13, <1>14, <1>15, <1>16, <1>17, OffFacts, DataStep
<1>19. CASE got
  <2>1. k \in 1 .. Len(buf)
    BY <1>5, <1>7, <1>19
  <2>2. n \in k .. (IF direct THEN Len(buf) ELSE k)
    BY <1>7, <1>10, <1>11, <1>5, <2>1
  <2>3. out' = SubSeq(buf, 1, k)
    <3>1. out' = SubSeq(SubSeq(buf, 1, e), 1, k)
      BY <1>3, <1>4, <1>19
    <3>2. e \in 0 .. Len(buf) /\ k \in 0 .. e
      BY <1>7
    <3> HIDE DEF e
    <3> QED BY <1>5, <3>1, <3>2, HeadOfHead
  <2> QED BY <1>4, <1>12, <1>18, <2>1, <2>2, <2>3
<1>20. CASE ~got
  <2>1. out' = out
    BY <1>4, <1>20
  <2>2. CASE n = 0
    BY <1>4, <1>12, <1>18, <2>1, <2>2
  <2>3. CASE n # 0
    <3>1. direct /\ n \in 1 .. Len(buf)
      BY <1>3, <1>5, <1>7, <1>10, <1>11, <1>20, <2>3
    <3> QED BY <1>4, <1>12, <1>18, <2>1, <3>1
  <2> QED BY <2>2, <2>3
<1> QED BY <1>19, <1>20

LEMMA CancelStep ==
  ASSUME PInv, NEW t \in PTask, cancel_read(t)
  PROVE  PInv' /\ UNCHANGED <<buf, direct, out>>
<1>1. PTypes /\ Pieces /\ HoldersSound /\ CallsSound /\ OpenAgrees /\ NoSleeperForgotten
  BY DEF PInv
<1>2. todo[t] = <<>>
  BY AtFacts DEF cancel_read
<1>3. /\ Wake(t, <<"r", "w">>) /\ End(t) /\ (reservation' = NoRes \/ reservation' = reservation)
      /\ UNCHANGED <<ends, buf, cap, direct, segments, refs, open, seq, out>>
  BY DEF cancel_read
<1>4. /\ buf' \in Seq(Byte) /\ Len(buf') <= cap /\ segments' \in Seq(SegRec) /\ seq' \in Byte /\ reservation' \in ResRec
      /\ UNCHANGED <<buf, segments>> /\ UNCHANGED <<cap, direct, refs, open, ends>> /\ Pieces'
  BY <1>1, <1>3, NoResType DEF PTypes, Pieces, Totals
<1> DEFINE q == <<"r", "w">>
<1>5. q \in Seq(Ends) /\ Len(q) <= 2 /\ Has(q, "r") /\ Has(q, "w")
  <2>1. q = <<"r", "w">> /\ Len(q) = 2 /\ q[1] = "r" /\ q[2] = "w"
    OBVIOUS
  <2> QED BY <2>1 DEF Has, Ends
<1> HIDE DEF q
<1>6. CallStep(t, Off, q)
  BY <1>2, <1>3 DEF CallStep, End, Wake, q
<1>7. HoldersSound'
  BY <1>1, <1>3, <1>4, OffFacts, HoldersKept, SameGrown DEF End
<1>8. PInv'
  BY <1>4, <1>5, <1>6, <1>7, OffFacts, DataStep
<1> QED BY <1>3, <1>8

(* Writing.                                                                    *)
LEMMA WriteStep ==
  ASSUME PInv, NEW t \in PTask, try_write_mode(t)
  PROVE  /\ PInv' /\ UNCHANGED <<direct, out>>
         /\ \E n \in Nat \ {0} : Len(buf') = Len(buf) + n /\ Len(buf') <= cap /\ SubSeq(buf', 1, Len(buf)) = buf
<1>1. PTypes /\ Pieces /\ HoldersSound /\ CallsSound /\ OpenAgrees /\ NoSleeperForgotten
  BY DEF PInv
<1>2. task[t] \in TaskRec /\ task[t].n \in Nat \ {0} /\ task[t].n \in 0 .. PMaxLen /\ task[t].pc = "write" /\ todo[t] = <<>>
  BY AtFacts DEF try_write_mode, Transfers
<1>3. buf \in Seq(Byte) /\ Len(buf) \in Nat /\ direct \in BOOLEAN /\ task \in [PTask -> TaskRec] /\ seq \in Byte
      /\ Len(buf) <= cap /\ cap \in Nat \ {0} /\ todo \in [PTask -> Seq(Ends)] /\ segments \in Seq(SegRec)
      /\ reservation \in ResRec
  BY <1>1, PipeAssumption DEF PTypes
<1> DEFINE n == IF direct THEN packet_len(task[t].n) ELSE PMin(task[t].n, free_len)
           r == IF task[t].n = n THEN Off ELSE [task[t] EXCEPT !.n = task[t].n - n]
<1>4. /\ ~is_full /\ free_len >= n /\ write_from(n) /\ Wake(t, <<"r">>) /\ task' = [task EXCEPT ![t] = r]
      /\ UNCHANGED <<ends, cap, direct, reservation, refs, open, out>>
  <2>1. /\ ~is_full /\ free_len >= n /\ write_from(n) /\ Wake(t, <<"r">>)
        /\ UNCHANGED <<ends, cap, direct, reservation, refs, open, out>>
        /\ task' = [task EXCEPT ![t] = IF @.n = n THEN Off ELSE [@ EXCEPT !.n = task[t].n - n]]
    BY DEF try_write_mode
  <2> HIDE DEF n
  <2>2. task' = [task EXCEPT ![t] = r]
    BY <2>1, Zenon
  <2> QED BY <2>1, <2>2
<1>5. free_len \in Nat \ {0} /\ free_len = cap - Len(buf)
  BY <1>3, <1>4 DEF free_len, is_full
<1>6. n \in Nat \ {0} /\ n <= task[t].n
  BY <1>2, <1>3, <1>5, PipeAssumption DEF packet_len, PMin
<1> HIDE DEF n
<1>7. r \in TaskRec /\ r.pc \in {"user", "write"} /\ (r.pc = "write" => r.n # 0)
  <2>1. CASE task[t].n = n
    BY <2>1, OffFacts
  <2>2. CASE task[t].n # n
    <3> DEFINE a == task[t].n
               d == a - n
    <3>1. a \in Nat /\ a \in 0 .. PMaxLen /\ a # n /\ n <= a /\ n \in Nat /\ PMaxLen \in Nat
      BY <1>2, <1>6, <2>2, PipeAssumption
    <3>2. r = [task[t] EXCEPT !.n = d]
      BY <2>2
    <3> HIDE DEF a, r
    <3>3. d \in 0 .. PMaxLen /\ d # 0
      BY <3>1
    <3> HIDE DEF d
    <3>4. "write" \in PcSet
      BY DEF PcSet, Transfers
    <3>5. \A p \in PcSet : [task[t] EXCEPT !.n = d] \in TaskRec /\ [task[t] EXCEPT !.n = d].pc = task[t].pc
                          /\ [task[t] EXCEPT !.n = d].n = d
      <4>1. task[t] \in TaskRec /\ d \in 0 .. PMaxLen
        BY <1>2, <3>3
      <4> QED BY <4>1, CallFields, Zenon
    <3> QED BY <1>2, <3>2, <3>3, <3>4, <3>5
  <2> QED BY <2>1, <2>2
<1> HIDE DEF r
<1>8. /\ buf' \in Seq(Byte) /\ Len(buf') = Len(buf) + n /\ seq' \in Byte /\ segments' \in Seq(SegRec) /\ Pieces'
      /\ \A m \in 0 .. Len(buf) : SubSeq(buf', 1, m) = SubSeq(buf, 1, m)
      /\ segments' # <<>> /\ (segments # <<>> => segments[1].len <= segments'[1].len)
  BY <1>1, <1>4, <1>6, WritePieces
<1>9. Len(buf') <= cap /\ Len(buf') \in Nat /\ Len(buf) <= Len(buf')
  BY <1>3, <1>4, <1>5, <1>6, <1>8
<1>10. Grown
  <2>1. segments' # <<>> /\ segments'[1] \in SegRec
    BY <1>8
  <2>2. segments'[1].len \in Nat
    BY <2>1 DEF SegRec
  <2>3. ASSUME segments # <<>> PROVE segments[1].len \in Nat
    <3>1. segments[1] \in SegRec
      BY <1>3, <2>3
    <3> QED BY <3>1 DEF SegRec
  <2> QED BY <1>8, <1>9, <2>1, <2>2, <2>3 DEF Grown
<1>11. HoldersSound'
  BY <1>1, <1>4, <1>7, <1>10, HoldersKept
<1> DEFINE q == <<"r">>
<1>12. q \in Seq(Ends) /\ Len(q) <= 2 /\ Has(q, "r")
  <2>1. q = <<"r">> /\ Len(q) = 1 /\ q[1] = "r"
    OBVIOUS
  <2> QED BY <2>1 DEF Has, Ends
<1> HIDE DEF q
<1>13. CallStep(t, r, q)
  BY <1>2, <1>4 DEF CallStep, Wake, q
<1>14. ASSUME NEW u \in PTask, u # t, write_blocked(u) PROVE write_blocked(u)'
  <2>1. task'[u] = task[u]
    BY <1>3, <1>4, <1>14
  <2>2. task[u].n \in Nat /\ PBuf \in Nat
    BY AtFacts, PipeAssumption
  <2>3. free_len' \in Nat /\ free_len' < free_len
    BY <1>3, <1>4, <1>5, <1>6, <1>8, <1>9 DEF free_len
  <2>4. packet_len(task[u].n)' = packet_len(task[u].n) /\ packet_len(task[u].n) \in Nat
    BY <1>3, <1>4, <2>1, <2>2 DEF packet_len, PMin
  <2> DEFINE b == IF direct THEN packet_len(task[u].n) ELSE 1
  <2>5. b \in Nat /\ free_len < b /\ open["r"]
    BY <1>14, <2>4 DEF write_blocked
  <2>6. (IF direct' THEN packet_len(task[u].n)' ELSE 1) = b
    BY <1>4, <2>1, <2>4
  <2> HIDE DEF b
  <2>7. free_len' < b /\ open'["r"]
    BY <1>4, <1>5, <2>3, <2>5
  <2> QED BY <2>6, <2>7 DEF write_blocked
<1>15. PInv'
  BY <1>3, <1>4, <1>7, <1>8, <1>9, <1>11, <1>12, <1>13, <1>14, DataStep
<1>16. SubSeq(buf', 1, Len(buf)) = buf
  <2>1. SubSeq(buf, 1, Len(buf)) = buf
    BY <1>3
  <2> QED BY <1>3, <1>8, <2>1
<1> QED BY <1>4, <1>6, <1>8, <1>9, <1>15, <1>16

-----------------------------------------------------------------------------
(* A step of the endpoints.                                                    *)
LEMMA EndsStep ==
  ASSUME PInv, NEW t \in PTask, NEW r \in TaskRec, NEW q \in Seq(Ends), Len(q) <= 2, CallStep(t, r, q),
         r.pc \in {"user", "openr", "openw"}, r.pc = "openr" => "r" \in ends'[t], r.pc = "openw" => "w" \in ends'[t],
         UNCHANGED <<buf, cap, direct, segments, seq>>, reservation' \in {reservation, NoRes},
         OpenAgrees', refs' \in [Ends -> Nat], open' \in [Ends -> BOOLEAN], ends' \in [PTask -> SUBSET Ends],
         \A u \in PTask : u # t => ends'[u] = ends[u],
         read_blocked => read_blocked' \/ Has(q, "r"), open["r"] => open'["r"] \/ Has(q, "w")
  PROVE  PInv'
<1>1. PTypes /\ Pieces /\ HoldersSound /\ CallsSound /\ OpenAgrees /\ NoSleeperForgotten
  BY DEF PInv
<1>2. /\ r.pc \notin Waits /\ r.pc \notin Transfers /\ r.pc # "held" /\ r.pc \notin {"rblocked", "lblocked"}
      /\ r.pc # "wblocked"
      /\ r.pc \in {"openr", "openrblocked"} => "r" \in ends'[t]
      /\ r.pc \in {"openw", "openwblocked"} => "w" \in ends'[t]
  BY DEF Waits, Transfers
<1>3. /\ task' \in [PTask -> TaskRec] /\ todo' \in [PTask -> Seq(Ends)]
      /\ \A u \in PTask : Len(todo'[u]) <= 2
      /\ CallsSound'
  BY <1>1, <1>2, CallStepKeeps
<1>4. HoldersSound'
  <2>1. UNCHANGED <<buf, segments>>
    OBVIOUS
  <2> QED BY <1>1, <1>2, <2>1, SameGrown, HoldersKept DEF CallStep
<1>5. \A u \in PTask : u # t /\ write_blocked(u) => write_blocked(u)' \/ Has(q, "w")
  <2> SUFFICES ASSUME NEW u \in PTask, u # t, write_blocked(u), ~Has(q, "w") PROVE write_blocked(u)'
    OBVIOUS
  <2>1. task'[u] = task[u]
    BY <1>1 DEF CallStep, PTypes
  <2>2. open'["r"]
    BY DEF write_blocked
  <2> QED BY <2>1, <2>2 DEF write_blocked, free_len, packet_len
<1>6. NoSleeperForgotten'
  BY <1>1, <1>2, <1>5, Sleepers
<1>7. reservation' \in ResRec /\ Pieces'
  BY <1>1, NoResType DEF PTypes, Pieces, Totals
<1>8. PTypes'
  BY <1>1, <1>3, <1>7 DEF PTypes
<1> QED BY <1>3, <1>4, <1>6, <1>7, <1>8 DEF PInv

LEMMA Queues ==
  /\ <<>> \in Seq(Ends) /\ Len(<<>>) <= 2
  /\ <<"r">> \in Seq(Ends) /\ Len(<<"r">>) <= 2 /\ Has(<<"r">>, "r")
  /\ <<"w">> \in Seq(Ends) /\ Len(<<"w">>) <= 2 /\ Has(<<"w">>, "w")
  /\ <<"r", "w">> \in Seq(Ends) /\ Len(<<"r", "w">>) <= 2 /\ Has(<<"r", "w">>, "r") /\ Has(<<"r", "w">>, "w")
<1>1. <<>> \in Seq(Ends) /\ Len(<<>>) <= 2
  OBVIOUS
<1>2. <<"r">> \in Seq(Ends) /\ Len(<<"r">>) = 1 /\ <<"r">>[1] = "r"
  BY DEF Ends
<1>3. <<"w">> \in Seq(Ends) /\ Len(<<"w">>) = 1 /\ <<"w">>[1] = "w"
  BY DEF Ends
<1>4. <<"r", "w">> \in Seq(Ends) /\ Len(<<"r", "w">>) = 2 /\ <<"r", "w">>[1] = "r" /\ <<"r", "w">>[2] = "w"
  BY DEF Ends
<1>5. Len(<<"r">>) <= 2 /\ Has(<<"r">>, "r")
  BY <1>2 DEF Has
<1>6. Len(<<"w">>) <= 2 /\ Has(<<"w">>, "w")
  BY <1>3 DEF Has
<1>7. Len(<<"r", "w">>) <= 2 /\ Has(<<"r", "w">>, "r") /\ Has(<<"r", "w">>, "w")
  BY <1>4 DEF Has
<1> QED BY <1>1, <1>2, <1>3, <1>4, <1>5, <1>6, <1>7

LEMMA AcquireStep ==
  ASSUME PInv, NEW t \in PTask, NEW e \in Ends, acquire(t, e), e \notin ends[t], NEW r \in TaskRec,
         task' = [task EXCEPT ![t] = r], todo[t] = <<>>,
         r.pc \in {"user", "openr", "openw"}, r.pc = "openr" => e = "r", r.pc = "openw" => e = "w"
  PROVE  PInv'
<1>1. PTypes /\ OpenAgrees
  BY DEF PInv
<1> DEFINE q == IF refs[e] # 0 THEN <<>> ELSE IF e = "r" THEN <<"w">> ELSE <<"r">>
<1>2. /\ refs' = [refs EXCEPT ![e] = @ + 1] /\ open' = [open EXCEPT ![e] = TRUE]
      /\ ends' = [ends EXCEPT ![t] = @ \cup {e}]
      /\ Wake(t, q) /\ UNCHANGED <<buf, cap, direct, segments, seq>> /\ UNCHANGED reservation
  BY DEF acquire
<1>3. q \in Seq(Ends) /\ Len(q) <= 2
  BY Queues
<1> HIDE DEF q
<1>4. CallStep(t, r, q)
  BY <1>2 DEF CallStep, Wake
<1>5. /\ OpenAgrees' /\ refs' \in [Ends -> Nat] /\ open' \in [Ends -> BOOLEAN] /\ ends' \in [PTask -> SUBSET Ends]
      /\ ends'[t] = ends[t] \cup {e} /\ \A u \in PTask : u # t => ends'[u] = ends[u]
      /\ \A x \in Ends : open[x] => open'[x]
  BY <1>1, <1>2, GainsEnd
<1>6. read_blocked => read_blocked'
  BY <1>2, <1>5 DEF read_blocked, is_empty, Ends
<1>7. open["r"] => open'["r"]
  BY <1>5 DEF Ends
<1>8. (r.pc = "openr" => "r" \in ends'[t]) /\ (r.pc = "openw" => "w" \in ends'[t])
  BY <1>5
<1> QED BY <1>2, <1>3, <1>4, <1>5, <1>6, <1>7, <1>8, EndsStep

LEMMA HeldCounts ==
  ASSUME PTypes, OpenAgrees, NEW t \in PTask, NEW e \in Ends, e \in ends[t]
  PROVE  refs[e] # 0 /\ open[e] = TRUE
<1>1. IsFiniteSet({u \in PTask : e \in ends[u]}) /\ t \in {u \in PTask : e \in ends[u]}
  BY FS_Subset, PipeAssumption
<1>2. Cardinality({u \in PTask : e \in ends[u]}) # 0
  BY <1>1, FS_EmptySet
<1> QED BY <1>2 DEF OpenAgrees, PTypes

LEMMA LoseStep ==
  ASSUME PInv, NEW t \in PTask, NEW e \in Ends, e \in ends[t], NEW r \in TaskRec, r.pc = "user", todo[t] = <<>>,
         task' = [task EXCEPT ![t] = r], ends' = [ends EXCEPT ![t] = @ \ {e}],
         refs' = [refs EXCEPT ![e] = @ - 1], open' = [open EXCEPT ![e] = refs[e] # 1],
         reservation' = IF e = "r" /\ refs[e] = 1 THEN NoRes ELSE reservation,
         todo' = [todo EXCEPT ![t] = IF refs[e] # 1 THEN <<>> ELSE IF e = "r" THEN <<"r", "w">> ELSE <<"r">>],
         UNCHANGED <<buf, cap, direct, segments, seq>>
  PROVE  PInv'
<1>1. PTypes /\ OpenAgrees
  BY DEF PInv
<1> DEFINE q == IF refs[e] # 1 THEN <<>> ELSE IF e = "r" THEN <<"r", "w">> ELSE <<"r">>
<1>2. q \in Seq(Ends) /\ Len(q) <= 2 /\ (refs[e] = 1 => Has(q, "r")) /\ (refs[e] = 1 /\ e = "r" => Has(q, "w"))
  BY Queues
<1> HIDE DEF q
<1>3. CallStep(t, r, q)
  BY DEF CallStep, q
<1>4. /\ OpenAgrees' /\ refs' \in [Ends -> Nat] /\ open' \in [Ends -> BOOLEAN] /\ ends' \in [PTask -> SUBSET Ends]
      /\ ends'[t] = ends[t] \ {e} /\ \A u \in PTask : u # t => ends'[u] = ends[u]
      /\ \A x \in Ends : (x # e \/ refs[e] # 1) => open'[x] = open[x]
  BY <1>1, LosesEnd
<1>5. reservation' \in {reservation, NoRes} /\ (refs[e] # 1 => reservation' = reservation)
  OBVIOUS
<1>6. read_blocked => read_blocked' \/ Has(q, "r")
  <2>1. CASE refs[e] = 1
    BY <1>2, <2>1
  <2>2. CASE refs[e] # 1
    BY <1>4, <1>5, <2>2 DEF read_blocked, is_empty, Ends
  <2> QED BY <2>1, <2>2
<1>7. open["r"] => open'["r"] \/ Has(q, "w")
  BY <1>2, <1>4 DEF Ends
<1> QED BY <1>2, <1>3, <1>4, <1>5, <1>6, <1>7, EndsStep

LEMMA Inheriting ==
  ASSUME PInv, NEW t \in PTask, NEW u \in PTask, NEW e \in Ends, Clone(t, u, e)
  PROVE  PInv' /\ UNCHANGED <<buf, direct, out>>
<1>1. task \in [PTask -> TaskRec] /\ task[t] \in TaskRec /\ task[t].pc = "user" /\ todo[t] = <<>>
  BY AtFacts DEF Clone, PInv, PTypes
<1>2. acquire(t, e) /\ e \notin ends[t] /\ task' = [task EXCEPT ![t] = task[t]]
  BY <1>1 DEF Clone
<1>3. UNCHANGED <<buf, direct, out>>
  BY <1>2 DEF acquire
<1> QED BY <1>1, <1>2, <1>3, AcquireStep

LEMMA Opening ==
  ASSUME PInv, NEW t \in PTask, open_read(t) \/ open_write(t)
  PROVE  PInv' /\ UNCHANGED <<buf, direct, out>>
<1>1. task \in [PTask -> TaskRec] /\ task[t] \in TaskRec /\ todo[t] = <<>>
  BY AtFacts DEF open_read, open_write, PInv, PTypes
<1>2. 0 \in 0 .. PMaxLen
  BY PipeAssumption
<1>3. ASSUME NEW p \in {"openr", "openw"}, Go(t, p), NEW e \in Ends, acquire(t, e), e \notin ends[t],
             e = IF p = "openr" THEN "r" ELSE "w"
      PROVE  PInv' /\ UNCHANGED <<buf, direct, out>>
  <2> DEFINE r == [task[t] EXCEPT !.pc = p]
  <2>1. p \in PcSet
    BY DEF PcSet
  <2>2. r \in TaskRec /\ r.pc = p
    BY <1>1, <2>1 DEF TaskRec
  <2>3. task' = [task EXCEPT ![t] = r]
    BY <1>1, <1>3 DEF Go
  <2> HIDE DEF r
  <2>4. UNCHANGED <<buf, direct, out>>
    BY <1>3 DEF acquire
  <2> QED BY <1>1, <1>3, <2>2, <2>3, <2>4, AcquireStep
<1>4. CASE open_read(t)
  BY <1>3, <1>4 DEF open_read, Ends
<1>5. CASE open_write(t)
  BY <1>3, <1>5 DEF open_write, Ends
<1> QED BY <1>4, <1>5

LEMMA Releasing ==
  ASSUME PInv, NEW t \in PTask, release_read(t) \/ release_write(t)
  PROVE  PInv' /\ UNCHANGED <<buf, direct, out>>
<1>1. PTypes /\ OpenAgrees /\ task[t] \in TaskRec /\ task[t].pc = "user" /\ todo[t] = <<>>
  BY AtFacts DEF release_read, release_write, PInv
<1>2. PICK e \in Ends : /\ e \in ends[t] /\ ends' = [ends EXCEPT ![t] = @ \ {e}] /\ refs' = [refs EXCEPT ![e] = @ - 1]
                        /\ (refs[e] = 1 => open' = [open EXCEPT ![e] = FALSE])
                        /\ (refs[e] # 1 => open' = open)
                        /\ reservation' = (IF e = "r" /\ refs[e] = 1 THEN NoRes ELSE reservation)
                        /\ (refs[e] = 1 => todo' = [todo EXCEPT ![t] = IF e = "r" THEN <<"r", "w">> ELSE <<"r">>])
                        /\ (refs[e] # 1 => todo' = todo)
                        /\ UNCHANGED <<buf, cap, direct, segments, seq, out, task>>
  <2>1. CASE release_read(t)
    <3>1. "r" \in Ends
      BY DEF Ends
    <3> QED BY <2>1, <3>1 DEF release_read, Wake
  <2>2. CASE release_write(t)
    <3>1. "w" \in Ends
      BY DEF Ends
    <3> QED BY <2>2, <3>1 DEF release_write, Wake
  <2> QED BY <2>1, <2>2
<1>3. refs[e] # 0 /\ open[e] = TRUE /\ open \in [Ends -> BOOLEAN] /\ task \in [PTask -> TaskRec]
      /\ todo \in [PTask -> Seq(Ends)]
  BY <1>1, <1>2, HeldCounts DEF PTypes
<1>4. open' = [open EXCEPT ![e] = refs[e] # 1]
  <2>1. CASE refs[e] = 1
    <3>1. (refs[e] # 1) = FALSE
      BY <2>1
    <3> QED BY <1>2, <2>1, <3>1
  <2>2. CASE refs[e] # 1
    <3>1. (refs[e] # 1) = TRUE
      BY <2>2
    <3>2. open = [open EXCEPT ![e] = TRUE]
      BY <1>3
    <3> QED BY <1>2, <2>2, <3>1, <3>2
  <2> QED BY <2>1, <2>2
<1>5. todo' = [todo EXCEPT ![t] = IF refs[e] # 1 THEN <<>> ELSE IF e = "r" THEN <<"r", "w">> ELSE <<"r">>]
  <2>1. CASE refs[e] = 1
    BY <1>2, <2>1
  <2>2. CASE refs[e] # 1
    BY <1>1, <1>2, <1>3, <2>2
  <2> QED BY <2>1, <2>2
<1>6. task' = [task EXCEPT ![t] = task[t]]
  BY <1>2, <1>3
<1>7. UNCHANGED <<buf, cap, direct, segments, seq>> /\ UNCHANGED <<buf, direct, out>>
  BY <1>2
<1>8. PInv'
  BY <1>1, <1>2, <1>4, <1>5, <1>6, <1>7, LoseStep
<1> QED BY <1>7, <1>8

LEMMA Signalled ==
  ASSUME PInv, NEW t \in PTask, Interrupted(t)
  PROVE  PInv' /\ UNCHANGED <<buf, direct, out>>
<1>1. todo[t] = <<>> /\ UNCHANGED <<buf, cap, direct, segments, seq, out>> /\ End(t)
  BY AtFacts DEF Interrupted, Asleep, Waits
<1> DEFINE e == IF task[t].pc = "openrblocked" THEN "r" ELSE "w"
<1>2. CASE task[t].pc \in {"openrblocked", "openwblocked"}
  <2>1. e \in Ends /\ e \in ends[t]
    BY <1>2, AtFacts DEF Ends
  <2>2. /\ ends' = [ends EXCEPT ![t] = @ \ {e}]
        /\ refs' = [refs EXCEPT ![e] = @ - 1]
        /\ open' = [open EXCEPT ![e] = refs[e] # 1]
        /\ reservation' = (IF e = "r" /\ refs[e] = 1 THEN NoRes ELSE reservation)
        /\ todo' = [todo EXCEPT ![t] = IF refs[e] # 1 THEN <<>> ELSE IF e = "r" THEN <<"r", "w">> ELSE <<"r">>]
    BY <1>2 DEF Interrupted, Wake
  <2> HIDE DEF e
  <2>3. UNCHANGED <<buf, cap, direct, segments, seq>> /\ task' = [task EXCEPT ![t] = Off]
    BY <1>1 DEF End
  <2> QED BY <1>1, <2>1, <2>2, <2>3, OffFacts, LoseStep
<1>3. CASE task[t].pc \notin {"openrblocked", "openwblocked"}
  <2>1. UNCHANGED <<ends, refs, open, reservation, todo>>
    BY <1>3 DEF Interrupted
  <2>2. UNCHANGED state /\ UNCHANGED <<ends, todo>>
    BY <1>1, <2>1 DEF state
  <2> QED BY <1>1, <2>2, EndMoves
<1> QED BY <1>2, <1>3

LEMMA Resizing ==
  ASSUME PInv, NEW t \in PTask, NEW c \in PCap, set_capacity(t, c)
  PROVE  PInv' /\ UNCHANGED <<buf, direct, out>>
<1>1. PTypes /\ Pieces /\ HoldersSound /\ CallsSound /\ OpenAgrees /\ NoSleeperForgotten
  BY DEF PInv
<1>2. /\ buf = <<>> /\ cap' = c /\ segments' = <<>>
      /\ UNCHANGED <<buf, direct, reservation, refs, open, seq, task, ends, todo, out>>
  BY DEF set_capacity, is_empty
<1>3. Len(buf) = 0 /\ c \in Nat \ {0} /\ cap \in Nat \ {0} /\ PBuf \in Nat
  BY <1>1, <1>2, PipeAssumption DEF PTypes
<1>4. PTypes'
  BY <1>1, <1>2, <1>3 DEF PTypes
<1>5. Pieces'
  <2> DEFINE f == [i \in 0 .. 0 |-> 0]
  <2>1. f \in [0 .. Len(segments') -> 0 .. Len(buf')] /\ Totals(segments', Len(buf'), f)
    BY <1>2, <1>3 DEF Totals
  <2>2. \A i \in 1 .. Len(segments') : segments'[i].packet = direct'
    BY <1>2
  <2> HIDE DEF f
  <2> QED BY <2>1, <2>2 DEF Pieces
<1>6. HoldersSound'
  <2>1. \A u \in PTask : task[u].pc = "held" => reservation.id # task[u].id
    BY <1>1, <1>3 DEF HoldersSound
  <2> QED BY <1>1, <1>2, <2>1 DEF HoldersSound
<1>7. CallsSound' /\ OpenAgrees'
  BY <1>1, <1>2 DEF CallsSound, OpenAgrees
<1>8. NoSleeperForgotten'
  <2>1. \A u \in PTask : ~write_blocked(u)
    <3> SUFFICES ASSUME NEW u \in PTask PROVE ~write_blocked(u)
      OBVIOUS
    <3>1. task[u].n \in Nat /\ free_len = cap
      BY <1>3, AtFacts DEF free_len
    <3>2. packet_len(task[u].n) <= cap
      BY <1>3, <3>1 DEF packet_len, PMin
    <3> QED BY <1>3, <3>1, <3>2 DEF write_blocked, packet_len, PMin
  <2>2. read_blocked' = read_blocked /\ \A x : Owed(x)' = Owed(x)
    BY <1>2 DEF read_blocked, is_empty, Owed
  <2> QED BY <1>1, <1>2, <2>1, <2>2 DEF NoSleeperForgotten
<1> QED BY <1>2, <1>4, <1>5, <1>6, <1>7, <1>8 DEF PInv

-----------------------------------------------------------------------------
LEMMA LargestCapacity ==
  PMax(PCap) \in PCap /\ PMax(PCap) \in Nat \ {0} /\ \A d \in PCap : d <= PMax(PCap)
<1>1. \E x \in PCap : \A y \in PCap : y <= x
  BY PipeAssumption
<1>2. PMax(PCap) \in PCap /\ \A d \in PCap : d <= PMax(PCap)
  BY <1>1 DEF PMax
<1> QED BY <1>2, PipeAssumption

LEMMA InBounded ==
  ASSUME NEW S, NEW s \in Seq(S), NEW n \in Nat, Len(s) <= n
  PROVE  s \in BoundedSeq(S, n)
<1>1. Len(s) \in 0 .. n /\ s \in [1 .. Len(s) -> S]
  OBVIOUS
<1> QED BY <1>1 DEF BoundedSeq, SeqOf

LEMMA InitInvariant == PInit => PInv
<1> SUFFICES ASSUME PInit PROVE PInv
  OBVIOUS
<1>1. /\ direct \in PModes /\ buf = <<>> /\ cap = PMax(PCap) /\ segments = <<>> /\ reservation = NoRes
      /\ seq = 0 /\ task = [t \in PTask |-> Off] /\ todo = [t \in PTask |-> <<>>]
      /\ refs = [e \in Ends |-> Cardinality({t \in PTask : e \in ends[t]})]
      /\ open = [e \in Ends |-> refs[e] # 0]
  BY DEF PInit
<1>2. ends \in [PTask -> SUBSET Ends]
  BY DEF PInit
<1>3. \A e \in Ends : Cardinality({t \in PTask : e \in ends[t]}) \in Nat
  <2> SUFFICES ASSUME NEW e \in Ends PROVE Cardinality({t \in PTask : e \in ends[t]}) \in Nat
    OBVIOUS
  <2>1. IsFiniteSet({t \in PTask : e \in ends[t]})
    BY FS_Subset, PipeAssumption
  <2> QED BY <2>1, FS_CardinalityType
<1>4. refs \in [Ends -> Nat] /\ open \in [Ends -> BOOLEAN] /\ OpenAgrees
  BY <1>1, <1>3 DEF OpenAgrees
<1>5. \A t \in PTask : task[t] = Off /\ todo[t] = <<>> /\ task[t].pc = "user"
  BY <1>1, OffFacts
<1>6. PTypes
  <2>1. task \in [PTask -> TaskRec] /\ todo \in [PTask -> Seq(Ends)] /\ \A t \in PTask : Len(todo[t]) <= 2
    BY <1>1, <1>5, OffFacts
  <2>2. buf \in Seq(Byte) /\ Len(buf) = 0 /\ segments \in Seq(SegRec) /\ seq \in Byte /\ direct \in BOOLEAN
    BY <1>1, PipeAssumption DEF Byte, Mod
  <2>3. cap \in PCap /\ Len(buf) <= cap
    BY <1>1, <2>2, LargestCapacity
  <2> QED BY <1>1, <1>2, <1>4, <2>1, <2>2, <2>3, NoResType DEF PTypes
<1>7. Pieces
  <2> DEFINE f == [i \in 0 .. 0 |-> 0]
  <2>1. f \in [0 .. Len(segments) -> 0 .. Len(buf)] /\ Totals(segments, Len(buf), f)
    BY <1>1 DEF Totals
  <2>2. \A i \in 1 .. Len(segments) : segments[i].packet = direct
    BY <1>1
  <2> HIDE DEF f
  <2> QED BY <2>1, <2>2 DEF Pieces
<1>8. HoldersSound /\ CallsSound /\ NoSleeperForgotten
  BY <1>5 DEF HoldersSound, CallsSound, NoSleeperForgotten, Waits, Transfers
<1> QED BY <1>4, <1>6, <1>7, <1>8 DEF PInv

(* One step of a task: the invariant is kept, and what happens to the bytes.    *)
Puts == /\ UNCHANGED <<direct, out>>
        /\ \E n \in Nat \ {0} : Len(buf') = Len(buf) + n /\ Len(buf') <= cap /\ SubSeq(buf', 1, Len(buf)) = buf
Takes == /\ UNCHANGED direct
         /\ \E n \in 1 .. Len(buf) : \E d \in n .. (IF direct THEN Len(buf) ELSE n) :
              out' = SubSeq(buf, 1, n) /\ buf' = SubSeq(buf, d + 1, Len(buf))
Drops == UNCHANGED <<direct, out>> /\ direct /\ \E d \in 1 .. Len(buf) : buf' = SubSeq(buf, d + 1, Len(buf))
Rests == UNCHANGED <<buf, direct, out>>

LEMMA TaskStep ==
  ASSUME PInv, NEW t \in PTask, PCalls(t) \/ PSteps(t) \/ Interrupted(t)
  PROVE  PInv' /\ (Puts \/ Takes \/ Drops \/ Rests)
<1>1. CASE PCalls(t)
  <2>1. CASE \E n \in 1 .. PMaxLen : read(t, n) \/ read_lease(t, n) \/ write(t, n)
    BY <2>1, MovingSteps DEF Rests
  <2>2. ASSUME NEW n \in 0 .. Len(task[t].data), finish_read(t, n) PROVE PInv' /\ (Puts \/ Takes \/ Drops \/ Rests)
    BY <2>2, FinishStep DEF Takes, Drops, Rests
  <2>3. ASSUME NEW c \in PCap, set_capacity(t, c) PROVE PInv' /\ (Puts \/ Takes \/ Drops \/ Rests)
    BY <2>3, Resizing DEF Rests
  <2>4. ASSUME NEW u \in PTask, NEW e \in Ends, Clone(t, u, e) PROVE PInv' /\ (Puts \/ Takes \/ Drops \/ Rests)
    BY <2>4, Inheriting DEF Rests
  <2>5. CASE open_read(t) \/ open_write(t)
    BY <2>5, Opening DEF Rests
  <2>6. CASE release_read(t) \/ release_write(t)
    BY <2>6, Releasing DEF Rests
  <2> QED BY <1>1, <2>1, <2>2, <2>3, <2>4, <2>5, <2>6 DEF PCalls
<1>2. CASE PSteps(t)
  <2>1. CASE wake_all(t)
    BY <2>1, WakeStep DEF Rests
  <2>2. CASE try_read(t)
    BY <2>2, TakeStep, MovingSteps DEF Takes, Rests
  <2>3. CASE acquire_read_lease(t)
    BY <2>3, LeaseStep, MovingSteps DEF Rests
  <2>4. CASE cancel_read(t)
    BY <2>4, CancelStep DEF Rests
  <2>5. CASE try_write_mode(t)
    BY <2>5, WriteStep DEF Puts
  <2>6. CASE ReadSleep(t) \/ LeaseSleep(t) \/ BrokenPipe(t) \/ WouldBlock(t) \/ write_mode(t)
             \/ wait_for_writer(t) \/ wait_for_reader(t)
    BY <2>6, MovingSteps DEF Rests
  <2> QED BY <1>2, <2>1, <2>2, <2>3, <2>4, <2>5, <2>6 DEF PSteps
<1>3. CASE Interrupted(t)
  BY <1>3, Signalled DEF Rests
<1> QED BY <1>1, <1>2, <1>3

(* The inductive invariant holds in every state.                               *)
THEOREM PipeInvariance == PSpec => []PInv
<1>1. PInit => PInv
  BY InitInvariant
<1>2. PInv /\ [PNext]_pvars => PInv'
  <2> SUFFICES ASSUME PInv, [PNext]_pvars PROVE PInv'
    OBVIOUS
  <2>1. CASE PNext
    BY <2>1, TaskStep DEF PNext
  <2>2. CASE UNCHANGED pvars
    <3>1. UNCHANGED <<buf, cap, segments, direct, reservation, refs, open, seq, task, ends, todo, out>>
      BY <2>2 DEF pvars
    <3>2. PTypes' /\ Pieces' /\ HoldersSound' /\ CallsSound' /\ OpenAgrees'
      <4>1. PTypes'
        BY <3>1 DEF PInv, PTypes
      <4>2. Pieces'
        BY <3>1 DEF PInv, Pieces, Totals
      <4>3. HoldersSound'
        BY <3>1 DEF PInv, HoldersSound
      <4>4. CallsSound' /\ OpenAgrees'
        BY <3>1 DEF PInv, CallsSound, OpenAgrees
      <4> QED BY <4>1, <4>2, <4>3, <4>4
    <3>3. read_blocked' = read_blocked /\ (\A x : Owed(x)' = Owed(x)) /\ \A u \in PTask : write_blocked(u)' = write_blocked(u)
      BY <3>1 DEF Owed, read_blocked, write_blocked, is_empty, free_len, packet_len
    <3>4. NoSleeperForgotten'
      BY <3>1, <3>3 DEF PInv, NoSleeperForgotten
    <3> QED BY <3>2, <3>4 DEF PInv
  <2> QED BY <2>1, <2>2
<1> QED BY <1>1, <1>2, PTL DEF PSpec

(* Every variable keeps its type: above all the ring never holds more than the  *)
(* capacity set, no segment is empty or longer than that, and at most two wakes *)
(* are owed by a task at a time.                                              *)
THEOREM PipeTypeCorrect == PSpec => []PTypeOK
<1>1. PInv => PTypeOK
  <2> SUFFICES ASSUME PInv PROVE PTypeOK
    OBVIOUS
  <2>1. PTypes /\ Pieces /\ OpenAgrees
    BY DEF PInv
  <2>2. buf \in Seq(Byte) /\ Len(buf) \in Nat /\ cap \in PCap /\ cap \in Nat /\ Len(buf) <= cap /\ cap <= PMax(PCap)
        /\ PMax(PCap) \in Nat
    BY <2>1, LargestCapacity, PipeAssumption DEF PTypes
  <2>4. buf \in BoundedSeq(0 .. Mod - 1, PMax(PCap))
    <3>1. Len(buf) <= PMax(PCap)
      BY <2>2
    <3> QED BY <2>2, <3>1, InBounded DEF Byte
  <2>5. ASSUME NEW i \in 1 .. Len(segments) PROVE segments[i].len \in 1 .. cap /\ segments[i].packet \in BOOLEAN
    <3>1. segments[i] \in SegRec /\ segments[i].len <= Len(buf)
      BY <2>1, FirstPiece
    <3>2. segments[i].len \in Nat \ {0} /\ segments[i].packet \in BOOLEAN
      BY <3>1 DEF SegRec
    <3> QED BY <2>2, <3>1, <3>2
  <2>6. refs \in [Ends -> 0 .. Cardinality(PTask)]
    <3> SUFFICES ASSUME NEW e \in Ends PROVE refs[e] \in 0 .. Cardinality(PTask)
      BY <2>1 DEF PTypes
    <3>1. refs[e] = Cardinality({t \in PTask : e \in ends[t]}) /\ refs[e] \in Nat
      BY <2>1 DEF OpenAgrees, PTypes
    <3>2. Cardinality({t \in PTask : e \in ends[t]}) <= Cardinality(PTask) /\ Cardinality(PTask) \in Nat
      BY FS_Subset, FS_CardinalityType, PipeAssumption
    <3> QED BY <3>1, <3>2
  <2>7. ASSUME NEW t \in PTask
        PROVE  /\ task[t].pc \in {"user", "read", "rsleep", "rblocked", "lease", "lsleep", "lblocked", "held", "write",
                                  "wsleep", "wblocked", "openr", "openrblocked", "openw", "openwblocked"}
               /\ task[t].n \in 0 .. PMaxLen /\ todo[t] \in BoundedSeq(Ends, 2)
    <3>1. task[t] \in TaskRec /\ todo[t] \in Seq(Ends) /\ Len(todo[t]) <= 2
      BY <2>1 DEF PTypes
    <3>2. task[t].pc \in PcSet /\ task[t].n \in 0 .. PMaxLen
      BY <3>1 DEF TaskRec
    <3>4. todo[t] \in BoundedSeq(Ends, 2)
      BY <3>1, InBounded
    <3> QED BY <3>2, <3>4 DEF PcSet, Waits, Transfers
  <2> QED BY <2>1, <2>2, <2>4, <2>5, <2>6, <2>7 DEF PTypeOK, PTypes, Byte
<1> QED BY <1>1, PipeInvariance, PTL

(* The open flags, from which end of file and EPIPE are decided, agree with the *)
(* endpoints that tasks own, and nobody sleeps on what is already there without *)
(* being owed a wake (endpoint.rs, wait_current_while and wake_all).           *)
THEOREM PipeSoundHolds == PSpec => []PipeSound
<1>1. PInv => PipeSound
  BY DEF PInv, PipeSound
<1> QED BY <1>1, PipeInvariance, PTL

(* The pipe implements the bounded channel: through leases, cancelled and short *)
(* copies, packets and changed capacities, what readers are given is what was   *)
(* written, in order and once.                                                *)
THEOREM ImplementsStreamHolds == PSpec => ImplementsStream
<1>1. PInit => Stream!Init
  BY PipeAssumption DEF PInit, Stream!Init
<1>2. PInv /\ [PNext]_pvars => [Stream!Next]_<<buf, out, direct>>
  <2> SUFFICES ASSUME PInv, [PNext]_pvars PROVE [Stream!Next]_<<buf, out, direct>>
    OBVIOUS
  <2>1. CASE UNCHANGED pvars
    BY <2>1 DEF pvars
  <2>2. CASE PNext
    <3>1. Puts \/ Takes \/ Drops \/ Rests
      BY <2>2, TaskStep DEF PNext
    <3>2. CASE Puts
      <4>1. PICK n \in Nat \ {0} : Len(buf') = Len(buf) + n /\ Len(buf') <= cap /\ SubSeq(buf', 1, Len(buf)) = buf
        BY <3>2 DEF Puts
      <4>2. Len(buf) \in Nat /\ cap \in Nat /\ cap <= PMax(PCap) /\ PMax(PCap) \in Nat
        BY LargestCapacity, PipeAssumption DEF PInv, PTypes
      <4>3. n \in 1 .. PMax(PCap) - Len(buf)
        BY <4>1, <4>2
      <4>4. Stream!Put
        BY <3>2, <4>1, <4>3 DEF Puts, Stream!Put
      <4> QED BY <3>2, <4>4 DEF Puts, Stream!Next
    <3>3. CASE Takes
      BY <3>3 DEF Takes, Stream!Take, Stream!Next
    <3>4. CASE Drops
      BY <3>4 DEF Drops, Stream!Drop, Stream!Next
    <3>5. CASE Rests
      BY <3>5 DEF Rests
    <3> QED BY <3>1, <3>2, <3>3, <3>4, <3>5
  <2> QED BY <2>1, <2>2
<1> QED BY <1>1, <1>2, PipeInvariance, PTL DEF PSpec, ImplementsStream, Stream!Spec
=============================================================================
