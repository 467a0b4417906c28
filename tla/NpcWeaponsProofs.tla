--------------------------- MODULE NpcWeaponsProofs ---------------------------
(***************************************************************************)
(* Proofs about NpcWeapons: calls are one packet each on the wire, what    *)
(* the server sends is read once and in order, and a weapon is read back   *)
(* as it was added.                                                        *)
(***************************************************************************)
EXTENDS NpcWeapons, FiniteSetTheorems, DataInduction

\* A sequence's head comes before its tail.
LEMMA HeadFirst ==
  ASSUME NEW S, NEW s \in Seq(S), s # <<>>
  PROVE  Head(s) \in S /\ Tail(s) \in Seq(S) /\ s = <<Head(s)>> \o Tail(s)
  <1> DEFINE p == Head(s)
             t == Tail(s)
             n == Len(t)
  <1>1. p \in S /\ t \in Seq(S) /\ Len(s) = n + 1 /\ n \in Nat
    <2>1. Len(s) \in Nat /\ Len(s) # 0
      BY EmptySeq, LenProperties
    <2> QED BY <2>1, HeadTailProperties
  <1>2. s[1] = p /\ \A i \in 1..n : t[i] = s[i + 1]
    BY HeadTailProperties
  <1> HIDE DEF p, t, n
  <1>3. /\ <<p>> \o t \in Seq(S) /\ Len(<<p>> \o t) = n + 1
        /\ \A i \in 1..(n + 1) : (<<p>> \o t)[i] = IF i = 1 THEN p ELSE t[i - 1]
    BY <1>1 DEF n
  <1>4. \A i \in 1..(n + 1) : s[i] = IF i = 1 THEN p ELSE t[i - 1]
    <2>1. \A i \in 1..(n + 1) : i # 1 => i - 1 \in 1..n /\ (i - 1) + 1 = i
      BY <1>1
    <2> QED BY <1>2, <2>1, Zenon
  <1> DEFINE c == <<p>> \o t
  <1>5. c \in Seq(S) /\ Len(s) = Len(c) /\ \A i \in 1..Len(s) : s[i] = c[i]
    BY <1>1, <1>3, <1>4, Zenon
  <1> HIDE DEF c
  <1>6. s = c
    BY <1>5, SeqEqual
  <1> QED BY <1>1, <1>6, Zenon DEF p, t, c

-----------------------------------------------------------------------------
(* Splitting a frame *)

\* Bytes that are no line feed: what a packet's data are.
Line == Seq(Bytes \ {LF})

\* The first line feed from place i on, or the place behind the frame.
LEMMA UntilLFIs ==
  ASSUME NEW frame, NEW n \in Nat, Len(frame) = n, NEW i \in 1..(n + 1)
  PROVE  /\ UntilLF(frame, i) \in i..(n + 1)
         /\ UntilLF(frame, i) <= n => frame[UntilLF(frame, i)] = LF
         /\ \A j \in i..(n + 1) : j < UntilLF(frame, i) => frame[j] # LF
  <1> DEFINE S == {j \in i..Len(frame) : frame[j] = LF} \cup {Len(frame) + 1}
             m == UntilLF(frame, i)
  <1>1. S \subseteq i..(n + 1) /\ n + 1 \in S /\ S \in SUBSET Nat
    OBVIOUS
  <1>2. \E k \in S : \A j \in S : k <= j
    BY <1>1, LeastElement, Zenon
  <1>3. m = CHOOSE k \in S : \A j \in S : k <= j
    BY Zenon DEF UntilLF, Min
  <1> HIDE DEF m
  <1>4. m \in S /\ \A j \in S : m <= j
    BY <1>2, <1>3, Zenon
  <1>5. m \in i..(n + 1)
    BY <1>1, <1>4
  <1>6. m <= n => frame[m] = LF
    BY <1>4
  <1>7. ASSUME NEW j \in i..(n + 1), j < m PROVE frame[j] # LF
    <2>1. j \notin S
      BY <1>4, <1>5, <1>7
    <2>2. j \in i..Len(frame)
      BY <1>5, <1>7
    <2> QED BY <2>1, <2>2
  <1> QED BY <1>5, <1>6, <1>7, Zenon DEF m

\* Any place like that is the one.
LEMMA UntilLFOnly ==
  ASSUME NEW frame, NEW n \in Nat, Len(frame) = n, NEW i \in 1..(n + 1), NEW k \in i..(n + 1),
         k <= n => frame[k] = LF, \A j \in i..(n + 1) : j < k => frame[j] # LF
  PROVE  UntilLF(frame, i) = k
  <1> DEFINE m == UntilLF(frame, i)
  <1>1. \A j \in i..(n + 1) : j < m => frame[j] # LF
    BY UntilLFIs
  <1>2. m \in i..(n + 1)
    BY UntilLFIs
  <1>3. m <= n => frame[m] = LF
    BY UntilLFIs
  <1> HIDE DEF m
  <1>4. ~ (m < k)
    BY <1>2, <1>3
  <1>5. ~ (k < m)
    BY <1>1, <1>2
  <1> QED BY <1>2, <1>4, <1>5 DEF m

\* The packet that begins at place i of a frame.
PacketAt(frame, i) ==
  [head |-> frame[i], data |-> SubSeq(frame, i + 1, UntilLF(frame, i + 1) - 1)]

\* s splits a frame from each of its places.
Splits(s, frame, n) ==
  /\ s \in [1..(n + 2) -> Seq([head : Bytes, data : Line])]
  /\ \A i \in 1..(n + 2) :
       s[i] = IF i > n THEN <<>> ELSE <<PacketAt(frame, i)>> \o s[UntilLF(frame, i + 1) + 1]

\* What is split off are packets, whose data are lines.
LEMMA PacketAtType ==
  ASSUME NEW frame \in Seq(Bytes), NEW i \in 1..Len(frame)
  PROVE  /\ PacketAt(frame, i) \in [head : Bytes, data : Line]
         /\ UntilLF(frame, i + 1) + 1 \in (i + 2)..(Len(frame) + 2)
  <1> DEFINE n == Len(frame)
             stop == UntilLF(frame, i + 1)
             d == SubSeq(frame, i + 1, stop - 1)
  <1>1. n \in Nat /\ i + 1 \in 1..(n + 1)
    BY LenProperties
  <1>2. stop \in (i + 1)..(n + 1)
    BY <1>1, UntilLFIs
  <1>3. \A j \in (i + 1)..(n + 1) : j < stop => frame[j] # LF
    BY <1>1, UntilLFIs
  <1> HIDE DEF stop
  <1>4. d \in Seq(Bytes) /\ Len(d) = (stop - 1) - i
    BY <1>1, <1>2
  <1>5. \A j \in 1..((stop - 1) - i) : d[j] \in Bytes \ {LF}
    <2> SUFFICES ASSUME NEW j \in 1..((stop - 1) - i) PROVE d[j] \in Bytes \ {LF}
      OBVIOUS
    <2>1. d[j] = frame[i + j]
      BY <1>1, <1>2
    <2>2. i + j \in (i + 1)..(n + 1) /\ i + j < stop /\ i + j \in 1..n
      BY <1>1, <1>2
    <2>3. frame[i + j] \in Bytes
      BY <2>2, ElementOfSeq
    <2> QED BY <1>3, <2>1, <2>2, <2>3
  <1> HIDE DEF d
  <1>6. d \in Line
    <2>1. (stop - 1) - i \in Nat /\ d \in [1..((stop - 1) - i) -> Bytes]
      BY <1>2, <1>4, LenProperties
    <2>2. d \in [1..((stop - 1) - i) -> Bytes \ {LF}]
      BY <1>5, <2>1
    <2> QED BY <2>1, <2>2, SeqDef DEF Line
  <1>7. frame[i] \in Bytes
    BY ElementOfSeq
  <1> QED BY <1>1, <1>2, <1>6, <1>7 DEF PacketAt, d, stop

\* Every frame of bytes is split.
LEMMA SplitIs ==
  ASSUME NEW frame \in Seq(Bytes)
  PROVE  \E s : Splits(s, frame, Len(frame)) /\ Split(frame) = s[1]
  <1> DEFINE n == Len(frame)
             V == Seq([head : Bytes, data : Line])
             P == 1..(n + 2)
             next(i) == UntilLF(frame, i + 1) + 1
             body(g) == [i \in 1..(n + 2) |->
                           IF i > n THEN <<>> ELSE <<PacketAt(frame, i)>> \o g[next(i)]]
             F == [g \in [P -> V] |-> body(g)]
             size == [i \in P |-> n + 2 - i]
             s == CHOOSE f : f = body(f)
  <1>1. n \in Nat
    BY LenProperties
  <1> HIDE DEF n
  <1>2. \A i \in P : i <= n => PacketAt(frame, i) \in [head : Bytes, data : Line] /\ next(i) \in (i + 2)..(n + 2)
    BY <1>1, PacketAtType DEF n
  <1> HIDE DEF next
  <1>3. \A i \in P : i <= n => next(i) \in P
    <2>1. \A i \in P : (i + 2)..(n + 2) \subseteq P
      BY <1>1
    <2> HIDE DEF P
    <2> QED BY <1>2, <2>1, Zenon
  <1>4. ASSUME NEW g \in [P -> V] PROVE body(g) \in [P -> V]
    <2> SUFFICES ASSUME NEW i \in P
                 PROVE  (IF i > n THEN <<>> ELSE <<PacketAt(frame, i)>> \o g[next(i)]) \in V
      OBVIOUS
    <2>1. CASE i > n
      BY <2>1, EmptySeq
    <2>2. CASE ~ (i > n)
      <3>1. i <= n
        BY <1>1, <2>2
      <3>2. g[next(i)] \in V
        <4> HIDE DEF V, P
        <4> QED BY <1>3, <3>1
      <3>3. <<PacketAt(frame, i)>> \in V
        BY <1>2, <3>1
      <3>4. <<PacketAt(frame, i)>> \o g[next(i)] \in V
        BY <3>2, <3>3, ConcatProperties
      <3> QED BY <2>2, <3>4, Zenon
    <2> QED BY <2>1, <2>2, Zenon
  <1>5. F \in [[P -> V] -> [P -> V]]
    <2> HIDE DEF body, P, V
    <2> QED BY <1>4
  <1>6. ASSUME NEW g \in [P -> V], NEW h \in [P -> V], NEW i \in P,
               \A j \in P : size[j] < size[i] => g[j] = h[j]
        PROVE  F[g][i] = F[h][i]
    <2>1. i <= n => g[next(i)] = h[next(i)]
      <3> SUFFICES ASSUME i <= n PROVE g[next(i)] = h[next(i)]
        OBVIOUS
      <3>1. next(i) \in P /\ next(i) \in (i + 2)..(n + 2)
        BY <1>2, <1>3
      <3>2. \A j \in (i + 2)..(n + 2) : n + 2 - j < n + 2 - i
        BY <1>1
      <3>3. size[next(i)] < size[i]
        BY <3>1, <3>2, Zenon
      <3> QED BY <1>6, <3>1, <3>3, Zenon
    <2>2. i > n \/ i <= n
      BY <1>1
    <2>3. body(g)[i] = body(h)[i]
      BY <2>1, <2>2, Zenon
    <2>4. F[g] = body(g) /\ F[h] = body(h)
      BY Zenon
    <2> HIDE DEF F, body
    <2> QED BY <2>3, <2>4, Zenon
  <1>7. [P -> V] # {} /\ size \in [P -> Nat]
    <2>1. [i \in P |-> <<>>] \in [P -> V]
      BY EmptySeq
    <2>2. \A i \in P : n + 2 - i \in Nat
      BY <1>1
    <2>3. size \in [P -> Nat]
      <3> HIDE DEF P
      <3> QED BY <2>2, Zenon
    <2> QED BY <2>1, <2>3, Zenon
  <1>8. Recurses(F, P, V, size)
    <2> HIDE DEF F, size, P, V
    <2> QED BY <1>5, <1>6, <1>7, Zenon DEF Recurses
  <1>9. \E f : f \in [P -> V] /\ f = F[f]
    <2> HIDE DEF F, size, P, V, body, s
    <2> QED BY <1>8, Recursion
  <1>10. \E f : f \in [P -> V] /\ f = body(f)
    <2> HIDE DEF body, P, V
    <2> QED BY <1>9
  <1>11. s = body(s)
    <2> HIDE DEF body
    <2> QED BY <1>10, Zenon
  <1>12. Split(frame) = s[1]
    BY Zenon DEF Split, PacketAt, n, next
  <1> HIDE DEF s
  <1>13. \A i \in P : s[i] = IF i > n THEN <<>> ELSE <<PacketAt(frame, i)>> \o s[next(i)]
    BY <1>11, Zenon
  <1>14. \A i \in P : s[i] \in V
    <2> DEFINE G == {i \in P : s[i] \in V}
    <2>1. ASSUME NEW i \in P, \A j \in P : size[j] < size[i] => j \in G PROVE i \in G
      <3>1. CASE i > n
        BY <1>13, <3>1, EmptySeq
      <3>2. CASE ~ (i > n)
        <4>1. i <= n
          BY <1>1, <3>2
        <4>2. next(i) \in P /\ next(i) \in (i + 2)..(n + 2)
          BY <1>2, <1>3, <4>1
        <4>3. n + 2 - next(i) < n + 2 - i
          BY <1>1, <4>2
        <4>4. s[next(i)] \in V
          <5> HIDE DEF V, P
          <5> QED BY <2>1, <4>2, <4>3
        <4>5. <<PacketAt(frame, i)>> \in V
          BY <1>2, <4>1
        <4>6. <<PacketAt(frame, i)>> \o s[next(i)] \in V
          BY <4>4, <4>5, ConcatProperties
        <4> QED BY <1>13, <3>2, <4>6, Zenon
      <3> QED BY <3>1, <3>2
    <2>2. P \subseteq G
      <3> HIDE DEF G, P, V, size
      <3> QED BY <1>7, <2>1, SizeInduction, Zenon
    <2> QED BY <2>2
  <1>15. s \in [P -> V]
    <2>1. s = [i \in P |-> s[i]]
      BY <1>11, Zenon
    <2> HIDE DEF P, V
    <2> QED BY <1>14, <2>1
  <1> QED BY <1>12, <1>13, <1>15, Zenon DEF Splits, n, next

\* Behind other bytes a frame is split as it is alone.
LEMMA SplitsBehind ==
  ASSUME NEW a \in Seq(Bytes), NEW rest \in Seq(Bytes),
         NEW s, Splits(s, a \o rest, Len(a \o rest)), NEW t, Splits(t, rest, Len(rest))
  PROVE  \A i \in 1..(Len(rest) + 2) : s[Len(a) + i] = t[i]
  <1> DEFINE frame == a \o rest
             m == Len(a)
             n == Len(rest)
             P == 1..(n + 2)
             size == [i \in P |-> n + 2 - i]
             G == {i \in P : s[m + i] = t[i]}
  <1>1. /\ m \in Nat /\ n \in Nat /\ frame \in Seq(Bytes) /\ Len(frame) = m + n
        /\ \A i \in 1..n : frame[m + i] = rest[i]
    BY LenProperties, ConcatProperties
  <1>2. /\ \A i \in 1..(m + n + 2) :
             s[i] = IF i > m + n THEN <<>> ELSE <<PacketAt(frame, i)>> \o s[UntilLF(frame, i + 1) + 1]
        /\ \A i \in 1..(n + 2) :
             t[i] = IF i > n THEN <<>> ELSE <<PacketAt(rest, i)>> \o t[UntilLF(rest, i + 1) + 1]
    BY <1>1, Zenon DEF Splits
  <1>3. ASSUME NEW i \in 1..n
        PROVE  /\ UntilLF(frame, m + i + 1) = m + UntilLF(rest, i + 1)
               /\ PacketAt(frame, m + i) = PacketAt(rest, i)
    <2> DEFINE k == UntilLF(rest, i + 1)
    <2>1. i + 1 \in 1..(n + 1)
      BY <1>1
    <2>2. k \in (i + 1)..(n + 1)
      BY <1>1, <2>1, UntilLFIs
    <2>3. k <= n => rest[k] = LF
      BY <1>1, <2>1, UntilLFIs
    <2>4. \A j \in (i + 1)..(n + 1) : j < k => rest[j] # LF
      BY <1>1, <2>1, UntilLFIs
    <2> HIDE DEF k
    <2>5. m + k <= m + n => frame[m + k] = LF
      BY <1>1, <2>2, <2>3
    <2>6. ASSUME NEW j \in (m + i + 1)..(m + n + 1), j < m + k PROVE frame[j] # LF
      <3> DEFINE q == j - m
      <3>1. q \in (i + 1)..(n + 1) /\ q \in 1..n /\ m + q = j /\ q < k
        BY <1>1, <2>2, <2>6
      <3> HIDE DEF q
      <3>2. frame[m + q] = rest[q] /\ rest[q] # LF
        BY <1>1, <2>4, <3>1, Zenon
      <3> QED BY <3>1, <3>2
    <2>7. m + i + 1 \in 1..(m + n + 1) /\ m + k \in (m + i + 1)..(m + n + 1) /\ m + n \in Nat
      BY <1>1, <2>2
    <2> HIDE DEF frame
    <2>8. UntilLF(frame, m + i + 1) = m + k
      BY <1>1, <2>5, <2>6, <2>7, UntilLFOnly
    <2>9. SubSeq(frame, m + i + 1, m + k - 1) = SubSeq(rest, i + 1, k - 1)
      <3>1. /\ SubSeq(frame, m + i + 1, m + k - 1) \in Seq(Bytes)
            /\ Len(SubSeq(frame, m + i + 1, m + k - 1)) = k - 1 - i
            /\ \A j \in 1..(k - 1 - i) : SubSeq(frame, m + i + 1, m + k - 1)[j] = frame[m + i + j]
        BY <1>1, <2>2
      <3>2. /\ SubSeq(rest, i + 1, k - 1) \in Seq(Bytes)
            /\ Len(SubSeq(rest, i + 1, k - 1)) = k - 1 - i
            /\ \A j \in 1..(k - 1 - i) : SubSeq(rest, i + 1, k - 1)[j] = rest[i + j]
        BY <1>1, <2>2
      <3>3. ASSUME NEW j \in 1..(k - 1 - i) PROVE frame[m + i + j] = rest[i + j]
        <4>1. i + j \in 1..n /\ m + (i + j) = m + i + j
          BY <1>1, <2>2
        <4> QED BY <1>1, <4>1
      <3>4. \A j \in 1..(k - 1 - i) :
              SubSeq(frame, m + i + 1, m + k - 1)[j] = SubSeq(rest, i + 1, k - 1)[j]
        BY <3>1, <3>2, <3>3, Zenon
      <3> QED BY <3>1, <3>2, <3>4, SeqEqual
    <2>10. frame[m + i] = rest[i]
      BY <1>1
    <2>11. PacketAt(frame, m + i)
             = [head |-> frame[m + i], data |-> SubSeq(frame, m + i + 1, UntilLF(frame, m + i + 1) - 1)]
      BY Zenon DEF PacketAt
    <2>12. PacketAt(frame, m + i)
             = [head |-> frame[m + i], data |-> SubSeq(frame, m + i + 1, m + k - 1)]
      <3>1. (m + k) - 1 = m + k - 1
        BY <1>1, <2>2
      <3> QED BY <2>8, <2>11, <3>1, Zenon
    <2>13. PacketAt(rest, i) = [head |-> rest[i], data |-> SubSeq(rest, i + 1, k - 1)]
      BY Zenon DEF PacketAt, k
    <2> QED BY <2>8, <2>9, <2>10, <2>12, <2>13, Zenon DEF k
  <1> HIDE DEF frame
  <1>4. ASSUME NEW i \in P, \A j \in P : size[j] < size[i] => j \in G PROVE i \in G
    <2>1. i \in 1..(n + 2) /\ m + i \in 1..(m + n + 2)
      BY <1>1
    <2>2. CASE i > n
      <3>1. m + i > m + n
        BY <1>1, <2>2
      <3>2. s[m + i] = <<>> /\ t[i] = <<>>
        BY <1>2, <2>1, <2>2, <3>1, Zenon
      <3> QED BY <3>2
    <2>3. CASE ~ (i > n)
      <3> DEFINE j == UntilLF(rest, i + 1) + 1
      <3>1. i \in 1..n /\ ~ (m + i > m + n)
        BY <1>1, <2>3
      <3>2. j \in (i + 2)..(n + 2)
        BY <3>1, PacketAtType
      <3>3. j \in P /\ n + 2 - j < n + 2 - i
        BY <1>1, <3>2
      <3>4. s[m + j] = t[j]
        <4> HIDE DEF j
        <4> QED BY <1>4, <3>3
      <3>5. UntilLF(frame, m + i + 1) + 1 = m + j
        <4>1. UntilLF(rest, i + 1) + 1 = j /\ UntilLF(rest, i + 1) \in Nat
          <5>1. i + 1 \in 1..(n + 1)
            BY <1>1, <3>1
          <5>2. UntilLF(rest, i + 1) \in (i + 1)..(n + 1)
            BY <1>1, <5>1, UntilLFIs
          <5> QED BY <1>1, <5>2
        <4>2. UntilLF(frame, m + i + 1) = m + UntilLF(rest, i + 1)
          BY <1>3, <3>1, Zenon
        <4> HIDE DEF j
        <4> QED BY <1>1, <4>1, <4>2
      <3>6. s[m + i] = <<PacketAt(frame, m + i)>> \o s[UntilLF(frame, (m + i) + 1) + 1]
        BY <1>2, <2>1, <3>1, Zenon
      <3>7. t[i] = <<PacketAt(rest, i)>> \o t[j]
        BY <1>2, <2>1, <2>3, Zenon
      <3>8. PacketAt(frame, m + i) = PacketAt(rest, i)
        BY <1>3, <3>1, Zenon
      <3> HIDE DEF j
      <3> QED BY <3>4, <3>5, <3>6, <3>7, <3>8, Zenon
    <2> QED BY <2>2, <2>3
  <1>5. size \in [P -> Nat]
    <2>1. \A i \in P : n + 2 - i \in Nat
      BY <1>1
    <2> HIDE DEF P
    <2> QED BY <2>1, Zenon
  <1>6. P \subseteq G
    <2> HIDE DEF G, P, size
    <2> QED BY <1>4, <1>5, SizeInduction, Zenon
  <1> QED BY <1>6

\* What one packet is in a frame.
One(p) == <<p.head>> \o p.data \o <<LF>>

LinePackets == [head : Bytes, data : Line]

\* Its byte, its data and the line feed are where they are looked for.
LEMMA OneIs ==
  ASSUME NEW p \in LinePackets
  PROVE  /\ One(p) \in Seq(Bytes) /\ Len(p.data) \in Nat /\ Len(One(p)) = Len(p.data) + 2
         /\ One(p)[1] = p.head /\ One(p)[Len(p.data) + 2] = LF
         /\ \A i \in 1..Len(p.data) : One(p)[i + 1] = p.data[i] /\ p.data[i] # LF
         /\ p.data \in Seq(Bytes)
  <1> DEFINE d == p.data
             h == p.head
  <1>1. d \in Seq(Bytes \ {LF}) /\ h \in Bytes
    BY Zenon DEF LinePackets, Line
  <1> HIDE DEF d, h
  <1>2. Len(d) \in Nat /\ d \in Seq(Bytes) /\ \A i \in 1..Len(d) : d[i] # LF
    <2>1. Len(d) \in Nat /\ \A i \in 1..Len(d) : d[i] \in Bytes \ {LF}
      BY <1>1, LenProperties, ElementOfSeq
    <2>2. d \in [1..Len(d) -> Bytes]
      BY <1>1, <2>1
    <2> QED BY <2>1, <2>2, SeqDef
  <1>3. LF \in Bytes
    BY DEF LF, Bytes
  <1>4. /\ <<h>> \o d \in Seq(Bytes) /\ Len(<<h>> \o d) = Len(d) + 1
        /\ (<<h>> \o d)[1] = h /\ \A i \in 1..Len(d) : (<<h>> \o d)[i + 1] = d[i]
    BY <1>1, <1>2
  <1> DEFINE hd == <<h>> \o d
             all == hd \o <<LF>>
  <1> HIDE DEF hd
  <1>5. /\ all \in Seq(Bytes) /\ Len(all) = Len(d) + 2
        /\ \A i \in 1..(Len(d) + 1) : all[i] = hd[i]
        /\ all[Len(d) + 2] = LF
    BY <1>2, <1>3, <1>4 DEF hd
  <1>6. One(p) = all
    BY Zenon DEF One, hd, d, h
  <1> HIDE DEF all
  <1>7. all[1] = h /\ \A i \in 1..Len(d) : all[i + 1] = d[i]
    <2>1. hd[1] = h /\ \A i \in 1..Len(d) : hd[i + 1] = d[i]
      BY <1>4, Zenon DEF hd
    <2>2. 1 \in 1..(Len(d) + 1) /\ \A i \in 1..Len(d) : i + 1 \in 1..(Len(d) + 1)
      BY <1>2
    <2> QED BY <1>5, <2>1, <2>2, Zenon
  <1> QED BY <1>2, <1>5, <1>6, <1>7, Zenon DEF d, h

\* A frame that begins with a packet is split into it and the packets of the rest.
LEMMA SplitFirst ==
  ASSUME NEW p \in LinePackets, NEW rest \in Seq(Bytes)
  PROVE  Split(One(p) \o rest) = <<p>> \o Split(rest)
  <1> DEFINE a == One(p)
             frame == a \o rest
             m == Len(p.data) + 2
             n == Len(rest)
  <1>1. /\ a \in Seq(Bytes) /\ Len(a) = m /\ m \in Nat /\ n \in Nat /\ m >= 2
        /\ Len(p.data) \in Nat /\ a[1] = p.head /\ a[m] = LF
        /\ \A i \in 1..Len(p.data) : a[i + 1] = p.data[i] /\ p.data[i] # LF
        /\ p.data \in Seq(Bytes)
    BY OneIs, LenProperties
  <1> HIDE DEF a
  <1>2. /\ frame \in Seq(Bytes) /\ Len(frame) = m + n
        /\ \A i \in 1..m : frame[i] = a[i]
    <2> HIDE DEF m, n
    <2>1. /\ frame \in Seq(Bytes) /\ Len(frame) = Len(a) + Len(rest)
          /\ \A i \in 1..(Len(a) + Len(rest)) :
               frame[i] = IF i <= Len(a) THEN a[i] ELSE rest[i - Len(a)]
      BY <1>1, ConcatProperties
    <2> QED BY <1>1, <2>1 DEF n
  <1>3. PICK s : Splits(s, frame, Len(frame)) /\ Split(frame) = s[1]
    BY <1>2, SplitIs
  <1>4. PICK t : Splits(t, rest, Len(rest)) /\ Split(rest) = t[1]
    BY SplitIs
  <1>5. \A i \in 1..(n + 2) : s[Len(a) + i] = t[i]
    <2>1. Splits(s, a \o rest, Len(a \o rest)) /\ Splits(t, rest, Len(rest)) /\ a \in Seq(Bytes)
      BY <1>1, <1>3, <1>4, Zenon
    <2>2. \A i \in 1..(Len(rest) + 2) : s[Len(a) + i] = t[i]
      BY <2>1, SplitsBehind
    <2> QED BY <2>2, Zenon
  <1> HIDE DEF frame
  <1>6. UntilLF(frame, 2) = m
    <2>1. 2 \in 1..(m + n + 1) /\ m \in 2..(m + n + 1) /\ m + n \in Nat /\ m <= m + n
      BY <1>1
    <2>2. frame[m] = LF
      BY <1>1, <1>2
    <2>3. ASSUME NEW j \in 2..(m + n + 1), j < m PROVE frame[j] # LF
      <3>1. j - 1 \in 1..Len(p.data) /\ (j - 1) + 1 = j /\ j \in 1..m
        BY <1>1, <2>3
      <3>2. a[j] = p.data[j - 1] /\ p.data[j - 1] # LF
        BY <1>1, <3>1
      <3> QED BY <1>2, <3>1, <3>2
    <2> HIDE DEF m
    <2> QED BY <1>2, <2>1, <2>2, <2>3, UntilLFOnly
  <1>7. PacketAt(frame, 1) = p
    <2> DEFINE d == SubSeq(frame, 2, m - 1)
    <2>1. /\ d \in Seq(Bytes) /\ Len(d) = Len(p.data)
          /\ \A i \in 1..Len(p.data) : d[i] = frame[i + 1]
      BY <1>1, <1>2
    <2>2. \A i \in 1..Len(p.data) : d[i] = p.data[i]
      <3>1. \A i \in 1..Len(p.data) : i + 1 \in 1..m
        BY <1>1
      <3> HIDE DEF d
      <3> QED BY <1>1, <1>2, <2>1, <3>1
    <2>3. d = p.data
      <3> HIDE DEF d
      <3> QED BY <1>1, <2>1, <2>2, SeqEqual
    <2>4. frame[1] = p.head
      BY <1>1, <1>2
    <2>5. p = [head |-> p.head, data |-> p.data]
      BY DEF LinePackets
    <2>6. PacketAt(frame, 1) = [head |-> frame[1], data |-> SubSeq(frame, 2, UntilLF(frame, 2) - 1)]
      BY DEF PacketAt
    <2> QED BY <1>6, <2>3, <2>4, <2>5, <2>6, Zenon
  <1>8. s[1] = <<PacketAt(frame, 1)>> \o s[UntilLF(frame, 2) + 1]
    <2>1. 1 \in 1..(Len(frame) + 2) /\ ~ (1 > Len(frame)) /\ 1 + 1 = 2
      BY <1>1, <1>2
    <2>2. s[1] = <<PacketAt(frame, 1)>> \o s[UntilLF(frame, 1 + 1) + 1]
      BY <1>3, <2>1, Zenon DEF Splits
    <2> QED BY <2>1, <2>2, Zenon
  <1>9. s[m + 1] = t[1]
    <2>1. 1 \in 1..(n + 2)
      BY <1>1
    <2> HIDE DEF m, n
    <2> QED BY <1>1, <1>5, <2>1, Zenon
  <1> QED BY <1>3, <1>4, <1>6, <1>7, <1>8, <1>9, Zenon DEF frame, a

\* Whatever the bytes are, what is split off them are packets.
LEMMA SplitType ==
  ASSUME NEW frame \in Seq(Bytes)
  PROVE  Split(frame) \in Seq(LinePackets) /\ (frame = <<>> => Split(frame) = <<>>)
  <1>1. PICK s : Splits(s, frame, Len(frame)) /\ Split(frame) = s[1]
    BY SplitIs
  <1>2. Len(frame) \in Nat /\ 1 \in 1..(Len(frame) + 2) /\ (frame = <<>> => 1 > Len(frame))
    BY LenProperties
  <1>3. s[1] \in Seq(LinePackets)
    BY <1>1, <1>2, Zenon DEF Splits, LinePackets
  <1>4. 1 > Len(frame) => s[1] = <<>>
    BY <1>1, <1>2, Zenon DEF Splits
  <1> QED BY <1>1, <1>2, <1>3, <1>4

\* Packets of lines make a frame of bytes, one packet after the other.
LEMMA PackIs ==
  /\ \A packets \in Seq(LinePackets) : Pack(packets) \in Seq(Bytes)
  /\ Pack(<<>>) = <<>>
  /\ \A p \in LinePackets, packets \in Seq(LinePackets) :
       Pack(<<p>> \o packets) = One(p) \o Pack(packets)
  <1>0. ASSUME NEW f \in [LinePackets -> Seq(Bytes)], NEW s \in Seq(LinePackets),
               NEW t \in Seq(LinePackets)
        PROVE  FlatMap(f, s \o t) = FlatMap(f, s) \o FlatMap(f, t)
    BY FlatMapConcat
  <1> DEFINE f == [p \in LinePackets |-> One(p)]
  <1>1. f \in [LinePackets -> Seq(Bytes)]
    BY OneIs
  <1>2. ASSUME NEW packets \in Seq(LinePackets) PROVE Pack(packets) = FlatMap(f, packets)
    <2>1. \A i \in 1..Len(packets) : packets[i] \in LinePackets
      BY ElementOfSeq
    <2>2. \A i \in 1..Len(packets) :
            f[packets[i]] = <<packets[i].head>> \o packets[i].data \o <<LF>>
      BY <2>1, Zenon DEF One
    <2>3. [i \in 1..Len(packets) |-> f[packets[i]]]
            = [i \in 1..Len(packets) |-> <<packets[i].head>> \o packets[i].data \o <<LF>>]
      BY <2>2, Zenon
    <2> HIDE DEF f
    <2> QED BY <2>3, Zenon DEF Pack, FlatMap
  <1>3. \A p \in LinePackets : f[p] = One(p)
    BY Zenon
  <1> HIDE DEF f
  <1>4. ASSUME NEW packets \in Seq(LinePackets) PROVE Pack(packets) \in Seq(Bytes)
    BY <1>1, <1>2, FlatMapType
  <1>5. Pack(<<>>) = <<>>
    BY <1>2, FlatMapEmpty, EmptySeq
  <1>6. ASSUME NEW p \in LinePackets, NEW packets \in Seq(LinePackets)
        PROVE  Pack(<<p>> \o packets) = One(p) \o Pack(packets)
    <2>1. <<p>> \in Seq(LinePackets)
      OBVIOUS
    <2>2. <<p>> \o packets \in Seq(LinePackets)
      BY <2>1, ConcatProperties
    <2>3. FlatMap(f, <<p>> \o packets) = FlatMap(f, <<p>>) \o FlatMap(f, packets)
      BY <1>0, <1>1, <2>1, Zenon
    <2>4. FlatMap(f, <<p>>) = One(p)
      BY <1>1, <1>3, FlatMapOne
    <2> QED BY <1>2, <2>2, <2>3, <2>4, Zenon
  <1> QED BY <1>4, <1>5, <1>6, Zenon

\* A frame made of packets is split into them.
LEMMA SplitPack == \A packets \in Seq(LinePackets) : Split(Pack(packets)) = packets
  <1> DEFINE H == {n \in Nat : \A ps \in Seq(LinePackets) : Len(ps) = n => Split(Pack(ps)) = ps}
  <1>1. 0 \in H
    <2>1. \A ps \in Seq(LinePackets) : Len(ps) = 0 => ps = <<>>
      BY EmptySeq
    <2>2. Split(Pack(<<>>)) = <<>>
      BY PackIs, SplitType, EmptySeq
    <2> QED BY <2>1, <2>2, Zenon
  <1>2. ASSUME NEW n \in Nat, n \in H PROVE n + 1 \in H
    <2> SUFFICES ASSUME NEW ps \in Seq(LinePackets), Len(ps) = n + 1 PROVE Split(Pack(ps)) = ps
      OBVIOUS
    <2>1. ps # <<>>
      BY <1>2
    <2> DEFINE p == Head(ps)
               t == Tail(ps)
    <2>2. p \in LinePackets /\ t \in Seq(LinePackets) /\ Len(t) = n
      BY <2>1, HeadTailProperties
    <2>3. ps = <<p>> \o t
      BY <2>1, HeadFirst
    <2>4. Pack(t) \in Seq(Bytes) /\ Split(Pack(t)) = t
      BY <1>2, <2>2, PackIs
    <2> HIDE DEF p, t
    <2>5. Pack(ps) = One(p) \o Pack(t)
      BY <2>2, <2>3, PackIs, Zenon
    <2>6. Split(One(p) \o Pack(t)) = <<p>> \o Split(Pack(t))
      BY <2>2, <2>4, SplitFirst, Zenon
    <2> QED BY <2>3, <2>4, <2>5, <2>6, Zenon
  <1> HIDE DEF H
  <1>3. Nat \subseteq H
    BY <1>1, <1>2, NaturalInduction
  <1>4. \A ps \in Seq(LinePackets) : Len(ps) \in H
    BY <1>3, LenProperties
  <1> QED BY <1>4 DEF H

-----------------------------------------------------------------------------
(* What a call writes *)

Calls == [what : {NcWeaponGet, NcWeaponAdd}, weapon : Weapons]

\* Carriage returns are left out of a script,
LEMMA UnixIs ==
  /\ \A s \in Seq(Bytes) : Unix(s) \in Seq(Bytes)
  /\ Unix(<<>>) = <<>>
  /\ \A s \in Seq(Bytes), c \in Bytes :
       Unix(Append(s, c)) = IF c = CR THEN Unix(s) ELSE Append(Unix(s), c)
  <1>0. ASSUME NEW f \in [Bytes -> Seq(Bytes)], NEW s \in Seq(Bytes), NEW t \in Seq(Bytes)
        PROVE  FlatMap(f, s \o t) = FlatMap(f, s) \o FlatMap(f, t)
    BY FlatMapConcat
  <1> DEFINE f == [c \in Bytes |-> IF c = CR THEN <<>> ELSE <<c>>]
  <1>1. f \in [Bytes -> Seq(Bytes)]
    OBVIOUS
  <1>2. ASSUME NEW s \in Seq(Bytes) PROVE Unix(s) = FlatMap(f, s)
    <2>1. \A i \in 1..Len(s) : s[i] \in Bytes
      BY ElementOfSeq
    <2>2. \A i \in 1..Len(s) : f[s[i]] = IF s[i] = CR THEN <<>> ELSE <<s[i]>>
      BY <2>1, Zenon
    <2>3. [i \in 1..Len(s) |-> f[s[i]]] = [i \in 1..Len(s) |-> IF s[i] = CR THEN <<>> ELSE <<s[i]>>]
      BY <2>2, Zenon
    <2> HIDE DEF f
    <2> QED BY <2>3, Zenon DEF Unix, FlatMap
  <1>3. \A c \in Bytes : f[c] = IF c = CR THEN <<>> ELSE <<c>>
    BY Zenon
  <1> HIDE DEF f
  <1>4. ASSUME NEW s \in Seq(Bytes) PROVE Unix(s) \in Seq(Bytes)
    BY <1>1, <1>2, FlatMapType
  <1>5. Unix(<<>>) = <<>>
    BY <1>2, FlatMapEmpty, EmptySeq
  <1>6. ASSUME NEW s \in Seq(Bytes), NEW c \in Bytes
        PROVE  Unix(Append(s, c)) = IF c = CR THEN Unix(s) ELSE Append(Unix(s), c)
    <2>1. <<c>> \in Seq(Bytes) /\ Append(s, c) = s \o <<c>> /\ Append(s, c) \in Seq(Bytes)
      BY AppendIsConcat, AppendProperties
    <2>2. FlatMap(f, s \o <<c>>) = FlatMap(f, s) \o FlatMap(f, <<c>>)
      BY <1>0, <1>1, <2>1, Zenon
    <2>3. FlatMap(f, <<c>>) = f[c]
      BY <1>1, FlatMapOne
    <2>4. Unix(Append(s, c)) = Unix(s) \o f[c]
      BY <1>2, <2>1, <2>2, <2>3, Zenon
    <2>5. CASE c = CR
      <3>1. Unix(s) \o <<>> = Unix(s)
        BY <1>4, ConcatEmptySeq
      <3> QED BY <1>3, <2>4, <2>5, <3>1, Zenon
    <2>6. CASE c # CR
      <3>1. Unix(s) \o <<c>> = Append(Unix(s), c)
        BY <1>4, AppendIsConcat
      <3> QED BY <1>3, <2>4, <2>6, <3>1, Zenon
    <2> QED BY <2>5, <2>6
  <1> QED BY <1>4, <1>5, <1>6, Zenon

\* Bytes without a line feed are a line.
LEMMA IsLine ==
  ASSUME NEW b \in Seq(Bytes)
  PROVE  b \in Line <=> NoLF(b)
  <1>1. Len(b) \in Nat /\ \A i \in 1..Len(b) : b[i] \in Bytes
    BY LenProperties, ElementOfSeq
  <1>2. ASSUME NoLF(b) PROVE b \in Line
    <2>1. b \in [1..Len(b) -> Bytes \ {LF}]
      BY <1>1, <1>2 DEF NoLF
    <2> QED BY <1>1, <2>1, SeqDef DEF Line
  <1>3. ASSUME b \in Line PROVE NoLF(b)
    <2>1. \A i \in 1..Len(b) : b[i] \in Bytes \ {LF}
      BY <1>3, ElementOfSeq DEF Line
    <2> QED BY <2>1 DEF NoLF
  <1> QED BY <1>2, <1>3

\* A script is written as a line, whatever is in it.
LEMMA GScriptIs ==
  ASSUME NEW s \in Seq(Bytes)
  PROVE  GScript(s) \in Line /\ GScript(s) \in Seq(Bytes)
  <1> DEFINE u == Unix(s)
             w == [i \in 1..Len(u) |-> IF u[i] = LF THEN Mark ELSE u[i]]
  <1>1. u \in Seq(Bytes)
    BY UnixIs
  <1> HIDE DEF u
  <1>2. Len(u) \in Nat /\ \A i \in 1..Len(u) : u[i] \in Bytes
    BY <1>1, LenProperties, ElementOfSeq
  <1>3. Mark \in Bytes /\ Mark # LF
    BY DEF Mark, Bytes, LF
  <1>4. w \in [1..Len(u) -> Bytes \ {LF}] /\ w \in [1..Len(u) -> Bytes]
    BY <1>2, <1>3
  <1>5. w \in Seq(Bytes \ {LF}) /\ w \in Seq(Bytes)
    <2> HIDE DEF w
    <2> QED BY <1>2, <1>4, SeqDef
  <1>6. GScript(s) = w
    BY Zenon DEF GScript, Swap, u
  <1> QED BY <1>5, <1>6, Zenon DEF Line

\* A string is written with its length in front, which is no line feed.
LEMMA GStringIs ==
  ASSUME NEW text \in Seq(Bytes)
  PROVE  /\ GString(text) \in Seq(Bytes) /\ Len(GString(text)) = Len(text) + 1
         /\ GString(text)[1] = (Len(text) % Chunk) + Bias
         /\ \A i \in 1..Len(text) : GString(text)[i + 1] = text[i]
         /\ NoLF(text) => GString(text) \in Line
  <1> DEFINE e == (Len(text) % Chunk) + Bias
             g == <<e>> \o text
  <1>1. Len(text) \in Nat
    BY LenProperties
  <1>2. e \in Bytes /\ e # LF
    <2>1. \A n \in Nat : n % 128 \in 0..127
      OBVIOUS
    <2>2. Len(text) % 128 \in 0..127
      BY <1>1, <2>1, Zenon
    <2> DEFINE r == Len(text) % 128
    <2>3. r \in 0..127 /\ e = r + 32
      BY <2>2, Zenon DEF Chunk, Bias
    <2> HIDE DEF r, e
    <2> QED BY <2>3 DEF Bytes, LF
  <1>3. GString(text) = g
    BY Zenon DEF GString, EncodeByte
  <1> HIDE DEF e
  <1>4. /\ g \in Seq(Bytes) /\ Len(g) = Len(text) + 1 /\ g[1] = e
        /\ \A i \in 1..Len(text) : g[i + 1] = text[i]
    BY <1>1, <1>2
  <1> HIDE DEF g
  <1>5. NoLF(text) => g \in Line
    <2> SUFFICES ASSUME NoLF(text) PROVE NoLF(g)
      BY <1>4, IsLine
    <2>1. ASSUME NEW i \in 1..Len(g), i # 1 PROVE g[i] # LF
      <3>1. i - 1 \in 1..Len(text) /\ (i - 1) + 1 = i
        BY <1>1, <1>4, <2>1
      <3>2. g[i] = text[i - 1]
        BY <1>4, <3>1
      <3> QED BY <3>1, <3>2 DEF NoLF
    <2> QED BY <1>2, <1>4, <2>1 DEF NoLF
  <1> QED BY <1>3, <1>4, <1>5, Zenon DEF e

\* What a call writes, as one packet.
Written(call) == [head |-> call.what + Bias, data |-> Data(call)]

\* A call's frame are bytes, and it is that packet if the names in it are lines.
LEMMA CallIs ==
  ASSUME NEW call \in Calls
  PROVE  /\ Data(call) \in Seq(Bytes) /\ Frame(call) \in Seq(Bytes)
         /\ NoLF(call.weapon.name) /\ NoLF(call.weapon.image) =>
              Written(call) \in LinePackets /\ Split(Frame(call)) = <<Written(call)>>
  <1> DEFINE w == call.weapon
             name == w.name
             image == w.image
             script == w.script
             d == Data(call)
             h == call.what + Bias
  <1>1. name \in Seq(Bytes) /\ image \in Seq(Bytes) /\ script \in Seq(Bytes)
    BY Zenon DEF Calls, Weapons
  <1>2. h \in Bytes /\ (call.what % Chunk) + Bias = h
    <2>1. call.what = 116 \/ call.what = 117
      BY DEF Calls, NcWeaponGet, NcWeaponAdd
    <2> QED BY <2>1 DEF Chunk, Bias, Bytes
  <1> DEFINE written == (GString(name) \o GString(image)) \o GScript(script)
  <1>3. d = IF call.what = NcWeaponGet THEN name ELSE written
    BY Zenon DEF Data
  <1> HIDE DEF name, image, script, d, h
  <1>4. written \in Seq(Bytes)
    <2>1. GString(name) \in Seq(Bytes) /\ GString(image) \in Seq(Bytes) /\ GScript(script) \in Seq(Bytes)
      BY <1>1, GStringIs, GScriptIs
    <2>2. GString(name) \o GString(image) \in Seq(Bytes)
      BY <2>1, ConcatProperties
    <2> QED BY <2>1, <2>2, ConcatProperties
  <1>5. NoLF(name) /\ NoLF(image) => written \in Line
    <2> SUFFICES ASSUME NoLF(name), NoLF(image) PROVE written \in Line
      OBVIOUS
    <2>1. GString(name) \in Line /\ GString(image) \in Line /\ GScript(script) \in Line
      BY <1>1, GStringIs, GScriptIs
    <2>2. \A a, b \in Line : a \o b \in Line
      BY ConcatProperties, Zenon DEF Line
    <2> QED BY <2>1, <2>2, Zenon
  <1> HIDE DEF written
  <1>6. d \in Seq(Bytes) /\ (NoLF(name) /\ NoLF(image) => d \in Line)
    BY <1>1, <1>3, <1>4, <1>5, IsLine, Zenon
  <1>7. Frame(call) = <<h>> \o d \o <<LF>>
    BY <1>2, Zenon DEF Frame, EncodeByte, d
  <1>8. Frame(call) \in Seq(Bytes)
    <2>1. <<h>> \in Seq(Bytes) /\ <<LF>> \in Seq(Bytes)
      BY <1>2 DEF LF, Bytes
    <2>2. <<h>> \o d \in Seq(Bytes)
      BY <1>6, <2>1, ConcatProperties
    <2>3. (<<h>> \o d) \o <<LF>> \in Seq(Bytes)
      BY <2>1, <2>2, ConcatProperties
    <2> QED BY <1>7, <2>3, Zenon
  <1>9. ASSUME NoLF(name), NoLF(image)
        PROVE  Written(call) \in LinePackets /\ Split(Frame(call)) = <<Written(call)>>
    <2> DEFINE p == Written(call)
    <2>1. p.head = h /\ p.data = d /\ p = [head |-> h, data |-> d]
      BY DEF Written, h, d
    <2>2. p \in LinePackets
      BY <1>2, <1>6, <1>9, <2>1 DEF LinePackets
    <2> HIDE DEF p
    <2>3. Frame(call) = One(p)
      BY <1>7, <2>1, Zenon DEF One
    <2>4. One(p) \in Seq(Bytes) /\ <<>> \in Seq(Bytes)
      BY <2>2, OneIs
    <2>5. One(p) \o <<>> = One(p) /\ <<p>> \o <<>> = <<p>>
      BY <2>2, <2>4, ConcatEmptySeq
    <2>6. Split(One(p) \o <<>>) = <<p>> \o Split(<<>>)
      BY <2>2, <2>4, SplitFirst, Zenon
    <2>7. Split(<<>>) = <<>>
      BY <2>4, SplitType
    <2> QED BY <2>2, <2>3, <2>5, <2>6, <2>7, Zenon DEF p
  <1> QED BY <1>6, <1>8, <1>9, Zenon DEF d, name, image

-----------------------------------------------------------------------------
(* What the server keeps and answers *)

\* A set of places has a last one.
LEMMA LastIs ==
  ASSUME NEW n \in Nat, NEW S \in SUBSET (1..n), S # {}
  PROVE  Max(S) \in S /\ \A j \in S : j <= Max(S)
  <1> DEFINE R == {i \in 0..n : n - i \in S}
  <1>1. R \in SUBSET Nat /\ R # {}
    <2>1. PICK x \in S : TRUE
      OBVIOUS
    <2>2. n - x \in 0..n /\ n - (n - x) = x
      OBVIOUS
    <2>3. n - x \in R
      BY <2>2
    <2>4. R \subseteq Nat
      OBVIOUS
    <2> HIDE DEF R
    <2> QED BY <2>3, <2>4
  <1>2. PICK i \in R : \A j \in R : i <= j
    <2> HIDE DEF R
    <2> QED BY <1>1, LeastElement, Zenon
  <1>3. n - i \in S /\ i \in 0..n
    BY <1>2
  <1>4. ASSUME NEW j \in S PROVE j <= n - i
    <2>1. n - j \in 0..n /\ n - (n - j) = j
      OBVIOUS
    <2>2. n - j \in R
      BY <2>1
    <2>3. i <= n - j
      BY <1>2, <2>2
    <2> QED BY <1>3, <2>3
  <1>5. \E x \in S : \A y \in S : x >= y
    BY <1>3, <1>4
  <1>6. Max(S) = CHOOSE x \in S : \A y \in S : x >= y
    BY Zenon DEF Max
  <1>7. Max(S) \in S /\ \A y \in S : Max(S) >= y
    BY <1>5, <1>6, Zenon
  <1> QED BY <1>7

\* What the server can keep: lines, none too long to be written.
Stored == {w \in Weapons : /\ w.name \in Line /\ w.image \in Line /\ w.script \in Line
                           /\ Len(w.name) <= GUINT8_MAX /\ Len(w.image) <= GUINT8_MAX}

\* A line is bytes.
LEMMA LineBytes == Line \subseteq Seq(Bytes)
  <1>1. ASSUME NEW b \in Line PROVE b \in Seq(Bytes)
    <2>1. Len(b) \in Nat /\ b \in [1..Len(b) -> Bytes \ {LF}]
      BY LenProperties DEF Line
    <2>2. b \in [1..Len(b) -> Bytes]
      BY <2>1
    <2> QED BY <2>1, <2>2, SeqDef
  <1> QED BY <1>1

\* A string cut off a line, and what is behind it, are lines.
LEMMA CutIs ==
  ASSUME NEW b \in Line, HasGString(b)
  PROVE  GStringOf(b) \in Line /\ AfterGString(b) \in Line
  <1> DEFINE S == Bytes \ {LF}
             k == DecodeByte(b[1])
  <1>1. b \in Seq(S) /\ Len(b) \in Nat /\ Len(b) >= 1 /\ k < Len(b)
    BY LenProperties DEF Line, HasGString
  <1>2. k \in Nat
    <2>1. b[1] \in Bytes
      BY <1>1, ElementOfSeq
    <2>2. \A c \in 0..255 : (c + 224) % 256 \in Nat
      OBVIOUS
    <2> QED BY <2>1, <2>2 DEF DecodeByte, Bytes, Bias
  <1> HIDE DEF S, k
  <1>3. SubSeq(b, 2, k + 1) \in Seq(S) /\ SubSeq(b, k + 2, Len(b)) \in Seq(S)
    BY <1>1, <1>2
  <1> QED BY <1>3, Zenon DEF GStringOf, AfterGString, Line, S, k

\* What the server finds in packets are weapons that it can keep.
LEMMA AddedType ==
  ASSUME NEW packets \in Seq(LinePackets)
  PROVE  Added(packets) \in Seq(Stored)
  <1> DEFINE rest(b)   == AfterGString(b)
             weapon(b) == Weapon(GStringOf(b), GStringOf(rest(b)), AfterGString(rest(b)))
             adds(p)   == /\ p.head = NcWeaponAdd + Bias /\ HasTwoStrings(p.data)
                          /\ WritesGString(weapon(p.data).name) /\ WritesGString(weapon(p.data).image)
             f == [p \in LinePackets |-> IF adds(p) THEN <<weapon(p.data)>> ELSE <<>>]
  <1>1. ASSUME NEW p \in LinePackets, adds(p) PROVE weapon(p.data) \in Stored
    <2> DEFINE b == p.data
               name == GStringOf(b)
               image == GStringOf(rest(b))
               script == AfterGString(rest(b))
    <2>1. b \in Line
      BY DEF LinePackets
    <2>2. HasGString(b) /\ HasGString(rest(b))
      BY <1>1, Zenon DEF HasTwoStrings
    <2> HIDE DEF b
    <2>3. name \in Line /\ rest(b) \in Line
      BY <2>1, <2>2, CutIs
    <2> HIDE DEF rest
    <2>4. image \in Line /\ script \in Line
      BY <2>2, <2>3, CutIs
    <2>5. weapon(b) = [name |-> name, image |-> image, script |-> script]
      BY Zenon DEF Weapon
    <2> HIDE DEF name, image, script
    <2>6. Len(name) <= GUINT8_MAX /\ Len(image) <= GUINT8_MAX
      <3>1. WritesGString(weapon(b).name) /\ WritesGString(weapon(b).image)
        BY <1>1, Zenon DEF b
      <3> HIDE DEF weapon
      <3>2. weapon(b).name = name /\ weapon(b).image = image
        BY <2>5
      <3> QED BY <3>1, <3>2, Zenon DEF WritesGString
    <2>7. name \in Seq(Bytes) /\ image \in Seq(Bytes) /\ script \in Seq(Bytes)
      BY <2>3, <2>4, LineBytes
    <2> HIDE DEF weapon
    <2>8. weapon(b) \in Stored
      BY <2>3, <2>4, <2>5, <2>6, <2>7 DEF Stored, Weapons
    <2> QED BY <2>8, Zenon DEF b
  <1> HIDE DEF weapon, adds
  <1>2. f \in [LinePackets -> Seq(Stored)]
    <2>1. \A p \in LinePackets : (IF adds(p) THEN <<weapon(p.data)>> ELSE <<>>) \in Seq(Stored)
      BY <1>1
    <2> QED BY <2>1, Zenon
  <1>3. \A i \in 1..Len(packets) : packets[i] \in LinePackets
    BY ElementOfSeq
  <1>4. \A i \in 1..Len(packets) :
          f[packets[i]] = IF adds(packets[i]) THEN <<weapon(packets[i].data)>> ELSE <<>>
    BY <1>3, Zenon
  <1> HIDE DEF f
  <1>5. [i \in 1..Len(packets) |-> f[packets[i]]]
          = [i \in 1..Len(packets) |-> IF adds(packets[i]) THEN <<weapon(packets[i].data)>> ELSE <<>>]
    BY <1>4, Zenon
  <1>6. Added(packets) = FlatMap(f, packets)
    BY <1>5, Zenon DEF Added, FlatMap, adds, weapon
  <1> QED BY <1>2, <1>6, FlatMapType

\* Whatever is asked, the answer is packets.
LEMMA ReplyType ==
  ASSUME NEW packets, NEW kept \in Seq(Stored)
  PROVE  Reply(packets, kept) \in Seq(LinePackets)
  <1> DEFINE found == {i \in 1..Len(kept) : kept[i].name = packets[1].data}
             w == kept[Max(found)]
             d == (ServerString(w.name) \o ServerString(w.image)) \o w.script
             p == [head |-> NcWeaponGetReply + Bias, data |-> d]
  <1>1. Reply(packets, kept) = IF packets[1].head # NcWeaponGet + Bias \/ found = {} THEN <<>> ELSE <<p>>
    BY Zenon DEF Reply
  <1>2. CASE found = {}
    <2>1. Reply(packets, kept) = <<>>
      BY <1>1, <1>2, Zenon
    <2> QED BY <2>1, EmptySeq
  <1>3. CASE found # {}
    <2>1. Max(found) \in 1..Len(kept)
      <3>1. found \in SUBSET (1..Len(kept)) /\ Len(kept) \in Nat
        BY LenProperties
      <3> HIDE DEF found
      <3>2. Max(found) \in found
        BY <1>3, <3>1, LastIs
      <3> QED BY <3>1, <3>2
    <2>2. w \in Stored
      <3> HIDE DEF found
      <3> QED BY <2>1, ElementOfSeq
    <2>3. /\ w.name \in Line /\ w.image \in Line /\ w.script \in Line
          /\ Len(w.name) <= GUINT8_MAX /\ Len(w.image) <= GUINT8_MAX
      <3> HIDE DEF w
      <3> QED BY <2>2, Zenon DEF Stored
    <2>4. ASSUME NEW text \in Line, Len(text) <= GUINT8_MAX PROVE ServerString(text) \in Line
      <3> DEFINE e == Len(text) + Bias
      <3>1. e \in Bytes \ {LF}
        <4>1. Len(text) \in Nat
          BY LenProperties DEF Line
        <4>2. \A n \in Nat : n <= 223 => n + 32 \in (0..255) \ {10}
          OBVIOUS
        <4> QED BY <2>4, <4>1, <4>2, Zenon DEF GUINT8_MAX, Bias, Bytes, LF
      <3> HIDE DEF e
      <3>2. <<e>> \in Line
        BY <3>1 DEF Line
      <3>3. <<e>> \o text \in Line
        BY <3>2, ConcatProperties DEF Line
      <3> QED BY <3>3, Zenon DEF ServerString, e
    <2> HIDE DEF w
    <2>5. d \in Line
      <3>1. ServerString(w.name) \in Line /\ ServerString(w.image) \in Line
        BY <2>3, <2>4, Zenon
      <3>2. \A a, b \in Line : a \o b \in Line
        BY ConcatProperties, Zenon DEF Line
      <3> QED BY <2>3, <3>1, <3>2, Zenon
    <2> HIDE DEF d
    <2>6. p \in LinePackets
      BY <2>5 DEF LinePackets, NcWeaponGetReply, Bias, Bytes
    <2> HIDE DEF p, found
    <2>7. Reply(packets, kept) = <<>> \/ Reply(packets, kept) = <<p>>
      BY <1>1, Zenon
    <2>8. <<p>> \in Seq(LinePackets) /\ <<>> \in Seq(LinePackets)
      BY <2>6
    <2> QED BY <2>7, <2>8, Zenon
  <1> QED BY <1>2, <1>3

-----------------------------------------------------------------------------
(* The invariants *)

\* Calls are made of what they are given, and what is on the wire is what they
\* write: strings whose length can be.
SentInv ==
  /\ sent \in Seq(Calls) /\ toServer \in Seq(Seq(Bytes)) /\ Len(toServer) = Len(sent)
  /\ \A i \in 1..Len(sent) :
       /\ toServer[i] = Frame(sent[i])
       /\ sent[i].weapon.name \in Names /\ sent[i].weapon.script \in Scripts \cup {<<>>}
       /\ sent[i].what = NcWeaponAdd =>
            WritesGString(sent[i].weapon.name) /\ WritesGString(sent[i].weapon.image)

\* The server keeps lines, and what it sends are packets that hold lines.
ServerInv ==
  /\ handled \in 0..Len(toServer) /\ weapons \in Seq(Stored)
  /\ toClient \in Seq(Seq(LinePackets)) /\ unasked \in 0..MaxUnasked

\* So are those that the client has read; a task that asks, asks once.
ClientInv ==
  /\ fetched \in 0..Len(toClient) /\ reader \in {"reading", "failed", "panicked"}
  /\ queue \in Seq(LinePackets) /\ read \in Seq(LinePackets)
  /\ asked = <<>> \/ asked = <<asked[1]>>
  /\ answer = <<>> \/ answer = <<answer[1], answer[2]>>

\* The packets of the frames that have been fetched.
Sofar == FlattenSeq(SubSeq(toClient, 1, fetched))

\* As long as it is reading, the client has lost nothing; it stops only at a
\* frame that it does not know.
FetchInv ==
  /\ IsPrefix(read \o queue, Sofar)
  /\ reader = "reading" => read \o queue = Sofar
  /\ reader # "reading" => \E i \in 1..fetched : ~ Known(toClient[i])

WInv == SentInv /\ ServerInv /\ ClientInv /\ FetchInv

\* The names and images of all calls are short lines.
PlainSent == \A i \in 1..Len(sent) : Plain(sent[i].weapon.name) /\ Plain(sent[i].weapon.image)

\* The calls among the first k that add a weapon of this name, and the last of them.
Adds(calls, k, name) ==
  {i \in 1..k : calls[i].what = NcWeaponAdd /\ calls[i].weapon.name = name}
AddedUpTo(calls, k, name) ==
  IF Adds(calls, k, name) = {} THEN NoWeapon
  ELSE [calls[Max(Adds(calls, k, name))].weapon EXCEPT !.script = Unix(@)]

\* How the server keeps it.
Under(kept, name) == {i \in 1..Len(kept) : kept[i].name = name}
InWriting(w) == [w EXCEPT !.script = Swap(@, LF, Mark)]

\* The last weapon that the server keeps under a name is the last that was added
\* by the calls it has handled.
KeepsLast(calls, k, kept, name) ==
  /\ Under(kept, name) = {} <=> Adds(calls, k, name) = {}
  /\ Under(kept, name) # {} =>
       kept[Max(Under(kept, name))] = InWriting(AddedUpTo(calls, k, name))
KeepInv == PlainSent => \A name \in Names : KeepsLast(sent, handled, weapons, name)

\* The data of the answers in packets, and the data of the answer with a weapon.
IsAnswer(p) == DecodeByte(p.head) = NcWeaponGetReply
Answers(packets) ==
  FlattenSeq([i \in 1..Len(packets) |-> IF IsAnswer(packets[i]) THEN <<packets[i].data>> ELSE <<>>])
AnswerWith(w) == ServerString(w.name) \o ServerString(w.image) \o w.script

\* The calls that ask and are still to be handled.
Asking == {i \in (handled + 1)..Len(sent) : sent[i].what = NcWeaponGet}

\* An answer the client has not read is one to the task that waits, and there
\* is one only if the server has the weapon and has handled the call.
Waiting ==
  LET all == Answers(FlattenSeq(toClient)) IN
  \/ /\ asked = <<>> /\ Asking = {} /\ all = Answers(read)
  \/ /\ asked # <<>> /\ all = Answers(read)
     /\ \E g \in Asking : Asking = {g} /\ asked[1] = AddedUpTo(sent, g - 1, sent[g].weapon.name)
  \/ /\ asked # <<>> /\ Asking = {} /\ all = Answers(read) /\ asked[1] = NoWeapon
  \/ /\ asked # <<>> /\ Asking = {} /\ all = Append(Answers(read), AnswerWith(InWriting(asked[1])))
     /\ \E i \in 1..Len(sent) : /\ sent[i].what = NcWeaponAdd
                                /\ asked[1] = [sent[i].weapon EXCEPT !.script = Unix(@)]
AskInv == PlainSent /\ reader = "reading" => Waiting

-----------------------------------------------------------------------------
(* Every step keeps what is said of the calls, the server and the client *)

\* More data packets than there are lines: a packet's data are a line.
LEMMA LinePacketsAre == LinePackets \subseteq Packets
  BY LineBytes DEF LinePackets, Packets

\* Sequences of a set are sequences of a larger one.
LEMMA SeqWider ==
  ASSUME NEW S, NEW T, S \subseteq T
  PROVE  Seq(S) \subseteq Seq(T)
  <1>1. ASSUME NEW s \in Seq(S) PROVE s \in Seq(T)
    <2>1. Len(s) \in Nat /\ s \in [1..Len(s) -> S]
      BY LenProperties
    <2>2. s \in [1..Len(s) -> T]
      BY <2>1
    <2> QED BY <2>1, <2>2, SeqDef
  <1> QED BY <1>1

\* What the invariants say, as types.
LEMMA InvTypes == WInv => TypeOK
  <1> SUFFICES ASSUME WInv PROVE TypeOK
    OBVIOUS
  <1>1. SentInv /\ ServerInv /\ ClientInv
    BY Zenon DEF WInv
  <1>2. /\ sent \in Seq([what : {NcWeaponGet, NcWeaponAdd}, weapon : Weapons])
        /\ toServer \in Seq(Seq(Bytes)) /\ Len(toServer) = Len(sent)
    BY <1>1, Zenon DEF SentInv, Calls
  <1>3. \A i \in 1..Len(sent) : sent[i].what = NcWeaponAdd =>
          Len(sent[i].weapon.name) <= GUINT8_MAX /\ Len(sent[i].weapon.image) <= GUINT8_MAX
    BY <1>1, Zenon DEF SentInv, WritesGString
  <1>4. handled \in 0..Len(toServer) /\ unasked \in 0..MaxUnasked
    BY <1>1, Zenon DEF ServerInv
  <1>5. weapons \in Seq(Weapons)
    <2>1. Stored \subseteq Weapons
      BY DEF Stored
    <2> QED BY <1>1, <2>1, SeqWider, Zenon DEF ServerInv
  <1>6. Seq(LinePackets) \subseteq Seq(Packets)
    BY LinePacketsAre, SeqWider
  <1>7. toClient \in Seq(Seq(Packets))
    BY <1>1, <1>6, SeqWider, Zenon DEF ServerInv
  <1>8. queue \in Seq(Packets) /\ read \in Seq(Packets)
    BY <1>1, <1>6 DEF ClientInv
  <1>9. fetched \in 0..Len(toClient) /\ reader \in {"reading", "failed", "panicked"}
    BY <1>1, Zenon DEF ClientInv
  <1>10. Len(asked) <= 1 /\ Len(answer) \in {0, 2}
    <2>1. (asked = <<>> \/ asked = <<asked[1]>>) /\ (answer = <<>> \/ answer = <<answer[1], answer[2]>>)
      BY <1>1, Zenon DEF ClientInv
    <2>2. Len(asked) = 0 \/ Len(asked) = 1
      <3> DEFINE x == asked[1]
      <3>1. asked = <<>> \/ asked = <<x>>
        BY <2>1
      <3> HIDE DEF x
      <3> QED BY <3>1
    <2>3. Len(answer) = 0 \/ Len(answer) = 2
      <3> DEFINE x == answer[1]
                 y == answer[2]
      <3>1. answer = <<>> \/ answer = <<x, y>>
        BY <2>1
      <3> HIDE DEF x, y
      <3> QED BY <3>1
    <2> QED BY <2>2, <2>3
  <1> QED BY <1>2, <1>3, <1>4, <1>5, <1>7, <1>8, <1>9, <1>10, Zenon DEF TypeOK

\* What is said of the calls, the server and the client holds at the start.
LEMMA InitInv == Init => WInv
  <1> SUFFICES ASSUME Init PROVE WInv
    OBVIOUS
  <1>1. /\ sent = <<>> /\ toServer = <<>> /\ handled = 0 /\ weapons = <<>>
        /\ toClient = <<>> /\ unasked = 0 /\ fetched = 0
        /\ reader = "reading" /\ queue = <<>> /\ read = <<>>
        /\ asked = <<>> /\ answer = <<>>
    BY Zenon DEF Init
  <1>2. Len(<<>>) = 0 /\ \A S : <<>> \in Seq(S)
    BY EmptySeq
  <1>3. SentInv
    <2>1. 1..0 = {}
      OBVIOUS
    <2> QED BY <1>1, <1>2, <2>1, Zenon DEF SentInv
  <1>4. ServerInv
    <2>1. 0 \in 0..0 /\ 0 \in 0..MaxUnasked
      BY ConstantsOK DEF ConstantsOK
    <2> QED BY <1>1, <1>2, <2>1, Zenon DEF ServerInv
  <1>5. ClientInv
    <2>1. 0 \in 0..0
      OBVIOUS
    <2> QED BY <1>1, <1>2, <2>1 DEF ClientInv
  <1>6. FetchInv
    <2>1. Sofar = <<>> /\ read \o queue = <<>>
      <3>1. SubSeq(toClient, 1, fetched) = <<>> /\ read \o queue = <<>>
        BY <1>1
      <3> QED BY <3>1, FlattenEmpty, Zenon DEF Sofar
    <2>2. IsPrefix(<<>>, <<>>)
      BY DEF IsPrefix
    <2> QED BY <1>1, <2>1, <2>2, Zenon DEF FetchInv
  <1> QED BY <1>3, <1>4, <1>5, <1>6, Zenon DEF WInv

\* A call that is written is one of the calls.
LEMMA WriteKeeps ==
  ASSUME SentInv, NEW call \in Calls, Write(call),
         call.weapon.name \in Names, call.weapon.script \in Scripts \cup {<<>>},
         call.what = NcWeaponAdd => WritesGString(call.weapon.name) /\ WritesGString(call.weapon.image)
  PROVE  /\ SentInv' /\ Len(sent') = Len(sent) + 1 /\ Len(toServer') = Len(toServer) + 1
         /\ sent'[Len(sent) + 1] = call /\ \A i \in 1..Len(sent) : sent'[i] = sent[i]
  <1>1. sent' = Append(sent, call) /\ toServer' = Append(toServer, Frame(call))
    BY Zenon DEF Write
  <1>2. Frame(call) \in Seq(Bytes)
    BY CallIs
  <1>3. /\ sent \in Seq(Calls) /\ toServer \in Seq(Seq(Bytes)) /\ Len(toServer) = Len(sent)
        /\ \A i \in 1..Len(sent) :
             /\ toServer[i] = Frame(sent[i])
             /\ sent[i].weapon.name \in Names /\ sent[i].weapon.script \in Scripts \cup {<<>>}
             /\ sent[i].what = NcWeaponAdd =>
                  WritesGString(sent[i].weapon.name) /\ WritesGString(sent[i].weapon.image)
    BY Zenon DEF SentInv
  <1>4. /\ sent' \in Seq(Calls) /\ Len(sent') = Len(sent) + 1 /\ sent'[Len(sent) + 1] = call
        /\ \A i \in 1..Len(sent) : sent'[i] = sent[i]
    BY <1>1, <1>3, AppendProperties
  <1>5. /\ toServer' \in Seq(Seq(Bytes)) /\ Len(toServer') = Len(sent) + 1
        /\ toServer'[Len(sent) + 1] = Frame(call)
        /\ \A i \in 1..Len(sent) : toServer'[i] = toServer[i]
    <2> DEFINE f == Frame(call)
    <2>1. f \in Seq(Bytes) /\ toServer' = Append(toServer, f)
      BY <1>1, <1>2
    <2> HIDE DEF f
    <2>2. /\ toServer' \in Seq(Seq(Bytes)) /\ Len(toServer') = Len(toServer) + 1
          /\ toServer'[Len(toServer) + 1] = f /\ \A i \in 1..Len(toServer) : toServer'[i] = toServer[i]
      BY <1>3, <2>1, AppendProperties
    <2> QED BY <1>3, <2>2, Zenon DEF f
  <1>6. \A i \in 1..(Len(sent) + 1) : i \in 1..Len(sent) \/ i = Len(sent) + 1
    <2>1. Len(sent) \in Nat
      BY <1>3, LenProperties
    <2> QED BY <2>1
  <1>7. \A i \in 1..(Len(sent) + 1) :
          /\ toServer'[i] = Frame(sent'[i])
          /\ sent'[i].weapon.name \in Names /\ sent'[i].weapon.script \in Scripts \cup {<<>>}
          /\ sent'[i].what = NcWeaponAdd =>
               WritesGString(sent'[i].weapon.name) /\ WritesGString(sent'[i].weapon.image)
    BY <1>3, <1>4, <1>5, <1>6, Zenon
  <1>8. Len(toServer') = Len(toServer) + 1 /\ Len(toServer') = Len(sent')
    BY <1>3, <1>4, <1>5
  <1> QED BY <1>4, <1>5, <1>7, <1>8, Zenon DEF SentInv

\* A sequence that is extended begins with what it was, and with itself.
LEMMA ExtendedBy ==
  ASSUME NEW S, NEW s \in Seq(S), NEW t \in Seq(S)
  PROVE  IsPrefix(s, s \o t) /\ IsPrefix(s, s)
  <1>1. /\ Len(s) \in Nat /\ Len(t) \in Nat /\ s \o t \in Seq(S) /\ Len(s \o t) = Len(s) + Len(t)
        /\ \A i \in 1..Len(s) : (s \o t)[i] = s[i]
    BY ConcatProperties, LenProperties
  <1> DEFINE w == s \o t
  <1> HIDE DEF w
  <1>2. w \in Seq(S) /\ Len(w) = Len(s) + Len(t) /\ \A i \in 1..Len(s) : w[i] = s[i]
    BY <1>1 DEF w
  <1>3. /\ SubSeq(s, 1, Len(s)) \in Seq(S) /\ Len(SubSeq(s, 1, Len(s))) = Len(s)
        /\ \A i \in 1..Len(s) : SubSeq(s, 1, Len(s))[i] = s[i]
    BY <1>1
  <1>4. /\ SubSeq(w, 1, Len(s)) \in Seq(S) /\ Len(SubSeq(w, 1, Len(s))) = Len(s)
        /\ \A i \in 1..Len(s) : SubSeq(w, 1, Len(s))[i] = w[i]
    BY <1>1, <1>2
  <1>5. SubSeq(s, 1, Len(s)) = SubSeq(w, 1, Len(s))
    <2> DEFINE a == SubSeq(s, 1, Len(s))
               b == SubSeq(w, 1, Len(s))
    <2>1. a \in Seq(S) /\ b \in Seq(S) /\ Len(a) = Len(b) /\ \A i \in 1..Len(a) : a[i] = b[i]
      BY <1>2, <1>3, <1>4, Zenon
    <2> HIDE DEF a, b
    <2>2. a = b
      BY <2>1, SeqEqual
    <2> QED BY <2>2 DEF a, b
  <1>6. Len(s) <= Len(w) /\ Len(s) <= Len(s)
    BY <1>1, <1>2
  <1> QED BY <1>5, <1>6, Zenon DEF IsPrefix, w

\* A sequence is its first elements and the others.
LEMMA CutAt ==
  ASSUME NEW S, NEW s \in Seq(S), NEW k \in 0..Len(s)
  PROVE  /\ SubSeq(s, 1, k) \in Seq(S) /\ SubSeq(s, k + 1, Len(s)) \in Seq(S)
         /\ s = SubSeq(s, 1, k) \o SubSeq(s, k + 1, Len(s))
  <1>1. Len(s) \in Nat
    BY LenProperties
  <1> DEFINE a == SubSeq(s, 1, k)
             b == SubSeq(s, k + 1, Len(s))
             c == a \o b
  <1>2. a \in Seq(S) /\ Len(a) = k /\ \A i \in 1..k : a[i] = s[i]
    BY <1>1
  <1>3. b \in Seq(S) /\ Len(b) = Len(s) - k /\ \A i \in 1..(Len(s) - k) : b[i] = s[k + i]
    BY <1>1
  <1> HIDE DEF a, b
  <1>4. /\ c \in Seq(S) /\ Len(c) = Len(s)
        /\ \A i \in 1..Len(s) : c[i] = IF i <= k THEN a[i] ELSE b[i - k]
    <2>1. /\ c \in Seq(S) /\ Len(c) = Len(a) + Len(b)
          /\ \A i \in 1..(Len(a) + Len(b)) : c[i] = IF i <= Len(a) THEN a[i] ELSE b[i - Len(a)]
      BY <1>2, <1>3, ConcatProperties
    <2>2. Len(a) + Len(b) = Len(s)
      BY <1>1, <1>2, <1>3
    <2> HIDE DEF c
    <2> QED BY <1>2, <2>1, <2>2, Zenon
  <1> HIDE DEF c
  <1>5. ASSUME NEW i \in 1..Len(s) PROVE c[i] = s[i]
    <2>1. CASE i <= k
      <3>1. i \in 1..k
        BY <2>1
      <3> QED BY <1>2, <1>4, <2>1, <3>1, Zenon
    <2>2. CASE ~ (i <= k)
      <3>1. i - k \in 1..(Len(s) - k) /\ k + (i - k) = i
        BY <1>1, <2>2
      <3>2. c[i] = b[i - k]
        BY <1>4, <2>2, Zenon
      <3>3. b[i - k] = s[k + (i - k)]
        BY <1>3, <3>1, Zenon
      <3> QED BY <3>1, <3>2, <3>3, Zenon
    <2> QED BY <2>1, <2>2
  <1>6. s = c
    BY <1>4, <1>5, SeqEqual
  <1> QED BY <1>2, <1>3, <1>6, Zenon DEF a, b, c

\* What the client has fetched stays the same when the server sends more.
LEMMA MoreSent ==
  ASSUME ServerInv, fetched \in 0..Len(toClient), NEW frame \in Seq(LinePackets),
         toClient' = Append(toClient, frame)
  PROVE  /\ toClient' \in Seq(Seq(LinePackets)) /\ Len(toClient') = Len(toClient) + 1
         /\ \A i \in 1..Len(toClient) : toClient'[i] = toClient[i]
         /\ SubSeq(toClient', 1, fetched) = SubSeq(toClient, 1, fetched)
  <1> DEFINE T == Seq(LinePackets)
  <1>1. toClient \in Seq(T) /\ frame \in T
    BY Zenon DEF ServerInv
  <1> HIDE DEF T
  <1>2. /\ toClient' \in Seq(T) /\ Len(toClient') = Len(toClient) + 1 /\ Len(toClient) \in Nat
        /\ \A i \in 1..Len(toClient) : toClient'[i] = toClient[i]
    BY <1>1, AppendProperties, LenProperties
  <1>3. /\ SubSeq(toClient', 1, fetched) \in Seq(T) /\ Len(SubSeq(toClient', 1, fetched)) = fetched
        /\ \A i \in 1..fetched : SubSeq(toClient', 1, fetched)[i] = toClient'[i]
    BY <1>2
  <1>4. /\ SubSeq(toClient, 1, fetched) \in Seq(T) /\ Len(SubSeq(toClient, 1, fetched)) = fetched
        /\ \A i \in 1..fetched : SubSeq(toClient, 1, fetched)[i] = toClient[i]
    BY <1>1, <1>2
  <1>5. \A i \in 1..fetched : i \in 1..Len(toClient)
    BY <1>2
  <1> DEFINE a == SubSeq(toClient', 1, fetched)
             b == SubSeq(toClient, 1, fetched)
  <1>6. a \in Seq(T) /\ b \in Seq(T) /\ Len(a) = Len(b) /\ \A i \in 1..Len(a) : a[i] = b[i]
    BY <1>2, <1>3, <1>4, <1>5, Zenon
  <1> HIDE DEF a, b
  <1>7. a = b
    BY <1>6, SeqEqual
  <1> QED BY <1>2, <1>7, Zenon DEF a, b, T

\* So nothing changes for the client.
LEMMA FetchStays ==
  ASSUME FetchInv, SubSeq(toClient', 1, fetched) = SubSeq(toClient, 1, fetched),
         \A i \in 1..fetched : toClient'[i] = toClient[i],
         UNCHANGED <<fetched, reader, queue, read>>
  PROVE  FetchInv'
  <1>1. Sofar' = Sofar
    BY Zenon DEF Sofar
  <1>2. /\ IsPrefix(read \o queue, Sofar)
        /\ reader = "reading" => read \o queue = Sofar
        /\ reader # "reading" => \E i \in 1..fetched : ~ Known(toClient[i])
    BY Zenon DEF FetchInv
  <1>3. reader' # "reading" => \E i \in 1..fetched' : ~ Known(toClient'[i])
    BY <1>2, Zenon
  <1>4. IsPrefix((read \o queue)', Sofar') /\ (reader' = "reading" => (read \o queue)' = Sofar')
    BY <1>1, <1>2, Zenon
  <1> QED BY <1>3, <1>4, Zenon DEF FetchInv

\* A byte from 32 on stands for its distance from 32.
LEMMA DecodeIs ==
  ASSUME NEW b \in Bytes
  PROVE  DecodeByte(b) \in Bytes /\ (b >= Bias => DecodeByte(b) = b - Bias)
  <1>1. DecodeByte(b) = (b + 224) % 256
    <2>2. b + 256 - 32 = b + 224
      BY DEF Bytes
    <2> QED BY <2>2, Zenon DEF DecodeByte, Bias
  <1> DEFINE d == DecodeByte(b)
  <1>2. d \in 0..255 /\ (b >= 32 => d = b - 32)
    <2>1. d = (b + 224) % 256 /\ b \in 0..255
      BY <1>1 DEF Bytes
    <2> HIDE DEF d
    <2> QED BY <2>1
  <1> HIDE DEF d
  <1> QED BY <1>2 DEF Bytes, Bias, d

\* Where the parsing of a frame stops before its end, it is one that is not known.
LEMMA StopIs ==
  ASSUME NEW packets \in Seq(LinePackets), NEW checked \in BOOLEAN
  PROVE  /\ Stop(packets, checked) \in 1..(Len(packets) + 1)
         /\ Stop(packets, checked) <= Len(packets) => ~ Known(packets)
  <1> DEFINE Bad(i) == \/ DecodeByte(packets[i].head) \notin ServerIds
                       \/ checked /\ packets[i].head < Bias
             S == {i \in 1..Len(packets) : Bad(i)} \cup {Len(packets) + 1}
             m == Stop(packets, checked)
  <1>1. Len(packets) \in Nat
    BY LenProperties
  <1> HIDE DEF Bad
  <1>2. S \subseteq 1..(Len(packets) + 1) /\ S # {} /\ S \in SUBSET Nat
    BY <1>1
  <1>3. m = CHOOSE k \in S : \A j \in S : k <= j
    BY Zenon DEF Stop, Min, Bad
  <1>4. m \in S
    <2> HIDE DEF S, m
    <2>1. \E k \in S : \A j \in S : k <= j
      BY <1>2, LeastElement, Zenon
    <2> QED BY <1>3, <2>1, Zenon
  <1> HIDE DEF m
  <1>5. m \in 1..(Len(packets) + 1)
    BY <1>2, <1>4
  <1>6. ASSUME m <= Len(packets) PROVE ~ Known(packets)
    <2>1. m \in 1..Len(packets) /\ Bad(m)
      BY <1>1, <1>4, <1>6
    <2>2. packets[m].head \in Bytes
      <3>1. packets[m] \in LinePackets
        BY <2>1, ElementOfSeq
      <3> QED BY <3>1, Zenon DEF LinePackets
    <2> SUFFICES ASSUME Known(packets) PROVE FALSE
      OBVIOUS
    <2>3. packets[m].head >= Bias /\ packets[m].head - Bias \in ServerIds
      BY <2>1, Zenon DEF Known
    <2>4. DecodeByte(packets[m].head) = packets[m].head - Bias
      BY <2>2, <2>3, DecodeIs
    <2>5. ~ (packets[m].head < Bias)
      <3> DEFINE h == packets[m].head
      <3>1. h >= Bias /\ h \in Bytes
        BY <2>2, <2>3
      <3> HIDE DEF h
      <3>2. ~ (h < Bias)
        BY <3>1 DEF Bias, Bytes
      <3> QED BY <3>2 DEF h
    <2> QED BY <2>1, <2>3, <2>4, <2>5, Zenon DEF Bad
  <1> QED BY <1>5, <1>6, Zenon DEF m

\* The reader gets the packets of a frame, up to one it does not know.
LEMMA FetchStep ==
  ASSUME WInv, Fetch
  PROVE  ServerInv' /\ ClientInv' /\ FetchInv'
  <1> DEFINE frame == toClient[fetched + 1]
             m == Len(frame)
  <1>1. /\ reader = "reading" /\ queue = <<>> /\ fetched < Len(toClient) /\ fetched' = fetched + 1
        /\ UNCHANGED <<sent, toServer, handled, weapons, toClient, unasked, read, asked, answer>>
    BY Zenon DEF Fetch
  <1>2. /\ toClient \in Seq(Seq(LinePackets)) /\ read \in Seq(LinePackets)
        /\ fetched \in 0..Len(toClient) /\ Len(toClient) \in Nat
    BY LenProperties, Zenon DEF WInv, ServerInv, ClientInv
  <1>3. fetched + 1 \in 1..Len(toClient)
    BY <1>1, <1>2
  <1>4. frame \in Seq(LinePackets) /\ m \in Nat
    <2> DEFINE T == Seq(LinePackets)
    <2>1. toClient \in Seq(T)
      BY <1>2
    <2> HIDE DEF T
    <2>2. frame \in T
      BY <1>3, <2>1, ElementOfSeq
    <2> QED BY <2>2, LenProperties DEF T
  <1>5. Split(Pack(frame)) = frame
    BY <1>4, SplitPack, Zenon
  <1>6. \E checked \in BOOLEAN :
          /\ queue' = SubSeq(frame, 1, Stop(frame, checked) - 1)
          /\ reader' = IF frame = <<>> THEN "failed"
                       ELSE IF Stop(frame, checked) > m THEN reader
                       ELSE IF checked /\ frame[Stop(frame, checked)].head < Bias THEN "panicked"
                       ELSE "failed"
    BY <1>5, Zenon DEF Fetch
  <1> HIDE DEF frame
  <1>7. PICK checked \in BOOLEAN :
          /\ queue' = SubSeq(frame, 1, Stop(frame, checked) - 1)
          /\ reader' = IF frame = <<>> THEN "failed"
                       ELSE IF Stop(frame, checked) > m THEN reader
                       ELSE IF checked /\ frame[Stop(frame, checked)].head < Bias THEN "panicked"
                       ELSE "failed"
    BY <1>6, Zenon
  <1> DEFINE stop == Stop(frame, checked)
             rest == SubSeq(frame, stop, m)
  <1>8. stop \in 1..(m + 1) /\ (stop <= m => ~ Known(frame))
    BY <1>4, StopIs
  <1> HIDE DEF stop
  <1>9. queue' \in Seq(LinePackets) /\ rest \in Seq(LinePackets) /\ frame = queue' \o rest
    <2>1. stop - 1 \in 0..m /\ (stop - 1) + 1 = stop
      BY <1>4, <1>8
    <2>2. queue' = SubSeq(frame, 1, stop - 1)
      BY <1>7, Zenon DEF stop
    <2>3. /\ SubSeq(frame, 1, stop - 1) \in Seq(LinePackets)
          /\ SubSeq(frame, (stop - 1) + 1, m) \in Seq(LinePackets)
          /\ frame = SubSeq(frame, 1, stop - 1) \o SubSeq(frame, (stop - 1) + 1, m)
      BY <1>4, <2>1, CutAt
    <2> QED BY <2>1, <2>2, <2>3, Zenon
  <1>10. reader' \in {"reading", "failed", "panicked"} /\ (reader' = "reading" => frame # <<>> /\ stop > m)
    BY <1>1, <1>7, Zenon DEF stop
  <1>11. reader' # "reading" => ~ Known(frame)
    <2>1. frame = <<>> \/ ~ (stop > m) => ~ Known(frame)
      <3>1. frame = <<>> => ~ Known(frame)
        BY Zenon DEF Known
      <3>2. ~ (stop > m) => stop <= m
        BY <1>4, <1>8
      <3> QED BY <1>8, <3>1, <3>2, Zenon
    <2> QED BY <1>1, <1>7, <2>1, Zenon DEF stop
  <1>12. reader' = "reading" => queue' = frame
    <2> SUFFICES ASSUME stop > m PROVE queue' = frame
      BY <1>10
    <2>1. stop - 1 = m
      BY <1>4, <1>8
    <2>2. queue' = SubSeq(frame, 1, m)
      BY <1>7, <2>1, Zenon DEF stop
    <2>3. SubSeq(frame, 1, m) = frame
      BY <1>4
    <2> QED BY <2>2, <2>3
  <1> HIDE DEF rest
  <1>13. Sofar \in Seq(LinePackets) /\ Sofar' = Sofar \o frame /\ read = Sofar
    <2> DEFINE T == Seq(LinePackets)
               a == SubSeq(toClient, 1, fetched)
    <2>1. toClient \in Seq(T) /\ frame \in T
      BY <1>2, <1>4
    <2>2. a \in Seq(T) /\ SubSeq(toClient, 1, fetched + 1) = Append(a, frame)
      <3> HIDE DEF T
      <3>1. a \in Seq(T)
        BY <1>2, <1>3, <2>1
      <3>2. SubSeq(toClient, 1, fetched + 1) = Append(a, toClient[fetched + 1])
        BY <1>2, <1>3, <2>1
      <3> QED BY <3>1, <3>2, Zenon DEF frame
    <2>3. FlattenSeq(Append(a, frame)) = FlattenSeq(a) \o frame /\ FlattenSeq(a) \in T
      <3>0. \A seqs \in Seq(Seq(LinePackets)), x \in Seq(LinePackets) :
              FlattenSeq(Append(seqs, x)) = FlattenSeq(seqs) \o x
        BY FlattenSnoc, Zenon
      <3>1. a \in Seq(Seq(LinePackets)) /\ frame \in Seq(LinePackets)
        BY <1>4, <2>2
      <3> HIDE DEF a
      <3> QED BY <3>0, <3>1, FlattenType, Zenon
    <2>4. Sofar' = FlattenSeq(SubSeq(toClient, 1, fetched + 1)) /\ Sofar = FlattenSeq(a)
      BY <1>1, Zenon DEF Sofar
    <2>5. read \o <<>> = read
      BY <1>2, ConcatEmptySeq
    <2>6. read = Sofar
      BY <1>1, <2>5, Zenon DEF WInv, FetchInv
    <2> QED BY <2>2, <2>3, <2>4, <2>6, Zenon
  <1>14. FetchInv'
    <2> DEFINE now == read \o queue'
    <2>1. now \in Seq(LinePackets) /\ Sofar' = now \o rest
      <3>1. Sofar' = read \o (queue' \o rest)
        BY <1>9, <1>13, Zenon
      <3>2. \A a, b, c \in Seq(LinePackets) : a \o (b \o c) = (a \o b) \o c /\ a \o b \in Seq(LinePackets)
        BY ConcatAssociative, ConcatProperties
      <3> QED BY <1>2, <1>9, <3>1, <3>2, Zenon
    <2>2. IsPrefix(now, Sofar')
      <3> HIDE DEF now
      <3>1. IsPrefix(now, now \o rest)
        BY <1>9, <2>1, ExtendedBy
      <3> QED BY <2>1, <3>1, Zenon
    <2>3. reader' = "reading" => now = Sofar'
      BY <1>12, <1>13, Zenon
    <2>4. reader' # "reading" => \E i \in 1..fetched' : ~ Known(toClient'[i])
      <3>1. fetched + 1 \in 1..(fetched + 1)
        BY <1>2
      <3> QED BY <1>1, <1>11, <3>1, Zenon DEF frame
    <2>5. (read \o queue)' = now
      BY <1>1, Zenon
    <2> HIDE DEF now
    <2> QED BY <2>2, <2>3, <2>4, <2>5, Zenon DEF FetchInv
  <1>15. ServerInv'
    BY <1>1, Zenon DEF WInv, ServerInv
  <1>16. ClientInv'
    <2>1. fetched' \in 0..Len(toClient')
      BY <1>1, <1>2
    <2>2. /\ asked = <<>> \/ asked = <<asked[1]>>
          /\ answer = <<>> \/ answer = <<answer[1], answer[2]>>
      BY Zenon DEF WInv, ClientInv
    <2>3. read' \in Seq(LinePackets)
      BY <1>1, <1>2, Zenon
    <2> QED BY <1>1, <1>9, <1>10, <2>1, <2>2, <2>3, Zenon DEF ClientInv
  <1> QED BY <1>14, <1>15, <1>16

\* read() moves a packet from the queue to what has been read.
LEMMA PopStep ==
  ASSUME WInv, Pop
  PROVE  ServerInv' /\ ClientInv' /\ FetchInv' /\ SentInv'
  <1>1. /\ queue # <<>> /\ read' = Append(read, Head(queue)) /\ queue' = Tail(queue)
        /\ UNCHANGED <<sent, toServer, handled, weapons, toClient, unasked, fetched, reader>>
    BY Zenon DEF Pop
  <1>2. queue \in Seq(LinePackets) /\ read \in Seq(LinePackets)
    BY Zenon DEF WInv, ClientInv
  <1> DEFINE p == Head(queue)
             t == Tail(queue)
  <1>3. p \in LinePackets /\ t \in Seq(LinePackets) /\ queue = <<p>> \o t
    BY <1>1, <1>2, HeadFirst
  <1> HIDE DEF p, t
  <1>4. read' \in Seq(LinePackets) /\ queue' \in Seq(LinePackets) /\ read' \o queue' = read \o queue
    <2>1. read' = read \o <<p>> /\ queue' = t /\ <<p>> \in Seq(LinePackets)
      BY <1>1, <1>2, <1>3, AppendIsConcat DEF p, t
    <2>2. read \o <<p>> \in Seq(LinePackets)
      BY <1>2, <2>1, ConcatProperties
    <2>3. (read \o <<p>>) \o t = read \o (<<p>> \o t)
      BY <1>2, <1>3, <2>1, ConcatAssociative
    <2> QED BY <1>3, <2>1, <2>2, <2>3, Zenon
  <1>5. FetchInv'
    <2>1. Sofar' = Sofar /\ (read \o queue)' = read \o queue
      BY <1>1, <1>4, Zenon DEF Sofar
    <2>2. /\ IsPrefix(read \o queue, Sofar)
          /\ reader = "reading" => read \o queue = Sofar
          /\ reader # "reading" => \E i \in 1..fetched : ~ Known(toClient[i])
      BY Zenon DEF WInv, FetchInv
    <2>3. IsPrefix((read \o queue)', Sofar') /\ (reader' = "reading" => (read \o queue)' = Sofar')
      BY <1>1, <2>1, <2>2, Zenon
    <2>4. reader' # "reading" => \E i \in 1..fetched' : ~ Known(toClient'[i])
      BY <1>1, <2>2, Zenon
    <2> QED BY <2>3, <2>4, Zenon DEF FetchInv
  <1>6. ServerInv' /\ SentInv'
    BY <1>1, Zenon DEF WInv, ServerInv, SentInv
  <1>7. /\ asked' = <<>> \/ asked' = <<asked'[1]>>
        /\ answer' = <<>> \/ answer' = <<answer'[1], answer'[2]>>
    <2>1. /\ asked = <<>> \/ asked = <<asked[1]>>
          /\ answer = <<>> \/ answer = <<answer[1], answer[2]>>
      BY Zenon DEF WInv, ClientInv
    <2>2. \/ asked' = asked /\ answer' = answer
          \/ asked' = <<>> /\ answer' = <<asked[1], FromBytes(p.data)>>
      BY Zenon DEF Pop, p
    <2>3. CASE asked' = asked /\ answer' = answer
      BY <2>1, <2>3, Zenon
    <2>4. CASE asked' = <<>> /\ answer' = <<asked[1], FromBytes(p.data)>>
      <3> DEFINE x == asked[1]
                 y == FromBytes(p.data)
      <3>1. answer' = <<x, y>>
        BY <2>4
      <3> HIDE DEF x, y
      <3>2. answer'[1] = x /\ answer'[2] = y
        BY <3>1
      <3> QED BY <2>4, <3>1, <3>2, Zenon
    <2> QED BY <2>2, <2>3, <2>4
  <1>8. ClientInv'
    BY <1>1, <1>4, <1>7, Zenon DEF WInv, ClientInv
  <1> QED BY <1>5, <1>6, <1>8

\* A call changes nothing but what is written and who waits.
LEMMA CallStep ==
  ASSUME WInv, NEW call \in Calls, Write(call),
         call.weapon.name \in Names, call.weapon.script \in Scripts \cup {<<>>},
         call.what = NcWeaponAdd => WritesGString(call.weapon.name) /\ WritesGString(call.weapon.image),
         UNCHANGED <<handled, weapons, toClient, unasked, fetched, reader, queue, read, answer>>,
         asked' = asked \/ \E x : asked' = <<x>>
  PROVE  WInv'
  <1>1. SentInv /\ ServerInv /\ ClientInv /\ FetchInv
    BY Zenon DEF WInv
  <1>2. SentInv' /\ Len(toServer') = Len(toServer) + 1
    BY <1>1, WriteKeeps
  <1>3. ServerInv'
    <2>1. handled \in 0..Len(toServer) /\ Len(toServer) \in Nat
      BY <1>1, LenProperties DEF ServerInv, SentInv
    <2>2. handled' \in 0..Len(toServer')
      BY <1>2, <2>1
    <2> QED BY <1>1, <2>2, Zenon DEF ServerInv
  <1>4. asked' = <<>> \/ asked' = <<asked'[1]>>
    <2>1. CASE asked' = asked
      BY <1>1, <2>1, Zenon DEF ClientInv
    <2>2. CASE \E x : asked' = <<x>>
      <3>1. PICK x : asked' = <<x>>
        BY <2>2
      <3>2. asked'[1] = x
        BY <3>1
      <3> QED BY <3>1, <3>2, Zenon
    <2> QED BY <2>1, <2>2
  <1>5. ClientInv'
    BY <1>1, <1>4, Zenon DEF ClientInv
  <1>6. FetchInv'
    BY <1>1, FetchStays, Zenon
  <1> QED BY <1>2, <1>3, <1>5, <1>6, Zenon DEF WInv

\* The calls that there are.
LEMMA AddIsCall ==
  ASSUME NEW n \in Names, NEW i \in Images, NEW s \in Scripts
  PROVE  /\ Add(Weapon(n, i, s)) \in Calls /\ Add(Weapon(n, i, s)).what = NcWeaponAdd
         /\ Add(Weapon(n, i, s)).weapon = [name |-> n, image |-> i, script |-> s]
  <1>1. n \in Seq(Bytes) /\ i \in Seq(Bytes) /\ s \in Seq(Bytes)
    BY ConstantsOK, Zenon DEF ConstantsOK
  <1> DEFINE w == [name |-> n, image |-> i, script |-> s]
  <1>2. w \in Weapons
    BY <1>1 DEF Weapons
  <1>3. Add(Weapon(n, i, s)) = [what |-> NcWeaponAdd, weapon |-> w]
    BY Zenon DEF Add, Weapon
  <1> HIDE DEF w
  <1>4. /\ Add(Weapon(n, i, s)) \in Calls /\ Add(Weapon(n, i, s)).what = NcWeaponAdd
        /\ Add(Weapon(n, i, s)).weapon = w
    BY <1>2, <1>3 DEF Calls
  <1> QED BY <1>4, Zenon DEF w

\* A question is a call whose strings are given, and writes no weapon.
LEMMA GetIsCall ==
  ASSUME NEW n \in Names
  PROVE  /\ Get(n) \in Calls /\ Get(n).what = NcWeaponGet /\ Get(n).what # NcWeaponAdd
         /\ Get(n).weapon = [name |-> n, image |-> <<>>, script |-> <<>>]
  <1>1. n \in Seq(Bytes)
    BY ConstantsOK, Zenon DEF ConstantsOK
  <1> DEFINE w == [name |-> n, image |-> <<>>, script |-> <<>>]
  <1>2. w \in Weapons
    BY <1>1 DEF Weapons
  <1>3. Get(n) = [what |-> NcWeaponGet, weapon |-> w]
    BY Zenon DEF Get, Weapon
  <1> HIDE DEF w
  <1>4. Get(n) \in Calls /\ Get(n).what = NcWeaponGet /\ Get(n).weapon = w
    BY <1>2, <1>3 DEF Calls
  <1>5. NcWeaponGet # NcWeaponAdd
    BY DEF NcWeaponGet, NcWeaponAdd
  <1> QED BY <1>4, <1>5, Zenon DEF w

\* A weapon added is a call that is written.
LEMMA AddStep ==
  ASSUME WInv, AddWeapon
  PROVE  WInv'
  <1>1. PICK n \in Names, i \in Images, s \in Scripts :
          WritesGString(n) /\ WritesGString(i) /\ Write(Add(Weapon(n, i, s)))
    BY Zenon DEF AddWeapon
  <1>2. UNCHANGED <<handled, weapons, toClient, unasked, fetched, reader, queue, read, asked, answer>>
    BY Zenon DEF AddWeapon
  <1> DEFINE call == Add(Weapon(n, i, s))
             w == [name |-> n, image |-> i, script |-> s]
  <1>3. call \in Calls /\ call.weapon = w /\ Write(call)
    BY <1>1, AddIsCall
  <1> HIDE DEF call
  <1>4. w.name = n /\ w.image = i /\ w.script = s
    OBVIOUS
  <1> HIDE DEF w
  <1>5. call.weapon.name = n /\ call.weapon.image = i /\ call.weapon.script = s
    BY <1>3, <1>4, Zenon
  <1>6. /\ call.weapon.name \in Names /\ call.weapon.script \in Scripts \cup {<<>>}
        /\ WritesGString(call.weapon.name) /\ WritesGString(call.weapon.image)
    BY <1>1, <1>5
  <1> QED BY <1>2, <1>3, <1>6, CallStep, Zenon

\* A question is a call that is written.
LEMMA GetStep ==
  ASSUME WInv, GetWeapon
  PROVE  WInv'
  <1>1. PICK n \in Names : Write(Get(n)) /\ asked' = <<LastAdded(n)>>
    BY Zenon DEF GetWeapon
  <1>2. UNCHANGED <<handled, weapons, toClient, unasked, fetched, reader, queue, read, answer>>
    BY Zenon DEF GetWeapon
  <1> DEFINE call == Get(n)
             w == [name |-> n, image |-> <<>>, script |-> <<>>]
  <1>3. call \in Calls /\ call.weapon = w /\ Write(call) /\ call.what # NcWeaponAdd
    BY <1>1, GetIsCall
  <1> HIDE DEF call
  <1>4. w.name = n /\ w.script = <<>>
    OBVIOUS
  <1> HIDE DEF w
  <1>5. call.weapon.name \in Names /\ call.weapon.script \in Scripts \cup {<<>>}
    <2>1. call.weapon.name = n /\ call.weapon.script = <<>>
      BY <1>3, <1>4, Zenon
    <2> QED BY <2>1
  <1>6. \E x : asked' = <<x>>
    BY <1>1
  <1> QED BY <1>2, <1>3, <1>5, <1>6, CallStep, Zenon

\* What the server sends unasked, or before an answer, are packets.
LEMMA BurstType == \A burst \in Bursts : burst \in Seq(LinePackets)
  BY ConstantsOK, Zenon DEF ConstantsOK, LinePackets, Line

\* When the server sends a frame the client is as it was.
LEMMA SendStep ==
  ASSUME WInv, NEW frame \in Seq(LinePackets), toClient' = Append(toClient, frame),
         UNCHANGED <<fetched, reader, queue, read, asked, answer>>
  PROVE  toClient' \in Seq(Seq(LinePackets)) /\ ClientInv' /\ FetchInv'
  <1>1. ServerInv /\ ClientInv /\ FetchInv
    BY Zenon DEF WInv
  <1>2. fetched \in 0..Len(toClient) /\ Len(toClient) \in Nat
    BY <1>1, LenProperties DEF ClientInv, ServerInv
  <1>3. /\ toClient' \in Seq(Seq(LinePackets)) /\ Len(toClient') = Len(toClient) + 1
        /\ \A i \in 1..Len(toClient) : toClient'[i] = toClient[i]
        /\ SubSeq(toClient', 1, fetched) = SubSeq(toClient, 1, fetched)
    BY <1>1, <1>2, MoreSent
  <1>4. \A i \in 1..fetched : toClient'[i] = toClient[i]
    BY <1>2, <1>3
  <1>5. FetchInv'
    BY <1>1, <1>3, <1>4, FetchStays, Zenon
  <1>6. fetched' \in 0..Len(toClient')
    BY <1>2, <1>3
  <1>7. ClientInv'
    BY <1>1, <1>6, Zenon DEF ClientInv
  <1> QED BY <1>3, <1>5, <1>7

\* What the server says unasked are packets that hold lines.
LEMMA TalkStep ==
  ASSUME WInv, ServerTalk
  PROVE  WInv'
  <1>1. /\ unasked < MaxUnasked /\ unasked' = unasked + 1
        /\ UNCHANGED <<sent, toServer, handled, weapons, fetched, reader, queue, read, asked, answer>>
    BY Zenon DEF ServerTalk
  <1>2. PICK burst \in Bursts : toClient' = Append(toClient, burst)
    BY Zenon DEF ServerTalk
  <1>3. toClient' \in Seq(Seq(LinePackets)) /\ ClientInv' /\ FetchInv'
    BY <1>1, <1>2, BurstType, SendStep, Zenon
  <1>4. unasked' \in 0..MaxUnasked
    <2>1. unasked \in 0..MaxUnasked /\ MaxUnasked \in Nat
      BY ConstantsOK, Zenon DEF ConstantsOK, WInv, ServerInv
    <2> QED BY <1>1, <2>1
  <1>5. ServerInv'
    BY <1>1, <1>3, <1>4, Zenon DEF WInv, ServerInv
  <1>6. SentInv'
    BY <1>1, Zenon DEF WInv, SentInv
  <1> QED BY <1>3, <1>5, <1>6, Zenon DEF WInv

\* What the server makes of a call are lines that it keeps and packets that hold lines.
LEMMA HandleStep ==
  ASSUME WInv, ServerHandle
  PROVE  WInv'
  <1> DEFINE packets == Split(toServer[handled + 1])
             reply == Reply(packets, weapons)
  <1>1. /\ handled < Len(toServer) /\ handled' = handled + 1 /\ weapons' = weapons \o Added(packets)
        /\ UNCHANGED <<sent, toServer, unasked, fetched, reader, queue, read, asked, answer>>
    BY Zenon DEF ServerHandle
  <1>2. toClient' = toClient \/ \E burst \in Bursts : toClient' = Append(toClient, burst \o reply)
    BY Zenon DEF ServerHandle
  <1>3. /\ handled \in 0..Len(toServer) /\ Len(toServer) \in Nat /\ weapons \in Seq(Stored)
        /\ toServer \in Seq(Seq(Bytes))
    BY LenProperties DEF WInv, ServerInv, SentInv
  <1>4. packets \in Seq(LinePackets)
    <2> DEFINE T == Seq(Bytes)
    <2>1. toServer \in Seq(T) /\ handled + 1 \in 1..Len(toServer)
      BY <1>1, <1>3
    <2> HIDE DEF T
    <2>2. toServer[handled + 1] \in T
      BY <2>1, ElementOfSeq
    <2> QED BY <2>2, SplitType, Zenon DEF T
  <1> HIDE DEF packets
  <1>5. reply \in Seq(LinePackets)
    BY <1>3, ReplyType
  <1> HIDE DEF reply
  <1>6. weapons' \in Seq(Stored)
    <2>1. Added(packets) \in Seq(Stored)
      BY <1>4, AddedType
    <2>2. weapons \o Added(packets) \in Seq(Stored)
      BY <1>3, <2>1, ConcatProperties
    <2> QED BY <1>1, <2>2, Zenon
  <1>7. toClient' \in Seq(Seq(LinePackets)) /\ ClientInv' /\ FetchInv'
    <2>1. CASE toClient' = toClient
      <3>1. toClient' \in Seq(Seq(LinePackets)) /\ ClientInv'
        BY <1>1, <2>1, Zenon DEF WInv, ServerInv, ClientInv
      <3>2. FetchInv'
        <4>1. SubSeq(toClient', 1, fetched) = SubSeq(toClient, 1, fetched)
          BY <2>1, Zenon
        <4> QED BY <1>1, <2>1, <4>1, FetchStays, Zenon DEF WInv
      <3> QED BY <3>1, <3>2
    <2>2. CASE \E burst \in Bursts : toClient' = Append(toClient, burst \o reply)
      <3>1. PICK burst \in Bursts : toClient' = Append(toClient, burst \o reply)
        BY <2>2, Zenon
      <3>2. burst \o reply \in Seq(LinePackets)
        BY <1>5, BurstType, ConcatProperties
      <3> QED BY <1>1, <3>1, <3>2, SendStep, Zenon
    <2> QED BY <1>2, <2>1, <2>2
  <1>8. handled' \in 0..Len(toServer')
    BY <1>1, <1>3
  <1>9. ServerInv'
    BY <1>1, <1>6, <1>7, <1>8, Zenon DEF WInv, ServerInv
  <1>10. SentInv'
    BY <1>1, Zenon DEF WInv, SentInv
  <1> QED BY <1>7, <1>9, <1>10, Zenon DEF WInv

\* Where nothing changes everything stays true.
LEMMA StutterStep ==
  ASSUME WInv, UNCHANGED vars
  PROVE  WInv'
  <1>1. UNCHANGED <<sent, toServer, handled, weapons, toClient, unasked, fetched, reader, queue, read,
                    asked, answer>>
    BY Zenon DEF vars
  <1>2. SentInv' /\ ServerInv' /\ ClientInv'
    BY <1>1, Zenon DEF WInv, SentInv, ServerInv, ClientInv
  <1>3. FetchInv'
    BY <1>1, FetchStays, Zenon DEF WInv
  <1> QED BY <1>2, <1>3, Zenon DEF WInv

\* What is said of the calls, the server and the client is true in every state,
\* whatever the strings, the server's packets and the bounds are.
THEOREM Invariance == Spec => []WInv
  <1>1. ASSUME WInv, [Next]_vars PROVE WInv'
    <2>1. CASE AddWeapon
      BY <1>1, <2>1, AddStep
    <2>2. CASE GetWeapon
      BY <1>1, <2>2, GetStep
    <2>3. CASE Fetch
      <3>1. ServerInv' /\ ClientInv' /\ FetchInv'
        BY <1>1, <2>3, FetchStep
      <3>2. SentInv'
        BY <1>1, <2>3, Zenon DEF Fetch, WInv, SentInv
      <3> QED BY <3>1, <3>2, Zenon DEF WInv
    <2>4. CASE Pop
      <3>1. ServerInv' /\ ClientInv' /\ FetchInv' /\ SentInv'
        BY <1>1, <2>4, PopStep
      <3> QED BY <3>1, Zenon DEF WInv
    <2>5. CASE ServerHandle
      BY <1>1, <2>5, HandleStep
    <2>6. CASE ServerTalk
      BY <1>1, <2>6, TalkStep
    <2>7. CASE UNCHANGED vars
      BY <1>1, <2>7, StutterStep
    <2> QED BY <1>1, <2>1, <2>2, <2>3, <2>4, <2>5, <2>6, <2>7, Zenon DEF Next
  <1> QED BY <1>1, InitInv, PTL DEF Spec

\* Every variable keeps its type, what is on the wire are bytes, and no string is
\* written that is too long for its length to be.
THEOREM TypeCorrect == Spec => []TypeOK
  BY InvTypes, Invariance, PTL

\* Whatever is in a script, a call's frame is one packet for who splits it, if the
\* name and the image are lines, up to the first frame whose size does not fit its
\* length field.
THEOREM CallsAreOnePacket == Spec => []OnePacket
  <1>1. ASSUME WInv PROVE OnePacket
    <2> SUFFICES ASSUME NEW i \in 1..Len(sent),
                        NoLF(sent[i].weapon.name), NoLF(sent[i].weapon.image)
                 PROVE  /\ Len(Split(toServer[i])) = 1
                        /\ Split(toServer[i])[1].head = sent[i].what + Bias
      BY Zenon DEF OnePacket
    <2> DEFINE call == sent[i]
               p == Written(call)
    <2>1. sent \in Seq(Calls) /\ toServer[i] = Frame(call)
      BY <1>1, Zenon DEF WInv, SentInv
    <2>2. call \in Calls
      BY <2>1, ElementOfSeq
    <2>3. Split(Frame(call)) = <<p>>
      <3> HIDE DEF call
      <3>1. NoLF(call.weapon.name) /\ NoLF(call.weapon.image)
        BY Zenon DEF call
      <3> QED BY <2>2, <3>1, CallIs
    <2>4. p.head = call.what + Bias
      BY DEF Written
    <2> HIDE DEF p
    <2>5. Len(<<p>>) = 1 /\ <<p>>[1] = p
      OBVIOUS
    <2> QED BY <2>1, <2>3, <2>4, <2>5, Zenon
  <1> QED BY <1>1, Invariance, PTL

\* While the server sends frames that hold packets, and packets that the client
\* knows, reading goes on and every packet is read once and in order; and
\* otherwise up to where it fails.
THEOREM ReadsAll == Spec => []ReadsWhatWasSent
  <1>1. ASSUME WInv PROVE ReadsWhatWasSent
    <2> DEFINE frames == SubSeq(toClient, 1, fetched)
    <2>1. /\ IsPrefix(read \o queue, Sofar)
          /\ reader = "reading" => read \o queue = Sofar
          /\ reader # "reading" => \E i \in 1..fetched : ~ Known(toClient[i])
      BY <1>1, Zenon DEF WInv, FetchInv
    <2>2. \A i \in 1..fetched : frames[i] = toClient[i]
      <3> DEFINE T == Seq(LinePackets)
      <3>1. toClient \in Seq(T) /\ fetched \in 0..Len(toClient)
        BY <1>1, Zenon DEF WInv, ServerInv, ClientInv
      <3> HIDE DEF T
      <3>2. Len(toClient) \in Nat
        BY <3>1, LenProperties
      <3> QED BY <3>1, <3>2
    <2>3. Sofar = FlattenSeq(frames)
      BY Zenon DEF Sofar
    <2> HIDE DEF frames
    <2>4. (\A i \in 1..fetched : Known(frames[i])) => reader = "reading" /\ read \o queue = Sofar
      BY <2>1, <2>2, Zenon
    <2> QED BY <2>1, <2>3, <2>4, Zenon DEF ReadsWhatWasSent, frames
  <1> QED BY <1>1, Invariance, PTL

-----------------------------------------------------------------------------
(* Strings that come back *)

\* A string shorter than 128 bytes is cut off again as it was written, and what
\* was written behind it is left.  The server writes it the same way.
LEMMA GStringBack ==
  ASSUME NEW text \in Seq(Bytes), Len(text) < Chunk, NEW rest \in Seq(Bytes)
  PROVE  /\ HasGString(GString(text) \o rest)
         /\ GStringOf(GString(text) \o rest) = text
         /\ AfterGString(GString(text) \o rest) = rest
         /\ ServerString(text) = GString(text)
  <1> DEFINE g == GString(text)
             b == g \o rest
             n == Len(text)
             m == Len(rest)
  <1>1. n \in Nat /\ m \in Nat /\ n < 128
    BY LenProperties DEF Chunk
  <1>2. n % 128 = n /\ (n + 32 + 256 - 32) % 256 = n
    <2>1. \A k \in 0..127 : k % 128 = k /\ (k + 32 + 256 - 32) % 256 = k
      OBVIOUS
    <2> HIDE DEF n
    <2>2. n \in 0..127
      BY <1>1
    <2> QED BY <2>1, <2>2, Zenon
  <1>3. g = <<n + 32>> \o text /\ ServerString(text) = <<n + 32>> \o text
    BY <1>2, Zenon DEF GString, EncodeByte, ServerString, Chunk, Bias
  <1>4. /\ g \in Seq(Bytes) /\ Len(g) = n + 1 /\ \A i \in 1..n : g[i + 1] = text[i]
        /\ g[1] = n + 32
    <2>1. GString(text)[1] = (Len(text) % Chunk) + Bias
      BY GStringIs
    <2>2. g[1] = n + 32
      BY <1>2, <2>1, Zenon DEF Chunk, Bias
    <2> QED BY <2>2, GStringIs
  <1> HIDE DEF g
  <1>5. /\ b \in Seq(Bytes) /\ Len(b) = n + 1 + m
        /\ \A i \in 1..(n + 1) : b[i] = g[i]
        /\ \A i \in 1..m : b[n + 1 + i] = rest[i]
    <2>1. /\ b \in Seq(Bytes) /\ Len(b) = Len(g) + Len(rest)
          /\ \A i \in 1..(Len(g) + Len(rest)) : b[i] = IF i <= Len(g) THEN g[i] ELSE rest[i - Len(g)]
      BY <1>4, ConcatProperties
    <2> HIDE DEF b, n
    <2>2. \A i \in 1..(n + 1 + m) : b[i] = IF i <= n + 1 THEN g[i] ELSE rest[i - (n + 1)]
      BY <1>4, <2>1
    <2>3. ASSUME NEW i \in 1..m PROVE b[n + 1 + i] = rest[i]
      <3>1. n + 1 + i \in 1..(n + 1 + m) /\ ~ (n + 1 + i <= n + 1) /\ (n + 1 + i) - (n + 1) = i
        BY <1>1
      <3> QED BY <2>2, <3>1, Zenon
    <2>4. ASSUME NEW i \in 1..(n + 1) PROVE b[i] = g[i]
      <3>1. i \in 1..(n + 1 + m) /\ i <= n + 1
        BY <1>1
      <3> QED BY <2>2, <3>1, Zenon
    <2> QED BY <1>4, <2>1, <2>3, <2>4
  <1> HIDE DEF b
  <1>6. DecodeByte(b[1]) = n
    <2>1. 1 \in 1..(n + 1)
      BY <1>1
    <2>2. b[1] = n + 32
      BY <1>4, <1>5, <2>1, Zenon
    <2> HIDE DEF n
    <2> QED BY <1>2, <2>2, Zenon DEF DecodeByte, Bias
  <1>7. HasGString(b)
    <2>1. b # <<>> /\ n < Len(b)
      BY <1>1, <1>5
    <2> HIDE DEF n
    <2> QED BY <1>6, <2>1, Zenon DEF HasGString
  <1>8. GStringOf(b) = text
    <2> DEFINE c == SubSeq(b, 2, n + 1)
    <2>1. c \in Seq(Bytes) /\ Len(c) = n /\ \A i \in 1..n : c[i] = b[i + 1]
      <3> HIDE DEF n
      <3> QED BY <1>1, <1>5
    <2>2. \A i \in 1..n : c[i] = text[i]
      <3> HIDE DEF c
      <3>1. \A i \in 1..n : i + 1 \in 1..(n + 1)
        BY <1>1
      <3> HIDE DEF n
      <3> QED BY <1>4, <1>5, <2>1, <3>1, Zenon
    <2>3. c = text
      <3> HIDE DEF c
      <3> QED BY <2>1, <2>2, SeqEqual
    <2> HIDE DEF n
    <2> QED BY <1>6, <2>3, Zenon DEF GStringOf
  <1>9. AfterGString(b) = rest
    <2> DEFINE c == SubSeq(b, n + 2, Len(b))
    <2>1. c \in Seq(Bytes) /\ Len(c) = m /\ \A i \in 1..m : c[i] = b[n + 1 + i]
      <3> HIDE DEF n, m
      <3> QED BY <1>1, <1>5
    <2>2. c = rest
      <3> HIDE DEF c
      <3> QED BY <1>5, <2>1, SeqEqual
    <2> HIDE DEF n
    <2> QED BY <1>6, <2>2, Zenon DEF AfterGString
  <1> QED BY <1>3, <1>7, <1>8, <1>9, Zenon DEF b, g

\* Two strings and what is behind them.
Three(name, image, script) == GString(name) \o GString(image) \o script

\* Two strings and what follows them come back as they were written.
LEMMA TwoStrings ==
  ASSUME NEW name \in Seq(Bytes), Len(name) < Chunk, NEW image \in Seq(Bytes), Len(image) < Chunk,
         NEW script \in Seq(Bytes)
  PROVE  /\ HasTwoStrings(Three(name, image, script))
         /\ GStringOf(Three(name, image, script)) = name
         /\ GStringOf(AfterGString(Three(name, image, script))) = image
         /\ AfterGString(AfterGString(Three(name, image, script))) = script
         /\ Three(name, image, script) = ServerString(name) \o ServerString(image) \o script
  <1> DEFINE rest == GString(image) \o script
             b == Three(name, image, script)
  <1>1. GString(name) \in Seq(Bytes) /\ GString(image) \in Seq(Bytes)
    BY GStringIs
  <1>2. rest \in Seq(Bytes) /\ b = GString(name) \o rest
    <2>1. rest \in Seq(Bytes)
      BY <1>1, ConcatProperties
    <2>2. (GString(name) \o GString(image)) \o script = GString(name) \o (GString(image) \o script)
      BY <1>1, ConcatAssociative
    <2> QED BY <2>1, <2>2, Zenon DEF Three
  <1>3. /\ HasGString(rest) /\ GStringOf(rest) = image /\ AfterGString(rest) = script
        /\ ServerString(image) = GString(image)
    BY GStringBack
  <1> HIDE DEF rest
  <1>4. /\ HasGString(b) /\ GStringOf(b) = name /\ AfterGString(b) = rest
        /\ ServerString(name) = GString(name)
    BY <1>2, GStringBack
  <1>5. b = ServerString(name) \o ServerString(image) \o script
    BY <1>3, <1>4, Zenon DEF Three
  <1> HIDE DEF b
  <1>6. HasTwoStrings(b)
    BY <1>3, <1>4, Zenon DEF HasTwoStrings
  <1> QED BY <1>3, <1>4, <1>5, <1>6, Zenon DEF b

-----------------------------------------------------------------------------
(* UTF-8 without its carriage returns *)

\* UTF-8 whose last character may lack its second byte, and whether it does.
First(c) == c \in 0..127 \cup 128..191 \cup 194..223
Second(c) == c \in 128..191
Lead(c) == c >= 194
Begins(b) ==
  \A i \in 1..Len(b) :
    /\ First(b[i])
    /\ Lead(b[i]) /\ i < Len(b) => Second(b[i + 1])
    /\ Second(b[i]) => i > 1 /\ Lead(b[i - 1])
Open(b) == b # <<>> /\ Lead(b[Len(b)])

\* UTF-8 by its kinds of bytes:
LEMMA Utf8Bytes ==
  ASSUME NEW b
  PROVE  IsUtf8(b) <=> \A i \in 1..Len(b) :
                         /\ First(b[i])
                         /\ Lead(b[i]) => i < Len(b) /\ Second(b[i + 1])
                         /\ Second(b[i]) => i > 1 /\ Lead(b[i - 1])
  BY Zenon DEF IsUtf8, First, Second, Lead

\* it begins as UTF-8 does, and its last character is whole.
LEMMA Utf8Is ==
  ASSUME NEW b \in Seq(Bytes)
  PROVE  IsUtf8(b) <=> Begins(b) /\ ~ Open(b)
  <1>0. IsUtf8(b) <=> \A i \in 1..Len(b) :
                        /\ First(b[i])
                        /\ Lead(b[i]) => i < Len(b) /\ Second(b[i + 1])
                        /\ Second(b[i]) => i > 1 /\ Lead(b[i - 1])
    BY Utf8Bytes
  <1>1. Len(b) \in Nat /\ (b # <<>> <=> Len(b) # 0)
    BY EmptySeq, LenProperties
  <1>2. ASSUME IsUtf8(b) PROVE Begins(b) /\ ~ Open(b)
    <2>1. Begins(b)
      BY <1>0, <1>2, Zenon DEF Begins
    <2>2. b # <<>> => Len(b) \in 1..Len(b) /\ ~ (Len(b) < Len(b))
      BY <1>1
    <2> QED BY <1>0, <1>2, <2>1, <2>2, Zenon DEF Open
  <1>3. ASSUME Begins(b), ~ Open(b) PROVE IsUtf8(b)
    <2>1. \A i \in 1..Len(b) : i < Len(b) \/ i = Len(b)
      BY <1>1
    <2>2. \A i \in 1..Len(b) : b # <<>>
      BY <1>1
    <2>3. \A i \in 1..Len(b) : Lead(b[i]) => i < Len(b)
      BY <1>3, <2>1, <2>2, Zenon DEF Open
    <2> QED BY <1>0, <1>3, <2>3, Zenon DEF Begins
  <1> QED BY <1>2, <1>3

\* One byte more goes on with it if it is a second byte where one is lacking.
LEMMA BeginsAppend ==
  ASSUME NEW b \in Seq(Bytes), NEW c \in Bytes
  PROVE  /\ Begins(Append(b, c)) <=> Begins(b) /\ First(c) /\ (Open(b) <=> Second(c))
         /\ Open(Append(b, c)) <=> Lead(c)
  <1> DEFINE a == Append(b, c)
             n == Len(b)
  <1>1. n \in Nat /\ (b # <<>> <=> n # 0)
    BY EmptySeq, LenProperties
  <1>2. /\ a \in Seq(Bytes) /\ Len(a) = n + 1 /\ a[n + 1] = c /\ a # <<>>
        /\ \A i \in 1..n : a[i] = b[i]
    BY AppendProperties
  <1> HIDE DEF a
  <1>3. ~ (Lead(c) /\ Second(c))
    BY DEF Lead, Second, Bytes
  <1>4. Open(a) <=> Lead(c)
    BY <1>2, Zenon DEF Open
  <1>5. Open(b) <=> n # 0 /\ Lead(a[n])
    <2>1. n # 0 => n \in 1..n
      BY <1>1
    <2> QED BY <1>1, <1>2, <2>1, Zenon DEF Open
  <1> HIDE DEF n
  <1>6. ASSUME Begins(a) PROVE Begins(b) /\ First(c) /\ (Open(b) <=> Second(c))
    <2>1. \A i \in 1..(n + 1) :
            /\ First(a[i])
            /\ Lead(a[i]) /\ i < n + 1 => Second(a[i + 1])
            /\ Second(a[i]) => i > 1 /\ Lead(a[i - 1])
      BY <1>2, <1>6, Zenon DEF Begins
    <2>2. First(c)
      <3>1. n + 1 \in 1..(n + 1)
        BY <1>1
      <3> QED BY <1>2, <2>1, <3>1, Zenon
    <2>3. Open(b) => Second(c)
      <3> SUFFICES ASSUME n # 0, Lead(a[n]) PROVE Second(c)
        BY <1>5
      <3>1. n \in 1..(n + 1) /\ n < n + 1
        BY <1>1
      <3> QED BY <1>2, <2>1, <3>1, Zenon
    <2>4. Second(c) => Open(b)
      <3> SUFFICES ASSUME Second(c) PROVE n # 0 /\ Lead(a[n])
        BY <1>5
      <3>1. n + 1 \in 1..(n + 1) /\ (n + 1) - 1 = n /\ (n + 1 > 1 => n # 0)
        BY <1>1
      <3> QED BY <1>2, <2>1, <3>1, Zenon
    <2>5. Begins(b)
      <3>1. ASSUME NEW i \in 1..n
            PROVE  /\ First(b[i])
                   /\ Lead(b[i]) /\ i < n => Second(b[i + 1])
                   /\ Second(b[i]) => i > 1 /\ Lead(b[i - 1])
        <4>1. i \in 1..(n + 1) /\ i < n + 1 /\ (i < n => i + 1 \in 1..n) /\ (i > 1 => i - 1 \in 1..n)
          BY <1>1
        <4> QED BY <1>2, <2>1, <4>1, Zenon
      <3> QED BY <3>1, Zenon DEF Begins, n
    <2> QED BY <2>2, <2>3, <2>4, <2>5
  <1>7. ASSUME Begins(b), First(c), Open(b) <=> Second(c) PROVE Begins(a)
    <2>1. \A i \in 1..n :
            /\ First(b[i])
            /\ Lead(b[i]) /\ i < n => Second(b[i + 1])
            /\ Second(b[i]) => i > 1 /\ Lead(b[i - 1])
      BY <1>7, Zenon DEF Begins, n
    <2>2. ASSUME NEW i \in 1..(n + 1)
          PROVE  /\ First(a[i])
                 /\ Lead(a[i]) /\ i < n + 1 => Second(a[i + 1])
                 /\ Second(a[i]) => i > 1 /\ Lead(a[i - 1])
      <3>1. CASE i = n + 1
        <4>1. ~ (n + 1 < n + 1) /\ (n + 1) - 1 = n /\ (n # 0 => n + 1 > 1)
          BY <1>1
        <4> QED BY <1>2, <1>5, <1>7, <3>1, <4>1, Zenon
      <3>2. CASE i # n + 1
        <4>1. i \in 1..n /\ (i < n => i + 1 \in 1..n) /\ (i > 1 => i - 1 \in 1..n)
          BY <1>1, <3>2
        <4>2. i < n \/ i = n
          BY <1>1, <4>1
        <4>3. CASE i < n
          BY <1>2, <2>1, <4>1, <4>3, Zenon
        <4>4. CASE i = n
          <5>1. n # 0
            BY <1>1, <4>1, <4>4
          <5> QED BY <1>2, <1>5, <1>7, <2>1, <4>1, <4>4, <5>1, Zenon
        <4> QED BY <4>2, <4>3, <4>4
      <3> QED BY <3>1, <3>2
    <2> QED BY <1>2, <2>2, Zenon DEF Begins
  <1> QED BY <1>4, <1>6, <1>7, Zenon DEF a

\* A script without its carriage returns is UTF-8 still.
LEMMA UnixUtf8 == \A s \in Seq(Bytes) : IsUtf8(s) => IsUtf8(Unix(s))
  <1> DEFINE G == {s \in Seq(Bytes) : Begins(s) => Begins(Unix(s)) /\ (Open(Unix(s)) <=> Open(s))}
  <1>1. <<>> \in G
    BY UnixIs, EmptySeq, Zenon
  <1>2. ASSUME NEW s \in Seq(Bytes), NEW c \in Bytes, s \in G PROVE Append(s, c) \in G
    <2> DEFINE u == Unix(s)
               a == Append(s, c)
    <2>1. a \in Seq(Bytes) /\ u \in Seq(Bytes)
      BY UnixIs, AppendProperties
    <2> SUFFICES ASSUME Begins(a) PROVE Begins(Unix(a)) /\ (Open(Unix(a)) <=> Open(a))
      BY <2>1
    <2>2. Begins(s) /\ First(c) /\ (Open(s) <=> Second(c)) /\ (Open(a) <=> Lead(c))
      BY BeginsAppend
    <2>3. Begins(u) /\ (Open(u) <=> Open(s))
      BY <1>2, <2>2
    <2>4. Unix(a) = IF c = CR THEN u ELSE Append(u, c)
      BY UnixIs, Zenon
    <2> HIDE DEF u, a
    <2>5. CASE c = CR
      <3>1. ~ Second(c) /\ ~ Lead(c)
        BY <2>5 DEF CR, Second, Lead
      <3> QED BY <2>2, <2>3, <2>4, <2>5, <3>1, Zenon
    <2>6. CASE c # CR
      <3>1. /\ Begins(Append(u, c)) <=> Begins(u) /\ First(c) /\ (Open(u) <=> Second(c))
            /\ Open(Append(u, c)) <=> Lead(c)
        BY <2>1, BeginsAppend
      <3> QED BY <2>2, <2>3, <2>4, <2>6, <3>1, Zenon
    <2> QED BY <2>5, <2>6
  <1> HIDE DEF G
  <1>3. Seq(Bytes) \subseteq G
    BY <1>1, <1>2, SequenceInduction
  <1>4. \A s \in Seq(Bytes) : Begins(s) => Begins(Unix(s)) /\ (Open(Unix(s)) <=> Open(s))
    BY <1>3 DEF G
  <1>5. \A s \in Seq(Bytes) : Unix(s) \in Seq(Bytes)
    BY UnixIs, Zenon
  <1> QED BY <1>4, <1>5, Utf8Is, Zenon

\* Swapping is byte by byte.
LEMMA SwapIs ==
  ASSUME NEW b \in Seq(Bytes), NEW from \in Bytes, NEW to \in Bytes
  PROVE  /\ Swap(b, from, to) \in Seq(Bytes) /\ Len(Swap(b, from, to)) = Len(b)
         /\ \A i \in 1..Len(b) : Swap(b, from, to)[i] = IF b[i] = from THEN to ELSE b[i]
  <1> DEFINE w == [i \in 1..Len(b) |-> IF b[i] = from THEN to ELSE b[i]]
  <1>1. Len(b) \in Nat /\ \A i \in 1..Len(b) : b[i] \in Bytes
    BY LenProperties, ElementOfSeq
  <1>2. w \in [1..Len(b) -> Bytes]
    BY <1>1
  <1>3. w \in Seq(Bytes) /\ Len(w) = Len(b) /\ \A i \in 1..Len(b) : w[i] = IF b[i] = from THEN to ELSE b[i]
    <2>1. \A i \in 1..Len(b) : w[i] = IF b[i] = from THEN to ELSE b[i]
      BY Zenon
    <2> HIDE DEF w
    <2> QED BY <1>1, <1>2, <2>1, SeqDef, LenProperties
  <1> HIDE DEF w
  <1>4. Swap(b, from, to) = w
    BY Zenon DEF Swap, w
  <1> QED BY <1>3, <1>4, Zenon

\* A script comes back as it is in Unix, if it has no mark of its own; if it has,
\* what comes back is no UTF-8.
LEMMA ScriptBack ==
  ASSUME NEW u \in Seq(Bytes), IsUtf8(u)
  PROVE  /\ ~ HasMark(u) => ReadScript(Swap(u, LF, Mark)) = u
         /\ HasMark(u) => ~ IsUtf8(ReadScript(Swap(u, LF, Mark)))
  <1> DEFINE v == Swap(u, LF, Mark)
             w == Swap(v, Mark, LF)
  <1>1. LF \in Bytes /\ Mark \in Bytes /\ LF = 10 /\ Mark = 167
    BY DEF LF, Mark, Bytes
  <1>2. /\ v \in Seq(Bytes) /\ Len(v) = Len(u)
        /\ \A i \in 1..Len(u) : v[i] = IF u[i] = LF THEN Mark ELSE u[i]
    BY <1>1, SwapIs
  <1> HIDE DEF v
  <1>3. /\ w \in Seq(Bytes) /\ Len(w) = Len(u)
        /\ \A i \in 1..Len(u) : w[i] = IF v[i] = Mark THEN LF ELSE v[i]
    <2>1. /\ w \in Seq(Bytes) /\ Len(w) = Len(v)
          /\ \A i \in 1..Len(v) : w[i] = IF v[i] = Mark THEN LF ELSE v[i]
      BY <1>1, <1>2, SwapIs
    <2> QED BY <1>2, <2>1, Zenon
  <1>4. ReadScript(v) = w
    BY Zenon DEF ReadScript
  <1> HIDE DEF w
  <1>5. \A i \in 1..Len(u) : w[i] = IF u[i] = Mark THEN LF ELSE u[i]
    BY <1>1, <1>2, <1>3
  <1>6. ASSUME ~ HasMark(u) PROVE w = u
    <2>1. \A i \in 1..Len(u) : w[i] = u[i]
      BY <1>5, <1>6, Zenon DEF HasMark
    <2> QED BY <1>3, <2>1, SeqEqual
  <1>7. ASSUME HasMark(u) PROVE ~ IsUtf8(w)
    <2>1. PICK i \in 1..Len(u) : u[i] = Mark
      BY <1>7, Zenon DEF HasMark
    <2>2. i > 1 /\ Lead(u[i - 1])
      <3>1. Second(u[i])
        BY <1>1, <2>1 DEF Second
      <3> QED BY <3>1, Utf8Bytes, Zenon
    <2>3. i - 1 \in 1..Len(u) /\ (i - 1) + 1 = i
      BY <2>2, LenProperties
    <2>4. w[i] = 10
      BY <1>1, <1>5, <2>1, Zenon
    <2>5. w[i - 1] = u[i - 1]
      <3>1. u[i - 1] # Mark
        BY <1>1, <2>2 DEF Lead
      <3> QED BY <1>5, <2>3, <3>1, Zenon
    <2>6. ~ Second(10)
      BY DEF Second
    <2> SUFFICES ASSUME IsUtf8(w) PROVE FALSE
      OBVIOUS
    <2>7. Lead(w[i - 1]) => Second(w[(i - 1) + 1])
      BY <1>3, <2>3, Utf8Bytes, Zenon
    <2> QED BY <2>2, <2>3, <2>4, <2>5, <2>6, <2>7, Zenon
  <1> QED BY <1>4, <1>6, <1>7, Zenon DEF v

\* What is asked for comes back from what the server answers with.
LEMMA AnswerIs ==
  ASSUME NEW w \in Weapons, Plain(w.name), Plain(w.image), IsUtf8(w.script)
  PROVE  FromBytes(AnswerWith(InWriting(w)))
           = IF HasMark(w.script) THEN NoWeapon
             ELSE [w EXCEPT !.name = AsChars(@), !.image = AsChars(@)]
  <1> DEFINE name == w.name
             image == w.image
             script == w.script
             kept == Swap(script, LF, Mark)
             b == Three(name, image, kept)
  <1>1. /\ name \in Seq(Bytes) /\ image \in Seq(Bytes) /\ script \in Seq(Bytes)
        /\ w = [name |-> name, image |-> image, script |-> script]
    BY DEF Weapons
  <1>2. Len(name) < Chunk /\ Len(image) < Chunk
    BY Zenon DEF Plain
  <1> HIDE DEF name, image, script
  <1>3. kept \in Seq(Bytes)
    <2>1. LF \in Bytes /\ Mark \in Bytes
      BY DEF LF, Mark, Bytes
    <2> QED BY <1>1, <2>1, SwapIs
  <1>4. /\ ~ HasMark(script) => ReadScript(kept) = script
        /\ HasMark(script) => ~ IsUtf8(ReadScript(kept))
    BY <1>1, ScriptBack, Zenon DEF script
  <1>5. InWriting(w) = [name |-> name, image |-> image, script |-> kept]
    <2>1. InWriting(w) = [w EXCEPT !.script = kept]
      <3>1. w.script = script
        BY DEF script
      <3> QED BY <3>1, Zenon DEF InWriting
    <2> HIDE DEF kept
    <2> QED BY <1>1, <2>1
  <1> HIDE DEF kept
  <1> DEFINE x == [name |-> name, image |-> image, script |-> kept]
  <1>6. x.name = name /\ x.image = image /\ x.script = kept
    OBVIOUS
  <1> HIDE DEF x
  <1>7. /\ HasTwoStrings(b) /\ GStringOf(b) = name /\ GStringOf(AfterGString(b)) = image
        /\ AfterGString(AfterGString(b)) = kept
        /\ b = ServerString(name) \o ServerString(image) \o kept
    <2>1. name \in Seq(Bytes) /\ image \in Seq(Bytes)
      BY <1>1
    <2> QED BY <1>2, <1>3, <2>1, TwoStrings
  <1>8. AnswerWith(InWriting(w)) = b
    BY <1>5, <1>6, <1>7, Zenon DEF AnswerWith, x
  <1> HIDE DEF b
  <1>9. FromBytes(b) = IF IsUtf8(ReadScript(kept))
                         THEN Weapon(AsChars(name), AsChars(image), ReadScript(kept)) ELSE NoWeapon
    BY <1>7, Zenon DEF FromBytes
  <1>10. [w EXCEPT !.name = AsChars(@), !.image = AsChars(@)]
           = [name |-> AsChars(name), image |-> AsChars(image), script |-> script]
    <2> DEFINE n == AsChars(name)
               i == AsChars(image)
    <2>1. w.name = name /\ w.image = image
      BY DEF name, image
    <2>2. [w EXCEPT !.name = AsChars(@), !.image = AsChars(@)] = [w EXCEPT !.name = n, !.image = i]
      BY <2>1, Zenon
    <2> HIDE DEF n, i
    <2>3. [w EXCEPT !.name = n, !.image = i] = [name |-> n, image |-> i, script |-> script]
      <3>1. [w EXCEPT !.name = n, !.image = i] = [[w EXCEPT !.name = n] EXCEPT !.image = i]
        BY <1>1
      <3>2. [w EXCEPT !.name = n] = [name |-> n, image |-> image, script |-> script]
        BY <1>1
      <3> DEFINE v == [name |-> n, image |-> image, script |-> script]
      <3>3. [v EXCEPT !.image = i] = [name |-> n, image |-> i, script |-> script]
        OBVIOUS
      <3> QED BY <3>1, <3>2, <3>3, Zenon
    <2> QED BY <2>2, <2>3, Zenon DEF n, i
  <1>11. CASE HasMark(script)
    BY <1>4, <1>8, <1>9, <1>11, Zenon DEF script
  <1>12. CASE ~ HasMark(script)
    <2>1. IsUtf8(script)
      BY Zenon DEF script
    <2> QED BY <1>4, <1>8, <1>9, <1>10, <1>12, <2>1, Zenon DEF script, Weapon
  <1> QED BY <1>11, <1>12

-----------------------------------------------------------------------------
(* What the server makes of a call *)

\* It stores the weapon that a call adds, as it was written.
LEMMA AddedIs ==
  ASSUME NEW call \in Calls, Plain(call.weapon.name), Plain(call.weapon.image)
  PROVE  Added(<<Written(call)>>)
           = IF call.what = NcWeaponAdd
               THEN <<[call.weapon EXCEPT !.script = GScript(@)]>> ELSE <<>>
  <1> DEFINE name == call.weapon.name
             image == call.weapon.image
             script == GScript(call.weapon.script)
             p == Written(call)
             rest(b)   == AfterGString(b)
             weapon(b) == Weapon(GStringOf(b), GStringOf(rest(b)), AfterGString(rest(b)))
             adds(q)   == /\ q.head = NcWeaponAdd + Bias /\ HasTwoStrings(q.data)
                          /\ WritesGString(weapon(q.data).name) /\ WritesGString(weapon(q.data).image)
             each(q) == IF adds(q) THEN <<weapon(q.data)>> ELSE <<>>
  <1>1. /\ name \in Seq(Bytes) /\ image \in Seq(Bytes) /\ call.weapon.script \in Seq(Bytes)
        /\ call.what \in {NcWeaponGet, NcWeaponAdd} /\ call.weapon \in Weapons
    BY Zenon DEF Calls, Weapons
  <1>2. script \in Seq(Bytes)
    BY <1>1, GScriptIs
  <1>3. p.head = call.what + Bias /\ p.data = Data(call)
    BY DEF Written
  <1>4. Added(<<p>>) = FlattenSeq(<<each(p)>>)
    <2>1. Added(<<p>>) = FlattenSeq([i \in 1..Len(<<p>>) |-> each(<<p>>[i])])
      BY Zenon DEF Added
    <2> HIDE DEF each, p
    <2>2. [i \in 1..Len(<<p>>) |-> each(<<p>>[i])] = <<each(p)>>
      <3>1. Len(<<p>>) = 1 /\ <<p>>[1] = p
        OBVIOUS
      <3>2. [i \in 1..Len(<<p>>) |-> each(<<p>>[i])] = [i \in 1..1 |-> each(p)]
        BY <3>1
      <3> DEFINE e == each(p)
      <3> HIDE DEF e
      <3>3. [i \in 1..1 |-> e] = <<e>>
        OBVIOUS
      <3> QED BY <3>2, <3>3, Zenon DEF e
    <2> QED BY <2>1, <2>2, Zenon
  <1>5. ASSUME NEW w \in Seq(Weapons) PROVE FlattenSeq(<<w>>) = w
    <2>1. <<w>> = Append(<<>>, w) /\ <<>> \in Seq(Seq(Weapons))
      OBVIOUS
    <2> QED BY <2>1, FlattenAppend
  <1> HIDE DEF p
  <1>6. CASE call.what = NcWeaponGet
    <2>1. ~ adds(p)
      <3>1. p.head # NcWeaponAdd + Bias
        BY <1>3, <1>6 DEF NcWeaponGet, NcWeaponAdd, Bias
      <3> QED BY <3>1, Zenon
    <2>2. each(p) = <<>>
      BY <2>1, Zenon
    <2>3. <<>> \in Seq(Weapons) /\ call.what # NcWeaponAdd
      BY <1>6 DEF NcWeaponGet, NcWeaponAdd
    <2>4. FlattenSeq(<<<<>>>>) = <<>>
      BY <1>5, <2>3
    <2> QED BY <1>4, <2>2, <2>3, <2>4, Zenon DEF p
  <1>7. CASE call.what = NcWeaponAdd
    <2> DEFINE b == Three(name, image, script)
               w == [name |-> name, image |-> image, script |-> script]
    <2>1. p.data = b
      <3>1. call.what # NcWeaponGet
        BY <1>7 DEF NcWeaponGet, NcWeaponAdd
      <3> QED BY <1>3, <3>1, Zenon DEF Data, Three
    <2>2. Len(name) < Chunk /\ Len(image) < Chunk
      BY Zenon DEF Plain
    <2> HIDE DEF name, image, script
    <2>3. /\ HasTwoStrings(b) /\ GStringOf(b) = name /\ GStringOf(AfterGString(b)) = image
          /\ AfterGString(AfterGString(b)) = script
      BY <1>1, <1>2, <2>2, TwoStrings
    <2> HIDE DEF b
    <2>4. weapon(p.data) = w
      BY <2>1, <2>3, Zenon DEF Weapon
    <2>5. w.name = name /\ w.image = image /\ w \in Weapons
      BY <1>1, <1>2 DEF Weapons
    <2>6. WritesGString(name) /\ WritesGString(image)
      <3>1. Len(name) <= 223 /\ Len(image) <= 223
        <4>1. Len(name) \in Nat /\ Len(image) \in Nat
          BY <1>1, LenProperties
        <4> QED BY <2>2, <4>1 DEF Chunk
      <3> QED BY <3>1, Zenon DEF WritesGString, GUINT8_MAX
    <2> HIDE DEF w, weapon
    <2>7. adds(p)
      BY <1>3, <1>7, <2>1, <2>3, <2>4, <2>5, <2>6, Zenon
    <2>8. each(p) = <<w>>
      BY <2>4, <2>7, Zenon
    <2>9. FlattenSeq(<<<<w>>>>) = <<w>>
      <3>1. <<w>> \in Seq(Weapons)
        BY <2>5
      <3> QED BY <1>5, <3>1
    <2>10. [call.weapon EXCEPT !.script = GScript(@)] = w
      <3> DEFINE v == call.weapon
      <3>1. v.name = name /\ v.image = image /\ GScript(v.script) = script
        BY DEF name, image, script
      <3>2. v \in Weapons
        BY <1>1
      <3>3. [v EXCEPT !.script = GScript(@)] = [v EXCEPT !.script = script]
        BY <3>1, Zenon
      <3> HIDE DEF v
      <3>4. [v EXCEPT !.script = script] = [name |-> v.name, image |-> v.image, script |-> script]
        BY <3>2 DEF Weapons
      <3> QED BY <3>1, <3>3, <3>4, Zenon DEF v, w
    <2> QED BY <1>4, <1>7, <2>8, <2>9, <2>10, Zenon DEF p
  <1> QED BY <1>1, <1>6, <1>7

\* The greatest of a set of places is what it is.
LEMMA LastOnly ==
  ASSUME NEW n \in Nat, NEW S \in SUBSET (1..n), NEW k \in S, \A j \in S : j <= k
  PROVE  Max(S) = k
  <1>1. Max(S) \in S /\ \A j \in S : j <= Max(S)
    BY LastIs
  <1>2. Max(S) <= k /\ k <= Max(S) /\ Max(S) \in 1..n /\ k \in 1..n
    BY <1>1
  <1> QED BY <1>2

\* It answers a call that asks with the last weapon of that name, if it has one.
LEMMA ReplyIs ==
  ASSUME NEW call \in Calls, NEW kept
  PROVE  /\ call.what = NcWeaponAdd => Reply(<<Written(call)>>, kept) = <<>>
         /\ call.what = NcWeaponGet =>
              Reply(<<Written(call)>>, kept)
                = IF Under(kept, call.weapon.name) = {} THEN <<>>
                  ELSE <<[head |-> NcWeaponGetReply + Bias,
                          data |-> AnswerWith(kept[Max(Under(kept, call.weapon.name))])]>>
  <1> DEFINE p == Written(call)
             found == {i \in 1..Len(kept) : kept[i].name = <<p>>[1].data}
             answer_(w) == [head |-> NcWeaponGetReply + Bias, data |-> AnswerWith(w)]
  <1>1. p.head = call.what + Bias /\ p.data = Data(call)
    BY DEF Written
  <1>2. Reply(<<p>>, kept) = IF <<p>>[1].head # NcWeaponGet + Bias \/ found = {} THEN <<>>
                             ELSE <<answer_(kept[Max(found)])>>
    BY Zenon DEF Reply, AnswerWith
  <1> HIDE DEF p
  <1>3. <<p>>[1] = p
    OBVIOUS
  <1>4. ASSUME call.what = NcWeaponAdd PROVE Reply(<<p>>, kept) = <<>>
    <2>1. p.head # NcWeaponGet + Bias
      BY <1>1, <1>4 DEF NcWeaponAdd, NcWeaponGet, Bias
    <2> QED BY <1>2, <1>3, <2>1, Zenon
  <1>5. ASSUME call.what = NcWeaponGet
        PROVE  Reply(<<p>>, kept) = IF Under(kept, call.weapon.name) = {} THEN <<>>
                                    ELSE <<answer_(kept[Max(Under(kept, call.weapon.name))])>>
    <2>1. p.data = call.weapon.name
      BY <1>1, <1>5, Zenon DEF Data
    <2>2. found = Under(kept, call.weapon.name)
      BY <1>3, <2>1, Zenon DEF Under
    <2>3. <<p>>[1].head = NcWeaponGet + Bias
      BY <1>1, <1>3, <1>5, Zenon
    <2> HIDE DEF found, answer_
    <2> QED BY <1>2, <2>2, <2>3, Zenon
  <1> QED BY <1>4, <1>5, Zenon DEF p

\* Which weapons were added is a question of the first calls only.
SameUpTo(s, t, k) == \A i \in 1..k : s[i] = t[i]

\* Calls that are the same up to a place add the same weapons up to it.
LEMMA AddsSame ==
  ASSUME NEW k \in Nat, NEW s, NEW t, SameUpTo(s, t, k), NEW name
  PROVE  /\ Adds(s, k, name) = Adds(t, k, name) /\ Adds(s, k, name) \in SUBSET (1..k)
         /\ AddedUpTo(s, k, name) = AddedUpTo(t, k, name)
  <1> DEFINE S == Adds(s, k, name)
  <1>0. \A i \in 1..k : s[i] = t[i]
    BY Zenon DEF SameUpTo
  <1>1. S = Adds(t, k, name) /\ S \in SUBSET (1..k)
    BY <1>0 DEF Adds
  <1> HIDE DEF S
  <1>2. S # {} => s[Max(S)] = t[Max(S)]
    <2> SUFFICES ASSUME S # {} PROVE s[Max(S)] = t[Max(S)]
      OBVIOUS
    <2>1. Max(S) \in 1..k
      BY <1>1, LastIs
    <2> QED BY <1>0, <2>1
  <1> QED BY <1>1, <1>2, Zenon DEF AddedUpTo, S

\* A weapon in writing has the script that is written.
LEMMA InWritingIs ==
  ASSUME NEW w \in Weapons
  PROVE  /\ [w EXCEPT !.script = Unix(@)] \in Weapons
         /\ [w EXCEPT !.script = Unix(@)]
              = [name |-> w.name, image |-> w.image, script |-> Unix(w.script)]
         /\ InWriting([w EXCEPT !.script = Unix(@)]) = [w EXCEPT !.script = GScript(@)]
         /\ [w EXCEPT !.script = GScript(@)]
              = [name |-> w.name, image |-> w.image, script |-> GScript(w.script)]
  <1> DEFINE u == Unix(w.script)
             g == GScript(w.script)
             n == w.name
             m == w.image
  <1>1. n \in Seq(Bytes) /\ m \in Seq(Bytes) /\ w.script \in Seq(Bytes)
    BY Zenon DEF Weapons
  <1>2. u \in Seq(Bytes) /\ g = Swap(u, LF, Mark)
    BY <1>1, UnixIs, Zenon DEF GScript
  <1>3. [w EXCEPT !.script = Unix(@)] = [w EXCEPT !.script = u]
    BY Zenon
  <1>4. [w EXCEPT !.script = GScript(@)] = [w EXCEPT !.script = g]
    BY Zenon
  <1>5. w = [name |-> n, image |-> m, script |-> w.script]
    BY DEF Weapons
  <1> HIDE DEF u, g, n, m
  <1>6. \A x : [w EXCEPT !.script = x] = [name |-> n, image |-> m, script |-> x]
    BY <1>5
  <1> DEFINE v == [name |-> n, image |-> m, script |-> u]
  <1>7. v.script = u /\ v \in Weapons /\ [v EXCEPT !.script = g] = [name |-> n, image |-> m, script |-> g]
    BY <1>1, <1>2 DEF Weapons
  <1> HIDE DEF v
  <1>8. InWriting(v) = [v EXCEPT !.script = g]
    BY <1>2, <1>7, Zenon DEF InWriting
  <1> QED BY <1>3, <1>4, <1>6, <1>7, <1>8, Zenon DEF u, g, n, m, v

\* The server goes on keeping the last weapon of each name with each call it handles.
LEMMA KeepsStep ==
  ASSUME NEW calls \in Seq(Calls), NEW k \in Nat, k + 1 \in 1..Len(calls),
         NEW kept \in Seq(Weapons), NEW name, KeepsLast(calls, k, kept, name),
         Plain(calls[k + 1].weapon.name), Plain(calls[k + 1].weapon.image)
  PROVE  KeepsLast(calls, k + 1, kept \o Added(<<Written(calls[k + 1])>>), name)
  <1> DEFINE call == calls[k + 1]
             now == kept \o Added(<<Written(call)>>)
             v == [call.weapon EXCEPT !.script = GScript(@)]
             S == Adds(calls, k, name)
             F == Under(kept, name)
  <1>1. call \in Calls
    BY ElementOfSeq
  <1>2. call.what \in {NcWeaponGet, NcWeaponAdd} /\ call.weapon \in Weapons
    BY <1>1, Zenon DEF Calls
  <1>3. S \in SUBSET (1..k) /\ F \in SUBSET (1..Len(kept)) /\ Len(kept) \in Nat
    <2>1. S \in SUBSET (1..k)
      BY DEF Adds
    <2> QED BY <2>1, LenProperties DEF Under
  <1>4. Added(<<Written(call)>>) = IF call.what = NcWeaponAdd THEN <<v>> ELSE <<>>
    BY <1>1, AddedIs
  <1>5. /\ F = {} <=> S = {}
        /\ F # {} => kept[Max(F)] = InWriting(AddedUpTo(calls, k, name))
    BY Zenon DEF KeepsLast
  <1>6. Adds(calls, k + 1, name)
          = IF call.what = NcWeaponAdd /\ call.weapon.name = name THEN S \cup {k + 1} ELSE S
    <2>1. 1..(k + 1) = 1..k \cup {k + 1} /\ k + 1 \notin 1..k
      OBVIOUS
    <2> QED BY <2>1 DEF Adds
  <1>7. CASE ~ (call.what = NcWeaponAdd /\ call.weapon.name = name)
    <2>1. Adds(calls, k + 1, name) = S
      BY <1>6, <1>7, Zenon
    <2>2. AddedUpTo(calls, k + 1, name) = AddedUpTo(calls, k, name)
      BY <2>1, Zenon DEF AddedUpTo, S
    <2>3. Under(now, name) = F /\ (F # {} => now[Max(F)] = kept[Max(F)])
      <3>1. CASE call.what # NcWeaponAdd
        <4>1. now = kept
          BY <1>4, <3>1, ConcatEmptySeq
        <4> QED BY <4>1, Zenon DEF F
      <3>2. CASE call.what = NcWeaponAdd
        <4>1. v.name = call.weapon.name /\ v \in Weapons
          <5>1. v = [name |-> call.weapon.name, image |-> call.weapon.image,
                     script |-> GScript(call.weapon.script)]
            BY <1>2, InWritingIs, Zenon
          <5>2. /\ call.weapon.name \in Seq(Bytes) /\ call.weapon.image \in Seq(Bytes)
                /\ GScript(call.weapon.script) \in Seq(Bytes)
            BY <1>2, GScriptIs, Zenon DEF Weapons
          <5> HIDE DEF call, v
          <5> QED BY <5>1, <5>2 DEF Weapons
        <4>2. v.name # name
          BY <1>7, <3>2, <4>1, Zenon
        <4>3. now = Append(kept, v)
          BY <1>4, <3>2, <4>1, AppendIsConcat
        <4> HIDE DEF v, now
        <4>4. /\ Len(now) = Len(kept) + 1 /\ now[Len(kept) + 1] = v
              /\ \A i \in 1..Len(kept) : now[i] = kept[i]
          BY <4>1, <4>3, AppendProperties
        <4>5. 1..(Len(kept) + 1) = 1..Len(kept) \cup {Len(kept) + 1}
          BY <1>3
        <4>6. Under(now, name) = F
          BY <4>2, <4>4, <4>5 DEF Under
        <4>7. F # {} => Max(F) \in 1..Len(kept)
          <5> HIDE DEF F
          <5> SUFFICES ASSUME F # {} PROVE Max(F) \in 1..Len(kept)
            OBVIOUS
          <5>1. Max(F) \in F
            BY <1>3, LastIs
          <5> QED BY <1>3, <5>1
        <4> QED BY <4>4, <4>6, <4>7, Zenon
      <3> QED BY <3>1, <3>2
    <2> QED BY <1>5, <2>1, <2>2, <2>3, Zenon DEF KeepsLast
  <1>8. CASE call.what = NcWeaponAdd /\ call.weapon.name = name
    <2>1. Adds(calls, k + 1, name) = S \cup {k + 1}
      BY <1>6, <1>8, Zenon
    <2>2. Max(S \cup {k + 1}) = k + 1
      <3> DEFINE T == S \cup {k + 1}
                 m == k + 1
      <3>1. T \in SUBSET (1..m) /\ m \in T /\ m \in Nat /\ \A j \in T : j <= m
        <4> HIDE DEF S
        <4> QED BY <1>3
      <3> HIDE DEF T, m
      <3>2. Max(T) = m
        BY <3>1, LastOnly
      <3> QED BY <3>2 DEF T, m
    <2>3. AddedUpTo(calls, k + 1, name) = [call.weapon EXCEPT !.script = Unix(@)]
      BY <2>1, <2>2, Zenon DEF AddedUpTo
    <2>4. InWriting(AddedUpTo(calls, k + 1, name)) = v
      BY <1>2, <2>3, InWritingIs, Zenon
    <2>5. v.name = name /\ v \in Weapons
      <3>1. v = [name |-> call.weapon.name, image |-> call.weapon.image,
                 script |-> GScript(call.weapon.script)]
        BY <1>2, InWritingIs, Zenon
      <3>2. /\ call.weapon.name \in Seq(Bytes) /\ call.weapon.image \in Seq(Bytes)
            /\ GScript(call.weapon.script) \in Seq(Bytes)
        BY <1>2, GScriptIs, Zenon DEF Weapons
      <3> HIDE DEF call, v
      <3> QED BY <1>8, <3>1, <3>2 DEF Weapons
    <2>6. now = Append(kept, v)
      BY <1>4, <1>8, <2>5, AppendIsConcat
    <2> HIDE DEF v, now
    <2>7. /\ Len(now) = Len(kept) + 1 /\ now[Len(kept) + 1] = v
          /\ \A i \in 1..Len(kept) : now[i] = kept[i]
      BY <2>5, <2>6, AppendProperties
    <2> DEFINE m == Len(kept) + 1
               N == Under(now, name)
    <2>8. m \in 1..m /\ m \in Nat
      BY <1>3
    <2>9. N \in SUBSET (1..m) /\ m \in N /\ \A j \in N : j <= m
      <3>1. N \in SUBSET (1..m) /\ m \in N
        BY <2>5, <2>7, <2>8, Zenon DEF Under
      <3> HIDE DEF N
      <3> QED BY <2>8, <3>1
    <2> HIDE DEF m, N
    <2>10. Max(N) = m
      BY <2>8, <2>9, LastOnly
    <2>11. now[Max(N)] = v /\ N # {}
      BY <2>7, <2>9, <2>10, Zenon DEF m
    <2>12. Adds(calls, k + 1, name) # {}
      <3> HIDE DEF S
      <3> QED BY <2>1
    <2>13. KeepsLast(calls, k + 1, now, name)
      <3>1. Under(now, name) # {}
        BY <2>11, Zenon DEF N
      <3>2. now[Max(Under(now, name))] = InWriting(AddedUpTo(calls, k + 1, name))
        BY <2>4, <2>11, Zenon DEF N
      <3> QED BY <2>12, <3>1, <3>2, Zenon DEF KeepsLast
    <2> QED BY <2>13, Zenon DEF now, call
  <1> QED BY <1>7, <1>8

-----------------------------------------------------------------------------
(* An answer is there once *)

\* The answers in a sequence of packets are those in its parts.
LEMMA AnswersAre ==
  /\ \A s \in Seq(LinePackets) : Answers(s) \in Seq(Line)
  /\ Answers(<<>>) = <<>>
  /\ \A s, t \in Seq(LinePackets) : Answers(s \o t) = Answers(s) \o Answers(t)
  /\ \A p \in LinePackets : Answers(<<p>>) = IF IsAnswer(p) THEN <<p.data>> ELSE <<>>
  <1>0. ASSUME NEW f \in [LinePackets -> Seq(Line)], NEW s \in Seq(LinePackets),
               NEW t \in Seq(LinePackets)
        PROVE  FlatMap(f, s \o t) = FlatMap(f, s) \o FlatMap(f, t)
    BY FlatMapConcat
  <1> DEFINE f == [p \in LinePackets |-> IF IsAnswer(p) THEN <<p.data>> ELSE <<>>]
  <1>1. f \in [LinePackets -> Seq(Line)]
    <2>1. \A p \in LinePackets : p.data \in Line
      BY Zenon DEF LinePackets
    <2>2. \A d \in Line : <<d>> \in Seq(Line)
      OBVIOUS
    <2>3. <<>> \in Seq(Line)
      OBVIOUS
    <2>4. \A p \in LinePackets : (IF IsAnswer(p) THEN <<p.data>> ELSE <<>>) \in Seq(Line)
      BY <2>1, <2>2, <2>3, Zenon
    <2> QED BY <2>4, Zenon
  <1>2. ASSUME NEW s \in Seq(LinePackets) PROVE Answers(s) = FlatMap(f, s)
    <2>1. \A i \in 1..Len(s) : s[i] \in LinePackets
      BY ElementOfSeq
    <2>2. \A i \in 1..Len(s) : f[s[i]] = IF IsAnswer(s[i]) THEN <<s[i].data>> ELSE <<>>
      BY <2>1, Zenon
    <2>3. [i \in 1..Len(s) |-> f[s[i]]]
            = [i \in 1..Len(s) |-> IF IsAnswer(s[i]) THEN <<s[i].data>> ELSE <<>>]
      BY <2>2, Zenon
    <2> HIDE DEF f
    <2> QED BY <2>3, Zenon DEF Answers, FlatMap
  <1>3. \A p \in LinePackets : f[p] = IF IsAnswer(p) THEN <<p.data>> ELSE <<>>
    BY Zenon
  <1> HIDE DEF f
  <1>4. ASSUME NEW s \in Seq(LinePackets) PROVE Answers(s) \in Seq(Line)
    BY <1>1, <1>2, FlatMapType
  <1>5. Answers(<<>>) = <<>>
    BY <1>2, FlatMapEmpty, EmptySeq
  <1>6. ASSUME NEW s \in Seq(LinePackets), NEW t \in Seq(LinePackets)
        PROVE  Answers(s \o t) = Answers(s) \o Answers(t)
    <2>1. s \o t \in Seq(LinePackets)
      BY ConcatProperties
    <2>2. FlatMap(f, s \o t) = FlatMap(f, s) \o FlatMap(f, t)
      BY <1>0, <1>1, Zenon
    <2> QED BY <1>2, <2>1, <2>2, Zenon
  <1>7. ASSUME NEW p \in LinePackets PROVE Answers(<<p>>) = IF IsAnswer(p) THEN <<p.data>> ELSE <<>>
    <2>1. <<p>> \in Seq(LinePackets)
      OBVIOUS
    <2>2. FlatMap(f, <<p>>) = f[p]
      BY <1>1, FlatMapOne
    <2> QED BY <1>2, <1>3, <2>1, <2>2, Zenon
  <1> QED BY <1>4, <1>5, <1>6, <1>7, Zenon

\* Where no packet is an answer there are none.
LEMMA NoAnswers ==
  \A s \in Seq(LinePackets) : (\A i \in 1..Len(s) : ~ IsAnswer(s[i])) => Answers(s) = <<>>
  <1> DEFINE G == {s \in Seq(LinePackets) :
                     (\A i \in 1..Len(s) : ~ IsAnswer(s[i])) => Answers(s) = <<>>}
  <1>1. <<>> \in G
    BY AnswersAre, EmptySeq
  <1>2. ASSUME NEW s \in Seq(LinePackets), NEW p \in LinePackets, s \in G PROVE Append(s, p) \in G
    <2> DEFINE a == Append(s, p)
    <2>1. /\ a \in Seq(LinePackets) /\ Len(a) = Len(s) + 1 /\ a[Len(s) + 1] = p /\ Len(s) \in Nat
          /\ \A i \in 1..Len(s) : a[i] = s[i]
      BY AppendProperties, LenProperties
    <2>2. a = s \o <<p>> /\ <<p>> \in Seq(LinePackets)
      BY AppendIsConcat
    <2> HIDE DEF a
    <2> SUFFICES ASSUME \A i \in 1..Len(a) : ~ IsAnswer(a[i]) PROVE Answers(a) = <<>>
      BY <2>1 DEF a
    <2>3. ~ IsAnswer(p) /\ \A i \in 1..Len(s) : ~ IsAnswer(s[i])
      <3>1. Len(s) + 1 \in 1..Len(a) /\ \A i \in 1..Len(s) : i \in 1..Len(a)
        BY <2>1
      <3> QED BY <2>1, <3>1, Zenon
    <2>4. Answers(s) = <<>>
      BY <1>2, <2>3
    <2>5. Answers(<<p>>) = <<>>
      BY <2>3, AnswersAre, Zenon
    <2>6. Answers(a) = Answers(s) \o Answers(<<p>>)
      BY <2>2, AnswersAre, Zenon
    <2>7. <<>> \o <<>> = <<>>
      OBVIOUS
    <2> QED BY <2>4, <2>5, <2>6, <2>7, Zenon
  <1> HIDE DEF G
  <1>3. Seq(LinePackets) \subseteq G
    BY <1>1, <1>2, SequenceInduction
  <1> QED BY <1>3 DEF G

-----------------------------------------------------------------------------
(* Every step keeps what is said of a question and its answer *)

\* Nothing but an answer that was asked for looks like one.
AnswersWhenAsked == \A burst \in Bursts : \A i \in 1..Len(burst) : ~ IsAnswer(burst[i])

\* A call more leaves the others as they were.
LEMMA SentGrows ==
  ASSUME WInv, NEW call, sent' = Append(sent, call)
  PROVE  /\ Len(sent) \in Nat /\ Len(sent') = Len(sent) + 1 /\ sent'[Len(sent) + 1] = call
         /\ \A i \in 1..Len(sent) : sent'[i] = sent[i]
         /\ PlainSent' => PlainSent
         /\ \A k \in 0..Len(sent) : \A name :
              /\ Adds(sent', k, name) = Adds(sent, k, name)
              /\ AddedUpTo(sent', k, name) = AddedUpTo(sent, k, name)
  <1>1. sent \in Seq(Calls) /\ Len(sent) \in Nat
    BY LenProperties, Zenon DEF WInv, SentInv
  <1>2. /\ Len(sent') = Len(sent) + 1 /\ sent'[Len(sent) + 1] = call
        /\ \A i \in 1..Len(sent) : sent'[i] = sent[i]
    BY <1>1
  <1>3. \A i \in 1..Len(sent) : i \in 1..(Len(sent) + 1)
    BY <1>1
  <1>4. PlainSent' => PlainSent
    BY <1>2, <1>3, Zenon DEF PlainSent
  <1>5. ASSUME NEW k \in 0..Len(sent), NEW name
        PROVE  /\ Adds(sent', k, name) = Adds(sent, k, name)
               /\ AddedUpTo(sent', k, name) = AddedUpTo(sent, k, name)
    <2>1. k \in Nat /\ SameUpTo(sent', sent, k)
      BY <1>1, <1>2 DEF SameUpTo
    <2> DEFINE t == sent'
    <2>2. SameUpTo(t, sent, k) /\ k \in Nat
      BY <2>1
    <2> HIDE DEF t
    <2>3. Adds(t, k, name) = Adds(sent, k, name)
      BY <2>2, AddsSame
    <2>4. AddedUpTo(t, k, name) = AddedUpTo(sent, k, name)
      BY <2>2, AddsSame
    <2> QED BY <2>3, <2>4, Zenon DEF t
  <1> QED BY <1>1, <1>2, <1>4, <1>5, Zenon

\* So nothing changes for the server,
LEMMA KeepStays ==
  ASSUME WInv, KeepInv, NEW call, sent' = Append(sent, call), UNCHANGED <<handled, weapons>>
  PROVE  KeepInv'
  <1>1. handled \in 0..Len(sent)
    BY Zenon DEF WInv, SentInv, ServerInv
  <1>2. /\ PlainSent' => PlainSent
        /\ \A name : /\ Adds(sent', handled, name) = Adds(sent, handled, name)
                     /\ AddedUpTo(sent', handled, name) = AddedUpTo(sent, handled, name)
    BY <1>1, SentGrows, Zenon
  <1>3. \A name : KeepsLast(sent, handled, weapons, name) => KeepsLast(sent', handled, weapons, name)
    BY <1>2, Zenon DEF KeepsLast
  <1> QED BY <1>2, <1>3, Zenon DEF KeepInv

\* and what was read back was.
LEMMA BackStays ==
  ASSUME WInv, ReadBack, NEW call, sent' = Append(sent, call), answer' = answer
  PROVE  ReadBack'
  <1>1. PlainSent' => PlainSent
    BY SentGrows, Zenon
  <1>2. /\ PlainSent <=> \A i \in 1..Len(sent) : Plain(sent[i].weapon.name) /\ Plain(sent[i].weapon.image)
        /\ PlainSent' <=>
             \A i \in 1..Len(sent') : Plain(sent'[i].weapon.name) /\ Plain(sent'[i].weapon.image)
    BY Zenon DEF PlainSent
  <1> QED BY <1>1, <1>2, Zenon DEF ReadBack

\* What is said of a question and its answer.
BInv == KeepInv /\ AskInv /\ ReadBack

\* A weapon added does not touch the question that waits.
LEMMA AddBack ==
  ASSUME WInv, BInv, AddWeapon
  PROVE  BInv'
  <1>1. PICK n \in Names, i \in Images, s \in Scripts : Write(Add(Weapon(n, i, s)))
    BY Zenon DEF AddWeapon
  <1>2. UNCHANGED <<handled, weapons, toClient, unasked, fetched, reader, queue, read, asked, answer>>
    BY Zenon DEF AddWeapon
  <1> DEFINE call == Add(Weapon(n, i, s))
             m == Len(sent) + 1
  <1>3. sent' = Append(sent, call) /\ call.what = NcWeaponAdd
    BY <1>1, AddIsCall, Zenon DEF Write
  <1> HIDE DEF call
  <1>4. /\ Len(sent) \in Nat /\ Len(sent') = m /\ sent'[m] = call
        /\ \A j \in 1..Len(sent) : sent'[j] = sent[j]
        /\ PlainSent' => PlainSent
        /\ \A k \in 0..Len(sent) : \A name : AddedUpTo(sent', k, name) = AddedUpTo(sent, k, name)
    BY <1>3, SentGrows, Zenon
  <1>5. handled \in 0..Len(sent)
    BY Zenon DEF WInv, SentInv, ServerInv
  <1>6. KeepInv' /\ ReadBack'
    BY <1>2, <1>3, KeepStays, BackStays, Zenon DEF BInv
  <1>7. Asking' = Asking
    <2>1. call.what # NcWeaponGet
      BY <1>3 DEF NcWeaponAdd, NcWeaponGet
    <2>2. Asking' = {j \in (handled + 1)..m : sent'[j].what = NcWeaponGet}
      BY <1>2, <1>4, Zenon DEF Asking
    <2>3. (handled + 1)..m = (handled + 1)..Len(sent) \cup {m}
      BY <1>4, <1>5
    <2>4. \A j \in (handled + 1)..Len(sent) : sent'[j] = sent[j]
      BY <1>4, <1>5
    <2> HIDE DEF m
    <2>5. Asking' = {j \in (handled + 1)..Len(sent) : sent[j].what = NcWeaponGet}
      BY <1>4, <2>1, <2>2, <2>3, <2>4
    <2> QED BY <2>5, Zenon DEF Asking
  <1>8. \A g \in Asking : g \in 1..Len(sent) /\ g - 1 \in 0..Len(sent)
    BY <1>4, <1>5 DEF Asking
  <1>9. ASSUME Waiting PROVE Waiting'
    <2> DEFINE all == Answers(FlattenSeq(toClient))
    <2>1. CASE asked = <<>> /\ Asking = {} /\ all = Answers(read)
      BY <1>2, <1>7, <2>1, Zenon DEF Waiting
    <2>2. CASE /\ asked # <<>> /\ all = Answers(read)
               /\ \E g \in Asking : Asking = {g} /\ asked[1] = AddedUpTo(sent, g - 1, sent[g].weapon.name)
      <3>1. PICK g \in Asking : Asking = {g} /\ asked[1] = AddedUpTo(sent, g - 1, sent[g].weapon.name)
        BY <2>2, Zenon
      <3>2. sent'[g] = sent[g] /\ asked[1] = AddedUpTo(sent', g - 1, sent'[g].weapon.name)
        BY <1>4, <1>8, <3>1, Zenon
      <3> QED BY <1>2, <1>7, <2>2, <3>1, <3>2, Zenon DEF Waiting
    <2>3. CASE asked # <<>> /\ Asking = {} /\ all = Answers(read) /\ asked[1] = NoWeapon
      BY <1>2, <1>7, <2>3, Zenon DEF Waiting
    <2>4. CASE /\ asked # <<>> /\ Asking = {}
               /\ all = Append(Answers(read), AnswerWith(InWriting(asked[1])))
               /\ \E j \in 1..Len(sent) : /\ sent[j].what = NcWeaponAdd
                                          /\ asked[1] = [sent[j].weapon EXCEPT !.script = Unix(@)]
      <3>1. \E j \in 1..Len(sent') : /\ sent'[j].what = NcWeaponAdd
                                     /\ asked[1] = [sent'[j].weapon EXCEPT !.script = Unix(@)]
        <4>1. PICK j \in 1..Len(sent) : /\ sent[j].what = NcWeaponAdd
                                        /\ asked[1] = [sent[j].weapon EXCEPT !.script = Unix(@)]
          BY <2>4, Zenon
        <4>2. j \in 1..Len(sent') /\ sent'[j] = sent[j]
          BY <1>4
        <4> QED BY <4>1, <4>2, Zenon
      <3> QED BY <1>2, <1>7, <2>4, <3>1, Zenon DEF Waiting
    <2> QED BY <1>9, <2>1, <2>2, <2>3, <2>4, Zenon DEF Waiting
  <1>10. AskInv'
    BY <1>2, <1>4, <1>9, Zenon DEF BInv, AskInv
  <1> QED BY <1>6, <1>10, Zenon DEF BInv

\* A question is put when there is none and no answer is left.
LEMMA GetBack ==
  ASSUME WInv, BInv, GetWeapon
  PROVE  BInv'
  <1>1. PICK n \in Names : Write(Get(n)) /\ asked' = <<LastAdded(n)>>
    BY Zenon DEF GetWeapon
  <1>2. /\ asked = <<>>
        /\ UNCHANGED <<handled, weapons, toClient, unasked, fetched, reader, queue, read, answer>>
    BY Zenon DEF GetWeapon
  <1> DEFINE call == Get(n)
             m == Len(sent) + 1
  <1>3. sent' = Append(sent, call) /\ call.what = NcWeaponGet /\ call.weapon.name = n
    <2>1. \A s : [name |-> n, image |-> <<>>, script |-> s].name = n
      OBVIOUS
    <2> QED BY <1>1, <2>1, GetIsCall, Zenon DEF Write
  <1> HIDE DEF call
  <1>4. /\ Len(sent) \in Nat /\ Len(sent') = m /\ sent'[m] = call
        /\ \A j \in 1..Len(sent) : sent'[j] = sent[j]
        /\ PlainSent' => PlainSent
        /\ \A k \in 0..Len(sent) : \A name : AddedUpTo(sent', k, name) = AddedUpTo(sent, k, name)
    BY <1>3, SentGrows, Zenon
  <1>5. handled \in 0..Len(sent)
    BY Zenon DEF WInv, SentInv, ServerInv
  <1>6. KeepInv' /\ ReadBack'
    BY <1>2, <1>3, KeepStays, BackStays, Zenon DEF BInv
  <1>7. LastAdded(n) = AddedUpTo(sent, Len(sent), n)
    BY Zenon DEF LastAdded, AddedUpTo, Adds
  <1>8. ASSUME Waiting PROVE Waiting'
    <2>1. Asking = {} /\ Answers(FlattenSeq(toClient)) = Answers(read)
      BY <1>2, <1>8, Zenon DEF Waiting
    <2>2. Asking' = {m} /\ m - 1 = Len(sent) /\ m - 1 \in 0..Len(sent)
      <3>1. Asking' = {j \in (handled + 1)..m : sent'[j].what = NcWeaponGet}
        BY <1>2, <1>4, Zenon DEF Asking
      <3>2. (handled + 1)..m = (handled + 1)..Len(sent) \cup {m} /\ m - 1 = Len(sent)
            /\ m - 1 \in 0..Len(sent)
        BY <1>4, <1>5
      <3>3. \A j \in (handled + 1)..Len(sent) : sent'[j] = sent[j] /\ sent[j].what # NcWeaponGet
        <4>1. \A j \in (handled + 1)..Len(sent) : j \in 1..Len(sent)
          BY <1>4, <1>5
        <4> QED BY <1>4, <2>1, <4>1, Zenon DEF Asking
      <3> HIDE DEF m
      <3>4. Asking' = {m}
        BY <1>3, <1>4, <3>1, <3>2, <3>3
      <3> QED BY <3>2, <3>4
    <2>3. asked' # <<>> /\ asked'[1] = LastAdded(n)
      <3> DEFINE x == LastAdded(n)
      <3>1. asked' = <<x>>
        BY <1>1
      <3> HIDE DEF x
      <3>2. asked' # <<>> /\ asked'[1] = x
        BY <3>1
      <3> QED BY <3>2 DEF x
    <2> HIDE DEF m
    <2>4. asked'[1] = AddedUpTo(sent', m - 1, sent'[m].weapon.name)
      <3>1. sent'[m].weapon.name = n
        BY <1>3, <1>4, Zenon
      <3>2. AddedUpTo(sent', m - 1, n) = AddedUpTo(sent, m - 1, n)
        BY <1>4, <2>2, Zenon
      <3>3. AddedUpTo(sent, m - 1, n) = LastAdded(n)
        BY <1>7, <2>2, Zenon
      <3> QED BY <2>3, <3>1, <3>2, <3>3, Zenon
    <2>5. (Answers(FlattenSeq(toClient)))' = (Answers(read))'
      BY <1>2, <2>1, Zenon
    <2>6. \E g \in Asking' : Asking' = {g} /\ asked'[1] = AddedUpTo(sent', g - 1, sent'[g].weapon.name)
      BY <2>2, <2>4
    <2> QED BY <2>3, <2>5, <2>6, Zenon DEF Waiting
  <1>9. AskInv'
    BY <1>2, <1>4, <1>8, Zenon DEF BInv, AskInv
  <1> QED BY <1>6, <1>9, Zenon DEF BInv

\* Fetching a frame changes nothing that was read or written.
LEMMA FetchBack ==
  ASSUME BInv, Fetch
  PROVE  BInv'
  <1>1. /\ reader = "reading"
        /\ UNCHANGED <<sent, toServer, handled, weapons, toClient, unasked, read, asked, answer>>
    BY Zenon DEF Fetch
  <1>2. PlainSent' = PlainSent /\ Waiting' = Waiting /\ ReadBack' = ReadBack
    BY <1>1, Zenon DEF PlainSent, Waiting, Asking, ReadBack
  <1>3. KeepInv' = KeepInv
    BY <1>1, <1>2, Zenon DEF KeepInv
  <1> QED BY <1>1, <1>2, <1>3, Zenon DEF BInv, AskInv

\* Where nothing changes, nothing changes for a question.
LEMMA StutterBack ==
  ASSUME BInv, UNCHANGED vars
  PROVE  BInv'
  <1>1. UNCHANGED <<sent, toServer, handled, weapons, toClient, unasked, fetched, reader, queue, read,
                    asked, answer>>
    BY Zenon DEF vars
  <1>2. PlainSent' = PlainSent /\ Waiting' = Waiting /\ ReadBack' = ReadBack
    BY <1>1, Zenon DEF PlainSent, Waiting, Asking, ReadBack
  <1>3. KeepInv' = KeepInv
    BY <1>1, <1>2, Zenon DEF KeepInv
  <1> QED BY <1>1, <1>2, <1>3, Zenon DEF BInv, AskInv

\* A frame more has its own answers.
LEMMA MoreAnswers ==
  ASSUME WInv, NEW frame \in Seq(LinePackets), toClient' = Append(toClient, frame)
  PROVE  /\ Answers(FlattenSeq(toClient')) = Answers(FlattenSeq(toClient)) \o Answers(frame)
         /\ Answers(FlattenSeq(toClient)) \in Seq(Line)
  <1>1. toClient \in Seq(Seq(LinePackets))
    BY Zenon DEF WInv, ServerInv
  <1>2. FlattenSeq(toClient) \in Seq(LinePackets)
    BY <1>1, FlattenType
  <1>3. FlattenSeq(toClient') = FlattenSeq(toClient) \o frame
    <2>1. \A seqs \in Seq(Seq(LinePackets)), x \in Seq(LinePackets) :
            FlattenSeq(Append(seqs, x)) = FlattenSeq(seqs) \o x
      BY FlattenSnoc, Zenon
    <2> QED BY <1>1, <2>1, Zenon
  <1> QED BY <1>2, <1>3, AnswersAre, Zenon

\* What the server says unasked is no answer.
LEMMA TalkBack ==
  ASSUME AnswersWhenAsked, WInv, BInv, ServerTalk
  PROVE  BInv'
  <1>1. UNCHANGED <<sent, toServer, handled, weapons, fetched, reader, queue, read, asked, answer>>
    BY Zenon DEF ServerTalk
  <1>2. PICK burst \in Bursts : toClient' = Append(toClient, burst)
    BY Zenon DEF ServerTalk
  <1>3. burst \in Seq(LinePackets) /\ Answers(burst) = <<>>
    BY BurstType, NoAnswers, Zenon DEF AnswersWhenAsked
  <1>4. Answers(FlattenSeq(toClient')) = Answers(FlattenSeq(toClient))
    <2>1. /\ Answers(FlattenSeq(toClient')) = Answers(FlattenSeq(toClient)) \o <<>>
          /\ Answers(FlattenSeq(toClient)) \in Seq(Line)
      BY <1>2, <1>3, MoreAnswers, Zenon
    <2>2. Answers(FlattenSeq(toClient)) \o <<>> = Answers(FlattenSeq(toClient))
      BY <2>1, ConcatEmptySeq
    <2> QED BY <2>1, <2>2, Zenon
  <1>5. PlainSent' = PlainSent /\ ReadBack' = ReadBack /\ Asking' = Asking
    BY <1>1, Zenon DEF PlainSent, Asking, ReadBack
  <1>6. Waiting' = Waiting
    BY <1>1, <1>4, <1>5, Zenon DEF Waiting
  <1>7. KeepInv' = KeepInv
    BY <1>1, <1>5, Zenon DEF KeepInv
  <1> QED BY <1>1, <1>5, <1>6, <1>7, Zenon DEF BInv, AskInv

\* A call that is handled is no longer one that asks.
LEMMA AskingStep ==
  ASSUME WInv, handled < Len(sent), handled' = handled + 1, sent' = sent
  PROVE  Asking' = Asking \ {handled + 1}
  <1>1. handled \in Nat /\ Len(sent) \in Nat
    BY LenProperties DEF WInv, SentInv, ServerInv
  <1>2. (handled + 2)..Len(sent) = ((handled + 1)..Len(sent)) \ {handled + 1}
    BY <1>1
  <1>3. (handled + 1) + 1 = handled + 2
    BY <1>1
  <1>4. Asking' = {i \in (handled + 2)..Len(sent) : sent[i].what = NcWeaponGet}
    BY <1>3, Zenon DEF Asking
  <1> QED BY <1>2, <1>4 DEF Asking

\* The server answers the call that asks, with the weapon that was added last.
LEMMA HandleBack ==
  ASSUME AnswersWhenAsked, WInv, BInv, ServerHandle
  PROVE  BInv'
  <1> DEFINE k == handled + 1
             call == sent[k]
             p == Written(call)
             name == call.weapon.name
  <1>1. /\ handled < Len(toServer) /\ handled' = handled + 1
        /\ weapons' = weapons \o Added(Split(toServer[k]))
        /\ \/ Reply(Split(toServer[k]), weapons) = <<>> /\ toClient' = toClient
           \/ \E burst \in Bursts :
                toClient' = Append(toClient, burst \o Reply(Split(toServer[k]), weapons))
        /\ UNCHANGED <<sent, toServer, unasked, fetched, reader, queue, read, asked, answer>>
    BY Zenon DEF ServerHandle
  <1>2. /\ sent \in Seq(Calls) /\ Len(toServer) = Len(sent) /\ handled \in 0..Len(sent)
        /\ weapons \in Seq(Stored) /\ Len(sent) \in Nat
    BY LenProperties DEF WInv, SentInv, ServerInv
  <1>3. k \in 1..Len(sent) /\ handled \in Nat /\ handled < Len(sent)
    BY <1>1, <1>2
  <1>4. call \in Calls /\ toServer[k] = Frame(call) /\ name \in Names
    <2>1. call \in Calls
      BY <1>2, <1>3, ElementOfSeq
    <2>2. toServer[k] = Frame(call) /\ name \in Names
      BY <1>3, Zenon DEF WInv, SentInv
    <2> QED BY <2>1, <2>2
  <1>5. PlainSent' = PlainSent /\ ReadBack' = ReadBack /\ Asking' = Asking \ {k}
    <2>1. PlainSent' = PlainSent /\ ReadBack' = ReadBack
      BY <1>1, Zenon DEF PlainSent, ReadBack
    <2>2. Asking' = Asking \ {handled + 1}
      BY <1>1, <1>3, AskingStep, Zenon
    <2> QED BY <2>1, <2>2
  <1>6. SUFFICES ASSUME PlainSent PROVE KeepInv' /\ AskInv'
    BY <1>5, Zenon DEF BInv, KeepInv, AskInv
  <1>7. Plain(call.weapon.name) /\ Plain(call.weapon.image)
    BY <1>3, <1>6, Zenon DEF PlainSent
  <1>8. Split(toServer[k]) = <<p>>
    <2>1. NoLF(call.weapon.name) /\ NoLF(call.weapon.image)
      BY <1>7, Zenon DEF Plain
    <2> HIDE DEF call
    <2> QED BY <1>4, <2>1, CallIs, Zenon
  <1>9. \A n \in Names : KeepsLast(sent, handled, weapons, n)
    BY <1>6, Zenon DEF BInv, KeepInv
  <1>10. KeepInv'
    <2>1. weapons' = weapons \o Added(<<Written(sent[handled + 1])>>)
      BY <1>1, <1>8, Zenon
    <2>2. weapons \in Seq(Weapons)
      <3>1. Stored \subseteq Weapons
        BY DEF Stored
      <3> QED BY <1>2, <3>1, SeqWider, Zenon
    <2>3. ASSUME NEW n \in Names
          PROVE  KeepsLast(sent, handled + 1, weapons \o Added(<<Written(sent[handled + 1])>>), n)
      <3>1. handled + 1 \in 1..Len(sent) /\ KeepsLast(sent, handled, weapons, n)
        BY <1>3, <1>9
      <3>2. Plain(sent[handled + 1].weapon.name) /\ Plain(sent[handled + 1].weapon.image)
        BY <1>7
      <3> QED BY <1>2, <1>3, <2>2, <3>1, <3>2, KeepsStep, Zenon
    <2> QED BY <1>1, <2>1, <2>3, Zenon DEF KeepInv
  <1>11. call.what \in {NcWeaponGet, NcWeaponAdd} /\ NcWeaponGet # NcWeaponAdd
    <2>1. NcWeaponGet # NcWeaponAdd
      BY DEF NcWeaponGet, NcWeaponAdd
    <2>2. call.what \in {NcWeaponGet, NcWeaponAdd}
      BY <1>4, Zenon DEF Calls
    <2> QED BY <2>1, <2>2
  <1>12. /\ call.what = NcWeaponAdd => Reply(<<p>>, weapons) = <<>>
         /\ call.what = NcWeaponGet =>
              Reply(<<p>>, weapons)
                = IF Under(weapons, name) = {} THEN <<>>
                  ELSE <<[head |-> NcWeaponGetReply + Bias,
                          data |-> AnswerWith(weapons[Max(Under(weapons, name))])]>>
    <2> HIDE DEF call
    <2> QED BY <1>4, ReplyIs, Zenon
  <1>13. /\ \/ Reply(<<p>>, weapons) = <<>> /\ toClient' = toClient
            \/ \E burst \in Bursts : toClient' = Append(toClient, burst \o Reply(<<p>>, weapons))
         /\ Reply(<<p>>, weapons) \in Seq(LinePackets)
    <2>1. Reply(<<p>>, weapons) \in Seq(LinePackets)
      BY <1>2, ReplyType
    <2> QED BY <1>1, <1>8, <2>1, Zenon
  <1> HIDE DEF p
  <1> DEFINE all == Answers(FlattenSeq(toClient))
             reply == Reply(<<p>>, weapons)
  <1>14. all' = all \o Answers(reply) /\ all \in Seq(Line)
    <2> HIDE DEF reply
    <2>1. all \in Seq(Line)
      <3>1. FlattenSeq(toClient) \in Seq(LinePackets)
        BY FlattenType DEF WInv, ServerInv
      <3> QED BY <3>1, AnswersAre, Zenon
    <2>2. CASE reply = <<>> /\ toClient' = toClient
      <3>1. Answers(reply) = <<>>
        BY <2>2, AnswersAre, Zenon
      <3>2. all \o <<>> = all
        BY <2>1, ConcatEmptySeq
      <3> QED BY <2>1, <2>2, <3>1, <3>2, Zenon
    <2>3. CASE \E burst \in Bursts : toClient' = Append(toClient, burst \o reply)
      <3>1. PICK burst \in Bursts : toClient' = Append(toClient, burst \o reply)
        BY <2>3, Zenon
      <3>2. burst \in Seq(LinePackets) /\ Answers(burst) = <<>> /\ reply \in Seq(LinePackets)
        BY <1>13, BurstType, NoAnswers, Zenon DEF AnswersWhenAsked, reply
      <3>3. burst \o reply \in Seq(LinePackets)
        BY <3>2, ConcatProperties
      <3>4. Answers(burst \o reply) = <<>> \o Answers(reply)
        BY <3>2, AnswersAre, Zenon
      <3>5. <<>> \o Answers(reply) = Answers(reply)
        <4>1. Answers(reply) \in Seq(Line)
          BY <3>2, AnswersAre, Zenon
        <4> QED BY <4>1, ConcatEmptySeq
      <3>6. Answers(FlattenSeq(toClient')) = Answers(FlattenSeq(toClient)) \o Answers(burst \o reply)
        BY <3>1, <3>3, MoreAnswers, Zenon
      <3> QED BY <2>1, <3>4, <3>5, <3>6, Zenon
    <2> QED BY <1>13, <2>2, <2>3, Zenon DEF reply
  <1>15. ASSUME Waiting PROVE Waiting'
    <2>1. CASE call.what = NcWeaponAdd
      <3>1. all' = all
        <4>1. Answers(reply) = <<>>
          BY <1>12, <2>1, AnswersAre, Zenon
        <4>2. all \o <<>> = all
          BY <1>14, ConcatEmptySeq
        <4> QED BY <1>14, <4>1, <4>2, Zenon
      <3>2. Asking' = Asking
        <4>1. k \notin Asking
          BY <1>11, <2>1, Zenon DEF Asking
        <4> HIDE DEF k
        <4> QED BY <1>5, <4>1
      <3> QED BY <1>1, <1>15, <3>1, <3>2, Zenon DEF Waiting
    <2>2. CASE call.what = NcWeaponGet
      <3>1. k \in Asking
        <4>1. handled + 1 \in (handled + 1)..Len(sent)
          BY <1>2, <1>3
        <4> QED BY <2>2, <4>1, Zenon DEF Asking
      <3>2. asked # <<>> /\ all = Answers(read) /\ Asking = {k} /\ asked[1] = AddedUpTo(sent, k - 1, name)
        <4> HIDE DEF k
        <4>1. PICK g \in Asking : /\ asked # <<>> /\ all = Answers(read) /\ Asking = {g}
                                  /\ asked[1] = AddedUpTo(sent, g - 1, sent[g].weapon.name)
          BY <1>15, <3>1, Zenon DEF Waiting
        <4>2. g = k
          BY <3>1, <4>1
        <4> QED BY <4>1, <4>2, Zenon
      <3>3. asked[1] = AddedUpTo(sent, handled, name)
        <4>1. k - 1 = handled
          BY <1>3
        <4> QED BY <3>2, <4>1, Zenon
      <3>4. Asking' = {}
        BY <1>5, <3>2
      <3>5. KeepsLast(sent, handled, weapons, name)
        BY <1>4, <1>9, Zenon
      <3>6. CASE Under(weapons, name) = {}
        <4>1. all' = all
          <5>1. Answers(reply) = <<>>
            BY <1>12, <2>2, <3>6, AnswersAre, Zenon
          <5>2. all \o <<>> = all
            BY <1>14, ConcatEmptySeq
          <5> QED BY <1>14, <5>1, <5>2, Zenon
        <4>2. asked[1] = NoWeapon
          BY <3>3, <3>5, <3>6, Zenon DEF KeepsLast, AddedUpTo
        <4> QED BY <1>1, <3>2, <3>4, <4>1, <4>2, Zenon DEF Waiting
      <3>7. CASE Under(weapons, name) # {}
        <4> DEFINE d == AnswerWith(weapons[Max(Under(weapons, name))])
                   q == [head |-> NcWeaponGetReply + Bias, data |-> d]
        <4>1. reply = <<q>>
          BY <1>12, <2>2, <3>7, Zenon
        <4>2. d = AnswerWith(InWriting(asked[1]))
          BY <3>3, <3>5, <3>7, Zenon DEF KeepsLast
        <4> HIDE DEF d
        <4>3. q.data = d /\ q.head = 224 /\ IsAnswer(q)
          <5>1. q.data = d /\ q.head = 224
            BY DEF NcWeaponGetReply, Bias
          <5>2. (224 + 256 - 32) % 256 = 192
            OBVIOUS
          <5> HIDE DEF q
          <5>3. DecodeByte(q.head) = 192
            BY <5>1, <5>2, Zenon DEF DecodeByte, Bias
          <5> QED BY <5>1, <5>3, Zenon DEF IsAnswer, NcWeaponGetReply
        <4> HIDE DEF q
        <4>4. q \in LinePackets
          <5>1. <<q>> \in Seq(LinePackets)
            BY <1>13, <4>1, Zenon
          <5> QED BY <5>1
        <4>5. Answers(reply) = <<d>>
          BY <4>1, <4>3, <4>4, AnswersAre, Zenon
        <4>6. all' = Append(all, d)
          <5>1. <<d>> \in Seq(Line)
            <6>1. q.data \in Line
              BY <4>4, Zenon DEF LinePackets
            <6>2. d \in Line
              BY <4>3, <6>1, Zenon
            <6> QED BY <6>2
          <5>2. all \o <<d>> = Append(all, d)
            <6> HIDE DEF all
            <6> QED BY <1>14, <5>1, AppendIsConcat
          <5> QED BY <1>14, <4>5, <5>2, Zenon
        <4>7. \E i \in 1..Len(sent) : /\ sent[i].what = NcWeaponAdd
                                      /\ asked[1] = [sent[i].weapon EXCEPT !.script = Unix(@)]
          <5> DEFINE S == Adds(sent, handled, name)
          <5>1. S # {} /\ S \in SUBSET (1..handled)
            BY <3>5, <3>7 DEF KeepsLast, Adds
          <5>2. Max(S) \in S
            <6> HIDE DEF S
            <6> QED BY <1>3, <5>1, LastIs
          <5>3. sent[Max(S)].what = NcWeaponAdd
            BY <5>2, Zenon DEF Adds
          <5>4. Max(S) \in 1..Len(sent)
            <6> DEFINE top == Max(S)
            <6>1. top \in 1..handled
              BY <5>1, <5>2
            <6> HIDE DEF top
            <6>2. top \in 1..Len(sent)
              BY <1>2, <1>3, <6>1
            <6> QED BY <6>2 DEF top
          <5>5. asked[1] = [sent[Max(S)].weapon EXCEPT !.script = Unix(@)]
            BY <3>3, <5>1, Zenon DEF AddedUpTo
          <5> QED BY <5>3, <5>4, <5>5, Zenon
        <4>8. /\ asked' # <<>> /\ Asking' = {}
              /\ all' = Append((Answers(read))', AnswerWith(InWriting(asked'[1])))
          BY <1>1, <3>2, <3>4, <4>2, <4>6, Zenon
        <4>9. \E i \in 1..Len(sent') : /\ sent'[i].what = NcWeaponAdd
                                       /\ asked'[1] = [sent'[i].weapon EXCEPT !.script = Unix(@)]
          BY <1>1, <4>7, Zenon
        <4> QED BY <4>8, <4>9, Zenon DEF Waiting
      <3> QED BY <3>6, <3>7
    <2> QED BY <1>11, <2>1, <2>2
  <1>16. AskInv'
    BY <1>1, <1>5, <1>15, Zenon DEF BInv, AskInv
  <1> QED BY <1>10, <1>16

\* What is put behind a sequence starts where it ends.
LEMMA Behind ==
  ASSUME NEW T, NEW b \in Seq(T), NEW x \in T, NEW w \in Seq(T)
  PROVE  /\ Len(b) \in Nat /\ Len(w) \in Nat /\ Len(Append(b, x) \o w) = Len(b) + 1 + Len(w)
         /\ (Append(b, x) \o w)[Len(b) + 1] = x
         /\ Len(Append(b, x)) = Len(b) + 1 /\ Append(b, x)[Len(b) + 1] = x
         /\ (Len(w) = 0 => w = <<>>)
  <1> DEFINE c == Append(b, x)
             v == c \o w
  <1>1. c \in Seq(T) /\ Len(c) = Len(b) + 1 /\ c[Len(b) + 1] = x /\ Len(b) \in Nat
    BY AppendProperties, LenProperties
  <1>2. Len(w) \in Nat /\ (Len(w) = 0 => w = <<>>)
    BY LenProperties, EmptySeq
  <1> HIDE DEF c
  <1>3. /\ Len(v) = Len(c) + Len(w)
        /\ \A i \in 1..(Len(c) + Len(w)) : v[i] = IF i <= Len(c) THEN c[i] ELSE w[i - Len(c)]
    BY <1>1, ConcatProperties
  <1>4. Len(b) + 1 \in 1..(Len(c) + Len(w)) /\ Len(b) + 1 <= Len(c) /\ Len(c) + Len(w) = Len(b) + 1 + Len(w)
    BY <1>1, <1>2
  <1> HIDE DEF v
  <1>5. v[Len(b) + 1] = x /\ Len(v) = Len(b) + 1 + Len(w)
    BY <1>1, <1>3, <1>4, Zenon
  <1> QED BY <1>1, <1>2, <1>5, Zenon DEF c, v

\* Where a sequence goes on, it is not the same, and if it is the same with an element
\* more, it is this element.
LEMMA OneMore ==
  ASSUME NEW S, NEW a \in Seq(S), NEW d \in S, NEW v \in Seq(S)
  PROVE  /\ a # Append(a, d) \o v
         /\ \A e : Append(a, e) = Append(a, d) \o v => v = <<>> /\ e = d
  <1>1. a # Append(a, d) \o v
    <2> DEFINE w == Append(a, d) \o v
    <2>1. Len(a) \in Nat /\ Len(v) \in Nat /\ Len(w) = Len(a) + 1 + Len(v)
      BY Behind
    <2> HIDE DEF w
    <2>2. Len(w) # Len(a)
      BY <2>1
    <2> QED BY <2>2 DEF w
  <1>2. ASSUME NEW e, Append(a, e) = Append(a, d) \o v PROVE v = <<>> /\ e = d
    <2> DEFINE T == S \cup {e}
               w == Append(a, d) \o v
               u == Append(a, e)
    <2>1. a \in Seq(T) /\ v \in Seq(T) /\ d \in T /\ e \in T
      <3>1. S \subseteq T /\ e \in T
        OBVIOUS
      <3> HIDE DEF T
      <3> QED BY <3>1, SeqWider
    <2> HIDE DEF T
    <2>2. /\ Len(a) \in Nat /\ Len(v) \in Nat /\ Len(w) = Len(a) + 1 + Len(v) /\ w[Len(a) + 1] = d
          /\ (Len(v) = 0 => v = <<>>)
      BY <2>1, Behind
    <2>3. Len(u) = Len(a) + 1 /\ u[Len(a) + 1] = e
      BY <2>1, Behind
    <2>4. u = w
      BY <1>2
    <2> HIDE DEF u, w
    <2>5. e = d
      BY <2>2, <2>3, <2>4, Zenon
    <2>6. Len(v) = 0
      BY <2>2, <2>3, <2>4
    <2> QED BY <2>2, <2>5, <2>6
  <1> QED BY <1>1, <1>2, Zenon

\* Putting together does not depend on what is put together first.
LEMMA Regroup ==
  ASSUME NEW S
  PROVE  \A a, b, c, d \in Seq(S) :
           (a \o (b \o c)) \o d = (a \o b) \o (c \o d) /\ c \o d \in Seq(S)
  <1>1. \A x, y, z \in Seq(S) : (x \o y) \o z = x \o (y \o z)
    BY ConcatAssociative
  <1> TAKE a, b, c, d \in Seq(S)
  <1>2. (a \o b) \o c = a \o (b \o c)
    BY <1>1, Zenon
  <1> DEFINE w == a \o b
  <1>3. w \in Seq(S) /\ c \o d \in Seq(S)
    BY ConcatProperties
  <1> HIDE DEF w
  <1>4. (w \o c) \o d = w \o (c \o d)
    BY <1>1, <1>3
  <1> QED BY <1>2, <1>3, <1>4, Zenon DEF w

\* The answers on the way are those read, the one at the head of the queue, and others.
LEMMA AnswersLeft ==
  ASSUME WInv, reader = "reading", queue # <<>>
  PROVE  /\ Head(queue) \in LinePackets
         /\ Answers(Append(read, Head(queue))) = Answers(read) \o Answers(<<Head(queue)>>)
         /\ Answers(read) \in Seq(Line)
         /\ \E v \in Seq(Line) :
              Answers(FlattenSeq(toClient)) = Answers(Append(read, Head(queue))) \o v
  <1>0. \A h, i, j, k \in Seq(Line) :
          (h \o (i \o j)) \o k = (h \o i) \o (j \o k) /\ j \o k \in Seq(Line)
    BY Regroup
  <1> DEFINE p == Head(queue)
             t == Tail(queue)
             T == Seq(LinePackets)
             a == SubSeq(toClient, 1, fetched)
             b == SubSeq(toClient, fetched + 1, Len(toClient))
  <1>1. queue \in T /\ read \in T /\ toClient \in Seq(T) /\ fetched \in 0..Len(toClient)
    BY Zenon DEF WInv, ClientInv, ServerInv
  <1>2. p \in LinePackets /\ t \in T /\ queue = <<p>> \o t
    BY <1>1, HeadFirst
  <1>3. <<p>> \in T /\ Append(read, p) = read \o <<p>>
    BY <1>1, <1>2, AppendIsConcat
  <1>4. a \in Seq(T) /\ b \in Seq(T) /\ toClient = a \o b
    <2> HIDE DEF T
    <2> QED BY <1>1, CutAt
  <1> HIDE DEF p, t
  <1>5. FlattenSeq(a) \in T /\ FlattenSeq(b) \in T /\ FlattenSeq(toClient) = FlattenSeq(a) \o FlattenSeq(b)
    <2>1. a \in Seq(Seq(LinePackets)) /\ b \in Seq(Seq(LinePackets))
      BY <1>4
    <2> HIDE DEF a, b
    <2>2. FlattenSeq(a) \in Seq(LinePackets) /\ FlattenSeq(b) \in Seq(LinePackets)
      BY <2>1, FlattenType, Zenon
    <2>3. FlattenSeq(a \o b) = FlattenSeq(a) \o FlattenSeq(b)
      BY <2>1, FlattenConcat, Zenon
    <2> QED BY <1>4, <2>2, <2>3, Zenon
  <1>6. FlattenSeq(a) = read \o queue
    BY Zenon DEF WInv, FetchInv, Sofar
  <1> DEFINE f == FlattenSeq(b)
             all == Answers(FlattenSeq(toClient))
  <1>7. f \in T
    BY <1>5
  <1>8. FlattenSeq(toClient) = (read \o queue) \o f
    BY <1>5, <1>6, Zenon
  <1> HIDE DEF a, b, f
  <1>9. /\ read \o queue \in T
        /\ Answers((read \o queue) \o f) = Answers(read \o queue) \o Answers(f)
        /\ Answers(read \o queue) = Answers(read) \o Answers(queue)
        /\ Answers(queue) = Answers(<<p>>) \o Answers(t)
        /\ Answers(read \o <<p>>) = Answers(read) \o Answers(<<p>>)
    <2>1. read \o queue \in T
      BY <1>1, ConcatProperties
    <2> QED BY <1>1, <1>2, <1>3, <1>7, <2>1, AnswersAre, Zenon
  <1> DEFINE r == Answers(read)
             x == Answers(<<p>>)
             y == Answers(t)
             z == Answers(f)
  <1>10. r \in Seq(Line) /\ x \in Seq(Line) /\ y \in Seq(Line) /\ z \in Seq(Line)
    BY <1>1, <1>2, <1>3, <1>7, AnswersAre, Zenon
  <1>11. all = (r \o (x \o y)) \o z
    BY <1>8, <1>9, Zenon
  <1>12. Answers(Append(read, p)) = r \o x
    BY <1>3, <1>9, Zenon
  <1> HIDE DEF r, x, y, z
  <1>13. (r \o (x \o y)) \o z = (r \o x) \o (y \o z) /\ y \o z \in Seq(Line)
    <2>1. r \in Seq(Line)
      BY <1>10, Zenon
    <2>2. \A i, j, k \in Seq(Line) :
            (r \o (i \o j)) \o k = (r \o i) \o (j \o k) /\ j \o k \in Seq(Line)
      BY <1>0, <2>1, Zenon
    <2>3. \A j, k \in Seq(Line) :
            (r \o (x \o j)) \o k = (r \o x) \o (j \o k) /\ j \o k \in Seq(Line)
      BY <1>10, <2>2, Zenon
    <2>4. \A k \in Seq(Line) :
            (r \o (x \o y)) \o k = (r \o x) \o (y \o k) /\ y \o k \in Seq(Line)
      BY <1>10, <2>3, Zenon
    <2> QED BY <1>10, <2>4, Zenon
  <1> QED BY <1>2, <1>10, <1>11, <1>12, <1>13, Zenon DEF p, r, x

\* The weapon that the one who asked is told is the one that was added, with its lines,
\* or it is an error if a byte of its script stands for a line's end.
LEMMA AnswerRead ==
  ASSUME WInv, PlainSent, NEW i \in 1..Len(sent), NEW x,
         x = [sent[i].weapon EXCEPT !.script = Unix(@)]
  PROVE  /\ x # NoWeapon
         /\ FromBytes(AnswerWith(InWriting(x)))
              = IF HasMark(x.script) THEN NoWeapon
                ELSE [x EXCEPT !.name = AsChars(@), !.image = AsChars(@)]
  <1> DEFINE w == sent[i].weapon
  <1>1. w \in Weapons /\ w.script \in Scripts \cup {<<>>}
    <2>1. sent[i] \in Calls
      <3>1. sent \in Seq(Calls)
        BY Zenon DEF WInv, SentInv
      <3> QED BY <3>1, ElementOfSeq
    <2>2. w \in Weapons
      BY <2>1 DEF Calls
    <2>3. w.script \in Scripts \cup {<<>>}
      BY Zenon DEF WInv, SentInv
    <2> QED BY <2>2, <2>3
  <1>2. Plain(w.name) /\ Plain(w.image)
    BY Zenon DEF PlainSent
  <1>3. w.script \in Seq(Bytes) /\ IsUtf8(w.script)
    <2>1. \A s \in Scripts : s \in Seq(Bytes) /\ IsUtf8(s)
      BY ConstantsOK, Zenon DEF ConstantsOK
    <2>2. <<>> \in Seq(Bytes) /\ IsUtf8(<<>>)
      <3>1. <<>> \in Seq(Bytes) /\ 1..Len(<<>>) = {}
        BY EmptySeq
      <3> QED BY <3>1, Zenon DEF IsUtf8
    <2> HIDE DEF w
    <2>3. w.script \in Scripts \/ w.script = <<>>
      BY <1>1
    <2> QED BY <2>1, <2>2, <2>3, Zenon
  <1>4. IsUtf8(Unix(w.script))
    BY <1>3, UnixUtf8, Zenon
  <1>5. x = [w EXCEPT !.script = Unix(@)]
    OBVIOUS
  <1> HIDE DEF w
  <1>6. x \in Weapons /\ x = [name |-> w.name, image |-> w.image, script |-> Unix(w.script)]
    BY <1>1, <1>5, InWritingIs, Zenon
  <1>7. x.name = w.name /\ x.image = w.image /\ x.script = Unix(w.script)
    <2> DEFINE u == Unix(w.script)
               n == w.name
               m == w.image
    <2>1. x = [name |-> n, image |-> m, script |-> u]
      BY <1>6
    <2> HIDE DEF u, n, m
    <2>2. x.name = n /\ x.image = m /\ x.script = u
      BY <2>1
    <2> QED BY <2>2 DEF u, n, m
  <1>8. Plain(x.name) /\ Plain(x.image) /\ IsUtf8(x.script)
    BY <1>2, <1>4, <1>7, Zenon
  <1>9. x # NoWeapon
    BY <1>6, ConstantsOK, Zenon DEF ConstantsOK
  <1>10. FromBytes(AnswerWith(InWriting(x)))
           = IF HasMark(x.script) THEN NoWeapon
             ELSE [x EXCEPT !.name = AsChars(@), !.image = AsChars(@)]
    BY <1>6, <1>8, AnswerIs
  <1> QED BY <1>9, <1>10

\* An answer that is read goes to the one who asked, and it is the one that was given.
LEMMA PopBack ==
  ASSUME WInv, BInv, Pop
  PROVE  BInv'
  <1> DEFINE p == Head(queue)
             all == Answers(FlattenSeq(toClient))
             now == Answers(Append(read, p))
  <1>1. /\ reader = "reading" /\ queue # <<>> /\ read' = Append(read, p)
        /\ UNCHANGED <<sent, toServer, handled, weapons, toClient, unasked, fetched, reader>>
        /\ \/ ~ (asked # <<>> /\ IsAnswer(p)) /\ asked' = asked /\ answer' = answer
           \/ asked # <<>> /\ IsAnswer(p) /\ asked' = <<>> /\ answer' = <<asked[1], FromBytes(p.data)>>
    BY Zenon DEF Pop, IsAnswer
  <1>2. p \in LinePackets /\ now = Answers(read) \o Answers(<<p>>) /\ Answers(read) \in Seq(Line)
    BY <1>1, AnswersLeft
  <1>3. PICK v \in Seq(Line) : all = now \o v
    BY <1>1, AnswersLeft
  <1> HIDE DEF p
  <1>4. PlainSent' = PlainSent /\ Asking' = Asking /\ KeepInv' /\ all' = all /\ (Answers(read))' = now
    <2>1. PlainSent' = PlainSent /\ Asking' = Asking /\ all' = all /\ (Answers(read))' = now
      BY <1>1, Zenon DEF PlainSent, Asking
    <2> QED BY <1>1, <2>1, Zenon DEF BInv, KeepInv
  <1>5. SUFFICES ASSUME PlainSent PROVE Waiting' /\ ReadBack'
    <2>1. ~ PlainSent => AskInv' /\ ReadBack'
      BY <1>4, Zenon DEF AskInv, ReadBack, PlainSent
    <2> QED BY <1>4, <2>1, Zenon DEF BInv, AskInv
  <1>6. Waiting
    BY <1>1, <1>5, Zenon DEF BInv, AskInv
  <1>7. ~ IsAnswer(p) => now = Answers(read)
    <2> SUFFICES ASSUME ~ IsAnswer(p) PROVE now = Answers(read)
      OBVIOUS
    <2>1. Answers(<<p>>) = <<>>
      BY <1>2, AnswersAre, Zenon
    <2>2. Answers(read) \o <<>> = Answers(read)
      BY <1>2, ConcatEmptySeq
    <2> QED BY <1>2, <2>1, <2>2, Zenon
  <1>8. IsAnswer(p) =>
          /\ p.data \in Line /\ now = Append(Answers(read), p.data) /\ all # Answers(read)
          /\ \A e : all = Append(Answers(read), e) => v = <<>> /\ e = p.data
    <2> SUFFICES ASSUME IsAnswer(p)
                 PROVE  /\ p.data \in Line /\ now = Append(Answers(read), p.data) /\ all # Answers(read)
                        /\ \A e : all = Append(Answers(read), e) => v = <<>> /\ e = p.data
      OBVIOUS
    <2>1. p.data \in Line
      BY <1>2, Zenon DEF LinePackets
    <2>2. Answers(<<p>>) = <<p.data>>
      BY <1>2, AnswersAre, Zenon
    <2> DEFINE r == Answers(read)
               d == p.data
    <2>3. r \in Seq(Line) /\ d \in Line /\ now = r \o <<d>>
      BY <1>2, <2>1, <2>2, Zenon
    <2> HIDE DEF r, d, now, all
    <2>4. now = Append(r, d)
      BY <2>3, AppendIsConcat
    <2>5. all = Append(r, d) \o v
      BY <1>3, <2>4, Zenon
    <2>6. /\ r # Append(r, d) \o v
          /\ \A e : Append(r, e) = Append(r, d) \o v => v = <<>> /\ e = d
      BY <2>3, OneMore
    <2>7. all # r /\ \A e : all = Append(r, e) => v = <<>> /\ e = d
      BY <2>5, <2>6, Zenon
    <2> QED BY <2>3, <2>4, <2>7, Zenon DEF r, d
  <1>9. CASE ~ (asked # <<>> /\ IsAnswer(p)) /\ asked' = asked /\ answer' = answer
    <2>1. ReadBack'
      BY <1>1, <1>9, Zenon DEF BInv, ReadBack
    <2>2. ~ IsAnswer(p)
      BY <1>6, <1>8, <1>9, Zenon DEF Waiting
    <2>3. now = Answers(read)
      BY <1>7, <2>2
    <2> HIDE DEF now, all
    <2>4. Waiting'
      BY <1>1, <1>4, <1>6, <1>9, <2>3, Zenon DEF Waiting, all
    <2> QED BY <2>1, <2>4
  <1>10. CASE asked # <<>> /\ IsAnswer(p) /\ asked' = <<>> /\ answer' = <<asked[1], FromBytes(p.data)>>
    <2> DEFINE x == asked[1]
               y == FromBytes(p.data)
    <2>1. /\ Asking = {} /\ all = Append(Answers(read), AnswerWith(InWriting(x)))
          /\ \E i \in 1..Len(sent) : x = [sent[i].weapon EXCEPT !.script = Unix(@)]
      BY <1>6, <1>8, <1>10, Zenon DEF Waiting
    <2>2. v = <<>> /\ AnswerWith(InWriting(x)) = p.data
      BY <1>8, <1>10, <2>1, Zenon
    <2>3. all = now
      <3>1. now \in Seq(Line)
        <4> DEFINE r == Answers(read)
                   d == p.data
        <4>1. r \in Seq(Line) /\ d \in Line /\ now = Append(r, d)
          BY <1>2, <1>8, <1>10, Zenon
        <4> HIDE DEF r, d, now
        <4> QED BY <4>1
      <3>2. now \o <<>> = now
        BY <3>1, ConcatEmptySeq
      <3> QED BY <1>3, <2>2, <3>2, Zenon
    <2>4. Waiting'
      BY <1>4, <1>10, <2>1, <2>3, Zenon DEF Waiting
    <2>5. answer' = <<x, y>>
      BY <1>10
    <2>6. x # NoWeapon /\ y = IF HasMark(x.script) THEN NoWeapon
                              ELSE [x EXCEPT !.name = AsChars(@), !.image = AsChars(@)]
      BY <1>5, <2>1, <2>2, AnswerRead, Zenon
    <2>7. answer'[1] = x /\ answer'[2] = y
      <3> HIDE DEF x, y
      <3> QED BY <2>5
    <2>8. ReadBack'
      BY <2>6, <2>7, Zenon DEF ReadBack
    <2> QED BY <2>4, <2>8
  <1> QED BY <1>1, <1>9, <1>10, Zenon

\* At the start nobody asks and nothing is kept.
LEMMA InitBack == Init => BInv
  <1> SUFFICES ASSUME Init PROVE BInv
    OBVIOUS
  <1>1. /\ sent = <<>> /\ handled = 0 /\ weapons = <<>> /\ toClient = <<>> /\ read = <<>>
        /\ asked = <<>> /\ answer = <<>>
    BY Zenon DEF Init
  <1>2. Len(<<>>) = 0 /\ 1..0 = {} /\ (0 + 1)..0 = {}
    BY EmptySeq
  <1>3. \A name : Under(weapons, name) = {} /\ Adds(sent, handled, name) = {}
    BY <1>1, <1>2, Zenon DEF Under, Adds
  <1>4. KeepInv
    BY <1>3, Zenon DEF KeepInv, KeepsLast
  <1>5. Asking = {}
    BY <1>1, <1>2, Zenon DEF Asking
  <1>6. Answers(FlattenSeq(toClient)) = Answers(read)
    BY <1>1, FlattenEmpty, Zenon
  <1>7. AskInv
    BY <1>1, <1>5, <1>6, Zenon DEF AskInv, Waiting
  <1>8. ReadBack
    BY <1>1, Zenon DEF ReadBack
  <1> QED BY <1>4, <1>7, <1>8, Zenon DEF BInv

\* What is said of a question and its answer always holds, if nothing looks like an answer
\* but an answer.
THEOREM BackInvariance == ASSUME AnswersWhenAsked PROVE Spec => [](WInv /\ BInv)
  <1>1. ASSUME WInv, BInv, [Next]_vars PROVE BInv'
    <2>1. CASE AddWeapon
      BY <1>1, <2>1, AddBack
    <2>2. CASE GetWeapon
      BY <1>1, <2>2, GetBack
    <2>3. CASE Fetch
      BY <1>1, <2>3, FetchBack
    <2>4. CASE Pop
      BY <1>1, <2>4, PopBack
    <2>5. CASE ServerHandle
      BY <1>1, <2>5, HandleBack
    <2>6. CASE ServerTalk
      BY <1>1, <2>6, TalkBack
    <2>7. CASE UNCHANGED vars
      BY <1>1, <2>7, StutterBack
    <2> QED BY <1>1, <2>1, <2>2, <2>3, <2>4, <2>5, <2>6, <2>7, Zenon DEF Next
  <1> QED BY <1>1, InitBack, Invariance, PTL DEF Spec

\* A weapon that is asked for is the one that was added last under its name, with the lines
\* of its script, for every name, image and script that is UTF-8, any number of calls and
\* whatever the server sends in between that is not an answer; or, if the script has a byte
\* that stands for a line's end, it is an error.  However long a frame is compressed to: from
\* the first that is longer than its length field can tell, the server gets no further, so
\* that nothing asked for behind it has an answer.
THEOREM ReadsBack == ASSUME AnswersWhenAsked PROVE Spec => []ReadBack
  <1>1. WInv /\ BInv => ReadBack
    BY Zenon DEF BInv
  <1> QED BY <1>1, BackInvariance, PTL
===============================================================================
