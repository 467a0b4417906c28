---------------------------- MODULE HeaderV6Proofs ----------------------------
(***************************************************************************)
(* What holds of v6 headers for every format, however long, and every size *)
(* of a byte: fields stay inside the header, in a format with each letter  *)
(* in one piece they stay out of each other's way, a number is read as it  *)
(* was written if it fits its field, and so the frames are read that were  *)
(* sent, up to the first that is too long for its length field.            *)
(***************************************************************************)
EXTENDS HeaderV6, FiniteSetTheorems, DataInduction

\* A letter that occurs has a first position, and its positions are finitely many.
LEMMA FirstPosition ==
  ASSUME format \in Seq(STRING), NEW l, Positions(l) # {}
  PROVE  /\ Index(l) \in Positions(l)
         /\ \A j \in Positions(l) : Index(l) <= j
         /\ Positions(l) \subseteq 1..Len(format)
         /\ Index(l) \in Nat \ {0} /\ Len(format) \in Nat
         /\ IsFiniteSet(Positions(l)) /\ Count(l) \in Nat
  <1>1. Len(format) \in Nat /\ Positions(l) \subseteq 1..Len(format)
    BY DEF Positions
  <1>2. \E i \in Positions(l) : \A j \in Positions(l) : i <= j
    BY <1>1, LeastElement, SMT
  <1>3. /\ Index(l) \in Positions(l)
        /\ \A j \in Positions(l) : Index(l) <= j
    BY <1>2 DEF Index
  <1>4. IsFiniteSet(1..Len(format))
    BY <1>1, FS_Interval, SMT
  <1>5. IsFiniteSet(Positions(l)) /\ Count(l) \in Nat
    BY <1>1, <1>4, FS_Subset, FS_CardinalityType DEF Count
  <1> QED BY <1>1, <1>3, <1>5, SMT

\* From its first position on there is room for all of a letter's bytes.
LEMMA FieldInside ==
  ASSUME format \in Seq(STRING), NEW l, Positions(l) # {}
  PROVE  Field(l) \subseteq 1..Len(format)
  <1>1. Positions(l) \subseteq Index(l)..Len(format)
    BY FirstPosition, SMT
  <1>2. /\ IsFiniteSet(Index(l)..Len(format))
        /\ Cardinality(Index(l)..Len(format)) = Len(format) - Index(l) + 1
    BY FirstPosition, FS_Interval, SMT
  <1>3. Count(l) <= Len(format) - Index(l) + 1
    BY <1>1, <1>2, FS_Subset DEF Count
  <1> QED BY <1>3, FirstPosition, SMT DEF Field

\* In one piece, a letter's bytes are the ones that are taken for them.
LEMMA FieldIsPositions ==
  ASSUME format \in Seq(STRING), NEW l \in Letters, Positions(l) # {}, InOnePiece
  PROVE  Field(l) \subseteq Positions(l)
  <1> SUFFICES ASSUME NEW p \in Field(l), p \notin Positions(l) PROVE FALSE
    OBVIOUS
  <1>1. /\ p \in 1..Len(format) /\ p \in Nat
        /\ p >= Index(l) /\ p < Index(l) + Count(l)
    BY FieldInside, FirstPosition, SMT DEF Field
  <1>2. \A j \in Positions(l) : j < p
    <2> SUFFICES ASSUME NEW j \in Positions(l), j >= p PROVE FALSE
      BY <1>1, FirstPosition, SMT
    <2>1. /\ j \in 1..Len(format) /\ format[j] = l
          /\ Index(l) \in 1..Len(format) /\ format[Index(l)] = l
      BY FirstPosition DEF Positions
    <2>2. p \in Index(l)..j
      BY <1>1, <2>1, FirstPosition, SMT
    <2>3. format[p] = l
      BY <2>1, <2>2 DEF InOnePiece
    <2> QED BY <1>1, <2>3 DEF Positions
  <1>3. Positions(l) \subseteq Index(l)..(p - 1)
    BY <1>1, <1>2, FirstPosition, SMT
  <1>4. /\ IsFiniteSet(Index(l)..(p - 1))
        /\ Cardinality(Index(l)..(p - 1)) <= p - Index(l)
    <2>1. Index(l) \in Int /\ p - 1 \in Int /\ Index(l) <= p /\ p \in Int
      BY <1>1, FirstPosition, SMT
    <2>2. /\ IsFiniteSet(Index(l)..(p - 1))
          /\ Cardinality(Index(l)..(p - 1))
               = IF Index(l) > p - 1 THEN 0 ELSE p - 1 - Index(l) + 1
      BY <2>1, FS_Interval
    <2> QED BY <2>1, <2>2, SMT
  <1>5. Cardinality(Positions(l)) <= Cardinality(Index(l)..(p - 1))
    BY <1>3, <1>4, FS_Subset
  <1>6. Cardinality(Index(l)..(p - 1)) \in Nat
    BY <1>4, FS_CardinalityType
  <1> QED BY <1>1, <1>4, <1>5, <1>6, FirstPosition, SMT DEF Count

\* In a header made for such a format each field is found as it was put there:
\* what is read is the number of the bytes of what was written, cut to the field.
THEOREM FieldsSurvive ==
  ASSUME format \in Seq(STRING), InOnePiece, \A l \in Letters : Positions(l) # {},
         NEW values
  PROVE  \A l \in Letters :
           Value(Header(values), l) = Number([i \in 1..Count(l) |-> Bytes(values[l], Count(l))[i]])
  <1> SUFFICES ASSUME NEW l \in Letters
               PROVE  [i \in 1..Count(l) |-> Header(values)[Index(l) + i - 1]]
                        = [i \in 1..Count(l) |-> Bytes(values[l], Count(l))[i]]
    BY DEF Value
  <1> SUFFICES ASSUME NEW i \in 1..Count(l)
               PROVE  Header(values)[Index(l) + i - 1] = Bytes(values[l], Count(l))[i]
    OBVIOUS
  <1> DEFINE p == Index(l) + i - 1
             zero == [k \in 1..Len(format) |-> 0]
             putE == Put(zero, "E", values["E"])
             putI == Put(putE, "I", values["I"])
             putL == Put(putI, "L", values["L"])
             putT == Put(putL, "T", values["T"])
  <1>1. p \in Field(l) /\ p - Index(l) + 1 = i
    BY FirstPosition, SMT DEF Field
  <1>2. p \in 1..Len(format)
    BY <1>1, FieldInside
  <1>3. \A m \in Letters : m # l => p \notin Field(m)
    <2>1. p \in Positions(l)
      BY <1>1, FieldIsPositions
    <2>2. \A m \in Letters : Field(m) \subseteq Positions(m)
      BY FieldIsPositions
    <2> QED BY <2>1, <2>2 DEF Positions
  <1>4. ASSUME NEW h, NEW m \in Letters, NEW v, DOMAIN h = 1..Len(format)
        PROVE  /\ DOMAIN Put(h, m, v) = 1..Len(format)
               /\ m # l => Put(h, m, v)[p] = h[p]
               /\ m = l => Put(h, m, v)[p] = Bytes(v, Count(l))[i]
    BY <1>1, <1>2, <1>3, <1>4 DEF Put
  <1>5. ASSUME NEW h, NEW m \in Letters, DOMAIN h = 1..Len(format)
        PROVE  /\ DOMAIN Put(h, m, values[m]) = 1..Len(format)
               /\ Put(h, m, values[m])[p]
                    = IF m = l THEN Bytes(values[l], Count(l))[i] ELSE h[p]
    <2>1. CASE m = l
      BY <1>4, <1>5, <2>1
    <2>2. CASE m # l
      BY <1>4, <1>5, <2>2
    <2> QED BY <2>1, <2>2
  <1>6. /\ "E" \in Letters /\ "I" \in Letters /\ "L" \in Letters /\ "T" \in Letters
        /\ l \in {"E", "I", "L", "T"}
    BY DEF Letters
  <1>7. DOMAIN zero = 1..Len(format)
    OBVIOUS
  <1> DEFINE want == Bytes(values[l], Count(l))[i]
  <1>8. /\ DOMAIN putE = 1..Len(format) /\ putE[p] = IF "E" = l THEN want ELSE zero[p]
    BY <1>5, <1>6, <1>7
  <1> HIDE DEF zero, putE
  <1>9. /\ DOMAIN putI = 1..Len(format) /\ putI[p] = IF "I" = l THEN want ELSE putE[p]
    BY <1>5, <1>6, <1>8
  <1> HIDE DEF putI
  <1>10. /\ DOMAIN putL = 1..Len(format) /\ putL[p] = IF "L" = l THEN want ELSE putI[p]
    BY <1>5, <1>6, <1>9
  <1> HIDE DEF putL
  <1>11. putT[p] = IF "T" = l THEN want ELSE putL[p]
    BY <1>5, <1>6, <1>10
  <1> HIDE DEF putT, want
  <1>12. putT[p] = want
    BY <1>6, <1>8, <1>9, <1>10, <1>11
  <1> QED BY <1>12 DEF Header, putT, putL, putI, putE, zero, want

-----------------------------------------------------------------------------
\* A client that runs has a format in which every letter occurs, and goes on
\* running, since there is room for every field.
RunInv ==
  /\ format \in Formats
  /\ client \in {"config", "running", "refused"}
  /\ client = "running" => \A l \in Letters : Positions(l) # {}

\* No step but reading the configuration looks at more than the fields.
LEMMA RunStep == RunInv /\ [Next]_vars => RunInv'
  <1> SUFFICES ASSUME RunInv, [Next]_vars PROVE RunInv'
    OBVIOUS
  <1> USE DEF RunInv
  <1>1. ASSUME format' = format PROVE \A l : Positions(l)' = Positions(l)
    BY <1>1 DEF Positions
  <1>2. CASE Configure
    BY <1>1, <1>2 DEF Configure
  <1>3. CASE Send
    <2>1. client = "running" /\ format' = format
      BY <1>3 DEF Send
    <2>2. FieldsInside
      BY <2>1, FieldInside, HeaderOK DEF FieldsInside, HeaderOK
    <2>3. client' = client
      BY <1>3, <2>2 DEF Send
    <2> QED BY <1>1, <2>1, <2>3
  <1>4. CASE Read
    BY <1>1, <1>4 DEF Read
  <1>5. CASE UNCHANGED vars
    BY <1>1, <1>5 DEF vars
  <1> QED BY <1>2, <1>3, <1>4, <1>5 DEF Next

\* Whatever string is accepted, making a header does not panic.
THEOREM HeadersCanBeMade == Spec => []NeverPanics
  <1>1. Init => RunInv
    BY DEF Init, RunInv
  <1>2. RunInv => NeverPanics
    BY DEF RunInv, NeverPanics
  <1> QED BY <1>1, <1>2, RunStep, PTL DEF Spec

-----------------------------------------------------------------------------
(* Numbers and their bytes *)

\* A byte has more than two values.
LEMMA BaseFacts == Base \in Nat /\ Base > 2
  BY HeaderOK DEF HeaderOK

\* What a byte is added to in a number.
LEMMA NextByte == \A a, c \in Nat : a * Base + c \in Nat
  BY BaseFacts

\* What division and remainder are, of any number.
LEMMA Division ==
  ASSUME NEW v \in Nat
  PROVE  /\ v \div Base \in Nat /\ v % Base \in Byte
         /\ (v \div Base) * Base + (v % Base) = v
         /\ v < Base => v \div Base = 0 /\ v % Base = v
  BY BaseFacts DEF Byte

\* Shifting by one byte more divides once more.
LEMMA ShiftStep ==
  ASSUME NEW v \in Nat
  PROVE  /\ Shift(v, 0) = v
         /\ \A n \in Nat : Shift(v, n) \in Nat /\ Shift(v, n + 1) = Shift(v, n) \div Base
  <1> DEFINE body(g) == [k \in Nat |-> IF k = 0 THEN v ELSE g[k - 1] \div Base]
             s == CHOOSE f : f = body(f)
             F == [g \in [Nat -> Nat] |-> body(g)]
             size == [k \in Nat |-> k]
             P == Nat
             V == Nat
  <1>1. ASSUME NEW g \in [Nat -> Nat] PROVE body(g) \in [Nat -> Nat]
    <2>1. ASSUME NEW k \in Nat PROVE body(g)[k] \in Nat
      <3>1. CASE k = 0
        BY <3>1
      <3>2. CASE k # 0
        <4>1. k - 1 \in Nat /\ g[k - 1] \in Nat
          BY <3>2
        <4>2. g[k - 1] \div Base \in Nat
          BY <4>1, Division
        <4> QED BY <3>2, <4>2
      <3> QED BY <3>1, <3>2
    <2> QED BY <2>1
  <1>2. F \in [[Nat -> Nat] -> [Nat -> Nat]]
    <2> HIDE DEF body
    <2> QED BY <1>1
  <1>3. ASSUME NEW g \in [Nat -> Nat], NEW h \in [Nat -> Nat], NEW k \in Nat,
               \A j \in Nat : size[j] < size[k] => g[j] = h[j]
        PROVE  F[g][k] = F[h][k]
    <2>1. k # 0 => g[k - 1] = h[k - 1]
      BY <1>3
    <2>2. body(g)[k] = body(h)[k]
      BY <2>1, Zenon
    <2>3. F[g] = body(g) /\ F[h] = body(h)
      BY Zenon
    <2> HIDE DEF F, body
    <2> QED BY <2>2, <2>3, Zenon
  <1>4. [Nat -> Nat] # {} /\ size \in [Nat -> Nat]
    <2>1. [k \in Nat |-> 0] \in [Nat -> Nat]
      OBVIOUS
    <2> QED BY <2>1
  <1>5. Recurses(F, P, V, size)
    <2> HIDE DEF F, size
    <2> QED BY <1>2, <1>3, <1>4, Zenon DEF Recurses
  <1>6. \E f : f = body(f)
    <2>1. \E f : f \in [P -> V] /\ f = F[f]
      <3> HIDE DEF F, size, P, V, body, s
      <3> QED BY <1>5, Recursion
    <2> HIDE DEF body
    <2> QED BY <2>1
  <1>7. s = body(s)
    <2> HIDE DEF body
    <2> QED BY <1>6, Zenon
  <1>8. \A n : Shift(v, n) = s[n]
    BY Zenon DEF Shift
  <1> HIDE DEF s
  <1>9. s[0] = v /\ \A n \in Nat : s[n + 1] = s[n] \div Base
    <2>1. \A n \in Nat : n + 1 \in Nat /\ n + 1 # 0 /\ (n + 1) - 1 = n
      OBVIOUS
    <2>2. \A k \in Nat : s[k] = IF k = 0 THEN v ELSE s[k - 1] \div Base
      BY <1>7, Zenon
    <2>3. 0 \in Nat
      OBVIOUS
    <2>4. ASSUME NEW n \in Nat PROVE s[n + 1] = s[n] \div Base
      BY <2>1, <2>2, Zenon
    <2> QED BY <2>2, <2>3, <2>4, Zenon
  <1>10. \A n \in Nat : s[n] \in Nat
    <2> DEFINE G == {n \in Nat : s[n] \in Nat}
    <2>1. 0 \in G
      BY <1>9
    <2>2. ASSUME NEW n \in Nat, n \in G PROVE n + 1 \in G
      BY <1>9, <2>2, Division
    <2>3. Nat \subseteq G
      <3> HIDE DEF G
      <3> QED BY <2>1, <2>2, NaturalInduction, Zenon
    <2> QED BY <2>3
  <1> QED BY <1>8, <1>9, <1>10, Zenon

\* What is below a byte's values is nothing after any shift.
LEMMA ShiftSmall ==
  ASSUME NEW v \in Nat, v < Base
  PROVE  \A n \in Nat \ {0} : Shift(v, n) = 0
  <1> DEFINE G == {n \in Nat : Shift(v, n + 1) = 0}
  <1>1. 0 \in G
    <2>1. 0 \in Nat /\ Shift(v, 0 + 1) = v \div Base
      BY ShiftStep
    <2> QED BY <2>1, Division
  <1>2. ASSUME NEW n \in Nat, n \in G PROVE n + 1 \in G
    <2>1. Shift(v, n + 1) = 0 /\ n + 1 \in Nat
      BY <1>2
    <2>2. Shift(v, (n + 1) + 1) = 0 \div Base
      BY <2>1, ShiftStep
    <2>3. 0 \div Base = 0
      BY Division, BaseFacts
    <2> QED BY <2>1, <2>2, <2>3
  <1>3. Nat \subseteq G
    <2> HIDE DEF G
    <2> QED BY <1>1, <1>2, NaturalInduction, Zenon
  <1> SUFFICES ASSUME NEW n \in Nat \ {0} PROVE Shift(v, n) = 0
    OBVIOUS
  <1>4. n - 1 \in Nat /\ (n - 1) + 1 = n
    OBVIOUS
  <1>5. n - 1 \in G
    <2> HIDE DEF G
    <2> QED BY <1>3, <1>4
  <1> QED BY <1>4, <1>5, Zenon

\* f is what the first n bytes make, one after the other.
Adds(f, b, n) ==
  f \in [0..n -> Nat] /\ f[0] = 0 /\ \A i \in 1..n : f[i] = f[i - 1] * Base + b[i]

\* A sequence of bytes makes a number, from one byte to the next.
LEMMA NumberText ==
  ASSUME NEW n \in Nat, NEW b, Len(b) = n, \A i \in 1..n : b[i] \in Nat
  PROVE  \E f : Adds(f, b, n) /\ Number(b) = f[n]
  <1> DEFINE body(g) == [k \in 0..n |-> IF k = 0 THEN 0 ELSE g[k - 1] * Base + b[k]]
             F == [g \in [0..n -> Nat] |-> body(g)]
             size == [k \in 0..n |-> k]
             P == 0..n
             V == Nat
             s == CHOOSE f : f = body(f)
  <1>1. ASSUME NEW g \in [0..n -> Nat] PROVE body(g) \in [0..n -> Nat]
    <2>1. ASSUME NEW k \in 0..n PROVE (IF k = 0 THEN 0 ELSE g[k - 1] * Base + b[k]) \in Nat
      <3>1. CASE k = 0
        BY <3>1
      <3>2. CASE k # 0
        <4>1. k - 1 \in 0..n /\ k \in 1..n
          BY <3>2
        <4>2. g[k - 1] \in Nat /\ b[k] \in Nat
          BY <4>1
        <4>3. g[k - 1] * Base + b[k] \in Nat
          BY <4>2, NextByte, Zenon
        <4> QED BY <3>2, <4>3
      <3> QED BY <3>1, <3>2
    <2> QED BY <2>1, Zenon
  <1>2. F \in [[0..n -> Nat] -> [0..n -> Nat]]
    <2> HIDE DEF body
    <2> QED BY <1>1
  <1>3. ASSUME NEW g \in [0..n -> Nat], NEW h \in [0..n -> Nat], NEW k \in 0..n,
               \A j \in 0..n : size[j] < size[k] => g[j] = h[j]
        PROVE  F[g][k] = F[h][k]
    <2>1. k # 0 => g[k - 1] = h[k - 1]
      BY <1>3
    <2>2. body(g)[k] = body(h)[k]
      BY <2>1, Zenon
    <2>3. F[g] = body(g) /\ F[h] = body(h)
      BY Zenon
    <2> HIDE DEF F, body
    <2> QED BY <2>2, <2>3, Zenon
  <1>4. [0..n -> Nat] # {} /\ size \in [0..n -> Nat]
    <2>1. [k \in 0..n |-> 0] \in [0..n -> Nat]
      OBVIOUS
    <2>2. \A k \in 0..n : k \in Nat
      OBVIOUS
    <2>3. size \in [0..n -> Nat]
      BY <2>2, Zenon
    <2> QED BY <2>1, <2>3, Zenon
  <1>5. Recurses(F, P, V, size)
    <2> HIDE DEF F, size
    <2> QED BY <1>2, <1>3, <1>4, Zenon DEF Recurses
  <1>6. \E f : f = body(f)
    <2>1. \E f : f \in [P -> V] /\ f = F[f]
      <3> HIDE DEF F, size, P, V, body, s
      <3> QED BY <1>5, Recursion
    <2> HIDE DEF body
    <2> QED BY <2>1
  <1>7. s = body(s)
    <2> HIDE DEF body
    <2> QED BY <1>6, Zenon
  <1>8. Number(b) = s[n]
    BY Zenon DEF Number
  <1> HIDE DEF s
  <1>9. \A k \in 0..n : s[k] = IF k = 0 THEN 0 ELSE s[k - 1] * Base + b[k]
    BY <1>7, Zenon
  <1>10. s[0] = 0 /\ \A i \in 1..n : s[i] = s[i - 1] * Base + b[i]
    BY <1>9
  <1>11. \A k \in 0..n : s[k] \in Nat
    <2> DEFINE G == {k \in Nat : k <= n => s[k] \in Nat}
    <2>1. 0 \in G
      BY <1>10
    <2>2. ASSUME NEW k \in Nat, k \in G PROVE k + 1 \in G
      <3>1. ASSUME k + 1 <= n PROVE s[k + 1] \in Nat
        <4>1. k <= n /\ k + 1 \in 1..n /\ (k + 1) - 1 = k
          BY <3>1
        <4>2. s[k] \in Nat /\ b[k + 1] \in Nat
          BY <2>2, <4>1
        <4>3. s[k + 1] = s[k] * Base + b[k + 1]
          BY <1>10, <4>1, Zenon
        <4> QED BY <4>2, <4>3, NextByte, Zenon
      <3> QED BY <3>1
    <2>3. Nat \subseteq G
      <3> HIDE DEF G
      <3> QED BY <2>1, <2>2, NaturalInduction, Zenon
    <2> QED BY <2>3
  <1>12. s \in [0..n -> Nat]
    <2>1. s = [k \in 0..n |-> s[k]]
      BY <1>7, Zenon
    <2> QED BY <1>11, <2>1
  <1> QED BY <1>8, <1>10, <1>12, Zenon DEF Adds

\* A number whose bytes fit is read as it was written.
LEMMA RoundTrip ==
  ASSUME NEW v \in Nat, NEW n \in Nat, Shift(v, n) = 0
  PROVE  Number([i \in 1..n |-> Bytes(v, n)[i]]) = v
  <1> DEFINE b == [i \in 1..n |-> Bytes(v, n)[i]]
  <1>1. Len(b) = n
    OBVIOUS
  <1>2. \A i \in 1..n : b[i] = Shift(v, n - i) % Base
    BY DEF Bytes
  <1>3. \A i \in 1..n : n - i \in Nat /\ b[i] \in Nat
    <2>1. \A i \in 1..n : n - i \in Nat
      OBVIOUS
    <2>2. \A i \in 1..n : Shift(v, n - i) \in Nat
      BY <2>1, ShiftStep
    <2>3. \A i \in 1..n : Shift(v, n - i) % Base \in Nat
      BY <2>2, BaseFacts
    <2> QED BY <1>2, <2>1, <2>3, Zenon
  <1> HIDE DEF b
  <1>4a. \A i \in 1..n : b[i] \in Nat
    BY <1>3
  <1>4b. PICK f : Adds(f, b, n) /\ Number(b) = f[n]
    BY <1>1, <1>4a, NumberText, Zenon
  <1>4. /\ f \in [0..n -> Nat] /\ Number(b) = f[n] /\ f[0] = 0
        /\ \A i \in 1..n : f[i] = f[i - 1] * Base + b[i]
    BY <1>4b, Zenon DEF Adds
  <1> DEFINE G == {k \in Nat : k <= n => f[k] = Shift(v, n - k)}
  <1>5. 0 \in G
    BY <1>4
  <1>6. ASSUME NEW k \in Nat, k \in G PROVE k + 1 \in G
    <2>1. ASSUME k + 1 <= n PROVE f[k + 1] = Shift(v, n - (k + 1))
      <3> DEFINE m == n - (k + 1)
      <3>1. k <= n /\ k + 1 \in 1..n /\ (k + 1) - 1 = k /\ m \in Nat /\ m + 1 = n - k
        BY <2>1
      <3>2. f[k] = Shift(v, m + 1) /\ f[k + 1] = f[k] * Base + b[k + 1]
        BY <1>4, <1>6, <3>1
      <3> HIDE DEF m
      <3>3. b[k + 1] = Shift(v, m) % Base
        BY <1>2, <3>1 DEF m
      <3>4. Shift(v, m) \in Nat /\ Shift(v, m + 1) = Shift(v, m) \div Base
        BY <3>1, ShiftStep
      <3> DEFINE w == Shift(v, m)
      <3>5. (w \div Base) * Base + (w % Base) = w
        BY <3>4, Division
      <3> QED BY <3>2, <3>3, <3>4, <3>5, Zenon DEF m
    <2> QED BY <2>1
  <1>7. Nat \subseteq G
    <2> HIDE DEF G
    <2> QED BY <1>5, <1>6, NaturalInduction, Zenon
  <1>8. f[n] = Shift(v, 0)
    <2>1. n \in G
      <3> HIDE DEF G
      <3> QED BY <1>7
    <2>2. f[n] = Shift(v, n - n) /\ n - n = 0
      BY <2>1
    <2> QED BY <2>2
  <1> QED BY <1>4, <1>8, ShiftStep, Zenon DEF b

-----------------------------------------------------------------------------
(* What is on the wire *)

\* The headers depend on the format alone.
LEMMA SameFormat ==
  ASSUME format' = format
  PROVE  /\ \A l : Positions(l)' = Positions(l) /\ Count(l)' = Count(l)
         /\ \A values : Header(values)' = Header(values)
         /\ InOnePiece' = InOnePiece
  <1>1. ASSUME NEW l PROVE Positions(l)' = Positions(l)
    BY DEF Positions
  <1>2. ASSUME NEW l PROVE Count(l)' = Count(l)
    BY <1>1 DEF Count
  <1>3. ASSUME NEW l PROVE Index(l)' = Index(l)
    BY <1>1, SMT DEF Index
  <1>4. InOnePiece' = InOnePiece
    BY DEF InOnePiece
  <1>5. ASSUME NEW values PROVE Header(values)' = Header(values)
    BY <1>1, <1>2, <1>3 DEF Header, Put, Field
  <1> QED BY <1>1, <1>2, <1>4, <1>5, Zenon

\* The values of a header are numbers.
Numbers(values) == \A l \in Letters : values[l] \in Nat

\* A format that a client runs with is a string in which every letter occurs.
Accepted == format \in Seq(STRING) /\ \A l \in Letters : Positions(l) # {}

\* What is copied into a header are bytes, and a header is as long as the format.
LEMMA HeaderType ==
  ASSUME Accepted, NEW values, Numbers(values)
  PROVE  /\ Header(values) \in Seq(Byte) /\ Len(Header(values)) = Len(format)
         /\ Len(format) \in Nat \ {0}
  <1> USE DEF Accepted
  <1> DEFINE H == [1..Len(format) -> Byte]
  <1>1. /\ Len(format) \in Nat
        /\ \A l \in Letters : Index(l) \in Nat /\ Index(l) >= 1 /\ Count(l) \in Nat
    BY FirstPosition
  <1>2. ASSUME NEW v \in Nat, NEW n \in Nat, NEW i \in 1..n PROVE Bytes(v, n)[i] \in Byte
    <2>1. n - i \in Nat
      OBVIOUS
    <2>2. Shift(v, n - i) % Base \in Byte
      BY <2>1, ShiftStep, Division
    <2> QED BY <2>2 DEF Bytes
  <1>3. ASSUME NEW h \in H, NEW l \in Letters, NEW v \in Nat PROVE Put(h, l, v) \in H
    <2>1. ASSUME NEW i \in 1..Len(format), i \in Field(l)
          PROVE  Bytes(v, Count(l))[i - Index(l) + 1] \in Byte
      <3>1. i - Index(l) + 1 \in 1..Count(l)
        BY <1>1, <2>1, SMT DEF Field
      <3> QED BY <1>1, <1>2, <3>1
    <2> QED BY <2>1 DEF Put
  <1>4. [i \in 1..Len(format) |-> 0] \in H
    BY BaseFacts DEF Byte
  <1>5. /\ "E" \in Letters /\ "I" \in Letters /\ "L" \in Letters /\ "T" \in Letters
        /\ values["E"] \in Nat /\ values["I"] \in Nat /\ values["L"] \in Nat
        /\ values["T"] \in Nat
    BY DEF Letters, Numbers
  <1>6. Header(values) \in H
    <2> HIDE DEF H
    <2> QED BY <1>3, <1>4, <1>5, Zenon DEF Header
  <1>7. Header(values) \in Seq(Byte)
    BY <1>1, <1>6, SeqDef
  <1>8. Len(Header(values)) = Len(format)
    BY <1>1, <1>6, <1>7, LenProperties
  <1>9. Len(format) # 0
    <2>1. Positions("E") # {} /\ Positions("E") \subseteq 1..Len(format)
      BY <1>5, FirstPosition
    <2> QED BY <1>1, <2>1
  <1> QED BY <1>1, <1>7, <1>8, <1>9

\* What is read in a field is a number.
LEMMA ValueType ==
  ASSUME Accepted, NEW bytes \in Seq(Byte), Len(bytes) >= Len(format), NEW l \in Letters
  PROVE  Value(bytes, l) \in Nat
  <1> USE DEF Accepted
  <1> DEFINE n == Count(l)
             b == [i \in 1..n |-> bytes[Index(l) + i - 1]]
  <1>1. /\ n \in Nat /\ Index(l) \in Nat /\ Len(format) \in Nat /\ Len(bytes) \in Nat
        /\ Field(l) \subseteq 1..Len(format)
    BY FirstPosition, FieldInside
  <1>2. ASSUME NEW i \in 1..n PROVE b[i] \in Nat
    <2>1. Index(l) + i - 1 \in Field(l)
      BY <1>1, SMT DEF Field
    <2>2. Index(l) + i - 1 \in 1..Len(bytes)
      BY <1>1, <2>1
    <2>3. bytes[Index(l) + i - 1] \in Byte
      BY <2>2, ElementOfSeq
    <2> QED BY <2>3, BaseFacts DEF Byte
  <1>3. Len(b) = n
    BY <1>1
  <1> HIDE DEF n, b
  <1>4. PICK f : Adds(f, b, n) /\ Number(b) = f[n]
    BY <1>1, <1>2, <1>3, NumberText, Zenon
  <1>5. f[n] \in Nat
    BY <1>1, <1>4 DEF Adds
  <1> QED BY <1>4, <1>5, Zenon DEF Value, b, n

\* The same is read when there is more behind the header.
LEMMA ValueInside ==
  ASSUME Accepted, NEW h \in Seq(Byte), Len(h) = Len(format), NEW more \in Seq(Byte),
         NEW l \in Letters
  PROVE  Value(h \o more, l) = Value(h, l)
  <1> USE DEF Accepted
  <1>1. /\ Count(l) \in Nat /\ Index(l) \in Nat /\ Len(format) \in Nat
        /\ Field(l) \subseteq 1..Len(format)
    BY FirstPosition, FieldInside
  <1>2. ASSUME NEW i \in 1..Count(l) PROVE (h \o more)[Index(l) + i - 1] = h[Index(l) + i - 1]
    <2>1. Index(l) + i - 1 \in Field(l)
      BY <1>1, SMT DEF Field
    <2>2. Index(l) + i - 1 \in 1..Len(h)
      BY <1>1, <2>1
    <2> QED BY <2>2, ConcatProperties
  <1>3. [i \in 1..Count(l) |-> (h \o more)[Index(l) + i - 1]]
          = [i \in 1..Count(l) |-> h[Index(l) + i - 1]]
    BY <1>2
  <1> QED BY <1>3, Zenon DEF Value

\* What one frame is on the wire.
Text(frame) == Header(Values(frame)) \o frame.body

\* What a frame holds besides data fits a byte each.
LEMMA FrameBytes ==
  ASSUME NEW frame \in FrameTypes
  PROVE  /\ frame.compression \in Nat /\ frame.compression < Base
         /\ frame.checksum \in Nat /\ frame.checksum < Base
         /\ frame.id \in Nat /\ frame.id < Base
         /\ frame.body \in Seq(Byte)
  <1>1. /\ frame.compression \in Compressions /\ frame.checksum \in Byte
        /\ frame.id \in Ids /\ frame.body \in Seq(Byte)
    BY Zenon DEF FrameTypes
  <1>2. \A b \in Byte : b \in Nat /\ b < Base
    BY BaseFacts DEF Byte
  <1>3. \A c \in Compressions : c \in Nat /\ c < Base
    BY BaseFacts DEF Compressions
  <1>4. Ids \subseteq Byte
    BY HeaderOK, Zenon DEF HeaderOK
  <1> QED BY <1>1, <1>2, <1>3, <1>4, Zenon

\* A frame on the wire is as long as its length says,
LEMMA TextType ==
  ASSUME Accepted, NEW frame \in FrameTypes
  PROVE  /\ Numbers(Values(frame)) /\ Length(frame) \in Nat
         /\ Text(frame) \in Seq(Byte) /\ Len(Text(frame)) = Length(frame)
         /\ Length(frame) >= Len(format)
         /\ SubSeq(Text(frame), Len(format) + 1, Length(frame)) = frame.body
  <1>1. /\ frame.compression \in Nat /\ frame.checksum \in Nat /\ frame.id \in Nat
        /\ frame.body \in Seq(Byte) /\ Len(frame.body) \in Nat
    BY FrameBytes, LenProperties
  <1>2. Len(format) \in Nat
    BY FirstPosition DEF Accepted, Letters
  <1>3. Length(frame) \in Nat /\ Length(frame) = Len(format) + Len(frame.body)
    BY <1>1, <1>2 DEF Length
  <1>4. Numbers(Values(frame))
    BY <1>1, <1>3 DEF Numbers, Values, Letters
  <1> DEFINE h == Header(Values(frame))
  <1>5. h \in Seq(Byte) /\ Len(h) = Len(format)
    BY <1>4, HeaderType
  <1> HIDE DEF h
  <1>6. /\ h \o frame.body \in Seq(Byte)
        /\ Len(h \o frame.body) = Len(h) + Len(frame.body)
    BY <1>1, <1>5, ConcatProperties
  <1>7. SubSeq(h \o frame.body, Len(h) + 1, Len(h) + Len(frame.body)) = frame.body
    BY <1>1, <1>5
  <1> QED BY <1>1, <1>2, <1>3, <1>4, <1>5, <1>6, <1>7 DEF Text, h

\* and when the letters are in one piece its fields give what was put in, the
\* length only if it fits.
LEMMA TextValues ==
  ASSUME Accepted, InOnePiece, NEW frame \in FrameTypes, NEW more \in Seq(Byte)
  PROVE  /\ Value(Text(frame) \o more, "E") = frame.compression
         /\ Value(Text(frame) \o more, "I") = frame.checksum
         /\ Value(Text(frame) \o more, "T") = frame.id
         /\ Shift(Length(frame), Count("L")) = 0
              => Value(Text(frame) \o more, "L") = Length(frame)
  <1> DEFINE v == Values(frame)
             h == Header(v)
  <1>1. /\ h \in Seq(Byte) /\ Len(h) = Len(format) /\ Numbers(v)
        /\ frame.body \in Seq(Byte)
    BY TextType, HeaderType, Zenon DEF FrameTypes
  <1> HIDE DEF v
  <1>2. Text(frame) \o more = h \o (frame.body \o more) /\ frame.body \o more \in Seq(Byte)
    <2> DEFINE body == frame.body
    <2>0. body \in Seq(Byte) /\ h \in Seq(Byte)
      BY <1>1, Zenon
    <2> HIDE DEF h, body
    <2>1. (h \o body) \o more = h \o (body \o more)
      BY <2>0, ConcatAssociative
    <2>2. body \o more \in Seq(Byte)
      BY <2>0, ConcatProperties
    <2> QED BY <2>1, <2>2, Zenon DEF Text, h, v, body
  <1>3. ASSUME NEW l \in Letters, Shift(v[l], Count(l)) = 0
        PROVE  Value(Text(frame) \o more, l) = v[l]
    <2>1. Value(Text(frame) \o more, l) = Value(h, l)
      <3> DEFINE behind == frame.body \o more
      <3>1. h \in Seq(Byte) /\ Len(h) = Len(format) /\ behind \in Seq(Byte)
        BY <1>1, <1>2, Zenon
      <3>2. Text(frame) \o more = h \o behind
        BY <1>2, Zenon
      <3> HIDE DEF h, behind
      <3>3. Value(h \o behind, l) = Value(h, l)
        BY <3>1, ValueInside, SMT
      <3> QED BY <3>2, <3>3, Zenon
    <2>2. Value(h, l) = Number([i \in 1..Count(l) |-> Bytes(v[l], Count(l))[i]])
      BY FieldsSurvive, Zenon DEF Accepted
    <2>3. v[l] \in Nat /\ Count(l) \in Nat
      BY <1>1, FirstPosition DEF Numbers, Accepted
    <2>4. Number([i \in 1..Count(l) |-> Bytes(v[l], Count(l))[i]]) = v[l]
      BY <1>3, <2>3, RoundTrip, Zenon
    <2> QED BY <2>1, <2>2, <2>4, Zenon
  <1>4. ASSUME NEW l \in Letters, v[l] < Base PROVE Value(Text(frame) \o more, l) = v[l]
    <2>1. v[l] \in Nat /\ Count(l) \in Nat
      BY <1>1, FirstPosition DEF Numbers, Accepted
    <2>2. Count(l) # 0
      BY FirstPosition, FS_EmptySet DEF Accepted, Count
    <2>3. Shift(v[l], Count(l)) = 0
      BY <1>4, <2>1, <2>2, ShiftSmall
    <2> QED BY <1>3, <2>3
  <1>5. /\ v["E"] = frame.compression /\ v["I"] = frame.checksum /\ v["T"] = frame.id
        /\ v["L"] = Length(frame)
    BY DEF v, Values
  <1>6. frame.compression < Base /\ frame.checksum < Base /\ frame.id < Base
    BY FrameBytes, Zenon
  <1>7. "E" \in Letters /\ "I" \in Letters /\ "L" \in Letters /\ "T" \in Letters
    BY DEF Letters
  <1> QED BY <1>3, <1>4, <1>5, <1>6, <1>7

\* What frames are on the wire when the first n of them are not any more.
Texts(frames, n) == [i \in 1..(Len(frames) - n) |-> Text(frames[n + i])]

\* These are sequences of bytes,
LEMMA TextsType ==
  ASSUME Accepted, NEW frames \in Seq(FrameTypes), NEW n \in 0..Len(frames)
  PROVE  /\ Texts(frames, n) \in Seq(Seq(Byte)) /\ Len(Texts(frames, n)) = Len(frames) - n
         /\ FlattenSeq(Texts(frames, n)) \in Seq(Byte)
         /\ n = Len(frames) => FlattenSeq(Texts(frames, n)) = <<>>
  <1>1. Len(frames) \in Nat /\ Len(frames) - n \in Nat
    BY LenProperties
  <1>2. ASSUME NEW i \in 1..(Len(frames) - n) PROVE Text(frames[n + i]) \in Seq(Byte)
    <2>1. n + i \in 1..Len(frames)
      BY <1>1
    <2> QED BY <2>1, ElementOfSeq, TextType
  <1> DEFINE m == Len(frames) - n
             t == [i \in 1..m |-> Text(frames[n + i])]
  <1>3. t \in [1..m -> Seq(Byte)]
    BY <1>2
  <1>4. t \in Seq(Seq(Byte)) /\ Len(t) = m
    <2>1. t \in Seq(Seq(Byte))
      <3> HIDE DEF t
      <3> QED BY <1>1, <1>3, SeqDef
    <2> QED BY <1>1, <1>3, <2>1, LenProperties
  <1>5. n = Len(frames) => t = <<>>
    BY <1>1
  <1>6. Texts(frames, n) = t
    BY Zenon DEF Texts
  <1> HIDE DEF t
  <1> QED BY <1>4, <1>5, <1>6, FlattenType, FlattenEmpty

\* the first frame in front,
LEMMA TextsFirst ==
  ASSUME Accepted, NEW frames \in Seq(FrameTypes), NEW n \in Nat, n < Len(frames)
  PROVE  FlattenSeq(Texts(frames, n)) = Text(frames[n + 1]) \o FlattenSeq(Texts(frames, n + 1))
  <1> DEFINE x == Text(frames[n + 1])
             s == Texts(frames, n)
             t == Texts(frames, n + 1)
  <1>1. /\ Len(frames) \in Nat /\ n \in 0..Len(frames) /\ n + 1 \in 0..Len(frames)
        /\ n + 1 \in 1..Len(frames)
    BY LenProperties
  <1>2. s \in Seq(Seq(Byte)) /\ Len(s) = Len(frames) - n
    BY <1>1, TextsType
  <1>3. t \in Seq(Seq(Byte)) /\ Len(t) = Len(frames) - (n + 1)
    BY <1>1, TextsType
  <1>4. x \in Seq(Byte)
    BY <1>1, ElementOfSeq, TextType
  <1>5. /\ s[1] = x
        /\ \A i \in 1..(Len(frames) - (n + 1)) : s[i + 1] = t[i]
    <2>1. \A i \in 1..(Len(frames) - n) : s[i] = Text(frames[n + i])
      BY Zenon DEF Texts
    <2>2. \A i \in 1..(Len(frames) - (n + 1)) : t[i] = Text(frames[n + 1 + i])
      BY Zenon DEF Texts
    <2>3. 1 \in 1..(Len(frames) - n)
      BY <1>1
    <2>4. ASSUME NEW i \in 1..(Len(frames) - (n + 1)) PROVE s[i + 1] = t[i]
      <3>1. i + 1 \in 1..(Len(frames) - n) /\ n + (i + 1) = n + 1 + i
        BY <1>1
      <3> QED BY <2>1, <2>2, <3>1, Zenon
    <2> QED BY <2>1, <2>3, <2>4, Zenon
  <1> HIDE DEF x, s, t
  <1>6. <<x>> \in Seq(Seq(Byte)) /\ Len(<<x>>) = 1 /\ <<x>>[1] = x
    BY <1>4
  <1>7. /\ <<x>> \o t \in Seq(Seq(Byte)) /\ Len(<<x>> \o t) = 1 + Len(t)
        /\ \A i \in 1..(1 + Len(t)) : (<<x>> \o t)[i] = IF i <= 1 THEN x ELSE t[i - 1]
    BY <1>3, <1>6, ConcatProperties
  <1>8. s = <<x>> \o t
    <2>1. ASSUME NEW i \in 1..Len(s) PROVE s[i] = (<<x>> \o t)[i]
      <3>1. CASE i = 1
        BY <1>1, <1>2, <1>3, <1>5, <1>7, <3>1
      <3>2. CASE i # 1
        <4>1. i - 1 \in 1..(Len(frames) - (n + 1)) /\ (i - 1) + 1 = i
              /\ i \in 1..(1 + Len(t)) /\ ~ (i <= 1)
          BY <1>1, <1>2, <1>3, <3>2
        <4>2. s[i] = t[i - 1]
          BY <1>5, <4>1, Zenon
        <4> QED BY <1>7, <4>1, <4>2
      <3> QED BY <3>1, <3>2
    <2>2. 1 + Len(t) = Len(s)
      BY <1>1, <1>2, <1>3
    <2>3. Len(s) = Len(<<x>> \o t)
      BY <1>7, <2>2, Zenon
    <2> QED BY <1>2, <1>7, <2>1, <2>3, SeqEqual
  <1>9. FlattenSeq(<<x>>) = x
    <2>1. <<x>> = Append(<<>>, x) /\ <<>> \in Seq(Seq(Byte))
      OBVIOUS
    <2> QED BY <1>4, <2>1, FlattenAppend
  <1>10. FlattenSeq(<<x>> \o t) = FlattenSeq(<<x>>) \o FlattenSeq(t)
    BY <1>3, <1>6, FlattenConcat, Zenon
  <1> QED BY <1>8, <1>9, <1>10, Zenon DEF x, s, t

\* and one that is sent at the end.
LEMMA TextsAppend ==
  ASSUME Accepted, NEW frames \in Seq(FrameTypes), NEW n \in 0..Len(frames),
         NEW frame \in FrameTypes
  PROVE  FlattenSeq(Texts(Append(frames, frame), n))
           = FlattenSeq(Texts(frames, n)) \o Text(frame)
  <1> DEFINE x == Text(frame)
             more == Append(frames, frame)
             s == Texts(frames, n)
             t == Texts(more, n)
             m == Len(frames) - n
  <1>1. /\ Len(frames) \in Nat /\ more \in Seq(FrameTypes) /\ Len(more) = Len(frames) + 1
        /\ n \in Nat /\ n \in 0..Len(more) /\ more[Len(frames) + 1] = frame
        /\ \A i \in 1..Len(frames) : more[i] = frames[i]
    BY LenProperties, AppendProperties
  <1> HIDE DEF more
  <1>2. s \in Seq(Seq(Byte)) /\ Len(s) = m /\ m \in Nat
    BY <1>1, TextsType
  <1>3. t \in Seq(Seq(Byte)) /\ Len(t) = m + 1
    <2>1. t \in Seq(Seq(Byte)) /\ Len(t) = Len(more) - n
      BY <1>1, TextsType
    <2> QED BY <1>1, <2>1
  <1>4. x \in Seq(Byte)
    BY TextType
  <1>5. t[m + 1] = x /\ \A i \in 1..m : t[i] = s[i]
    <2>1. \A i \in 1..m : s[i] = Text(frames[n + i])
      BY Zenon DEF Texts
    <2>2. \A i \in 1..(Len(more) - n) : t[i] = Text(more[n + i])
      BY Zenon DEF Texts
    <2>3. m + 1 \in 1..(Len(more) - n) /\ n + (m + 1) = Len(frames) + 1
      BY <1>1
    <2>4. ASSUME NEW i \in 1..m PROVE t[i] = s[i]
      <3>1. i \in 1..(Len(more) - n) /\ n + i \in 1..Len(frames)
        BY <1>1
      <3> QED BY <1>1, <2>1, <2>2, <3>1, Zenon
    <2>5. t[m + 1] = Text(more[n + (m + 1)])
      BY <2>2, <2>3, Zenon
    <2> QED BY <1>1, <2>3, <2>4, <2>5
  <1> HIDE DEF x, s, t, m
  <1>6. /\ Append(s, x) \in Seq(Seq(Byte)) /\ Len(Append(s, x)) = m + 1
        /\ \A i \in 1..m : Append(s, x)[i] = s[i]
        /\ Append(s, x)[m + 1] = x
    BY <1>2, <1>4, AppendProperties
  <1>7. t = Append(s, x)
    <2>1. ASSUME NEW i \in 1..Len(t) PROVE t[i] = Append(s, x)[i]
      BY <1>2, <1>3, <1>5, <1>6
    <2> QED BY <1>3, <1>6, <2>1, SeqEqual
  <1>8. FlattenSeq(Append(s, x)) = FlattenSeq(s) \o x
    BY <1>2, <1>4, FlattenSnoc, Zenon
  <1> QED BY <1>7, <1>8, Zenon DEF x, s, t, more

-----------------------------------------------------------------------------
(* What has been read, and what is still to read *)

\* The length of a frame fits its field.
Fits(frame) == Shift(Length(frame), Count("L")) = 0

\* Up to a frame that does not fit, each frame read is the one sent, and the rest
\* is on the wire; the other end fails at such a frame only.
InStep ==
  /\ Len(got) <= Len(sent)
  /\ \A i \in 1..Len(got) : Fits(sent[i]) /\ got[i] = sent[i]
  /\ wire = FlattenSeq(Texts(sent, Len(got)))
  /\ peer = "failed" => Len(got) < Len(sent) /\ ~Fits(sent[Len(got) + 1])

\* Otherwise it has read something in the place of one that does not fit.
Lost ==
  \E k \in 1..Len(sent) :
    k <= Len(got) /\ ~Fits(sent[k]) /\ \A i \in 1..(k - 1) : got[i] = sent[i]

\* Only a client that runs has sent something.
ReadInv ==
  /\ TypeOK /\ RunInv
  /\ client # "running" => sent = <<>>
  /\ InOnePiece => InStep \/ Lost

\* A client that runs has an accepted format.
LEMMA RunningAccepted == RunInv /\ client = "running" => Accepted
  BY HeaderOK DEF RunInv, Accepted, HeaderOK

\* Sending appends one frame, and its text to what is on the wire.
LEMMA SendsFrame ==
  ASSUME TypeOK, RunInv, Send
  PROVE  /\ Accepted /\ client = "running" /\ client' = client
         /\ UNCHANGED <<format, peer, got>>
         /\ \E frame \in FrameTypes : sent' = Append(sent, frame) /\ wire' = wire \o Text(frame)
  <1>1. PICK id \in Ids, data \in Payloads : \E p \in Packed(data) :
          LET frame == [compression |-> p.compression, checksum |-> (Len(sent) + 1) % Base,
                        id |-> id, body |-> p.body]
          IN  IF FieldsInside
                THEN /\ wire' = wire \o Header(Values(frame)) \o p.body
                     /\ sent' = Append(sent, frame)
                     /\ client' = client
                ELSE client' = "panicked" /\ UNCHANGED <<sent, wire>>
    BY Zenon DEF Send
  <1>2. PICK p \in Packed(data) :
          LET frame == [compression |-> p.compression, checksum |-> (Len(sent) + 1) % Base,
                        id |-> id, body |-> p.body]
          IN  IF FieldsInside
                THEN /\ wire' = wire \o Header(Values(frame)) \o p.body
                     /\ sent' = Append(sent, frame)
                     /\ client' = client
                ELSE client' = "panicked" /\ UNCHANGED <<sent, wire>>
    BY <1>1, Zenon
  <1> DEFINE frame == [compression |-> p.compression, checksum |-> (Len(sent) + 1) % Base,
                       id |-> id, body |-> p.body]
  <1>3. client = "running" /\ UNCHANGED <<format, peer, got>> /\ Accepted
    BY RunningAccepted DEF Send
  <1>4. frame \in FrameTypes /\ frame.body = p.body
    <2>1. p.compression \in Compressions /\ p.body \in Seq(Byte)
      BY HeaderOK DEF Packed, Compressions, HeaderOK
    <2>2. (Len(sent) + 1) % Base \in Byte
      <3>1. Len(sent) + 1 \in Nat
        BY LenProperties DEF TypeOK
      <3> QED BY <3>1, Division
    <2> QED BY <2>1, <2>2 DEF FrameTypes
  <1>5. FieldsInside
    BY <1>3, FieldInside DEF FieldsInside, Accepted
  <1>6. /\ wire' = (wire \o Header(Values(frame))) \o frame.body
        /\ sent' = Append(sent, frame) /\ client' = client
    BY <1>2, <1>4, <1>5, Zenon
  <1> DEFINE h == Header(Values(frame))
             body == frame.body
  <1> HIDE DEF frame
  <1>7. h \in Seq(Byte) /\ body \in Seq(Byte) /\ wire \in Seq(Byte)
    BY <1>3, <1>4, TextType, HeaderType, Zenon DEF FrameTypes, TypeOK
  <1>8. wire' = wire \o Text(frame)
    <2> HIDE DEF h, body
    <2>1. (wire \o h) \o body = wire \o (h \o body)
      BY <1>7, ConcatAssociative
    <2> QED BY <1>6, <2>1, Zenon DEF Text, h, body
  <1> QED BY <1>3, <1>4, <1>6, <1>8, Zenon

\* Reading appends one frame and takes from the wire what its length says, or
\* fails and leaves both.
LEMMA ReadsFrame ==
  ASSUME TypeOK, RunInv, Read
  PROVE  /\ Accepted /\ client = "running" /\ Len(wire) >= Len(format)
         /\ UNCHANGED <<format, client, sent>> /\ peer = "reading"
         /\ LET length == Value(wire, "L")
                frame  == [compression |-> Value(wire, "E"), checksum |-> Value(wire, "I") % Base,
                           id |-> PacketId(wire),
                           body |-> SubSeq(wire, Len(format) + 1, length)]
            IN  IF Parses(wire) /\ length >= Len(format)
                  THEN /\ frame \in FrameTypes /\ got' = Append(got, frame)
                       /\ wire' = SubSeq(wire, length + 1, Len(wire)) /\ wire' \in Seq(Byte)
                       /\ peer' = peer
                  ELSE peer' = "failed" /\ UNCHANGED <<wire, got>>
  <1>1. /\ Accepted /\ client = "running" /\ Len(wire) >= Len(format)
        /\ UNCHANGED <<format, client, sent>> /\ peer = "reading"
    BY RunningAccepted DEF Read, Readable
  <1>2. wire \in Seq(Byte) /\ \A l \in Letters : Value(wire, l) \in Nat
    BY <1>1, ValueType DEF TypeOK
  <1> DEFINE length == Value(wire, "L")
             frame == [compression |-> Value(wire, "E"), checksum |-> Value(wire, "I") % Base,
                       id |-> PacketId(wire), body |-> SubSeq(wire, Len(format) + 1, length)]
  <1>3. CASE Parses(wire) /\ length >= Len(format)
    <2>1. length <= Len(wire) /\ Len(wire) \in Nat /\ length \in Nat /\ Len(format) \in Nat
      BY <1>1, <1>2, <1>3, FirstPosition, LenProperties
         DEF Read, Readable, Letters, Accepted
    <2>2. frame \in FrameTypes
      <3>1. Value(wire, "E") \in Compressions /\ PacketId(wire) \in Ids
        BY <1>3 DEF Parses
      <3>2. Value(wire, "I") % Base \in Byte
        BY <1>2, Division DEF Letters
      <3>3. SubSeq(wire, Len(format) + 1, length) \in Seq(Byte)
        BY <1>2, <2>1
      <3> QED BY <3>1, <3>2, <3>3 DEF FrameTypes
    <2>3. SubSeq(wire, length + 1, Len(wire)) \in Seq(Byte)
      BY <1>2, <2>1
    <2>4. /\ got' = Append(got, frame) /\ wire' = SubSeq(wire, length + 1, Len(wire))
          /\ peer' = peer
      BY <1>3, Zenon DEF Read
    <2> HIDE DEF frame, length
    <2> QED BY <1>1, <1>3, <2>2, <2>3, <2>4, Zenon DEF frame, length
  <1>4. CASE ~ (Parses(wire) /\ length >= Len(format))
    <2>1. peer' = "failed" /\ UNCHANGED <<wire, got>>
      BY <1>4, Zenon DEF Read
    <2> QED BY <1>1, <1>4, <2>1, Zenon
  <1> QED BY <1>3, <1>4

\* Every step keeps the types.
LEMMA TypesStep == TypeOK /\ RunInv /\ [Next]_vars => TypeOK'
  <1> SUFFICES ASSUME TypeOK, RunInv, [Next]_vars PROVE TypeOK'
    OBVIOUS
  <1> USE DEF TypeOK
  <1>1. CASE Configure
    BY <1>1 DEF Configure
  <1>2. CASE Send
    <2>1. PICK frame \in FrameTypes : sent' = Append(sent, frame) /\ wire' = wire \o Text(frame)
      BY <1>2, SendsFrame
    <2>2. Text(frame) \in Seq(Byte) /\ UNCHANGED <<format, client, peer, got>>
      BY <1>2, SendsFrame, TextType
    <2>3. sent' \in Seq(FrameTypes) /\ wire' \in Seq(Byte)
      BY <2>1, <2>2, AppendProperties, ConcatProperties
    <2> QED BY <2>2, <2>3
  <1>3. CASE Read
    <2>1. UNCHANGED <<format, client, sent>>
      BY <1>3, ReadsFrame
    <2>2. \/ \E frame \in FrameTypes : got' = Append(got, frame) /\ wire' \in Seq(Byte) /\ peer' = peer
          \/ peer' = "failed" /\ UNCHANGED <<wire, got>>
      BY <1>3, ReadsFrame, Zenon
    <2>3. got \in Seq(FrameTypes) /\ \A frame \in FrameTypes : Append(got, frame) \in Seq(FrameTypes)
      BY AppendProperties
    <2>4. got' \in Seq(FrameTypes) /\ wire' \in Seq(Byte) /\ peer' \in {"reading", "failed"}
      BY <2>2, <2>3, Zenon
    <2> QED BY <2>1, <2>4, Zenon
  <1>4. CASE UNCHANGED vars
    BY <1>4 DEF vars
  <1> QED BY <1>1, <1>2, <1>3, <1>4, Zenon DEF Next

\* The text of a frame, and whether it fits, depend on the format alone.
LEMMA SameText ==
  ASSUME format' = format
  PROVE  /\ \A frame : Text(frame)' = Text(frame) /\ Fits(frame)' = Fits(frame)
         /\ \A frames, n : Texts(frames, n)' = Texts(frames, n)
         /\ InOnePiece' = InOnePiece
  <1>1. /\ \A l : Count(l)' = Count(l)
        /\ \A values : Header(values)' = Header(values)
        /\ InOnePiece' = InOnePiece
    BY SameFormat
  <1>2. ASSUME NEW frame PROVE Text(frame)' = Text(frame) /\ Fits(frame)' = Fits(frame)
    BY <1>1 DEF Text, Fits, Values, Length
  <1>3. ASSUME NEW frames, NEW n PROVE Texts(frames, n)' = Texts(frames, n)
    BY <1>2 DEF Texts
  <1> QED BY <1>1, <1>2, <1>3

\* A step that touches neither frames nor wire keeps them as they are.
LEMMA OthersKeep ==
  ASSUME UNCHANGED <<format, sent, wire, peer, got>>
  PROVE  /\ InOnePiece' = InOnePiece
         /\ InStep' = InStep /\ Lost' = Lost
  <1>1. InStep' = InStep
    BY SameText DEF InStep, Texts
  <1>2. Lost' = Lost
    BY SameText DEF Lost
  <1> QED BY <1>1, <1>2, SameText

\* Sending keeps in step, and does not bring back what was lost.
LEMMA SendKeeps ==
  ASSUME ReadInv, Send, InOnePiece'
  PROVE  InStep' \/ Lost'
  <1>1. /\ Accepted /\ UNCHANGED <<format, peer, got>>
        /\ sent \in Seq(FrameTypes) /\ got \in Seq(FrameTypes)
    BY SendsFrame DEF ReadInv, TypeOK
  <1>2. PICK frame \in FrameTypes : sent' = Append(sent, frame) /\ wire' = wire \o Text(frame)
    BY SendsFrame DEF ReadInv
  <1>3. /\ Len(sent') = Len(sent) + 1 /\ Len(sent) \in Nat /\ Len(got) \in Nat
        /\ \A i \in 1..Len(sent) : sent'[i] = sent[i]
    BY <1>1, <1>2, AppendProperties, LenProperties
  <1>4. CASE InStep
    <2>1. Len(got') =< Len(sent')
      BY <1>1, <1>3, <1>4 DEF InStep
    <2>2. ASSUME NEW i \in 1..Len(got) PROVE Fits(sent[i])' /\ got'[i] = sent'[i]
      <3>1. i \in 1..Len(sent) /\ Fits(sent[i]) /\ got[i] = sent[i]
        BY <1>3, <1>4 DEF InStep
      <3> QED BY <1>1, <1>3, <3>1, SameText
    <2>3. wire' = FlattenSeq(Texts(sent', Len(got)))
      <3>1. Len(got) \in 0..Len(sent) /\ wire = FlattenSeq(Texts(sent, Len(got)))
        BY <1>3, <1>4 DEF InStep
      <3>2. FlattenSeq(Texts(Append(sent, frame), Len(got)))
              = FlattenSeq(Texts(sent, Len(got))) \o Text(frame)
        BY <1>1, <3>1, TextsAppend, Zenon
      <3> QED BY <1>2, <3>1, <3>2, Zenon
    <2>4. Texts(sent, Len(got))' = Texts(sent', Len(got))
      BY <1>1, SameText DEF Texts
    <2>5. peer' = "failed" => Len(got') < Len(sent') /\ ~Fits(sent[Len(got) + 1])'
      <3>1. SUFFICES ASSUME peer = "failed"
                     PROVE  Len(got) < Len(sent') /\ ~Fits(sent[Len(got) + 1])'
        BY <1>1
      <3>2. Len(got) < Len(sent) /\ ~Fits(sent[Len(got) + 1])
        BY <1>4, <3>1 DEF InStep
      <3>3. Len(got) + 1 \in 1..Len(sent)
        BY <1>3, <3>2
      <3> QED BY <1>1, <1>3, <3>2, <3>3, SameText
    <2> QED BY <1>1, <2>1, <2>2, <2>3, <2>4, <2>5, Zenon DEF InStep
  <1>5. CASE Lost
    <2>1. PICK k \in 1..Len(sent) :
            k <= Len(got) /\ ~Fits(sent[k]) /\ \A i \in 1..(k - 1) : got[i] = sent[i]
      BY <1>5, Zenon DEF Lost
    <2>2. k \in 1..Len(sent') /\ ~Fits(sent[k])'
      BY <1>1, <1>3, <2>1, SameText
    <2>3. ASSUME NEW i \in 1..(k - 1) PROVE got'[i] = sent'[i]
      <3>1. i \in 1..Len(sent)
        BY <1>3
      <3> QED BY <1>1, <1>3, <2>1, <3>1
    <2> QED BY <1>1, <2>1, <2>2, <2>3 DEF Lost
  <1>6. InOnePiece
    BY <1>1, SameText
  <1> QED BY <1>4, <1>5, <1>6 DEF ReadInv

\* What the other end has in front of it when a frame is on its way.
LEMMA NextFrame ==
  ASSUME ReadInv, Accepted, InOnePiece, InStep, Len(got) < Len(sent)
  PROVE  LET frame == sent[Len(got) + 1]
             more  == FlattenSeq(Texts(sent, Len(got) + 1))
         IN  /\ frame \in FrameTypes /\ more \in Seq(Byte) /\ wire = Text(frame) \o more
             /\ Len(wire) = Length(frame) + Len(more) /\ Parses(wire)
             /\ Value(wire, "E") = frame.compression /\ Value(wire, "I") = frame.checksum
             /\ PacketId(wire) = frame.id
             /\ Fits(frame) => Value(wire, "L") = Length(frame)
  <1> DEFINE frame == sent[Len(got) + 1]
             more  == FlattenSeq(Texts(sent, Len(got) + 1))
  <1>1. /\ sent \in Seq(FrameTypes) /\ Len(sent) \in Nat /\ Len(got) \in Nat
        /\ Len(got) + 1 \in 1..Len(sent) /\ Len(got) + 1 \in 0..Len(sent)
    BY LenProperties DEF ReadInv, TypeOK
  <1>2. frame \in FrameTypes /\ more \in Seq(Byte)
    BY <1>1, ElementOfSeq, TextsType
  <1>3. wire = Text(frame) \o more
    <2>1. wire = FlattenSeq(Texts(sent, Len(got)))
      BY DEF InStep
    <2>2. FlattenSeq(Texts(sent, Len(got))) = Text(frame) \o more
      BY <1>1, TextsFirst
    <2> QED BY <2>1, <2>2, Zenon
  <1> HIDE DEF frame, more
  <1>4. Text(frame) \in Seq(Byte) /\ Len(Text(frame)) = Length(frame)
    BY <1>2, TextType
  <1>5. Len(wire) = Length(frame) + Len(more)
    BY <1>2, <1>3, <1>4, ConcatProperties
  <1>6. /\ Value(wire, "E") = frame.compression /\ Value(wire, "I") = frame.checksum
        /\ Value(wire, "T") = frame.id
        /\ Fits(frame) => Value(wire, "L") = Length(frame)
    BY <1>2, <1>3, TextValues, Zenon DEF Fits
  <1>7. PacketId(wire) = frame.id
    <2>1. frame.id \in Nat /\ frame.id < Base
      BY <1>2, FrameBytes
    <2>2. frame.id % Base = frame.id
      BY <2>1, Division, Zenon
    <2> QED BY <1>6, <2>2, Zenon DEF PacketId
  <1>8. FieldsInside
    BY FieldInside DEF FieldsInside, Accepted
  <1>9. Parses(wire)
    <2>1. frame.compression \in Compressions /\ frame.id \in Ids
      BY <1>2, Zenon DEF FrameTypes
    <2> QED BY <1>6, <1>7, <1>8, <2>1, Zenon DEF Parses
  <1> QED BY <1>2, <1>3, <1>5, <1>6, <1>7, <1>9 DEF frame, more

\* Reading keeps in step up to a frame that does not fit, and never goes back.
LEMMA ReadKeeps ==
  ASSUME ReadInv, Read, InOnePiece'
  PROVE  InStep' \/ Lost'
  <1>1. /\ Accepted /\ UNCHANGED <<format, client, sent>> /\ peer = "reading"
        /\ Len(wire) >= Len(format)
        /\ sent \in Seq(FrameTypes) /\ got \in Seq(FrameTypes) /\ wire \in Seq(Byte)
        /\ Len(sent) \in Nat /\ Len(got) \in Nat
    BY ReadsFrame, LenProperties DEF ReadInv, TypeOK
  <1>2. InOnePiece
    BY <1>1, SameText
  <1> DEFINE length == Value(wire, "L")
             read == [compression |-> Value(wire, "E"), checksum |-> Value(wire, "I") % Base,
                      id |-> PacketId(wire), body |-> SubSeq(wire, Len(format) + 1, length)]
  <1>3. \/ /\ read \in FrameTypes /\ got' = Append(got, read) /\ peer' = "reading"
           /\ wire' = SubSeq(wire, length + 1, Len(wire))
        \/ ~ (Parses(wire) /\ length >= Len(format)) /\ peer' = "failed" /\ UNCHANGED <<wire, got>>
    BY <1>1, ReadsFrame, Zenon DEF ReadInv
  <1>4. /\ Len(got') >= Len(got) /\ Len(got') \in Nat
        /\ \A i \in 1..Len(got) : got'[i] = got[i]
    <2> HIDE DEF read
    <2>1. CASE read \in FrameTypes /\ got' = Append(got, read)
      BY <1>1, <2>1, AppendProperties
    <2>2. CASE got' = got
      BY <1>1, <2>2
    <2> QED BY <1>3, <2>1, <2>2
  <1>5. CASE Lost
    <2>1. PICK k \in 1..Len(sent) :
            k <= Len(got) /\ ~Fits(sent[k]) /\ \A i \in 1..(k - 1) : got[i] = sent[i]
      BY <1>5, Zenon DEF Lost
    <2>2. k \in 1..Len(sent') /\ ~Fits(sent[k])' /\ k <= Len(got')
      BY <1>1, <1>4, <2>1, SameText
    <2>3. ASSUME NEW i \in 1..(k - 1) PROVE got'[i] = sent'[i]
      <3>1. i \in 1..Len(got)
        BY <1>1, <2>1
      <3> QED BY <1>1, <1>4, <2>1, <3>1
    <2> QED BY <2>2, <2>3 DEF Lost
  <1>6. CASE InStep
    <2>1. Len(got) < Len(sent)
      <3> SUFFICES ASSUME Len(got) = Len(sent) PROVE FALSE
        BY <1>1, <1>6 DEF InStep
      <3>1. wire = <<>>
        BY <1>1, <1>6, TextsType DEF InStep
      <3>2. Len(format) \in Nat \ {0}
        <4>1. "E" \in Letters
          BY DEF Letters
        <4>2. Positions("E") # {} /\ Positions("E") \subseteq 1..Len(format) /\ Len(format) \in Nat
          BY <1>1, <4>1, FirstPosition DEF Accepted
        <4> QED BY <4>2
      <3> QED BY <1>1, <3>1, <3>2
    <2> DEFINE frame == sent[Len(got) + 1]
               more  == FlattenSeq(Texts(sent, Len(got) + 1))
    <2>2. /\ frame \in FrameTypes /\ more \in Seq(Byte) /\ wire = Text(frame) \o more
          /\ Len(wire) = Length(frame) + Len(more) /\ Parses(wire)
          /\ Value(wire, "E") = frame.compression /\ Value(wire, "I") = frame.checksum
          /\ PacketId(wire) = frame.id
          /\ Fits(frame) => length = Length(frame)
      BY <1>1, <1>2, <1>6, <2>1, NextFrame, Zenon
    <2>3. \A i \in 1..Len(got) : Fits(sent[i]) /\ got[i] = sent[i]
      BY <1>6, Zenon DEF InStep
    <2>4. Len(got) + 1 \in 1..Len(sent)
      BY <1>1, <2>1
    <2> HIDE DEF length, frame, more
    <2>5. CASE Fits(frame)
      <3>1. /\ Length(frame) \in Nat /\ Length(frame) >= Len(format) /\ Len(format) \in Nat
            /\ Text(frame) \in Seq(Byte) /\ Len(Text(frame)) = Length(frame)
            /\ SubSeq(Text(frame), Len(format) + 1, Length(frame)) = frame.body
        BY <1>1, <2>2, TextType, HeaderType
      <3>2. got' = Append(got, read) /\ wire' = SubSeq(wire, length + 1, Len(wire)) /\ peer' = "reading"
        BY <1>3, <2>2, <2>5, <3>1
      <3>3. read.body = frame.body /\ wire' = more
        <4> DEFINE t == Text(frame)
        <4>1. /\ t \in Seq(Byte) /\ more \in Seq(Byte) /\ wire = t \o more /\ length = Len(t)
              /\ Len(t) \in Nat /\ Len(format) \in Nat /\ Len(t) >= Len(format)
          BY <2>2, <2>5, <3>1
        <4> HIDE DEF t
        <4>2. SubSeq(t \o more, Len(format) + 1, Len(t)) = SubSeq(t, Len(format) + 1, Len(t))
          BY <4>1
        <4>3. SubSeq(t \o more, Len(t) + 1, Len(t \o more)) = more
          BY <4>1
        <4> QED BY <3>1, <3>2, <4>1, <4>2, <4>3, Zenon DEF t
      <3>4. read = frame
        <4>1. Value(wire, "I") % Base = frame.checksum
          <5>1. frame.checksum \in Nat /\ frame.checksum < Base
            BY <2>2, FrameBytes
          <5> QED BY <2>2, <5>1, Division
        <4>2. frame = [compression |-> frame.compression, checksum |-> frame.checksum,
                       id |-> frame.id, body |-> frame.body]
          BY <2>2 DEF FrameTypes
        <4>3. read = [compression |-> frame.compression, checksum |-> frame.checksum,
                      id |-> frame.id, body |-> read.body]
          BY <2>2, <4>1, Zenon
        <4> HIDE DEF read
        <4> QED BY <3>3, <4>2, <4>3, Zenon
      <3> HIDE DEF read
      <3>5. Len(got') = Len(got) + 1 /\ got'[Len(got) + 1] = frame
        BY <1>1, <2>2, <3>2, <3>4, AppendProperties
      <3>6. ASSUME NEW i \in 1..Len(got') PROVE Fits(sent[i])' /\ got'[i] = sent'[i]
        <4>1. CASE i = Len(got) + 1
          BY <1>1, <2>5, <3>5, <4>1, SameText DEF frame
        <4>2. CASE i # Len(got) + 1
          <5>1. i \in 1..Len(got)
            BY <1>1, <3>5, <4>2
          <5> QED BY <1>1, <1>4, <2>3, <5>1, SameText
        <4> QED BY <4>1, <4>2
      <3>7. wire' = FlattenSeq(Texts(sent, Len(got)))'
        <4>1. Texts(sent, Len(got))' = Texts(sent, Len(got) + 1)
          BY <1>1, <3>5, SameText DEF Texts
        <4> QED BY <3>3, <4>1 DEF more
      <3>8. Len(got') <= Len(sent')
        BY <1>1, <2>1, <3>5
      <3> QED BY <3>2, <3>6, <3>7, <3>8 DEF InStep
    <2>6. CASE ~Fits(frame) /\ got' # got
      <3>1. Len(got') = Len(got) + 1
        <4> HIDE DEF read
        <4> QED BY <1>1, <1>3, <2>6, AppendProperties
      <3>2. PICK k \in Nat : k = Len(got) + 1
        BY <1>1
      <3>3. k \in 1..Len(sent') /\ k <= Len(got')
        BY <1>1, <2>4, <3>1, <3>2
      <3>4. ~Fits(sent[k])'
        <4>1. sent'[k] = frame
          BY <1>1, <3>2 DEF frame
        <4> QED BY <1>1, <2>6, <4>1, SameText
      <3>5. ASSUME NEW i \in 1..(k - 1) PROVE got'[i] = sent'[i]
        BY <1>1, <1>4, <2>3, <3>2
      <3> QED BY <3>3, <3>4, <3>5 DEF Lost
    <2>7. CASE ~Fits(frame) /\ got' = got
      <3>1. peer' = "failed" /\ wire' = wire
        <4> HIDE DEF read
        <4>1. got # Append(got, read) \/ read \notin FrameTypes
          BY <1>1, AppendProperties
        <4> QED BY <1>3, <2>7, <4>1
      <3>2. Texts(sent, Len(got))' = Texts(sent, Len(got))
        BY <1>1, <2>7, SameText DEF Texts
      <3> QED BY <1>1, <1>6, <2>1, <2>7, <3>1, <3>2, SameText DEF InStep, frame
    <2> QED BY <2>5, <2>6, <2>7
  <1> QED BY <1>2, <1>5, <1>6 DEF ReadInv

\* The strengthening, which every step keeps.
THEOREM ReadInvariance == Spec => []ReadInv
  <1>1. Init => ReadInv
    <2> SUFFICES ASSUME Init PROVE ReadInv
      OBVIOUS
    <2>1. /\ sent = <<>> /\ got = <<>> /\ wire = <<>> /\ peer = "reading" /\ client = "config"
          /\ format \in Formats
      BY DEF Init
    <2>2. TypeOK /\ RunInv
      BY <2>1 DEF TypeOK, RunInv
    <2>3. FlattenSeq(Texts(sent, Len(got))) = <<>>
      <3>1. Texts(sent, Len(got)) = <<>>
        BY <2>1 DEF Texts
      <3> QED BY <3>1, FlattenEmpty
    <2>4. InStep
      <3>1. Len(got) = 0 /\ Len(sent) = 0
        BY <2>1
      <3> QED BY <2>1, <2>3, <3>1 DEF InStep
    <2> QED BY <2>1, <2>2, <2>4 DEF ReadInv
  <1>2. ReadInv /\ [Next]_vars => ReadInv'
    <2> SUFFICES ASSUME ReadInv, [Next]_vars PROVE ReadInv'
      OBVIOUS
    <2>1. TypeOK' /\ RunInv'
      BY TypesStep, RunStep DEF ReadInv
    <2>2. ASSUME UNCHANGED <<format, sent, wire, peer, got>>
          PROVE  InOnePiece' => InStep' \/ Lost'
      BY <2>2, OthersKeep DEF ReadInv
    <2>3. (InOnePiece' => InStep' \/ Lost') /\ (client' # "running" => sent' = <<>>)
      <3>1. CASE Configure
        <4>1. UNCHANGED <<format, sent, wire, peer, got>> /\ client = "config"
          BY <3>1 DEF Configure
        <4> QED BY <2>2, <4>1 DEF ReadInv
      <3>2. CASE Send
        BY <3>2, SendKeeps, SendsFrame DEF ReadInv
      <3>3. CASE Read
        BY <3>3, ReadKeeps, ReadsFrame DEF ReadInv
      <3>4. CASE UNCHANGED vars
        <4>1. UNCHANGED <<format, sent, wire, peer, got>> /\ UNCHANGED client
          BY <3>4 DEF vars
        <4> QED BY <2>2, <4>1 DEF ReadInv
      <3> QED BY <3>1, <3>2, <3>3, <3>4 DEF Next
    <2> QED BY <2>1, <2>3 DEF ReadInv
  <1> QED BY <1>1, <1>2, PTL DEF Spec

\* Whatever the format, what is sent and read are frames and what is written are
\* bytes: the reader never takes a value that is none.
THEOREM TypeCorrect == Spec => []TypeOK
  <1>1. ReadInv => TypeOK
    BY DEF ReadInv
  <1> QED BY <1>1, ReadInvariance, PTL

\* In step, the next frame that fits is there to be read.
LEMMA NextIsThere ==
  ASSUME ReadInv, InOnePiece, InStep, Len(got) < Len(sent), Fits(sent[Len(got) + 1])
  PROVE  peer = "reading" /\ Readable
  <1>1. client = "running" /\ Accepted
    <2>1. sent # <<>>
      <3>1. Len(got) \in Nat
        BY LenProperties DEF ReadInv, TypeOK
      <3>2. Len(sent) # 0 /\ Len(<<>>) = 0
        BY <3>1
      <3> QED BY <3>2, Zenon
    <2> QED BY <2>1, RunningAccepted DEF ReadInv
  <1> DEFINE frame == sent[Len(got) + 1]
             more  == FlattenSeq(Texts(sent, Len(got) + 1))
  <1>2. /\ frame \in FrameTypes /\ more \in Seq(Byte)
        /\ Len(wire) = Length(frame) + Len(more)
        /\ Value(wire, "L") = Length(frame)
    BY <1>1, NextFrame, Zenon
  <1>3. Length(frame) \in Nat /\ Length(frame) >= Len(format) /\ Len(format) \in Nat
    BY <1>1, <1>2, TextType, HeaderType
  <1> HIDE DEF frame, more
  <1>4. Len(wire) >= Len(format) /\ Len(wire) >= Value(wire, "L")
    <2>1. Len(more) \in Nat
      BY <1>2, LenProperties
    <2> QED BY <1>2, <1>3, <2>1
  <1>5. peer = "reading"
    BY DEF InStep, ReadInv, TypeOK
  <1> QED BY <1>1, <1>4, <1>5 DEF Readable

\* With each letter in one piece the other end reads what was sent, up to the first
\* frame that is too long for its length field, and neither fails nor waits before.
THEOREM ReadsAll == Spec => []ReadsFrames
  <1>1. ReadInv => ReadsFrames
    <2> SUFFICES ASSUME ReadInv, InOnePiece, NEW n \in 0..Len(sent), Fit(n)
                 PROVE  /\ \A i \in 1..n : i <= Len(got) => got[i] = sent[i]
                        /\ Len(got) < n => peer = "reading" /\ Readable
      BY DEF ReadsFrames
    <2>1. Len(got) \in Nat /\ Len(sent) \in Nat
      BY LenProperties DEF ReadInv, TypeOK
    <2>2. \A i \in 1..n : Fits(sent[i])
      BY DEF Fit, Fits
    <2>3. CASE InStep
      <3>1. \A i \in 1..n : i <= Len(got) => got[i] = sent[i]
        BY <2>1, <2>3 DEF InStep
      <3>2. ASSUME Len(got) < n PROVE peer = "reading" /\ Readable
        <4>1. Len(got) + 1 \in 1..n /\ Len(got) < Len(sent)
          BY <2>1, <3>2
        <4>2. Fits(sent[Len(got) + 1])
          BY <2>2, <4>1, Zenon
        <4> QED BY <2>3, <4>1, <4>2, NextIsThere
      <3> QED BY <3>1, <3>2
    <2>4. CASE Lost
      <3>1. PICK k \in 1..Len(sent) :
              k <= Len(got) /\ ~Fits(sent[k]) /\ \A i \in 1..(k - 1) : got[i] = sent[i]
        BY <2>4, Zenon DEF Lost
      <3>2. n < k
        <4>1. k \notin 1..n
          BY <2>2, <3>1
        <4> QED BY <2>1, <4>1
      <3>3. \A i \in 1..n : i \in 1..(k - 1)
        BY <2>1, <3>2
      <3> QED BY <2>1, <3>1, <3>2, <3>3
    <2> QED BY <2>3, <2>4 DEF ReadInv
  <1> QED BY <1>1, ReadInvariance, PTL
=============================================================================
