----------------------------- MODULE DataInduction -----------------------------
(***************************************************************************)
(* Induction over numbers, sequences and nested data, the functions that   *)
(* recursion defines, and what FlattenSeq makes of sequences that are put  *)
(* together.  What holds is stated as membership in a set, which leaves    *)
(* no operator for a prover to find.                                       *)
(***************************************************************************)
EXTENDS Naturals, SequencesExt, SequenceTheorems, WellFoundedInduction, TLAPS

\* A set of naturals with an element has a least one.
LEMMA LeastElement ==
  ASSUME NEW S \in SUBSET Nat, S # {}
  PROVE  \E i \in S : \A j \in S : i <= j
<1>1. PICK i \in S : \A j \in S : ~ (<<j, i>> \in OpToRel(<, Nat))
  BY NatLessThanWellFounded, WFMin
<1>2. \A j \in S : ~ (j < i)
  BY <1>1 DEF OpToRel
<1>3. \A j \in S : i <= j
  BY <1>2, SMT
<1> QED BY <1>3

\* What holds of 0 and of the successor of each number it holds of holds of all.
LEMMA NaturalInduction ==
  ASSUME NEW G, 0 \in G, \A n \in Nat : n \in G => n + 1 \in G
  PROVE  Nat \subseteq G
<1> SUFFICES ASSUME NEW k \in Nat \ G PROVE FALSE
  OBVIOUS
<1>1. PICK i \in Nat \ G : \A j \in Nat \ G : i <= j
  BY LeastElement, Zenon
<1>2. i \in Nat /\ i # 0
  BY <1>1
<1>3. i - 1 \in Nat /\ ~ (i <= i - 1) /\ (i - 1) + 1 = i
  BY <1>2
<1> QED BY <1>1, <1>3, Zenon

\* The same of sequences, which grow at their end.
LEMMA SequenceInduction ==
  ASSUME NEW S, NEW G, <<>> \in G,
         \A s \in Seq(S), x \in S : s \in G => Append(s, x) \in G
  PROVE  Seq(S) \subseteq G
<1> DEFINE H == {n \in Nat : \A s \in Seq(S) : Len(s) = n => s \in G}
<1>1. 0 \in H
  BY EmptySeq
<1>2. ASSUME NEW n \in Nat, n \in H PROVE n + 1 \in H
  <2> SUFFICES ASSUME NEW s \in Seq(S), Len(s) = n + 1 PROVE s \in G
    OBVIOUS
  <2>1. s # <<>>
    BY <1>2
  <2>2. PICK t \in Seq(S), x \in S : s = Append(t, x)
    BY <2>1, SequenceEmptyOrAppend
  <2>3. Len(t) = n
    BY <1>2, <2>2, AppendProperties, LenProperties
  <2>4. t \in G
    BY <1>2, <2>3
  <2> QED BY <2>2, <2>4
<1> HIDE DEF H
<1>3. Nat \subseteq H
  BY <1>1, <1>2, NaturalInduction
<1>4. \A s \in Seq(S) : Len(s) \in H
  BY <1>3, LenProperties
<1> QED BY <1>4 DEF H

-----------------------------------------------------------------------------
(* FlattenSeq *)

\* f puts the first n sequences of seqs together, each place what is so far.
Flattens(f, seqs, n) == f = [i \in 1..n |-> IF i = 1 THEN seqs[i] ELSE f[i - 1] \o seqs[i]]

\* There is such a function,
LEMMA FlattensExists ==
  ASSUME NEW seqs, NEW n \in Nat
  PROVE  \E f : Flattens(f, seqs, n)
<1> DEFINE G == {k \in Nat : \E f : Flattens(f, seqs, k)}
<1>1. 0 \in G
  <2>1. Flattens(<<>>, seqs, 0)
    BY DEF Flattens
  <2> QED BY <2>1
<1>2. ASSUME NEW k \in Nat, k \in G PROVE k + 1 \in G
  <2>1. PICK f : Flattens(f, seqs, k)
    BY <1>2
  <2> DEFINE g == [i \in 1..(k + 1) |-> IF i = k + 1
                     THEN IF i = 1 THEN seqs[i] ELSE f[i - 1] \o seqs[i] ELSE f[i]]
  <2>2. \A i \in 1..k : f[i] = IF i = 1 THEN seqs[i] ELSE f[i - 1] \o seqs[i]
    BY <2>1, Zenon DEF Flattens
  <2>3. ASSUME NEW i \in 1..(k + 1)
        PROVE  g[i] = IF i = 1 THEN seqs[i] ELSE g[i - 1] \o seqs[i]
    BY <2>2
  <2>4. Flattens(g, seqs, k + 1)
    BY <2>3 DEF Flattens
  <2> QED BY <2>4
<1> HIDE DEF G
<1>3. n \in G
  BY <1>1, <1>2, NaturalInduction
<1> QED BY <1>3 DEF G

\* and two of them agree as far as their sequences do.
LEMMA FlattensAgree ==
  ASSUME NEW f, NEW seqs, NEW g, NEW seqs2, NEW n \in Nat, NEW m \in Nat, n <= m,
         Flattens(f, seqs, n), Flattens(g, seqs2, m),
         \A i \in 1..n : seqs[i] = seqs2[i]
  PROVE  \A i \in 1..n : f[i] = g[i]
<1>1. /\ \A i \in 1..n : f[i] = IF i = 1 THEN seqs[i] ELSE f[i - 1] \o seqs[i]
      /\ \A i \in 1..m : g[i] = IF i = 1 THEN seqs2[i] ELSE g[i - 1] \o seqs2[i]
  BY Zenon DEF Flattens
<1> DEFINE G == {k \in Nat : k \in 1..n => f[k] = g[k]}
<1>2. 0 \in G
  OBVIOUS
<1>3. ASSUME NEW k \in Nat, k \in G PROVE k + 1 \in G
  BY <1>1, <1>3
<1> HIDE DEF G
<1>4. Nat \subseteq G
  BY <1>2, <1>3, NaturalInduction
<1> QED BY <1>4 DEF G

\* What FlattenSeq makes of a sequence is the last place of such a function.
LEMMA FlattenIs ==
  ASSUME NEW T, NEW seqs \in Seq(T), Len(seqs) # 0
  PROVE  \E f : Flattens(f, seqs, Len(seqs)) /\ FlattenSeq(seqs) = f[Len(seqs)]
<1>1. Len(seqs) \in Nat
  BY LenProperties
<1>2. \E f : Flattens(f, seqs, Len(seqs))
  BY <1>1, FlattensExists
<1> QED BY <1>2 DEF Flattens, FlattenSeq

\* Nothing put together is nothing.
LEMMA FlattenEmpty == FlattenSeq(<<>>) = <<>>
BY EmptySeq DEF FlattenSeq

\* A sequence that is added is put behind what the others make, if there are others.
LEMMA FlattenAppend ==
  ASSUME NEW S, NEW seqs \in Seq(Seq(S)), NEW x \in Seq(S)
  PROVE  FlattenSeq(Append(seqs, x)) = IF seqs = <<>> THEN x ELSE FlattenSeq(seqs) \o x
<1> DEFINE n == Len(seqs)  longer == Append(seqs, x)
<1>1. /\ n \in Nat /\ longer \in Seq(Seq(S)) /\ Len(longer) = n + 1
      /\ longer[n + 1] = x /\ \A i \in 1..n : longer[i] = seqs[i]
  BY AppendProperties, LenProperties
<1> HIDE DEF longer
<1>2. PICK g : Flattens(g, longer, n + 1) /\ FlattenSeq(longer) = g[n + 1]
  BY <1>1, FlattenIs
<1>3. \A i \in 1..(n + 1) : g[i] = IF i = 1 THEN longer[i] ELSE g[i - 1] \o longer[i]
  BY <1>2, Zenon DEF Flattens
<1>4. CASE seqs = <<>>
  <2>1. n = 0
    BY <1>4
  <2>2. g[1] = x
    BY <1>1, <1>3, <2>1
  <2> QED BY <1>2, <1>4, <2>1, <2>2 DEF longer
<1>5. CASE seqs # <<>>
  <2>1. n # 0
    BY <1>5, EmptySeq
  <2>2. PICK f : Flattens(f, seqs, n) /\ FlattenSeq(seqs) = f[n]
    BY <2>1, FlattenIs
  <2> HIDE DEF n
  <2>3. /\ n + 1 \in Nat /\ n <= n + 1 /\ n \in 1..n
        /\ n + 1 \in 1..(n + 1) /\ n + 1 # 1 /\ (n + 1) - 1 = n
    BY <1>1, <2>1
  <2>4. \A i \in 1..n : seqs[i] = longer[i]
    BY <1>1, Zenon
  <2>5. \A i \in 1..n : f[i] = g[i]
    <3>1. Flattens(f, seqs, n) /\ Flattens(g, longer, n + 1) /\ n \in Nat
      BY <1>1, <1>2, <2>2, Zenon
    <3> QED BY <2>3, <2>4, <3>1, FlattensAgree
  <2>6. g[n + 1] = g[n] \o x
    BY <1>1, <1>3, <2>3, Zenon
  <2>7. f[n] = g[n]
    BY <2>3, <2>5, Zenon
  <2> QED BY <1>2, <1>5, <2>2, <2>6, <2>7, Zenon DEF longer
<1> QED BY <1>4, <1>5

\* Sequences over a set put together are one over that set, and Append adds to it.
LEMMA FlattenType ==
  ASSUME NEW S
  PROVE  \A seqs \in Seq(Seq(S)) : FlattenSeq(seqs) \in Seq(S)
<1> DEFINE G == {s \in Seq(Seq(S)) : FlattenSeq(s) \in Seq(S)}
<1>1. <<>> \in G
  BY FlattenEmpty, EmptySeq
<1>2. ASSUME NEW s \in Seq(Seq(S)), NEW x \in Seq(S), s \in G PROVE Append(s, x) \in G
  <2>1. Append(s, x) \in Seq(Seq(S))
    BY AppendProperties
  <2>2. FlattenSeq(s) \o x \in Seq(S)
    BY <1>2, ConcatProperties
  <2> QED BY <2>1, <2>2, FlattenAppend
<1> HIDE DEF G
<1>3. Seq(Seq(S)) \subseteq G
  BY <1>1, <1>2, SequenceInduction
<1> QED BY <1>3 DEF G

\* A sequence that is added at the end comes last, whether it is the first or not.
LEMMA FlattenSnoc ==
  ASSUME NEW S, NEW seqs \in Seq(Seq(S)), NEW x \in Seq(S)
  PROVE  FlattenSeq(Append(seqs, x)) = FlattenSeq(seqs) \o x
<1>1. <<>> \o x = x
  BY ConcatEmptySeq
<1> QED BY <1>1, FlattenAppend, FlattenEmpty

\* Putting together goes with concatenation.
LEMMA FlattenConcat ==
  ASSUME NEW S, NEW seqs \in Seq(Seq(S))
  PROVE  \A more \in Seq(Seq(S)) : FlattenSeq(seqs \o more) = FlattenSeq(seqs) \o FlattenSeq(more)
<1> DEFINE G == {m \in Seq(Seq(S)) : FlattenSeq(seqs \o m) = FlattenSeq(seqs) \o FlattenSeq(m)}
<1>1. <<>> \in G
  <2>1. seqs \o <<>> = seqs /\ FlattenSeq(seqs) \o <<>> = FlattenSeq(seqs)
    BY FlattenType, ConcatEmptySeq
  <2> QED BY <2>1, FlattenEmpty, EmptySeq
<1>2. ASSUME NEW m \in Seq(Seq(S)), NEW x \in Seq(S), m \in G PROVE Append(m, x) \in G
  <2>1. Append(m, x) \in Seq(Seq(S)) /\ seqs \o Append(m, x) = Append(seqs \o m, x)
    BY AppendProperties, AppendIsConcat, ConcatAssociative, ConcatProperties
  <2>2. /\ seqs \o m \in Seq(Seq(S)) /\ FlattenSeq(seqs) \in Seq(S) /\ FlattenSeq(m) \in Seq(S)
        /\ FlattenSeq(seqs \o m) = FlattenSeq(seqs) \o FlattenSeq(m)
    BY <1>2, FlattenType, ConcatProperties
  <2>3. FlattenSeq(Append(seqs \o m, x)) = FlattenSeq(seqs \o m) \o x
    BY <2>2, FlattenSnoc, Zenon
  <2>4. FlattenSeq(Append(m, x)) = FlattenSeq(m) \o x
    BY FlattenSnoc, Zenon
  <2>5. (FlattenSeq(seqs) \o FlattenSeq(m)) \o x = FlattenSeq(seqs) \o (FlattenSeq(m) \o x)
    BY <2>2, ConcatAssociative, SMTT(30)
  <2>6. FlattenSeq(seqs \o Append(m, x)) = FlattenSeq(seqs) \o FlattenSeq(Append(m, x))
    BY <2>1, <2>2, <2>3, <2>4, <2>5, Zenon
  <2> QED BY <2>1, <2>6
<1> HIDE DEF G
<1>3. Seq(Seq(S)) \subseteq G
  BY <1>1, <1>2, SequenceInduction
<1> QED BY <1>3 DEF G

\* The first n sequences of g put together from the last to the first.
Back(g, n) == FlattenSeq([i \in 1..n |-> g[n + 1 - i]])

\* That is a sequence, of which the last of them is the first part.
LEMMA BackStep ==
  ASSUME NEW S, NEW n \in Nat, NEW g, \A i \in 1..n : g[i] \in Seq(S)
  PROVE  /\ Back(g, n) \in Seq(S)
         /\ n = 0 => Back(g, n) = <<>>
         /\ n # 0 => Back(g, n) = g[n] \o Back(g, n - 1)
<1> DEFINE b(m) == [i \in 1..m |-> g[m + 1 - i]]
<1>1. ASSUME NEW m \in Nat, m <= n
      PROVE  b(m) \in Seq(Seq(S)) /\ Len(b(m)) = m /\ Back(g, m) \in Seq(S)
  <2>1. \A i \in 1..m : m + 1 - i \in 1..n
    BY <1>1
  <2>2. b(m) \in [1..m -> Seq(S)]
    BY <2>1
  <2>3. b(m) \in Seq(Seq(S))
    BY <2>2, SeqDef
  <2>4. Len(b(m)) = m
    <3>1. DOMAIN b(m) = 1..m /\ DOMAIN b(m) = 1..Len(b(m)) /\ Len(b(m)) \in Nat
      BY <2>3, LenProperties
    <3> QED BY <3>1
  <2>5. Back(g, m) = FlattenSeq(b(m))
    BY Zenon DEF Back
  <2> HIDE DEF b
  <2> QED BY <2>3, <2>4, <2>5, FlattenType, Zenon
<1>2. n = 0 => Back(g, n) = <<>>
  <2>1. n = 0 => b(n) = <<>>
    OBVIOUS
  <2> QED BY <2>1, FlattenEmpty DEF Back
<1>3. ASSUME n # 0 PROVE Back(g, n) = g[n] \o Back(g, n - 1)
  <2> DEFINE x == g[n]
  <2>1. n - 1 \in Nat /\ n - 1 <= n /\ x \in Seq(S)
    BY <1>3
  <2>2. /\ b(n) \in Seq(Seq(S)) /\ Len(b(n)) = n
        /\ b(n - 1) \in Seq(Seq(S)) /\ Len(b(n - 1)) = n - 1
    BY <1>1, <2>1
  <2>3. <<x>> \in Seq(Seq(S)) /\ Len(<<x>>) = 1 /\ <<x>>[1] = x
    BY <2>1
  <2>4. /\ <<x>> \o b(n - 1) \in Seq(Seq(S)) /\ Len(<<x>> \o b(n - 1)) = n
        /\ \A i \in 1..n : (<<x>> \o b(n - 1))[i] = IF i <= 1 THEN x ELSE b(n - 1)[i - 1]
    <3> HIDE DEF b, x
    <3>1. /\ <<x>> \o b(n - 1) \in Seq(Seq(S))
          /\ Len(<<x>> \o b(n - 1)) = Len(<<x>>) + Len(b(n - 1))
          /\ \A i \in 1..(Len(<<x>>) + Len(b(n - 1))) :
               (<<x>> \o b(n - 1))[i] = IF i <= Len(<<x>>) THEN <<x>>[i] ELSE b(n - 1)[i - Len(<<x>>)]
      BY <2>2, <2>3, ConcatProperties
    <3>2. Len(<<x>>) + Len(b(n - 1)) = n
      BY <2>2, <2>3
    <3> QED BY <2>3, <3>1, <3>2
  <2>5. ASSUME NEW i \in 1..n PROVE b(n)[i] = (<<x>> \o b(n - 1))[i]
    <3>1. CASE i = 1
      BY <2>4, <3>1
    <3>2. CASE i # 1
      <4>1. i - 1 \in 1..(n - 1) /\ (n - 1) + 1 - (i - 1) = n + 1 - i
        BY <3>2
      <4>2. b(n - 1)[i - 1] = g[n + 1 - i]
        BY <4>1
      <4>3. (<<x>> \o b(n - 1))[i] = b(n - 1)[i - 1]
        BY <2>4, <3>2
      <4> QED BY <4>2, <4>3
    <3> QED BY <3>1, <3>2
  <2>6. b(n) = <<x>> \o b(n - 1)
    <3> HIDE DEF b, x
    <3> QED BY <2>2, <2>4, <2>5, SeqEqual
  <2>7. FlattenSeq(<<x>>) = x
    <3>1. <<x>> = Append(<<>>, x) /\ <<>> \in Seq(Seq(S))
      OBVIOUS
    <3> HIDE DEF x
    <3> QED BY <2>1, <3>1, FlattenAppend
  <2>8. Back(g, n) = FlattenSeq(b(n)) /\ Back(g, n - 1) = FlattenSeq(b(n - 1))
    BY Zenon DEF Back
  <2> HIDE DEF b, x
  <2>9. FlattenSeq(<<x>> \o b(n - 1)) = FlattenSeq(<<x>>) \o FlattenSeq(b(n - 1))
    BY <2>2, <2>3, FlattenConcat, Zenon
  <2> QED BY <2>6, <2>7, <2>8, <2>9, Zenon DEF x
<1>4. Back(g, n) \in Seq(S)
  BY <1>1
<1> QED BY <1>2, <1>3, <1>4

\* It depends on these alone.
LEMMA BackSame ==
  ASSUME NEW n \in Nat, NEW g, NEW h, \A i \in 1..n : g[i] = h[i]
  PROVE  Back(g, n) = Back(h, n)
<1>1. \A i \in 1..n : n + 1 - i \in 1..n
  OBVIOUS
<1>2. [i \in 1..n |-> g[n + 1 - i]] = [i \in 1..n |-> h[n + 1 - i]]
  BY <1>1
<1> QED BY <1>2, Zenon DEF Back

\* What f makes of the elements of a sequence, put together.
FlatMap(f, seq) == FlattenSeq([i \in 1..Len(seq) |-> f[seq[i]]])

\* What f makes of each is a sequence of sequences.
LEMMA MapType ==
  ASSUME NEW P, NEW S, NEW f \in [P -> Seq(S)], NEW seq \in Seq(P)
  PROVE  /\ [i \in 1..Len(seq) |-> f[seq[i]]] \in Seq(Seq(S))
         /\ Len([i \in 1..Len(seq) |-> f[seq[i]]]) = Len(seq)
<1>1. Len(seq) \in Nat /\ \A i \in 1..Len(seq) : f[seq[i]] \in Seq(S)
  BY LenProperties, ElementOfSeq
<1>2. [i \in 1..Len(seq) |-> f[seq[i]]] \in [1..Len(seq) -> Seq(S)]
  BY <1>1, Zenon
<1>3. [i \in 1..Len(seq) |-> f[seq[i]]] \in Seq(Seq(S))
  BY <1>1, <1>2, SeqDef
<1> QED BY <1>1, <1>3, LenProperties

\* Put together, it is one sequence.
LEMMA FlatMapType ==
  ASSUME NEW P, NEW S, NEW f \in [P -> Seq(S)], NEW seq \in Seq(P)
  PROVE  FlatMap(f, seq) \in Seq(S)
<1>1. [i \in 1..Len(seq) |-> f[seq[i]]] \in Seq(Seq(S))
  BY MapType
<1> QED BY <1>1, FlattenType, Zenon DEF FlatMap

\* Nothing comes of nothing,
LEMMA FlatMapEmpty == ASSUME NEW f PROVE FlatMap(f, <<>>) = <<>>
<1>1. [i \in 1..Len(<<>>) |-> f[<<>>[i]]] = <<>>
  BY EmptySeq
<1> QED BY <1>1, FlattenEmpty DEF FlatMap

\* and of one element what f makes of it.
LEMMA FlatMapOne ==
  ASSUME NEW P, NEW S, NEW f \in [P -> Seq(S)], NEW x \in P
  PROVE  FlatMap(f, <<x>>) = f[x]
<1>1. /\ [i \in 1..Len(<<x>>) |-> f[<<x>>[i]]] = <<f[x]>>
      /\ f[x] \in Seq(S) /\ <<>> \in Seq(Seq(S))
  OBVIOUS
<1>2. <<f[x]>> = Append(<<>>, f[x])
  OBVIOUS
<1>3. FlattenSeq(Append(<<>>, f[x])) = f[x]
  BY <1>1, FlattenAppend
<1> QED BY <1>1, <1>2, <1>3 DEF FlatMap

\* It goes with concatenation.
LEMMA FlatMapConcat ==
  ASSUME NEW P, NEW S, NEW f \in [P -> Seq(S)], NEW s \in Seq(P), NEW t \in Seq(P)
  PROVE  FlatMap(f, s \o t) = FlatMap(f, s) \o FlatMap(f, t)
<1> DEFINE m(q) == [i \in 1..Len(q) |-> f[q[i]]]
<1>1. /\ s \o t \in Seq(P) /\ Len(s \o t) = Len(s) + Len(t)
      /\ \A i \in 1..(Len(s) + Len(t)) :
           (s \o t)[i] = IF i <= Len(s) THEN s[i] ELSE t[i - Len(s)]
      /\ Len(s) \in Nat /\ Len(t) \in Nat
  BY ConcatProperties, LenProperties
<1>2. /\ m(s) \in Seq(Seq(S)) /\ m(t) \in Seq(Seq(S)) /\ m(s \o t) \in Seq(Seq(S))
      /\ Len(m(s)) = Len(s) /\ Len(m(t)) = Len(t) /\ Len(m(s \o t)) = Len(s) + Len(t)
  BY <1>1, MapType
<1>3. /\ m(s) \o m(t) \in Seq(Seq(S)) /\ Len(m(s) \o m(t)) = Len(s) + Len(t)
      /\ \A i \in 1..(Len(s) + Len(t)) :
           (m(s) \o m(t))[i] = IF i <= Len(s) THEN m(s)[i] ELSE m(t)[i - Len(s)]
  BY <1>2, ConcatProperties
<1>4. ASSUME NEW i \in 1..(Len(s) + Len(t)) PROVE m(s \o t)[i] = (m(s) \o m(t))[i]
  <2>1. m(s \o t)[i] = f[(s \o t)[i]]
    BY <1>1
  <2>2. CASE i <= Len(s)
    BY <1>1, <1>3, <2>1, <2>2
  <2>3. CASE ~ (i <= Len(s))
    <3>1. i - Len(s) \in 1..Len(t)
      BY <1>1, <2>3
    <3> QED BY <1>1, <1>3, <2>1, <2>3, <3>1
  <2> QED BY <2>2, <2>3
<1> HIDE DEF m
<1>5. m(s \o t) = m(s) \o m(t)
  BY <1>2, <1>3, <1>4, SeqEqual
<1> QED BY <1>2, <1>5, FlattenConcat DEF FlatMap, m

-----------------------------------------------------------------------------
(* Recursion over data with a size *)

\* F makes a function of one, and looks at it only below the argument.
Recurses(F, P, V, size) ==
  /\ size \in [P -> Nat] /\ F \in [[P -> V] -> [P -> V]] /\ [P -> V] # {}
  /\ \A g, h \in [P -> V], p \in P :
       (\A q \in P : size[q] < size[p] => g[q] = h[q]) => F[g][p] = F[h][p]

\* What holds of an element if it holds of all that are smaller holds of all.
LEMMA SizeInduction ==
  ASSUME NEW P, NEW size \in [P -> Nat], NEW G,
         \A p \in P : (\A q \in P : size[q] < size[p] => q \in G) => p \in G
  PROVE  P \subseteq G
<1> DEFINE H == {n \in Nat : \A p \in P : size[p] < n => p \in G}
<1>1. 0 \in H
  OBVIOUS
<1>2. ASSUME NEW n \in Nat, n \in H PROVE n + 1 \in H
  <2>1. ASSUME NEW p \in P, size[p] < n + 1 PROVE p \in G
    <3>1. \A q \in P : size[q] < size[p] => size[q] < n
      BY <2>1
    <3> QED BY <1>2, <3>1
  <2> QED BY <2>1
<1>3. Nat \subseteq H
  <2> HIDE DEF H
  <2> QED BY <1>1, <1>2, NaturalInduction
<1>4. ASSUME NEW p \in P PROVE p \in G
  <2>1. size[p] + 1 \in H /\ size[p] < size[p] + 1
    BY <1>3
  <2> QED BY <2>1
<1> QED BY <1>4

\* Such a recursion defines a function.
LEMMA Recursion ==
  ASSUME NEW P, NEW V, NEW size, NEW F, Recurses(F, P, V, size)
  PROVE  \E f : f \in [P -> V] /\ f = F[f]
<1>0. /\ size \in [P -> Nat] /\ F \in [[P -> V] -> [P -> V]]
      /\ \A g, h \in [P -> V], p \in P :
           (\A q \in P : size[q] < size[p] => g[q] = h[q]) => F[g][p] = F[h][p]
  BY Zenon DEF Recurses
<1> DEFINE Upto(n) == {g \in [P -> V] : \A p \in P : size[p] < n => g[p] = F[g][p]}
           H == {n \in Nat : Upto(n) # {}}
<1>1. 0 \in H
  <2>1. PICK g : g \in [P -> V]
    BY Zenon DEF Recurses
  <2>2. g \in Upto(0)
    BY <1>0, <2>1
  <2> QED BY <2>2
<1>2. ASSUME NEW n \in Nat, n \in H PROVE n + 1 \in H
  <2>1. PICK g \in [P -> V] : \A p \in P : size[p] < n => g[p] = F[g][p]
    BY <1>2
  <2>2. F[g] \in [P -> V]
    BY <1>0
  <2>3. ASSUME NEW p \in P, size[p] < n + 1 PROVE F[g][p] = F[F[g]][p]
    <3>1. \A q \in P : size[q] < size[p] => size[q] < n
      BY <1>0, <2>3
    <3>2. \A q \in P : size[q] < size[p] => g[q] = F[g][q]
      BY <2>1, <3>1, Zenon
    <3> QED BY <2>2, <3>2, <1>0, Zenon
  <2>4. F[g] \in Upto(n + 1)
    BY <2>2, <2>3, Zenon
  <2> QED BY <2>4
<1>3. Nat \subseteq H
  <2> HIDE DEF H
  <2> QED BY <1>1, <1>2, NaturalInduction
\* Two that are right up to different sizes agree as far as both are.
<1>4. ASSUME NEW n \in Nat, NEW m \in Nat, NEW g \in Upto(n), NEW h \in Upto(m)
      PROVE  \A p \in P : size[p] < n /\ size[p] < m => g[p] = h[p]
  <2> DEFINE G == {p \in P : size[p] < n /\ size[p] < m => g[p] = h[p]}
  <2>1. ASSUME NEW p \in P, \A q \in P : size[q] < size[p] => q \in G PROVE p \in G
    <3> SUFFICES ASSUME size[p] < n, size[p] < m PROVE g[p] = h[p]
      OBVIOUS
    <3>1. \A q \in P : size[q] < size[p] => size[q] < n /\ size[q] < m
      BY <1>0
    <3>2. \A q \in P : size[q] < size[p] => g[q] = h[q]
      BY <2>1, <3>1, Zenon
    <3>3. F[g][p] = F[h][p]
      BY <3>2, <1>0, Zenon
    <3> QED BY <3>3
  <2> HIDE DEF G
  <2>2. P \subseteq G
    BY <1>0, <2>1, SizeInduction
  <2> QED BY <2>2 DEF G
<1> DEFINE best(p) == CHOOSE g : g \in Upto(size[p] + 1)
           f == [p \in P |-> best(p)[p]]
<1>5. ASSUME NEW p \in P PROVE best(p) \in Upto(size[p] + 1)
  <2>1. size[p] + 1 \in Nat
    BY <1>0
  <2>2. \E g : g \in Upto(size[p] + 1)
    BY <1>3, <2>1
  <2> HIDE DEF Upto
  <2> QED BY <2>2, Zenon
<1> HIDE DEF best
<1>6. f \in [P -> V]
  BY <1>0, <1>5
<1>7. ASSUME NEW p \in P PROVE f[p] = F[f][p]
  <2>1. ASSUME NEW q \in P, size[q] < size[p] PROVE f[q] = best(p)[q]
    <3>1. /\ best(q) \in Upto(size[q] + 1) /\ best(p) \in Upto(size[p] + 1)
          /\ size[q] + 1 \in Nat /\ size[p] + 1 \in Nat
          /\ size[q] < size[q] + 1 /\ size[q] < size[p] + 1
      BY <1>0, <1>5, <2>1
    <3> HIDE DEF Upto
    <3>2. \A r \in P : size[r] < size[q] + 1 /\ size[r] < size[p] + 1 => best(q)[r] = best(p)[r]
      BY <1>4, <3>1
    <3> QED BY <3>1, <3>2
  <2>2. best(p) \in [P -> V] /\ best(p)[p] = F[best(p)][p]
    <3>1. size[p] < size[p] + 1
      BY <1>0
    <3>2. best(p) \in Upto(size[p] + 1)
      BY <1>5, Zenon
    <3> QED BY <3>1, <3>2
  <2>3. F[f][p] = F[best(p)][p]
    BY <1>6, <2>1, <2>2, <1>0, Zenon
  <2> QED BY <2>2, <2>3
<1>8. F[f] \in [P -> V]
  BY <1>0, <1>6
<1>9. f = F[f]
  BY <1>6, <1>7, <1>8
<1> QED BY <1>6, <1>9
=============================================================================
