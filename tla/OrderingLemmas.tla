--------------------------- MODULE OrderingLemmas ---------------------------
(***************************************************************************)
(* What sorting and filtering return, for every finite set, every strict   *)
(* total order of its elements and every sequence.                         *)
(***************************************************************************)
EXTENDS Ordering, Sequences, FunctionTheorems, FiniteSetTheorems, TLAPS

\* less orders S strictly, and any two of its elements.
Orders(less, S) ==
    /\ \A x \in S : <<x, x>> \notin less
    /\ \A x, y, z \in S : <<x, y>> \in less /\ <<y, z>> \in less => <<x, z>> \in less
    /\ \A x, y \in S : x = y \/ <<x, y>> \in less \/ <<y, x>> \in less

\* The elements of S before x.
Before(x, S, less) == {y \in S : <<y, x>> \in less}

\* An element has fewer elements before it than one that comes later.
LEMMA FewerBefore ==
    ASSUME NEW S, IsFiniteSet(S), NEW less, Orders(less, S),
           NEW x \in S, NEW z \in S, <<x, z>> \in less
    PROVE  /\ Cardinality(Before(x, S, less)) \in Nat
           /\ Cardinality(Before(z, S, less)) \in Nat
           /\ Cardinality(Before(x, S, less)) < Cardinality(Before(z, S, less))
<1>1. Before(x, S, less) \subseteq Before(z, S, less)
  BY DEF Before, Orders
<1>2. x \in Before(z, S, less) /\ x \notin Before(x, S, less)
  BY DEF Before, Orders
<1>3. Before(x, S, less) \in SUBSET S /\ Before(z, S, less) \in SUBSET S
  BY DEF Before
<1>4. IsFiniteSet(Before(x, S, less)) /\ IsFiniteSet(Before(z, S, less))
  BY <1>3, FS_Subset
<1>5. /\ Cardinality(Before(x, S, less)) <= Cardinality(Before(z, S, less))
      /\ Cardinality(Before(x, S, less)) # Cardinality(Before(z, S, less))
  BY <1>1, <1>2, <1>4, FS_Subset
<1>. QED
  BY <1>4, <1>5, FS_CardinalityType

\* The element at each place is the only one with that many before it, and
\* every element has its place.
LEMMA PlaceOfEach ==
    ASSUME NEW S, IsFiniteSet(S), NEW less, Orders(less, S)
    PROVE  /\ Cardinality(S) \in Nat
           /\ \A x \in S : Cardinality(Before(x, S, less)) + 1 \in 1 .. Cardinality(S)
           /\ \A x, z \in S :
                 Cardinality(Before(x, S, less)) = Cardinality(Before(z, S, less)) => x = z
           /\ \A i \in 1 .. Cardinality(S) : \E x \in S : Cardinality(Before(x, S, less)) = i - 1
<1>. DEFINE n        == Cardinality(S)
            place(x) == Cardinality(Before(x, S, less)) + 1
            f        == [x \in S |-> place(x)]
<1>1. n \in Nat
  BY FS_CardinalityType
<1>2. ASSUME NEW x \in S
      PROVE  place(x) \in 1 .. n
  <2>1. Before(x, S, less) \in SUBSET S /\ Before(x, S, less) # S
    BY DEF Before, Orders
  <2>2. IsFiniteSet(Before(x, S, less)) /\ Cardinality(Before(x, S, less)) <= n
        /\ n # Cardinality(Before(x, S, less))
    BY <2>1, FS_Subset
  <2>3. Cardinality(Before(x, S, less)) \in Nat
    BY <2>2, FS_CardinalityType
  <2>. QED
    BY <2>2, <2>3, <1>1
<1>3. ASSUME NEW x \in S, NEW z \in S, place(x) = place(z)
      PROVE  x = z
  <2>1. CASE <<x, z>> \in less
    BY <2>1, <1>3, FewerBefore
  <2>2. CASE <<z, x>> \in less
    BY <2>2, <1>3, FewerBefore
  <2>. QED
    BY <2>1, <2>2 DEF Orders
<1>4. \A x \in S : Cardinality(Before(x, S, less)) \in Nat
  <2>. SUFFICES ASSUME NEW x \in S PROVE Cardinality(Before(x, S, less)) \in Nat
    OBVIOUS
  <2>1. IsFiniteSet(Before(x, S, less))
    BY FS_Subset DEF Before
  <2>. QED
    BY <2>1, FS_CardinalityType
<1>. HIDE DEF place
<1>5. f \in Injection(S, 1 .. n)
  BY <1>2, <1>3 DEF Injection, IsInjective
<1>6. IsFiniteSet(1 .. n) /\ Cardinality(1 .. n) = n
  <2>1. IsFiniteSet(1 .. n) /\ Cardinality(1 .. n) = IF 1 > n THEN 0 ELSE n - 1 + 1
    BY <1>1, FS_Interval
  <2>. QED
    BY <2>1, <1>1
<1>7. f \in Surjection(S, 1 .. n)
  BY <1>5, <1>6, FS_Injection
<1>8. \A i \in 1 .. n : \E x \in S : place(x) = i
  BY <1>7 DEF Surjection
<1>. QED
  BY <1>1, <1>2, <1>3, <1>4, <1>8 DEF place

\* in_order lists the elements of S once each, in the order less.
LEMMA InOrder ==
    ASSUME NEW S, IsFiniteSet(S), NEW less, Orders(less, S)
    PROVE  LET s == in_order(S, less)
           IN  /\ Cardinality(S) \in Nat
               /\ s \in [1 .. Cardinality(S) -> S]
               /\ {s[i] : i \in DOMAIN s} = S
               /\ \A i, j \in DOMAIN s : i < j => <<s[i], s[j]>> \in less
<1>. DEFINE s     == in_order(S, less)
            n     == Cardinality(S)
            at(x) == Cardinality(Before(x, S, less))
<1>1. s = [i \in 1 .. n |-> CHOOSE x \in S : at(x) = i - 1]
  BY DEF in_order, Before
<1>2. /\ n \in Nat
      /\ \A x \in S : at(x) + 1 \in 1 .. n
      /\ \A x, z \in S : at(x) = at(z) => x = z
      /\ \A i \in 1 .. n : \E x \in S : at(x) = i - 1
  BY PlaceOfEach
<1>2a. \A x \in S : at(x) \in Nat
  <2>. SUFFICES ASSUME NEW x \in S PROVE at(x) \in Nat
    OBVIOUS
  <2>1. IsFiniteSet(Before(x, S, less))
    BY FS_Subset DEF Before
  <2>. QED
    BY <2>1, FS_CardinalityType
<1>3. \A x, z \in S : <<x, z>> \in less => at(x) < at(z)
  BY FewerBefore
<1>. HIDE DEF at, s
<1>4. \A i \in 1 .. n : s[i] \in S /\ at(s[i]) = i - 1
  BY <1>1, <1>2
<1>5. s \in [1 .. n -> S]
  BY <1>1, <1>4
<1>6. \A x \in S : s[at(x) + 1] = x
  BY <1>2, <1>2a, <1>4
<1>7. \A i, j \in 1 .. n : i < j => <<s[i], s[j]>> \in less
  <2>. SUFFICES ASSUME NEW i \in 1 .. n, NEW j \in 1 .. n, i < j PROVE <<s[i], s[j]>> \in less
    OBVIOUS
  <2>1. at(s[i]) < at(s[j])
    BY <1>4, <1>2
  <2>2. s[i] # s[j] /\ s[i] \in S /\ s[j] \in S
    BY <1>4, <2>1, <1>2a
  <2>3. <<s[j], s[i]>> \notin less
    BY <1>3, <1>4, <2>1, <2>2, <1>2a
  <2>. QED
    BY <2>2, <2>3 DEF Orders
<1>8. {s[i] : i \in DOMAIN s} = S
  BY <1>2, <1>4, <1>5, <1>6
<1>. QED
  BY <1>2, <1>5, <1>7, <1>8 DEF s

\* Where the positions that are kept come before those that are not, what is
\* kept is the first part of the sequence.
LEMMA KeptFirst ==
    ASSUME NEW T, NEW s \in Seq(T), NEW I \in SUBSET DOMAIN s,
           \A i \in I : \A j \in DOMAIN s : j < i => j \in I
    PROVE  LET kept == at_positions(s, I)
           IN  kept \in Seq(T) /\ kept = SubSeq(s, 1, Len(kept))
<1>. DEFINE less  == {p \in I \X I : p[1] < p[2]}
            place == in_order(I, less)
            n     == Cardinality(I)
<1>1. Len(s) \in Nat /\ DOMAIN s = 1 .. Len(s)
  OBVIOUS
<1>2. IsFiniteSet(I)
  <2>1. IsFiniteSet(1 .. Len(s))
    BY <1>1, FS_Interval
  <2>. QED
    BY <1>1, <2>1, FS_Subset
<1>3. \A x, y \in I : <<x, y>> \in less <=> x < y
  OBVIOUS
<1>4. Orders(less, I)
  BY <1>1, <1>3 DEF Orders
<1>5. \A x \in I : Cardinality({y \in I : <<y, x>> \in less}) = x - 1
  <2>. SUFFICES ASSUME NEW x \in I PROVE Cardinality({y \in I : <<y, x>> \in less}) = x - 1
    OBVIOUS
  <2>1. x \in Nat /\ x >= 1
    BY <1>1
  <2>2. {y \in I : <<y, x>> \in less} = 1 .. x - 1
    BY <1>1, <1>3, <2>1
  <2>3. PICK m \in Nat : m = x - 1
    BY <2>1
  <2>4. Cardinality(1 .. m) = IF 1 > m THEN 0 ELSE m - 1 + 1
    BY FS_Interval
  <2>5. Cardinality(1 .. m) = m
    BY <2>4
  <2>. HIDE DEF less
  <2>6. {y \in I : <<y, x>> \in less} = 1 .. m
    BY <2>2, <2>3
  <2>. QED
    BY <2>3, <2>5, <2>6
<1>6. /\ n \in Nat
      /\ place \in [1 .. n -> I]
      /\ {place[i] : i \in DOMAIN place} = I
  <2>. HIDE DEF less
  <2>. QED
    BY <1>2, <1>4, InOrder
<1>7. \A i \in 1 .. n : \E x \in I : Cardinality({y \in I : <<y, x>> \in less}) = i - 1
  BY <1>2, <1>4, PlaceOfEach DEF Before
<1>8. place = [i \in 1 .. n |-> CHOOSE x \in I : Cardinality({y \in I : <<y, x>> \in less}) = i - 1]
  BY DEF in_order
<1>9. \A i \in 1 .. n : place[i] = i /\ i \in I
  <2>. SUFFICES ASSUME NEW i \in 1 .. n PROVE place[i] = i /\ i \in I
    OBVIOUS
  <2>. DEFINE at(x) == Cardinality({y \in I : <<y, x>> \in less})
  <2>1. PICK x \in I : at(x) = i - 1
    BY <1>7
  <2>2. place[i] = CHOOSE y \in I : at(y) = i - 1
    BY <1>8
  <2>3. at(place[i]) = i - 1 /\ place[i] \in I
    BY <2>1, <2>2
  <2>4. at(place[i]) = place[i] - 1
    BY <1>5, <2>3
  <2>. HIDE DEF at, place
  <2>. QED
    BY <1>1, <1>6, <2>3, <2>4
<1>10. at_positions(s, I) = [i \in DOMAIN place |-> s[place[i]]]
  BY DEF at_positions
<1>. HIDE DEF less, place, n
<1>11. DOMAIN place = 1 .. n /\ \A i \in 1 .. n : i \in 1 .. Len(s)
  BY <1>1, <1>6, <1>9
<1>12. at_positions(s, I) = [i \in 1 .. n |-> s[i]]
  BY <1>9, <1>10, <1>11
<1>13. n <= Len(s)
  BY <1>1, <1>6, <1>11
<1>14. SubSeq(s, 1, n) = [i \in 1 .. n |-> s[i]] /\ SubSeq(s, 1, n) \in Seq(T) /\ Len(SubSeq(s, 1, n)) = n
  BY <1>1, <1>6, <1>13
<1>. QED
  BY <1>12, <1>14
=============================================================================
