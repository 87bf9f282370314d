-------------------------- MODULE QueueMailProofs --------------------------
(***************************************************************************)
(* Mail between any number of hosts under any names, over any relays: what *)
(* is accepted is what was sent, unaltered mail opens, and an address      *)
(* decodes to what it was made of.                                         *)
(***************************************************************************)
EXTENDS QueueMail, SequenceTheorems, WellFoundedInduction, TLAPS

-----------------------------------------------------------------------------
(* Numbers and sequences *)

\* A nonempty set of naturals has a least element.
LEMMA Least ==
    ASSUME NEW T, T \subseteq Nat, T # {}
    PROVE  \E x \in T : \A y \in T : x <= y
<1>1. PICK x \in T : \A y \in T : ~(<<y, x>> \in OpToRel(<, Nat))
  BY WFMin, NatLessThanWellFounded, Zenon
<1>2. \A y \in T : ~(y < x)
  <2>. SUFFICES ASSUME NEW y \in T, y < x PROVE FALSE
    OBVIOUS
  <2>1. <<y, x>> \in OpToRel(<, Nat)
    BY DEF OpToRel
  <2>. QED
    BY <2>1, <1>1
<1>. QED
  BY <1>2

\* The first n of the parts joined, for every n.
Joins(parts, n, g) ==
    g = [i \in 1 .. n |-> IF i = 1 THEN parts[i] ELSE g[i - 1] \o parts[i]]

\* Parts of any number can be joined one after the other.
LEMMA JoinExists ==
    ASSUME NEW A, NEW parts \in Seq(Seq(A)), NEW n \in 1 .. Len(parts)
    PROVE  \E g \in [1 .. n -> Seq(A)] : Joins(parts, n, g)
<1>. DEFINE T == {k \in 1 .. Len(parts) : ~ \E g \in [1 .. k -> Seq(A)] : Joins(parts, k, g)}
<1>. SUFFICES ASSUME T # {} PROVE FALSE
  OBVIOUS
<1>0. T \subseteq Nat
  OBVIOUS
<1>1. PICK k \in T : \A j \in T : k <= j
  <2>. HIDE DEF T
  <2>. QED
    BY <1>0, Least
<1>2. k \in 1 .. Len(parts) /\ \A i \in 1 .. Len(parts) : parts[i] \in Seq(A)
  OBVIOUS
<1>3. CASE k = 1
  <2>. DEFINE g == [i \in 1 .. 1 |-> parts[i]]
  <2>1. g \in [1 .. k -> Seq(A)]
    BY <1>2, <1>3
  <2>2. Joins(parts, k, g)
    BY <1>3 DEF Joins
  <2>. QED
    BY <2>1, <2>2
<1>4. CASE k # 1
  <2>1. k - 1 \in 1 .. Len(parts) /\ k - 1 \notin T
    <3>1. k - 1 \in 1 .. Len(parts) /\ ~(k <= k - 1)
      BY <1>2, <1>4
    <3>. HIDE DEF T
    <3>. QED
      BY <3>1, <1>1
  <2>2. PICK g \in [1 .. k - 1 -> Seq(A)] : Joins(parts, k - 1, g)
    BY <2>1
  <2>. DEFINE h == [i \in 1 .. k |-> IF i = k THEN g[k - 1] \o parts[k] ELSE g[i]]
  <2>3. g[k - 1] \in Seq(A) /\ g[k - 1] \o parts[k] \in Seq(A)
    BY <1>2, <1>4, <2>2
  <2>4. h \in [1 .. k -> Seq(A)]
    BY <2>3, <1>2
  <2>5. \A i \in 1 .. k - 1 : g[i] = IF i = 1 THEN parts[i] ELSE g[i - 1] \o parts[i]
    BY <2>2 DEF Joins
  <2>6. \A i \in 1 .. k : h[i] = IF i = 1 THEN parts[i] ELSE h[i - 1] \o parts[i]
    <3>. SUFFICES ASSUME NEW i \in 1 .. k
                  PROVE  h[i] = IF i = 1 THEN parts[i] ELSE h[i - 1] \o parts[i]
      OBVIOUS
    <3>1. CASE i = k
      <4>1. k \in 1 .. k /\ k - 1 \in 1 .. k /\ k - 1 # k
        BY <1>2, <1>4
      <4>2. h[k] = g[k - 1] \o parts[k] /\ h[k - 1] = g[k - 1]
        BY <4>1
      <4>. QED
        BY <3>1, <4>2, <1>4
    <3>2. CASE i # k
      <4>1. i \in 1 .. k - 1 /\ (i # 1 => i - 1 \in 1 .. k /\ i - 1 # k)
        BY <3>2, <1>2
      <4>2. h[i] = g[i] /\ (i # 1 => h[i - 1] = g[i - 1])
        BY <4>1, <3>2
      <4>. QED
        BY <4>1, <4>2, <2>5
    <3>. QED
      BY <3>1, <3>2
  <2>. HIDE DEF h
  <2>7. Joins(parts, k, h)
    BY <2>4, <2>6 DEF Joins
  <2>. QED
    BY <2>4, <2>7
<1>. QED
  BY <1>3, <1>4

\* There is one way to join them.
LEMMA JoinUnique ==
    ASSUME NEW parts, NEW n \in Nat, NEW f, NEW g, Joins(parts, n, f), Joins(parts, n, g)
    PROVE  f = g
<1>. DEFINE T == {i \in 1 .. n : f[i] # g[i]}
<1>1. /\ \A i \in 1 .. n : f[i] = IF i = 1 THEN parts[i] ELSE f[i - 1] \o parts[i]
      /\ \A i \in 1 .. n : g[i] = IF i = 1 THEN parts[i] ELSE g[i - 1] \o parts[i]
  BY DEF Joins
<1>2. T = {}
  <2>. SUFFICES ASSUME T # {} PROVE FALSE
    OBVIOUS
  <2>1. T \subseteq Nat
    OBVIOUS
  <2>2. PICK k \in T : \A j \in T : k <= j
    <3>. HIDE DEF T
    <3>. QED
      BY <2>1, Least
  <2>3. k \in 1 .. n /\ f[k] # g[k]
    OBVIOUS
  <2>4. k # 1
    BY <2>3, <1>1
  <2>5. k - 1 \in 1 .. n /\ ~(k <= k - 1)
    BY <2>3, <2>4
  <2>6. k - 1 \notin T
    <3>. HIDE DEF T
    <3>. QED
      BY <2>2, <2>5
  <2>7. f[k - 1] = g[k - 1]
    BY <2>5, <2>6
  <2>. QED
    BY <2>3, <2>4, <2>7, <1>1
<1>3. DOMAIN f = 1 .. n /\ DOMAIN g = 1 .. n /\ f = [i \in 1 .. n |-> f[i]] /\ g = [i \in 1 .. n |-> g[i]]
  BY DEF Joins
<1>. QED
  BY <1>2, <1>3

\* FlattenSeq joins its parts.
LEMMA FlattenJoins ==
    ASSUME NEW A, NEW parts \in Seq(Seq(A)), Len(parts) # 0
    PROVE  \E g \in [1 .. Len(parts) -> Seq(A)] :
              /\ FlattenSeq(parts) = g[Len(parts)]
              /\ Joins(parts, Len(parts), g)
<1>. DEFINE n == Len(parts)
            f == CHOOSE g : Joins(parts, n, g)
<1>1. n \in 1 .. Len(parts)
  OBVIOUS
<1>2. PICK g \in [1 .. n -> Seq(A)] : Joins(parts, n, g)
  BY <1>1, JoinExists
<1>3. FlattenSeq(parts) = f[n]
  BY DEF FlattenSeq, Joins
<1>4. Joins(parts, n, f)
  BY <1>2
<1>. HIDE DEF f
<1>5. f = g
  BY <1>1, <1>2, <1>4, JoinUnique
<1>. QED
  BY <1>2, <1>3, <1>5

\* Parts over A make a sequence over A.
LEMMA FlattenType ==
    ASSUME NEW A, NEW parts \in Seq(Seq(A))
    PROVE  FlattenSeq(parts) \in Seq(A)
<1>1. CASE Len(parts) = 0
  BY <1>1 DEF FlattenSeq
<1>2. CASE Len(parts) # 0
  <2>1. PICK g \in [1 .. Len(parts) -> Seq(A)] : FlattenSeq(parts) = g[Len(parts)]
    BY <1>2, FlattenJoins
  <2>2. Len(parts) \in 1 .. Len(parts)
    BY <1>2
  <2>. QED
    BY <2>1, <2>2
<1>. QED
  BY <1>1, <1>2

\* Parts of one element each make the sequence of these elements.
LEMMA FlattenSingles ==
    ASSUME NEW A, NEW s \in Seq(A)
    PROVE  FlattenSeq([i \in DOMAIN s |-> <<s[i]>>]) = s
<1>. DEFINE parts == [i \in DOMAIN s |-> <<s[i]>>]
            n     == Len(s)
<1>0. n \in Nat /\ DOMAIN s = 1 .. n /\ \A i \in 1 .. n : s[i] \in A
  OBVIOUS
<1>. HIDE DEF n
<1>1. parts \in Seq(Seq(A)) /\ Len(parts) = n /\ \A i \in 1 .. n : parts[i] = <<s[i]>>
  <2>1. \A i \in 1 .. n : <<s[i]>> \in Seq(A)
    BY <1>0
  <2>. HIDE DEF parts
  <2>2. parts \in [1 .. n -> Seq(A)] /\ \A i \in 1 .. n : parts[i] = <<s[i]>>
    BY <2>1, <1>0 DEF parts
  <2>. QED
    BY <2>2, <1>0
<1>2. CASE n = 0
  <2>. HIDE DEF parts
  <2>1. s = <<>> /\ parts = <<>>
    BY <1>1, <1>2, EmptySeq DEF n
  <2>2. FlattenSeq(parts) = parts
    BY <1>1, <1>2 DEF FlattenSeq
  <2>. QED
    BY <2>1, <2>2 DEF parts
<1>3. CASE n # 0
  <2>. DEFINE g == [i \in 1 .. n |-> SubSeq(s, 1, i)]
  <2>1. \A i \in 1 .. n : g[i] = IF i = 1 THEN parts[i] ELSE g[i - 1] \o parts[i]
    <3>. SUFFICES ASSUME NEW i \in 1 .. n
                  PROVE  g[i] = IF i = 1 THEN parts[i] ELSE g[i - 1] \o parts[i]
      OBVIOUS
    <3>. HIDE DEF parts
    <3>1. g[i] = SubSeq(s, 1, i) /\ parts[i] = <<s[i]>> /\ s[i] \in A
      BY <1>0, <1>1
    <3>2. CASE i = 1
      <4>1. SubSeq(s, 1, 1) \in Seq(A) /\ Len(SubSeq(s, 1, 1)) = 1 /\ SubSeq(s, 1, 1)[1] = s[1]
        BY <1>0, <1>3
      <4>2. SubSeq(s, 1, 1) = <<s[1]>>
        <5>1. <<s[1]>> \in Seq(A) /\ Len(<<s[1]>>) = 1 /\ <<s[1]>>[1] = s[1]
          BY <3>1, <3>2
        <5>2. \A j \in 1 .. Len(SubSeq(s, 1, 1)) : SubSeq(s, 1, 1)[j] = <<s[1]>>[j]
          BY <4>1
        <5>. HIDE DEF g
        <5>. QED
          BY ONLY <4>1, <5>1, <5>2, SeqEqual
      <4>. QED
        BY <3>1, <3>2, <4>2
    <3>3. CASE i # 1
      <4>1. g[i - 1] = SubSeq(s, 1, i - 1)
        BY <3>3, <1>0
      <4>2. SubSeq(s, 1, i) = SubSeq(s, 1, i - 1) \o <<s[i]>>
        BY <3>3, <1>0 DEF n
      <4>. QED
        BY <3>1, <3>3, <4>1, <4>2
    <3>. QED
      BY <3>2, <3>3
  <2>. HIDE DEF parts
  <2>2. Joins(parts, n, g)
    BY <2>1 DEF Joins
  <2>. HIDE DEF g
  <2>. USE <1>0
  <2>3. PICK f : FlattenSeq(parts) = f[n] /\ Joins(parts, n, f)
    BY <1>1, <1>3, FlattenJoins
  <2>4. f = g
    BY <1>1, <2>2, <2>3, JoinUnique
  <2>5. g[n] = s
    <3>1. n \in 1 .. n /\ SubSeq(s, 1, n) = s
      BY <1>3, SubSeqFull DEF n
    <3>. QED
      BY <3>1 DEF g
  <2>. QED
    BY <2>3, <2>4, <2>5 DEF parts
<1>. QED
  BY <1>2, <1>3

-----------------------------------------------------------------------------
(* Names and suites in the AAD *)

\* What json_string writes.
Letter == {Quote, 44} \cup UNION {Range(json_char(c)) : c \in Nat}

\* Every character is written as a sequence.
LEMMA CharType ==
    ASSUME NEW c \in Nat
    PROVE  json_char(c) \in Seq(Letter)
<1>1. json_char(c) \in Seq(Range(json_char(c)))
  <2>1. CASE c \in DOMAIN ShortEscape
    <3>. PICK e : e = ShortEscape[c]
      OBVIOUS
    <3>1. json_char(c) = <<Backslash, e>>
      BY <2>1 DEF json_char
    <3>2. <<Backslash, e>> \in Seq({Backslash, e})
      OBVIOUS
    <3>. QED
      BY <3>1, <3>2, SeqOfRange
  <2>2. CASE c \notin DOMAIN ShortEscape /\ c < 32
    <3>. DEFINE f == [i \in 1 .. 4 |-> hex_digit(nibble(c, i))]
                B == {Backslash, 117} \cup {f[i] : i \in 1 .. 4}
    <3>1. json_char(c) = <<Backslash, 117>> \o f
      BY <2>2 DEF json_char, push_u_escape
    <3>2. f \in [1 .. 4 -> B]
      OBVIOUS
    <3>3. <<Backslash, 117>> \in Seq(B)
      OBVIOUS
    <3>. HIDE DEF f, B
    <3>4. f \in Seq(B)
      <4>1. 4 \in Nat
        OBVIOUS
      <4>. QED
        BY ONLY <3>2, <4>1, SeqDef
    <3>5. json_char(c) \in Seq(B)
      BY <3>1, <3>3, <3>4, ConcatProperties
    <3>. QED
      BY <3>5, SeqOfRange
  <2>3. CASE c \notin DOMAIN ShortEscape /\ ~(c < 32)
    <3>1. json_char(c) = <<c>> /\ <<c>> \in Seq({c})
      BY <2>3 DEF json_char
    <3>. QED
      BY <3>1, SeqOfRange
  <2>. QED
    BY <2>1, <2>2, <2>3
<1>2. Range(json_char(c)) \subseteq Letter
  BY DEF Letter
<1>. QED
  BY <1>1, <1>2, SeqMonotonic

\* A name is written as a sequence.
LEMMA StringType ==
    ASSUME NEW s \in Seq(Nat)
    PROVE  json_string(s) \in Seq(Letter)
<1>. DEFINE parts == [i \in DOMAIN s |-> json_char(s[i])]
<1>1. \A i \in DOMAIN s : json_char(s[i]) \in Seq(Letter)
  BY CharType
<1>2. DOMAIN s = 1 .. Len(s) /\ Len(s) \in Nat
  OBVIOUS
<1>3. parts \in [1 .. Len(s) -> Seq(Letter)]
  BY <1>1, <1>2
<1>4. json_string(s) = <<Quote>> \o FlattenSeq(parts) \o <<Quote>>
  BY DEF json_string
<1>. HIDE DEF parts
<1>5. parts \in Seq(Seq(Letter))
  BY <1>2, <1>3
<1>6. FlattenSeq(parts) \in Seq(Letter)
  BY <1>5, FlattenType
<1>7. <<Quote>> \in Seq(Letter)
  BY DEF Letter
<1>. QED
  BY <1>4, <1>6, <1>7, ConcatProperties

\* A string without characters to escape is written between quotes as it is.
LEMMA PlainString ==
    ASSUME NEW s \in Seq(Nat),
           \A i \in DOMAIN s : s[i] >= 32 /\ s[i] \notin {34, 92, 8, 9, 10, 12, 13}
    PROVE  Len(json_string(s)) = Len(s) + 2
<1>1. \A i \in DOMAIN s : json_char(s[i]) = <<s[i]>>
  <2>. TAKE i \in DOMAIN s
  <2>1. s[i] \in Nat /\ ~(s[i] < 32) /\ s[i] \notin DOMAIN ShortEscape
    BY DEF ShortEscape
  <2>. QED
    BY <2>1 DEF json_char
<1>2. [i \in DOMAIN s |-> json_char(s[i])] = [i \in DOMAIN s |-> <<s[i]>>]
  BY <1>1
<1>3. FlattenSeq([i \in DOMAIN s |-> json_char(s[i])]) = s
  BY <1>2, FlattenSingles
<1>4. json_string(s) = <<Quote>> \o s \o <<Quote>>
  BY <1>3 DEF json_string
<1>5. <<Quote>> \in Seq(Nat) /\ Len(<<Quote>>) = 1
  BY DEF Quote
<1>6. <<Quote>> \o s \in Seq(Nat) /\ Len(<<Quote>> \o s) = Len(s) + 1
  BY <1>5
<1>. QED
  BY <1>4, <1>5, <1>6

\* The literals of the two suites have different lengths.
LEMMA SuiteLengths ==
    /\ json_string(HYBRID_SUITE) \in Seq(Letter) /\ Len(json_string(HYBRID_SUITE)) = 17
    /\ json_string(CLASSICAL_SUITE) \in Seq(Letter) /\ Len(json_string(CLASSICAL_SUITE)) = 20
<1>1. HYBRID_SUITE \in Seq(Nat) /\ Len(HYBRID_SUITE) = 15
      /\ \A i \in 1 .. 15 : HYBRID_SUITE[i] \in 45 .. 91 \cup 93 .. 126
  BY DEF HYBRID_SUITE
<1>2. CLASSICAL_SUITE \in Seq(Nat) /\ Len(CLASSICAL_SUITE) = 18
      /\ \A i \in 1 .. 18 : CLASSICAL_SUITE[i] \in 45 .. 91 \cup 93 .. 126
  BY DEF CLASSICAL_SUITE
<1>3. \A n \in 45 .. 91 \cup 93 .. 126 : n >= 32 /\ n \notin {34, 92, 8, 9, 10, 12, 13}
  OBVIOUS
<1>4. DOMAIN HYBRID_SUITE = 1 .. 15 /\ DOMAIN CLASSICAL_SUITE = 1 .. 18
  BY <1>1, <1>2
<1>5. ASSUME NEW i \in DOMAIN HYBRID_SUITE
      PROVE  HYBRID_SUITE[i] >= 32 /\ HYBRID_SUITE[i] \notin {34, 92, 8, 9, 10, 12, 13}
  <2>1. i \in 1 .. 15
    BY <1>4
  <2>2. HYBRID_SUITE[i] \in 45 .. 91 \cup 93 .. 126
    BY <1>1, <2>1
  <2>. QED
    BY <1>3, <2>2
<1>5a. ASSUME NEW i \in DOMAIN CLASSICAL_SUITE
      PROVE  CLASSICAL_SUITE[i] >= 32 /\ CLASSICAL_SUITE[i] \notin {34, 92, 8, 9, 10, 12, 13}
  <2>1. i \in 1 .. 18
    BY <1>4
  <2>2. CLASSICAL_SUITE[i] \in 45 .. 91 \cup 93 .. 126
    BY <1>2, <2>1
  <2>. QED
    BY <1>3, <2>2
<1>6. Len(json_string(HYBRID_SUITE)) = 15 + 2
  BY <1>1, <1>5, PlainString
<1>7. Len(json_string(CLASSICAL_SUITE)) = 18 + 2
  BY <1>2, <1>5a, PlainString
<1>8. json_string(HYBRID_SUITE) \in Seq(Letter) /\ json_string(CLASSICAL_SUITE) \in Seq(Letter)
  BY <1>1, <1>2, StringType
<1>. QED
  BY <1>6, <1>7, <1>8

SuiteNames == {HYBRID_SUITE, CLASSICAL_SUITE}

\* For given names the AAD tells the suites apart.
LEMMA AadBindsSuite ==
    ASSUME NEW u \in SuiteNames, NEW v \in SuiteNames, NEW from \in Seq(Nat), NEW to \in Seq(Nat),
           downgrade_lock_aad(u, from, to, None) = downgrade_lock_aad(v, from, to, None)
    PROVE  u = v
<1>. DEFINE p == json_string(u)
            q == json_string(v)
            r == json_string(to)
            t == json_string(from)
            k == <<44>>
<1>1. p \in Seq(Letter) /\ q \in Seq(Letter) /\ r \in Seq(Letter) /\ t \in Seq(Letter)
      /\ k \in Seq(Letter)
  <2>1. p \in Seq(Letter) /\ q \in Seq(Letter)
    BY SuiteLengths, Zenon DEF SuiteNames
  <2>2. r \in Seq(Letter) /\ t \in Seq(Letter)
    BY StringType
  <2>3. k \in Seq(Letter)
    BY DEF Letter
  <2>. QED
    BY <2>1, <2>2, <2>3
<1>2. p \o k \o r \o k \o t \o <<>> = q \o k \o r \o k \o t \o <<>>
  BY DEF downgrade_lock_aad, aad_head
<1>3. Len(p) = Len(q) => u = v
  <2>1. Len(json_string(HYBRID_SUITE)) # Len(json_string(CLASSICAL_SUITE))
    BY SuiteLengths
  <2>2. (u = HYBRID_SUITE \/ u = CLASSICAL_SUITE) /\ (v = HYBRID_SUITE \/ v = CLASSICAL_SUITE)
    BY DEF SuiteNames
  <2>. QED
    BY <2>1, <2>2
<1>. HIDE DEF p, q, r, t, k
<1>4. Len(p \o k \o r \o k \o t \o <<>>) = Len(p) + Len(k) + Len(r) + Len(k) + Len(t)
      /\ Len(q \o k \o r \o k \o t \o <<>>) = Len(q) + Len(k) + Len(r) + Len(k) + Len(t)
  BY <1>1
<1>5. Len(p) \in Nat /\ Len(q) \in Nat /\ Len(r) \in Nat /\ Len(t) \in Nat /\ Len(k) \in Nat
  BY <1>1
<1>. QED
  BY <1>2, <1>3, <1>4, <1>5

-----------------------------------------------------------------------------
(* Addresses *)

\* A sequence is its parts before and behind one of its elements and that one.
LEMMA CutAt ==
    ASSUME NEW A, NEW b \in Seq(A), NEW k \in 1 .. Len(b)
    PROVE  /\ SubSeq(b, 1, k - 1) \in Seq(A) /\ SubSeq(b, k + 1, Len(b)) \in Seq(A)
           /\ Len(SubSeq(b, 1, k - 1)) = k - 1
           /\ \A i \in 1 .. k - 1 : SubSeq(b, 1, k - 1)[i] = b[i]
           /\ SubSeq(b, 1, k - 1) \o <<b[k]>> \o SubSeq(b, k + 1, Len(b)) = b
<1>. DEFINE p == SubSeq(b, 1, k - 1)
            q == SubSeq(b, k + 1, Len(b))
            x == <<b[k]>>
<1>1. p \in Seq(A) /\ Len(p) = k - 1 /\ \A i \in 1 .. k - 1 : p[i] = b[i]
  OBVIOUS
<1>2. q \in Seq(A) /\ Len(q) = Len(b) - k /\ \A i \in 1 .. Len(b) - k : q[i] = b[k + i]
  OBVIOUS
<1>3. x \in Seq(A) /\ Len(x) = 1 /\ x[1] = b[k]
  OBVIOUS
<1>. HIDE DEF p, q, x
<1>. PICK n \in Nat : n = Len(b)
  OBVIOUS
<1>0. k \in Nat /\ 1 <= k /\ k <= n /\ k - 1 \in Nat /\ n - k \in Nat
  OBVIOUS
<1>4. p \o x \in Seq(A) /\ Len(p \o x) = k
      /\ \A i \in 1 .. k : (p \o x)[i] = b[i]
  <2>1. p \o x \in Seq(A) /\ Len(p \o x) = (k - 1) + 1
        /\ \A i \in 1 .. (k - 1) + 1 : (p \o x)[i] = IF i <= k - 1 THEN p[i] ELSE x[i - (k - 1)]
    <3>1. p \o x \in Seq(A) /\ Len(p \o x) = Len(p) + Len(x)
          /\ \A i \in 1 .. Len(p) + Len(x) :
                (p \o x)[i] = IF i <= Len(p) THEN p[i] ELSE x[i - Len(p)]
      BY ONLY <1>1, <1>3, ConcatProperties
    <3>2. Len(p) = k - 1 /\ Len(x) = 1
      BY <1>1, <1>3
    <3>. QED
      BY ONLY <3>1, <3>2
  <2>2. (k - 1) + 1 = k
    BY <1>0
  <2>. SUFFICES ASSUME NEW i \in 1 .. k PROVE (p \o x)[i] = b[i]
    BY <2>1, <2>2
  <2>3. CASE i <= k - 1
    <3>1. i \in 1 .. k - 1
      BY <2>3, <1>0
    <3>. QED
      BY <3>1, <2>1, <2>2, <2>3, <1>1
  <2>4. CASE ~(i <= k - 1)
    <3>1. i = k /\ i - (k - 1) = 1
      BY <2>4, <1>0
    <3>. QED
      BY <3>1, <2>1, <2>2, <2>4, <1>3
  <2>. QED
    BY <2>3, <2>4
<1>. DEFINE l == p \o x
<1>. HIDE DEF l
<1>5. l \in Seq(A) /\ Len(l) = k /\ \A i \in 1 .. k : l[i] = b[i]
  BY <1>4 DEF l
<1>6. l \o q \in Seq(A) /\ Len(l \o q) = k + (n - k)
      /\ \A i \in 1 .. k + (n - k) : (l \o q)[i] = IF i <= k THEN l[i] ELSE q[i - k]
  <2>1. l \o q \in Seq(A) /\ Len(l \o q) = Len(l) + Len(q)
        /\ \A i \in 1 .. Len(l) + Len(q) : (l \o q)[i] = IF i <= Len(l) THEN l[i] ELSE q[i - Len(l)]
    BY ONLY <1>5, <1>2, ConcatProperties
  <2>2. Len(l) = k /\ Len(q) = n - k
    BY <1>2, <1>5
  <2>. QED
    BY ONLY <2>1, <2>2
<1>6a. k + (n - k) = n
  BY <1>0
<1>7. \A i \in 1 .. Len(b) : (l \o q)[i] = b[i]
  <2>. SUFFICES ASSUME NEW i \in 1 .. Len(b) PROVE (l \o q)[i] = b[i]
    OBVIOUS
  <2>1. (l \o q)[i] = IF i <= k THEN l[i] ELSE q[i - k]
    BY <1>6, <1>6a
  <2>2. i <= k => i \in 1 .. k
    BY <1>0
  <2>3. ~(i <= k) => i - k \in 1 .. n - k /\ k + (i - k) = i
    BY <1>0
  <2>. QED
    BY <2>1, <2>2, <2>3, <1>5, <1>2
<1>8. l \o q = b
  BY <1>6, <1>6a, <1>7, SeqEqual
<1>. QED
  BY <1>1, <1>2, <1>8 DEF l, p, q, x

\* decode_aqid's search.
slash_in(s) == SelectInSeq(s, LAMBDA c : c = "/")

\* It finds the first slash.
LEMMA FirstSlash ==
    ASSUME NEW A, NEW s \in Seq(A), slash_in(s) # 0
    PROVE  /\ slash_in(s) \in 1 .. Len(s)
           /\ s[slash_in(s)] = "/"
           /\ \A i \in 1 .. slash_in(s) - 1 : s[i] # "/"
<1>. DEFINE T == {i \in 1 .. Len(s) : s[i] = "/"}
<1>1. slash_in(s) = IF T # {} THEN Min(T) ELSE 0
  BY DEF slash_in, SelectInSeq
<1>2. T # {} /\ T \subseteq Nat /\ slash_in(s) = Min(T)
  BY <1>1
<1>3. \A i \in Nat : i \in T <=> i \in 1 .. Len(s) /\ s[i] = "/"
  OBVIOUS
<1>. HIDE DEF T
<1>4. \E x \in T : \A y \in T : x <= y
  BY <1>2, Least
<1>5. Min(T) \in T /\ \A y \in T : Min(T) <= y
  BY <1>4 DEF Min
<1>6. Len(s) \in Nat
  OBVIOUS
<1>7. \A i \in 1 .. slash_in(s) - 1 : s[i] # "/"
  <2>. SUFFICES ASSUME NEW i \in 1 .. slash_in(s) - 1, s[i] = "/" PROVE FALSE
    OBVIOUS
  <2>1. Min(T) \in 1 .. Len(s)
    BY <1>2, <1>3, <1>5
  <2>2. i \in Nat /\ i \in 1 .. Len(s) /\ ~(Min(T) <= i)
    BY <2>1, <1>2, <1>6
  <2>. QED
    BY <2>2, <1>3, <1>5
<1>. QED
  BY <1>2, <1>3, <1>5, <1>7

\* Where there is a slash it finds one.
LEMMA SlashFound ==
    ASSUME NEW A, NEW s \in Seq(A), NEW k \in 1 .. Len(s), s[k] = "/"
    PROVE  slash_in(s) # 0
<1>. DEFINE T == {i \in 1 .. Len(s) : s[i] = "/"}
<1>1. slash_in(s) = IF T # {} THEN Min(T) ELSE 0
  BY DEF slash_in, SelectInSeq
<1>2. T # {} /\ T \subseteq Nat /\ 0 \notin T
  OBVIOUS
<1>. HIDE DEF T
<1>3. \E x \in T : \A y \in T : x <= y
  BY <1>2, Least
<1>4. Min(T) \in T
  BY <1>3 DEF Min
<1>. QED
  BY <1>1, <1>2, <1>4

\* A decoded address is cut at its first slash; neither part is empty and the
\* id has the length of an id and is written in the alphabet.
LEMMA DecodeCuts ==
    ASSUME NEW text, decode_aqid(text).end = "Ok"
    PROVE  LET k  == slash_in(text.body)
               at == decode_aqid(text)
           IN  /\ text.scheme = "aqid:" /\ k # 0
               /\ at.relay = SubSeq(text.body, 1, k - 1)
               /\ at.sender_id = SubSeq(text.body, k + 1, Len(text.body))
               /\ at.relay # <<>> /\ Len(at.sender_id) = QUEUE_ID_LEN
BY DEF decode_aqid, slash_in

\* Both parts decide what decode_aqid returns.
LEMMA CutDecodes ==
    ASSUME NEW text, text.scheme = "aqid:",
           NEW k, k = slash_in(text.body), k # 0,
           NEW relay, relay = SubSeq(text.body, 1, k - 1), relay # <<>>,
           NEW id, id = SubSeq(text.body, k + 1, Len(text.body)), id # <<>>,
           Range(id) \subseteq Range(Base64Url), Len(id) = QUEUE_ID_LEN
    PROVE  decode_aqid(text) = [end |-> "Ok", relay |-> relay, sender_id |-> id]
BY DEF decode_aqid, slash_in

\* What decodes is the encoding of what it decodes to.
LEMMA DecodedEncodes ==
    ASSUME NEW A, NEW body \in Seq(A), NEW text, text = [scheme |-> "aqid:", body |-> body],
           decode_aqid(text).end = "Ok"
    PROVE  encode_aqid(decode_aqid(text).relay, decode_aqid(text).sender_id) = text
<1>. DEFINE k  == slash_in(body)
            at == decode_aqid(text)
<1>1. text.body = body
  OBVIOUS
<1>2. /\ k # 0
      /\ at.relay = SubSeq(body, 1, k - 1)
      /\ at.sender_id = SubSeq(body, k + 1, Len(body))
      /\ at.relay # <<>> /\ Len(at.sender_id) = QUEUE_ID_LEN
  BY <1>1, DecodeCuts
<1>. HIDE DEF at, k
<1>3. k \in 1 .. Len(body) /\ body[k] = "/" /\ \A i \in 1 .. k - 1 : body[i] # "/"
  BY <1>2, FirstSlash DEF k
<1>4. /\ Len(at.relay) = k - 1
      /\ \A i \in 1 .. k - 1 : at.relay[i] = body[i]
      /\ at.relay \o <<"/">> \o at.sender_id = body
  <2>1. /\ Len(SubSeq(body, 1, k - 1)) = k - 1
        /\ \A i \in 1 .. k - 1 : SubSeq(body, 1, k - 1)[i] = body[i]
        /\ SubSeq(body, 1, k - 1) \o <<body[k]>> \o SubSeq(body, k + 1, Len(body)) = body
    BY <1>3, CutAt
  <2>. QED
    BY <2>1, <1>2, <1>3
<1>5. ~Contains(at.relay, "/")
  BY <1>3, <1>4 DEF Contains
<1>6. encode_aqid(at.relay, at.sender_id) = [scheme |-> "aqid:", body |-> body]
  BY <1>2, <1>4, <1>5 DEF encode_aqid
<1>. QED
  BY <1>6 DEF at

\* A relay without a slash and an id come out as they went in.
LEMMA PublishedDecodes ==
    ASSUME NEW relay, relay \in Seq(Range(relay)),
           NEW id \in [1 .. QUEUE_ID_LEN -> Range(Base64Url)],
           NEW text, text = encode_aqid(relay, id), text # None
    PROVE  /\ text = [scheme |-> "aqid:", body |-> text.body]
           /\ text.body \in Seq(Range(text.body))
           /\ decode_aqid(text) = [end |-> "Ok", relay |-> relay, sender_id |-> id]
<1>. DEFINE A    == Range(relay) \cup {"/"} \cup Range(Base64Url)
            body == relay \o <<"/">> \o id
            m    == Len(relay)
<1>1. /\ text = [scheme |-> "aqid:", body |-> body]
      /\ relay # <<>> /\ ~Contains(relay, "/")
  BY DEF encode_aqid
<1>2. QUEUE_ID_LEN \in Nat /\ QUEUE_ID_LEN # 0 /\ m \in Nat
  BY QueueAssumption
<1>3. relay \in Seq(A) /\ <<"/">> \in Seq(A) /\ id \in Seq(A) /\ Len(id) = QUEUE_ID_LEN
  <2>1. relay \in Seq(A)
    BY SeqMonotonic
  <2>2. id \in [1 .. QUEUE_ID_LEN -> A]
    OBVIOUS
  <2>. HIDE DEF A
  <2>3. id \in Seq(A) /\ Len(id) = QUEUE_ID_LEN
    BY <2>2, <1>2
  <2>4. <<"/">> \in Seq(A)
    BY DEF A
  <2>. QED
    BY <2>1, <2>3, <2>4
<1>. HIDE DEF A
<1>4. /\ body \in Seq(A) /\ Len(body) = m + 1 + QUEUE_ID_LEN
      /\ \A i \in 1 .. m : body[i] = relay[i]
      /\ body[m + 1] = "/"
      /\ \A i \in 1 .. QUEUE_ID_LEN : body[m + 1 + i] = id[i]
  BY <1>2, <1>3
<1>5. \A i \in 1 .. m : body[i] # "/"
  BY <1>1, <1>4 DEF Contains
<1>. HIDE DEF body, m
<1>6. slash_in(body) = m + 1
  <2>1. m + 1 \in 1 .. Len(body)
    BY <1>2, <1>4
  <2>2. slash_in(body) # 0
    BY <2>1, <1>4, SlashFound
  <2>3. /\ slash_in(body) \in 1 .. Len(body)
        /\ body[slash_in(body)] = "/"
        /\ \A i \in 1 .. slash_in(body) - 1 : body[i] # "/"
    BY <2>2, <1>4, FirstSlash
  <2>4. ~(slash_in(body) \in 1 .. m) /\ ~(m + 1 \in 1 .. slash_in(body) - 1)
    BY <2>3, <1>4, <1>5
  <2>. QED
    BY <2>1, <2>3, <2>4, <1>2
<1>7. SubSeq(body, 1, m) = relay
  BY <1>2, <1>3, <1>4 DEF m
<1>8. SubSeq(body, m + 2, Len(body)) = id
  BY <1>2, <1>3, <1>4
<1>9. Range(id) \subseteq Range(Base64Url) /\ id # <<>>
  BY <1>2, <1>3 DEF Range
<1>10. text.scheme = "aqid:" /\ text.body = body
  BY <1>1 DEF body
<1>11. /\ slash_in(text.body) = m + 1 /\ m + 1 # 0
       /\ SubSeq(text.body, 1, (m + 1) - 1) = relay
       /\ SubSeq(text.body, m + 1 + 1, Len(text.body)) = id
  <2>1. (m + 1) - 1 = m /\ m + 1 + 1 = m + 2 /\ m + 1 # 0
    BY <1>2
  <2>. QED
    BY <2>1, <1>6, <1>7, <1>8, <1>10
<1>12. decode_aqid(text) = [end |-> "Ok", relay |-> relay, sender_id |-> id]
  <2>. PICK k : k = slash_in(text.body)
    OBVIOUS
  <2>1. /\ k # 0 /\ text.scheme = "aqid:" /\ relay # <<>> /\ id # <<>>
        /\ relay = SubSeq(text.body, 1, k - 1)
        /\ id = SubSeq(text.body, k + 1, Len(text.body))
        /\ Range(id) \subseteq Range(Base64Url) /\ Len(id) = QUEUE_ID_LEN
    <3>1. k = m + 1
      BY <1>11
    <3>2. k # 0 /\ relay = SubSeq(text.body, 1, k - 1) /\ id = SubSeq(text.body, k + 1, Len(text.body))
      BY <3>1, <1>11, Zenon
    <3>3. relay # <<>> /\ id # <<>>
      BY <1>1, <1>9
    <3>. QED
      BY <3>2, <3>3, <1>3, <1>9, <1>10, Zenon
  <2>. QED
    BY <2>1, CutDecodes, Zenon
<1>13. text.body \in Seq(Range(text.body))
  BY <1>4, <1>10, SeqOfRange
<1>. QED
  BY <1>1, <1>10, <1>12, <1>13

-----------------------------------------------------------------------------
(* What opens *)

\* What Send seals and tags for s, and what it binds it to.
Aad(s)   == downgrade_lock_aad(HYBRID_SUITE, Name[s.from], Name[s.to], None)
Encap(s) == hybrid_encap(public_key(s.to), s.n)
Box(s)   == encrypt(wrap_key(Encap(s).shared, Aad(s)), s.n, Aad(s), s.n)
Blob(s)  == <<[ct |-> Encap(s).ciphertext], [nonce |-> s.n], [box |-> Box(s)]>>
Nonce(s) == <<[tag_nonce |-> s.n]>>
Tag(s)   == auth_tag(shared_secret(s.from, s.to), Blob(s), Nonce(s))

IsSent(s) == s.n \in Nat /\ s.from \in Host /\ s.to \in Host /\ s.from # s.to

\* seal returns this blob.
LEMMA SealsBlob ==
    ASSUME NEW s
    PROVE  seal(s.n, public_key(s.to), Name[s.from], Name[s.to], s.n) = Blob(s)
BY DEF seal, Blob, Box, Encap, Aad, public_key

\* The cells of a blob.
LEMMA Cells ==
    ASSUME NEW s
    PROVE  /\ Blob(s) \in Seq(Range(Blob(s))) /\ Len(Blob(s)) = 3
           /\ Blob(s)[1].ct = Encap(s).ciphertext
           /\ Blob(s)[2].nonce = s.n
           /\ Blob(s)[3].box = Box(s)
           /\ [i \in DOMAIN Blob(s) |-> DOMAIN Blob(s)[i]] = <<{"ct"}, {"nonce"}, {"box"}>>
<1>. DEFINE a == [ct |-> Encap(s).ciphertext]
            b == [nonce |-> s.n]
            c == [box |-> Box(s)]
<1>1. DOMAIN a = {"ct"} /\ DOMAIN b = {"nonce"} /\ DOMAIN c = {"box"}
  OBVIOUS
<1>2. a.ct = Encap(s).ciphertext /\ b.nonce = s.n /\ c.box = Box(s)
  OBVIOUS
<1>3. Blob(s) = <<a, b, c>>
  BY DEF Blob
<1>. HIDE DEF a, b, c
<1>4. <<a, b, c>> \in Seq({a, b, c}) /\ Len(<<a, b, c>>) = 3
  OBVIOUS
<1>5. [i \in DOMAIN Blob(s) |-> DOMAIN Blob(s)[i]] = <<DOMAIN a, DOMAIN b, DOMAIN c>>
  BY <1>3
<1>6. Blob(s)[1] = a /\ Blob(s)[2] = b /\ Blob(s)[3] = c
  BY <1>3
<1>7. Blob(s) \in Seq(Range(Blob(s)))
  BY <1>3, <1>4, SeqOfRange
<1>. QED
  BY <1>1, <1>2, <1>3, <1>4, <1>5, <1>6, <1>7

\* The two legs of the KEM agree for the key it was made for and for no other.
LEMMA KemAgrees ==
    ASSUME NEW s, IsSent(s), NEW h
    PROVE  /\ hybrid_decap(Encap(s).ciphertext, private_key(h)) = Encap(s).shared <=> h = s.to
           /\ Encap(s).shared # None
<1>1. /\ Encap(s).ciphertext = [len |-> CIPHERTEXT_LEN, x_eph |-> s.n, mlkem |-> mlkem_encapsulate(s.to, s.n).ct]
      /\ Encap(s).shared = combine(diffie_hellman(s.n, s.to), mlkem_encapsulate(s.to, s.n).ss)
  BY DEF Encap, hybrid_encap, public_key
<1>2. hybrid_decap(Encap(s).ciphertext, private_key(h))
        = combine(diffie_hellman(h, s.n), mlkem_decapsulate(h, mlkem_encapsulate(s.to, s.n).ct))
  BY <1>1 DEF hybrid_decap, private_key
<1>3. /\ mlkem_encapsulate(s.to, s.n).ct = [ek |-> s.to, r |-> s.n, intact |-> TRUE]
      /\ mlkem_encapsulate(s.to, s.n).ss =
            [dk |-> s.to, ct |-> mlkem_encapsulate(s.to, s.n).ct, rejected |-> FALSE]
  BY DEF mlkem_encapsulate
<1>4. ASSUME hybrid_decap(Encap(s).ciphertext, private_key(h)) = Encap(s).shared
      PROVE  h = s.to
  <2>1. mlkem_decapsulate(h, mlkem_encapsulate(s.to, s.n).ct) = mlkem_encapsulate(s.to, s.n).ss
    BY <1>1, <1>2, <1>4 DEF combine
  <2>2. mlkem_decapsulate(h, mlkem_encapsulate(s.to, s.n).ct).dk = h
    BY DEF mlkem_decapsulate
  <2>3. mlkem_encapsulate(s.to, s.n).ss.dk = s.to
    BY DEF mlkem_encapsulate
  <2>. QED
    BY <2>1, <2>2, <2>3
<1>5. ASSUME h = s.to
      PROVE  hybrid_decap(Encap(s).ciphertext, private_key(h)) = Encap(s).shared
  <2>1. diffie_hellman(h, s.n) = diffie_hellman(s.n, s.to)
    BY <1>5 DEF diffie_hellman
  <2>2. mlkem_decapsulate(s.to, mlkem_encapsulate(s.to, s.n).ct) = mlkem_encapsulate(s.to, s.n).ss
    BY DEF mlkem_decapsulate, mlkem_encapsulate
  <2>. QED
    BY <1>1, <1>2, <1>5, <2>1, <2>2
<1>6. Encap(s).shared \in Shared
  <2>1. s.n \in Nat /\ s.to \in Nat
    BY DEF IsSent, Host
  <2>2. diffie_hellman(s.n, s.to) \in SUBSET Nat
    BY <2>1 DEF diffie_hellman
  <2>3. mlkem_encapsulate(s.to, s.n).ss \in [dk : Nat, ct : MlKemCt, rejected : BOOLEAN]
    BY <2>1 DEF mlkem_encapsulate, MlKemCt
  <2>. QED
    BY <1>1, <2>2, <2>3 DEF combine, Shared
<1>. QED
  BY <1>4, <1>5, <1>6, NoneIsNoSecret

\* A blob opens for its recipient under its own AAD and gives the message; any
\* other key or AAD opens nothing.
LEMMA BlobOpens ==
    ASSUME NEW s, IsSent(s), NEW h, NEW aad
    PROVE  open_body(Blob(s), private_key(h), aad) =
             IF h = s.to /\ aad = Aad(s) THEN s.n ELSE None
<1>. DEFINE shared == hybrid_decap(Encap(s).ciphertext, private_key(h))
<1>1. open_body(Blob(s), private_key(h), aad) =
        IF shared = None THEN None ELSE decrypt(wrap_key(shared, aad), s.n, aad, Box(s))
  BY Cells DEF open_body
<1>2. /\ Box(s).key = wrap_key(Encap(s).shared, Aad(s)) /\ Box(s).nonce = s.n /\ Box(s).aad = Aad(s)
      /\ Box(s).msg = s.n
      /\ Box(s).intact
  BY DEF Box, encrypt
<1>3. shared = Encap(s).shared <=> h = s.to
  BY KemAgrees
<1>4. Encap(s).shared # None
  BY KemAgrees
<1>. HIDE DEF shared
<1>5. wrap_key(shared, aad) = wrap_key(Encap(s).shared, Aad(s))
        <=> shared = Encap(s).shared /\ aad = Aad(s)
  <2>1. ASSUME NEW x, NEW y, NEW u, NEW v, wrap_key(x, u) = wrap_key(y, v)
        PROVE  x = y /\ u = v
    <3>1. wrap_key(x, u).ikm = wrap_key(y, v).ikm /\ wrap_key(x, u).info = wrap_key(y, v).info
      BY <2>1
    <3>. QED
      BY <3>1 DEF wrap_key
  <2>. QED
    BY <2>1
<1>6. CASE h = s.to /\ aad = Aad(s)
  <2>1. decrypt(wrap_key(shared, aad), s.n, aad, Box(s)) = s.n
    BY <1>2, <1>3, <1>5, <1>6 DEF decrypt
  <2>. QED
    BY <2>1, <1>1, <1>3, <1>4, <1>6
<1>7. CASE ~(h = s.to /\ aad = Aad(s))
  <2>1. decrypt(wrap_key(shared, aad), s.n, aad, Box(s)) = None
    BY <1>2, <1>3, <1>5, <1>7 DEF decrypt
  <2>. QED
    BY <2>1, <1>1, <1>7
<1>. QED
  BY <1>6, <1>7

\* Two ways to put the same bytes together agree where the second parts are
\* equally long.
LEMMA SameCut ==
    ASSUME NEW A, NEW p \in Seq(A), NEW q \in Seq(A), NEW r \in Seq(A), NEW t \in Seq(A),
           p \o q = r \o t, Len(q) = Len(t)
    PROVE  p = r /\ q = t
<1>1. Len(p) + Len(q) = Len(r) + Len(t)
  <2>1. Len(p \o q) = Len(p) + Len(q) /\ Len(r \o t) = Len(r) + Len(t)
    BY ConcatProperties
  <2>. QED
    BY <2>1
<1>2. Len(p) = Len(r)
  BY <1>1
<1>3. \A i \in 1 .. Len(p) : p[i] = r[i]
  <2>. TAKE i \in 1 .. Len(p)
  <2>1. (p \o q)[i] = p[i] /\ (r \o t)[i] = r[i]
    BY <1>2
  <2>. QED
    BY <2>1
<1>4. \A i \in 1 .. Len(q) : q[i] = t[i]
  <2>. TAKE i \in 1 .. Len(q)
  <2>1. (p \o q)[Len(p) + i] = q[i] /\ (r \o t)[Len(r) + i] = t[i]
    BY <1>2
  <2>. QED
    BY <2>1, <1>2
<1>. QED
  BY <1>2, <1>3, <1>4, SeqEqual

\* A mail in the form of a sequence of bytes.
IsFramed(m) == m.blob \in Seq(Range(m.blob)) /\ m.nonce \in Seq(Range(m.nonce))

\* The tag covers the blob and the nonce: with three cells behind it the nonce
\* ends where it did.
LEMMA TagFrames ==
    ASSUME NEW s, NEW m, IsFramed(m), Len(m.blob) = 3, m.nonce \o m.blob = Nonce(s) \o Blob(s)
    PROVE  m.nonce = Nonce(s) /\ m.blob = Blob(s)
<1>. DEFINE A == Range(m.blob) \cup Range(m.nonce) \cup Range(Blob(s)) \cup {[tag_nonce |-> s.n]}
<1>1. Blob(s) \in Seq(Range(Blob(s))) /\ Len(Blob(s)) = 3
  BY Cells
<1>2. m.blob \in Seq(A) /\ m.nonce \in Seq(A) /\ Blob(s) \in Seq(A)
  <2>1. Range(m.blob) \subseteq A /\ Range(m.nonce) \subseteq A /\ Range(Blob(s)) \subseteq A
    OBVIOUS
  <2>. HIDE DEF A
  <2>. QED
    BY <2>1, <1>1, SeqMonotonic DEF IsFramed
<1>3. Nonce(s) \in Seq(A)
  BY DEF Nonce
<1>. HIDE DEF A
<1>4. Len(m.blob) = Len(Blob(s)) /\ m.nonce \o m.blob = Nonce(s) \o Blob(s)
  BY <1>1
<1>. QED
  BY ONLY <1>2, <1>3, <1>4, SameCut

\* The mail a host accepts is what was sent to it, by the host it names.
LEMMA AcceptedMail ==
    ASSUME NEW s, IsSent(s), NEW m, IsFramed(m), m.tag = Tag(s), m.from \in Host,
           m.suite \in SuiteNames,
           NEW h \in Host, read_mail(h, m).end = "Ok"
    PROVE  /\ read_mail(h, m).msg = s.n
           /\ h = s.to /\ m.from = s.from
           /\ m.suite = HYBRID_SUITE /\ m.nonce = Nonce(s)
<1>. DEFINE aad == downgrade_lock_aad(m.suite, Name[m.from], Name[h], None)
            msg == open_body(m.blob, private_key(h), aad)
<1>1. /\ verify_tag(shared_secret(h, m.from), m.blob, m.nonce, m.tag)
      /\ Len(m.blob) >= 3 /\ msg # None /\ read_mail(h, m).msg = msg
  BY DEF read_mail, open_sealed, SEALED_MIN_LEN
<1>2. hmac({h, m.from}, m.nonce \o m.blob) = hmac({s.from, s.to}, Nonce(s) \o Blob(s))
  BY <1>1 DEF verify_tag, auth_tag, Tag, shared_secret
<1>3. {h, m.from} = {s.from, s.to} /\ m.nonce \o m.blob = Nonce(s) \o Blob(s)
  <2>1. /\ hmac({h, m.from}, m.nonce \o m.blob).key = {h, m.from}
        /\ hmac({h, m.from}, m.nonce \o m.blob).bytes = m.nonce \o m.blob
        /\ hmac({s.from, s.to}, Nonce(s) \o Blob(s)).key = {s.from, s.to}
        /\ hmac({s.from, s.to}, Nonce(s) \o Blob(s)).bytes = Nonce(s) \o Blob(s)
    BY DEF hmac
  <2>. QED
    BY <1>2, <2>1
<1>4. [i \in DOMAIN m.blob |-> DOMAIN m.blob[i]] = <<{"ct"}, {"nonce"}, {"box"}>>
  BY <1>1 DEF open_body
<1>5. Len(m.blob) = 3
  <2>1. DOMAIN [i \in DOMAIN m.blob |-> DOMAIN m.blob[i]] = DOMAIN m.blob
    OBVIOUS
  <2>2. DOMAIN <<{"ct"}, {"nonce"}, {"box"}>> = 1 .. 3
    OBVIOUS
  <2>3. DOMAIN m.blob = 1 .. 3
    BY <1>4, <2>1, <2>2
  <2>4. Len(m.blob) \in Nat /\ DOMAIN m.blob = 1 .. Len(m.blob)
    BY DEF IsFramed
  <2>5. 1 .. Len(m.blob) = 1 .. 3
    BY <2>3, <2>4
  <2>6. Len(m.blob) \in 1 .. Len(m.blob)
    BY <1>1, <2>4
  <2>7. Len(m.blob) \in 1 .. 3
    BY <2>5, <2>6
  <2>8. \A n \in 1 .. 3 : n >= 3 => n = 3
    OBVIOUS
  <2>. QED
    BY <1>1, <2>7, <2>8, Zenon
<1>6. m.nonce = Nonce(s) /\ m.blob = Blob(s)
  BY <1>3, <1>5, TagFrames
<1>7. msg = IF h = s.to /\ aad = Aad(s) THEN s.n ELSE None
  BY <1>6, BlobOpens
<1>8. h = s.to /\ aad = Aad(s) /\ msg = s.n
  BY <1>1, <1>7
<1>9. m.from = s.from
  BY <1>3, <1>8 DEF IsSent
<1>10. m.suite = HYBRID_SUITE
  <2>1. Name[s.from] \in Seq(Nat) /\ Name[s.to] \in Seq(Nat)
    BY MailAssumption DEF IsSent
  <2>2. downgrade_lock_aad(m.suite, Name[s.from], Name[s.to], None)
          = downgrade_lock_aad(HYBRID_SUITE, Name[s.from], Name[s.to], None)
    BY <1>8, <1>9 DEF Aad
  <2>3. HYBRID_SUITE \in SuiteNames
    BY DEF SuiteNames
  <2>. QED
    BY <2>1, <2>2, <2>3, AadBindsSuite
<1>. QED
  BY <1>1, <1>6, <1>8, <1>9, <1>10

\* A mail as sent is read by the host it is meant for.
LEMMA IntactReads ==
    ASSUME NEW s, IsSent(s), NEW m, m.tag = Tag(s), m.blob = Blob(s), m.nonce = Nonce(s),
           m.from = s.from, m.suite = HYBRID_SUITE
    PROVE  read_mail(s.to, m).end = "Ok"
<1>1. verify_tag(shared_secret(s.to, m.from), m.blob, m.nonce, m.tag)
  <2>1. shared_secret(s.to, m.from) = shared_secret(s.from, s.to)
    BY DEF shared_secret
  <2>. QED
    BY <2>1 DEF verify_tag, Tag
<1>2. open_body(m.blob, private_key(s.to), downgrade_lock_aad(m.suite, Name[m.from], Name[s.to], None)) = s.n
  <2>1. downgrade_lock_aad(m.suite, Name[m.from], Name[s.to], None) = Aad(s)
    BY DEF Aad
  <2>. QED
    BY <2>1, BlobOpens
<1>3. s.n # None /\ ~(Len(m.blob) < SEALED_MIN_LEN)
  <2>1. s.n # None
    BY NoneAssumption DEF IsSent
  <2>2. Len(m.blob) = 3
    BY Cells
  <2>. QED
    BY <2>1, <2>2 DEF SEALED_MIN_LEN
<1>. QED
  BY <1>1, <1>2, <1>3 DEF read_mail, open_sealed

-----------------------------------------------------------------------------
(* The invariant *)

SentOnce ==
    /\ rng \in Nat
    /\ \A s \in sent : IsSent(s) /\ s.n <= rng
    /\ \A s, t \in sent : s.n = t.n => s = t

\* What AlterAddress leaves of an address: its text may be any.
AddressesKept ==
    \A a \in addresses :
        /\ DOMAIN a = {"text", "altered", "owner", "relay", "queue"}
        /\ a.owner \in Host
        /\ a.text = [scheme |-> "aqid:", body |-> a.text.body]
        /\ a.text.body \in Seq(Range(a.text.body))
        /\ ~a.altered =>
              decode_aqid(a.text) = [end |-> "Ok", relay |-> a.relay, sender_id |-> a.queue]

\* A mail has the fields of a mail; its suite and its sender name one.
IsMail(m) ==
    /\ DOMAIN m = {"n", "hops", "relay", "queue", "suite", "from", "blob", "nonce", "tag"}
    /\ m.hops \in Nat /\ m.from \in Host /\ m.suite \in SuiteNames
    /\ IsFramed(m)

\* On its way a mail keeps the tag of what was sent; nothing else of it is
\* sure, unless nobody touched it.
Tagged(m, s)  == m.n = s.n /\ m.tag = Tag(s)
AsMade(m, s)  == m.blob = Blob(s) /\ m.nonce = Nonce(s) /\ m.from = s.from /\ m.suite = HYBRID_SUITE

MailKept ==
    \A m \in mail :
        /\ IsMail(m)
        /\ \E s \in sent :
              /\ Tagged(m, s)
              /\ m.hops = 0 => AsMade(m, s) /\ (s.direct => Owns(s.to, m))

QueueInv == SentOnce /\ AddressesKept /\ MailKept /\ AcceptedAsSent

-----------------------------------------------------------------------------
(* Every step keeps it *)

\* At the start nothing is sent.
LEMMA InitQueueInv == Init => QueueInv
<1>1. NHosts \in Nat
  BY MailAssumption DEF NHosts
<1>. QED
  BY <1>1 DEF Init, QueueInv, SentOnce, AddressesKept, MailKept, AcceptedAsSent

\* What was accepted stays sent.
LEMMA AcceptedStays ==
    ASSUME AcceptedAsSent, sent \subseteq sent', UNCHANGED accepted
    PROVE  AcceptedAsSent'
BY DEF AcceptedAsSent

\* A new address decodes to the relay and the id it was made of.
LEMMA PublishQueueInv ==
    ASSUME QueueInv, NEW h \in Host, NEW relay \in Relays, Publish(h, relay)
    PROVE  QueueInv'
<1>. DEFINE id   == queue_id[(rng + 1) + 1]
            text == encode_aqid(relay, id)
            a    == [text |-> text, altered |-> FALSE, owner |-> h, relay |-> relay, queue |-> id]
<1>1. /\ text # None /\ rng + 2 <= MaxDraws /\ rng' = rng + 2
      /\ addresses' = addresses \cup {a}
      /\ UNCHANGED <<sent, mail, accepted>>
  BY DEF Publish, new_queue_pair
<1>2. rng \in Nat
  BY DEF QueueInv, SentOnce
<1>3. id \in [1 .. QUEUE_ID_LEN -> Range(Base64Url)]
  <2>1. MaxDraws \in Nat /\ DOMAIN queue_id = 1 .. MaxDraws
    BY MailAssumption
  <2>2. (rng + 1) + 1 \in 1 .. MaxDraws
    BY <1>1, <1>2, <2>1
  <2>. QED
    BY <2>1, <2>2, QueueAssumption
<1>4. relay \in Seq(Range(relay))
  BY MailAssumption
<1>. HIDE DEF id, text
<1>5. /\ text = [scheme |-> "aqid:", body |-> text.body]
      /\ text.body \in Seq(Range(text.body))
      /\ decode_aqid(text) = [end |-> "Ok", relay |-> relay, sender_id |-> id]
  BY <1>1, <1>3, <1>4, PublishedDecodes DEF text
<1>6. SentOnce'
  BY <1>1, <1>2 DEF QueueInv, SentOnce, IsSent
<1>7. AddressesKept'
  <2>1. /\ DOMAIN a = {"text", "altered", "owner", "relay", "queue"}
        /\ a.owner = h /\ a.text = text /\ a.relay = relay /\ a.queue = id
    OBVIOUS
  <2>. HIDE DEF a
  <2>. QED
    BY <1>1, <1>5, <2>1 DEF QueueInv, AddressesKept
<1>8. MailKept'
  <2>1. \A g, m : Owns(g, m) => Owns(g, m)'
    BY <1>1 DEF Owns
  <2>. QED
    BY <1>1, <2>1 DEF QueueInv, MailKept
<1>9. AcceptedAsSent'
  BY <1>1, AcceptedStays DEF QueueInv
<1>. QED
  BY <1>6, <1>7, <1>8, <1>9 DEF QueueInv

\* An altered address keeps its owner and the queue it was made for.
LEMMA AlterAddressQueueInv ==
    ASSUME QueueInv, NEW a \in addresses, AlterAddress(a)
    PROVE  QueueInv'
<1>1. /\ DOMAIN a = {"text", "altered", "owner", "relay", "queue"}
      /\ a.owner \in Host
      /\ a.text = [scheme |-> "aqid:", body |-> a.text.body]
      /\ a.text.body \in Seq(Range(a.text.body))
  BY DEF QueueInv, AddressesKept
<1>2. PICK body :
          /\ \/ body = Front(a.text.body)
             \/ \E c \in StrayChars :
                   body = Append(a.text.body, c) \/ \E i \in DOMAIN a.text.body : body = [a.text.body EXCEPT ![i] = c]
          /\ addresses' = (addresses \ {a}) \cup {[a EXCEPT !.text.body = body, !.altered = TRUE]}
          /\ UNCHANGED <<rng, sent, mail, accepted>>
  BY DEF AlterAddress
<1>3. body \in Seq(Range(body))
  <2>. DEFINE A == Range(a.text.body) \cup StrayChars
  <2>1. a.text.body \in Seq(A) /\ StrayChars \subseteq A
    BY <1>1, SeqMonotonic
  <2>. HIDE DEF A
  <2>2. Front(a.text.body) \in Seq(A)
    BY <2>1 DEF Front
  <2>3. \A c \in A : Append(a.text.body, c) \in Seq(A)
    BY <2>1
  <2>4. \A c \in A : \A i \in DOMAIN a.text.body : [a.text.body EXCEPT ![i] = c] \in Seq(A)
    BY <2>1
  <2>5. body \in Seq(A)
    BY <1>2, <2>1, <2>2, <2>3, <2>4
  <2>. QED
    BY <2>5, SeqOfRange
<1>. DEFINE b == [a EXCEPT !.text.body = body, !.altered = TRUE]
<1>4. /\ DOMAIN b = {"text", "altered", "owner", "relay", "queue"}
      /\ b.owner = a.owner /\ b.relay = a.relay /\ b.queue = a.queue
      /\ b.altered
      /\ b.text = [scheme |-> "aqid:", body |-> body]
  BY <1>1
<1>5. addresses' = (addresses \ {a}) \cup {b}
  BY <1>2
<1>. HIDE DEF b
<1>6. SentOnce'
  BY <1>2 DEF QueueInv, SentOnce, IsSent
<1>7. AddressesKept'
  <2>1. b.text.body = body /\ b.text = [scheme |-> "aqid:", body |-> b.text.body]
    BY <1>4
  <2>2. ASSUME NEW x \in addresses', x # b
        PROVE  x \in addresses
    BY <2>2, <1>5
  <2>. QED
    BY <1>1, <1>3, <1>4, <2>1, <2>2, Zenon DEF QueueInv, AddressesKept
<1>8. MailKept'
  <2>1. \A g, m : Owns(g, m) => Owns(g, m)'
    BY <1>4, <1>5 DEF Owns
  <2>. QED
    BY <1>2, <2>1 DEF QueueInv, MailKept
<1>9. AcceptedAsSent'
  BY <1>2, AcceptedStays DEF QueueInv
<1>. QED
  BY <1>6, <1>7, <1>8, <1>9 DEF QueueInv

\* What Send puts in a queue is tagged for the address' owner; the queue is the
\* owner's if the address is as published.
LEMMA SendQueueInv ==
    ASSUME QueueInv, NEW h \in Host, NEW a \in addresses, Send(h, a)
    PROVE  QueueInv'
<1>. DEFINE at == decode_aqid(a.text)
            n  == rng + 1
            s0 == [n |-> n, from |-> h, to |-> a.owner, direct |-> ~a.altered]
            m0 == [n |-> n, hops |-> 0, relay |-> at.relay, queue |-> at.sender_id,
                   suite |-> HYBRID_SUITE, from |-> h, blob |-> Blob(s0), nonce |-> Nonce(s0),
                   tag |-> Tag(s0)]
<1>1. rng \in Nat /\ a.owner \in Host
  BY DEF QueueInv, SentOnce, AddressesKept
<1>2. s0.n = n /\ s0.from = h /\ s0.to = a.owner /\ (s0.direct <=> ~a.altered)
  OBVIOUS
<1>3. h # a.owner /\ rng' = n /\ sent' = sent \cup {s0} /\ UNCHANGED <<addresses, accepted>>
  BY DEF Send
<1>. HIDE DEF s0
<1>4. /\ seal(n, public_key(a.owner), Name[h], Name[a.owner], n) = Blob(s0)
      /\ <<[tag_nonce |-> n]>> = Nonce(s0)
      /\ auth_tag(shared_secret(h, a.owner), Blob(s0), Nonce(s0)) = Tag(s0)
  BY <1>2, SealsBlob DEF Nonce, Tag
<1>5. mail' = mail \cup {m0}
  BY <1>4 DEF Send
<1>6. /\ DOMAIN m0 = {"n", "hops", "relay", "queue", "suite", "from", "blob", "nonce", "tag"}
      /\ m0.n = n /\ m0.hops = 0 /\ m0.relay = at.relay /\ m0.queue = at.sender_id
      /\ m0.suite = HYBRID_SUITE /\ m0.from = h
      /\ m0.blob = Blob(s0) /\ m0.nonce = Nonce(s0) /\ m0.tag = Tag(s0)
  OBVIOUS
<1>. HIDE DEF m0, at
<1>7. SentOnce'
  <2>1. IsSent(s0) /\ s0.n <= n /\ n \in Nat
    BY <1>1, <1>2, <1>3 DEF IsSent
  <2>2. \A s \in sent : IsSent(s) /\ s.n <= n /\ s.n # s0.n
    <3>. TAKE s \in sent
    <3>1. IsSent(s) /\ s.n <= rng /\ s.n \in Nat
      BY DEF QueueInv, SentOnce, IsSent
    <3>. QED
      BY <3>1, <1>1, <1>2
  <2>. QED
    BY <1>3, <2>1, <2>2 DEF QueueInv, SentOnce, IsSent
<1>8. AddressesKept'
  BY <1>3 DEF QueueInv, AddressesKept
<1>9. MailKept'
  <2>1. \A g, m : Owns(g, m)' <=> Owns(g, m)
    BY <1>3 DEF Owns
  <2>2. IsMail(m0)
    <3>1. Nonce(s0) \in Seq(Range(Nonce(s0)))
      <4>1. Nonce(s0) \in Seq({[tag_nonce |-> s0.n]})
        BY DEF Nonce
      <4>. QED
        BY <4>1, SeqOfRange
    <3>2. Blob(s0) \in Seq(Range(Blob(s0)))
      BY Cells
    <3>. QED
      BY <1>6, <3>1, <3>2 DEF IsMail, IsFramed, SuiteNames
  <2>3. Tagged(m0, s0) /\ AsMade(m0, s0)
    BY <1>2, <1>6 DEF Tagged, AsMade
  <2>4. s0.direct => Owns(s0.to, m0)
    <3>. SUFFICES ASSUME ~a.altered PROVE Owns(a.owner, m0)
      BY <1>2
    <3>1. at = [end |-> "Ok", relay |-> a.relay, sender_id |-> a.queue]
      BY DEF QueueInv, AddressesKept, at
    <3>2. a.relay = m0.relay /\ a.queue = m0.queue
      BY <3>1, <1>6
    <3>. QED
      BY <3>2 DEF Owns
  <2>5. ASSUME NEW m \in mail
        PROVE  /\ IsMail(m)
               /\ \E s \in sent' :
                     Tagged(m, s) /\ (m.hops = 0 => AsMade(m, s) /\ (s.direct => Owns(s.to, m)))
    BY <1>3 DEF QueueInv, MailKept
  <2>6. s0 \in sent'
    BY <1>3
  <2>7. ASSUME NEW m \in mail'
        PROVE  /\ IsMail(m)
               /\ \E s \in sent' :
                     Tagged(m, s) /\ (m.hops = 0 => AsMade(m, s) /\ (s.direct => Owns(s.to, m)'))
    BY <1>5, <2>1, <2>2, <2>3, <2>4, <2>5, <2>6
  <2>. QED
    BY <2>7, Zenon DEF MailKept
<1>10. AcceptedAsSent'
  BY <1>3, AcceptedStays DEF QueueInv
<1>. QED
  BY <1>7, <1>8, <1>9, <1>10 DEF QueueInv

\* A mail that goes on with its tag is still a mail, and no longer untouched.
LEMMA PassQueueInv ==
    ASSUME QueueInv, NEW m \in mail, NEW x, IsMail(x), x.n = m.n, x.tag = m.tag, Pass(m, x)
    PROVE  QueueInv'
<1>. DEFINE y == [x EXCEPT !.hops = @ + 1]
<1>1. mail' = (mail \ {m}) \cup {y} /\ UNCHANGED <<rng, addresses, sent, accepted>>
  BY DEF Pass
<1>2. /\ DOMAIN x = {"n", "hops", "relay", "queue", "suite", "from", "blob", "nonce", "tag"}
      /\ x.hops \in Nat
  BY DEF IsMail
<1>3. /\ DOMAIN y = DOMAIN x /\ y.hops = x.hops + 1
      /\ y.n = x.n /\ y.suite = x.suite /\ y.from = x.from
      /\ y.blob = x.blob /\ y.nonce = x.nonce /\ y.tag = x.tag
  BY <1>2
<1>. HIDE DEF y
<1>4. IsMail(y)
  BY <1>2, <1>3 DEF IsMail, IsFramed
<1>5. y.hops # 0
  BY <1>2, <1>3
<1>6. PICK s \in sent : Tagged(m, s)
  BY DEF QueueInv, MailKept
<1>7. Tagged(y, s)
  BY <1>3, <1>6 DEF Tagged
<1>8. SentOnce' /\ AddressesKept' /\ AcceptedAsSent'
  BY <1>1 DEF QueueInv, SentOnce, IsSent, AddressesKept, AcceptedAsSent
<1>9. MailKept'
  <2>1. \A g, z : Owns(g, z)' <=> Owns(g, z)
    BY <1>1 DEF Owns
  <2>2. ASSUME NEW z \in mail'
        PROVE  /\ IsMail(z)
               /\ \E t \in sent :
                     Tagged(z, t) /\ (z.hops = 0 => AsMade(z, t) /\ (t.direct => Owns(t.to, z)))
    <3>1. CASE z = y
      BY <3>1, <1>4, <1>5, <1>7
    <3>2. CASE z # y
      <4>1. z \in mail
        BY <3>2, <1>1
      <4>. QED
        BY <4>1 DEF QueueInv, MailKept
    <3>. QED
      BY <3>1, <3>2
  <2>3. ASSUME NEW z \in mail'
        PROVE  /\ IsMail(z)
               /\ \E t \in sent' :
                     Tagged(z, t) /\ (z.hops = 0 => AsMade(z, t) /\ (t.direct => Owns(t.to, z)'))
    BY <1>1, <2>1, <2>2
  <2>. QED
    BY <2>3, Zenon DEF MailKept
<1>. QED
  BY <1>8, <1>9 DEF QueueInv

\* Every alteration of a mail leaves its number and its tag.
LEMMA AlteredMail ==
    ASSUME NEW m, IsMail(m)
    PROVE  /\ \A r, q : LET x == [m EXCEPT !.relay = r, !.queue = q]
                       IN  IsMail(x) /\ x.n = m.n /\ x.tag = m.tag
           /\ \A u \in SuiteNames : LET x == [m EXCEPT !.suite = u]
                                    IN  IsMail(x) /\ x.n = m.n /\ x.tag = m.tag
           /\ \A h \in Host : LET x == [m EXCEPT !.from = h]
                              IN  IsMail(x) /\ x.n = m.n /\ x.tag = m.tag
           /\ \A n : LET x == [m EXCEPT !.nonce = n]
                    IN  n \in Seq(Range(n)) => IsMail(x) /\ x.n = m.n /\ x.tag = m.tag
           /\ \A b : LET x == [m EXCEPT !.blob = b]
                    IN  b \in Seq(Range(b)) => IsMail(x) /\ x.n = m.n /\ x.tag = m.tag
<1>1. DOMAIN m = {"n", "hops", "relay", "queue", "suite", "from", "blob", "nonce", "tag"}
  BY DEF IsMail
<1>. QED
  BY <1>1 DEF IsMail, IsFramed

\* Into another queue, under another suite or sender, with another nonce.
LEMMA RedressQueueInv ==
    ASSUME QueueInv, NEW m \in mail, Redirect(m) \/ Resuite(m) \/ Reclaim(m) \/ Renonce(m)
    PROVE  QueueInv'
<1>1. \A x \in mail : IsMail(x)
  BY DEF QueueInv, MailKept
<1>2. CASE Redirect(m)
  BY <1>1, <1>2, AlteredMail, PassQueueInv DEF Redirect
<1>3. CASE Resuite(m)
  <2>1. CLASSICAL_SUITE \in SuiteNames
    BY DEF SuiteNames
  <2>. QED
    BY <2>1, <1>1, <1>3, AlteredMail, PassQueueInv DEF Resuite
<1>4. CASE Reclaim(m)
  BY <1>1, <1>4, AlteredMail, PassQueueInv DEF Reclaim
<1>5. CASE Renonce(m)
  <2>1. \A x \in mail : x.nonce \in Seq(Range(x.nonce))
    BY <1>1 DEF IsMail, IsFramed
  <2>. QED
    BY <2>1, <1>1, <1>5, AlteredMail, PassQueueInv DEF Renonce
<1>. QED
  BY <1>2, <1>3, <1>4, <1>5

\* The border between nonce and blob moves by a cell.
LEMMA ReframeQueueInv ==
    ASSUME QueueInv, NEW m \in mail, Reframe(m)
    PROVE  QueueInv'
<1>1. IsMail(m) /\ m.blob \in Seq(Range(m.blob)) /\ m.nonce \in Seq(Range(m.nonce))
  BY DEF QueueInv, MailKept, IsMail, IsFramed
<1>. DEFINE A == Range(m.blob) \cup Range(m.nonce)
<1>2. m.blob \in Seq(A) /\ m.nonce \in Seq(A)
  BY <1>1, SeqMonotonic
<1>3. DOMAIN m = {"n", "hops", "relay", "queue", "suite", "from", "blob", "nonce", "tag"}
  BY <1>1 DEF IsMail
<1>. HIDE DEF A
<1>4. CASE m.blob # <<>> /\ Pass(m, [m EXCEPT !.nonce = Append(@, Head(m.blob)), !.blob = Tail(@)])
  <2>. DEFINE n == Append(m.nonce, Head(m.blob))
              b == Tail(m.blob)
  <2>1. n \in Seq(A) /\ b \in Seq(A)
    BY <1>2, <1>4
  <2>2. [m EXCEPT !.nonce = Append(@, Head(m.blob)), !.blob = Tail(@)] = [m EXCEPT !.nonce = n, !.blob = b]
    BY <1>3
  <2>. HIDE DEF n, b
  <2>5. n \in Seq(Range(n)) /\ b \in Seq(Range(b))
    BY <2>1, SeqOfRange
  <2>. DEFINE x == [m EXCEPT !.nonce = n, !.blob = b]
  <2>6. Pass(m, x)
    BY <2>2, <1>4
  <2>7. IsMail(x) /\ x.n = m.n /\ x.tag = m.tag
    BY <1>1, <1>3, <2>5 DEF IsMail, IsFramed
  <2>. HIDE DEF x
  <2>. QED
    BY <2>6, <2>7, PassQueueInv
<1>5. CASE m.nonce # <<>> /\ Pass(m, [m EXCEPT !.nonce = Front(@), !.blob = <<Last(m.nonce)>> \o @])
  <2>. DEFINE n == Front(m.nonce)
              b == <<Last(m.nonce)>> \o m.blob
  <2>1. n \in Seq(A)
    BY <1>2 DEF Front
  <2>2. Last(m.nonce) \in A
    BY <1>2, <1>5 DEF Last
  <2>3. b \in Seq(A)
    BY <1>2, <2>2
  <2>4. [m EXCEPT !.nonce = Front(@), !.blob = <<Last(m.nonce)>> \o @] = [m EXCEPT !.nonce = n, !.blob = b]
    BY <1>3
  <2>. HIDE DEF n, b
  <2>5. n \in Seq(Range(n)) /\ b \in Seq(Range(b))
    BY <2>1, <2>3, SeqOfRange
  <2>. DEFINE x == [m EXCEPT !.nonce = n, !.blob = b]
  <2>6. Pass(m, x)
    BY <2>4, <1>5
  <2>7. IsMail(x) /\ x.n = m.n /\ x.tag = m.tag
    BY <1>1, <1>3, <2>5 DEF IsMail, IsFramed
  <2>. HIDE DEF x
  <2>. QED
    BY <2>6, <2>7, PassQueueInv
<1>. QED
  BY <1>4, <1>5 DEF Reframe

\* A cell is damaged, the number of cells stays.
LEMMA DamageQueueInv ==
    ASSUME QueueInv, NEW m \in mail, Damage(m)
    PROVE  QueueInv'
<1>1. IsMail(m) /\ m.blob \in Seq(Range(m.blob))
  BY DEF QueueInv, MailKept, IsMail, IsFramed
<1>2. DOMAIN m = {"n", "hops", "relay", "queue", "suite", "from", "blob", "nonce", "tag"}
  BY <1>1 DEF IsMail
<1>3. ASSUME NEW i \in DOMAIN m.blob, NEW c
      PROVE  [m.blob EXCEPT ![i] = c] \in Seq(Range([m.blob EXCEPT ![i] = c]))
  <2>. DEFINE B == Range(m.blob) \cup {c}
  <2>1. m.blob \in Seq(B) /\ c \in B
    BY <1>1, SeqMonotonic
  <2>. HIDE DEF B
  <2>2. [m.blob EXCEPT ![i] = c] \in Seq(B)
    BY <2>1
  <2>. QED
    BY <2>2, SeqOfRange
<1>4. PICK i \in DOMAIN m.blob : \E c : Pass(m, [m EXCEPT !.blob = [m.blob EXCEPT ![i] = c]])
  <2>1. PICK i \in DOMAIN m.blob :
            \/ Pass(m, [m EXCEPT !.blob[i].box.intact = FALSE])
            \/ Pass(m, [m EXCEPT !.blob[i].ct.mlkem.intact = FALSE])
    BY DEF Damage
  <2>. DEFINE c == [m.blob[i] EXCEPT !.box.intact = FALSE]
              d == [m.blob[i] EXCEPT !.ct.mlkem.intact = FALSE]
  <2>2. /\ [m EXCEPT !.blob[i].box.intact = FALSE] = [m EXCEPT !.blob = [m.blob EXCEPT ![i] = c]]
        /\ [m EXCEPT !.blob[i].ct.mlkem.intact = FALSE] = [m EXCEPT !.blob = [m.blob EXCEPT ![i] = d]]
    OBVIOUS
  <2>. HIDE DEF c, d
  <2>. QED
    BY <2>1, <2>2
<1>5. PICK c : Pass(m, [m EXCEPT !.blob = [m.blob EXCEPT ![i] = c]])
  BY <1>4
<1>. QED
  BY <1>1, <1>3, <1>5, AlteredMail, PassQueueInv

\* What is accepted is what was sent.
LEMMA AcceptQueueInv ==
    ASSUME QueueInv, NEW h \in Host, NEW m \in mail, Accept(h, m)
    PROVE  QueueInv'
<1>. DEFINE res == read_mail(h, m)
            x   == [n |-> res.msg, from |-> m.from, to |-> h, suite |-> m.suite, nonce |-> m.nonce]
<1>1. /\ res.end = "Ok" /\ accepted' = accepted \cup {x}
      /\ UNCHANGED <<rng, addresses, sent, mail>>
  BY DEF Accept
<1>2. IsMail(m)
  BY DEF QueueInv, MailKept
<1>3. PICK s \in sent : Tagged(m, s)
  BY DEF QueueInv, MailKept
<1>4. IsSent(s)
  BY DEF QueueInv, SentOnce
<1>5. /\ res.msg = s.n /\ h = s.to /\ m.from = s.from
      /\ m.suite = HYBRID_SUITE /\ m.nonce = Nonce(s)
  BY <1>1, <1>2, <1>3, <1>4, AcceptedMail DEF IsMail, Tagged
<1>. HIDE DEF res
<1>6. /\ x.n = s.n /\ x.from = s.from /\ x.to = s.to
      /\ x.suite = HYBRID_SUITE /\ x.nonce = <<[tag_nonce |-> x.n]>>
  BY <1>5 DEF Nonce
<1>. HIDE DEF x
<1>7. AcceptedAsSent'
  BY <1>1, <1>6 DEF QueueInv, AcceptedAsSent
<1>8. SentOnce' /\ AddressesKept'
  BY <1>1 DEF QueueInv, SentOnce, IsSent, AddressesKept
<1>9. MailKept'
  <2>1. \A g, z : Owns(g, z)' <=> Owns(g, z)
    BY <1>1 DEF Owns
  <2>. QED
    BY <1>1, <2>1 DEF QueueInv, MailKept
<1>. QED
  BY <1>7, <1>8, <1>9 DEF QueueInv

\* No step breaks the invariant.
LEMMA NextQueueInv == QueueInv /\ [Next]_vars => QueueInv'
<1>. SUFFICES ASSUME QueueInv, [Next]_vars PROVE QueueInv'
  OBVIOUS
<1>1. CASE UNCHANGED vars
  <2>1. \A g, z : Owns(g, z)' <=> Owns(g, z)
    BY <1>1 DEF vars, Owns
  <2>2. SentOnce' /\ AddressesKept' /\ AcceptedAsSent'
    BY <1>1 DEF vars, QueueInv, SentOnce, IsSent, AddressesKept, AcceptedAsSent
  <2>3. MailKept'
    BY <1>1, <2>1 DEF vars, QueueInv, MailKept
  <2>. QED
    BY <2>2, <2>3 DEF QueueInv
<1>2. CASE Next
  BY <1>2, PublishQueueInv, SendQueueInv, AcceptQueueInv, AlterAddressQueueInv, RedressQueueInv,
     ReframeQueueInv, DamageQueueInv DEF Next
<1>. QED
  BY <1>1, <1>2

\* The invariant holds in every reachable state, for any number of hosts,
\* queues, mails and alterations.
THEOREM QueueInvariance == Spec => []QueueInv
BY InitQueueInv, NextQueueInv, PTL DEF Spec

\* open_sealed's AAD and auth_tag's tag together: whatever happens to mail on
\* its way, what a host accepts was sent to it, by the host the mail names,
\* under the hybrid suite and with that nonce.
THEOREM MailAccepted == Spec => []AcceptedAsSent
<1>1. QueueInv => AcceptedAsSent
  BY DEF QueueInv
<1>. QED
  BY <1>1, QueueInvariance, PTL

\* Mail that nobody touched, for an address nobody touched, is found and opened
\* by its recipient.
THEOREM MailOpens == Spec => []IntactMailOpens
<1>1. QueueInv => IntactMailOpens
  <2>. SUFFICES ASSUME QueueInv, NEW m \in mail, NEW s \in sent,
                       m.n = s.n, m.hops = 0, s.direct
                PROVE  Owns(s.to, m) /\ read_mail(s.to, m).end = "Ok"
    BY DEF IntactMailOpens
  <2>1. PICK t \in sent : Tagged(m, t) /\ AsMade(m, t) /\ (t.direct => Owns(t.to, m))
    BY DEF QueueInv, MailKept
  <2>2. s = t
    BY <2>1 DEF QueueInv, SentOnce, Tagged
  <2>3. IsSent(s)
    BY DEF QueueInv, SentOnce
  <2>. QED
    BY <2>1, <2>2, <2>3, IntactReads DEF Tagged, AsMade
<1>. QED
  BY <1>1, QueueInvariance, PTL

\* encode_aqid and decode_aqid, for any relay locators and ids of any length: a
\* published address decodes to its relay and id, and any text that decodes is
\* the encoding of what it decodes to.
THEOREM AddressesRoundTrip == Spec => []AddressesExact
<1>1. QueueInv => AddressesExact
  <2>. SUFFICES ASSUME QueueInv, NEW a \in addresses
                PROVE  LET at == decode_aqid(a.text)
                       IN  /\ ~a.altered => at = [end |-> "Ok", relay |-> a.relay, sender_id |-> a.queue]
                           /\ at.end = "Ok" => encode_aqid(at.relay, at.sender_id) = a.text
    BY DEF AddressesExact
  <2>1. /\ a.text = [scheme |-> "aqid:", body |-> a.text.body]
        /\ a.text.body \in Seq(Range(a.text.body))
        /\ ~a.altered => decode_aqid(a.text) = [end |-> "Ok", relay |-> a.relay, sender_id |-> a.queue]
    BY DEF QueueInv, AddressesKept
  <2>2. decode_aqid(a.text).end = "Ok"
          => encode_aqid(decode_aqid(a.text).relay, decode_aqid(a.text).sender_id) = a.text
    BY <2>1, DecodedEncodes
  <2>. QED
    BY <2>1, <2>2
<1>. QED
  BY <1>1, QueueInvariance, PTL
=============================================================================
