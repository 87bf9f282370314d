-------------------------- MODULE TokenCodecProofs --------------------------
(***************************************************************************)
(* The token codec for every frame, every width of the integers and every  *)
(* alteration of a token.                                                  *)
(***************************************************************************)
EXTENDS TokenCodec, SequenceTheorems, TLAPS

-----------------------------------------------------------------------------
(* Byte strings, numbers and their forms *)

\* A function on 1 .. n is a byte string of n bytes, and the other way round.
LEMMA BytesOf ==
    ASSUME NEW n \in Nat
    PROVE  /\ \A b \in [1 .. n -> 0 .. Byte - 1] : b \in Bytes /\ Len(b) = n
           /\ \A b \in Bytes : Len(b) = n => b \in [1 .. n -> 0 .. Byte - 1]
<1>1. ASSUME NEW b \in [1 .. n -> 0 .. Byte - 1] PROVE b \in Bytes /\ Len(b) = n
  <2>1. Bytes = UNION {[1 .. i -> 0 .. Byte - 1] : i \in Nat}
    BY SeqDef DEF Bytes
  <2>2. b \in Bytes
    BY <2>1
  <2>3. Len(b) \in Nat /\ 1 .. Len(b) = 1 .. n
    BY <2>2, LenProperties DEF Bytes
  <2>. QED
    BY <2>2, <2>3
<1>2. ASSUME NEW b \in Bytes, Len(b) = n PROVE b \in [1 .. n -> 0 .. Byte - 1]
  BY <1>2, LenProperties DEF Bytes
<1>. QED
  BY <1>1, <1>2

\* Concatenation: of byte strings a byte string, as long as both.
LEMMA BytesConcat ==
    ASSUME NEW a \in Bytes, NEW b \in Bytes
    PROVE  a \o b \in Bytes /\ Len(a \o b) = Len(a) + Len(b)
BY ConcatProperties DEF Bytes

\* The order of two concatenations does not matter.
LEMMA BytesAssoc ==
    ASSUME NEW a \in Bytes, NEW b \in Bytes, NEW c \in Bytes
    PROVE  (a \o b) \o c = a \o (b \o c)
BY ConcatAssociative DEF Bytes

\* A length below 2^32 is not cut.
LEMMA SmallMod ==
    ASSUME NEW n \in Nat, NEW r \in Nat, n < r
    PROVE  n % r = n
OBVIOUS

\* form is to_be_bytes of a type with range values in len bytes.
IsForm(form, range, len) ==
    form \in Bijection(0 .. range - 1, [1 .. len -> 0 .. Byte - 1])

\* The two integer types of the codec.
LEMMA Forms ==
    /\ IsForm(u64_bytes, U64_RANGE, U64_LEN)
    /\ IsForm(u32_bytes, U32_RANGE, U32_LEN)
    /\ U64_RANGE \in Nat /\ U32_RANGE \in Nat /\ U64_LEN \in Nat /\ U32_LEN \in Nat
BY CodecAssumption, BigEndianAssumption DEF IsForm

\* from_be_bytes undoes to_be_bytes ...
LEMMA NumberOfForm ==
    ASSUME NEW range \in Nat, NEW len \in Nat, NEW form, IsForm(form, range, len),
           NEW n \in 0 .. range - 1
    PROVE  form[n] \in Bytes /\ Len(form[n]) = len /\ from_be_bytes(form, form[n]) = n
<1>1. /\ form \in [0 .. range - 1 -> [1 .. len -> 0 .. Byte - 1]]
      /\ \A a, b \in 0 .. range - 1 : form[a] = form[b] => a = b
  BY DEF IsForm, Bijection, Injection, IsInjective
<1>2. form[n] \in Bytes /\ Len(form[n]) = len
  BY <1>1, BytesOf
<1>. QED
  BY <1>1, <1>2 DEF from_be_bytes

\* ... and to_be_bytes undoes from_be_bytes.
LEMMA FormOfNumber ==
    ASSUME NEW range \in Nat, NEW len \in Nat, NEW form, IsForm(form, range, len),
           NEW b \in Bytes, Len(b) = len
    PROVE  from_be_bytes(form, b) \in 0 .. range - 1 /\ form[from_be_bytes(form, b)] = b
<1>1. /\ DOMAIN form = 0 .. range - 1
      /\ \A t \in [1 .. len -> 0 .. Byte - 1] : \E n \in 0 .. range - 1 : form[n] = t
  BY DEF IsForm, Bijection, Surjection
<1>2. b \in [1 .. len -> 0 .. Byte - 1]
  BY BytesOf
<1>. QED
  BY <1>1, <1>2 DEF from_be_bytes

\* The form of a length: of any length, cut to 32 bits.
LEMMA LenForm ==
    ASSUME NEW b \in Bytes
    PROVE  /\ len_bytes(b) \in Bytes
           /\ Len(len_bytes(b)) = U32_LEN
           /\ from_be_bytes(u32_bytes, len_bytes(b)) = Len(b) % U32_RANGE
<1>1. Len(b) % U32_RANGE \in 0 .. U32_RANGE - 1
  BY LenProperties, CodecAssumption DEF Bytes
<1>. QED
  BY <1>1, Forms, NumberOfForm DEF len_bytes

-----------------------------------------------------------------------------
(* take *)

\* A cursor is inside the blob, also when it has ended.
Cursor(blob) == [off : 0 .. Len(blob), out : Seq(Bytes), end : {None} \cup Failures]

\* Cursor t is c with one more chunk, of n bytes.
Taken(blob, c, t, n) ==
    /\ c.end = None
    /\ Len(t.out) = Len(c.out) + 1
    /\ \A i \in 1 .. Len(c.out) : t.out[i] = c.out[i]
    /\ Last(t.out) \in Bytes /\ Len(Last(t.out)) = n
    /\ SubSeq(blob, 1, t.off) = SubSeq(blob, 1, c.off) \o Last(t.out)

\* A chunk inside the blob.
LEMMA Chunk ==
    ASSUME NEW blob \in Bytes, NEW off \in Nat, NEW n \in Nat, off + n <= Len(blob)
    PROVE  /\ SubSeq(blob, off + 1, off + n) \in Bytes
           /\ Len(SubSeq(blob, off + 1, off + n)) = n
           /\ SubSeq(blob, 1, off) \o SubSeq(blob, off + 1, off + n) = SubSeq(blob, 1, off + n)
<1>. DEFINE x == SubSeq(blob, off + 1, off + n)
<1>1. Len(blob) \in Nat
  BY LenProperties DEF Bytes
<1>2. ASSUME NEW i \in off + 1 .. off + n PROVE blob[i] \in 0 .. Byte - 1
  <2>1. i \in 1 .. Len(blob)
    BY <1>1
  <2>. QED
    BY <2>1, ElementOfSeq DEF Bytes
<1>3. x \in Bytes /\ Len(x) = IF off + 1 <= off + n THEN (off + n) - (off + 1) + 1 ELSE 0
  BY <1>2, SubSeqProperties DEF Bytes
<1>4. Len(x) = n
  BY <1>3
<1>5. 1 \in 1 .. Len(blob) + 1 /\ off \in 1 - 1 .. Len(blob) /\ off + n \in off .. Len(blob)
  BY <1>1
<1>6. SubSeq(blob, 1, off) \o SubSeq(blob, off + 1, off + n) = SubSeq(blob, 1, off + n)
  BY <1>5, ConcatAdjacentSubSeq DEF Bytes
<1>. QED
  BY <1>3, <1>4, <1>6

\* take gives a cursor again, and one that has not ended only for a chunk that
\* lies in the blob.
LEMMA Take ==
    ASSUME NEW blob \in Bytes, NEW c \in Cursor(blob), NEW n \in Nat
    PROVE  /\ take(blob, c, n) \in Cursor(blob)
           /\ take(blob, c, n).end = None => Taken(blob, c, take(blob, c, n), n)
<1>. DEFINE x == SubSeq(blob, c.off + 1, c.off + n)
            t == take(blob, c, n)
<1>1. c.off \in Nat /\ Len(blob) \in Nat /\ c.off <= Len(blob) /\ c.out \in Seq(Bytes)
  BY LenProperties DEF Cursor, Bytes
<1>2. CASE c.end # None
  BY <1>2 DEF take
<1>3. CASE c.end = None /\ (c.off + n >= UsizeRange \/ c.off + n > Len(blob))
  <2>1. PICK f \in Failures : t = [c EXCEPT !.end = f]
    BY <1>3 DEF take, Failures
  <2>2. t \in Cursor(blob) /\ t.end = f
    BY <2>1 DEF Cursor
  <2>. QED
    BY <2>2, NoneIsNoResult
<1>4. CASE c.end = None /\ ~(c.off + n >= UsizeRange) /\ ~(c.off + n > Len(blob))
  <2>1. t = [off |-> c.off + n, out |-> Append(c.out, x), end |-> None]
    BY <1>4 DEF take
  <2>2. c.off + n <= Len(blob) /\ c.off + n \in 0 .. Len(blob)
    BY <1>1, <1>4
  <2>3. x \in Bytes /\ Len(x) = n /\ SubSeq(blob, 1, c.off) \o x = SubSeq(blob, 1, c.off + n)
    BY <1>1, <2>2, Chunk, Zenon
  <2>. HIDE DEF x
  <2>4. /\ Append(c.out, x) \in Seq(Bytes)
        /\ Len(Append(c.out, x)) = Len(c.out) + 1
        /\ \A i \in 1 .. Len(c.out) : Append(c.out, x)[i] = c.out[i]
        /\ Append(c.out, x)[Len(c.out) + 1] = x
    BY <1>1, <2>3, AppendProperties
  <2>5. Last(Append(c.out, x)) = x
    BY <2>4 DEF Last
  <2>6. t.off = c.off + n /\ t.out = Append(c.out, x) /\ t.end = None
    BY <2>1
  <2>7. t \in Cursor(blob)
    BY <2>1, <2>2, <2>4 DEF Cursor
  <2>. HIDE DEF t
  <2>8. Taken(blob, c, t, n)
    BY <1>4, <2>3, <2>4, <2>5, <2>6 DEF Taken
  <2>. QED
    BY <2>7, <2>8 DEF t
<1>. QED
  BY <1>2, <1>3, <1>4

\* Cursor t is c after k more chunks, which are these bytes of the blob.
Read(blob, c, t, k, bytes) ==
    /\ c.end = None
    /\ Len(t.out) = Len(c.out) + k
    /\ \A i \in 1 .. Len(c.out) : t.out[i] = c.out[i]
    /\ SubSeq(blob, 1, t.off) = SubSeq(blob, 1, c.off) \o bytes

\* What stands before a cursor are bytes.
LEMMA Before ==
    ASSUME NEW blob \in Bytes, NEW c \in Cursor(blob)
    PROVE  SubSeq(blob, 1, c.off) \in Bytes /\ Len(c.out) \in Nat /\ c.out \in Seq(Bytes)
<1>1. c.off \in Nat /\ 0 + c.off <= Len(blob) /\ Len(blob) \in Nat /\ c.out \in Seq(Bytes)
  BY LenProperties DEF Cursor, Bytes
<1>2. SubSeq(blob, 0 + 1, 0 + c.off) \in Bytes
  BY <1>1, Chunk
<1>3. 0 + 1 = 1 /\ 0 + c.off = c.off
  BY <1>1
<1>. QED
  BY <1>1, <1>2, <1>3, LenProperties

\* The bytes a length-prefixed field is written as.
prefixed(bytes) == len_bytes(bytes) \o bytes

\* A length and its field, written one after the other.
LEMMA WrittenField ==
    ASSUME NEW p \in Bytes, NEW x \in Bytes
    PROVE  /\ (p \o len_bytes(x)) \o x = p \o prefixed(x)
           /\ prefixed(x) \in Bytes /\ p \o prefixed(x) \in Bytes
<1>1. PICK l \in Bytes : l = len_bytes(x)
  BY LenForm
<1>2. (p \o l) \o x = p \o (l \o x)
  BY BytesAssoc
<1>3. l \o x \in Bytes /\ p \o (l \o x) \in Bytes
  BY BytesConcat
<1>. QED
  BY <1>1, <1>2, <1>3, Zenon DEF prefixed

\* The bytes of a token, field by field.
LEMMA WrittenBlob ==
    ASSUME NEW f, NEW e \in Bytes, NEW i \in Bytes, u64_bytes[f.epoch] = e, u64_bytes[f.index] = i,
           f.nonce \in Bytes, f.body \in Bytes
    PROVE  to_token(f).blob = (((e \o i) \o prefixed(f.nonce)) \o prefixed(f.body)) \o kam_bytes(f.kam)
<1>1. PICK n \in Bytes, b \in Bytes : n = f.nonce /\ b = f.body
  OBVIOUS
<1>2. PICK p \in Bytes : p = e \o i
  BY BytesConcat
<1>3. (p \o len_bytes(n)) \o n = p \o prefixed(n) /\ p \o prefixed(n) \in Bytes
  BY WrittenField
<1>4. PICK q \in Bytes : q = p \o prefixed(n)
  BY <1>3
<1>5. (q \o len_bytes(b)) \o b = q \o prefixed(b)
  BY WrittenField
<1>6. to_token(f).blob = ((((p \o len_bytes(n)) \o n) \o len_bytes(b)) \o b) \o kam_bytes(f.kam)
  BY <1>1, <1>2 DEF to_token
<1>. QED
  BY <1>1, <1>2, <1>3, <1>4, <1>5, <1>6, Zenon

\* take_prefixed reads a field that is written in its canonical form.
LEMMA TakePrefixed ==
    ASSUME NEW blob \in Bytes, NEW c \in Cursor(blob), NEW t, t = take_prefixed(blob, c)
    PROVE  /\ t \in Cursor(blob)
           /\ t.end = None => /\ Last(t.out) \in Bytes
                              /\ Read(blob, c, t, 2, prefixed(Last(t.out)))
<1>. DEFINE l == take(blob, c, U32_LEN)
            n == from_be_bytes(u32_bytes, Last(l.out))
<1>1. l \in Cursor(blob) /\ (l.end = None => Taken(blob, c, l, U32_LEN))
  BY Forms, Take
<1>2. t = IF l.end # None THEN l ELSE take(blob, l, n)
  BY DEF take_prefixed
<1>. HIDE DEF l
<1>3. CASE l.end # None
  BY <1>1, <1>2, <1>3
<1>4. CASE l.end = None
  <2>1. n \in 0 .. U32_RANGE - 1 /\ u32_bytes[n] = Last(l.out)
    BY <1>1, <1>4, Forms, FormOfNumber DEF Taken
  <2>. HIDE DEF n
  <2>2. n \in Nat /\ t = take(blob, l, n)
    BY <1>2, <1>4, <2>1
  <2>3. t \in Cursor(blob) /\ (t.end = None => Taken(blob, l, t, n))
    BY <1>1, <2>2, Take
  <2>4. ASSUME t.end = None
        PROVE  Last(t.out) \in Bytes /\ Read(blob, c, t, 2, prefixed(Last(t.out)))
    <3>1. Taken(blob, c, l, U32_LEN) /\ Taken(blob, l, t, n)
      BY <1>1, <1>4, <2>3, <2>4
    <3>2. len_bytes(Last(t.out)) = Last(l.out)
      <4>1. Len(Last(t.out)) = n /\ n % U32_RANGE = n
        <5>1. n \in Nat /\ U32_RANGE \in Nat /\ n < U32_RANGE
          BY <2>1, CodecAssumption
        <5>. QED
          BY <3>1, <5>1, SmallMod DEF Taken
      <4>. QED
        BY <2>1, <4>1 DEF len_bytes
    <3>3. /\ SubSeq(blob, 1, c.off) \in Bytes /\ Last(l.out) \in Bytes /\ Last(t.out) \in Bytes
          /\ Len(c.out) \in Nat
      BY <3>1, Before DEF Taken
    <3>4. SubSeq(blob, 1, t.off) = SubSeq(blob, 1, c.off) \o prefixed(Last(t.out))
      <4>1. SubSeq(blob, 1, t.off) = (SubSeq(blob, 1, c.off) \o Last(l.out)) \o Last(t.out)
        BY <3>1 DEF Taken
      <4>2. (SubSeq(blob, 1, c.off) \o Last(l.out)) \o Last(t.out)
              = SubSeq(blob, 1, c.off) \o (Last(l.out) \o Last(t.out))
        BY <3>3, BytesAssoc
      <4>. QED
        BY <3>2, <4>1, <4>2 DEF prefixed
    <3>5. Len(t.out) = Len(c.out) + 2 /\ \A i \in 1 .. Len(c.out) : t.out[i] = c.out[i]
      <4>1. Len(l.out) = Len(c.out) + 1 /\ \A i \in 1 .. Len(c.out) : l.out[i] = c.out[i]
        BY <3>1 DEF Taken
      <4>2. Len(t.out) = Len(l.out) + 1 /\ \A i \in 1 .. Len(l.out) : t.out[i] = l.out[i]
        BY <3>1 DEF Taken
      <4>3. \A i \in 1 .. Len(c.out) : i \in 1 .. Len(l.out)
        BY <3>3, <4>1
      <4>. QED
        BY <3>3, <4>1, <4>2, <4>3
    <3>. QED
      BY <3>1, <3>3, <3>4, <3>5 DEF Taken, Read
  <2>. QED
    BY <2>3, <2>4
<1>. QED
  BY <1>3, <1>4

\* The KAM a cursor that took one stands behind: the chunk after k others is
\* its flag.
kam_at(t, k) == IF t.out[k + 1] = <<0>> THEN None ELSE Last(t.out)

\* take_kam reads a KAM that is written in its canonical form.
LEMMA TakeKam ==
    ASSUME NEW blob \in Bytes, NEW c \in Cursor(blob), NEW t, t = take_kam(blob, c)
    PROVE  /\ t \in Cursor(blob)
           /\ t.end = None =>
                 LET k == Len(c.out)
                 IN  /\ t.out[k + 1] = <<0>> \/ Len(t.out) = k + 3
                     /\ \E m \in {1, 3} : Read(blob, c, t, m, kam_bytes(kam_at(t, k)))
<1>. DEFINE f == take(blob, c, 1)
            k == Len(c.out)
<1>1. f \in Cursor(blob) /\ (f.end = None => Taken(blob, c, f, 1))
  BY Take
<1>2. t = IF f.end # None \/ Last(f.out) = <<0>> THEN f
          ELSE IF Last(f.out) = <<1>> THEN take_prefixed(blob, f)
          ELSE [f EXCEPT !.end = "invalid kam presence flag"]
  BY DEF take_kam
<1>. HIDE DEF f
<1>3. k \in Nat /\ SubSeq(blob, 1, c.off) \in Bytes
  BY Before
<1>4. f.end = None => /\ c.end = None /\ Len(f.out) = k + 1 /\ f.out[k + 1] = Last(f.out)
                      /\ Last(f.out) \in Bytes
                      /\ \A i \in 1 .. k : f.out[i] = c.out[i]
                      /\ SubSeq(blob, 1, f.off) = SubSeq(blob, 1, c.off) \o Last(f.out)
  BY <1>1 DEF Taken, Last
<1>. HIDE DEF k
<1>5. CASE f.end # None
  BY <1>1, <1>2, <1>5
<1>6. CASE f.end = None /\ Last(f.out) = <<0>>
  <2>1. t = f /\ kam_at(t, k) = None
    BY <1>2, <1>4, <1>6 DEF kam_at
  <2>2. Read(blob, c, t, 1, kam_bytes(kam_at(t, k)))
    BY <1>4, <1>6, <2>1 DEF Read, kam_bytes, k
  <2>. QED
    BY <1>1, <1>4, <1>6, <2>1, <2>2 DEF k
<1>7. CASE f.end = None /\ Last(f.out) = <<1>>
  <2>1. <<1>> # <<0>>
    OBVIOUS
  <2>2. t = take_prefixed(blob, f)
    BY <1>2, <1>7, <2>1
  <2>3. t \in Cursor(blob)
    BY <1>1, <2>2, TakePrefixed
  <2>4. ASSUME t.end = None
        PROVE  Len(t.out) = k + 3 /\ Read(blob, c, t, 3, kam_bytes(kam_at(t, k)))
    <3>1. Last(t.out) \in Bytes /\ Read(blob, f, t, 2, prefixed(Last(t.out)))
      BY <1>1, <2>2, <2>4, TakePrefixed
    <3>2. t.out[k + 1] = <<1>> /\ Len(t.out) = k + 3 /\ \A i \in 1 .. k : t.out[i] = c.out[i]
      <4>1. k + 1 \in 1 .. Len(f.out) /\ \A i \in 1 .. k : i \in 1 .. Len(f.out)
        BY <1>3, <1>4, <1>7
      <4>. QED
        BY <1>3, <1>4, <1>7, <3>1, <4>1 DEF Read
    <3>3. kam_at(t, k) = Last(t.out) /\ Last(t.out) # None
      BY <2>1, <3>1, <3>2, NoneIsNoResult DEF kam_at
    <3>4. len_bytes(Last(t.out)) \in Bytes
      BY <3>1, LenForm
    <3>5. <<1>> \in Bytes /\ prefixed(Last(t.out)) \in Bytes
      BY <1>4, <1>7, <3>1, <3>4, ConcatProperties DEF prefixed, Bytes
    <3>6. SubSeq(blob, 1, t.off) = (SubSeq(blob, 1, c.off) \o <<1>>) \o prefixed(Last(t.out))
      BY <1>4, <1>7, <3>1 DEF Read
    <3>7. SubSeq(blob, 1, t.off) = SubSeq(blob, 1, c.off) \o (<<1>> \o prefixed(Last(t.out)))
      BY <1>3, <3>5, <3>6, BytesAssoc
    <3>8. <<1>> \o prefixed(Last(t.out)) = kam_bytes(Last(t.out))
      <4>1. (<<1>> \o len_bytes(Last(t.out))) \o Last(t.out)
              = <<1>> \o (len_bytes(Last(t.out)) \o Last(t.out))
        BY <3>1, <3>4, <3>5, BytesAssoc
      <4>. QED
        BY <3>3, <4>1, Zenon DEF prefixed, kam_bytes
    <3>. QED
      BY <1>4, <1>7, <3>2, <3>3, <3>7, <3>8 DEF Read, k
  <2>. QED
    BY <2>3, <2>4 DEF k
<1>8. CASE f.end = None /\ Last(f.out) # <<0>> /\ Last(f.out) # <<1>>
  <2>1. t = [f EXCEPT !.end = "invalid kam presence flag"]
    BY <1>2, <1>8
  <2>2. t \in Cursor(blob) /\ t.end # None
    BY <1>1, <2>1, NoneIsNoResult DEF Cursor, Failures
  <2>. QED
    BY <2>2
<1>. QED
  BY <1>5, <1>6, <1>7, <1>8

-----------------------------------------------------------------------------
(* What is accepted was written that way *)

IsToken(t) == t = [scheme |-> t.scheme, blob |-> t.blob] /\ t.blob \in Bytes

\* The cursor from_token begins with.
start(scheme) == [off |-> 0, out |-> <<>>,
                  end |-> IF scheme = PQDR_SCHEME THEN None ELSE "not a pqdr1: token"]

\* from_token begins at the front of the blob, and goes on only behind its
\* scheme.
LEMMA StartCursor ==
    ASSUME NEW blob \in Bytes, NEW scheme, NEW c, c = start(scheme)
    PROVE  /\ c \in Cursor(blob) /\ c.off = 0 /\ Len(c.out) = 0
           /\ c.end = None => scheme = PQDR_SCHEME
           /\ c.end # "panic"
<1>1. <<>> \in Seq(Bytes) /\ Len(<<>>) = 0 /\ Len(blob) \in Nat
  BY EmptySeq, LenProperties DEF Bytes
<1>2. None # "panic" /\ "not a pqdr1: token" \in Failures /\ "not a pqdr1: token" # None
  BY NoneIsNoResult DEF Failures
<1>3. PICK e : e = IF scheme = PQDR_SCHEME THEN None ELSE "not a pqdr1: token"
  OBVIOUS
<1>4. PICK o, q : o = 0 /\ q = <<>>
  OBVIOUS
<1>5. c = [off |-> o, out |-> q, end |-> e]
  BY <1>3, <1>4, Zenon DEF start
<1>6. e \in {None} \cup Failures /\ e # "panic" /\ (e = None => scheme = PQDR_SCHEME)
  BY <1>2, <1>3
<1>7. o \in 0 .. Len(blob) /\ q \in Seq(Bytes) /\ Len(q) = 0
  <2>1. 0 \in 0 .. Len(blob)
    BY <1>1
  <2>. QED
    BY <1>1, <1>4, <2>1, Zenon
<1>8. c.off = o /\ c.out = q /\ c.end = e
  BY <1>5
<1>9. c \in Cursor(blob)
  BY <1>5, <1>6, <1>7 DEF Cursor
<1>. QED
  BY <1>4, <1>6, <1>7, <1>8, <1>9

\* from_token accepts a token only if to_token writes it, of the frame returned.
LEMMA AcceptedToken ==
    ASSUME NEW t, IsToken(t), from_token(t).end = "Ok"
    PROVE  to_token(from_token(t).frame) = t
<1>. DEFINE blob == t.blob
            c0 == start(t.scheme)
            c1 == take(blob, c0, U64_LEN)
            c2 == take(blob, c1, U64_LEN)
            c3 == take_prefixed(blob, c2)
            c4 == take_prefixed(blob, c3)
            c5 == take_kam(blob, c4)
            c  == finish(blob, c5)
            f  == from_token(t).frame
<1>0. t = [scheme |-> t.scheme, blob |-> blob] /\ blob \in Bytes /\ Len(blob) \in Nat
  BY LenProperties DEF IsToken, Bytes
<1>1. from_token(t) = IF c.end # None
                      THEN [end |-> c.end, frame |-> None]
                      ELSE [end   |-> "Ok",
                            frame |-> [epoch |-> from_be_bytes(u64_bytes, c.out[1]),
                                       index |-> from_be_bytes(u64_bytes, c.out[2]),
                                       nonce |-> c.out[4],
                                       body  |-> c.out[6],
                                       kam   |-> IF c.out[7] = <<0>> THEN None ELSE c.out[9]]]
  BY DEF from_token, start
<1>2. /\ c0 \in Cursor(blob) /\ c0.off = 0 /\ Len(c0.out) = 0
      /\ c0.end = None => t.scheme = PQDR_SCHEME
  BY <1>0, StartCursor
<1>. HIDE DEF c0
<1>3. c1 \in Cursor(blob) /\ (c1.end = None => Taken(blob, c0, c1, U64_LEN))
  BY <1>0, <1>2, Forms, Take
<1>. HIDE DEF c1
<1>4. c2 \in Cursor(blob) /\ (c2.end = None => Taken(blob, c1, c2, U64_LEN))
  BY <1>0, <1>3, Forms, Take
<1>. HIDE DEF c2
<1>5. /\ c3 \in Cursor(blob)
      /\ c3.end = None => Last(c3.out) \in Bytes /\ Read(blob, c2, c3, 2, prefixed(Last(c3.out)))
  BY <1>0, <1>4, TakePrefixed
<1>. HIDE DEF c3
<1>6. /\ c4 \in Cursor(blob)
      /\ c4.end = None => Last(c4.out) \in Bytes /\ Read(blob, c3, c4, 2, prefixed(Last(c4.out)))
  BY <1>0, <1>5, TakePrefixed
<1>. HIDE DEF c4
<1>7. /\ c5 \in Cursor(blob)
      /\ c5.end = None =>
            /\ c5.out[Len(c4.out) + 1] = <<0>> \/ Len(c5.out) = Len(c4.out) + 3
            /\ \E m \in {1, 3} : Read(blob, c4, c5, m, kam_bytes(kam_at(c5, Len(c4.out))))
  BY <1>0, <1>6, TakeKam
<1>. HIDE DEF c5
<1>8. c.end = None
  <2>1. c \in Cursor(blob)
    BY <1>7 DEF finish, Cursor, Failures
  <2>2. "Ok" \notin Failures
    BY DEF Failures
  <2>. QED
    BY <1>1, <2>1, <2>2 DEF Cursor
<1>9. c = c5 /\ c5.off = Len(blob) /\ c5.end = None
  <2>1. [c5 EXCEPT !.end = "trailing bytes"].end # None
    BY <1>7, NoneIsNoResult DEF Cursor, Failures
  <2>. QED
    BY <1>8, <2>1 DEF finish
<1>. HIDE DEF c
<1>10. PICK m \in {1, 3} : Read(blob, c4, c5, m, kam_bytes(kam_at(c5, Len(c4.out))))
  BY <1>7, <1>9
<1>11. /\ Taken(blob, c0, c1, U64_LEN)
       /\ Taken(blob, c1, c2, U64_LEN)
       /\ Last(c3.out) \in Bytes /\ Read(blob, c2, c3, 2, prefixed(Last(c3.out)))
       /\ Last(c4.out) \in Bytes /\ Read(blob, c3, c4, 2, prefixed(Last(c4.out)))
       /\ c0.end = None
  BY <1>3, <1>4, <1>5, <1>6, <1>10 DEF Taken, Read
<1>12. /\ Len(c1.out) = 1 /\ Len(c2.out) = 2 /\ Len(c3.out) = 4 /\ Len(c4.out) = 6
       /\ Len(c5.out) = 6 + m
  BY <1>2, <1>10, <1>11 DEF Taken, Read
<1>13. /\ c5.out[1] = Last(c1.out)
       /\ c5.out[2] = Last(c2.out)
       /\ c5.out[4] = Last(c3.out)
       /\ c5.out[6] = Last(c4.out)
  <2>1. /\ Last(c1.out) = c1.out[1] /\ Last(c2.out) = c2.out[2]
        /\ Last(c3.out) = c3.out[4] /\ Last(c4.out) = c4.out[6]
    BY <1>12 DEF Last
  <2>2. c2.out[1] = c1.out[1]
    BY <1>11, <1>12 DEF Taken
  <2>3. \A i \in 1 .. 2 : c3.out[i] = c2.out[i]
    BY <1>11, <1>12 DEF Read
  <2>4. \A i \in 1 .. 4 : c4.out[i] = c3.out[i]
    BY <1>11, <1>12 DEF Read
  <2>5. \A i \in 1 .. 6 : c5.out[i] = c4.out[i]
    BY <1>10, <1>12 DEF Read
  <2>. QED
    BY <2>1, <2>2, <2>3, <2>4, <2>5
<1>14. /\ f.epoch = from_be_bytes(u64_bytes, Last(c1.out))
       /\ f.index = from_be_bytes(u64_bytes, Last(c2.out))
       /\ f.nonce = Last(c3.out)
       /\ f.body = Last(c4.out)
       /\ f.kam = kam_at(c5, 6)
  <2>1. f.kam = IF c5.out[7] = <<0>> THEN None ELSE c5.out[9]
    BY <1>1, <1>8, <1>9
  <2>2. c5.out[7] = <<0>> \/ Len(c5.out) = 9
    BY <1>7, <1>9, <1>12
  <2>3. f.kam = kam_at(c5, 6)
    BY <2>1, <2>2 DEF kam_at, Last
  <2>. QED
    BY <1>1, <1>8, <1>9, <1>13, <2>3
<1>. HIDE DEF f
<1>15. u64_bytes[f.epoch] = Last(c1.out) /\ u64_bytes[f.index] = Last(c2.out)
  <2>1. /\ Last(c1.out) \in Bytes /\ Len(Last(c1.out)) = U64_LEN
        /\ Last(c2.out) \in Bytes /\ Len(Last(c2.out)) = U64_LEN
    BY <1>11 DEF Taken
  <2>2. \A b \in Bytes : Len(b) = U64_LEN => u64_bytes[from_be_bytes(u64_bytes, b)] = b
    BY Forms, FormOfNumber
  <2>. QED
    BY <1>14, <2>1, <2>2
<1>16. SubSeq(blob, 1, c1.off) = Last(c1.out)
  <2>1. SubSeq(blob, 1, 0) = <<>>
    BY SubSeqEmpty
  <2>2. SubSeq(blob, 1, c1.off) = <<>> \o Last(c1.out)
    BY <1>2, <1>11, <2>1 DEF Taken
  <2>. QED
    BY <1>11, <2>2, ConcatEmptySeq DEF Taken, Bytes
<1>17. blob = (((Last(c1.out) \o Last(c2.out)) \o prefixed(f.nonce)) \o prefixed(f.body))
                \o kam_bytes(f.kam)
  <2>1. SubSeq(blob, 1, c5.off) = blob
    BY <1>0, <1>9, SubSeqFull DEF Bytes
  <2>2. SubSeq(blob, 1, c2.off) = Last(c1.out) \o Last(c2.out)
    BY <1>11, <1>16 DEF Taken
  <2>3. SubSeq(blob, 1, c3.off) = SubSeq(blob, 1, c2.off) \o prefixed(f.nonce)
    BY <1>11, <1>14 DEF Read
  <2>4. SubSeq(blob, 1, c4.off) = SubSeq(blob, 1, c3.off) \o prefixed(f.body)
    BY <1>11, <1>14 DEF Read
  <2>5. SubSeq(blob, 1, c5.off) = SubSeq(blob, 1, c4.off) \o kam_bytes(f.kam)
    BY <1>10, <1>12, <1>14 DEF Read
  <2>. QED
    BY <2>1, <2>2, <2>3, <2>4, <2>5
<1>18. to_token(f).blob = blob
  BY <1>11, <1>14, <1>15, <1>17, WrittenBlob DEF Taken
<1>19. to_token(f) = [scheme |-> PQDR_SCHEME, blob |-> to_token(f).blob]
  BY DEF to_token
<1>. QED
  BY <1>0, <1>2, <1>11, <1>18, <1>19 DEF f

-----------------------------------------------------------------------------
(* What was written is read again *)

Begins(blob, p) == \E rest \in Bytes : blob = p \o rest

\* What begins with a and b begins with a.
LEMMA BeginsBefore ==
    ASSUME NEW blob, NEW a \in Bytes, NEW b \in Bytes, Begins(blob, a \o b)
    PROVE  Begins(blob, a)
<1>1. PICK rest \in Bytes : blob = (a \o b) \o rest
  BY DEF Begins
<1>2. blob = a \o (b \o rest) /\ b \o rest \in Bytes
  BY <1>1, BytesAssoc, BytesConcat
<1>. QED
  BY <1>2 DEF Begins

\* The cursor behind the bytes p, with the chunks taken out of them.
behind(p, out) == [off |-> Len(p), out |-> out, end |-> None]

\* In a blob a usize counts, the bytes x stand behind the bytes p.
Follows(blob, p, x) ==
    /\ blob \in Bytes /\ Len(blob) < UsizeRange
    /\ p \in Bytes /\ x \in Bytes
    /\ Begins(blob, p \o x)

\* take finds the bytes x that follow p.
LEMMA TakeNext ==
    ASSUME NEW blob, NEW p, NEW x, Follows(blob, p, x), NEW out, NEW n, n = Len(x)
    PROVE  take(blob, behind(p, out), n) = behind(p \o x, Append(out, x))
<1>0. /\ blob \in Bytes /\ Len(blob) < UsizeRange /\ p \in Bytes /\ x \in Bytes
      /\ Begins(blob, p \o x)
  BY DEF Follows
<1>. DEFINE y == SubSeq(blob, Len(p) + 1, Len(p) + Len(x))
<1>1. PICK rest \in Bytes : blob = (p \o x) \o rest
  BY <1>0 DEF Begins
<1>2. /\ Len(p) \in Nat /\ Len(x) \in Nat /\ Len(rest) \in Nat
      /\ p \o x \in Bytes /\ Len(p \o x) = Len(p) + Len(x)
  BY <1>0, LenProperties, BytesConcat DEF Bytes
<1>3. Len(blob) = (Len(p) + Len(x)) + Len(rest)
  BY <1>1, <1>2, BytesConcat
<1>4. y \in Bytes /\ Len(y) = Len(x)
  <2>1. Len(p) + Len(x) <= Len(blob)
    BY <1>2, <1>3
  <2>. QED
    BY <1>0, <1>2, <2>1, Chunk
<1>5. ASSUME NEW i \in 1 .. Len(x) PROVE y[i] = x[i]
  <2>1. Len(p) + i \in 1 .. Len(p) + Len(x)
    BY <1>2
  <2>2. (p \o x)[Len(p) + i] = x[i]
    <3>1. \A j \in 1 .. Len(p) + Len(x) :
             (p \o x)[j] = IF j <= Len(p) THEN p[j] ELSE x[j - Len(p)]
      BY <1>0, ConcatProperties DEF Bytes
    <3>. QED
      BY <1>2, <2>1, <3>1
  <2>3. blob[Len(p) + i] = (p \o x)[Len(p) + i]
    <3>1. \A j \in 1 .. Len(p \o x) + Len(rest) :
             blob[j] = IF j <= Len(p \o x) THEN (p \o x)[j] ELSE rest[j - Len(p \o x)]
      BY <1>0, <1>1, <1>2, ConcatProperties DEF Bytes
    <3>. QED
      BY <1>2, <2>1, <3>1
  <2>4. y[i] = blob[Len(p) + i]
    <3>1. ASSUME NEW j \in Len(p) + 1 .. Len(p) + Len(x) PROVE blob[j] \in 0 .. Byte - 1
      <4>1. j \in 1 .. Len(blob)
        BY <1>2, <1>3
      <4>. QED
        BY <1>0, <4>1, ElementOfSeq DEF Bytes
    <3>2. \A j \in 1 .. (Len(p) + Len(x)) - (Len(p) + 1) + 1 : y[j] = blob[(Len(p) + 1) + j - 1]
      BY <1>2, <3>1, SubSeqProperties
    <3>. QED
      BY <1>2, <3>2
  <2>. QED
    BY <2>2, <2>3, <2>4
<1>6. y = x
  BY <1>0, <1>4, <1>5, SeqEqual DEF Bytes
<1>7. ~(Len(p) + Len(x) >= UsizeRange) /\ ~(Len(p) + Len(x) > Len(blob))
  BY <1>0, <1>2, <1>3, CodecAssumption
<1>8. take(blob, behind(p, out), n)
        = [off |-> Len(p) + Len(x), out |-> Append(out, y), end |-> None]
  BY <1>7 DEF take, behind
<1>. QED
  BY <1>2, <1>6, <1>8 DEF behind

\* The chunk just taken is the last one.
LEMMA LastAppended ==
    ASSUME NEW q \in Seq(Bytes), NEW x \in Bytes
    PROVE  Last(Append(q, x)) = x
<1>1. Len(Append(q, x)) = Len(q) + 1 /\ Append(q, x)[Len(q) + 1] = x
  BY AppendProperties
<1>. QED
  BY <1>1 DEF Last

\* One more chunk.
LEMMA Appended1 ==
    ASSUME NEW q \in Seq(Bytes), NEW x \in Bytes, NEW r, r = Append(q, x)
    PROVE  /\ r \in Seq(Bytes) /\ Len(r) = Len(q) + 1
           /\ \A k \in 1 .. Len(q) : r[k] = q[k]
           /\ r[Len(q) + 1] = x
BY AppendProperties

\* Two more chunks.
LEMMA Appended2 ==
    ASSUME NEW q \in Seq(Bytes), NEW x \in Bytes, NEW y \in Bytes,
           NEW r, r = Append(Append(q, x), y)
    PROVE  /\ r \in Seq(Bytes) /\ Len(r) = Len(q) + 2
           /\ \A k \in 1 .. Len(q) : r[k] = q[k]
           /\ r[Len(q) + 1] = x /\ r[Len(q) + 2] = y
<1>. DEFINE p == Append(q, x)
<1>1. /\ p \in Seq(Bytes) /\ Len(p) = Len(q) + 1 /\ p[Len(q) + 1] = x
      /\ \A k \in 1 .. Len(q) : p[k] = q[k]
  BY AppendProperties
<1>2. Len(q) \in Nat
  BY LenProperties
<1>. HIDE DEF p
<1>3. r = Append(p, y)
  BY DEF p
<1>4. /\ r \in Seq(Bytes) /\ Len(r) = Len(p) + 1 /\ r[Len(p) + 1] = y
      /\ \A k \in 1 .. Len(p) : r[k] = p[k]
  BY <1>1, <1>3, AppendProperties
<1>. QED
  BY <1>1, <1>2, <1>4

\* take_prefixed finds a field whose length fits 32 bits.
LEMMA TakeField ==
    ASSUME NEW blob \in Bytes, Len(blob) < UsizeRange, NEW p \in Bytes, NEW x \in Bytes,
           Begins(blob, p \o prefixed(x)), NEW out \in Seq(Bytes), Len(x) < U32_RANGE
    PROVE  take_prefixed(blob, behind(p, out))
             = behind(p \o prefixed(x), Append(Append(out, len_bytes(x)), x))
<1>. DEFINE l == len_bytes(x)
<1>1. /\ l \in Bytes /\ Len(l) = U32_LEN
      /\ from_be_bytes(u32_bytes, l) = Len(x)
  <2>1. Len(x) \in Nat /\ U32_RANGE \in Nat
    BY LenProperties, CodecAssumption DEF Bytes
  <2>2. Len(x) % U32_RANGE = Len(x)
    BY <2>1, SmallMod
  <2>. QED
    BY <2>2, LenForm
<1>. HIDE DEF l
<1>2. p \o prefixed(x) = (p \o l) \o x /\ p \o l \in Bytes
  <2>1. (p \o l) \o x = p \o (l \o x)
    BY <1>1, BytesAssoc
  <2>2. prefixed(x) = l \o x
    BY DEF prefixed, l
  <2>. QED
    BY <1>1, <2>1, <2>2, BytesConcat
<1>3. Begins(blob, (p \o l) \o x) /\ Begins(blob, p \o l)
  BY <1>2, BeginsBefore
<1>4. take(blob, behind(p, out), U32_LEN) = behind(p \o l, Append(out, l))
  <2>1. Follows(blob, p, l)
    BY <1>1, <1>3 DEF Follows
  <2>. QED
    BY <1>1, <2>1, TakeNext
<1>5. Last(Append(out, l)) = l
  BY <1>1, LastAppended
<1>6. take(blob, behind(p \o l, Append(out, l)), Len(x))
        = behind((p \o l) \o x, Append(Append(out, l), x))
  <2>1. Follows(blob, p \o l, x)
    BY <1>2, <1>3 DEF Follows
  <2>. QED
    BY <2>1, TakeNext
<1>7. behind(p \o l, Append(out, l)).end = None /\ behind(p \o l, Append(out, l)).out = Append(out, l)
  BY DEF behind
<1>8. take_prefixed(blob, behind(p, out)) = take(blob, behind(p \o l, Append(out, l)), Len(x))
  BY <1>1, <1>4, <1>5, <1>7 DEF take_prefixed
<1>. QED
  BY <1>2, <1>6, <1>8 DEF l

\* A KAM is written as bytes.
LEMMA KamBytes ==
    ASSUME NEW kam, kam = None \/ kam \in Bytes
    PROVE  kam_bytes(kam) \in Bytes
<1>1. <<0>> \in Bytes /\ <<1>> \in Bytes
  BY CodecAssumption DEF Bytes
<1>2. CASE kam = None
  BY <1>1, <1>2 DEF kam_bytes
<1>3. CASE kam \in Bytes
  <2>1. len_bytes(kam) \in Bytes
    BY <1>3, LenForm
  <2>2. (<<1>> \o len_bytes(kam)) \o kam \in Bytes
    BY <1>1, <1>3, <2>1, BytesConcat
  <2>. QED
    BY <1>3, <2>2, NoneIsNoResult DEF kam_bytes
<1>. QED
  BY <1>2, <1>3

\* take_kam finds no KAM ...
LEMMA TakeNoKam ==
    ASSUME NEW blob \in Bytes, Len(blob) < UsizeRange, NEW p \in Bytes,
           Begins(blob, p \o kam_bytes(None)), NEW out \in Seq(Bytes)
    PROVE  take_kam(blob, behind(p, out)) = behind(p \o kam_bytes(None), Append(out, <<0>>))
<1>1. kam_bytes(None) = <<0>> /\ <<0>> \in Bytes /\ Len(<<0>>) = 1
  BY CodecAssumption DEF kam_bytes, Bytes
<1>2. take(blob, behind(p, out), 1) = behind(p \o <<0>>, Append(out, <<0>>))
  <2>1. PICK zero : zero = <<0>>
    OBVIOUS
  <2>2. Follows(blob, p, zero) /\ 1 = Len(zero)
    BY <1>1, <2>1 DEF Follows
  <2>3. take(blob, behind(p, out), Len(zero)) = behind(p \o zero, Append(out, zero))
    BY <2>2, TakeNext
  <2>. QED
    BY <2>1, <2>2, <2>3, Zenon
<1>3. Last(Append(out, <<0>>)) = <<0>>
  BY <1>1, LastAppended
<1>. DEFINE f == behind(p \o <<0>>, Append(out, <<0>>))
<1>4. Last(f.out) = <<0>>
  BY <1>3 DEF behind
<1>. HIDE DEF f
<1>5. take(blob, behind(p, out), 1) = f
  BY <1>2 DEF f
<1>6. take_kam(blob, behind(p, out)) = f
  BY <1>4, <1>5 DEF take_kam
<1>. QED
  BY <1>1, <1>6 DEF f

\* ... and a KAM whose length fits 32 bits, the empty one too.
LEMMA TakeSomeKam ==
    ASSUME NEW blob \in Bytes, Len(blob) < UsizeRange, NEW p \in Bytes, NEW kam \in Bytes,
           Begins(blob, p \o kam_bytes(kam)), NEW out \in Seq(Bytes), Len(kam) < U32_RANGE
    PROVE  take_kam(blob, behind(p, out))
             = behind(p \o kam_bytes(kam),
                      Append(Append(Append(out, <<1>>), len_bytes(kam)), kam))
<1>. DEFINE q == p \o <<1>>
            flagged == Append(out, <<1>>)
<1>1. <<1>> \in Bytes /\ Len(<<1>>) = 1 /\ <<1>> # <<0>>
  BY CodecAssumption DEF Bytes
<1>2. q \in Bytes /\ prefixed(kam) \in Bytes /\ len_bytes(kam) \in Bytes
  BY <1>1, LenForm, BytesConcat DEF prefixed
<1>3. p \o kam_bytes(kam) = q \o prefixed(kam)
  <2>1. kam_bytes(kam) = (<<1>> \o len_bytes(kam)) \o kam
    BY NoneIsNoResult DEF kam_bytes
  <2>2. kam_bytes(kam) = <<1>> \o prefixed(kam)
    BY <1>1, <1>2, <2>1, BytesAssoc DEF prefixed
  <2>3. (p \o <<1>>) \o prefixed(kam) = p \o (<<1>> \o prefixed(kam))
    BY <1>1, <1>2, BytesAssoc
  <2>. QED
    BY <2>2, <2>3, Zenon
<1>4. Begins(blob, q \o prefixed(kam)) /\ Begins(blob, q)
  BY <1>2, <1>3, BeginsBefore
<1>5. take(blob, behind(p, out), 1) = behind(q, flagged)
  <2>1. PICK one : one = <<1>>
    OBVIOUS
  <2>2. Follows(blob, p, one) /\ 1 = Len(one)
    BY <1>1, <1>4, <2>1 DEF Follows, q
  <2>3. take(blob, behind(p, out), Len(one)) = behind(p \o one, Append(out, one))
    BY <2>2, TakeNext
  <2>. QED
    BY <2>1, <2>2, <2>3, Zenon DEF q, flagged
<1>6. flagged \in Seq(Bytes) /\ Last(flagged) = <<1>>
  BY <1>1, LastAppended, AppendProperties
<1>. HIDE DEF q, flagged
<1>7. take_prefixed(blob, behind(q, flagged))
        = behind(q \o prefixed(kam), Append(Append(flagged, len_bytes(kam)), kam))
  BY <1>2, <1>4, <1>6, TakeField
<1>8. behind(q, flagged).end = None /\ behind(q, flagged).out = flagged
  BY DEF behind
<1>9. take_kam(blob, behind(p, out)) = take_prefixed(blob, behind(q, flagged))
  BY <1>1, <1>5, <1>6, <1>8 DEF take_kam
<1>. QED
  BY <1>3, <1>7, <1>9 DEF flagged

\* from_token reads every frame that fits from what to_token wrote.
LEMMA RoundTrip ==
    ASSUME NEW f \in Frame, Fits(f)
    PROVE  from_token(to_token(f)) = [end |-> "Ok", frame |-> f]
<1>. DEFINE blob == to_token(f).blob
            e == u64_bytes[f.epoch]
            i == u64_bytes[f.index]
            n == f.nonce
            b == f.body
            c0 == [off |-> 0, out |-> <<>>, end |-> None]
            p2 == e \o i
            p3 == p2 \o prefixed(n)
            p4 == p3 \o prefixed(b)
            o2 == Append(Append(<<>>, e), i)
            o3 == Append(Append(o2, len_bytes(n)), n)
            o4 == Append(Append(o3, len_bytes(b)), b)
<1>1. /\ e \in Bytes /\ Len(e) = U64_LEN /\ from_be_bytes(u64_bytes, e) = f.epoch
      /\ i \in Bytes /\ Len(i) = U64_LEN /\ from_be_bytes(u64_bytes, i) = f.index
      /\ n \in Bytes /\ b \in Bytes
      /\ f.kam = None \/ f.kam \in Bytes
  BY Forms, NumberOfForm DEF Frame
<1>2. blob = p4 \o kam_bytes(f.kam)
  BY <1>1, WrittenBlob
<1>3. prefixed(n) \in Bytes /\ prefixed(b) \in Bytes
  BY <1>1, LenForm, BytesConcat DEF prefixed
<1>4. kam_bytes(f.kam) \in Bytes
  BY <1>1, KamBytes
<1>5. Len(blob) < UsizeRange /\ to_token(f).scheme = PQDR_SCHEME
  BY DEF Fits, to_token
<1>6. from_token(to_token(f)) =
        LET c == finish(blob, take_kam(blob, take_prefixed(blob, take_prefixed(blob,
                     take(blob, take(blob, c0, U64_LEN), U64_LEN)))))
        IN  IF c.end # None
            THEN [end |-> c.end, frame |-> None]
            ELSE [end   |-> "Ok",
                  frame |-> [epoch |-> from_be_bytes(u64_bytes, c.out[1]),
                             index |-> from_be_bytes(u64_bytes, c.out[2]),
                             nonce |-> c.out[4],
                             body  |-> c.out[6],
                             kam   |-> IF c.out[7] = <<0>> THEN None ELSE c.out[9]]]
  BY <1>5 DEF from_token
<1>. HIDE DEF blob, e, i, n, b
<1>7. p2 \in Bytes
  BY <1>1, BytesConcat
<1>. HIDE DEF p2
<1>8. p3 \in Bytes
  BY <1>3, <1>7, BytesConcat
<1>. HIDE DEF p3
<1>9. p4 \in Bytes
  BY <1>3, <1>8, BytesConcat
<1>. HIDE DEF p4
<1>10. blob \in Bytes /\ Begins(blob, p4 \o kam_bytes(f.kam))
  <2>1. <<>> \in Bytes /\ blob \in Bytes
    BY <1>2, <1>4, <1>9, BytesConcat, EmptySeq DEF Bytes
  <2>2. blob = (p4 \o kam_bytes(f.kam)) \o <<>>
    BY <1>2, <2>1, ConcatEmptySeq DEF Bytes
  <2>. QED
    BY <2>1, <2>2 DEF Begins
<1>11. Begins(blob, p4) /\ Begins(blob, p3) /\ Begins(blob, p2) /\ Begins(blob, e)
  <2>1. Begins(blob, p4)
    BY <1>4, <1>9, <1>10, BeginsBefore
  <2>2. Begins(blob, p3)
    BY <1>3, <1>8, <2>1, BeginsBefore DEF p4
  <2>3. Begins(blob, p2)
    BY <1>3, <1>7, <2>2, BeginsBefore DEF p3
  <2>. QED
    BY <1>1, <2>1, <2>2, <2>3, BeginsBefore DEF p2
<1>12. o2 \in Seq(Bytes) /\ o3 \in Seq(Bytes) /\ o4 \in Seq(Bytes)
  <2>1. <<>> \in Seq(Bytes) /\ len_bytes(n) \in Bytes /\ len_bytes(b) \in Bytes
    BY <1>1, EmptySeq, LenForm
  <2>2. o2 \in Seq(Bytes)
    BY <1>1, <2>1, AppendProperties
  <2>. HIDE DEF o2
  <2>3. o3 \in Seq(Bytes)
    BY <1>1, <2>1, <2>2, AppendProperties
  <2>. HIDE DEF o3
  <2>4. o4 \in Seq(Bytes)
    BY <1>1, <2>1, <2>3, AppendProperties
  <2>. QED
    BY <2>2, <2>3, <2>4
<1>13. take(blob, take(blob, c0, U64_LEN), U64_LEN) = behind(p2, o2)
  <2>1. <<>> \in Bytes /\ Len(<<>>) = 0 /\ <<>> \o e = e
    BY <1>1, EmptySeq, ConcatEmptySeq DEF Bytes
  <2>2. c0 = behind(<<>>, <<>>)
    BY <2>1 DEF behind
  <2>3. take(blob, c0, U64_LEN) = behind(e, Append(<<>>, e))
    <3>1. PICK empty : empty = <<>>
      OBVIOUS
    <3>2. Follows(blob, empty, e) /\ U64_LEN = Len(e)
      BY <1>1, <1>5, <1>10, <1>11, <2>1, <3>1 DEF Follows
    <3>3. take(blob, behind(empty, empty), U64_LEN) = behind(empty \o e, Append(empty, e))
      BY <3>2, TakeNext
    <3>. QED
      BY <2>1, <2>2, <3>1, <3>3, Zenon
  <2>. HIDE DEF c0
  <2>4. take(blob, behind(e, Append(<<>>, e)), U64_LEN) = behind(e \o i, Append(Append(<<>>, e), i))
    <3>1. Follows(blob, e, i)
      BY <1>1, <1>5, <1>10, <1>11 DEF Follows, p2
    <3>2. U64_LEN = Len(i)
      BY <1>1
    <3>. QED
      BY <3>1, <3>2, TakeNext
  <2>. QED
    BY <2>3, <2>4 DEF p2
<1>. HIDE DEF c0, o2
<1>14. take_prefixed(blob, behind(p2, o2)) = behind(p3, o3)
  BY <1>1, <1>5, <1>7, <1>10, <1>11, <1>12, TakeField DEF p3, Fits, n
<1>. HIDE DEF o3
<1>15. take_prefixed(blob, behind(p3, o3)) = behind(p4, o4)
  BY <1>1, <1>5, <1>8, <1>10, <1>11, <1>12, TakeField DEF p4, Fits, b
<1>. DEFINE done_out == IF f.kam = None THEN Append(o4, <<0>>)
                        ELSE Append(Append(Append(o4, <<1>>), len_bytes(f.kam)), f.kam)
            done == behind(p4 \o kam_bytes(f.kam), done_out)
<1>. HIDE DEF o4
<1>16. take_kam(blob, behind(p4, o4)) = done
  <2>1. CASE f.kam = None
    BY <1>5, <1>9, <1>10, <1>12, <2>1, TakeNoKam
  <2>2. CASE f.kam # None
    BY <1>1, <1>5, <1>9, <1>10, <1>12, <2>2, TakeSomeKam DEF Fits
  <2>. QED
    BY <2>1, <2>2
<1>17. finish(blob, done) = done /\ done.end = None
  <2>1. done.off = Len(blob) /\ done.end = None
    BY <1>2 DEF behind
  <2>. QED
    BY <2>1 DEF finish
<1>18. /\ done.out[1] = e /\ done.out[2] = i /\ done.out[4] = n /\ done.out[6] = b
       /\ (IF done.out[7] = <<0>> THEN None ELSE done.out[9]) = f.kam
  <2>1. done.out = done_out
    BY DEF behind
  <2>2. Len(o2) = 2 /\ o2[1] = e /\ o2[2] = i
    BY <1>1, Appended2, EmptySeq DEF o2
  <2>3. Len(o3) = 4 /\ o3[1] = e /\ o3[2] = i /\ o3[4] = n
    <3>1. len_bytes(n) \in Bytes /\ o3 = Append(Append(o2, len_bytes(n)), n)
      BY <1>1, LenForm DEF o3
    <3>2. /\ Len(o3) = Len(o2) + 2 /\ o3[Len(o2) + 2] = n
          /\ \A k \in 1 .. Len(o2) : o3[k] = o2[k]
      BY <1>1, <1>12, <3>1, Appended2
    <3>. QED
      BY <2>2, <3>2
  <2>4. Len(o4) = 6 /\ o4[1] = e /\ o4[2] = i /\ o4[4] = n /\ o4[6] = b
    <3>1. len_bytes(b) \in Bytes /\ o4 = Append(Append(o3, len_bytes(b)), b)
      BY <1>1, LenForm DEF o4
    <3>2. /\ Len(o4) = Len(o3) + 2 /\ o4[Len(o3) + 2] = b
          /\ \A k \in 1 .. Len(o3) : o4[k] = o3[k]
      BY <1>1, <1>12, <3>1, Appended2
    <3>. QED
      BY <2>3, <3>2
  <2>5. CASE f.kam = None
    <3>1. PICK zero : zero = <<0>>
      OBVIOUS
    <3>2. zero \in Bytes /\ done_out = Append(o4, zero)
      BY <2>5, <3>1, CodecAssumption DEF Bytes
    <3>. HIDE DEF done_out
    <3>3. /\ done_out[Len(o4) + 1] = zero
          /\ \A k \in 1 .. Len(o4) : done_out[k] = o4[k]
      BY <1>12, <3>2, Appended1
    <3>. QED
      BY <2>1, <2>4, <2>5, <3>1, <3>3
  <2>6. CASE f.kam # None
    <3>1. PICK one : one = <<1>>
      OBVIOUS
    <3>2. PICK o5 : o5 = Append(o4, one)
      OBVIOUS
    <3>3. /\ one \in Bytes /\ one # <<0>> /\ f.kam \in Bytes /\ len_bytes(f.kam) \in Bytes
          /\ done_out = Append(Append(o5, len_bytes(f.kam)), f.kam)
      <4>1. one \in Bytes /\ one # <<0>>
        BY <3>1, CodecAssumption DEF Bytes
      <4>2. f.kam \in Bytes /\ len_bytes(f.kam) \in Bytes
        BY <1>1, <2>6, LenForm
      <4>3. done_out = Append(Append(o5, len_bytes(f.kam)), f.kam)
        BY <2>6, <3>1, <3>2
      <4>. QED
        BY <4>1, <4>2, <4>3
    <3>. HIDE DEF done_out
    <3>4. /\ o5 \in Seq(Bytes) /\ Len(o5) = Len(o4) + 1 /\ o5[Len(o4) + 1] = one
          /\ \A k \in 1 .. Len(o4) : o5[k] = o4[k]
      BY <1>12, <3>2, <3>3, Appended1
    <3>5. /\ done_out[Len(o5) + 2] = f.kam
          /\ \A k \in 1 .. Len(o5) : done_out[k] = o5[k]
      BY <3>3, <3>4, Appended2
    <3>6. Len(o5) = 7 /\ o5[7] = one /\ \A k \in 1 .. 6 : o5[k] = o4[k]
      BY <2>4, <3>4
    <3>7. done_out[9] = f.kam /\ done_out[7] = one /\ \A k \in 1 .. 6 : done_out[k] = o4[k]
      BY <3>5, <3>6
    <3>8. (IF done_out[7] = <<0>> THEN None ELSE done_out[9]) = f.kam
      BY <3>3, <3>7, Zenon
    <3>. HIDE DEF done
    <3>. QED
      BY <2>1, <2>4, <3>7, <3>8
  <2>. QED
    BY <2>5, <2>6
<1>. HIDE DEF done
<1>19. from_token(to_token(f)) =
         [end   |-> "Ok",
          frame |-> [epoch |-> from_be_bytes(u64_bytes, done.out[1]),
                     index |-> from_be_bytes(u64_bytes, done.out[2]),
                     nonce |-> done.out[4],
                     body  |-> done.out[6],
                     kam   |-> IF done.out[7] = <<0>> THEN None ELSE done.out[9]]]
  BY <1>6, <1>13, <1>14, <1>15, <1>16, <1>17
<1>20. f = [epoch |-> f.epoch, index |-> f.index, nonce |-> f.nonce, body |-> f.body,
            kam |-> f.kam]
  BY DEF Frame
<1>. QED
  BY <1>1, <1>18, <1>19, <1>20 DEF n, b

-----------------------------------------------------------------------------
(* No token crashes from_token *)

\* No single take panics ...
LEMMA TakeNoPanic ==
    ASSUME NEW blob \in Bytes, Wide(Len(blob)), NEW c \in Cursor(blob), c.end # "panic",
           NEW n \in Nat, n <= U32_RANGE + U64_LEN + U32_LEN
    PROVE  take(blob, c, n).end # "panic"
<1>1. c.off \in Nat /\ c.off <= Len(blob) /\ Len(blob) \in Nat
  BY LenProperties DEF Cursor, Bytes
<1>2. ~(c.off + n >= UsizeRange)
  BY <1>1, CodecAssumption DEF Wide
<1>3. None # "panic" /\ "truncated frame" # "panic"
  BY NoneIsNoResult DEF Failures
<1>4. CASE c.end # None
  BY <1>4 DEF take
<1>5. CASE c.end = None /\ c.off + n > Len(blob)
  <2>1. take(blob, c, n) = [c EXCEPT !.end = "truncated frame"]
    BY <1>2, <1>5 DEF take
  <2>. QED
    BY <1>3, <2>1 DEF Cursor
<1>6. CASE c.end = None /\ ~(c.off + n > Len(blob))
  <2>1. take(blob, c, n).end = None
    BY <1>2, <1>6 DEF take
  <2>. QED
    BY <1>3, <2>1
<1>. QED
  BY <1>4, <1>5, <1>6

\* ... nor one behind a length that is read from the blob ...
LEMMA TakePrefixedNoPanic ==
    ASSUME NEW blob \in Bytes, Wide(Len(blob)), NEW c \in Cursor(blob), c.end # "panic"
    PROVE  take_prefixed(blob, c).end # "panic"
<1>. DEFINE l == take(blob, c, U32_LEN)
            n == from_be_bytes(u32_bytes, Last(l.out))
<1>1. l \in Cursor(blob) /\ (l.end = None => Taken(blob, c, l, U32_LEN))
  BY Forms, Take
<1>2. l.end # "panic"
  <2>1. U32_LEN \in Nat /\ U32_LEN <= U32_RANGE + U64_LEN + U32_LEN
    BY CodecAssumption
  <2>. QED
    BY <2>1, TakeNoPanic
<1>3. take_prefixed(blob, c) = IF l.end # None THEN l ELSE take(blob, l, n)
  BY DEF take_prefixed
<1>. HIDE DEF l
<1>4. CASE l.end = None
  <2>1. n \in 0 .. U32_RANGE - 1
    BY <1>1, <1>4, Forms, FormOfNumber DEF Taken
  <2>. HIDE DEF n
  <2>2. n \in Nat /\ n <= U32_RANGE + U64_LEN + U32_LEN
    BY <2>1, CodecAssumption
  <2>3. take(blob, l, n).end # "panic"
    BY <1>1, <1>2, <2>2, TakeNoPanic
  <2>. QED
    BY <1>3, <1>4, <2>3
<1>. QED
  BY <1>2, <1>3, <1>4

\* ... nor that of the KAM.
LEMMA TakeKamNoPanic ==
    ASSUME NEW blob \in Bytes, Wide(Len(blob)), NEW c \in Cursor(blob), c.end # "panic"
    PROVE  take_kam(blob, c).end # "panic"
<1>. DEFINE f == take(blob, c, 1)
<1>1. f \in Cursor(blob)
  BY Take
<1>2. f.end # "panic"
  <2>1. 1 <= U32_RANGE + U64_LEN + U32_LEN
    BY CodecAssumption
  <2>. QED
    BY <2>1, TakeNoPanic
<1>3. take_kam(blob, c) = IF f.end # None \/ Last(f.out) = <<0>> THEN f
                          ELSE IF Last(f.out) = <<1>> THEN take_prefixed(blob, f)
                          ELSE [f EXCEPT !.end = "invalid kam presence flag"]
  BY DEF take_kam
<1>. HIDE DEF f
<1>4. take_prefixed(blob, f).end # "panic"
  BY <1>1, <1>2, TakePrefixedNoPanic
<1>5. [f EXCEPT !.end = "invalid kam presence flag"].end # "panic"
  BY <1>1 DEF Cursor
<1>. QED
  BY <1>2, <1>3, <1>4, <1>5

\* from_token does not panic in a blob of a length that usize leaves room for.
LEMMA ParseNoPanic ==
    ASSUME NEW t, IsToken(t), Wide(Len(t.blob))
    PROVE  from_token(t).end # "panic"
<1>. DEFINE blob == t.blob
            c0 == start(t.scheme)
            c1 == take(blob, c0, U64_LEN)
            c2 == take(blob, c1, U64_LEN)
            c3 == take_prefixed(blob, c2)
            c4 == take_prefixed(blob, c3)
            c5 == take_kam(blob, c4)
            c  == finish(blob, c5)
<1>0. blob \in Bytes /\ Wide(Len(blob)) /\ U64_LEN \in Nat
      /\ U64_LEN <= U32_RANGE + U64_LEN + U32_LEN
  BY CodecAssumption DEF IsToken
<1>1. c0 \in Cursor(blob) /\ c0.end # "panic"
  BY <1>0, StartCursor
<1>2. from_token(t).end = c.end \/ from_token(t).end = "Ok"
  BY DEF from_token, start
<1>. HIDE DEF blob, c0
<1>3. c1 \in Cursor(blob) /\ c1.end # "panic"
  BY <1>0, <1>1, Take, TakeNoPanic
<1>. HIDE DEF c1
<1>4. c2 \in Cursor(blob) /\ c2.end # "panic"
  BY <1>0, <1>3, Take, TakeNoPanic
<1>. HIDE DEF c2
<1>5. c3 \in Cursor(blob) /\ c3.end # "panic"
  BY <1>0, <1>4, TakePrefixed, TakePrefixedNoPanic
<1>. HIDE DEF c3
<1>6. c4 \in Cursor(blob) /\ c4.end # "panic"
  BY <1>0, <1>5, TakePrefixed, TakePrefixedNoPanic
<1>. HIDE DEF c4
<1>7. c5 \in Cursor(blob) /\ c5.end # "panic"
  BY <1>0, <1>6, TakeKam, TakeKamNoPanic
<1>. HIDE DEF c5
<1>8. c.end # "panic"
  BY <1>7 DEF finish, Cursor
<1>. QED
  BY <1>2, <1>8

-----------------------------------------------------------------------------
(* The three properties of every execution *)

\* What to_token writes is a token.
LEMMA WrittenToken ==
    ASSUME NEW f \in Frame
    PROVE  IsToken(to_token(f))
<1>. DEFINE e == u64_bytes[f.epoch]
            i == u64_bytes[f.index]
<1>1. /\ e \in Bytes /\ i \in Bytes /\ f.nonce \in Bytes /\ f.body \in Bytes
      /\ f.kam = None \/ f.kam \in Bytes
  BY Forms, NumberOfForm DEF Frame
<1>2. to_token(f).blob = (((e \o i) \o prefixed(f.nonce)) \o prefixed(f.body)) \o kam_bytes(f.kam)
  BY <1>1, WrittenBlob
<1>3. prefixed(f.nonce) \in Bytes /\ prefixed(f.body) \in Bytes /\ kam_bytes(f.kam) \in Bytes
  BY <1>1, LenForm, BytesConcat, KamBytes DEF prefixed
<1>4. to_token(f).blob \in Bytes
  <2>. HIDE DEF e, i
  <2>. QED
    BY <1>1, <1>2, <1>3, BytesConcat
<1>5. to_token(f) = [scheme |-> to_token(f).scheme, blob |-> to_token(f).blob]
  BY DEF to_token
<1>. QED
  BY <1>4, <1>5 DEF IsToken

\* The transport holds a token, no longer than its alterations allow.
TokenInv ==
    /\ sent \in Frames
    /\ IsToken(token)
    /\ damage \in 0 .. MaxDamage
    /\ Len(token.blob) <= Len(to_token(sent).blob) + damage
    /\ result # None => result = from_token(token)

\* One alteration leaves a token, at most one byte longer.
LEMMA Altered ==
    ASSUME NEW t, IsToken(t), NEW u,
           \/ \E i \in DOMAIN t.blob, b \in 0 .. Byte - 1 : u = [t EXCEPT !.blob[i] = b]
           \/ t.blob # <<>> /\ u = [t EXCEPT !.blob = Front(@)]
           \/ \E b \in 0 .. Byte - 1 : u = [t EXCEPT !.blob = Append(@, b)]
           \/ u = [t EXCEPT !.scheme = "pqdm1:"]
    PROVE  IsToken(u) /\ Len(u.blob) <= Len(t.blob) + 1
<1>1. t = [scheme |-> t.scheme, blob |-> t.blob] /\ t.blob \in Bytes /\ Len(t.blob) \in Nat
  BY LenProperties DEF IsToken, Bytes
<1>2. ASSUME NEW x \in Bytes, Len(x) <= Len(t.blob) + 1, u = [t EXCEPT !.blob = x]
      PROVE  IsToken(u) /\ Len(u.blob) <= Len(t.blob) + 1
  BY <1>1, <1>2 DEF IsToken
<1>3. CASE \E i \in DOMAIN t.blob, b \in 0 .. Byte - 1 : u = [t EXCEPT !.blob[i] = b]
  <2>1. PICK i \in DOMAIN t.blob, b \in 0 .. Byte - 1 : u = [t EXCEPT !.blob[i] = b]
    BY <1>3
  <2>. DEFINE x == [t.blob EXCEPT ![i] = b]
  <2>2. x \in Bytes /\ Len(x) = Len(t.blob)
    BY <1>1, ExceptSeq DEF Bytes
  <2>3. u = [t EXCEPT !.blob = x]
    BY <1>1, <2>1
  <2>. HIDE DEF x
  <2>4. Len(x) <= Len(t.blob) + 1
    BY <1>1, <2>2
  <2>. QED
    BY <1>2, <2>2, <2>3, <2>4
<1>4. CASE t.blob # <<>> /\ u = [t EXCEPT !.blob = Front(@)]
  <2>. DEFINE x == Front(t.blob)
  <2>1. x \in Bytes /\ Len(x) = Len(t.blob) - 1
    <3>1. Len(t.blob) # 0
      BY <1>1, <1>4, EmptySeq DEF Bytes
    <3>2. PICK none \in Nat, n \in Nat : none = 0 /\ n = Len(t.blob) - 1
      BY <1>1, <3>1
    <3>3. none + n <= Len(t.blob)
      BY <1>1, <3>2
    <3>4. SubSeq(t.blob, none + 1, none + n) \in Bytes /\ Len(SubSeq(t.blob, none + 1, none + n)) = n
      BY <1>1, <3>3, Chunk
    <3>5. none + 1 = 1 /\ none + n = Len(t.blob) - 1
      BY <3>2
    <3>. QED
      BY <3>2, <3>4, <3>5 DEF Front
  <2>2. u = [t EXCEPT !.blob = x]
    BY <1>1, <1>4
  <2>. HIDE DEF x
  <2>. QED
    BY <1>1, <1>2, <2>1, <2>2
<1>5. CASE \E b \in 0 .. Byte - 1 : u = [t EXCEPT !.blob = Append(@, b)]
  <2>1. PICK b \in 0 .. Byte - 1 : u = [t EXCEPT !.blob = Append(@, b)]
    BY <1>5
  <2>. DEFINE x == Append(t.blob, b)
  <2>2. x \in Bytes /\ Len(x) = Len(t.blob) + 1
    BY <1>1, AppendProperties DEF Bytes
  <2>3. u = [t EXCEPT !.blob = x]
    BY <1>1, <2>1
  <2>. HIDE DEF x
  <2>. QED
    BY <1>1, <1>2, <2>2, <2>3
<1>6. CASE u = [t EXCEPT !.scheme = "pqdm1:"]
  BY <1>1, <1>6 DEF IsToken
<1>. QED
  BY <1>3, <1>4, <1>5, <1>6

\* What is on its way is a token no longer than the transport made it, and the
\* result is what from_token makes of it: to_token, from_token and a transport
\* that replaces, drops and adds bytes.
THEOREM TokenInvariance == Spec => []TokenInv
<1>1. Init => TokenInv
  <2>. SUFFICES ASSUME Init PROVE TokenInv
    OBVIOUS
  <2>1. sent \in Frames /\ sent \in Frame /\ token = to_token(sent) /\ damage = 0 /\ result = None
    BY CodecAssumption DEF Init
  <2>2. IsToken(token)
    BY <2>1, WrittenToken
  <2>3. Len(token.blob) <= Len(to_token(sent).blob) + damage
    <3>1. Len(token.blob) \in Nat
      BY <2>2, LenProperties DEF IsToken, Bytes
    <3>. QED
      BY <2>1, <3>1
  <2>. QED
    BY <2>1, <2>2, <2>3, CodecAssumption DEF TokenInv
<1>2. TokenInv /\ [Next]_vars => TokenInv'
  <2>. SUFFICES ASSUME TokenInv, [Next]_vars PROVE TokenInv'
    OBVIOUS
  <2>1. CASE Alter
    <3>1. /\ result' = None /\ sent' = sent /\ damage' = damage + 1 /\ damage' \in 0 .. MaxDamage
      BY <2>1, CodecAssumption DEF Alter, TokenInv
    <3>2. PICK t, u : t = token /\ u = token'
      OBVIOUS
    <3>3. IsToken(t)
      BY <3>2 DEF TokenInv
    <3>4. \/ \E i \in DOMAIN t.blob, b \in 0 .. Byte - 1 : u = [t EXCEPT !.blob[i] = b]
          \/ t.blob # <<>> /\ u = [t EXCEPT !.blob = Front(@)]
          \/ \E b \in 0 .. Byte - 1 : u = [t EXCEPT !.blob = Append(@, b)]
          \/ u = [t EXCEPT !.scheme = "pqdm1:"]
      BY <2>1, <3>2 DEF Alter
    <3>5. IsToken(u) /\ Len(u.blob) <= Len(t.blob) + 1
      BY <3>3, <3>4, Altered
    <3>6. Len(u.blob) <= Len(to_token(sent).blob) + damage'
      <4>1. Len(t.blob) \in Nat /\ Len(u.blob) \in Nat /\ Len(to_token(sent).blob) \in Nat
        BY <3>3, <3>5, WrittenToken, CodecAssumption, LenProperties DEF IsToken, Bytes, TokenInv
      <4>2. Len(t.blob) <= Len(to_token(sent).blob) + damage
        BY <3>2 DEF TokenInv
      <4>3. damage \in Nat /\ damage' = damage + 1
        BY <3>1, CodecAssumption DEF TokenInv
      <4>4. PICK l \in Nat, m \in Nat, k \in Nat :
               l = Len(t.blob) /\ m = Len(u.blob) /\ k = Len(to_token(sent).blob)
        BY <4>1
      <4>5. m <= l + 1 /\ l <= k + damage
        BY <3>5, <4>2, <4>4
      <4>6. m <= k + damage'
        BY <4>3, <4>5
      <4>. QED
        BY <4>4, <4>6
    <3>. QED
      BY <3>1, <3>2, <3>5, <3>6 DEF TokenInv
  <2>2. CASE Parse
    BY <2>2 DEF Parse, TokenInv
  <2>3. CASE UNCHANGED vars
    BY <2>3 DEF vars, TokenInv
  <2>. QED
    BY <2>1, <2>2, <2>3 DEF Next
<1>. QED
  BY <1>1, <1>2, PTL DEF Spec

\* from_token accepts only what to_token writes, of the very frame it returns,
\* whatever the transport made of the token.
THEOREM AcceptedCanonical == Spec => []AcceptedIsCanonical
<1>1. TokenInv => AcceptedIsCanonical
  BY AcceptedToken DEF TokenInv, AcceptedIsCanonical
<1>. QED
  BY <1>1, TokenInvariance, PTL

\* from_token reads the frame that was written, its absent and its empty KAM
\* included, if the lengths of the frames' fields fit the 32 bits they are
\* written in.
THEOREM RoundTrips ==
    ASSUME FramesFit
    PROVE  Spec => []RoundTripExact
<1>1. TokenInv => RoundTripExact
  <2>. SUFFICES ASSUME TokenInv, result # None, token = to_token(sent)
                PROVE  result = [end |-> "Ok", frame |-> sent]
    BY DEF RoundTripExact
  <2>1. sent \in Frame /\ Fits(sent)
    BY CodecAssumption DEF TokenInv, FramesFit
  <2>2. from_token(to_token(sent)) = [end |-> "Ok", frame |-> sent]
    BY <2>1, RoundTrip
  <2>. QED
    BY <2>2 DEF TokenInv
<1>. QED
  BY <1>1, TokenInvariance, PTL

\* from_token never panics, whatever the transport made of the token.
THEOREM ParsingNeverCrashes ==
    ASSUME WideUsize
    PROVE  Spec => []NeverCrashes
<1>1. TokenInv => NeverCrashes
  <2>. SUFFICES ASSUME TokenInv, result # None PROVE result.end # "panic"
    BY DEF NeverCrashes
  <2>1. IsToken(token) /\ sent \in Frames /\ IsToken(to_token(sent))
    BY WrittenToken, CodecAssumption DEF TokenInv
  <2>2. Len(token.blob) \in Nat /\ Len(to_token(sent).blob) \in Nat
    BY <2>1, LenProperties DEF IsToken, Bytes
  <2>3. Wide(Len(to_token(sent).blob) + MaxDamage)
    BY <2>1 DEF WideUsize
  <2>4. Wide(Len(token.blob))
    BY <2>2, <2>3, CodecAssumption DEF TokenInv, Wide
  <2>5. from_token(token).end # "panic"
    BY <2>1, <2>4, ParseNoPanic
  <2>. QED
    BY <2>5 DEF TokenInv
<1>. QED
  BY <1>1, TokenInvariance, PTL
=============================================================================
