---------------------------- MODULE RouteProofs ----------------------------
(***************************************************************************)
(* Routed envelopes over any number of relays, for any headers, metadata   *)
(* and contents: what opens was sealed that way, and an envelope that got  *)
(* its header back opens.                                                  *)
(***************************************************************************)
EXTENDS RouteNetwork, OrderingLemmas, SequenceTheorems

-----------------------------------------------------------------------------
(* The invariant *)

\* The inner part of s, its metadata and content.
Inner(s) == [meta_len |-> Len(canonical(s.meta)), bytes |-> canonical(s.meta) \o s.content]

\* What seal_routed made for s, behind the header.
SealedBox(s) ==
    LET aad == build_aad(canonical(s.hdr))
    IN  encrypt(derive_wrap_key(hybrid_encap(public_key(s.dest), s.n).shared, aad), s.n, aad, Inner(s))

SealedPart(s) ==
    <<[t |-> "ct", ct |-> hybrid_encap(public_key(s.dest), s.n).ciphertext],
      [t |-> "nonce", nonce |-> s.n],
      [t |-> "body", box |-> SealedBox(s)]>>

\* The body of s, damaged or not.
Boxes(s)  == {SealedBox(s), [SealedBox(s) EXCEPT !.intact = FALSE]}
Bodies(s) == {[t |-> "body", box |-> box] : box \in Boxes(s)}

\* Nobody but seal_routed makes a body.
NoForgery(c, from) == "t" \in DOMAIN c /\ (c.t = "body" => \E s \in from : c \in Bodies(s))

\* The canonical form of some header before the sealed part of draw n.
Whole(n, blob, from) ==
    \E s \in from, h \in Headers :
        s.n = n /\ blob = [hdr_len |-> Len(canonical(h)), bytes |-> canonical(h) \o SealedPart(s)]

IsBlob(blob, from) ==
    /\ blob \in [hdr_len : Nat, bytes : Seq(Range(blob.bytes))]
    /\ \A i \in DOMAIN blob.bytes : NoForgery(blob.bytes[i], from)

SentOnce ==
    /\ IsFiniteSet(sent)
    /\ \A s \in sent :
         /\ s.dest \in Dests /\ s.hdr \in Headers /\ s.meta \in Metas /\ s.content \in Contents
         /\ s.n \in 1 .. Cardinality(sent) + Cardinality(Dests)
    /\ \A s, t \in sent : s.n = t.n => s = t

WireSealed ==
    \A e \in wire : IsBlob(e.blob, sent) /\ (~e.spoilt => Whole(e.n, e.blob, sent))

RouteInv == SentOnce /\ WireSealed /\ OpenedAsSealed

-----------------------------------------------------------------------------
(* Canonical bytes *)

IsMap(v) ==
    /\ v \in Seq(Range(v))
    /\ \A i \in DOMAIN v : v[i][1] \in Int
    /\ \A i, j \in DOMAIN v : v[i][1] = v[j][1] => i = j

\* The members of an object are sorted without loss.
LEMMA SortedMembers ==
    ASSUME NEW v, IsMap(v)
    PROVE  LET s == sorted_members(v)
           IN  s \in Seq(Range(v)) /\ {s[i] : i \in DOMAIN s} = Range(v)
<1>. DEFINE less == {p \in Range(v) \X Range(v) : p[1][1] < p[2][1]}
<1>1. PICK n \in Nat : n = Len(v) /\ v \in [1 .. n -> Range(v)]
  BY DEF IsMap
<1>2. IsFiniteSet(1 .. n)
  BY FS_Interval
<1>3. v \in Surjection(1 .. n, Range(v))
  BY <1>1 DEF Surjection, Range
<1>4. IsFiniteSet(Range(v))
  BY <1>2, <1>3, FS_Surjection
<1>5. \A x, y \in Range(v) : x[1] \in Int /\ y[1] \in Int /\ (x[1] = y[1] => x = y)
  BY DEF IsMap, Range
<1>6. \A x, y \in Range(v) : <<x, y>> \in less <=> x[1] < y[1]
  OBVIOUS
<1>7. Orders(less, Range(v))
  <2>. HIDE DEF less
  <2>1. \A x \in Range(v) : <<x, x>> \notin less
    BY <1>5, <1>6
  <2>2. ASSUME NEW x \in Range(v), NEW y \in Range(v), NEW z \in Range(v),
               <<x, y>> \in less, <<y, z>> \in less
        PROVE  <<x, z>> \in less
    <3>1. x[1] < y[1] /\ y[1] < z[1] /\ x[1] \in Int /\ y[1] \in Int /\ z[1] \in Int
      BY <2>2, <1>5, <1>6
    <3>2. x[1] < z[1]
      BY <3>1
    <3>. QED
      BY <3>2, <1>6
  <2>3. ASSUME NEW x \in Range(v), NEW y \in Range(v)
        PROVE  x = y \/ <<x, y>> \in less \/ <<y, x>> \in less
    <3>1. x[1] \in Int /\ y[1] \in Int
      BY <1>5
    <3>2. x[1] = y[1] \/ x[1] < y[1] \/ y[1] < x[1]
      BY <3>1
    <3>. QED
      BY <3>2, <1>5, <1>6
  <2>. QED
    BY <2>1, <2>2, <2>3 DEF Orders
<1>. DEFINE s == in_order(Range(v), less)
<1>8. sorted_members(v) = s
  BY DEF sorted_members
<1>. HIDE DEF less
<1>9. /\ Cardinality(Range(v)) \in Nat
      /\ s \in [1 .. Cardinality(Range(v)) -> Range(v)]
      /\ {s[i] : i \in DOMAIN s} = Range(v)
  BY <1>4, <1>7, InOrder
<1>. QED
  BY <1>8, <1>9

\* Braces around members.
ObjectText(s) == <<JsonOpen>> \o [i \in DOMAIN s |-> member(s[i])] \o <<JsonClose>>

\* The pieces of text differ in kind.
LEMMA Kinds ==
    /\ \A kv : member(kv).t = "member" /\ member(kv).kv = kv /\ "t" \in DOMAIN member(kv)
    /\ JsonOpen.t = "{" /\ "t" \in DOMAIN JsonOpen
    /\ JsonClose.t = "}" /\ "t" \in DOMAIN JsonClose
    /\ JsonSpace.t = "space" /\ "t" \in DOMAIN JsonSpace
BY DEF member, JsonOpen, JsonClose, JsonSpace

\* One element before a sequence and one behind it.
LEMMA Enclosed ==
    ASSUME NEW C, NEW m \in Seq(C), NEW a \in C, NEW b \in C, NEW n \in Nat, Len(m) = n
    PROVE  LET text == <<a>> \o m \o <<b>>
           IN  /\ text \in Seq(C) /\ Len(text) = n + 2
               /\ text[1] = a /\ text[n + 2] = b
               /\ \A i \in 2 .. n + 1 : text[i] = m[i - 1]
<1>. DEFINE head == <<a>> \o m
            text == head \o <<b>>
<1>1. /\ head \in Seq(C) /\ Len(head) = n + 1 /\ head[1] = a
      /\ \A i \in 2 .. n + 1 : head[i] = m[i - 1]
  OBVIOUS
<1>. HIDE DEF head
<1>2. /\ text \in Seq(C) /\ Len(text) = n + 2 /\ text[n + 2] = b
      /\ \A i \in 1 .. n + 1 : text[i] = head[i]
  BY <1>1
<1>. HIDE DEF text
<1>3. text[1] = a /\ \A i \in 2 .. n + 1 : text[i] = m[i - 1]
  BY <1>1, <1>2
<1>. QED
  BY <1>2, <1>3 DEF text, head

\* Members between braces are read back.
LEMMA ParsedObject ==
    ASSUME NEW M, NEW s \in Seq(M)
    PROVE  /\ ObjectText(s) \in Seq({JsonOpen, JsonClose} \cup {member(kv) : kv \in M})
           /\ parse_json(ObjectText(s)) = {s[i] : i \in DOMAIN s}
<1>. DEFINE m    == [i \in DOMAIN s |-> member(s[i])]
            text == <<JsonOpen>> \o m \o <<JsonClose>>
            Cell == {JsonOpen, JsonClose} \cup {member(kv) : kv \in M}
<1>1. PICK n \in Nat : n = Len(s)
  OBVIOUS
<1>2. m \in Seq(Cell) /\ Len(m) = n /\ DOMAIN s = 1 .. n
  BY <1>1
<1>3. <<JsonOpen>> \in Seq(Cell) /\ <<JsonClose>> \in Seq(Cell)
  OBVIOUS
<1>4. \A i \in 1 .. n : m[i] = member(s[i])
  BY <1>2
<1>5. ObjectText(s) = text
  BY DEF ObjectText
<1>. HIDE DEF m
<1>6. /\ text \in Seq(Cell)
      /\ Len(text) = n + 2
      /\ text[1] = JsonOpen
      /\ text[n + 2] = JsonClose
      /\ \A i \in 2 .. n + 1 : text[i] = m[i - 1]
  <2>. PICK a \in Cell, b \in Cell : a = JsonOpen /\ b = JsonClose
    OBVIOUS
  <2>. HIDE DEF Cell
  <2>. QED
    BY <1>2, Enclosed
<1>. HIDE DEF text
<1>7. DOMAIN text = 1 .. n + 2
  BY <1>6
<1>8. \A i \in 2 .. n + 1 : text[i] = member(s[i - 1])
  BY <1>4, <1>6
<1>9. \A i \in 2 .. n + 1 : text[i].t = "member" /\ text[i].kv = s[i - 1]
  BY <1>8, Kinds
<1>10. text[1].t # "member" /\ text[n + 2].t # "member"
  BY <1>6, Kinds
<1>11. is_object(text)
  <2>1. 1 \in DOMAIN text /\ n + 2 \in DOMAIN text /\ 1 < n + 2
    BY <1>7
  <2>2. \A i \in DOMAIN text \ {1, n + 2} : text[i].t = "member" /\ 1 < i /\ i < n + 2
    BY <1>7, <1>9
  <2>. QED
    BY <2>1, <2>2, <1>6 DEF is_object
<1>12. {j \in DOMAIN text : text[j].t = "member"} = 2 .. n + 1
  BY <1>7, <1>9, <1>10
<1>13. \A i \in 1 .. n : i + 1 \in 2 .. n + 1 /\ text[i + 1].kv = s[i]
  BY <1>9
<1>14. \A i \in 2 .. n + 1 : i - 1 \in 1 .. n /\ text[i].kv = s[i - 1]
  BY <1>9
<1>15. {text[i].kv : i \in 2 .. n + 1} = {s[i] : i \in 1 .. n}
  <2>1. \A x \in {text[i].kv : i \in 2 .. n + 1} : x \in {s[i] : i \in 1 .. n}
    BY <1>14
  <2>2. ASSUME NEW x \in {s[i] : i \in 1 .. n}
        PROVE  x \in {text[i].kv : i \in 2 .. n + 1}
    <3>1. PICK i \in 1 .. n : x = s[i]
      OBVIOUS
    <3>2. i + 1 \in 2 .. n + 1 /\ text[i + 1].kv = x
      BY <3>1, <1>13
    <3>. QED
      BY <3>2
  <2>. QED
    BY <2>1, <2>2
<1>16. parse_json(text) = {s[i] : i \in DOMAIN s}
  BY <1>11, <1>12, <1>15, <1>2 DEF parse_json
<1>. QED
  BY <1>5, <1>6, <1>16

\* The bytes of an object are text, and read back as the object; they depend
\* on its value and not on the order of insertion.
LEMMA CanonicalText ==
    ASSUME NEW v, IsMap(v)
    PROVE  /\ canonical(v) \in Seq({JsonOpen, JsonClose} \cup {member(kv) : kv \in Range(v)})
           /\ parse_json(canonical(v)) = Range(v)
<1>1. sorted_members(v) \in Seq(Range(v))
      /\ {sorted_members(v)[i] : i \in DOMAIN sorted_members(v)} = Range(v)
  BY SortedMembers
<1>2. canonical(v) = ObjectText(sorted_members(v))
  BY DEF canonical, ObjectText
<1>. QED
  BY <1>1, <1>2, ParsedObject

\* Maps with the same members have the same canonical form, in whatever order
\* they were inserted.
LEMMA CanonicalByValue ==
    ASSUME NEW v, NEW w, Range(v) = Range(w)
    PROVE  canonical(v) = canonical(w)
BY DEF canonical, sorted_members

-----------------------------------------------------------------------------
(* Cutting *)

\* A sequence of elements of one set is one of another that holds them all.
LEMMA Wider ==
    ASSUME NEW A, NEW B, A \subseteq B, NEW s \in Seq(A)
    PROVE  s \in Seq(B) /\ s \in Seq(Range(s)) /\ Len(s) \in Nat
BY DEF Range

\* Two parts put together come apart where they were put together.
LEMMA CutWhereJoined ==
    ASSUME NEW A, NEW p \in Seq(A), NEW q \in Seq(A)
    PROVE  /\ p \o q \in Seq(A)
           /\ Len(p) <= Len(p \o q)
           /\ SubSeq(p \o q, 1, Len(p)) = p
           /\ SubSeq(p \o q, Len(p) + 1, Len(p \o q)) = q
OBVIOUS

\* split_outer cuts a blob where seal_routed joined it.
LEMMA SplitWhereJoined ==
    ASSUME NEW A, NEW p \in Seq(A), NEW q \in Seq(A)
    PROVE  split_outer([hdr_len |-> Len(p), bytes |-> p \o q])
             = [ok |-> TRUE, route |-> p, sealed |-> q]
<1>. PICK n \in Nat : n = Len(p)
  OBVIOUS
<1>1. n <= Len(p \o q) /\ SubSeq(p \o q, 1, n) = p /\ SubSeq(p \o q, n + 1, Len(p \o q)) = q
  BY CutWhereJoined
<1>2. Len(p \o q) \in Nat
  BY CutWhereJoined
<1>3. ~(n > Len(p \o q))
  BY <1>1, <1>2
<1>. QED
  BY <1>1, <1>3 DEF split_outer

\* The parts of any blob are sequences of its cells.
LEMMA SplitCells ==
    ASSUME NEW blob, blob.hdr_len \in Nat, blob.bytes \in Seq(Range(blob.bytes)),
           split_outer(blob).ok
    PROVE  LET outer == split_outer(blob)
           IN  /\ outer.route \in Seq(Range(blob.bytes))
               /\ outer.sealed \in Seq(Range(blob.bytes))
               /\ Len(outer.route) \in Nat
<1>. DEFINE b == blob.bytes
            n == blob.hdr_len
<1>1. ~(n > Len(b))
  BY DEF split_outer
<1>2. /\ split_outer(blob).route = SubSeq(b, 1, n)
      /\ split_outer(blob).sealed = SubSeq(b, n + 1, Len(b))
  BY <1>1 DEF split_outer
<1>. HIDE DEF b, n
<1>3. n \in Nat /\ b \in Seq(Range(b)) /\ n <= Len(b)
  BY <1>1 DEF n, b
<1>4. SubSeq(b, 1, n) \in Seq(Range(b)) /\ SubSeq(b, n + 1, Len(b)) \in Seq(Range(b))
  BY <1>3
<1>. QED
  BY <1>2, <1>4 DEF b

-----------------------------------------------------------------------------
(* What opens *)

\* The constants give objects, and contents that are bytes.
LEMMA Objects ==
    /\ \A v \in Headers \cup Metas : IsMap(v)
    /\ \A c \in Contents : c \in Seq(Range(c))
BY MapAssumption, RouteAssumption DEF IsMap

\* None is neither a shared secret, nor an object, nor an inner part.
LEMMA NoneDiffers ==
    /\ \A x \in Shared : x # None
    /\ \A v \in Headers \cup Metas : Range(v) # None
    /\ \A n \in Nat, m \in Metas, c \in Contents :
         [meta_len |-> n, bytes |-> canonical(m) \o c] # None
<1>1. /\ \A x \in Shared : x # None
      /\ \A v \in Headers \cup Metas : Range(v) # None
      /\ \A m \in Metas, c \in Contents : None \notin [meta_len : Nat, bytes : {canonical(m) \o c}]
  BY NoneIsNoContent
<1>2. ASSUME NEW n \in Nat, NEW m \in Metas, NEW c \in Contents
      PROVE  [meta_len |-> n, bytes |-> canonical(m) \o c] # None
  <2>. DEFINE inner == canonical(m) \o c
  <2>1. None \notin [meta_len : Nat, bytes : {inner}]
    BY <1>1
  <2>. HIDE DEF inner
  <2>2. [meta_len |-> n, bytes |-> inner] \in [meta_len : Nat, bytes : {inner}]
    OBVIOUS
  <2>. QED
    BY <2>1, <2>2 DEF inner
<1>. QED
  BY <1>1, <1>2

\* The metadata and the content come out of the decrypted part as they were put in.
LEMMA InnerReads ==
    ASSUME NEW m \in Metas, NEW c \in Contents
    PROVE  LET bytes == canonical(m) \o c
               n     == Len(canonical(m))
           IN  /\ ~(n > Len(bytes))
               /\ parse_json(SubSeq(bytes, 1, n)) = Range(m)
               /\ SubSeq(bytes, n + 1, Len(bytes)) = c
<1>. DEFINE Text == {JsonOpen, JsonClose} \cup {member(kv) : kv \in Range(m)}
            A    == Text \cup Range(c)
            p    == canonical(m)
<1>1. IsMap(m) /\ c \in Seq(Range(c))
  BY Objects
<1>2. p \in Seq(Text) /\ parse_json(p) = Range(m)
  BY <1>1, CanonicalText
<1>. HIDE DEF Text, p
<1>3. p \in Seq(A) /\ c \in Seq(A)
  BY <1>1, <1>2, Wider
<1>. HIDE DEF A
<1>4. /\ Len(p) <= Len(p \o c)
      /\ SubSeq(p \o c, 1, Len(p)) = p
      /\ SubSeq(p \o c, Len(p) + 1, Len(p \o c)) = c
      /\ p \o c \in Seq(A)
  BY <1>3, CutWhereJoined
<1>5. ~(Len(p) > Len(p \o c))
  BY <1>3, <1>4
<1>. QED
  BY <1>2, <1>4, <1>5 DEF p

\* A body opens under the AAD it was made with and at its destination only.
LEMMA BodyOpens ==
    ASSUME NEW s, NEW route_bytes, NEW ct, NEW nonce, NEW d,
           NEW shared, shared = hybrid_decap(ct, private_key(d)), shared # None,
           NEW box \in Boxes(s),
           NEW inner, inner # None,
           inner = decrypt(derive_wrap_key(shared, build_aad(route_bytes)), nonce,
                           build_aad(route_bytes), box)
    PROVE  route_bytes = canonical(s.hdr) /\ d = s.dest /\ inner = Inner(s)
<1>. DEFINE aad  == build_aad(route_bytes)
            aad0 == build_aad(canonical(s.hdr))
            key  == derive_wrap_key(shared, aad)
            key0 == derive_wrap_key(hybrid_encap(public_key(s.dest), s.n).shared, aad0)
<1>1. SealedBox(s) = [key |-> key0, nonce |-> s.n, aad |-> aad0, msg |-> Inner(s), intact |-> TRUE]
  BY DEF SealedBox, encrypt
<1>2. inner = decrypt(key, nonce, aad, box)
  OBVIOUS
<1>. HIDE DEF key, key0, aad, aad0
<1>3. box.key = key0 /\ box.aad = aad0 /\ box.msg = Inner(s)
  BY <1>1 DEF Boxes
<1>4. box.key = key /\ box.aad = aad /\ inner = box.msg
  BY <1>2 DEF decrypt
<1>5. key0 = key /\ aad0 = aad /\ inner = Inner(s)
  BY <1>3, <1>4
<1>5a. route_bytes = canonical(s.hdr)
  BY <1>5 DEF build_aad, aad, aad0
<1>6. hybrid_encap(public_key(s.dest), s.n).shared
        = combine(diffie_hellman(s.n, s.dest), mlkem_encapsulate(s.dest, s.n).ss)
  BY DEF hybrid_encap, public_key
<1>7. shared = combine(diffie_hellman(d, ct.x_eph), mlkem_decapsulate(d, ct.mlkem))
  BY DEF hybrid_decap, private_key
<1>8. hybrid_encap(public_key(s.dest), s.n).shared = shared
  BY <1>5 DEF derive_wrap_key, key, key0
<1>9. mlkem_encapsulate(s.dest, s.n).ss = mlkem_decapsulate(d, ct.mlkem)
  BY <1>6, <1>7, <1>8 DEF combine
<1>10. d = s.dest
  BY <1>9 DEF mlkem_encapsulate, mlkem_decapsulate
<1>. QED
  BY <1>5, <1>5a, <1>10

\* What open_routed returns was sealed so.
LEMMA OpensAsSealed ==
    ASSUME NEW from,
           \A s \in from : s.hdr \in Headers /\ s.meta \in Metas /\ s.content \in Contents,
           NEW blob, IsBlob(blob, from), NEW d,
           open_routed(blob, private_key(d)).end = "Ok"
    PROVE  LET res == open_routed(blob, private_key(d))
           IN  \E s \in from :
                  /\ s.dest = d
                  /\ Range(s.hdr) = res.hdr
                  /\ Range(s.meta) = res.meta
                  /\ s.content = res.content
<1>. DEFINE outer == split_outer(blob)
            inner == open_inner(outer.route, outer.sealed, private_key(d))
            meta  == parse_json(SubSeq(inner.bytes, 1, inner.meta_len))
            res   == open_routed(blob, private_key(d))
<1>1. /\ outer.ok
      /\ inner # None
      /\ res.hdr = parse_json(outer.route)
      /\ res.meta = meta
      /\ res.content = SubSeq(inner.bytes, inner.meta_len + 1, Len(inner.bytes))
  BY DEF open_routed
<1>2. blob.hdr_len \in Nat /\ blob.bytes \in Seq(Range(blob.bytes))
      /\ \A i \in DOMAIN blob.bytes : NoForgery(blob.bytes[i], from)
  BY DEF IsBlob
<1>. DEFINE sealed == outer.sealed
            shared == hybrid_decap(sealed[1].ct, private_key(d))
            aad    == build_aad(outer.route)
<1>3. /\ [i \in 1 .. Len(sealed) |-> sealed[i].t] = <<"ct", "nonce", "body">>
      /\ shared # None
      /\ inner = decrypt(derive_wrap_key(shared, aad), sealed[2].nonce, aad, sealed[3].box)
  BY <1>1 DEF open_inner
<1>4. sealed \in Seq(Range(blob.bytes))
  BY <1>1, <1>2, SplitCells
<1>. HIDE DEF outer
<1>5. sealed[3].t = "body" /\ 3 \in 1 .. Len(sealed)
  <2>. PICK n \in Nat : n = Len(sealed)
    BY <1>4
  <2>1. DOMAIN [i \in 1 .. n |-> sealed[i].t] = 1 .. 3
    BY <1>3
  <2>2. 3 \in 1 .. n
    BY <2>1
  <2>3. [i \in 1 .. n |-> sealed[i].t][3] = "body"
    BY <1>3
  <2>. QED
    BY <2>2, <2>3
<1>6. sealed[3] \in Range(blob.bytes)
  BY <1>4, <1>5
<1>7. NoForgery(sealed[3], from)
  BY <1>2, <1>6 DEF Range
<1>8. PICK s \in from : sealed[3] \in Bodies(s)
  BY <1>5, <1>7 DEF NoForgery
<1>9. sealed[3].box \in Boxes(s)
  BY <1>8 DEF Bodies
<1>10. /\ outer.route = canonical(s.hdr)
       /\ d = s.dest
       /\ inner = Inner(s)
  <2>1. inner # None /\ shared # None
    BY <1>1, <1>3
  <2>. HIDE DEF inner, shared
  <2>. DEFINE nonce == sealed[2].nonce
              ct    == sealed[1].ct
              box   == sealed[3].box
  <2>2. inner = decrypt(derive_wrap_key(shared, build_aad(outer.route)), nonce,
                        build_aad(outer.route), box)
    BY <1>3
  <2>3. shared = hybrid_decap(ct, private_key(d))
    BY DEF shared
  <2>4. box \in Boxes(s)
    BY <1>9
  <2>. HIDE DEF nonce, ct, box, sealed
  <2>. QED
    BY <2>1, <2>2, <2>3, <2>4, BodyOpens
<1>11. IsMap(s.hdr) /\ s.meta \in Metas /\ s.content \in Contents
  BY Objects
<1>12. res.hdr = Range(s.hdr)
  BY <1>1, <1>10, <1>11, CanonicalText
<1>13. res.meta = Range(s.meta) /\ res.content = s.content
  <2>. HIDE DEF inner
  <2>1. inner.meta_len = Len(canonical(s.meta)) /\ inner.bytes = canonical(s.meta) \o s.content
    <3>1. Inner(s).meta_len = Len(canonical(s.meta)) /\ Inner(s).bytes = canonical(s.meta) \o s.content
      BY DEF Inner
    <3>. QED
      BY <3>1, <1>10
  <2>2. meta = Range(s.meta)
        /\ SubSeq(inner.bytes, inner.meta_len + 1, Len(inner.bytes)) = s.content
    BY <2>1, <1>11, InnerReads
  <2>. QED
    BY <2>2, <1>1
<1>. QED
  BY <1>10, <1>12, <1>13

-----------------------------------------------------------------------------
(* Every step keeps the invariant *)

\* Cells that nobody forged make a blob under any length prefix.
LEMMA BlobOf ==
    ASSUME NEW A, NEW from, \A c \in A : NoForgery(c, from),
           NEW b \in Seq(A), NEW n \in Nat
    PROVE  IsBlob([hdr_len |-> n, bytes |-> b], from)
<1>. DEFINE blob == [hdr_len |-> n, bytes |-> b]
<1>1. b \in Seq(Range(b)) /\ \A i \in DOMAIN b : b[i] \in A
  BY Wider
<1>2. blob \in [hdr_len : Nat, bytes : Seq(Range(b))]
  BY <1>1
<1>3. blob.bytes = b
  OBVIOUS
<1>. HIDE DEF blob
<1>4. blob \in [hdr_len : Nat, bytes : Seq(Range(blob.bytes))]
  BY <1>2, <1>3
<1>5. \A i \in DOMAIN blob.bytes : NoForgery(blob.bytes[i], from)
  BY <1>1, <1>3
<1>6. IsBlob(blob, from)
  BY <1>4, <1>5 DEF IsBlob
<1>. QED
  BY <1>6 DEF blob

\* The cells of a blob.
LEMMA CellsOf ==
    ASSUME NEW blob, NEW from, IsBlob(blob, from)
    PROVE  /\ blob.hdr_len \in Nat
           /\ blob.bytes \in Seq(Range(blob.bytes))
           /\ \A c \in Range(blob.bytes) : NoForgery(c, from)
           /\ blob = [hdr_len |-> blob.hdr_len, bytes |-> blob.bytes]
           /\ Len(blob.bytes) \in Nat
           /\ DOMAIN blob.bytes = 1 .. Len(blob.bytes)
<1>1. /\ blob \in [hdr_len : Nat, bytes : Seq(Range(blob.bytes))]
      /\ \A i \in DOMAIN blob.bytes : NoForgery(blob.bytes[i], from)
  BY DEF IsBlob
<1>2. blob.hdr_len \in Nat /\ blob.bytes \in Seq(Range(blob.bytes))
      /\ blob = [hdr_len |-> blob.hdr_len, bytes |-> blob.bytes]
  BY <1>1
<1>3. \A c \in Range(blob.bytes) : NoForgery(c, from)
  BY <1>1 DEF Range
<1>4. Len(blob.bytes) \in Nat /\ DOMAIN blob.bytes = 1 .. Len(blob.bytes)
  BY <1>2
<1>. QED
  BY <1>2, <1>3, <1>4

\* Header text has no body in it.
LEMMA TextCells ==
    ASSUME NEW from
    PROVE  /\ NoForgery(JsonOpen, from) /\ NoForgery(JsonClose, from) /\ NoForgery(JsonSpace, from)
           /\ \A kv : NoForgery(member(kv), from)
BY Kinds DEF NoForgery

\* What seal_routed makes.
LEMMA SealedWhole ==
    ASSUME NEW d \in Dests, NEW h \in Headers, NEW m \in Metas, NEW c \in Contents, NEW n \in Nat
    PROVE  seal_routed(m, c, public_key(d), h, n)
             = [hdr_len |-> Len(canonical(h)),
                bytes   |-> canonical(h) \o SealedPart([n |-> n, dest |-> d, hdr |-> h, meta |-> m,
                                                        content |-> c])]
<1>. DEFINE s == [n |-> n, dest |-> d, hdr |-> h, meta |-> m, content |-> c]
<1>1. s.n = n /\ s.dest = d /\ s.hdr = h /\ s.meta = m /\ s.content = c
  OBVIOUS
<1>. HIDE DEF s
<1>2. public_key(d).len = PUBLIC_KEY_LEN
  BY DEF public_key
<1>. QED
  BY <1>1, <1>2 DEF seal_routed, SealedPart, SealedBox, Inner, s

\* A header of the host's, or of a relay's, before a sealed part.
LEMMA WholeBlob ==
    ASSUME NEW from, NEW s \in from, NEW h \in Headers
    PROVE  /\ canonical(h) \in Seq({JsonOpen, JsonClose} \cup {member(kv) : kv \in Range(h)}
                                       \cup Range(SealedPart(s)))
           /\ SealedPart(s) \in Seq({JsonOpen, JsonClose} \cup {member(kv) : kv \in Range(h)}
                                       \cup Range(SealedPart(s)))
           /\ IsBlob([hdr_len |-> Len(canonical(h)), bytes |-> canonical(h) \o SealedPart(s)], from)
<1>. DEFINE Text == {JsonOpen, JsonClose} \cup {member(kv) : kv \in Range(h)}
            p == canonical(h)
            q == SealedPart(s)
            A == Text \cup Range(q)
<1>1. p \in Seq(Text)
  BY Objects, CanonicalText
<1>2. PICK x, y, z : q = <<x, y, z>> /\ x.t = "ct" /\ y.t = "nonce" /\ z \in Bodies(s)
                     /\ "t" \in DOMAIN x /\ "t" \in DOMAIN y /\ "t" \in DOMAIN z
  <2>. DEFINE z == [t |-> "body", box |-> SealedBox(s)]
  <2>2. z \in Bodies(s)
    BY DEF Bodies, Boxes
  <2>3. "t" \in DOMAIN z
    OBVIOUS
  <2>. DEFINE ct == hybrid_encap(public_key(s.dest), s.n).ciphertext
  <2>4. q = <<[t |-> "ct", ct |-> ct], [t |-> "nonce", nonce |-> s.n], z>>
    BY DEF SealedPart
  <2>. HIDE DEF q, z, ct
  <2>. QED
    BY <2>2, <2>3, <2>4
<1>. HIDE DEF q, p
<1>3. q \in Seq({x, y, z}) /\ Range(q) = {x, y, z}
  BY <1>2 DEF Range
<1>4. \A c \in Range(q) : NoForgery(c, from)
  BY <1>2, <1>3 DEF NoForgery
<1>5. \A c \in Text : NoForgery(c, from)
  BY TextCells
<1>. HIDE DEF Text
<1>6. p \in Seq(A) /\ q \in Seq(A) /\ \A c \in A : NoForgery(c, from)
  BY <1>1, <1>3, <1>4, <1>5, Wider
<1>. HIDE DEF A
<1>7. p \o q \in Seq(A) /\ Len(p) \in Nat
  BY <1>6
<1>8. IsBlob([hdr_len |-> Len(p), bytes |-> p \o q], from)
  BY <1>6, <1>7, BlobOf
<1>. QED
  BY <1>6, <1>8 DEF p, q, A, Text

\* Nothing has been sealed, is on its way or was opened at first.
LEMMA InitRouteInv == Init => RouteInv
<1>. SUFFICES ASSUME Init PROVE RouteInv
  OBVIOUS
<1>1. sent = {} /\ wire = {} /\ opened = {} /\ IsFiniteSet({})
  BY FS_EmptySet DEF Init
<1>. QED
  BY <1>1 DEF RouteInv, SentOnce, WireSealed, OpenedAsSealed

\* A relay sends something on that is a blob without forgery, and whole if it
\* is not marked as spoilt.
LEMMA PassRouteInv ==
    ASSUME RouteInv, NEW e \in wire, NEW blob, NEW spoilt, Pass(e, blob, spoilt),
           IsBlob(blob, sent), ~spoilt => Whole(e.n, blob, sent)
    PROVE  RouteInv'
<1>1. sent' = sent /\ opened' = opened
  BY DEF Pass
<1>2. SentOnce' /\ OpenedAsSealed'
  BY <1>1 DEF RouteInv, SentOnce, OpenedAsSealed
<1>3. WireSealed'
  <2>. DEFINE g == [n |-> e.n, blob |-> blob, hops |-> e.hops + 1, spoilt |-> spoilt]
  <2>1. wire' = (wire \ {e}) \cup {g}
    BY DEF Pass
  <2>2. g.n = e.n /\ g.blob = blob /\ g.spoilt = spoilt
    OBVIOUS
  <2>. HIDE DEF g
  <2>3. \A f \in wire' : IsBlob(f.blob, sent) /\ (~f.spoilt => Whole(f.n, f.blob, sent))
    <3>. SUFFICES ASSUME NEW f \in wire'
                  PROVE  IsBlob(f.blob, sent) /\ (~f.spoilt => Whole(f.n, f.blob, sent))
      OBVIOUS
    <3>1. CASE f = g
      BY <3>1, <2>2
    <3>2. CASE f \in wire
      BY <3>2 DEF RouteInv, WireSealed
    <3>. QED
      BY <3>1, <3>2, <2>1
  <2>. QED
    BY <2>3, <1>1 DEF WireSealed
<1>. QED
  BY <1>2, <1>3 DEF RouteInv

\* A whole envelope comes apart into its header's bytes and the sealed part.
LEMMA WholeSplits ==
    ASSUME NEW from, NEW s \in from, NEW h \in Headers, NEW blob,
           blob = [hdr_len |-> Len(canonical(h)), bytes |-> canonical(h) \o SealedPart(s)]
    PROVE  split_outer(blob) = [ok |-> TRUE, route |-> canonical(h), sealed |-> SealedPart(s)]
<1>. DEFINE p == canonical(h)
            q == SealedPart(s)
<1>1. \E A : p \in Seq(A) /\ q \in Seq(A)
  BY WholeBlob
<1>. HIDE DEF p, q
<1>2. PICK A : p \in Seq(A) /\ q \in Seq(A)
  BY <1>1
<1>3. split_outer([hdr_len |-> Len(p), bytes |-> p \o q]) = [ok |-> TRUE, route |-> p, sealed |-> q]
  BY ONLY <1>2, SplitWhereJoined
<1>4. blob = [hdr_len |-> Len(p), bytes |-> p \o q]
  BY DEF p, q
<1>. QED
  BY <1>3, <1>4, Zenon DEF p, q

\* A new envelope is one its sealer recorded.
LEMMA SealRouteInv ==
    ASSUME RouteInv, NEW d \in Dests, NEW h \in Headers, NEW m \in Metas, NEW c \in Contents,
           Seal(d, h, m, c)
    PROVE  RouteInv'
<1>. DEFINE k == Cardinality(sent) + Cardinality(Dests)
            s == [n |-> Draw, dest |-> d, hdr |-> h, meta |-> m, content |-> c]
            blob == seal_routed(m, c, public_key(d), h, Draw)
            e == [n |-> Draw, blob |-> blob, hops |-> 0, spoilt |-> FALSE]
<1>1. sent' = sent \cup {s} /\ wire' = wire \cup {e} /\ opened' = opened
  BY DEF Seal
<1>2. Cardinality(sent) \in Nat /\ Cardinality(Dests) \in Nat /\ IsFiniteSet(sent)
  BY FS_CardinalityType, RouteAssumption DEF RouteInv, SentOnce
<1>3. Draw = k + 1 /\ Draw \in Nat /\ k \in Nat
  BY <1>2 DEF Draw
<1>4. s.n = Draw /\ s.dest = d /\ s.hdr = h /\ s.meta = m /\ s.content = c
  OBVIOUS
<1>5. e.n = Draw /\ e.blob = blob
  OBVIOUS
<1>6. blob = [hdr_len |-> Len(canonical(h)), bytes |-> canonical(h) \o SealedPart(s)]
  BY <1>3, SealedWhole
<1>. HIDE DEF s, e, blob, k
<1>7. \A t \in sent : t.n \in 1 .. k
  BY DEF RouteInv, SentOnce, k
<1>8. s \notin sent
  BY <1>3, <1>4, <1>7
<1>9. Cardinality(sent') = Cardinality(sent) + 1 /\ IsFiniteSet(sent')
  BY <1>1, <1>2, <1>8, FS_AddElement
<1>10. SentOnce'
  <2>1. \A t \in sent' :
           /\ t.dest \in Dests /\ t.hdr \in Headers /\ t.meta \in Metas /\ t.content \in Contents
           /\ t.n \in 1 .. Cardinality(sent') + Cardinality(Dests)
    <3>. SUFFICES ASSUME NEW t \in sent'
                  PROVE  /\ t.dest \in Dests /\ t.hdr \in Headers /\ t.meta \in Metas
                         /\ t.content \in Contents
                         /\ t.n \in 1 .. Cardinality(sent') + Cardinality(Dests)
      OBVIOUS
    <3>0. Cardinality(sent') + Cardinality(Dests) = k + 1
      BY <1>2, <1>9 DEF k
    <3>1. CASE t = s
      <4>1. t.n \in 1 .. k + 1
        BY <3>1, <1>3, <1>4
      <4>. QED
        BY <3>0, <4>1, <3>1, <1>4
    <3>2. CASE t \in sent
      <4>1. t.n \in 1 .. k + 1
        BY <3>2, <1>3, <1>7
      <4>. QED
        BY <3>0, <4>1, <3>2 DEF RouteInv, SentOnce
    <3>. QED
      BY <3>1, <3>2, <1>1
  <2>2. \A t, u \in sent' : t.n = u.n => t = u
    <3>. SUFFICES ASSUME NEW t \in sent', NEW u \in sent', t.n = u.n PROVE t = u
      OBVIOUS
    <3>1. \A x \in sent : x.n # s.n
      BY <1>3, <1>4, <1>7
    <3>. QED
      BY <3>1, <1>1 DEF RouteInv, SentOnce
  <2>. QED
    BY <2>1, <2>2, <1>9 DEF SentOnce
<1>11. WireSealed'
  <2>0. sent \subseteq sent' /\ s \in sent'
    BY <1>1
  <2>1. IsBlob(blob, sent') /\ Whole(Draw, blob, sent')
    BY <2>0, <1>6, <1>4, WholeBlob DEF Whole
  <2>2. \A f \in wire : IsBlob(f.blob, sent') /\ (~f.spoilt => Whole(f.n, f.blob, sent'))
    BY <2>0 DEF RouteInv, WireSealed, IsBlob, NoForgery, Whole
  <2>. PICK from : from = sent'
    OBVIOUS
  <2>3. \A f \in wire' : IsBlob(f.blob, from) /\ (~f.spoilt => Whole(f.n, f.blob, from))
    BY <2>1, <2>2, <1>1, <1>5
  <2>. QED
    BY <2>3 DEF WireSealed
<1>12. OpenedAsSealed'
  BY <1>1 DEF RouteInv, OpenedAsSealed
<1>. QED
  BY <1>10, <1>11, <1>12 DEF RouteInv

\* replace_route_header keeps the sealed part.
LEMMA ReplaceRouteInv ==
    ASSUME RouteInv, NEW e \in wire, NEW h \in Headers, Replace(e, h)
    PROVE  RouteInv'
<1>. DEFINE outer == split_outer(e.blob)
            p     == canonical(h)
            blob  == [hdr_len |-> Len(p), bytes |-> p \o outer.sealed]
            Text  == {JsonOpen, JsonClose} \cup {member(kv) : kv \in Range(h)}
            A     == Text \cup Range(e.blob.bytes)
<1>1. IsBlob(e.blob, sent) /\ (~e.spoilt => Whole(e.n, e.blob, sent))
  BY DEF RouteInv, WireSealed
<1>2. outer.ok /\ replace_route_header(e.blob, h) = blob
  BY DEF Replace, replace_route_header
<1>3. Pass(e, blob, e.spoilt)
  BY <1>2 DEF Replace
<1>4. p \in Seq(Text)
  BY Objects, CanonicalText
<1>5. outer.sealed \in Seq(Range(e.blob.bytes))
  BY <1>1, <1>2, CellsOf, SplitCells
<1>6. \A c \in A : NoForgery(c, sent)
  BY <1>1, CellsOf, TextCells
<1>7. ~e.spoilt => Whole(e.n, blob, sent)
  <2>. SUFFICES ASSUME ~e.spoilt PROVE Whole(e.n, blob, sent)
    OBVIOUS
  <2>1. PICK s \in sent, g \in Headers :
           s.n = e.n /\ e.blob = [hdr_len |-> Len(canonical(g)), bytes |-> canonical(g) \o SealedPart(s)]
    BY <1>1 DEF Whole
  <2>2. outer.sealed = SealedPart(s)
    BY <2>1, WholeSplits
  <2>. QED
    BY <2>1, <2>2 DEF Whole
<1>. HIDE DEF outer, p, Text
<1>8. p \in Seq(A) /\ outer.sealed \in Seq(A)
  BY <1>4, <1>5, Wider
<1>. HIDE DEF A
<1>9. p \o outer.sealed \in Seq(A) /\ Len(p) \in Nat
  BY <1>8
<1>10. IsBlob(blob, sent)
  BY <1>6, <1>9, BlobOf
<1>. QED
  BY <1>3, <1>7, <1>10, PassRouteInv

\* Space in the text, and a cut at the end, make no body.
LEMMA EditRouteInv ==
    ASSUME RouteInv, NEW e \in wire, Respell(e) \/ Truncate(e) \/ Reframe(e)
    PROVE  RouteInv'
<1>. DEFINE b == e.blob.bytes
            n == e.blob.hdr_len
<1>1. /\ n \in Nat /\ b \in Seq(Range(b)) /\ Len(b) \in Nat
      /\ e.blob = [hdr_len |-> n, bytes |-> b]
      /\ \A c \in Range(b) : NoForgery(c, sent)
  BY CellsOf DEF RouteInv, WireSealed
<1>. HIDE DEF b, n
<1>2. CASE Respell(e)
  <2>. DEFINE A == Range(b) \cup {JsonSpace}
              x == InsertAt(b, 2, JsonSpace)
  <2>1. Pass(e, [hdr_len |-> n + 1, bytes |-> x], TRUE)
    BY <1>2 DEF Respell, n, b
  <2>2. \A c \in A : NoForgery(c, sent)
    BY <1>1, TextCells
  <2>3. b \in Seq(A) /\ <<JsonSpace>> \in Seq(A)
    BY <1>1, Wider
  <2>. HIDE DEF A
  <2>4. 1 <= Len(b)
    <3>1. b # <<>>
      <4>. SUFFICES ASSUME b = <<>> PROVE FALSE
        OBVIOUS
      <4>1. read_route_header(e.blob) # None
        BY <1>2 DEF Respell
      <4>2. split_outer(e.blob).ok /\ parse_json(split_outer(e.blob).route) # None
        BY <4>1 DEF read_route_header
      <4>3. split_outer(e.blob).route = SubSeq(b, 1, n) /\ n <= Len(b)
        BY <4>2, <1>1 DEF split_outer, n, b
      <4>4. SubSeq(b, 1, n) = <<>>
        BY <4>3, <1>1
      <4>5. ~is_object(<<>>)
        BY DEF is_object
      <4>. QED
        BY <4>2, <4>3, <4>4, <4>5 DEF parse_json
    <3>. QED
      BY <3>1, <1>1
  <2>5. x \in Seq(A)
    <3>1. SubSeq(b, 1, 2 - 1) \in Seq(A) /\ SubSeq(b, 2, Len(b)) \in Seq(A)
      BY <2>3, <2>4, <1>1
    <3>2. x = SubSeq(b, 1, 2 - 1) \o <<JsonSpace>> \o SubSeq(b, 2, Len(b))
      BY DEF InsertAt
    <3>. QED
      BY <3>1, <3>2, <2>3
  <2>. HIDE DEF x
  <2>6. IsBlob([hdr_len |-> n + 1, bytes |-> x], sent)
    BY <2>2, <2>5, <1>1, BlobOf
  <2>. QED
    BY <2>1, <2>6, PassRouteInv
<1>3. CASE Truncate(e)
  <2>1. b # <<>> /\ Pass(e, [e.blob EXCEPT !.bytes = Front(b)], TRUE)
    BY <1>3 DEF Truncate, b
  <2>2. Front(b) \in Seq(Range(b))
    BY <2>1, <1>1 DEF Front
  <2>3. [e.blob EXCEPT !.bytes = Front(b)] = [hdr_len |-> n, bytes |-> Front(b)]
    BY <1>1
  <2>4. IsBlob([hdr_len |-> n, bytes |-> Front(b)], sent)
    BY <2>2, <1>1, BlobOf
  <2>. QED
    BY <2>1, <2>3, <2>4, PassRouteInv
<1>4. CASE Reframe(e)
  <2>1. PICK k \in {n - 1, n + 1} : k >= 0 /\ Pass(e, [e.blob EXCEPT !.hdr_len = k], TRUE)
    BY <1>4 DEF Reframe, n
  <2>2. k \in Nat
    BY <2>1, <1>1
  <2>3. [e.blob EXCEPT !.hdr_len = k] = [hdr_len |-> k, bytes |-> b]
    BY <1>1
  <2>4. IsBlob([hdr_len |-> k, bytes |-> b], sent)
    BY <2>2, <1>1, BlobOf
  <2>. QED
    BY <2>1, <2>3, <2>4, PassRouteInv
<1>. QED
  BY <1>2, <1>3, <1>4

\* A damaged body is still the body of what it was made for.
LEMMA DamageRouteInv ==
    ASSUME RouteInv, NEW e \in wire, Damage(e)
    PROVE  RouteInv'
<1>. DEFINE b == e.blob.bytes
            n == e.blob.hdr_len
<1>1. /\ n \in Nat /\ b \in Seq(Range(b)) /\ DOMAIN b = 1 .. Len(b)
      /\ e.blob = [hdr_len |-> n, bytes |-> b]
      /\ \A c \in Range(b) : NoForgery(c, sent)
  BY CellsOf DEF RouteInv, WireSealed
<1>2. ASSUME NEW i \in DOMAIN b, NEW c, NoForgery(c, sent),
             Pass(e, [e.blob EXCEPT !.bytes = [b EXCEPT ![i] = c]], TRUE)
      PROVE  RouteInv'
  <2>. DEFINE A == Range(b) \cup {c}
              x == [b EXCEPT ![i] = c]
  <2>. HIDE DEF b, n
  <2>1. x \in Seq(A)
    <3>1. b \in Seq(A)
      BY <1>1, Wider
    <3>. QED
      BY <3>1, <1>1
  <2>2. [e.blob EXCEPT !.bytes = x] = [hdr_len |-> n, bytes |-> x]
    BY <1>1
  <2>3. \A y \in A : NoForgery(y, sent)
    BY <1>1, <1>2
  <2>. HIDE DEF x, A
  <2>4. IsBlob([hdr_len |-> n, bytes |-> x], sent)
    BY <2>1, <2>3, <1>1, BlobOf
  <2>. QED
    BY <1>2, <2>2, <2>4, PassRouteInv DEF x
<1>3. PICK i \in DOMAIN b :
         \/ b[i].t = "body" /\ Pass(e, [e.blob EXCEPT !.bytes[i].box.intact = FALSE], TRUE)
         \/ b[i].t = "ct" /\ Pass(e, [e.blob EXCEPT !.bytes[i].ct.mlkem.intact = FALSE], TRUE)
  BY DEF Damage
<1>4. NoForgery(b[i], sent)
  BY <1>1, <1>3 DEF Range
<1>5. CASE b[i].t = "body" /\ Pass(e, [e.blob EXCEPT !.bytes[i].box.intact = FALSE], TRUE)
  <2>. DEFINE c == [b[i] EXCEPT !.box.intact = FALSE]
  <2>1. PICK s \in sent : b[i] \in Bodies(s)
    BY <1>4, <1>5 DEF NoForgery
  <2>2. PICK box \in Boxes(s) : b[i] = [t |-> "body", box |-> box]
    BY <2>1 DEF Bodies
  <2>3. c = [t |-> "body", box |-> [box EXCEPT !.intact = FALSE]]
    <3>1. PICK hurt : hurt = [box EXCEPT !.intact = FALSE]
      OBVIOUS
    <3>2. c = [b[i] EXCEPT !.box = hurt]
      BY <2>2, <3>1
    <3>3. c = [t |-> "body", box |-> hurt]
      BY <2>2, <3>2
    <3>. QED
      BY <3>1, <3>3
  <2>4. [box EXCEPT !.intact = FALSE] \in Boxes(s)
    <3>1. CASE box = SealedBox(s)
      BY <3>1 DEF Boxes
    <3>2. CASE box = [SealedBox(s) EXCEPT !.intact = FALSE]
      <4>1. [box EXCEPT !.intact = FALSE] = box
        BY <3>2
      <4>. QED
        BY <4>1
    <3>. QED
      BY <3>1, <3>2 DEF Boxes
  <2>5. c \in Bodies(s) /\ c.t = "body" /\ "t" \in DOMAIN c
    BY <2>3, <2>4 DEF Bodies
  <2>6. NoForgery(c, sent)
    BY <2>5 DEF NoForgery
  <2>7. [e.blob EXCEPT !.bytes[i].box.intact = FALSE] = [e.blob EXCEPT !.bytes = [b EXCEPT ![i] = c]]
    OBVIOUS
  <2>. QED
    BY <1>2, <1>3, <1>5, <2>6, <2>7
<1>6. CASE b[i].t = "ct" /\ Pass(e, [e.blob EXCEPT !.bytes[i].ct.mlkem.intact = FALSE], TRUE)
  <2>. DEFINE c == [b[i] EXCEPT !.ct.mlkem.intact = FALSE]
  <2>1. "t" \in DOMAIN b[i]
    BY <1>4 DEF NoForgery
  <2>2. c.t = "ct" /\ "t" \in DOMAIN c
    BY <2>1, <1>6
  <2>3. NoForgery(c, sent)
    BY <2>2 DEF NoForgery
  <2>4. [e.blob EXCEPT !.bytes[i].ct.mlkem.intact = FALSE]
          = [e.blob EXCEPT !.bytes = [b EXCEPT ![i] = c]]
    OBVIOUS
  <2>. QED
    BY <1>2, <1>3, <1>6, <2>3, <2>4
<1>. QED
  BY <1>3, <1>5, <1>6

\* The header of one blob and the sealed part of another; of two whole ones
\* they make a whole one.
LEMMA SpliceRouteInv ==
    ASSUME RouteInv, NEW e \in wire, NEW f \in wire, Splice(e, f)
    PROVE  RouteInv'
<1>. DEFINE a == split_outer(e.blob)
            b == split_outer(f.blob)
            A == Range(e.blob.bytes) \cup Range(f.blob.bytes)
            blob == [hdr_len |-> Len(a.route), bytes |-> a.route \o b.sealed]
<1>1. a.ok /\ b.ok /\ Pass(f, blob, e.spoilt \/ f.spoilt)
  BY DEF Splice
<1>2. /\ IsBlob(e.blob, sent) /\ (~e.spoilt => Whole(e.n, e.blob, sent))
      /\ IsBlob(f.blob, sent) /\ (~f.spoilt => Whole(f.n, f.blob, sent))
  BY DEF RouteInv, WireSealed
<1>3. a.route \in Seq(Range(e.blob.bytes)) /\ b.sealed \in Seq(Range(f.blob.bytes))
  BY <1>1, <1>2, CellsOf, SplitCells
<1>4. \A c \in A : NoForgery(c, sent)
  BY <1>2, CellsOf
<1>5. ~(e.spoilt \/ f.spoilt) => Whole(f.n, blob, sent)
  <2>. SUFFICES ASSUME ~e.spoilt, ~f.spoilt PROVE Whole(f.n, blob, sent)
    OBVIOUS
  <2>1. PICK s \in sent, h \in Headers :
           e.blob = [hdr_len |-> Len(canonical(h)), bytes |-> canonical(h) \o SealedPart(s)]
    BY <1>2 DEF Whole
  <2>2. PICK u \in sent, g \in Headers :
           u.n = f.n /\ f.blob = [hdr_len |-> Len(canonical(g)), bytes |-> canonical(g) \o SealedPart(u)]
    BY <1>2 DEF Whole
  <2>3. a = [ok |-> TRUE, route |-> canonical(h), sealed |-> SealedPart(s)]
    BY <2>1, WholeSplits
  <2>4. b = [ok |-> TRUE, route |-> canonical(g), sealed |-> SealedPart(u)]
    BY <2>2, WholeSplits
  <2>5. a.route = canonical(h) /\ b.sealed = SealedPart(u)
    BY <2>3, <2>4
  <2>. QED
    BY <2>2, <2>5 DEF Whole
<1>. HIDE DEF a, b
<1>6. a.route \in Seq(A) /\ b.sealed \in Seq(A)
  BY <1>3, Wider
<1>. HIDE DEF A
<1>7. a.route \o b.sealed \in Seq(A) /\ Len(a.route) \in Nat
  BY <1>6
<1>8. IsBlob(blob, sent)
  BY <1>4, <1>7, BlobOf
<1>. QED
  BY <1>1, <1>5, <1>8, PassRouteInv

\* What open_routed returns was sealed so.
LEMMA OpenRouteInv ==
    ASSUME RouteInv, NEW e \in wire, NEW d \in Dests, Open(d, e)
    PROVE  RouteInv'
<1>. DEFINE res == open_routed(e.blob, private_key(d))
            o   == [dest |-> d, hdr |-> res.hdr, meta |-> res.meta, content |-> res.content]
<1>1. res.end = "Ok" /\ opened' = opened \cup {o} /\ sent' = sent /\ wire' = wire
  BY DEF Open
<1>2. \E s \in sent : /\ s.dest = d
                      /\ Range(s.hdr) = res.hdr
                      /\ Range(s.meta) = res.meta
                      /\ s.content = res.content
  <2>1. \A s \in sent : s.hdr \in Headers /\ s.meta \in Metas /\ s.content \in Contents
    BY DEF RouteInv, SentOnce
  <2>2. IsBlob(e.blob, sent)
    BY DEF RouteInv, WireSealed
  <2>. QED
    BY <1>1, <2>1, <2>2, OpensAsSealed
<1>3. o.dest = d /\ o.hdr = res.hdr /\ o.meta = res.meta /\ o.content = res.content
  OBVIOUS
<1>. HIDE DEF o, res
<1>4. OpenedAsSealed'
  BY <1>1, <1>2, <1>3 DEF RouteInv, OpenedAsSealed
<1>. QED
  BY <1>1, <1>4 DEF RouteInv, SentOnce, WireSealed

\* Every step keeps the invariant.
LEMMA NextRouteInv == RouteInv /\ [Next]_vars => RouteInv'
<1>. SUFFICES ASSUME RouteInv, [Next]_vars PROVE RouteInv'
  OBVIOUS
<1>1. CASE UNCHANGED vars
  BY <1>1 DEF vars, RouteInv, SentOnce, WireSealed, OpenedAsSealed
<1>2. CASE \E d \in Dests, h \in Headers, m \in Metas, c \in Contents : Seal(d, h, m, c)
  BY <1>2, SealRouteInv
<1>3. ASSUME NEW e \in wire,
             \/ \E h \in Headers : Replace(e, h)
             \/ Respell(e) \/ Truncate(e) \/ Reframe(e) \/ Damage(e)
             \/ \E f \in wire : Splice(e, f)
             \/ \E d \in Dests : Open(d, e)
      PROVE  RouteInv'
  BY <1>3, ReplaceRouteInv, EditRouteInv, DamageRouteInv, SpliceRouteInv, OpenRouteInv
<1>. QED
  BY <1>1, <1>2, <1>3 DEF Next

-----------------------------------------------------------------------------
(* Theorems *)

\* The invariant holds in every reachable state.
THEOREM RouteInvariance == Spec => []RouteInv
BY InitRouteInv, NextRouteInv, PTL DEF Spec

\* open_routed: whatever relays do to envelopes, any number of times, what opens
\* at a destination was sealed to it with this header, metadata and content.
THEOREM RoutesAuthentic == Spec => []OpenedAsSealed
<1>1. RouteInv => OpenedAsSealed
  BY DEF RouteInv
<1>. QED
  BY <1>1, RouteInvariance, PTL

\* An envelope that nobody spoilt opens whenever its header has the value it was
\* sealed with, in whatever order the members were inserted.
LEMMA WholeOpens == RouteInv => SameHeaderOpens
<1>. SUFFICES ASSUME RouteInv, NEW e \in wire, NEW s \in sent, e.n = s.n, ~e.spoilt,
                     read_route_header(e.blob) = Range(s.hdr)
              PROVE  open_routed(e.blob, private_key(s.dest)).end = "Ok"
  BY DEF SameHeaderOpens
<1>1. PICK u \in sent, h \in Headers :
         u.n = e.n /\ e.blob = [hdr_len |-> Len(canonical(h)), bytes |-> canonical(h) \o SealedPart(u)]
  BY DEF RouteInv, WireSealed, Whole
<1>2. u = s
  BY <1>1 DEF RouteInv, SentOnce
<1>3. s.dest \in Nat /\ s.n \in Nat /\ s.hdr \in Headers /\ s.meta \in Metas /\ s.content \in Contents
  <2>1. s.dest \in Dests /\ s.hdr \in Headers /\ s.meta \in Metas /\ s.content \in Contents
        /\ s.n \in 1 .. Cardinality(sent) + Cardinality(Dests)
    BY DEF RouteInv, SentOnce
  <2>2. s.n \in Nat
    BY <2>1
  <2>. QED
    BY <2>1, <2>2, RouteAssumption
<1>. DEFINE outer  == split_outer(e.blob)
            p      == canonical(s.hdr)
            sealed == SealedPart(s)
            aad    == build_aad(p)
            shared == hybrid_encap(public_key(s.dest), s.n).shared
            ct     == hybrid_encap(public_key(s.dest), s.n).ciphertext
<1>4. outer = [ok |-> TRUE, route |-> canonical(h), sealed |-> sealed]
  BY <1>1, <1>2, WholeSplits
<1>5. parse_json(canonical(h)) = Range(h)
  BY Objects, CanonicalText
<1>6. Range(h) = Range(s.hdr)
  BY <1>4, <1>5 DEF read_route_header
<1>7. canonical(h) = p
  BY <1>6, CanonicalByValue
<1>8. Range(h) # None
  BY NoneDiffers
<1>9. hybrid_decap(ct, private_key(s.dest)) = shared /\ shared # None
  <2>. DEFINE d == s.dest
              r == s.n
              mct == [ek |-> d, r |-> r, intact |-> TRUE]
  <2>1. ct.len = CIPHERTEXT_LEN /\ ct.x_eph = r /\ ct.mlkem = mct
        /\ shared = [x25519 |-> {r, d}, mlkem |-> [dk |-> d, ct |-> mct, rejected |-> FALSE]]
    BY DEF hybrid_encap, public_key, mlkem_encapsulate, combine, diffie_hellman
  <2>2. shared \in Shared
    <3>1. mct \in MlKemCt
      BY <1>3 DEF MlKemCt
    <3>. QED
      BY <3>1, <2>1, <1>3 DEF Shared
  <2>3. mct.ek = d /\ mct.intact = TRUE
    OBVIOUS
  <2>. HIDE DEF mct, ct, shared
  <2>4. mlkem_decapsulate(d, mct) = [dk |-> d, ct |-> mct, rejected |-> FALSE]
    BY <2>3 DEF mlkem_decapsulate
  <2>5. diffie_hellman(d, r) = {r, d}
    BY DEF diffie_hellman
  <2>6. hybrid_decap(ct, private_key(d)) = shared
    BY <2>1, <2>4, <2>5 DEF hybrid_decap, private_key, combine
  <2>. QED
    BY <2>2, <2>6, NoneDiffers DEF shared, ct
<1>10. /\ Len(sealed) = 3
       /\ sealed[1].ct = ct /\ sealed[2].nonce = s.n /\ sealed[3].box = SealedBox(s)
       /\ [i \in 1 .. Len(sealed) |-> sealed[i].t] = <<"ct", "nonce", "body">>
  BY DEF SealedPart
<1>11. decrypt(derive_wrap_key(shared, aad), s.n, aad, SealedBox(s)) = Inner(s)
  BY DEF SealedBox, encrypt, decrypt
<1>. DEFINE inner == open_inner(outer.route, outer.sealed, private_key(s.dest))
<1>12. inner = Inner(s)
  <2>. HIDE DEF sealed, shared, ct, aad, outer
  <2>1. outer.route = p /\ outer.sealed = sealed /\ build_aad(outer.route) = aad
    BY <1>4, <1>7 DEF aad
  <2>. QED
    BY <2>1, <1>9, <1>10, <1>11 DEF open_inner
<1>13. Inner(s) # None
  <2>. DEFINE text == canonical(s.meta)
              n    == Len(text)
  <2>1. IsMap(s.meta)
    BY <1>3, Objects
  <2>2. text \in Seq({JsonOpen, JsonClose} \cup {member(kv) : kv \in Range(s.meta)})
    BY <2>1, CanonicalText
  <2>. HIDE DEF text
  <2>3. n \in Nat
    BY <2>2
  <2>. HIDE DEF n
  <2>4. [meta_len |-> n, bytes |-> canonical(s.meta) \o s.content] # None
    BY <2>3, <1>3, NoneDiffers
  <2>. QED
    BY <2>4 DEF Inner, n, text
<1>14. /\ ~(inner.meta_len > Len(inner.bytes))
       /\ parse_json(SubSeq(inner.bytes, 1, inner.meta_len)) = Range(s.meta)
  <2>1. Inner(s).meta_len = Len(canonical(s.meta)) /\ Inner(s).bytes = canonical(s.meta) \o s.content
    BY DEF Inner
  <2>. HIDE DEF inner
  <2>2. inner.meta_len = Len(canonical(s.meta)) /\ inner.bytes = canonical(s.meta) \o s.content
    BY <1>12, <2>1
  <2>. QED
    BY <2>2, <1>3, InnerReads
<1>15. Range(s.meta) # None
  BY <1>3, NoneDiffers
<1>16. outer.ok
  BY <1>4
<1>17. outer.sealed = sealed /\ parse_json(outer.route) # None
  BY <1>4, <1>5, <1>8
<1>18. ~(Len(outer.sealed) < SEALED_MIN_LEN)
  <2>. HIDE DEF sealed, outer
  <2>1. Len(outer.sealed) = 3
    BY <1>10, <1>17
  <2>. QED
    BY <2>1 DEF SEALED_MIN_LEN
<1>19. inner # None
  BY <1>12, <1>13
<1>20. parse_json(SubSeq(inner.bytes, 1, inner.meta_len)) # None
  BY <1>14, <1>15
<1>. HIDE DEF outer
<1>. QED
  BY <1>14, <1>16, <1>17, <1>18, <1>19, <1>20 DEF open_routed, inner, outer

\* replace_route_header: a relay's change of the header, or any number of them,
\* is undone by any other that gives the header its value back.
THEOREM HeadersRestore == Spec => []SameHeaderOpens
BY RouteInvariance, WholeOpens, PTL
=============================================================================
