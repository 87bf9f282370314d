------------------------------- MODULE PqRoute -------------------------------
(***************************************************************************)
(* pqroute.rs: the routed envelope, a plaintext header in front of a part  *)
(* sealed to the destination, with the header's bytes in the AAD.  Byte    *)
(* strings are sequences of cells, each a record with a kind: a piece of   *)
(* JSON text, or a sealed field that is whole or not there at all.  A JSON *)
(* object is the sequence of its members <<key, value>> as inserted; what  *)
(* canonical does to keys and strings byte by byte is in CanonicalJson.    *)
(***************************************************************************)
EXTENDS HybridKem, SequencesExt, Ordering

JsonOpen   == [t |-> "{"]
JsonClose  == [t |-> "}"]
JsonSpace  == [t |-> "space"]
member(kv) == [t |-> "member", kv |-> kv]

\* Mutant: members are written in insertion order.
CanonicalAsInserted(v) == <<JsonOpen>> \o [i \in DOMAIN v |-> member(v[i])] \o <<JsonClose>>

\* keys.sort(): the members by key.
sorted_members(v) == in_order(Range(v), {p \in Range(v) \X Range(v) : p[1][1] < p[2][1]})

\* Sorted by key, no space.
canonical(v) ==
    LET s == sorted_members(v)
    IN  <<JsonOpen>> \o [i \in DOMAIN s |-> member(s[i])] \o <<JsonClose>>

\* Members between braces, and space anywhere.
is_object(bytes) ==
    \E first, last \in DOMAIN bytes :
        /\ first < last /\ bytes[first] = JsonOpen /\ bytes[last] = JsonClose
        /\ \A i \in DOMAIN bytes \ {first, last} :
             bytes[i] = JsonSpace \/ (bytes[i].t = "member" /\ first < i /\ i < last)

\* serde_json::from_slice, as the set of members.
parse_json(bytes) ==
    IF is_object(bytes)
    THEN {bytes[i].kv : i \in {j \in DOMAIN bytes : bytes[j].t = "member"}}
    ELSE None

\* Mutant: the header is not part of the AAD.
BuildAadSuiteOnly(route_canonical) == <<"pqroute1">>

build_aad(route_canonical) == <<"pqroute1", route_canonical>>

derive_wrap_key(shared, aad) == [info |-> <<"pqroute/wrap", aad>>, ikm |-> shared]

SEALED_MIN_LEN == 3  \* cells: ciphertext, nonce, body with its tag

\* The envelope; a length prefix is a number in front of its cells.  None is a
\* public key of the wrong length.
seal_routed(inner_metadata, content, dest_hybrid_pub, route_hdr, r) ==
    LET route_bytes == canonical(route_hdr)
        meta_bytes  == canonical(inner_metadata)
        inner == [meta_len |-> Len(meta_bytes), bytes |-> meta_bytes \o content]
        aad   == build_aad(route_bytes)
        enc   == hybrid_encap(dest_hybrid_pub, r)
    IN  IF dest_hybrid_pub.len # PUBLIC_KEY_LEN
        THEN None
        ELSE [hdr_len |-> Len(route_bytes),
              bytes   |-> route_bytes
                            \o <<[t |-> "ct", ct |-> enc.ciphertext],
                                 [t |-> "nonce", nonce |-> r],
                                 [t |-> "body",
                                  box |-> encrypt(derive_wrap_key(enc.shared, aad), r, aad, inner)]>>]

\* ok is FALSE for PqRouteError::Format.
split_outer(blob) ==
    IF blob.hdr_len > Len(blob.bytes)
    THEN [ok |-> FALSE, route |-> <<>>, sealed |-> <<>>]
    ELSE [ok     |-> TRUE,
          route  |-> SubSeq(blob.bytes, 1, blob.hdr_len),
          sealed |-> SubSeq(blob.bytes, blob.hdr_len + 1, Len(blob.bytes))]

\* None is PqRouteError::Format.
read_route_header(blob) ==
    LET outer == split_outer(blob)
    IN  IF outer.ok THEN parse_json(outer.route) ELSE None

\* The sealed part is kept as it is.  None is PqRouteError::Format.
replace_route_header(blob, new_route_hdr) ==
    LET outer == split_outer(blob)
        route_bytes == canonical(new_route_hdr)
    IN  IF outer.ok
        THEN [hdr_len |-> Len(route_bytes), bytes |-> route_bytes \o outer.sealed]
        ELSE None

\* The decrypted inner of a sealed part under the header bytes it came with.
\* Cells of the wrong kind stand for bytes cut in the wrong place: they make
\* a ciphertext, nonce or body that opens nothing.
open_inner(route_bytes, sealed, dest_hybrid_priv) ==
    LET aad    == build_aad(route_bytes)
        shared == hybrid_decap(sealed[1].ct, dest_hybrid_priv)
    IN  IF [i \in 1 .. Len(sealed) |-> sealed[i].t] # <<"ct", "nonce", "body">>
        THEN None
        ELSE IF shared = None THEN None
        ELSE decrypt(derive_wrap_key(shared, aad), sealed[2].nonce, aad, sealed[3].box)

\* How open_routed ends and what it returns.
open_routed(blob, dest_hybrid_priv) ==
    LET failed(e) == [end |-> e, hdr |-> None, meta |-> None, content |-> None]
        outer == split_outer(blob)
        inner == open_inner(outer.route, outer.sealed, dest_hybrid_priv)
        meta  == parse_json(SubSeq(inner.bytes, 1, inner.meta_len))
    IN  IF ~outer.ok THEN failed("Format")
        ELSE IF Len(outer.sealed) < SEALED_MIN_LEN THEN failed("Format")
        ELSE IF parse_json(outer.route) = None THEN failed("Format")
        ELSE IF inner = None THEN failed("Open")
        ELSE IF inner.meta_len > Len(inner.bytes) THEN failed("Open")
        ELSE IF meta = None THEN failed("Open")
        ELSE [end     |-> "Ok",
              hdr     |-> parse_json(outer.route),
              meta    |-> meta,
              content |-> SubSeq(inner.bytes, inner.meta_len + 1, Len(inner.bytes))]
=============================================================================
