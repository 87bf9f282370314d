---------------------------- MODULE RouteNetwork ----------------------------
(***************************************************************************)
(* Envelopes of pqroute.rs on their way over relays.  A relay reads the    *)
(* header, may call replace_route_header, and may spoil what it forwards:  *)
(* write the header in another spelling, cut the end off, set another      *)
(* header length, put one envelope's header before another's sealed part,  *)
(* or damage the sealed part.                                              *)
(***************************************************************************)
EXTENDS PqRoute

CONSTANTS
    Dests,      \* the destinations, each the number of its key pair
    Headers,    \* route headers, as inserted
    Metas,      \* inner metadata, as inserted
    Contents,   \* message bodies
    MaxSent,    \* bound: envelopes
    MaxHops     \* bound: changes made to an envelope on its way

ASSUME RouteAssumption ==
    /\ Dests \subseteq Nat /\ IsFiniteSet(Dests)
    /\ MaxSent \in Nat /\ MaxHops \in Nat
    /\ \A c \in Contents : c \in Seq(Range(c))

\* A serde_json Map has a key once; a key is its place in the order of strings.
ASSUME MapAssumption ==
    \A v \in Headers \cup Metas :
        /\ v \in Seq(Range(v))
        /\ \A i \in DOMAIN v : v[i][1] \in Int
        /\ \A i, j \in DOMAIN v : v[i][1] = v[j][1] => i = j

\* No error is mistaken for what was computed.
ASSUME NoneIsNoContent ==
    /\ None \notin Shared
    /\ \A v \in Headers \cup Metas : Range(v) # None
    /\ \A m \in Metas, c \in Contents : None \notin [meta_len : Nat, bytes : {canonical(m) \o c}]

VARIABLES
    sent,    \* history: what was sealed, to whom, and the envelope
    wire,    \* every envelope as it now is, and whether a relay spoilt it
    opened   \* history: what destinations got out of open_routed

vars == <<sent, wire, opened>>

Init == sent = {} /\ wire = {} /\ opened = {}

\* Draws are numbered after the key pairs.
Draw == Cardinality(sent) + Cardinality(Dests) + 1

Seal(d, h, m, c) ==
    LET blob == seal_routed(m, c, public_key(d), h, Draw)
    IN  /\ Cardinality(sent) < MaxSent
        /\ blob # None
        /\ sent' = sent \cup {[n |-> Draw, dest |-> d, hdr |-> h, meta |-> m, content |-> c]}
        /\ wire' = wire \cup {[n |-> Draw, blob |-> blob, hops |-> 0, spoilt |-> FALSE]}
        /\ UNCHANGED opened

\* A relay sends envelope e on in another form.
Pass(e, blob, spoilt) ==
    /\ e.hops < MaxHops
    /\ wire' = (wire \ {e})
                 \cup {[n |-> e.n, blob |-> blob, hops |-> e.hops + 1, spoilt |-> spoilt]}
    /\ UNCHANGED <<sent, opened>>

Replace(e, h) ==
    LET blob == replace_route_header(e.blob, h)
    IN  blob # None /\ Pass(e, blob, e.spoilt)

\* Space after the opening brace: another spelling of the same header.
Respell(e) ==
    /\ read_route_header(e.blob) # None
    /\ Pass(e, [hdr_len |-> e.blob.hdr_len + 1,
                bytes   |-> InsertAt(e.blob.bytes, 2, JsonSpace)], TRUE)

Truncate(e) ==
    /\ e.blob.bytes # <<>>
    /\ Pass(e, [e.blob EXCEPT !.bytes = Front(@)], TRUE)

\* The length prefix is altered.
Reframe(e) ==
    \E n \in {e.blob.hdr_len - 1, e.blob.hdr_len + 1} :
        n >= 0 /\ Pass(e, [e.blob EXCEPT !.hdr_len = n], TRUE)

Damage(e) ==
    \E i \in DOMAIN e.blob.bytes :
        \/ e.blob.bytes[i].t = "body" /\ Pass(e, [e.blob EXCEPT !.bytes[i].box.intact = FALSE], TRUE)
        \/ e.blob.bytes[i].t = "ct" /\ Pass(e, [e.blob EXCEPT !.bytes[i].ct.mlkem.intact = FALSE], TRUE)

\* The header of e in front of the sealed part of f.
Splice(e, f) ==
    LET a == split_outer(e.blob)
        b == split_outer(f.blob)
    IN  /\ e.n # f.n /\ a.ok /\ b.ok
        /\ Pass(f, [hdr_len |-> Len(a.route), bytes |-> a.route \o b.sealed], e.spoilt \/ f.spoilt)

\* A destination opens an envelope, meant for it or not.
Open(d, e) ==
    LET res == open_routed(e.blob, private_key(d))
    IN  /\ res.end = "Ok"
        /\ opened' = opened \cup {[dest |-> d, hdr |-> res.hdr, meta |-> res.meta,
                                   content |-> res.content]}
        /\ UNCHANGED <<sent, wire>>

Next ==
    \/ \E d \in Dests, h \in Headers, m \in Metas, c \in Contents : Seal(d, h, m, c)
    \/ \E e \in wire :
         \/ \E h \in Headers : Replace(e, h)
         \/ Respell(e) \/ Truncate(e) \/ Reframe(e) \/ Damage(e)
         \/ \E f \in wire : Splice(e, f)
         \/ \E d \in Dests : Open(d, e)

Spec == Init /\ [][Next]_vars

-----------------------------------------------------------------------------
(* Properties *)

\* "A relay that rewrites the next-hop field cannot do so silently".  Whatever
\* relays do, what open_routed returns was sealed that way: this header, this
\* metadata and this content together, in one envelope to this destination.
OpenedAsSealed ==
    \A o \in opened : \E s \in sent :
        /\ s.dest = o.dest
        /\ Range(s.hdr) = o.hdr
        /\ Range(s.meta) = o.meta
        /\ s.content = o.content

\* The AAD depends on the header's value alone, so an envelope whose header was
\* replaced, any number of times, opens again at its destination as soon as the
\* header has the value it was sealed with, in whatever order the last relay
\* put the members in.
SameHeaderOpens ==
    \A e \in wire : \A s \in sent :
        e.n = s.n /\ ~e.spoilt /\ read_route_header(e.blob) = Range(s.hdr)
            => open_routed(e.blob, private_key(s.dest)).end = "Ok"
=============================================================================
