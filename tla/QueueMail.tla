----------------------------- MODULE QueueMail -----------------------------
(***************************************************************************)
(* Hosts that send each other one-shot envelopes (pqdm.rs) over anonymous  *)
(* queues (anon_queue.rs).  A host publishes the address of a queue; its   *)
(* peer decodes it, negotiates a suite, seals, tags the sealed bytes with  *)
(* the secret the two share and leaves the mail in the queue; the owner    *)
(* checks the tag and opens.  The queue itself and the prekey directory    *)
(* are not part of the repository: addresses and mail may be altered on    *)
(* the way, mail may end up in another queue, come late or more than once. *)
(***************************************************************************)
EXTENDS PqDm, AnonQueue, FiniteSets

CONSTANTS
    Name,         \* the name of each host 1 .. NHosts, a string
    HybridHosts,  \* the hosts that support the hybrid suite
    Relays,       \* relay locators
    StrayChars,   \* characters an address may get
    MaxDraws,     \* bound: OsRng draws
    MaxQueues,    \* bound: queues
    MaxAltered,   \* bound: altered addresses
    MaxSent,      \* bound: mails
    MaxHops       \* bound: alterations of mail

NHosts == Len(Name)
Host   == 1 .. NHosts

ASSUME MailAssumption ==
    /\ HybridHosts \subseteq Host
    /\ {MaxDraws, MaxQueues, MaxAltered, MaxSent, MaxHops} \subseteq Nat
    /\ DOMAIN queue_id = 1 .. MaxDraws
    /\ Name \in Seq(Range(Name)) /\ \A h \in Host : Name[h] \in Seq(Nat)
    /\ \A relay \in Relays : relay \in Seq(Range(relay))

\* No error is mistaken for a secret.
ASSUME NoneIsNoSecret == None \notin Shared

VARIABLES
    rng,        \* the number of OsRng draws so far; key pairs have the hosts' numbers
    addresses,  \* the addresses that go round, with the queue they were made for
    sent,       \* history: what was sent
    mail,       \* all mail in queues, with the draw that names it
    accepted    \* history: what was accepted

vars == <<rng, addresses, sent, mail, accepted>>

\* The secret two hosts share for their tags.
shared_secret(g, h) == {g, h}

Init == rng = NHosts /\ addresses = {} /\ sent = {} /\ mail = {} /\ accepted = {}

\* new_queue_pair and encode_aqid.
Publish(h, relay) ==
    LET pair == new_queue_pair(rng + 1)
        text == encode_aqid(relay, pair.sender_id)
    IN  /\ Cardinality(addresses) < MaxQueues
        /\ rng + 2 <= MaxDraws
        /\ text # None
        /\ rng' = rng + 2
        /\ addresses' = addresses \cup {[text |-> text, altered |-> FALSE, owner |-> h,
                                         relay |-> relay, queue |-> pair.sender_id]}
        /\ UNCHANGED <<sent, mail, accepted>>

\* An address loses its last character, gets one more or gets another one.
AlterAddress(a) ==
    LET garble(body) ==
            addresses' = (addresses \ {a}) \cup {[a EXCEPT !.text.body = body, !.altered = TRUE]}
        body == a.text.body
    IN  /\ ~a.altered
        /\ Cardinality({b \in addresses : b.altered}) < MaxAltered
        /\ \/ garble(Front(body))
           \/ \E c \in StrayChars :
                 garble(Append(body, c)) \/ \E i \in DOMAIN body : garble([body EXCEPT ![i] = c])
        /\ UNCHANGED <<rng, sent, mail, accepted>>

\* decode_aqid, negotiate_suite, seal and auth_tag.  Where the classical suite
\* is negotiated the mail goes another way, without pqdm.rs.
Send(h, a) ==
    LET at    == decode_aqid(a.text)
        n     == rng + 1
        blob  == seal(n, public_key(a.owner), Name[h], Name[a.owner], n)
        nonce == <<[tag_nonce |-> n]>>
    IN  /\ Cardinality(sent) < MaxSent
        /\ h # a.owner
        /\ at.end = "Ok"
        /\ negotiate_suite(h \in HybridHosts, a.owner \in HybridHosts) = HYBRID_SUITE
        /\ blob # None
        /\ rng' = n
        /\ sent' = sent \cup {[n |-> n, from |-> h, to |-> a.owner, direct |-> ~a.altered]}
        /\ mail' = mail \cup {[n |-> n, hops |-> 0, relay |-> at.relay, queue |-> at.sender_id,
                               suite |-> HYBRID_SUITE, from |-> h, blob |-> blob, nonce |-> nonce,
                               tag |-> auth_tag(shared_secret(h, a.owner), blob, nonce)]}
        /\ UNCHANGED <<addresses, accepted>>

\* A mail m goes on as x.
Pass(m, x) ==
    /\ MapThenSumSet(LAMBDA y : y.hops, mail) < MaxHops
    /\ mail' = (mail \ {m}) \cup {[x EXCEPT !.hops = @ + 1]}
    /\ UNCHANGED <<rng, addresses, sent, accepted>>

\* Into another queue, under another suite or sender, with the nonce of
\* another mail.
Redirect(m) ==
    \E a \in addresses : a.queue # m.queue /\ Pass(m, [m EXCEPT !.relay = a.relay, !.queue = a.queue])

Resuite(m) == m.suite # CLASSICAL_SUITE /\ Pass(m, [m EXCEPT !.suite = CLASSICAL_SUITE])

Reclaim(m) == \E h \in Host \ {m.from} : Pass(m, [m EXCEPT !.from = h])

Renonce(m) == \E x \in mail \ {m} : Pass(m, [m EXCEPT !.nonce = x.nonce])

\* The border between nonce and blob moves.
Reframe(m) ==
    \/ /\ m.blob # <<>>
       /\ Pass(m, [m EXCEPT !.nonce = Append(@, Head(m.blob)), !.blob = Tail(@)])
    \/ /\ m.nonce # <<>>
       /\ Pass(m, [m EXCEPT !.nonce = Front(@), !.blob = <<Last(m.nonce)>> \o @])

Damage(m) ==
    \E i \in DOMAIN m.blob :
        \/ DOMAIN m.blob[i] = {"box"} /\ Pass(m, [m EXCEPT !.blob[i].box.intact = FALSE])
        \/ DOMAIN m.blob[i] = {"ct"} /\ Pass(m, [m EXCEPT !.blob[i].ct.mlkem.intact = FALSE])

\* The mail a host finds in one of its queues.
Owns(h, m) ==
    \E a \in addresses : a.owner = h /\ a.relay = m.relay /\ a.queue = m.queue

\* verify_tag and open_sealed, for the sender and under the suite the mail names.
read_mail(h, m) ==
    IF verify_tag(shared_secret(h, m.from), m.blob, m.nonce, m.tag)
    THEN open_sealed(m.blob, private_key(h), Name[m.from], Name[h], m.suite)
    ELSE [end |-> "bad tag", msg |-> None]

Accept(h, m) ==
    LET res == read_mail(h, m)
    IN  /\ Owns(h, m)
        /\ res.end = "Ok"
        /\ accepted' = accepted \cup {[n |-> res.msg, from |-> m.from, to |-> h,
                                       suite |-> m.suite, nonce |-> m.nonce]}
        /\ UNCHANGED <<rng, addresses, sent, mail>>

Next ==
    \/ \E h \in Host :
         \/ \E relay \in Relays : Publish(h, relay)
         \/ \E a \in addresses : Send(h, a)
         \/ \E m \in mail : Accept(h, m)
    \/ \E a \in addresses : AlterAddress(a)
    \/ \E m \in mail :
         Redirect(m) \/ Resuite(m) \/ Reclaim(m) \/ Renonce(m) \/ Reframe(m) \/ Damage(m)

Spec == Init /\ [][Next]_vars

-----------------------------------------------------------------------------
(* Properties *)

\* "The lock is the AAD binding", and the nonce "is bound into the tag".  What
\* a host accepts was sent to it, by the sender, under the suite and with the
\* nonce it now bears, although suite and sender travel in the clear, the tag
\* does not cover them and the tag alone does not tell where the nonce ends.
AcceptedAsSent ==
    \A x \in accepted :
        /\ \E s \in sent : s.n = x.n /\ s.from = x.from /\ s.to = x.to
        /\ x.suite = HYBRID_SUITE
        /\ x.nonce = <<[tag_nonce |-> x.n]>>

\* Mail that nobody altered, sent to an address nobody altered, is in a queue of
\* the host it is meant for and opens there, in whatever order mail is read and
\* however often the host has published new addresses since.
IntactMailOpens ==
    \A m \in mail : \A s \in sent :
        m.n = s.n /\ m.hops = 0 /\ s.direct
            => Owns(s.to, m) /\ read_mail(s.to, m).end = "Ok"

\* decode_aqid: "round-trips encode_aqid" and "rejects anything malformed".  An
\* address as published leads to the queue it was made for, and any text that
\* decodes is the address of just the relay and id it decodes to.
AddressesExact ==
    \A a \in addresses :
        LET at == decode_aqid(a.text)
        IN  /\ ~a.altered => at = [end |-> "Ok", relay |-> a.relay, sender_id |-> a.queue]
            /\ at.end = "Ok" => encode_aqid(at.relay, at.sender_id) = a.text

\* pqdm.rs: the AAD is "byte-for-byte equal to Python's json.dumps({...},
\* sort_keys=True, separators=(",", ":"))", for the names of every mail.
AadMatchesPython ==
    \A s \in sent :
        downgrade_lock_aad(HYBRID_SUITE, Name[s.from], Name[s.to], None)
            = python_aad(HYBRID_SUITE, Name[s.from], Name[s.to])
=============================================================================
