---------------------------- MODULE GroupChannel ----------------------------
(***************************************************************************)
(* A group whose hosts use group_ratchet.rs.  The crate gives the pieces;  *)
(* the driver that puts them together (who is a member, when to rekey,     *)
(* what goes on the wire) is skchat's, outside the repository, and is      *)
(* modelled from the module's description: a rekey on every add or remove  *)
(* and when should_rekey says so, the epoch secret wrapped to the members  *)
(* one after the other, every host keeping one EpochRatchet per epoch.     *)
(***************************************************************************)
EXTENDS GroupRatchet, FiniteSets

CONSTANTS
    NHosts,        \* everybody who may ever be a member, numbered from 1
    DamageKinds,   \* what the transport may do to a wrapped payload
    MaxEpoch,      \* bound: epochs
    MaxMessages,   \* bound: messages
    MaxClock,      \* bound: wall clock readings
    MaxKeys        \* bound: hybrid key pairs, of all hosts together

Host == 1 .. NHosts

ASSUME HostAssumption == NHosts \in Nat \ {0}
ASSUME GroupDamageAssumption == DamageKinds \subseteq {"len", "ct", "wrapped"}
ASSUME GroupBoundAssumption ==
    MaxEpoch \in Nat /\ MaxMessages \in Nat /\ MaxClock \in Nat /\ MaxKeys \in Nat

VARIABLES
    epoch,      \* the group's current epoch and
    secret,     \* its secret: the group's authoritative state
    roster,     \* history: the members of each epoch so far
    unserved,   \* members the secret has not been wrapped to yet
    hybridKey,  \* the key pair each host opens with
    published,  \* the public keys each host has ever announced
    payloads,   \* wrapped secrets on the wire, within everybody's reach
    ratchets,   \* per host, the EpochRatchet of each epoch it was let in
    messages,   \* every message sent, with its key
    clock       \* SystemTime::now, in seconds; may be set back

vars == <<epoch, secret, roster, unserved, hybridKey, published, payloads, ratchets,
          messages, clock>>

EpochRatchet == [epoch : Nat, epoch_secret : Nat, message_index : Nat, epoch_started_at : Nat,
                 rekey_msg_bound : {DEFAULT_REKEY_MSG_BOUND},
                 rekey_age_seconds : {DEFAULT_REKEY_AGE_SECONDS}]

\* Counters, rosters and keys; hosts have ratchets only for epochs begun.
TypeOK ==
    /\ epoch \in Nat /\ secret \in Nat /\ clock \in Nat
    /\ roster \in [0 .. epoch -> SUBSET Host]
    /\ unserved \subseteq Host
    /\ hybridKey \in [Host -> Nat]
    /\ published \in [Host -> SUBSET Nat]
    /\ \A p \in payloads : p.epoch \in 0 .. epoch
    /\ DOMAIN ratchets = Host
    /\ \A h \in Host : /\ DOMAIN ratchets[h] \subseteq 0 .. epoch
                       /\ ratchets[h] \in [DOMAIN ratchets[h] -> EpochRatchet]
    /\ \A m \in messages : m.from \in Host /\ m.epoch \in 0 .. epoch /\ m.index \in Nat

-----------------------------------------------------------------------------
(* Draws of OsRng never repeat.  They are numbered: the secret of an epoch *)
(* is the one after the secret before it, a host's next key pair is its    *)
(* last one plus NHosts, a host numbers its message nonces, and the draws  *)
(* of a wrap come after all key pairs, one for each epoch and member.      *)

wrap_draw(h) == NHosts * (MaxKeys + epoch) + h

sent(h) == Cardinality({m \in messages : m.from = h})

\* Every host has a key pair; the first epoch has begun and nobody has it yet.
Init ==
    /\ epoch = 0
    /\ secret = 1
    /\ roster \in [{0} -> SUBSET Host \ {{}}]
    /\ unserved = roster[0]
    /\ hybridKey = [h \in Host |-> h]
    /\ published = [h \in Host |-> {h}]
    /\ payloads = {}
    /\ ratchets = [h \in Host |-> [e \in {} |-> None]]
    /\ messages = {}
    /\ clock = 0

\* The newest epoch a host was let in, for a host that was let in at all.
newest(h) == CHOOSE e \in DOMAIN ratchets[h] : \A d \in DOMAIN ratchets[h] : d <= e

\* A member is added or removed, or a member's bound says so: a new epoch with
\* a fresh secret.  The distribution of the one before may be incomplete.
Rekey(M) ==
    /\ epoch < MaxEpoch
    /\ \/ M # roster[epoch]
       \/ \E h \in M : epoch \in DOMAIN ratchets[h] /\ should_rekey(ratchets[h][epoch], clock)
    /\ epoch' = epoch + 1
    /\ secret' = secret + 1
    /\ roster' = [e \in 0 .. epoch' |-> IF e = epoch' THEN M ELSE roster[e]]
    /\ unserved' = M
    /\ UNCHANGED <<hybridKey, published, payloads, ratchets, messages, clock>>

\* The secret is wrapped to one more member, under a public key the member has
\* announced, not always its newest.
Distribute(h, k) ==
    LET payload == wrap_epoch_secret(secret, public_key(k), wrap_draw(h))
    IN  /\ payload # None
        /\ payloads' = payloads \cup {[epoch |-> epoch, payload |-> payload]}
        /\ unserved' = unserved \ {h}
        /\ UNCHANGED <<epoch, secret, roster, hybridKey, published, ratchets, messages, clock>>

\* A payload as the transport may hand it over.
Damaged(p, kind) ==
    CASE kind = "len"     -> [p EXCEPT !.len = @ - 1]
      [] kind = "ct"      -> [p EXCEPT !.ct.mlkem.intact = FALSE]
      [] kind = "wrapped" -> [p EXCEPT !.wrapped.intact = FALSE]

\* A host tries a payload, its own or not.  A secret for an epoch it does not
\* have yet becomes an EpochRatchet; anything else changes nothing.
Receive(h, p, arrived) ==
    LET got == unwrap_epoch_secret(arrived, private_key(hybridKey[h]))
    IN  /\ p.epoch \notin DOMAIN ratchets[h]
        /\ got # None
        /\ ratchets' = [ratchets EXCEPT ![h] =
               [e \in DOMAIN @ \cup {p.epoch} |->
                   IF e = p.epoch THEN epoch_ratchet(e, got, clock) ELSE @[e]]]
        /\ UNCHANGED <<epoch, secret, roster, unserved, hybridKey, published, payloads,
                       messages, clock>>

\* A host sends in its newest epoch, unless that epoch is due for a rekey.
Send(h) ==
    LET e   == newest(h)
        out == next_outbound_key(ratchets[h][e])
    IN  /\ Cardinality(messages) < MaxMessages
        /\ DOMAIN ratchets[h] # {}
        /\ ~should_rekey(ratchets[h][e], clock)
        /\ messages' = messages \cup {[from |-> h, epoch |-> e, index |-> out.index,
                                       key |-> out.key, nonce |-> sent(h) + 1]}
        /\ ratchets' = [ratchets EXCEPT ![h][e] = out.ratchet]
        /\ UNCHANGED <<epoch, secret, roster, unserved, hybridKey, published, payloads, clock>>

\* hybrid_keypair: a host replaces its key pair and forgets the old one.
RotateKey(h) ==
    /\ Cardinality(UNION {published[g] : g \in Host}) < MaxKeys
    /\ hybridKey' = [hybridKey EXCEPT ![h] = @ + NHosts]
    /\ published' = [published EXCEPT ![h] = @ \cup {hybridKey'[h]}]
    /\ UNCHANGED <<epoch, secret, roster, unserved, payloads, ratchets, messages, clock>>

\* The wall clock moves, forwards or backwards.
Tick ==
    /\ clock' \in 0 .. MaxClock
    /\ UNCHANGED <<epoch, secret, roster, unserved, hybridKey, published, payloads, ratchets,
                   messages>>

Next ==
    \/ \E M \in SUBSET Host \ {{}} : Rekey(M)
    \/ \E h \in unserved : \E k \in published[h] : Distribute(h, k)
    \/ \E h \in Host :
         \/ \E p \in payloads : \/ Receive(h, p, p.payload)
                                \/ \E d \in DamageKinds : Receive(h, p, Damaged(p.payload, d))
         \/ Send(h)
         \/ RotateKey(h)
    \/ Tick

Spec == Init /\ [][Next]_vars

-----------------------------------------------------------------------------
(* Properties *)

\* group_ratchet.rs: "a removed member cannot derive any future epoch's keys".
\* A host that tries every payload ever sent with every private key it ever
\* had derives the key of a message only if it was a member of that message's
\* epoch: neither after it is removed nor of the time before it was added.
RosterOnly ==
    \A m \in messages : \A h \in Host \ roster[m.epoch] :
        \A p \in payloads : \A k \in published[h] :
            LET s == unwrap_epoch_secret(p.payload, private_key(k))
            IN  s = None \/ derive_message_key(s, m.epoch, m.index) # m.key

\* "Receivers ignore their own counter and use each message's carried (epoch,
\* index)": whoever has the ratchet of a message's epoch derives the message's
\* key from its index, whatever the receiver has sent, missed or read before.
MembersAgree ==
    \A h \in Host : \A m \in messages :
        m.epoch \in DOMAIN ratchets[h] => message_key(ratchets[h][m.epoch], m.index) = m.key

\* A sender's counter is monotone: no sender uses a message key twice, in
\* epochs that overlap, after secrets that come late or more than once.
SenderKeysOnce ==
    \A m, n \in messages : m.from = n.from /\ m.key = n.key => m = n

\* should_rekey compares the bound with the member's own counter.  However late
\* or often secrets arrive, whichever epochs overlap and wherever the clock is
\* set, the members together never encrypt more messages under one epoch's
\* secret than the bound allows each of them.
GroupBudget ==
    \A e \in 0 .. epoch :
        Cardinality({m \in messages : m.epoch = e})
            <= Cardinality(roster[e]) * DEFAULT_REKEY_MSG_BOUND
=============================================================================
