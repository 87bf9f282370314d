------------------------------ MODULE DmChannel ------------------------------
(***************************************************************************)
(* Two hosts, each with a DmSession for the other, over a transport that   *)
(* may lose, repeat, reorder and damage frames.  The crate is called by    *)
(* the host: an action is one call of the session's API (seal, open,       *)
(* snapshot and restore) or a step of the environment (the wall clock, a   *)
(* new hybrid key pair).                                                   *)
(***************************************************************************)
EXTENDS DmSession, FiniteSets

CONSTANTS
    Alice, Bob,      \* the two hosts
    Senders,         \* the hosts that call seal
    RekeyMsgBound,   \* rekey_msg_bound of both sessions
    RekeyAge,        \* rekey_age_seconds of both sessions
    DamageKinds,     \* what the transport may do to a frame
    StaleRestore,    \* may a host restore a snapshot that is not its latest state?
    EncryptMayFail,  \* may the AEAD encryption of a seal fail?
    MaxDraws,        \* bound: OsRng draws
    MaxClock,        \* bound: wall clock readings
    MaxKeys          \* bound: hybrid key pairs per host

Party == {Alice, Bob}
AllDamage == {"body", "index", "kam_ct", "kam_len", "epoch", "nonce"}

ASSUME PartyAssumption == Alice # Bob /\ Senders \subseteq Party
ASSUME RekeyAssumption == RekeyMsgBound \in Nat /\ RekeyAge \in Nat
ASSUME DamageAssumption == DamageKinds \subseteq AllDamage
ASSUME SwitchAssumption == StaleRestore \in BOOLEAN /\ EncryptMayFail \in BOOLEAN
ASSUME BoundAssumption ==
    /\ MaxDraws \in Nat
    /\ MaxClock \in Nat
    /\ MaxKeys \in Nat

VARIABLES
    session,    \* the DmSession of each host
    hybridKey,  \* the hybrid key pair each host opens with
    published,  \* the hybrid public keys each host has ever announced
    disk,       \* the last snapshot each host has saved
    clock,      \* SystemTime::now, in seconds; may be set back
    rng,        \* the number of OsRng draws so far
    net,        \* every frame sealed so far, with its sender and the time
    opened,     \* history: what each host has opened, with its slot
    kamSeen,    \* history: epochs whose KAM a host got undamaged and in time
    panicked    \* history: some call of open has panicked

vars == <<session, hybridKey, published, disk, clock, rng, net, opened, kamSeen, panicked>>

peer(p) == IF p = Alice THEN Bob ELSE Alice

-----------------------------------------------------------------------------
(* Types *)

Wrapped  == [key : [info : {"dm-wrap"}, ikm : Shared], nonce : Nat, aad : {<<>>},
             msg : Nat, intact : BOOLEAN]
Kam      == [len : Nat, ct : HybridCt, nonce : Nat, wrapped : Wrapped]

Ratchet  == [epoch : Nat, epoch_secret : Nat, message_index : Nat, epoch_started_at : Nat,
             rekey_msg_bound : {RekeyMsgBound}, rekey_age_seconds : {RekeyAge}]

SavedRatchet == [epoch : Nat, message_index : Nat, epoch_started_at : Nat]

\* Option::None is none of the values an Option can hold.
ASSUME NoneIsNoValue == None \notin Ratchet \cup SavedRatchet \cup Kam \cup Shared

SealedDmFrame ==
    [epoch : Nat, index : Nat, nonce : [len : Nat, val : Nat],
     body : [key : Nat \X Nat \X Nat, nonce : Nat, aad : Nat \X Nat, msg : Nat, intact : BOOLEAN],
     kam : Kam \cup {None}]

\* A HashMap<u64, [u8; 32]>.
IsSecretMap(m) ==
    /\ DOMAIN m \subseteq Nat
    /\ m \in [DOMAIN m -> Nat]

IsSession(s) ==
    /\ s = [rekey_msg_bound |-> RekeyMsgBound, rekey_age_seconds |-> RekeyAge,
            ratchet |-> s.ratchet, epoch_secrets |-> s.epoch_secrets,
            current_kam |-> s.current_kam]
    /\ s.ratchet \in Ratchet \cup {None}
    /\ IsSecretMap(s.epoch_secrets)
    /\ s.current_kam \in Kam \cup {None}

\* What the variables hold: sessions, snapshots that restore to sessions,
\* frames as seal builds them, and counters.
TypeOK ==
    /\ DOMAIN session = Party /\ \A p \in Party : IsSession(session[p])
    /\ hybridKey \in [Party -> Nat]
    /\ published \in [Party -> SUBSET Nat]
    /\ DOMAIN disk = Party
    /\ \A p \in Party : restore(disk[p]).ok /\ IsSession(restore(disk[p]).session)
    /\ clock \in Nat
    /\ rng \in Nat
    /\ net \subseteq [from : Party, at : Nat, frame : SealedDmFrame]
    /\ opened \in [Party -> SUBSET [epoch : Nat, index : Nat, msg : Nat]]
    /\ kamSeen \in [Party -> SUBSET Nat]
    /\ panicked \in BOOLEAN

-----------------------------------------------------------------------------
Init ==
    /\ session = [p \in Party |-> with_bounds(RekeyMsgBound, RekeyAge)]
    /\ hybridKey = [p \in Party |-> IF p = Alice THEN 1 ELSE 2]
    /\ published = [p \in Party |-> {hybridKey[p]}]
    /\ disk = [p \in Party |-> snapshot(session[p])]
    /\ clock = 0
    /\ rng = 2
    /\ net = {}
    /\ opened = [p \in Party |-> {}]
    /\ kamSeen = [p \in Party |-> {}]
    /\ panicked = FALSE

\* seal, up to the epoch it seals in: the host passes any public key its peer
\* has announced, not always the newest.
EpochFor(p, k) == ensure_epoch(session[p], public_key(k), rng + 1, clock)

\* seal returns a frame.  Two draws: the epoch secret (unused when the epoch
\* goes on) and the frame's nonce, whose number also names the plaintext.
Seal(p, k) ==
    LET s == EpochFor(p, k).session
    IN  /\ rng + 2 <= MaxDraws
        /\ EpochFor(p, k).ok
        /\ rng' = rng + 2
        /\ net' = net \cup {[from |-> p, at |-> clock, frame |-> sealed_frame(s, rng + 2, rng + 2)]}
        /\ session' = [session EXCEPT ![p] = sealed_session(s)]
        /\ UNCHANGED <<hybridKey, published, disk, clock, opened, kamSeen, panicked>>

\* seal fails in the AEAD: the epoch begun and the index taken stay.
SealEncryptFails(p, k) ==
    LET s == EpochFor(p, k).session
    IN  /\ EncryptMayFail
        /\ rng + 2 <= MaxDraws
        /\ EpochFor(p, k).ok
        /\ rng' = rng + 2
        /\ session' = [session EXCEPT ![p] = sealed_session(s)]
        /\ UNCHANGED <<hybridKey, published, disk, clock, net, opened, kamSeen, panicked>>

\* seal must begin an epoch but is given a public key of the wrong length.
\* The secret it has drawn is dropped, so its number is free again.
SealRejected(p) ==
    LET short == [public_key(hybridKey[peer(p)]) EXCEPT !.len = PUBLIC_KEY_LEN - 1]
        begun == ensure_epoch(session[p], short, rng + 1, clock)
    IN  /\ ~begun.ok
        /\ session' = [session EXCEPT ![p] = begun.session]
        /\ UNCHANGED <<hybridKey, published, disk, clock, rng, net, opened, kamSeen, panicked>>

\* A frame as the transport may hand it over: one field altered.
Damaged(f, kind) ==
    CASE kind = "body"    -> [f EXCEPT !.body.intact = FALSE]
      [] kind = "index"   -> [f EXCEPT !.index = @ + 1]
      [] kind = "kam_ct"  -> [f EXCEPT !.kam.ct.mlkem.intact = FALSE]
      [] kind = "kam_len" -> [f EXCEPT !.kam.len = @ - 1]
      [] kind = "epoch"   -> [f EXCEPT !.epoch = @ + 1]
      [] kind = "nonce"   -> [f EXCEPT !.nonce.len = @ - 1]

\* What host p may be handed for frame f.
Arrivals(f) ==
    {f} \cup {Damaged(f, kind) : kind \in
                {d \in DamageKinds : d \in {"kam_ct", "kam_len"} => f.kam # None}}

\* open, of a frame the peer sealed, as often and in whatever order.
Open(p, m, f) ==
    LET priv    == private_key(hybridKey[p])
        outcome == open_outcome(session[p], f, priv)
        s       == open_session(session[p], f, priv)
    IN  /\ session' = [session EXCEPT ![p] = s]
        /\ opened' = IF outcome # "Ok" THEN opened
                     ELSE [opened EXCEPT ![p] =
                             @ \cup {[epoch |-> f.epoch, index |-> f.index, msg |-> open_body(s, f)]}]
        /\ kamSeen' = IF f = m.frame /\ f.kam # None /\ unwrap_dm_epoch_secret(f.kam, priv) # None
                      THEN [kamSeen EXCEPT ![p] = @ \cup {f.epoch}]
                      ELSE kamSeen
        /\ panicked' = (panicked \/ outcome = "panic")
        /\ UNCHANGED <<hybridKey, published, disk, clock, rng, net>>

Deliver(p) == \E m \in net : m.from = peer(p) /\ \E f \in Arrivals(m.frame) : Open(p, m, f)

\* The host stores a snapshot.
Save(p) ==
    /\ StaleRestore
    /\ disk' = [disk EXCEPT ![p] = snapshot(session[p])]
    /\ UNCHANGED <<session, hybridKey, published, clock, rng, net, opened, kamSeen, panicked>>

\* The host stops and comes back with a snapshot of its latest state or, if
\* it does not save after every call, with an older one.
Restart(p) ==
    \E snap \in {snapshot(session[p])} \cup (IF StaleRestore THEN {disk[p]} ELSE {}) :
        /\ restore(snap).ok
        /\ session' = [session EXCEPT ![p] = restore(snap).session]
        /\ UNCHANGED <<hybridKey, published, disk, clock, rng, net, opened, kamSeen, panicked>>

\* hybrid_keypair: a host replaces its key pair and forgets the old one.
RotateKey(p) ==
    /\ rng + 1 <= MaxDraws
    /\ Cardinality(published[p]) < MaxKeys
    /\ rng' = rng + 1
    /\ hybridKey' = [hybridKey EXCEPT ![p] = rng + 1]
    /\ published' = [published EXCEPT ![p] = @ \cup {rng + 1}]
    /\ UNCHANGED <<session, disk, clock, net, opened, kamSeen, panicked>>

\* The wall clock moves, forwards or backwards.
Tick ==
    /\ clock' \in 0 .. MaxClock
    /\ UNCHANGED <<session, hybridKey, published, disk, rng, net, opened, kamSeen, panicked>>

Next ==
    \/ \E p \in Senders :
         \/ \E k \in published[peer(p)] : Seal(p, k) \/ SealEncryptFails(p, k)
         \/ SealRejected(p)
    \/ \E p \in Party : Deliver(p) \/ Save(p) \/ Restart(p) \/ RotateKey(p)
    \/ Tick

Spec == Init /\ [][Next]_vars

-----------------------------------------------------------------------------
(* Properties *)

\* dm_session.rs: "a frame for any epoch whose KAM has been seen opens by
\* (epoch, index)".  Once a host has been handed an undamaged KAM wrapped to
\* its key, every frame of that epoch opens, whatever was lost, repeated,
\* reordered or damaged since, after restarts and after its key was replaced.
SeenEpochOpens ==
    \A p \in Party : \A m \in net :
        m.from = peer(p) /\ m.frame.epoch \in kamSeen[p]
            => open_outcome(session[p], m.frame, private_key(hybridKey[p])) = "Ok"

\* ratchet.rs: message_index is a "monotone counter".  No two frames, of either
\* host, are ever encrypted under the same message key, across rekeys, failed
\* seals and restarts.
OneFramePerKey ==
    \A m, n \in net : m.frame.body.key = n.frame.body.key => m = n

\* ratchet.rs: a rekey starts "a fresh epoch with an independent secret".  An
\* epoch secret keys the frames of one epoch of one sender, even when a host
\* comes back with an old snapshot and begins an epoch a second time.
EpochIndependence ==
    \A m, n \in net :
        m.frame.body.key[1] = n.frame.body.key[1]
            => m.from = n.from /\ m.frame.epoch = n.frame.epoch

\* The KAM on a frame unwraps, with a key its receiver has announced, to the
\* very secret that keys the frame's body: seal takes them from two fields of
\* the session that begin_epoch and restore must keep in step.
KamMatchesBody ==
    \A m \in net : m.frame.kam # None =>
        \E k \in published[peer(m.from)] :
            unwrap_dm_epoch_secret(m.frame.kam, private_key(k)) = m.frame.body.key[1]

\* restore: "same secrets, same next index".  A snapshot leaves out the
\* ratchet's secret and bounds; restoring it still gives back the session as
\* it was, and never fails.
RestoreIsExact ==
    \A p \in Party : restore(snapshot(session[p])) = [ok |-> TRUE, session |-> session[p]]

\* The rekey bound holds for the frames on the wire: after the first frame of
\* an epoch, no frame under the same secret has an index beyond the message
\* bound or is sealed RekeyAge or more seconds later, with restarts and a
\* clock that is set back in between.
EpochBudget ==
    \A m, n \in net :
        m.frame.body.key[1] = n.frame.body.key[1] /\ m.frame.index = 0 /\ n # m
            => n.frame.index < RekeyMsgBound /\ n.at - m.at < RekeyAge

\* SECURITY.md: "Malformed input returns a typed error ... never a panic".
NeverPanics == ~panicked
=============================================================================
