---------------------------- MODULE DmInvariants ----------------------------
(***************************************************************************)
(* The inductive invariants behind the properties of DmChannel.            *)
(***************************************************************************)
EXTENDS DmChannel

\* The ratchet's secret is the one filed for its epoch: what restore relies on.
Coherent(s) ==
    s.ratchet # None =>
        /\ s.ratchet.epoch \in DOMAIN s.epoch_secrets
        /\ s.epoch_secrets[s.ratchet.epoch] = s.ratchet.epoch_secret
        /\ s.current_kam # None

\* Of both hosts' sessions, and of the sessions their snapshots restore to.
AllCoherent ==
    \A p \in Party : Coherent(session[p]) /\ Coherent(restore(disk[p]).session)

TypeInv == TypeOK /\ AllCoherent

-----------------------------------------------------------------------------
(* Message keys are used once. *)

\* Every secret drawn so far has a number of at most rng.
SecretsDrawn ==
    /\ \A p \in Party : session[p].ratchet # None => session[p].ratchet.epoch_secret <= rng
    /\ \A m \in net : m.frame.body.key[1] <= rng

\* A frame's key is made of a secret and the frame's own slot.
KeysNameSlots ==
    \A m \in net : m.frame.body.key = <<m.frame.body.key[1], m.frame.epoch, m.frame.index>>

\* A frame under a host's current secret is that host's, of its current epoch,
\* and the counter has passed it.
CounterAhead ==
    \A p \in Party : session[p].ratchet # None => \A m \in net :
        m.frame.body.key[1] = session[p].ratchet.epoch_secret
            => /\ m.from = p
               /\ m.frame.index < session[p].ratchet.message_index

\* The hosts never seal under the same secret.
OwnSecrets ==
    \A p, q \in Party :
        session[p].ratchet # None /\ session[q].ratchet # None
            /\ session[p].ratchet.epoch_secret = session[q].ratchet.epoch_secret
            => p = q

KeyInv == SecretsDrawn /\ KeysNameSlots /\ CounterAhead /\ OwnSecrets /\ OneFramePerKey

-----------------------------------------------------------------------------
(* Slots are filled forwards. *)

\* The sender's ratchet has passed the slot of every frame.
SlotsBehind ==
    \A m \in net :
        LET r == session[m.from].ratchet
        IN  /\ r # None
            /\ \/ m.frame.epoch < r.epoch
               \/ m.frame.epoch = r.epoch /\ m.frame.index < r.message_index

-----------------------------------------------------------------------------
(* Frames, secrets and key-agreement messages, whatever is restored. *)

\* The sessions a host has or may come back with.
Held(p) == {session[p], restore(disk[p]).session}

\* kam is the given secret wrapped to a key that p's peer has announced.
KamFor(p, kam, secret) ==
    \E k \in published[peer(p)], r \in Nat :
        kam = wrap_dm_epoch_secret(secret, public_key(k), r)

\* A ratchet a host holds has taken index 0 already, its secret was drawn, the
\* KAM beside it wraps that secret, and the frames under the secret are the
\* host's, of the ratchet's epoch, the first of them from when it started.
RatchetKnown(p, s) ==
    /\ s.ratchet.epoch_secret <= rng
    /\ s.ratchet.message_index > 0
    /\ KamFor(p, s.current_kam, s.ratchet.epoch_secret)
    /\ \A m \in net : m.frame.body.key[1] = s.ratchet.epoch_secret =>
          /\ m.from = p
          /\ m.frame.epoch = s.ratchet.epoch
          /\ m.frame.index = 0 => m.at = s.ratchet.epoch_started_at

RatchetsKnown == \A p \in Party : \A s \in Held(p) : s.ratchet # None => RatchetKnown(p, s)

\* Two ratchets with one secret are two stages of one epoch of one host.
SecretsApart ==
    \A p, q \in Party : \A s \in Held(p), t \in Held(q) :
        s.ratchet # None /\ t.ratchet # None /\ s.ratchet.epoch_secret = t.ratchet.epoch_secret
            => /\ p = q
               /\ s.ratchet.epoch = t.ratchet.epoch
               /\ s.ratchet.epoch_started_at = t.ratchet.epoch_started_at

\* A frame is sealed under a drawn secret, and its KAM wraps that secret.
FramesKnown ==
    \A m \in net :
        /\ m.frame.body.key[1] <= rng
        /\ m.frame.body.key = <<m.frame.body.key[1], m.frame.epoch, m.frame.index>>
        /\ m.frame.kam # None => KamFor(m.from, m.frame.kam, m.frame.body.key[1])

FrameInv == RatchetsKnown /\ SecretsApart /\ FramesKnown /\ EpochIndependence /\ EpochBudget

-----------------------------------------------------------------------------
(* With one sender, an epoch whose KAM was seen opens. *)

\* The session is used in one direction.
OneSender == \A p \in Senders : peer(p) \notin Senders

\* kam is the given secret wrapped to some hybrid public key, with draws
\* among the first n.
Wraps(kam, secret, n) ==
    \E k, r \in 1 .. n : kam = wrap_dm_epoch_secret(secret, public_key(k), r)

\* A frame as seal makes it under the given secret.
SealedUnder(f, secret, n) ==
    /\ f.nonce.len = FRAME_NONCE_LEN
    /\ f.body = encrypt(<<secret, f.epoch, f.index>>, f.nonce.val, <<f.epoch, f.index>>, f.body.msg)
    /\ f.kam # None => Wraps(f.kam, secret, n)

\* Only senders seal and only senders have a ratchet.
OneWay ==
    /\ \A m \in net : m.from \in Senders
    /\ \A p \in Party \ Senders : session[p].ratchet = None

\* A sender has no secret for an epoch it has not begun.
NoFutureEpoch ==
    \A p \in Senders : \A e \in DOMAIN session[p].epoch_secrets :
        session[p].ratchet # None /\ e <= session[p].ratchet.epoch

\* The sender still has, under its epoch, the secret of every frame.
FramesFiled ==
    \A m \in net :
        /\ m.frame.epoch \in DOMAIN session[m.from].epoch_secrets
        /\ SealedUnder(m.frame, session[m.from].epoch_secrets[m.frame.epoch], rng)

\* The KAM at hand wraps the secret at hand, and keys have been drawn.
KamCurrent ==
    /\ \A p \in Senders : session[p].ratchet # None =>
           Wraps(session[p].current_kam, session[p].ratchet.epoch_secret, rng)
    /\ \A p \in Party : published[p] \subseteq 1 .. rng

\* What a receiver has filed for an epoch is the sender's secret of the epoch.
ReceiverAgrees ==
    \A p \in Senders : \A e \in DOMAIN session[peer(p)].epoch_secrets :
        /\ e \in DOMAIN session[p].epoch_secrets
        /\ session[peer(p)].epoch_secrets[e] = session[p].epoch_secrets[e]

\* A KAM that was seen has been filed.
SeenIsFiled == \A p \in Party : kamSeen[p] \subseteq DOMAIN session[p].epoch_secrets

SeenInv ==
    /\ OneWay
    /\ NoFutureEpoch
    /\ FramesFiled
    /\ KamCurrent
    /\ ReceiverAgrees
    /\ SeenIsFiled
=============================================================================
