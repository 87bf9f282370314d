------------------------------ MODULE DmSession ------------------------------
(***************************************************************************)
(* dm_session.rs: the ratcheted 1:1 session one side keeps for one peer.   *)
(* A session is a record; each method is an operator from the session and  *)
(* its arguments to the session it leaves behind and what it returns.      *)
(* now is the wall clock and r the number of an OsRng draw.                *)
(***************************************************************************)
EXTENDS DmRatchet

CONSTANT KAM_REPEAT  \* frames of an epoch that carry the KAM (3 in the code)

ASSUME KamRepeatAssumption == KAM_REPEAT \in Nat

FRAME_NONCE_LEN == 12

\* The AAD binds a frame's body to its slot.
frame_aad(epoch, index) == <<epoch, index>>

\* HashMap::insert.
insert(map, k, v) == [x \in DOMAIN map \cup {k} |-> IF x = k THEN v ELSE map[x]]

with_bounds(rekey_msg_bound, rekey_age_seconds) ==
    [rekey_msg_bound   |-> rekey_msg_bound,
     rekey_age_seconds |-> rekey_age_seconds,
     ratchet           |-> None,
     epoch_secrets     |-> [e \in {} |-> None],
     current_kam       |-> None]

-----------------------------------------------------------------------------
(* Sender *)

\* The session that has just begun an epoch under the given secret.
in_epoch(s, epoch, secret, kam, now) ==
    [rekey_msg_bound   |-> s.rekey_msg_bound,
     rekey_age_seconds |-> s.rekey_age_seconds,
     ratchet           |-> ratchet_with_bounds(epoch, secret, s.rekey_msg_bound,
                                               s.rekey_age_seconds, now),
     epoch_secrets     |-> insert(s.epoch_secrets, epoch, secret),
     current_kam       |-> kam]

\* Mutant: the session is changed before the wrap can fail.
BeginEpochBeforeWrap(s, epoch, peer_hybrid_pub, r, now) ==
    LET kam == wrap_dm_epoch_secret(r, peer_hybrid_pub, r)
    IN  [ok |-> kam # None,
         session |-> in_epoch(s, epoch, r, IF kam = None THEN s.current_kam ELSE kam, now)]

\* Mutant: a rekey keeps the secret of the epoch before it.
BeginEpochSameSecret(s, epoch, peer_hybrid_pub, r, now) ==
    LET secret == IF s.ratchet = None THEN r ELSE s.ratchet.epoch_secret
        kam == wrap_dm_epoch_secret(secret, peer_hybrid_pub, r)
    IN  IF kam = None
        THEN [ok |-> FALSE, session |-> s]
        ELSE [ok |-> TRUE, session |-> in_epoch(s, epoch, secret, kam, now)]

\* The draw r is the new epoch secret.  A wrap that fails changes nothing.
begin_epoch(s, epoch, peer_hybrid_pub, r, now) ==
    LET kam == wrap_dm_epoch_secret(r, peer_hybrid_pub, r)
    IN  IF kam = None
        THEN [ok |-> FALSE, session |-> s]
        ELSE [ok |-> TRUE, session |-> in_epoch(s, epoch, r, kam, now)]

\* The epoch a seal must begin first, None when the current one goes on.
begin_at(s, now) ==
    IF s.ratchet = None THEN 0
    ELSE IF ratchet_should_rekey(s.ratchet, now) THEN s.ratchet.epoch + 1
    ELSE None

\* The first half of seal: the epoch to seal in, begun if it has to be.
ensure_epoch(s, peer_hybrid_pub, r, now) ==
    IF begin_at(s, now) = None
    THEN [ok |-> TRUE, session |-> s]
    ELSE begin_epoch(s, begin_at(s, now), peer_hybrid_pub, r, now)

\* Mutant: the KAM rides only the first frame of an epoch.
KamOnFirstFrameOnly(s, index) == IF index = 0 THEN s.current_kam ELSE None

kam_for(s, index) == IF index < KAM_REPEAT THEN s.current_kam ELSE None

\* The second half of seal: take the next key and build the frame.  The
\* counter has moved on whether or not the encryption succeeds.
sealed_frame(s, plaintext, nonce) ==
    LET out == next_outbound_key(s.ratchet)
        e   == s.ratchet.epoch
    IN  [epoch |-> e,
         index |-> out.index,
         nonce |-> [len |-> FRAME_NONCE_LEN, val |-> nonce],
         body  |-> encrypt(out.key, nonce, frame_aad(e, out.index), plaintext),
         kam   |-> kam_for(s, out.index)]

sealed_session(s) == [s EXCEPT !.ratchet = next_outbound_key(s.ratchet).ratchet]

-----------------------------------------------------------------------------
(* Receiver *)

\* Mutant: a KAM replaces a secret that is already known.
KamSecretAlways(s, frame, my_hybrid_priv) ==
    IF frame.kam # None
    THEN [seen |-> TRUE, secret |-> unwrap_dm_epoch_secret(frame.kam, my_hybrid_priv)]
    ELSE [seen |-> FALSE, secret |-> None]

\* What the KAM of a frame teaches: looked at only if the epoch has no secret.
kam_secret(s, frame, my_hybrid_priv) ==
    IF frame.kam # None /\ frame.epoch \notin DOMAIN s.epoch_secrets
    THEN [seen |-> TRUE, secret |-> unwrap_dm_epoch_secret(frame.kam, my_hybrid_priv)]
    ELSE [seen |-> FALSE, secret |-> None]

\* Mutant: the error of the unwrap is not propagated.
OpenSessionIgnoringError(s, frame, my_hybrid_priv) ==
    LET k == kam_secret(s, frame, my_hybrid_priv)
    IN  IF k.seen
        THEN [s EXCEPT !.epoch_secrets = insert(@, frame.epoch, k.secret)]
        ELSE s

\* The session after the KAM: the secret is filed before the body is opened,
\* and stays filed if the body then fails.
open_session(s, frame, my_hybrid_priv) ==
    LET k == kam_secret(s, frame, my_hybrid_priv)
    IN  IF k.secret # None
        THEN [s EXCEPT !.epoch_secrets = insert(@, frame.epoch, k.secret)]
        ELSE s

\* The body under the secret filed for the frame's epoch.
open_body(s, frame) ==
    decrypt(derive_dm_message_key(s.epoch_secrets[frame.epoch], frame.epoch, frame.index),
            frame.nonce.val, frame_aad(frame.epoch, frame.index), frame.body)

\* How open ends.  Nonce::from_slice asserts the nonce length and panics.
open_outcome(s, frame, my_hybrid_priv) ==
    LET k == kam_secret(s, frame, my_hybrid_priv)
        t == open_session(s, frame, my_hybrid_priv)
        known == frame.epoch \in DOMAIN t.epoch_secrets
    IN  CASE k.seen /\ k.secret = None                   -> "Ratchet"
          [] ~k.seen /\ ~known                           -> "MissingEpochSecret"
          [] known /\ frame.nonce.len # FRAME_NONCE_LEN  -> "panic"
          [] OTHER -> IF open_body(t, frame) = None THEN "OpenFailed" ELSE "Ok"

-----------------------------------------------------------------------------
(* Persistence.  The snapshot is a JSON object: the secrets become a list  *)
(* of (epoch, secret) members, and the ratchet loses its secret and its    *)
(* bounds, which restore finds again elsewhere in the object.              *)

snapshot(s) ==
    [rekey_msg_bound   |-> s.rekey_msg_bound,
     rekey_age_seconds |-> s.rekey_age_seconds,
     epoch_secrets     |-> {<<e, s.epoch_secrets[e]>> : e \in DOMAIN s.epoch_secrets},
     current_kam       |-> s.current_kam,
     ratchet           |-> IF s.ratchet = None THEN None
                           ELSE [epoch            |-> s.ratchet.epoch,
                                 message_index    |-> s.ratchet.message_index,
                                 epoch_started_at |-> s.ratchet.epoch_started_at]]

\* The map that inserting the members of a JSON object builds.
members_map(members) ==
    [e \in {m[1] : m \in members} |-> (CHOOSE m \in members : m[1] = e)[2]]

\* Mutant: the restored ratchet starts over at index 0.
RestoreRatchetAtZero(snap, secrets) ==
    ratchet_with_bounds(snap.ratchet.epoch, secrets[snap.ratchet.epoch], snap.rekey_msg_bound,
                        snap.rekey_age_seconds, snap.ratchet.epoch_started_at)

restore_ratchet(snap, secrets) ==
    [epoch             |-> snap.ratchet.epoch,
     epoch_secret      |-> secrets[snap.ratchet.epoch],
     message_index     |-> snap.ratchet.message_index,
     rekey_msg_bound   |-> snap.rekey_msg_bound,
     rekey_age_seconds |-> snap.rekey_age_seconds,
     epoch_started_at  |-> snap.ratchet.epoch_started_at]

\* Not ok is the error "ratchet epoch has no stored secret".
restore(snap) ==
    LET secrets == members_map(snap.epoch_secrets)
    IN  [ok      |-> snap.ratchet # None => snap.ratchet.epoch \in DOMAIN secrets,
         session |-> [rekey_msg_bound   |-> snap.rekey_msg_bound,
                      rekey_age_seconds |-> snap.rekey_age_seconds,
                      ratchet           |-> IF snap.ratchet = None THEN None
                                            ELSE restore_ratchet(snap, secrets),
                      epoch_secrets     |-> secrets,
                      current_kam       |-> snap.current_kam]]
=============================================================================
