------------------------------ MODULE DmRatchet ------------------------------
(***************************************************************************)
(* ratchet.rs: per-message keys of an epoch, the rekey bound, the wrapping *)
(* of an epoch secret to a peer (the key-agreement message, KAM) and the   *)
(* sender's DmRatchet.  Epoch secrets are 32-byte arrays everywhere in the *)
(* code, so BadSecretLen cannot arise here.                                *)
(***************************************************************************)
EXTENDS HybridKem

WRAP_NONCE_LEN      == 12
WRAPPED_PAYLOAD_LEN == CIPHERTEXT_LEN + WRAP_NONCE_LEN + 48

\* HKDF with the epoch in the salt and the index in the info: a distinct key
\* for every distinct triple.
derive_dm_message_key(epoch_secret, epoch, index) == <<epoch_secret, epoch, index>>

\* Mutant: the age of the epoch is not looked at.
ShouldRekeyByCountOnly(message_index, epoch_started_at, now, rekey_msg_bound, rekey_age_seconds) ==
    message_index >= rekey_msg_bound

should_rekey(message_index, epoch_started_at, now, rekey_msg_bound, rekey_age_seconds) ==
    \/ message_index >= rekey_msg_bound
    \/ now - epoch_started_at >= rekey_age_seconds

dm_wrap_key(shared) == [info |-> "dm-wrap", ikm |-> shared]

\* r stands for what the call draws: encapsulation randomness and nonce.
\* None is RatchetError::BadPublicKeyLen.
wrap_dm_epoch_secret(epoch_secret, peer_hybrid_pub, r) ==
    LET enc == hybrid_encap(peer_hybrid_pub, r)
    IN  IF peer_hybrid_pub.len # PUBLIC_KEY_LEN
        THEN None
        ELSE [len     |-> WRAPPED_PAYLOAD_LEN,
              ct      |-> enc.ciphertext,
              nonce   |-> r,
              wrapped |-> encrypt(dm_wrap_key(enc.shared), r, <<>>, epoch_secret)]

\* None is any RatchetError: the callers do not tell them apart.
unwrap_dm_epoch_secret(payload, peer_hybrid_priv) ==
    LET shared == hybrid_decap(payload.ct, peer_hybrid_priv)
    IN  IF payload.len # WRAPPED_PAYLOAD_LEN \/ shared = None
        THEN None
        ELSE decrypt(dm_wrap_key(shared), payload.nonce, <<>>, payload.wrapped)

-----------------------------------------------------------------------------
(* DmRatchet *)

ratchet_with_bounds(epoch, epoch_secret, rekey_msg_bound, rekey_age_seconds, now) ==
    [epoch             |-> epoch,
     epoch_secret      |-> epoch_secret,
     message_index     |-> 0,
     rekey_msg_bound   |-> rekey_msg_bound,
     rekey_age_seconds |-> rekey_age_seconds,
     epoch_started_at  |-> now]

\* Mutant: the counter is not advanced.
NextOutboundKeyStuck(r) ==
    [index   |-> r.message_index,
     key     |-> derive_dm_message_key(r.epoch_secret, r.epoch, r.message_index),
     ratchet |-> r]

next_outbound_key(r) ==
    [index   |-> r.message_index,
     key     |-> derive_dm_message_key(r.epoch_secret, r.epoch, r.message_index),
     ratchet |-> [r EXCEPT !.message_index = @ + 1]]

ratchet_should_rekey(r, now) ==
    should_rekey(r.message_index, r.epoch_started_at, now,
                 r.rekey_msg_bound, r.rekey_age_seconds)
=============================================================================
