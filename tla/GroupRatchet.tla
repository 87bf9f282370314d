---------------------------- MODULE GroupRatchet ----------------------------
(***************************************************************************)
(* group_ratchet.rs: an epoch secret wrapped to each member of a group,    *)
(* and the EpochRatchet every member derives message keys with.  Epoch     *)
(* secrets are 32-byte arrays in every caller, so BadSecretLen does not    *)
(* arise; r stands for the OsRng draws of a call.                          *)
(***************************************************************************)
EXTENDS HybridKem

WRAPPED_PAYLOAD_LEN == CIPHERTEXT_LEN + 12 + 48

\* HKDF with the epoch in the salt and the index in the info.
derive_message_key(epoch_secret, epoch, index) == <<epoch_secret, epoch, index>>

\* Mutant: the wrap key is the same for every encapsulation.
DeriveWrapKeyFixed(shared) == [info |-> "epoch-wrap"]

derive_wrap_key(shared) == [info |-> "epoch-wrap", ikm |-> shared]

\* None is BadPublicKeyLen: the failure is passed on, never downgraded.
wrap_epoch_secret(epoch_secret, member_hybrid_pub, r) ==
    LET enc == hybrid_encap(member_hybrid_pub, r)
    IN  IF member_hybrid_pub.len # PUBLIC_KEY_LEN
        THEN None
        ELSE [len     |-> WRAPPED_PAYLOAD_LEN,
              ct      |-> enc.ciphertext,
              nonce   |-> r,
              wrapped |-> encrypt(derive_wrap_key(enc.shared), r, <<>>, epoch_secret)]

\* None is any GroupRatchetError.
unwrap_epoch_secret(payload, member_hybrid_priv) ==
    LET shared == hybrid_decap(payload.ct, member_hybrid_priv)
    IN  IF payload.len # WRAPPED_PAYLOAD_LEN \/ shared = None
        THEN None
        ELSE decrypt(derive_wrap_key(shared), payload.nonce, <<>>, payload.wrapped)

-----------------------------------------------------------------------------
(* EpochRatchet.  new takes the bounds from two constants of the module    *)
(* (50 messages, 7 days), which are parameters here.                       *)

CONSTANTS DEFAULT_REKEY_MSG_BOUND, DEFAULT_REKEY_AGE_SECONDS

ASSUME RekeyDefaults == DEFAULT_REKEY_MSG_BOUND \in Nat /\ DEFAULT_REKEY_AGE_SECONDS \in Nat

\* Mutant: the two bounds change places.
EpochRatchetBoundsSwapped(epoch, epoch_secret, now) ==
    [epoch             |-> epoch,
     epoch_secret      |-> epoch_secret,
     message_index     |-> 0,
     rekey_msg_bound   |-> DEFAULT_REKEY_AGE_SECONDS,
     rekey_age_seconds |-> DEFAULT_REKEY_MSG_BOUND,
     epoch_started_at  |-> now]

epoch_ratchet(epoch, epoch_secret, now) ==
    [epoch             |-> epoch,
     epoch_secret      |-> epoch_secret,
     message_index     |-> 0,
     rekey_msg_bound   |-> DEFAULT_REKEY_MSG_BOUND,
     rekey_age_seconds |-> DEFAULT_REKEY_AGE_SECONDS,
     epoch_started_at  |-> now]

message_key(r, index) == derive_message_key(r.epoch_secret, r.epoch, index)

\* Mutant: the counter moves before the key is derived.
NextOutboundKeyAdvancedFirst(r) ==
    [index   |-> r.message_index,
     key     |-> derive_message_key(r.epoch_secret, r.epoch, r.message_index + 1),
     ratchet |-> [r EXCEPT !.message_index = @ + 1]]

\* Mutant: the counter is not advanced.
NextOutboundKeyStuck(r) ==
    [index   |-> r.message_index,
     key     |-> derive_message_key(r.epoch_secret, r.epoch, r.message_index),
     ratchet |-> r]

next_outbound_key(r) ==
    [index   |-> r.message_index,
     key     |-> derive_message_key(r.epoch_secret, r.epoch, r.message_index),
     ratchet |-> [r EXCEPT !.message_index = @ + 1]]

\* Mutant: one message more than the bound.
ShouldRekeyLate(r, now) ==
    \/ r.message_index > r.rekey_msg_bound
    \/ now - r.epoch_started_at >= r.rekey_age_seconds

should_rekey(r, now) ==
    \/ r.message_index >= r.rekey_msg_bound
    \/ now - r.epoch_started_at >= r.rekey_age_seconds
=============================================================================
