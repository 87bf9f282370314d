------------------------------ MODULE Bindings ------------------------------
(***************************************************************************)
(* python.rs, frb_api.rs and wasm/src/lib.rs: the hybrid KEM and the       *)
(* message-key derivation as exported to Python, Dart and JavaScript.  The *)
(* three export the same four functions; they hand over byte strings as    *)
(* they are and differ in what a crate error is raised as.                 *)
(***************************************************************************)
EXTENDS DmRatchet

SHARED_SECRET_LEN == 32

python == [error |-> "ValueError"]
dart   == [error |-> "String"]
wasm   == [error |-> "JsValue"]

Binding == {python, dart, wasm}

\* An exception is told from a result.
ASSUME ErrorAssumption == \A b \in Binding : b.error # None

returned(value) == [raised |-> None, value |-> value]
raised(b)       == [raised |-> b.error, value |-> None]

\* What the Dart side compares its own sizes with.
wire_sizes == <<PUBLIC_KEY_LEN, PRIVATE_KEY_LEN, CIPHERTEXT_LEN, SHARED_SECRET_LEN>>

keypair_via(b, k) == [public_key |-> public_key(k), private_key |-> private_key(k)]

\* Mutant: a public key that is a byte short is filled up.
EncapViaPadded(b, peer_public_key, r) ==
    returned(hybrid_encap([peer_public_key EXCEPT !.len = PUBLIC_KEY_LEN], r))

encap_via(b, peer_public_key, r) ==
    LET enc == hybrid_encap(peer_public_key, r)
    IN  IF enc = None THEN raised(b) ELSE returned(enc)

\* Mutant: an ML-KEM ciphertext that was altered is reported to the caller.
DecapViaOracle(b, ciphertext, key) ==
    IF hybrid_decap(ciphertext, key) = None \/ ~ciphertext.mlkem.intact
    THEN raised(b)
    ELSE returned(hybrid_decap(ciphertext, key))

decap_via(b, ciphertext, key) ==
    LET shared == hybrid_decap(ciphertext, key)
    IN  IF shared = None THEN raised(b) ELSE returned(shared)

\* len is the number of bytes the caller passes as the epoch secret.
derive_via(b, epoch_secret, len, epoch, index) ==
    IF len # 32 THEN raised(b) ELSE returned(derive_dm_message_key(epoch_secret, epoch, index))
=============================================================================
