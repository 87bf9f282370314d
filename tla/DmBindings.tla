----------------------------- MODULE DmBindings -----------------------------
(***************************************************************************)
(* A DM session of the crate with a peer that has no session: a client     *)
(* that works with the four functions of a binding only, and with an HKDF  *)
(* and AES-GCM of its own (tests/parity_python.py has such a client).      *)
(***************************************************************************)
EXTENDS DmChannel, Bindings

\* An encapsulation is not an error.
ASSUME EncapAssumption == None \notin [ciphertext : HybridCt, shared : Shared]

\* The client unwraps a KAM: it cuts the payload by wire_sizes (and 12 bytes of
\* nonce, 48 of wrapped secret), decapsulates and decrypts.
client_unwrap(b, payload, private) ==
    LET shared == decap_via(b, payload.ct, private)
    IN  IF payload.len # wire_sizes[3] + 12 + 48 \/ shared.raised # None
        THEN None
        ELSE decrypt(dm_wrap_key(shared.value), payload.nonce, <<>>, payload.wrapped)

\* The client wraps a secret for a host of the crate.
client_wrap(b, epoch_secret, peer_public_key, r) ==
    LET enc == encap_via(b, peer_public_key, r)
    IN  IF enc.raised # None
        THEN None
        ELSE [len     |-> wire_sizes[3] + 12 + 48,
              ct      |-> enc.value.ciphertext,
              nonce   |-> r,
              wrapped |-> encrypt(dm_wrap_key(enc.value.shared), r, <<>>, epoch_secret)]

-----------------------------------------------------------------------------
(* Properties *)

\* python.rs: "Wire-compatible ... a ciphertext from either side decaps on the
\* other", and "a tampered ciphertext yields a pseudo-random secret (no error,
\* no oracle)".  Whatever reaches it of any frame, with any key pair, made
\* through any binding, a client on any binding unwraps a KAM exactly when the
\* crate does, to the same secret, never sees an exception for a ciphertext
\* that was altered, and derives the key the frame was sealed with.
AnyBindingReads ==
    \A m \in net : \A f \in Arrivals(m.frame) : f.kam # None =>
        \A k \in published[Alice] \cup published[Bob] : \A made, b \in Binding :
            LET private == keypair_via(made, k).private_key
                secret  == client_unwrap(b, f.kam, private)
            IN  /\ decap_via(b, f.kam.ct, private).raised = None
                /\ secret = unwrap_dm_epoch_secret(f.kam, private)
                /\ f = m.frame /\ secret # None
                     => derive_via(b, secret, SHARED_SECRET_LEN, f.epoch, f.index)
                          = returned(f.body.key)

\* The other direction: what a client on any binding wraps to a key of a host
\* is unwrapped by the host with that key and no other; a public key that came
\* a byte short gives an exception and no payload.
AnyBindingWraps ==
    \A p \in Party : \A k \in published[p] : \A made, b \in Binding : \A m \in net :
        LET public  == keypair_via(made, k).public_key
            payload == client_wrap(b, m.frame.body.key[1], public, rng + 1)
        IN  /\ \A h \in Party : unwrap_dm_epoch_secret(payload, private_key(hybridKey[h]))
                                  = IF k = hybridKey[h] THEN m.frame.body.key[1] ELSE None
            /\ client_wrap(b, m.frame.body.key[1], [public EXCEPT !.len = @ - 1], rng + 1) = None
=============================================================================
