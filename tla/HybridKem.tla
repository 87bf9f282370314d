------------------------------ MODULE HybridKem ------------------------------
(***************************************************************************)
(* kem.rs: the X25519 + ML-KEM-768 hybrid KEM.  Byte strings keep the two  *)
(* things the code looks at: their length and their X25519 and ML-KEM      *)
(* parts.                                                                  *)
(***************************************************************************)
EXTENDS SymbolicCrypto

PUBLIC_KEY_LEN  == 32 + 1184
PRIVATE_KEY_LEN == 32 + 2400
CIPHERTEXT_LEN  == 32 + 1088

(* Ciphertexts and shared secrets. *)
MlKemCt  == [ek : Nat, r : Nat, intact : BOOLEAN]
HybridCt == [len : Nat, x_eph : Nat, mlkem : MlKemCt]
Shared   == [x25519 : SUBSET Nat, mlkem : [dk : Nat, ct : MlKemCt, rejected : BOOLEAN]]

\* hybrid_keypair, split in its two results; k is the OsRng draw.
public_key(k)  == [len |-> PUBLIC_KEY_LEN,  x |-> k, mlkem |-> k]
private_key(k) == [len |-> PRIVATE_KEY_LEN, x |-> k, mlkem |-> k]

\* Concat-then-KDF, the X25519 secret first.
combine(x25519_ss, mlkem_ss) == [x25519 |-> x25519_ss, mlkem |-> mlkem_ss]

\* r is the randomness drawn for both legs; None is KemError::BadLength.
hybrid_encap(peer_public_key, r) ==
    LET enc == mlkem_encapsulate(peer_public_key.mlkem, r)
    IN  IF peer_public_key.len # PUBLIC_KEY_LEN
        THEN None
        ELSE [ciphertext |-> [len |-> CIPHERTEXT_LEN, x_eph |-> r, mlkem |-> enc.ct],
              shared |-> combine(diffie_hellman(r, peer_public_key.x), enc.ss)]

\* A wrong length is an error; wrong or altered material is only a shared
\* secret that nobody else computes.
hybrid_decap(ciphertext, key) ==
    IF ciphertext.len # CIPHERTEXT_LEN \/ key.len # PRIVATE_KEY_LEN
    THEN None
    ELSE combine(diffie_hellman(key.x, ciphertext.x_eph),
                 mlkem_decapsulate(key.mlkem, ciphertext.mlkem))
=============================================================================
