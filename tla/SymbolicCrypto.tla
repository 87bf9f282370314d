--------------------------- MODULE SymbolicCrypto ---------------------------
(***************************************************************************)
(* The primitives the crate takes from other crates, as perfect symbolic   *)
(* primitives: aes-gcm (AES-256-GCM), x25519-dalek and ml-kem.  Every call *)
(* of OsRng returns a value never returned before; the draws are numbered, *)
(* and a draw's number stands for the bytes drawn (an epoch secret, a      *)
(* nonce, a key pair, an encapsulation's randomness).                      *)
(***************************************************************************)
EXTENDS Integers

\* Rust's Option::None and, where a caller only tells Ok from Err, Err(_).
CONSTANT None

ASSUME NoneAssumption == None \notin Int

-----------------------------------------------------------------------------
(* AES-256-GCM: ciphertext and tag as one box that opens only under the    *)
(* key, nonce and associated data it was made with, and only undamaged.    *)

encrypt(key, nonce, aad, msg) ==
    [key |-> key, nonce |-> nonce, aad |-> aad, msg |-> msg, intact |-> TRUE]

decrypt(key, nonce, aad, box) ==
    IF box.intact /\ box.key = key /\ box.nonce = nonce /\ box.aad = aad
    THEN box.msg
    ELSE None

-----------------------------------------------------------------------------
(* X25519: the agreement of two key pairs does not depend on the side that *)
(* computes it.                                                            *)

diffie_hellman(mine, theirs) == {mine, theirs}

(* ML-KEM-768.  Decapsulation never fails: a ciphertext made for another   *)
(* key, or altered on the way, yields the implicit-rejection secret.       *)

mlkem_encapsulate(ek, r) ==
    LET ct == [ek |-> ek, r |-> r, intact |-> TRUE]
    IN  [ct |-> ct, ss |-> [dk |-> ek, ct |-> ct, rejected |-> FALSE]]

mlkem_decapsulate(dk, ct) ==
    [dk |-> dk, ct |-> ct, rejected |-> ct.ek # dk \/ ~ct.intact]
=============================================================================
