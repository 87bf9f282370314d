-------------------------------- MODULE PqDm --------------------------------
(***************************************************************************)
(* pqdm.rs: the one-shot hybrid envelope.  Strings are sequences of code   *)
(* points; a sealed blob is the sequence of its ciphertext, nonce and      *)
(* body, each whole or not there.                                          *)
(***************************************************************************)
EXTENDS HybridKem, JsonStrings

HYBRID_SUITE    == <<120, 50, 53, 53, 49, 57, 45, 109, 108, 107, 101, 109, 55, 54, 56>>
CLASSICAL_SUITE == <<120, 50, 53, 53, 49, 57, 45, 112, 103, 112, 45, 119, 114, 97, 112, 45, 118, 49>>

\* serde_json's string literal: quote, backslash and control characters are
\* escaped, all others are written as they are (a code point for its UTF-8).
json_char(c) ==
    IF c \in DOMAIN ShortEscape THEN <<Backslash, ShortEscape[c]>>
    ELSE IF c < 32 THEN push_u_escape(c)
    ELSE <<c>>

json_string(s) == <<Quote>> \o FlattenSeq([i \in DOMAIN s |-> json_char(s[i])]) \o <<Quote>>

\* The values of the object in the order of their keys negotiated_suite,
\* recipient and sender.  The keys and "v":1 are the same in every AAD and
\* left out.
aad_head(suite, recipient, sender) == suite \o <<44>> \o recipient \o <<44>> \o sender

\* Mutant: the suite is not bound.
AadWithoutSuite(negotiated_suite, sender, recipient, extra) ==
    aad_head(<<>>, json_string(recipient), json_string(sender))
        \o (IF extra = None THEN <<>> ELSE extra)

downgrade_lock_aad(negotiated_suite, sender, recipient, extra) ==
    aad_head(json_string(negotiated_suite), json_string(recipient), json_string(sender))
        \o (IF extra = None THEN <<>> ELSE extra)

\* json.dumps of the Python peer, which escapes to ASCII as pqroute.rs does.
python_aad(negotiated_suite, sender, recipient) ==
    aad_head(encode_string_ascii(negotiated_suite), encode_string_ascii(recipient),
             encode_string_ascii(sender))

wrap_key(shared, aad) == [info |-> <<"pqdm/wrap", aad>>, ikm |-> shared]

SEALED_MIN_LEN == 3  \* cells: ciphertext, nonce, body with its tag

\* r is the randomness drawn.  None is a public key of the wrong length.
seal(plaintext, recipient_hybrid_pub, sender, recipient, r) ==
    LET aad == downgrade_lock_aad(HYBRID_SUITE, sender, recipient, None)
        enc == hybrid_encap(recipient_hybrid_pub, r)
    IN  IF recipient_hybrid_pub.len # PUBLIC_KEY_LEN
        THEN None
        ELSE <<[ct |-> enc.ciphertext], [nonce |-> r],
               [box |-> encrypt(wrap_key(enc.shared, aad), r, aad, plaintext)]>>

\* The body under an AAD.  Cells of the wrong kind stand for bytes cut in the
\* wrong place: they open nothing.
open_body(sealed, hybrid_private, aad) ==
    LET shared == hybrid_decap(sealed[1].ct, hybrid_private)
    IN  IF [i \in DOMAIN sealed |-> DOMAIN sealed[i]] # <<{"ct"}, {"nonce"}, {"box"}>>
        THEN None
        ELSE IF shared = None THEN None
        ELSE decrypt(wrap_key(shared, aad), sealed[2].nonce, aad, sealed[3].box)

\* Mutant: sender and recipient change places.
OpenSealedSwapped(sealed, hybrid_private, sender, recipient, expected_suite) ==
    LET msg == open_body(sealed, hybrid_private,
                         downgrade_lock_aad(expected_suite, recipient, sender, None))
    IN  [end |-> IF msg = None THEN "DowngradeDetected" ELSE "Ok", msg |-> msg]

\* How open_sealed ends and what it returns.  Hosts pass the private key that
\* hybrid_keypair gave them, so KemError::BadLength does not occur.
open_sealed(sealed, hybrid_private, sender, recipient, expected_suite) ==
    LET msg == open_body(sealed, hybrid_private,
                         downgrade_lock_aad(expected_suite, sender, recipient, None))
    IN  IF Len(sealed) < SEALED_MIN_LEN
        THEN [end |-> "Format", msg |-> None]
        ELSE [end |-> IF msg = None THEN "DowngradeDetected" ELSE "Ok", msg |-> msg]

negotiate_suite(local_supports_hybrid, recipient_has_hybrid) ==
    IF local_supports_hybrid /\ recipient_has_hybrid THEN HYBRID_SUITE ELSE CLASSICAL_SUITE
=============================================================================
