------------------------------ MODULE AnonQueue ------------------------------
(***************************************************************************)
(* anon_queue.rs: queue ids, the aqid: address codec and the deniable      *)
(* authenticator.  A string is a sequence of characters.  Base64url maps   *)
(* byte strings one to one onto the strings it accepts; here a byte of an  *)
(* id is one character of its alphabet.                                    *)
(***************************************************************************)
EXTENDS SymbolicCrypto, SequencesExt

CONSTANTS
    Base64Url,      \* the alphabet, as a sequence
    QUEUE_ID_LEN,   \* length of a queue id
    queue_id        \* the id each OsRng draw stands for

\* Different draws are different ids.
ASSUME QueueAssumption ==
    /\ Base64Url # <<>> /\ QUEUE_ID_LEN \in Nat \ {0}
    /\ \A n \in DOMAIN queue_id : queue_id[n] \in [1 .. QUEUE_ID_LEN -> Range(Base64Url)]
    /\ IsInjective(queue_id)

\* n and n + 1 are fresh draws, so the ids differ and none is drawn again.
new_queue_pair(n) == [recipient_id |-> queue_id[n], sender_id |-> queue_id[n + 1]]

\* Mutant: a relay may contain the character that ends it.
EncodeAnyRelay(relay, sender_id) ==
    IF relay = <<>> \/ Len(sender_id) # QUEUE_ID_LEN
    THEN None
    ELSE [scheme |-> "aqid:", body |-> relay \o <<"/">> \o sender_id]

\* None is AnonQueueError::BadRelay or BadIdLen.
encode_aqid(relay, sender_id) ==
    IF relay = <<>> \/ Contains(relay, "/") \/ Len(sender_id) # QUEUE_ID_LEN
    THEN None
    ELSE [scheme |-> "aqid:", body |-> relay \o <<"/">> \o sender_id]

\* How decode_aqid ends and what it returns.
decode_aqid(s) ==
    LET failed(e) == [end |-> e, relay |-> <<>>, sender_id |-> <<>>]
        slash == SelectInSeq(s.body, LAMBDA c : c = "/")
        relay == SubSeq(s.body, 1, slash - 1)
        b64   == SubSeq(s.body, slash + 1, Len(s.body))
    IN  IF s.scheme # "aqid:" \/ slash = 0 THEN failed("BadAddress")
        ELSE IF relay = <<>> \/ b64 = <<>> THEN failed("BadAddress")
        ELSE IF ~(Range(b64) \subseteq Range(Base64Url)) THEN failed("BadBase64")
        ELSE IF Len(b64) # QUEUE_ID_LEN THEN failed("BadIdLen")
        ELSE [end |-> "Ok", relay |-> relay, sender_id |-> b64]

-----------------------------------------------------------------------------
\* HMAC-SHA256: a tag is as good as its key and its input.
hmac(key, bytes) == [key |-> key, bytes |-> bytes]

\* One HMAC over the nonce and then the message, with no border between them.
auth_tag(secret, message, nonce) == hmac(secret, nonce \o message)

verify_tag(secret, message, nonce, tag) == tag = auth_tag(secret, message, nonce)
=============================================================================
