---------------------------- MODULE MCSelfReport ----------------------------
(* TLC instance of SelfReport: suite ids known and unknown, one of them and *)
(* one peer with a forbidden word in the name, and registrations that       *)
(* replace one another.  Labels may name the hybrid suite too.              *)
EXTENDS SelfReport

MCIdOrder == <<"", "acme-9000", "aes256-gcm-v1", "mlkem1024", "unbreakable-v2", "x25519-mlkem768",
               "x25519-pgp-wrap-v1">>

MCForbiddenTexts == {"unbreakable-v2", "unbreakable-bob"}
MCPeerNames      == {"", "alice", "unbreakable-bob"}
MCWireIds        == {"", "acme-9000", "aes256-gcm-v1", "unbreakable-v2", HYBRID_KEM_SUITE}
MCWireLevels     == {"L2-oneshot", "L3-epoch", "L4-unheard-of"}

MCRegistrable ==
    {CryptoSuite("mlkem1024", "Kem", "Pq", <<"FIPS 203">>, TRUE), [PgpWrap EXCEPT !.active = FALSE]}
=============================================================================
