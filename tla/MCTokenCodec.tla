---------------------------- MODULE MCTokenCodec ----------------------------
(* Small frames: two slots, fields of no or one byte, the KAM absent, empty *)
(* or present.                                                              *)
EXTENDS TokenCodec

MCu64 == [n \in 0 .. 3 |-> <<n>>]
MCu32 == [n \in 0 .. 15 |-> <<n \div 4, n % 4>>]

MCBytes == {<<>>} \cup {<<b>> : b \in 0 .. 1}

MCFrames == [epoch : 0 .. 1, index : {1}, nonce : MCBytes, body : MCBytes, kam : MCBytes \cup {None}]

\* The proofs' hypotheses about sizes hold of these frames.
ASSUME FramesFit /\ WideUsize
=============================================================================
