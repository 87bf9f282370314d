------------------------------- MODULE Report -------------------------------
(***************************************************************************)
(* report.rs: the self-report.  Of the wording of a note its verdict and   *)
(* the KEM it says is in use are kept, with the ratchet level or epoch it  *)
(* names and the texts of others it quotes (the peer's name, a suite id).  *)
(* The fixed wording contains no forbidden word; whether a quoted text     *)
(* does is a parameter.                                                    *)
(***************************************************************************)
EXTENDS Suites

CONSTANT ForbiddenTexts   \* names and ids that contain one of FORBIDDEN_WORDS

DEFAULT_CONVERSATION_SUITE == "x25519-pgp-wrap-v1"
HYBRID_KEM_SUITE           == "x25519-mlkem768"

RatchetLevel     == {"L2Oneshot", "L3Epoch"}
ConversationKind == {"Dm", "Envelope"}

level_str == [L2Oneshot |-> "L2-oneshot", L3Epoch |-> "L3-epoch"]

\* RatchetLevel::from_wire: an unknown string is the lower level.
level_from_wire(s) == IF s = "L3-epoch" THEN "L3Epoch" ELSE "L2Oneshot"

-----------------------------------------------------------------------------
(* Surfaces *)

\* Mutant: only the peer's name is screened.
HonestNoteByName(note) == note.quotes \cap (ForbiddenTexts \ Range(IdOrder)) = {}

is_honest_note(note) == note.quotes \cap ForbiddenTexts = {}

\* SurfaceReport::assert_honest, which panics where this is false.
assert_honest(surface) ==
    /\ is_honest_note(surface.note)
    /\ surface.status = "classical" => ~surface.quantum_resistant

resolve_suite(id) ==
    IF known(global, id)
    THEN LET suite == get_suite(global, id)
         IN  [status |-> suite.status, fips_refs |-> suite.fips_refs,
              quantum_resistant |-> suite_is_quantum_resistant(suite)]
    ELSE [status |-> "Classical", fips_refs |-> <<>>, quantum_resistant |-> FALSE]

\* The caller panics unless assert_honest holds of the result.
surface_from(surface, component, id, note) ==
    LET r == resolve_suite(id)
    IN  [surface           |-> surface,
         component         |-> component,
         active_suite      |-> id,
         status            |-> status_str[r.status],
         quantum_resistant |-> r.quantum_resistant,
         fips_refs         |-> r.fips_refs,
         note              |-> note]

who(peer) == IF peer = "" THEN {} ELSE {peer}

\* Mutant: a conversation without a negotiated suite is taken for a hybrid one.
AssumedHybrid(negotiated_suite) ==
    IF negotiated_suite = "" THEN HYBRID_KEM_SUITE ELSE negotiated_suite

conversation_suite(negotiated_suite) ==
    IF negotiated_suite = "" THEN DEFAULT_CONVERSATION_SUITE ELSE negotiated_suite

\* A ratchet over a classical KEM is exposed at both levels; on any other suite
\* the note speaks of the hybrid KEM.
dm_note(id, ratchet_level, epoch, peer) ==
    IF ~resolve_suite(id).quantum_resistant
    THEN [verdict |-> "HNDL-exposed", kem |-> "classical",
          names |-> <<level_str[ratchet_level]>>, quotes |-> who(peer) \cup {id}]
    ELSE IF ratchet_level = "L3Epoch"
    THEN [verdict |-> "FS + PCS", kem |-> "hybrid",
          names |-> <<"epoch", epoch>>, quotes |-> who(peer)]
    ELSE [verdict |-> "one-shot", kem |-> "hybrid", names |-> <<>>, quotes |-> who(peer)]

dm_ratchet_surface_for(negotiated_suite, ratchet_level, epoch, peer) ==
    LET id == conversation_suite(negotiated_suite)
    IN  surface_from("dm", "DmRatchet", id, dm_note(id, ratchet_level, epoch, peer))

surface_of == [Dm |-> <<"dm", "ChatCrypto">>, Envelope |-> <<"envelope-payload", "EnvelopeCrypto">>]

conversation_surface_for(negotiated_suite, kind, peer) ==
    LET id   == conversation_suite(negotiated_suite)
        qr   == resolve_suite(id).quantum_resistant
        note == [verdict |-> IF qr THEN "HNDL-resistant" ELSE "HNDL-exposed",
                 kem     |-> IF qr THEN "hybrid" ELSE "classical",
                 names   |-> <<>>,
                 quotes  |-> who(peer)]
    IN  surface_from(surface_of[kind][1], surface_of[kind][2], id, note)

-----------------------------------------------------------------------------
(* The report *)

CLAIM_ALL       == "All owned surfaces are quantum-resistant"
CLAIM_NOT       == "NOT quantum-resistant end-to-end"
CLAIM_SYMMETRIC == "Only symmetric surfaces present"

count(surfaces, Is(_)) == Cardinality({i \in DOMAIN surfaces : Is(surfaces[i])})

\* Mutant: no surfaces are as good as all surfaces.
HonestClaimVacuous(surfaces) ==
    IF count(surfaces, LAMBDA s : s.quantum_resistant) = Len(surfaces) THEN CLAIM_ALL
    ELSE CLAIM_NOT

honest_claim(surfaces) ==
    IF Len(surfaces) > 0 /\ count(surfaces, LAMBDA s : s.quantum_resistant) = Len(surfaces)
    THEN CLAIM_ALL
    ELSE IF \E i \in DOMAIN surfaces : surfaces[i].status = "classical" THEN CLAIM_NOT
    ELSE CLAIM_SYMMETRIC

\* Report::from_surfaces, which checks every surface again and takes them over.
from_surfaces(surfaces) ==
    [surfaces     |-> surfaces,
     summary      |-> [total_surfaces    |-> Len(surfaces),
                       quantum_resistant |-> count(surfaces, LAMBDA s : s.quantum_resistant),
                       classical         |-> count(surfaces, LAMBDA s : s.status = "classical"),
                       symmetric         |-> count(surfaces, LAMBDA s : s.status = "symmetric")],
     honest_claim |-> honest_claim(surfaces)]
=============================================================================
