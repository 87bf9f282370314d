----------------------------- MODULE SelfReport -----------------------------
(***************************************************************************)
(* A host that reports on its conversation.  Suites are negotiated and     *)
(* lost again, labels are read from the wire, the ratchet level changes;   *)
(* the host builds surfaces as it goes and puts them together in a report  *)
(* later, when the conversation may have moved on.  It also keeps a        *)
(* registry of its own.  When it does which is up to the host, which is    *)
(* outside the repository.                                                 *)
(***************************************************************************)
EXTENDS Report

CONSTANTS
    PeerNames,     \* what the host may pass as the peer, "" to omit it
    WireIds,       \* suite ids read from a peer that nobody negotiated
    WireLevels,    \* ratchet levels read from the wire
    Registrable,   \* suites the host may add to its own registry
    MaxEpoch,      \* bound: ratchet epochs
    MaxSurfaces,   \* bound: surfaces of a report
    MaxReports     \* bound: reports

ASSUME ReportBoundAssumption == MaxEpoch \in Nat /\ MaxSurfaces \in Nat /\ MaxReports \in Nat
\* The id of the fallback suite contains none of FORBIDDEN_WORDS.
ASSUME FallbackAssumption == DEFAULT_CONVERSATION_SUITE \notin ForbiddenTexts
ASSUME RegistrableAssumption == \A suite \in Registrable :
    suite.suite_id \in Range(IdOrder) /\ suite.status \in SuiteStatus /\ suite.active \in BOOLEAN

VARIABLES
    conversation,  \* its suite, ratchet level and epoch, and what the suite rests on
    surfaces,      \* surfaces built for the next report, each with what the
                   \* suite rested on when it was built
    issued,        \* the reports so far, each with the same for its lines
    panicked,      \* history: the suite and peer of the last build, if it panicked
    registry       \* a Registry of the host's own

vars == <<conversation, surfaces, issued, panicked, registry>>

SuiteId == WireIds \cup {"", HYBRID_KEM_SUITE, DEFAULT_CONVERSATION_SUITE}

Surface == [surface : {"dm", "envelope-payload"},
            component : {"DmRatchet", "ChatCrypto", "EnvelopeCrypto"},
            active_suite : SuiteId, status : Range(status_str), quantum_resistant : BOOLEAN]

\* What the suite of a conversation rests on: both sides offered the hybrid one,
\* or one of them did not (or nothing was negotiated yet), or a peer's label.
Basis == {"offered", "unoffered", "label"}

Conversation == [suite : SuiteId, basis : Basis, level : RatchetLevel, epoch : 0 .. MaxEpoch]

IsSurface(s) ==
    [f \in {"surface", "component", "active_suite", "status", "quantum_resistant"} |-> s[f]]
        \in Surface

IsRegistry(r) ==
    /\ r = [id \in DOMAIN r |-> r[id]]
    /\ DOMAIN r \subseteq Range(IdOrder)
    /\ \A id \in DOMAIN r :
         r[id].suite_id = id /\ r[id].status \in SuiteStatus /\ r[id].active \in BOOLEAN

\* A conversation, surfaces and reports with the fields the code gives them.
TypeOK ==
    /\ conversation \in Conversation
    /\ \A i \in DOMAIN surfaces : IsSurface(surfaces[i].surface)
    /\ \A n \in DOMAIN issued :
         issued[n].report.honest_claim \in {CLAIM_ALL, CLAIM_NOT, CLAIM_SYMMETRIC}
    /\ panicked \subseteq [suite : SuiteId, peer : PeerNames]
    /\ IsRegistry(registry)

-----------------------------------------------------------------------------
\* pqdm::negotiate_suite, which gives the suite of a conversation.
negotiate_suite(local_supports_hybrid, recipient_has_hybrid) ==
    IF local_supports_hybrid /\ recipient_has_hybrid
    THEN HYBRID_KEM_SUITE
    ELSE DEFAULT_CONVERSATION_SUITE

\* Nothing is negotiated yet.
Init ==
    /\ conversation = [suite |-> "", basis |-> "unoffered", level |-> "L2Oneshot", epoch |-> 0]
    /\ surfaces = <<>>
    /\ issued = <<>>
    /\ panicked = {}
    /\ registry \in {empty, seeded}

\* The sides settle on a suite; a peer's hybrid prekey may be missing, or be
\* lost on the way.
Negotiate(local, peers) ==
    /\ conversation' = [conversation EXCEPT
           !.suite = negotiate_suite(local, peers),
           !.basis = IF local /\ peers THEN "offered" ELSE "unoffered"]
    /\ UNCHANGED <<surfaces, issued, panicked, registry>>

\* The host goes by the label a peer sends, which nothing in report.rs verifies.
Label(id) ==
    /\ conversation' = [conversation EXCEPT !.suite = id, !.basis = "label"]
    /\ UNCHANGED <<surfaces, issued, panicked, registry>>

\* The next epoch, at the level the peer names.
Ratchet(level) ==
    /\ conversation.epoch < MaxEpoch
    /\ conversation' = [conversation EXCEPT !.level = level_from_wire(level), !.epoch = @ + 1]
    /\ UNCHANGED <<surfaces, issued, panicked, registry>>

\* A builder returns the surface, or panics in assert_honest; a panic unwinds
\* out of the host's report and takes the surfaces collected so far with it.
Build(surface, peer) ==
    /\ Len(surfaces) < MaxSurfaces
    /\ Len(issued) < MaxReports
    /\ IF assert_honest(surface)
       THEN /\ surfaces' = Append(surfaces, [surface |-> surface, basis |-> conversation.basis])
            /\ panicked' = {}
       ELSE /\ panicked' = {[suite |-> conversation.suite, peer |-> peer]}
            /\ surfaces' = <<>>
    /\ UNCHANGED <<conversation, issued, registry>>

BuildDm(peer) ==
    Build(dm_ratchet_surface_for(conversation.suite, conversation.level, conversation.epoch, peer), peer)

BuildConversation(kind, peer) ==
    Build(conversation_surface_for(conversation.suite, kind, peer), peer)

\* Report::from_surfaces takes the surfaces over.
Issue ==
    LET built == [i \in DOMAIN surfaces |-> surfaces[i].surface]
    IN  /\ Len(issued) < MaxReports
        /\ \A i \in DOMAIN built : assert_honest(built[i])
        /\ issued' = Append(issued, [report |-> from_surfaces(built),
                                     basis  |-> [i \in DOMAIN surfaces |-> surfaces[i].basis]])
        /\ surfaces' = <<>>
        /\ panicked' = {}
        /\ UNCHANGED <<conversation, registry>>

Register(suite) ==
    /\ registry' = register(registry, suite)
    /\ UNCHANGED <<conversation, surfaces, issued, panicked>>

Next ==
    \/ \E local, peers \in BOOLEAN : Negotiate(local, peers)
    \/ \E id \in WireIds : Label(id)
    \/ \E level \in WireLevels : Ratchet(level)
    \/ \E peer \in PeerNames :
         \/ BuildDm(peer)
         \/ \E kind \in ConversationKind : BuildConversation(kind, peer)
    \/ Issue
    \/ \E suite \in Registrable : Register(suite)

Spec == Init /\ [][Next]_vars

-----------------------------------------------------------------------------
(* Properties *)

\* A line reads hybrid, in status and in note.
ReadsHybrid(s) == s.status = "hybrid-pq" /\ s.quantum_resistant /\ s.note.kem = "hybrid"

\* A line reads classical, in status and in note.
ReadsClassical(s) == s.status = "classical" /\ ~s.quantum_resistant /\ s.note.kem = "classical"

\* What a line may say of a suite that rests on basis: a negotiated suite is
\* reported as negotiated, an id nobody registered is never resistant, and no
\* line has the status of the hybrid suite without naming it.
LineFits(s, basis) ==
    /\ basis = "offered" => ReadsHybrid(s)
    /\ basis = "unoffered" => ReadsClassical(s)
    /\ s.quantum_resistant => known(global, s.active_suite)
    /\ s.status = "hybrid-pq" => s.active_suite = HYBRID_KEM_SUITE

\* report.rs: "a hybrid conversation reports x25519-mlkem768 [hybrid-pq] while
\* a classical (downgraded / classical-only-peer) conversation still reports
\* classical".  Where negotiate_suite gave the suite, or nobody did, a line
\* reads hybrid exactly when both sides had offered it at the time, whatever
\* labels, levels and negotiations came before it, came between it and the
\* report, or came after; and a report with a downgraded line says NOT.  A
\* line that rests on a label is held to the registry and to the name it
\* carries; that its note is right is not claimed (DowngradeReadsClassical).
SilentDowngradeShows ==
    /\ \A i \in DOMAIN surfaces : LineFits(surfaces[i].surface, surfaces[i].basis)
    /\ \A n \in DOMAIN issued :
         LET lines == issued[n].report.surfaces
             basis == issued[n].basis
         IN  /\ \A i \in DOMAIN lines : LineFits(lines[i], basis[i])
             /\ (\E i \in DOMAIN lines : basis[i] = "unoffered")
                  => issued[n].report.honest_claim = CLAIM_NOT

\* What the claim says of the lines of every report: "all" only where there are
\* lines, none of which a reader of the status strings takes for classical;
\* "not" exactly where there is such a line; "only symmetric" only where no
\* line is anything else; and the counts of the summary add up to the lines.
\* Which claim symmetric lines alone should get is SymmetricOnlyClaimed.
ClaimIsExact ==
    \A n \in DOMAIN issued :
        LET lines     == issued[n].report.surfaces
            claim     == issued[n].report.honest_claim
            classical == {i \in DOMAIN lines : status_from_wire(lines[i].status) = "Classical"}
            summary   == issued[n].report.summary
        IN  /\ claim = CLAIM_ALL => lines # <<>> /\ classical = {}
            /\ claim = CLAIM_NOT <=> classical # {}
            /\ claim = CLAIM_SYMMETRIC => \A i \in DOMAIN lines : lines[i].status = "symmetric"
            /\ summary.quantum_resistant + summary.classical = summary.total_surfaces
            /\ summary.symmetric <= summary.quantum_resistant

\* No note carries a forbidden word, whatever names and suite ids the peers
\* choose.
NoForbiddenWords ==
    /\ \A i \in DOMAIN surfaces : surfaces[i].surface.note.quotes \cap ForbiddenTexts = {}
    /\ \A n \in DOMAIN issued : \A i \in DOMAIN issued[n].report.surfaces :
         issued[n].report.surfaces[i].note.quotes \cap ForbiddenTexts = {}

\* "The builders already guarantee both invariants": of the two assertions the
\* one about classical suites never fails; a builder panics only over a word
\* in a text that came from outside.
PanicsOverQuotesOnly ==
    \A call \in panicked : {call.suite, call.peer} \cap ForbiddenTexts # {}

\* The rows of a registry's listing, as a reader of the wire strings sees them,
\* give the verdict that the registry gives on the id, active suites first,
\* after any sequence of registrations that replace one another.
ListingAgrees ==
    LET rows == [i \in DOMAIN all_suites(registry) |-> to_dict(all_suites(registry)[i])]
    IN  /\ \A i \in DOMAIN rows :
             /\ status_is_quantum_resistant(status_from_wire(rows[i].status))
                  = is_quantum_resistant(registry, rows[i].suite_id)
             /\ rows[i].quantum_resistant = is_quantum_resistant(registry, rows[i].suite_id)
             /\ status_from_wire(rows[i].status) = suite_status(registry, rows[i].suite_id)
        /\ {rows[i].suite_id : i \in DOMAIN rows} = DOMAIN registry
        /\ active_suites(registry) = SubSeq(all_suites(registry), 1, Len(active_suites(registry)))

-----------------------------------------------------------------------------
(* What comments of report.rs say and the code does not do: TLC refutes both, *)
(* as README.md describes in section 5.                                       *)

\* conversation_surface_for: "a silent-downgrade attempt shows up here as a
\* classical line, never a hybrid one".  Without the offers of both sides a
\* line reads classical, unless a label names the hybrid suite itself.  The
\* builders call every resistant suite hybrid, so that the label of a cipher
\* makes a conversation read as if it had negotiated the hybrid KEM.
DowngradeReadsClassical ==
    \A i \in DOMAIN surfaces :
        LET s == surfaces[i].surface
        IN  surfaces[i].basis = "offered" \/ s.active_suite = HYBRID_KEM_SUITE \/ ReadsClassical(s)

\* honest_claim: "else (only symmetric) -> the symmetric-only claim".  A report
\* all of whose lines are symmetric makes that claim.  The code counts such
\* lines as resistant and makes the first claim.
SymmetricOnlyClaimed ==
    \A n \in DOMAIN issued :
        LET lines == issued[n].report.surfaces
        IN  lines # <<>> /\ (\A i \in DOMAIN lines : lines[i].status = "symmetric")
              => issued[n].report.honest_claim = CLAIM_SYMMETRIC
=============================================================================
