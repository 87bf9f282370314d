-------------------------- MODULE SelfReportProofs --------------------------
(***************************************************************************)
(* SelfReport for any peers, labels from the wire, levels and bounds: what *)
(* a line of a report can say, and the properties of reports that follow.  *)
(***************************************************************************)
EXTENDS SelfReport, OrderingLemmas, SequenceTheorems

-----------------------------------------------------------------------------
(* The invariant *)

\* Status, flag and note of a line agree, and fit what its suite rests on.
Truthful(s, basis) ==
    /\ s.status \in {"classical", "hybrid-pq", "symmetric"}
    /\ s.quantum_resistant = (s.status # "classical")
    /\ s.note.kem = IF s.status = "classical" THEN "classical" ELSE "hybrid"
    /\ basis = "offered" => s.status = "hybrid-pq"
    /\ basis = "unoffered" => s.status = "classical"
    /\ s.status # "classical" => known(global, s.active_suite)
    /\ s.status = "hybrid-pq" => s.active_suite = HYBRID_KEM_SUITE

\* A line was screened before the host had it.
Line(s, basis) == Truthful(s, basis) /\ s.note.quotes \cap ForbiddenTexts = {}

\* Both offers make a conversation hybrid; without them, and without a label,
\* it is on the fallback suite or has none yet.
Settled(suite, basis) ==
    /\ basis = "offered" => suite = HYBRID_KEM_SUITE
    /\ basis = "unoffered" => suite \in {"", DEFAULT_CONVERSATION_SUITE}

BasisFits == Settled(conversation.suite, conversation.basis)

LinesBuilt ==
    /\ surfaces \in Seq(Range(surfaces))
    /\ \A i \in DOMAIN surfaces : Line(surfaces[i].surface, surfaces[i].basis)

\* A report is made of lines as they were built.
Reported(entry) ==
    LET lines == entry.report.surfaces
    IN  /\ lines \in Seq(Range(lines))
        /\ \A i \in DOMAIN lines : Line(lines[i], entry.basis[i])
        /\ entry.report = from_surfaces(lines)

ReportsMade ==
    /\ issued \in Seq(Range(issued))
    /\ \A n \in DOMAIN issued : Reported(issued[n])

SelfInv ==
    /\ TypeOK
    /\ BasisFits
    /\ LinesBuilt
    /\ ReportsMade
    /\ PanicsOverQuotesOnly

-----------------------------------------------------------------------------
(* What the global registry says of an id *)

\* Three suites are seeded; of them one is classical.
LEMMA GlobalSuites ==
    /\ DOMAIN global = {"x25519-pgp-wrap-v1", "aes256-gcm-v1", "x25519-mlkem768"}
    /\ global["x25519-pgp-wrap-v1"].status = "Classical"
    /\ global["aes256-gcm-v1"].status = "Symmetric"
    /\ global["x25519-mlkem768"].status = "HybridPq"
    /\ \A id \in DOMAIN global : global[id].suite_id = id /\ global[id].active \in BOOLEAN
<1>. DEFINE r1 == register(empty, PgpWrap)
            r2 == register(r1, AesGcm)
            r3 == register(r2, MlKem)
<1>1. /\ PgpWrap.suite_id = "x25519-pgp-wrap-v1" /\ PgpWrap.status = "Classical"
      /\ AesGcm.suite_id = "aes256-gcm-v1" /\ AesGcm.status = "Symmetric"
      /\ MlKem.suite_id = "x25519-mlkem768" /\ MlKem.status = "HybridPq"
      /\ PgpWrap.active /\ AesGcm.active /\ MlKem.active
  BY DEF PgpWrap, AesGcm, MlKem, CryptoSuite, replacing
<1>2. DOMAIN empty = {}
  BY DEF empty
<1>3. DOMAIN r1 = {"x25519-pgp-wrap-v1"} /\ r1["x25519-pgp-wrap-v1"] = PgpWrap
  <2>1. /\ DOMAIN r1 = DOMAIN empty \cup {PgpWrap.suite_id}
        /\ r1[PgpWrap.suite_id] = PgpWrap
    BY DEF register
  <2>. HIDE DEF r1
  <2>. QED
    BY <1>1, <1>2, <2>1
<1>. HIDE DEF r1
<1>4. /\ DOMAIN r2 = {"x25519-pgp-wrap-v1", "aes256-gcm-v1"}
      /\ r2["x25519-pgp-wrap-v1"] = PgpWrap /\ r2["aes256-gcm-v1"] = AesGcm
  <2>1. /\ DOMAIN r2 = DOMAIN r1 \cup {AesGcm.suite_id}
        /\ r2[AesGcm.suite_id] = AesGcm
        /\ \A id \in DOMAIN r1 : id # AesGcm.suite_id => r2[id] = r1[id]
    BY DEF register
  <2>. HIDE DEF r2
  <2>2. DOMAIN r2 = {"x25519-pgp-wrap-v1", "aes256-gcm-v1"}
    BY <1>1, <1>3, <2>1
  <2>3. "x25519-pgp-wrap-v1" \in DOMAIN r1 /\ "x25519-pgp-wrap-v1" # AesGcm.suite_id
    BY <1>1, <1>3
  <2>4. r2["x25519-pgp-wrap-v1"] = PgpWrap
    BY <1>3, <2>1, <2>3, Zenon
  <2>5. r2["aes256-gcm-v1"] = AesGcm
    BY <1>1, <2>1, Zenon
  <2>. QED
    BY <2>2, <2>4, <2>5
<1>. HIDE DEF r2
<1>5. /\ DOMAIN r3 = {"x25519-pgp-wrap-v1", "aes256-gcm-v1", "x25519-mlkem768"}
      /\ r3["x25519-pgp-wrap-v1"] = PgpWrap /\ r3["aes256-gcm-v1"] = AesGcm
      /\ r3["x25519-mlkem768"] = MlKem
  <2>1. /\ DOMAIN r3 = DOMAIN r2 \cup {MlKem.suite_id}
        /\ r3[MlKem.suite_id] = MlKem
        /\ \A id \in DOMAIN r2 : id # MlKem.suite_id => r3[id] = r2[id]
    BY DEF register
  <2>. HIDE DEF r3
  <2>2. DOMAIN r3 = {"x25519-pgp-wrap-v1", "aes256-gcm-v1", "x25519-mlkem768"}
    BY <1>1, <1>4, <2>1
  <2>3. \A id \in DOMAIN r2 : id # MlKem.suite_id
    BY <1>1, <1>4
  <2>4. \A id \in DOMAIN r2 : r3[id] = r2[id]
    BY <2>1, <2>3, Zenon
  <2>5. r3["x25519-mlkem768"] = MlKem
    BY <1>1, <2>1, Zenon
  <2>. QED
    BY <1>4, <2>2, <2>4, <2>5
<1>6. global = r3
  BY DEF global, seeded, r1, r2
<1>. QED
  BY <1>1, <1>5, <1>6

\* The fallback suite resolves to classical, the hybrid one to hybrid, and an
\* unknown id to classical.
LEMMA Resolved ==
    ASSUME NEW id
    PROVE  LET r == resolve_suite(id)
           IN  /\ r.status \in {"Classical", "Symmetric", "HybridPq"}
               /\ r.quantum_resistant = (r.status # "Classical")
               /\ id = HYBRID_KEM_SUITE <=> r.status = "HybridPq"
               /\ id = DEFAULT_CONVERSATION_SUITE => r.status = "Classical"
               /\ r.status # "Classical" => known(global, id)
<1>1. CASE id \in DOMAIN global
  <2>1. /\ resolve_suite(id).status = global[id].status
        /\ resolve_suite(id).quantum_resistant = (global[id].status \in {"HybridPq", "Pq", "Symmetric"})
    BY <1>1 DEF resolve_suite, known, get_suite, suite_is_quantum_resistant,
                status_is_quantum_resistant
  <2>2. \/ id = "x25519-pgp-wrap-v1" /\ global[id].status = "Classical"
        \/ id = "aes256-gcm-v1" /\ global[id].status = "Symmetric"
        \/ id = "x25519-mlkem768" /\ global[id].status = "HybridPq"
    BY <1>1, GlobalSuites
  <2>. QED
    BY <1>1, <2>1, <2>2 DEF HYBRID_KEM_SUITE, DEFAULT_CONVERSATION_SUITE, known
<1>2. CASE id \notin DOMAIN global
  BY <1>2, GlobalSuites DEF resolve_suite, known, HYBRID_KEM_SUITE
<1>. QED
  BY <1>1, <1>2

-----------------------------------------------------------------------------
(* What the builders return *)

\* A surface of suite id for a peer, whatever the builder.
Surfaced(s, id, peer) ==
    /\ s.surface \in {"dm", "envelope-payload"}
    /\ s.component \in {"DmRatchet", "ChatCrypto", "EnvelopeCrypto"}
    /\ s.active_suite = id
    /\ s.note.quotes \subseteq who(peer) \cup {id}

LEMMA DmSurface ==
    ASSUME NEW suite, NEW level, NEW epoch, NEW peer, NEW basis \in Basis,
           Settled(suite, basis)
    PROVE  LET s == dm_ratchet_surface_for(suite, level, epoch, peer)
           IN  /\ Truthful(s, basis)
               /\ Surfaced(s, conversation_suite(suite), peer)
<1>. DEFINE id == conversation_suite(suite)
            r == resolve_suite(id)
            note == dm_note(id, level, epoch, peer)
            s == dm_ratchet_surface_for(suite, level, epoch, peer)
<1>1. /\ s.surface = "dm" /\ s.component = "DmRatchet" /\ s.active_suite = id
      /\ s.status = status_str[r.status] /\ s.quantum_resistant = r.quantum_resistant
      /\ s.note = note
  BY DEF dm_ratchet_surface_for, surface_from
<1>2. /\ r.status \in {"Classical", "Symmetric", "HybridPq"}
      /\ r.quantum_resistant = (r.status # "Classical")
      /\ id = HYBRID_KEM_SUITE <=> r.status = "HybridPq"
      /\ id = DEFAULT_CONVERSATION_SUITE => r.status = "Classical"
      /\ r.status # "Classical" => known(global, id)
  BY Resolved
<1>3. /\ basis = "offered" => id = HYBRID_KEM_SUITE
      /\ basis = "unoffered" => id = DEFAULT_CONVERSATION_SUITE
  BY DEF Settled, conversation_suite, HYBRID_KEM_SUITE, DEFAULT_CONVERSATION_SUITE
<1>4. /\ note.kem = IF r.quantum_resistant THEN "hybrid" ELSE "classical"
      /\ note.quotes \subseteq who(peer) \cup {id}
  BY DEF dm_note
<1>. HIDE DEF s, r, note, id
<1>5. /\ s.status \in {"classical", "hybrid-pq", "symmetric"}
      /\ s.status = "classical" <=> r.status = "Classical"
      /\ s.status = "hybrid-pq" <=> r.status = "HybridPq"
  BY <1>1, <1>2 DEF status_str
<1>6. Truthful(s, basis)
  BY <1>1, <1>2, <1>3, <1>4, <1>5 DEF Truthful
<1>7. Surfaced(s, id, peer)
  BY <1>1, <1>4 DEF Surfaced
<1>. QED
  BY <1>6, <1>7 DEF s, id

LEMMA ConversationSurface ==
    ASSUME NEW suite, NEW kind \in ConversationKind, NEW peer, NEW basis \in Basis,
           Settled(suite, basis)
    PROVE  LET s == conversation_surface_for(suite, kind, peer)
           IN  /\ Truthful(s, basis)
               /\ Surfaced(s, conversation_suite(suite), peer)
<1>. DEFINE id == conversation_suite(suite)
            r == resolve_suite(id)
            s == conversation_surface_for(suite, kind, peer)
<1>1. /\ s.surface = surface_of[kind][1] /\ s.component = surface_of[kind][2]
      /\ s.active_suite = id
      /\ s.status = status_str[r.status] /\ s.quantum_resistant = r.quantum_resistant
      /\ s.note.kem = IF r.quantum_resistant THEN "hybrid" ELSE "classical"
      /\ s.note.quotes = who(peer)
  BY DEF conversation_surface_for, surface_from
<1>2. /\ r.status \in {"Classical", "Symmetric", "HybridPq"}
      /\ r.quantum_resistant = (r.status # "Classical")
      /\ id = HYBRID_KEM_SUITE <=> r.status = "HybridPq"
      /\ id = DEFAULT_CONVERSATION_SUITE => r.status = "Classical"
      /\ r.status # "Classical" => known(global, id)
  BY Resolved
<1>3. /\ basis = "offered" => id = HYBRID_KEM_SUITE
      /\ basis = "unoffered" => id = DEFAULT_CONVERSATION_SUITE
  BY DEF Settled, conversation_suite, HYBRID_KEM_SUITE, DEFAULT_CONVERSATION_SUITE
<1>. HIDE DEF s, r, id
<1>4. /\ s.surface \in {"dm", "envelope-payload"}
      /\ s.component \in {"DmRatchet", "ChatCrypto", "EnvelopeCrypto"}
  BY <1>1 DEF surface_of, ConversationKind
<1>5. /\ s.status \in {"classical", "hybrid-pq", "symmetric"}
      /\ s.status = "classical" <=> r.status = "Classical"
      /\ s.status = "hybrid-pq" <=> r.status = "HybridPq"
  BY <1>1, <1>2 DEF status_str
<1>6. Truthful(s, basis)
  BY <1>1, <1>2, <1>3, <1>5 DEF Truthful
<1>7. Surfaced(s, id, peer)
  BY <1>1, <1>4 DEF Surfaced
<1>. QED
  BY <1>6, <1>7 DEF s, id

-----------------------------------------------------------------------------
(* The invariant is kept *)

\* A function on 1 .. n is a sequence.
LEMMA IsSeq ==
    ASSUME NEW T, NEW n \in Nat, NEW q \in [1 .. n -> T]
    PROVE  q \in Seq(T) /\ Len(q) = n
<1>1. q \in UNION {[1 .. i -> T] : i \in Nat}
  OBVIOUS
<1>2. Seq(T) = UNION {[1 .. i -> T] : i \in Nat}
  BY SeqDef
<1>3. q \in Seq(T)
  BY <1>1, <1>2
<1>4. Len(q) \in Nat /\ DOMAIN q = 1 .. Len(q)
  BY <1>3, LenProperties
<1>. QED
  BY <1>3, <1>4

LEMMA EmptyDomain == DOMAIN <<>> = {}
<1>1. \A T : <<>> \in Seq(T) /\ Len(<<>>) = 0
  BY EmptySeq
<1>2. DOMAIN <<>> = 1 .. 0
  BY <1>1, LenProperties
<1>3. 1 .. 0 = {}
  OBVIOUS
<1>. QED
  BY <1>2, <1>3, Zenon

LEMMA AppendedTo ==
    ASSUME NEW q, q \in Seq(Range(q)), NEW x
    PROVE  /\ Append(q, x) \in Seq(Range(Append(q, x)))
           /\ DOMAIN Append(q, x) = 1 .. Len(q) + 1
           /\ DOMAIN q = 1 .. Len(q) /\ Len(q) \in Nat
           /\ Append(q, x)[Len(q) + 1] = x
           /\ \A i \in DOMAIN q : Append(q, x)[i] = q[i]
<1>. DEFINE T == Range(q) \cup {x}
<1>1. q \in Seq(T) /\ x \in T
  <2>1. Len(q) \in Nat /\ q \in [1 .. Len(q) -> Range(q)]
    BY LenProperties
  <2>2. q \in [1 .. Len(q) -> T]
    BY <2>1
  <2>. QED
    BY <2>1, <2>2, IsSeq
<1>. HIDE DEF T
<1>2. /\ Append(q, x) \in Seq(T)
      /\ Len(Append(q, x)) = Len(q) + 1
      /\ \A i \in 1 .. Len(q) : Append(q, x)[i] = q[i]
      /\ Append(q, x)[Len(q) + 1] = x
  BY <1>1, AppendProperties
<1>3. DOMAIN q = 1 .. Len(q) /\ Len(q) \in Nat
  BY <1>1, LenProperties
<1>4. DOMAIN Append(q, x) = 1 .. Len(Append(q, x))
  BY <1>2, LenProperties
<1>. QED
  BY <1>2, <1>3, <1>4, SeqOfRange

LEMMA SurfaceTyped ==
    ASSUME NEW s, NEW id \in SuiteId, NEW peer, NEW basis, Truthful(s, basis),
           Surfaced(s, id, peer)
    PROVE  IsSurface(s)
<1>1. Range(status_str) = {"classical", "hybrid-pq", "pq", "symmetric"}
  BY DEF Range, status_str
<1>2. /\ s.status \in Range(status_str) /\ s.quantum_resistant \in BOOLEAN
      /\ s.active_suite \in SuiteId
  BY <1>1 DEF Truthful, Surfaced
<1>. QED
  BY <1>2 DEF Surfaced, IsSurface, Surface

LEMMA InitSelfInv == Init => SelfInv
<1>. SUFFICES ASSUME Init PROVE SelfInv
  OBVIOUS
<1>1. /\ conversation = [suite |-> "", basis |-> "unoffered", level |-> "L2Oneshot", epoch |-> 0]
      /\ surfaces = <<>> /\ issued = <<>> /\ panicked = {} /\ registry \in {empty, seeded}
  BY DEF Init
<1>2. DOMAIN surfaces = {} /\ DOMAIN issued = {}
  BY <1>1, EmptyDomain, Zenon
<1>3. surfaces \in Seq(Range(surfaces)) /\ issued \in Seq(Range(issued))
  BY <1>1, EmptySeq
<1>4. IsRegistry(registry)
  <2>1. IsRegistry(empty)
    BY DEF IsRegistry, empty
  <2>2. IsRegistry(seeded)
    <3>1. DOMAIN seeded \subseteq Range(IdOrder)
      BY IdAssumption
    <3>2. seeded = [id \in DOMAIN seeded |-> seeded[id]]
      BY DEF seeded, register
    <3>. QED
      BY <3>1, <3>2, GlobalSuites DEF IsRegistry, global, SuiteStatus
  <2>. QED
    BY <1>1, <2>1, <2>2
<1>5. conversation \in Conversation
  <2>1. "" \in SuiteId
    BY DEF SuiteId
  <2>2. "L2Oneshot" \in RatchetLevel /\ 0 \in 0 .. MaxEpoch
    BY ReportBoundAssumption DEF RatchetLevel
  <2>3. "unoffered" \in Basis
    BY DEF Basis
  <2>. QED
    BY <1>1, <2>1, <2>2, <2>3 DEF Conversation
<1>6. TypeOK
  BY <1>1, <1>2, <1>4, <1>5 DEF TypeOK
<1>7. BasisFits
  BY <1>1 DEF BasisFits, Settled
<1>. QED
  BY <1>1, <1>2, <1>3, <1>6, <1>7 DEF SelfInv, LinesBuilt, ReportsMade, PanicsOverQuotesOnly

\* Settling on a suite, hearing of one, or ratcheting leaves lines and reports alone.
LEMMA TalkSelfInv ==
    ASSUME SelfInv, UNCHANGED <<surfaces, issued, panicked, registry>>,
           conversation' \in Conversation, BasisFits'
    PROVE  SelfInv'
<1>1. TypeOK'
  BY DEF SelfInv, TypeOK
<1>. QED
  BY <1>1 DEF SelfInv, LinesBuilt, ReportsMade, Reported, PanicsOverQuotesOnly

\* negotiate_suite gives the hybrid suite exactly when both sides have it.
LEMMA NegotiateSelfInv ==
    ASSUME SelfInv, NEW local \in BOOLEAN, NEW peers \in BOOLEAN, Negotiate(local, peers)
    PROVE  SelfInv'
<1>. DEFINE id == negotiate_suite(local, peers)
            basis == IF local /\ peers THEN "offered" ELSE "unoffered"
<1>1. /\ conversation' = [conversation EXCEPT !.suite = id, !.basis = basis]
      /\ UNCHANGED <<surfaces, issued, panicked, registry>>
  BY DEF Negotiate
<1>2. id \in SuiteId /\ basis \in Basis /\ Settled(id, basis)
  BY DEF negotiate_suite, SuiteId, Basis, Settled
<1>. HIDE DEF id, basis
<1>3. conversation \in Conversation
  BY DEF SelfInv, TypeOK
<1>4. conversation' \in Conversation
  BY <1>1, <1>2, <1>3 DEF Conversation
<1>5. conversation'.suite = id /\ conversation'.basis = basis
  BY <1>1, <1>3 DEF Conversation
<1>6. BasisFits'
  BY <1>2, <1>5 DEF BasisFits
<1>. QED
  BY <1>1, <1>4, <1>6, TalkSelfInv

\* Of a label nothing is assumed.
LEMMA LabelSelfInv ==
    ASSUME SelfInv, NEW id \in WireIds, Label(id)
    PROVE  SelfInv'
<1>1. /\ conversation' = [conversation EXCEPT !.suite = id, !.basis = "label"]
      /\ UNCHANGED <<surfaces, issued, panicked, registry>>
  BY DEF Label
<1>2. id \in SuiteId /\ "label" \in Basis
  BY DEF SuiteId, Basis
<1>3. conversation \in Conversation
  BY DEF SelfInv, TypeOK
<1>4. conversation' \in Conversation /\ conversation'.basis = "label"
  BY <1>1, <1>2, <1>3 DEF Conversation
<1>5. BasisFits'
  BY <1>4 DEF BasisFits, Settled
<1>. QED
  BY <1>1, <1>4, <1>5, TalkSelfInv

LEMMA RatchetSelfInv ==
    ASSUME SelfInv, NEW level, Ratchet(level)
    PROVE  SelfInv'
<1>1. /\ conversation' = [conversation EXCEPT !.level = level_from_wire(level), !.epoch = @ + 1]
      /\ conversation.epoch < MaxEpoch
      /\ UNCHANGED <<surfaces, issued, panicked, registry>>
  BY DEF Ratchet
<1>2. level_from_wire(level) \in RatchetLevel
  BY DEF level_from_wire, RatchetLevel
<1>3. conversation \in Conversation /\ conversation.epoch + 1 \in 0 .. MaxEpoch
  BY <1>1, ReportBoundAssumption DEF SelfInv, TypeOK, Conversation
<1>4. /\ conversation' \in Conversation
      /\ conversation'.suite = conversation.suite
      /\ conversation'.basis = conversation.basis
  BY <1>1, <1>2, <1>3 DEF Conversation
<1>5. BasisFits'
  BY <1>4 DEF SelfInv, BasisFits
<1>. QED
  BY <1>1, <1>4, <1>5, TalkSelfInv

\* A line that was screened joins the others; a panic is over a quoted text.
LEMMA BuildSelfInv ==
    ASSUME SelfInv, NEW peer \in PeerNames, NEW s, Truthful(s, conversation.basis),
           Surfaced(s, conversation_suite(conversation.suite), peer), Build(s, peer)
    PROVE  SelfInv'
<1>. DEFINE id == conversation_suite(conversation.suite)
<1>1. conversation.suite \in SuiteId /\ id \in SuiteId
  BY DEF SelfInv, TypeOK, Conversation, conversation_suite, SuiteId
<1>2. IsSurface(s)
  BY <1>1, SurfaceTyped
<1>3. UNCHANGED <<conversation, issued, registry>>
  BY DEF Build
<1>4. BasisFits' /\ ReportsMade'
  BY <1>3 DEF SelfInv, BasisFits, ReportsMade, Reported
<1>5. CASE assert_honest(s)
  <2>1. PICK n : /\ n.surface = s /\ n.basis = conversation.basis
                 /\ surfaces' = Append(surfaces, n)
                 /\ panicked' = {}
    <3>1. LET n == [surface |-> s, basis |-> conversation.basis]
          IN  /\ n.surface = s /\ n.basis = conversation.basis
              /\ surfaces' = Append(surfaces, n)
              /\ panicked' = {}
      BY <1>5 DEF Build
    <3>. QED
      BY <3>1
  <2>2. Line(n.surface, n.basis)
    BY <1>5, <2>1 DEF Line, assert_honest, is_honest_note
  <2>3. /\ surfaces' \in Seq(Range(surfaces'))
        /\ DOMAIN surfaces' = 1 .. Len(surfaces) + 1
        /\ DOMAIN surfaces = 1 .. Len(surfaces) /\ Len(surfaces) \in Nat
        /\ surfaces'[Len(surfaces) + 1] = n
        /\ \A i \in DOMAIN surfaces : surfaces'[i] = surfaces[i]
    BY <2>1, AppendedTo DEF SelfInv, LinesBuilt
  <2>4. \A i \in DOMAIN surfaces' : i \in DOMAIN surfaces \/ i = Len(surfaces) + 1
    BY <2>3
  <2>5. LinesBuilt'
    BY <2>2, <2>3, <2>4 DEF SelfInv, LinesBuilt
  <2>6. TypeOK'
    BY <1>2, <1>3, <2>1, <2>3, <2>4 DEF SelfInv, TypeOK
  <2>7. PanicsOverQuotesOnly'
    BY <2>1 DEF PanicsOverQuotesOnly
  <2>. QED
    BY <1>4, <2>5, <2>6, <2>7 DEF SelfInv
<1>6. CASE ~assert_honest(s)
  <2>1. surfaces' = <<>> /\ panicked' = {[suite |-> conversation.suite, peer |-> peer]}
    BY <1>6 DEF Build
  <2>2. ~is_honest_note(s.note)
    BY <1>6 DEF assert_honest, Truthful
  <2>3. PICK text \in s.note.quotes : text \in ForbiddenTexts
    BY <2>2 DEF is_honest_note
  <2>4. text = peer \/ text = id
    BY <2>3 DEF Surfaced, who
  <2>5. text = peer \/ text = conversation.suite
    BY <2>3, <2>4, FallbackAssumption DEF conversation_suite
  <2>6. PanicsOverQuotesOnly'
    BY <2>1, <2>3, <2>5 DEF PanicsOverQuotesOnly
  <2>7. DOMAIN surfaces' = {} /\ surfaces' \in Seq(Range(surfaces'))
    BY <2>1, EmptyDomain, EmptySeq
  <2>8. LinesBuilt'
    BY <2>7 DEF LinesBuilt
  <2>9. TypeOK'
    BY <1>1, <1>3, <2>1, <2>7 DEF SelfInv, TypeOK
  <2>. QED
    BY <1>4, <2>6, <2>8, <2>9 DEF SelfInv
<1>. QED
  BY <1>5, <1>6

LEMMA FromSurfaces ==
    ASSUME NEW lines
    PROVE  /\ from_surfaces(lines).surfaces = lines
           /\ from_surfaces(lines).honest_claim = honest_claim(lines)
BY DEF from_surfaces

\* The report takes the lines over, each with what its suite rested on.
LEMMA IssueSelfInv ==
    ASSUME SelfInv, Issue
    PROVE  SelfInv'
<1>. DEFINE built == [i \in DOMAIN surfaces |-> surfaces[i].surface]
<1>1. PICK n : /\ n.report = from_surfaces(built)
               /\ n.basis = [i \in DOMAIN surfaces |-> surfaces[i].basis]
               /\ issued' = Append(issued, n)
  <2>1. LET n == [report |-> from_surfaces(built),
                  basis  |-> [i \in DOMAIN surfaces |-> surfaces[i].basis]]
        IN  /\ n.report = from_surfaces(built)
            /\ n.basis = [i \in DOMAIN surfaces |-> surfaces[i].basis]
            /\ issued' = Append(issued, n)
    BY DEF Issue
  <2>. QED
    BY <2>1
<1>2. surfaces' = <<>> /\ panicked' = {} /\ UNCHANGED <<conversation, registry>>
  BY DEF Issue
<1>3. n.report.surfaces = built /\ n.report.honest_claim = honest_claim(built)
  BY <1>1, FromSurfaces
<1>4. Reported(n)
  <2>1. built \in Seq(Range(built))
    <3>1. Len(surfaces) \in Nat /\ DOMAIN surfaces = 1 .. Len(surfaces)
      BY LenProperties DEF SelfInv, LinesBuilt
    <3>2. built \in [1 .. Len(surfaces) -> Range(built)]
      BY <3>1 DEF Range
    <3>. QED
      BY <3>1, <3>2, IsSeq
  <2>2. ASSUME NEW i \in DOMAIN surfaces
        PROVE  Line(built[i], n.basis[i])
    <3>1. built[i] = surfaces[i].surface /\ n.basis[i] = surfaces[i].basis
      BY <1>1
    <3>. QED
      BY <3>1 DEF SelfInv, LinesBuilt
  <2>3. DOMAIN built = DOMAIN surfaces
    OBVIOUS
  <2>. HIDE DEF built
  <2>. QED
    BY <1>1, <1>3, <2>1, <2>2, <2>3 DEF Reported
<1>. HIDE DEF built
<1>5. /\ issued' \in Seq(Range(issued'))
      /\ DOMAIN issued' = 1 .. Len(issued) + 1
      /\ DOMAIN issued = 1 .. Len(issued) /\ Len(issued) \in Nat
      /\ issued'[Len(issued) + 1] = n
      /\ \A i \in DOMAIN issued : issued'[i] = issued[i]
  BY <1>1, AppendedTo DEF SelfInv, ReportsMade
<1>6. \A i \in DOMAIN issued' : i \in DOMAIN issued \/ i = Len(issued) + 1
  BY <1>5
<1>7. ReportsMade'
  <2>1. \A i \in DOMAIN issued' : Reported(issued'[i])
    BY <1>4, <1>5, <1>6 DEF SelfInv, ReportsMade
  <2>. QED
    BY <1>5, <2>1 DEF ReportsMade
<1>8. DOMAIN surfaces' = {} /\ surfaces' \in Seq(Range(surfaces'))
  BY <1>2, EmptyDomain, EmptySeq
<1>9. LinesBuilt' /\ BasisFits' /\ PanicsOverQuotesOnly'
  BY <1>2, <1>8 DEF SelfInv, LinesBuilt, BasisFits, PanicsOverQuotesOnly
<1>10. TypeOK'
  <2>1. honest_claim(built) \in {CLAIM_ALL, CLAIM_NOT, CLAIM_SYMMETRIC}
    BY DEF honest_claim
  <2>2. \A i \in DOMAIN issued' :
           issued'[i].report.honest_claim \in {CLAIM_ALL, CLAIM_NOT, CLAIM_SYMMETRIC}
    BY <1>3, <1>5, <1>6, <2>1 DEF SelfInv, TypeOK
  <2>. QED
    BY <1>2, <1>8, <2>2 DEF SelfInv, TypeOK
<1>. QED
  BY <1>7, <1>9, <1>10 DEF SelfInv

\* Registering replaces the suite of one id and keeps the others.
LEMMA RegisterSelfInv ==
    ASSUME SelfInv, NEW suite \in Registrable, Register(suite)
    PROVE  SelfInv'
<1>1. /\ registry' = register(registry, suite)
      /\ UNCHANGED <<conversation, surfaces, issued, panicked>>
  BY DEF Register
<1>2. suite.suite_id \in Range(IdOrder) /\ suite.status \in SuiteStatus /\ suite.active \in BOOLEAN
  BY RegistrableAssumption
<1>3. IsRegistry(register(registry, suite))
  <2>. DEFINE r == register(registry, suite)
  <2>1. /\ DOMAIN r = DOMAIN registry \cup {suite.suite_id}
        /\ \A id \in DOMAIN r : r[id] = IF id = suite.suite_id THEN suite ELSE registry[id]
    BY DEF register
  <2>2. IsRegistry(registry) /\ r = [id \in DOMAIN r |-> r[id]]
    BY DEF SelfInv, TypeOK, register
  <2>. HIDE DEF r
  <2>3. DOMAIN r \subseteq Range(IdOrder)
    BY <1>2, <2>1, <2>2 DEF IsRegistry
  <2>4. ASSUME NEW id \in DOMAIN r
        PROVE  r[id].suite_id = id /\ r[id].status \in SuiteStatus /\ r[id].active \in BOOLEAN
    BY <1>2, <2>1, <2>2 DEF IsRegistry
  <2>5. IsRegistry(r)
    BY <2>2, <2>3, <2>4 DEF IsRegistry
  <2>. QED
    BY <2>5 DEF r
<1>4. TypeOK'
  BY <1>1, <1>3 DEF SelfInv, TypeOK
<1>. QED
  BY <1>1, <1>4 DEF SelfInv, BasisFits, LinesBuilt, ReportsMade, Reported,
                    PanicsOverQuotesOnly

LEMMA NextSelfInv == SelfInv /\ [Next]_vars => SelfInv'
<1>. SUFFICES ASSUME SelfInv, [Next]_vars PROVE SelfInv'
  OBVIOUS
<1>0. /\ conversation.basis \in Basis
      /\ Settled(conversation.suite, conversation.basis)
  BY DEF SelfInv, TypeOK, Conversation, BasisFits
<1>1. ASSUME NEW local \in BOOLEAN, NEW peers \in BOOLEAN, Negotiate(local, peers)
      PROVE  SelfInv'
  BY <1>1, NegotiateSelfInv
<1>2. ASSUME NEW id \in WireIds, Label(id) PROVE SelfInv'
  BY <1>2, LabelSelfInv
<1>3. ASSUME NEW level \in WireLevels, Ratchet(level) PROVE SelfInv'
  BY <1>3, RatchetSelfInv
<1>4. ASSUME NEW peer \in PeerNames, BuildDm(peer) PROVE SelfInv'
  <2>. DEFINE s == dm_ratchet_surface_for(conversation.suite, conversation.level,
                                          conversation.epoch, peer)
  <2>1. /\ Truthful(s, conversation.basis)
        /\ Surfaced(s, conversation_suite(conversation.suite), peer)
    BY <1>0, DmSurface
  <2>2. Build(s, peer)
    BY <1>4 DEF BuildDm
  <2>. HIDE DEF s
  <2>. QED
    BY <2>1, <2>2, BuildSelfInv
<1>5. ASSUME NEW peer \in PeerNames, NEW kind \in ConversationKind,
             BuildConversation(kind, peer)
      PROVE  SelfInv'
  <2>. DEFINE s == conversation_surface_for(conversation.suite, kind, peer)
  <2>1. /\ Truthful(s, conversation.basis)
        /\ Surfaced(s, conversation_suite(conversation.suite), peer)
    BY <1>0, ConversationSurface
  <2>2. Build(s, peer)
    BY <1>5 DEF BuildConversation
  <2>. HIDE DEF s
  <2>. QED
    BY <2>1, <2>2, BuildSelfInv
<1>6. CASE Issue
  BY <1>6, IssueSelfInv
<1>7. ASSUME NEW suite \in Registrable, Register(suite) PROVE SelfInv'
  BY <1>7, RegisterSelfInv
<1>8. CASE UNCHANGED vars
  <2>1. TypeOK'
    BY <1>8 DEF vars, SelfInv, TypeOK
  <2>. QED
    BY <1>8, <2>1 DEF vars, SelfInv, BasisFits, LinesBuilt, ReportsMade, Reported,
                      PanicsOverQuotesOnly
<1>. QED
  BY <1>1, <1>2, <1>3, <1>4, <1>5, <1>6, <1>7, <1>8 DEF Next

\* The invariant of the self-report, for any peers and labels.
THEOREM SelfInvariance == Spec => []SelfInv
<1>1. Init => SelfInv
  BY InitSelfInv
<1>2. SelfInv /\ [Next]_vars => SelfInv'
  BY NextSelfInv
<1>. QED
  BY <1>1, <1>2, PTL DEF Spec

-----------------------------------------------------------------------------
(* What it implies *)

\* A reader of the wire strings takes exactly the classical lines for classical.
LEMMA ReadStatus ==
    ASSUME NEW status \in {"classical", "hybrid-pq", "symmetric"}
    PROVE  status_from_wire(status) = "Classical" <=> status = "classical"
<1>1. CASE status = "classical"
  BY <1>1 DEF status_from_wire
<1>2. CASE status = "hybrid-pq"
  <2>1. /\ "HybridPq" \in SuiteStatus /\ status_str["HybridPq"] = status
        /\ status_str["Classical"] # status
    BY <1>2 DEF SuiteStatus, status_str
  <2>2. status_from_wire(status) = CHOOSE x \in SuiteStatus : status_str[x] = status
    BY <1>2 DEF status_from_wire
  <2>3. status_str[status_from_wire(status)] = status
    BY <2>1, <2>2, Zenon
  <2>. QED
    BY <1>2, <2>1, <2>3
<1>3. CASE status = "symmetric"
  <2>1. /\ "Symmetric" \in SuiteStatus /\ status_str["Symmetric"] = status
        /\ status_str["Classical"] # status
    BY <1>3 DEF SuiteStatus, status_str
  <2>2. status_from_wire(status) = CHOOSE x \in SuiteStatus : status_str[x] = status
    BY <1>3 DEF status_from_wire
  <2>3. status_str[status_from_wire(status)] = status
    BY <2>1, <2>2, Zenon
  <2>. QED
    BY <1>3, <2>1, <2>3
<1>. QED
  BY <1>1, <1>2, <1>3

\* The counts of a report of truthful lines, and the claim over them.
LEMMA ClaimOfLines ==
    ASSUME NEW lines, lines \in Seq(Range(lines)), NEW basis,
           \A i \in DOMAIN lines : Truthful(lines[i], basis[i])
    PROVE  LET classical == {i \in DOMAIN lines : lines[i].status = "classical"}
               summary   == from_surfaces(lines).summary
           IN  /\ honest_claim(lines) = CLAIM_ALL => lines # <<>> /\ classical = {}
               /\ honest_claim(lines) = CLAIM_NOT <=> classical # {}
               /\ honest_claim(lines) = CLAIM_SYMMETRIC
                    => \A i \in DOMAIN lines : lines[i].status = "symmetric"
               /\ summary.quantum_resistant + summary.classical = summary.total_surfaces
               /\ summary.symmetric <= summary.quantum_resistant
<1>. DEFINE D == DOMAIN lines
            A == {i \in D : lines[i].quantum_resistant}
            C == {i \in D : lines[i].status = "classical"}
            S == {i \in D : lines[i].status = "symmetric"}
<1>1. Len(lines) \in Nat /\ D = 1 .. Len(lines)
  BY LenProperties
<1>2. lines = <<>> <=> Len(lines) = 0
  BY EmptySeq
<1>3. IsFiniteSet(D) /\ Cardinality(D) = Len(lines)
  <2>1. 1 \in Int /\ Len(lines) \in Int
    BY <1>1
  <2>2. IsFiniteSet(1 .. Len(lines))
        /\ Cardinality(1 .. Len(lines)) = IF 1 > Len(lines) THEN 0 ELSE Len(lines) - 1 + 1
    BY <2>1, FS_Interval
  <2>. QED
    BY <1>1, <2>2
<1>4. \A i \in D : /\ lines[i].quantum_resistant <=> lines[i].status # "classical"
                   /\ lines[i].quantum_resistant \in BOOLEAN
  BY DEF Truthful
<1>5. A \in SUBSET D /\ C = D \ A /\ S \in SUBSET A
  BY <1>4
<1>6. /\ from_surfaces(lines).summary.quantum_resistant = Cardinality(A)
      /\ from_surfaces(lines).summary.classical = Cardinality(C)
      /\ from_surfaces(lines).summary.symmetric = Cardinality(S)
      /\ from_surfaces(lines).summary.total_surfaces = Len(lines)
  BY DEF from_surfaces, count
<1>7. honest_claim(lines) = IF Len(lines) > 0 /\ Cardinality(A) = Len(lines) THEN CLAIM_ALL
                            ELSE IF C # {} THEN CLAIM_NOT ELSE CLAIM_SYMMETRIC
  <2>1. count(lines, LAMBDA x : x.quantum_resistant) = Cardinality(A)
    BY DEF count
  <2>2. (\E i \in DOMAIN lines : lines[i].status = "classical") <=> C # {}
    OBVIOUS
  <2>. HIDE DEF A, C
  <2>. QED
    BY <2>1, <2>2 DEF honest_claim
<1>. HIDE DEF A, C, S, D
<1>8. /\ IsFiniteSet(A) /\ Cardinality(A) <= Len(lines)
      /\ Cardinality(A) = Len(lines) => A = D
      /\ Cardinality(S) <= Cardinality(A)
  BY <1>3, <1>5, FS_Subset
<1>9. Cardinality(C) = Len(lines) - Cardinality(A)
  <2>1. D \cap A = A
    BY <1>5
  <2>2. Cardinality(D \ A) = Cardinality(D) - Cardinality(D \cap A)
    BY <1>3, FS_Difference
  <2>. QED
    BY <1>3, <1>5, <2>1, <2>2
<1>10. Cardinality(A) = Len(lines) <=> C = {}
  <2>1. C = {} => A = D
    BY <1>5
  <2>. QED
    BY <1>3, <1>5, <1>8, <2>1
<1>11. CLAIM_ALL # CLAIM_NOT /\ CLAIM_ALL # CLAIM_SYMMETRIC /\ CLAIM_NOT # CLAIM_SYMMETRIC
  BY DEF CLAIM_ALL, CLAIM_NOT, CLAIM_SYMMETRIC
<1>12. Len(lines) = 0 => C = {}
  BY <1>1, <1>5
<1>13. Cardinality(A) \in Nat
  BY <1>8, FS_CardinalityType
<1>14. /\ honest_claim(lines) = CLAIM_ALL => lines # <<>> /\ C = {}
       /\ honest_claim(lines) = CLAIM_NOT <=> C # {}
       /\ honest_claim(lines) = CLAIM_SYMMETRIC => D = {}
  BY <1>1, <1>2, <1>7, <1>10, <1>11, <1>12
<1>15. Cardinality(A) + Cardinality(C) = Len(lines)
  BY <1>1, <1>9, <1>13
<1>. QED
  BY <1>6, <1>8, <1>14, <1>15 DEF C, D

\* Conversation, lines, claims and the host's registry keep their types.
THEOREM ReportTypes == Spec => []TypeOK
<1>1. SelfInv => TypeOK
  BY DEF SelfInv
<1>. QED
  BY <1>1, SelfInvariance, PTL

\* A builder panics only over a forbidden word in a text of the peer's.
THEOREM PanicsExplained == Spec => []PanicsOverQuotesOnly
<1>1. SelfInv => PanicsOverQuotesOnly
  BY DEF SelfInv
<1>. QED
  BY <1>1, SelfInvariance, PTL

\* No note of a line or of a report quotes a text with a forbidden word.
THEOREM NotesScreened == Spec => []NoForbiddenWords
<1>1. SelfInv => NoForbiddenWords
  BY DEF SelfInv, LinesBuilt, ReportsMade, Reported, Line, NoForbiddenWords
<1>. QED
  BY <1>1, SelfInvariance, PTL

\* honest_claim and the summary say of the lines what they are.
THEOREM ClaimsAreExact == Spec => []ClaimIsExact
<1>1. SelfInv => ClaimIsExact
  <2>. SUFFICES ASSUME SelfInv, NEW n \in DOMAIN issued, NEW lines,
                       lines = issued[n].report.surfaces
                PROVE  LET classical == {i \in DOMAIN lines :
                                           status_from_wire(lines[i].status) = "Classical"}
                           summary   == issued[n].report.summary
                           claim     == issued[n].report.honest_claim
                       IN  /\ claim = CLAIM_ALL => lines # <<>> /\ classical = {}
                           /\ claim = CLAIM_NOT <=> classical # {}
                           /\ claim = CLAIM_SYMMETRIC
                                => \A i \in DOMAIN lines : lines[i].status = "symmetric"
                           /\ summary.quantum_resistant + summary.classical
                                = summary.total_surfaces
                           /\ summary.symmetric <= summary.quantum_resistant
    BY DEF ClaimIsExact
  <2>1. Reported(issued[n])
    BY DEF SelfInv, ReportsMade
  <2>2. /\ lines \in Seq(Range(lines))
        /\ \A i \in DOMAIN lines : Truthful(lines[i], issued[n].basis[i])
        /\ issued[n].report = from_surfaces(lines)
    BY <2>1 DEF Reported, Line
  <2>3. issued[n].report.honest_claim = honest_claim(lines)
    BY <2>2, FromSurfaces
  <2>4. {i \in DOMAIN lines : status_from_wire(lines[i].status) = "Classical"}
          = {i \in DOMAIN lines : lines[i].status = "classical"}
    BY <2>2, ReadStatus DEF Truthful
  <2>5. LET classical == {i \in DOMAIN lines : lines[i].status = "classical"}
            summary   == issued[n].report.summary
        IN  /\ honest_claim(lines) = CLAIM_ALL => lines # <<>> /\ classical = {}
            /\ honest_claim(lines) = CLAIM_NOT <=> classical # {}
            /\ honest_claim(lines) = CLAIM_SYMMETRIC
                 => \A i \in DOMAIN lines : lines[i].status = "symmetric"
            /\ summary.quantum_resistant + summary.classical = summary.total_surfaces
            /\ summary.symmetric <= summary.quantum_resistant
    BY <2>2, ClaimOfLines
  <2>. QED
    BY <2>3, <2>4, <2>5
<1>. QED
  BY <1>1, SelfInvariance, PTL

\* A truthful line is what SilentDowngradeShows asks of it.
LEMMA TruthfulFits ==
    ASSUME NEW s, NEW basis, Truthful(s, basis)
    PROVE  LineFits(s, basis)
BY DEF Truthful, LineFits, ReadsHybrid, ReadsClassical

\* Where a negotiation, or none, gave the suite, a line reads hybrid exactly if
\* both sides had offered the hybrid suite, with any labels between negotiations,
\* and a report with a downgraded line says so.
THEOREM DowngradesShow == Spec => []SilentDowngradeShows
<1>1. SelfInv => SilentDowngradeShows
  <2>. SUFFICES ASSUME SelfInv PROVE SilentDowngradeShows
    OBVIOUS
  <2>1. ASSUME NEW i \in DOMAIN surfaces
        PROVE  LineFits(surfaces[i].surface, surfaces[i].basis)
    BY TruthfulFits DEF SelfInv, LinesBuilt, Line
  <2>2. ASSUME NEW n \in DOMAIN issued, NEW lines, lines = issued[n].report.surfaces
        PROVE  /\ \A i \in DOMAIN lines : LineFits(lines[i], issued[n].basis[i])
               /\ (\E i \in DOMAIN lines : issued[n].basis[i] = "unoffered")
                    => issued[n].report.honest_claim = CLAIM_NOT
    <3>1. /\ lines \in Seq(Range(lines))
          /\ \A i \in DOMAIN lines : Truthful(lines[i], issued[n].basis[i])
          /\ issued[n].report = from_surfaces(lines)
      BY <2>2 DEF SelfInv, ReportsMade, Reported, Line
    <3>2. ASSUME NEW i \in DOMAIN lines, issued[n].basis[i] = "unoffered"
          PROVE  issued[n].report.honest_claim = CLAIM_NOT
      <4>1. lines[i].status = "classical"
        BY <3>1, <3>2 DEF Truthful
      <4>2. {j \in DOMAIN lines : lines[j].status = "classical"} # {}
        BY <4>1
      <4>3. honest_claim(lines) = CLAIM_NOT
        BY <3>1, <4>2, ClaimOfLines
      <4>. QED
        BY <3>1, <4>3, FromSurfaces
    <3>. QED
      BY <3>1, <3>2, TruthfulFits
  <2>. QED
    BY <2>1, <2>2 DEF SilentDowngradeShows
<1>. QED
  BY <1>1, SelfInvariance, PTL

-----------------------------------------------------------------------------
(* The listing of a registry *)

\* The sort key takes the statuses apart.
LEMMA StatusRanks ==
    /\ \A status \in SuiteStatus : status_rank(status) \in Nat
    /\ \A a, b \in SuiteStatus : status_rank(a) = status_rank(b) => a = b
<1>. DEFINE wire == <<"classical", "hybrid-pq", "pq", "symmetric">>
<1>1. /\ wire[1] = "classical" /\ wire[2] = "hybrid-pq" /\ wire[3] = "pq" /\ wire[4] = "symmetric"
      /\ status_str["Classical"] = "classical" /\ status_str["HybridPq"] = "hybrid-pq"
      /\ status_str["Pq"] = "pq" /\ status_str["Symmetric"] = "symmetric"
  BY DEF status_str
<1>2. \A status : status_rank(status) = CHOOSE i \in 1 .. 4 : wire[i] = status_str[status]
  BY DEF status_rank
<1>. HIDE DEF wire
<1>3. \A status \in SuiteStatus : \E i \in 1 .. 4 : wire[i] = status_str[status]
  BY <1>1 DEF SuiteStatus
<1>4. \A status \in SuiteStatus :
         status_rank(status) \in 1 .. 4 /\ wire[status_rank(status)] = status_str[status]
  BY <1>2, <1>3
<1>5. \A a, b \in SuiteStatus : status_str[a] = status_str[b] => a = b
  BY <1>1 DEF SuiteStatus
<1>. QED
  BY <1>4, <1>5

\* And so it does the ids.
LEMMA IdRanks ==
    /\ \A id \in Range(IdOrder) : id_rank(id) \in Nat
    /\ \A a, b \in Range(IdOrder) : id_rank(a) = id_rank(b) => a = b
<1>1. Len(IdOrder) \in Nat /\ DOMAIN IdOrder = 1 .. Len(IdOrder)
  BY IdAssumption, LenProperties
<1>2. \A id \in Range(IdOrder) : \E i \in DOMAIN IdOrder : IdOrder[i] = id
  BY DEF Range
<1>3. \A id \in Range(IdOrder) : id_rank(id) \in DOMAIN IdOrder /\ IdOrder[id_rank(id)] = id
  BY <1>2 DEF id_rank
<1>. QED
  BY <1>1, <1>3

\* The order of all_suites, as pairs of rows.
Sorted(r) == {p \in Range(r) \X Range(r) : before(p[1], p[2])}

\* A function on a finite set has finitely many values.
LEMMA FiniteRange ==
    ASSUME NEW f, f = [x \in DOMAIN f |-> f[x]], IsFiniteSet(DOMAIN f)
    PROVE  IsFiniteSet(Range(f))
<1>1. f \in Surjection(DOMAIN f, Range(f))
  BY DEF Surjection, Range
<1>. QED
  BY <1>1, FS_Surjection

\* A row of a registry is filed under its id.
LEMMA Rows ==
    ASSUME NEW r, IsRegistry(r), NEW x \in Range(r)
    PROVE  /\ x.suite_id \in DOMAIN r /\ r[x.suite_id] = x
           /\ x.suite_id \in Range(IdOrder) /\ x.status \in SuiteStatus /\ x.active \in BOOLEAN
<1>1. PICK id \in DOMAIN r : x = r[id]
  BY DEF Range
<1>. QED
  BY <1>1 DEF IsRegistry

\* The sort key puts the rows of a registry in one order.
LEMMA KeyOrders ==
    ASSUME NEW r, IsRegistry(r)
    PROVE  IsFiniteSet(Range(r)) /\ Orders(Sorted(r), Range(r))
<1>1. IsFiniteSet(Range(r))
  <2>1. Len(IdOrder) \in Nat /\ DOMAIN IdOrder = 1 .. Len(IdOrder)
    BY IdAssumption, LenProperties
  <2>2. IsFiniteSet(1 .. Len(IdOrder))
    BY <2>1, FS_Interval
  <2>3. IdOrder = [i \in DOMAIN IdOrder |-> IdOrder[i]]
    BY <2>1, IdAssumption
  <2>4. IsFiniteSet(Range(IdOrder))
    BY <2>1, <2>2, <2>3, FiniteRange
  <2>5. IsFiniteSet(DOMAIN r)
    BY <2>4, FS_Subset DEF IsRegistry
  <2>. QED
    BY <2>5, FiniteRange DEF IsRegistry
<1>2. \A x, y \in Range(r) : <<x, y>> \in Sorted(r) <=> before(x, y)
  BY DEF Sorted
<1>3. ASSUME NEW x \in Range(r)
      PROVE  ~before(x, x)
  BY StatusRanks, IdRanks, Rows DEF before
<1>4. ASSUME NEW x \in Range(r), NEW y \in Range(r), NEW z \in Range(r), before(x, y), before(y, z)
      PROVE  before(x, z)
  <2>1. \A u \in {x, y, z} : /\ u.active \in BOOLEAN /\ u.status \in SuiteStatus
                             /\ status_rank(u.status) \in Nat /\ id_rank(u.suite_id) \in Nat
    BY StatusRanks, IdRanks, Rows
  <2>. QED
    BY <1>4, <2>1 DEF before
<1>5. ASSUME NEW x \in Range(r), NEW y \in Range(r)
      PROVE  x = y \/ before(x, y) \/ before(y, x)
  <2>1. \A u \in {x, y} : /\ u.active \in BOOLEAN /\ u.status \in SuiteStatus
                          /\ status_rank(u.status) \in Nat /\ id_rank(u.suite_id) \in Nat
                          /\ u.suite_id \in Range(IdOrder) /\ u = r[u.suite_id]
    BY StatusRanks, IdRanks, Rows
  <2>2. CASE x.active # y.active
    BY <2>1, <2>2 DEF before
  <2>3. CASE x.active = y.active /\ x.status # y.status
    BY <2>1, <2>3, StatusRanks DEF before
  <2>4. CASE x.active = y.active /\ x.status = y.status
    <3>1. id_rank(x.suite_id) = id_rank(y.suite_id) => x = y
      BY <2>1, IdRanks
    <3>. QED
      BY <2>1, <2>4, <3>1 DEF before
  <2>. QED
    BY <2>2, <2>3, <2>4
<1>. QED
  BY <1>1, <1>2, <1>3, <1>4, <1>5 DEF Orders

\* all_suites lists every row once, by the sort key.
LEMMA AllSuites ==
    ASSUME NEW r, IsRegistry(r)
    PROVE  LET s == all_suites(r)
           IN  /\ s \in Seq(Range(r))
               /\ {s[i] : i \in DOMAIN s} = Range(r)
               /\ \A i, j \in DOMAIN s : i < j => before(s[i], s[j])
<1>. DEFINE s == all_suites(r)
            n == Cardinality(Range(r))
<1>1. s = in_order(Range(r), Sorted(r))
  BY DEF all_suites, Sorted
<1>. HIDE DEF s
<1>2. /\ n \in Nat /\ s \in [1 .. n -> Range(r)]
      /\ {s[i] : i \in DOMAIN s} = Range(r)
      /\ \A i, j \in DOMAIN s : i < j => <<s[i], s[j]>> \in Sorted(r)
  BY <1>1, KeyOrders, InOrder
<1>3. s \in Seq(Range(r))
  BY <1>2, IsSeq
<1>4. \A i, j \in DOMAIN s : i < j => before(s[i], s[j])
  BY <1>2 DEF Sorted
<1>. QED
  BY <1>2, <1>3, <1>4 DEF s

\* active_suites is the first part of all_suites.
LEMMA ActiveFirst ==
    ASSUME NEW r, IsRegistry(r)
    PROVE  active_suites(r) = SubSeq(all_suites(r), 1, Len(active_suites(r)))
<1>. DEFINE s == all_suites(r)
            I == {i \in DOMAIN s : s[i].active}
<1>1. /\ s \in Seq(Range(r)) /\ \A i \in DOMAIN s : s[i] \in Range(r)
      /\ \A i, j \in DOMAIN s : i < j => before(s[i], s[j])
  BY AllSuites
<1>2. active_suites(r) = at_positions(s, I)
  BY DEF active_suites
<1>. HIDE DEF s
<1>3. \A i \in I : \A j \in DOMAIN s : j < i => j \in I
  BY <1>1 DEF before
<1>4. I \in SUBSET DOMAIN s
  OBVIOUS
<1>. HIDE DEF I
<1>5. at_positions(s, I) = SubSeq(s, 1, Len(at_positions(s, I)))
  BY <1>1, <1>3, <1>4, KeptFirst
<1>. QED
  BY <1>2, <1>5 DEF s

\* A reader of the wire string of a status gets the status.
LEMMA WireStatus ==
    ASSUME NEW status \in SuiteStatus
    PROVE  status_from_wire(status_str[status]) = status
<1>1. /\ status_str["Classical"] = "classical" /\ status_str["HybridPq"] = "hybrid-pq"
      /\ status_str["Pq"] = "pq" /\ status_str["Symmetric"] = "symmetric"
  BY DEF status_str
<1>2. CASE status = "Classical"
  BY <1>1, <1>2 DEF status_from_wire
<1>3. CASE status # "Classical"
  <2>. DEFINE t == status_str[status]
  <2>1. t \in {"hybrid-pq", "pq", "symmetric"}
    BY <1>1, <1>3 DEF SuiteStatus
  <2>2. status_from_wire(t) = CHOOSE x \in SuiteStatus : status_str[x] = t
    BY <2>1 DEF status_from_wire
  <2>3. \A x \in SuiteStatus : status_str[x] = t => x = status
    BY <1>1, <1>3 DEF SuiteStatus
  <2>. HIDE DEF t
  <2>4. \E x \in SuiteStatus : status_str[x] = t
    BY DEF t
  <2>. QED
    BY <2>2, <2>3, <2>4 DEF t
<1>. QED
  BY <1>2, <1>3

\* What the wire form of a row says.
LEMMA RowOf ==
    ASSUME NEW r, IsRegistry(r), NEW x \in Range(r)
    PROVE  LET row == to_dict(x)
           IN  /\ row.suite_id = x.suite_id
               /\ status_from_wire(row.status) = suite_status(r, row.suite_id)
               /\ row.quantum_resistant = is_quantum_resistant(r, row.suite_id)
               /\ status_is_quantum_resistant(status_from_wire(row.status))
                    = is_quantum_resistant(r, row.suite_id)
<1>. DEFINE row == to_dict(x)
<1>1. /\ row.suite_id = x.suite_id /\ row.status = status_str[x.status]
      /\ row.quantum_resistant = status_is_quantum_resistant(x.status)
  BY DEF to_dict, suite_is_quantum_resistant
<1>. HIDE DEF row
<1>2. /\ x.suite_id \in DOMAIN r /\ r[x.suite_id] = x /\ x.status \in SuiteStatus
  BY Rows
<1>3. suite_status(r, x.suite_id) = x.status
  BY <1>2 DEF suite_status, known, get_suite
<1>4. is_quantum_resistant(r, x.suite_id) = status_is_quantum_resistant(x.status)
  BY <1>2 DEF is_quantum_resistant, known, get_suite, suite_is_quantum_resistant,
              status_is_quantum_resistant
<1>5. status_from_wire(row.status) = x.status
  BY <1>1, <1>2, WireStatus
<1>. QED
  BY <1>1, <1>3, <1>4, <1>5 DEF row

\* A listing agrees with the lookups, active suites first, after any registrations.
THEOREM ListingsAgree == Spec => []ListingAgrees
<1>1. SelfInv => ListingAgrees
  <2>. SUFFICES ASSUME IsRegistry(registry) PROVE ListingAgrees
    BY DEF SelfInv, TypeOK
  <2>. DEFINE s    == all_suites(registry)
              rows == [i \in DOMAIN s |-> to_dict(s[i])]
  <2>1. \A i \in DOMAIN s : s[i] \in Range(registry)
    BY AllSuites
  <2>2. {s[i] : i \in DOMAIN s} = Range(registry)
    BY AllSuites
  <2>3. DOMAIN rows = DOMAIN s /\ \A i \in DOMAIN s : rows[i] = to_dict(s[i])
    OBVIOUS
  <2>. HIDE DEF s
  <2>4. ASSUME NEW i \in DOMAIN rows
        PROVE  /\ rows[i].suite_id = s[i].suite_id
               /\ status_is_quantum_resistant(status_from_wire(rows[i].status))
                    = is_quantum_resistant(registry, rows[i].suite_id)
               /\ rows[i].quantum_resistant = is_quantum_resistant(registry, rows[i].suite_id)
               /\ status_from_wire(rows[i].status) = suite_status(registry, rows[i].suite_id)
    <3>. PICK x \in Range(registry) : x = s[i]
      BY <2>1, <2>3
    <3>1. rows[i] = to_dict(x)
      BY <2>3
    <3>. HIDE DEF rows
    <3>. QED
      BY <3>1, RowOf
  <2>. HIDE DEF rows
  <2>5. {rows[i].suite_id : i \in DOMAIN rows} = DOMAIN registry
    <3>1. ASSUME NEW i \in DOMAIN rows
          PROVE  rows[i].suite_id \in DOMAIN registry
      BY <2>1, <2>3, <2>4, Rows
    <3>2. ASSUME NEW id \in DOMAIN registry
          PROVE  \E i \in DOMAIN rows : rows[i].suite_id = id
      <4>1. registry[id] \in Range(registry) /\ registry[id].suite_id = id
        BY DEF Range, IsRegistry
      <4>2. PICK i \in DOMAIN s : s[i] = registry[id]
        BY <2>2, <4>1
      <4>. QED
        BY <2>3, <2>4, <4>1, <4>2
    <3>. QED
      BY <3>1, <3>2
  <2>6. active_suites(registry) = SubSeq(s, 1, Len(active_suites(registry)))
    BY ActiveFirst DEF s
  <2>. QED
    BY <2>4, <2>5, <2>6 DEF ListingAgrees, rows, s
<1>. QED
  BY <1>1, SelfInvariance, PTL
=============================================================================
