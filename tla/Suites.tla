------------------------------- MODULE Suites -------------------------------
(***************************************************************************)
(* suites.rs: what a suite id means, and the registries of suites.  The    *)
(* variants of the two enums carry their names in the code; their wire     *)
(* strings are what as_str gives.  Of the descriptive columns a row keeps  *)
(* the FIPS and RFC references, the evidence a report cites.               *)
(***************************************************************************)
EXTENDS Ordering, SequencesExt

CONSTANT IdOrder   \* every suite id that occurs, in the order of strings

SuiteKind   == {"Kem", "Sig", "Aead"}
SuiteStatus == {"Classical", "HybridPq", "Pq", "Symmetric"}

kind_str   == [Kem |-> "kem", Sig |-> "sig", Aead |-> "aead"]
status_str == [Classical |-> "classical", HybridPq |-> "hybrid-pq", Pq |-> "pq",
               Symmetric |-> "symmetric"]

\* SuiteStatus::from_wire: an unknown string is the honest default.
status_from_wire(s) ==
    IF s \in {"hybrid-pq", "pq", "symmetric"}
    THEN CHOOSE status \in SuiteStatus : status_str[status] = s
    ELSE "Classical"

\* Mutant: everything with a name is good enough.
QuantumResistantByName(status) == status \in SuiteStatus

status_is_quantum_resistant(status) == status \in {"HybridPq", "Pq", "Symmetric"}

-----------------------------------------------------------------------------
(* CryptoSuite.  replaces is an Option, here a set of at most one id. *)

CryptoSuite(id, kind, status, fips_refs, active) ==
    [suite_id |-> id, kind |-> kind, status |-> status, fips_refs |-> fips_refs,
     active |-> active, replaces |-> {}]

replacing(suite, id) == [suite EXCEPT !.replaces = {id}]

suite_is_quantum_resistant(suite) == status_is_quantum_resistant(suite.status)

to_dict(suite) ==
    [suite_id          |-> suite.suite_id,
     kind              |-> kind_str[suite.kind],
     status            |-> status_str[suite.status],
     fips_refs         |-> suite.fips_refs,
     active            |-> suite.active,
     quantum_resistant |-> suite_is_quantum_resistant(suite),
     replaces          |-> suite.replaces]

-----------------------------------------------------------------------------
(* Registry: a map from ids to suites. *)

empty == [id \in {} |-> {}]

\* Mutant: a suite takes the place of the one it replaces.
RegisterInPlace(registry, suite) ==
    [id \in {suite.suite_id} \cup suite.replaces |-> suite] @@ registry

register(registry, suite) ==
    [id \in DOMAIN registry \cup {suite.suite_id} |->
        IF id = suite.suite_id THEN suite ELSE registry[id]]

PgpWrap == CryptoSuite("x25519-pgp-wrap-v1", "Kem", "Classical", <<"RFC 7748", "RFC 9580">>, TRUE)
AesGcm  == CryptoSuite("aes256-gcm-v1", "Aead", "Symmetric",
                       <<"FIPS 197", "SP 800-38D", "SP 800-108">>, TRUE)
MlKem   == replacing(CryptoSuite("x25519-mlkem768", "Kem", "HybridPq",
                                 <<"FIPS 203", "RFC 7748", "RFC 5869">>, TRUE),
                     "x25519-pgp-wrap-v1")

seeded == register(register(register(empty, PgpWrap), AesGcm), MlKem)

\* The seeded ids occur.
ASSUME IdAssumption == IdOrder \in Seq(Range(IdOrder)) /\ DOMAIN seeded \subseteq Range(IdOrder)

\* get_suite returns a suite for the ids of the map only.
known(registry, id) == id \in DOMAIN registry

get_suite(registry, id) == registry[id]

id_rank(id) == CHOOSE i \in DOMAIN IdOrder : IdOrder[i] = id

\* The wire strings of the statuses in the order of strings.
status_rank(status) ==
    CHOOSE i \in 1 .. 4 : <<"classical", "hybrid-pq", "pq", "symmetric">>[i] = status_str[status]

\* Mutant: whether a suite is active is not part of the sort key.
BeforeByStatus(a, b) ==
    \/ status_rank(a.status) < status_rank(b.status)
    \/ a.status = b.status /\ id_rank(a.suite_id) < id_rank(b.suite_id)

\* The sort key (!active, status, suite_id).
before(a, b) ==
    \/ a.active /\ ~b.active
    \/ /\ a.active = b.active
       /\ \/ status_rank(a.status) < status_rank(b.status)
          \/ a.status = b.status /\ id_rank(a.suite_id) < id_rank(b.suite_id)

all_suites(registry) ==
    in_order(Range(registry), {p \in Range(registry) \X Range(registry) : before(p[1], p[2])})

active_suites(registry) ==
    LET s == all_suites(registry)
    IN  at_positions(s, {i \in DOMAIN s : s[i].active})

suite_status(registry, id) ==
    IF known(registry, id) THEN get_suite(registry, id).status ELSE "Classical"

is_quantum_resistant(registry, id) ==
    known(registry, id) /\ suite_is_quantum_resistant(get_suite(registry, id))

\* Registry::global: seeded on first use, by whichever thread is first, and
\* then only read.
global == seeded
=============================================================================
