------------------------------ MODULE JsonPeers ------------------------------
(***************************************************************************)
(* Two hosts build a route header each on its own, member by member, and   *)
(* compute its canonical bytes.                                            *)
(***************************************************************************)
EXTENDS CanonicalJson

CONSTANTS
    Keys,       \* the keys they insert
    Values,     \* the values they insert
    MaxMembers  \* bound: members of an object

VARIABLES mine, theirs  \* the members of each host's object, as inserted

vars == <<mine, theirs>>

Object(members) == [kind |-> "Object", is |-> members]

Init == mine = <<>> /\ theirs = <<>>

\* Map::insert, of a key that is not there yet.
Insert(members, k, v) == Append(members, [key |-> k, value |-> v])

CanInsert(members, k) ==
    Len(members) < MaxMembers /\ \A i \in DOMAIN members : members[i].key # k

InsertMine ==
    /\ \E k \in Keys, v \in Values : CanInsert(mine, k) /\ mine' = Insert(mine, k, v)
    /\ UNCHANGED theirs

InsertTheirs ==
    /\ \E k \in Keys, v \in Values : CanInsert(theirs, k) /\ theirs' = Insert(theirs, k, v)
    /\ UNCHANGED mine

Next == InsertMine \/ InsertTheirs

Spec == Init /\ [][Next]_vars

\* canonical: "this determinism is what makes the AAD ... interoperable".  Two
\* hosts get the same bytes when their objects have the same members, inserted
\* in whatever order, and only then: distinct headers have distinct AADs.
SameBytesSameObject ==
    canonical(Object(mine)) = canonical(Object(theirs)) <=> Range(mine) = Range(theirs)

\* ensure_ascii: the bytes of a string are printable ASCII and read back, by
\* the rules of JSON, to the very code points of the string.
StringsSurvive ==
    \A i \in DOMAIN mine :
        LET v == mine[i].value
            e == encode_string_ascii(v.is)
        IN  v.kind = "String" => Range(e) \subseteq 32 .. 126 /\ read_string(e, 2) = v.is
=============================================================================
