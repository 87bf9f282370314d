----------------------------- MODULE MCJsonPeers -----------------------------
(* Keys where one is a prefix of another and where code point order matters, *)
(* and values of every kind, with strings at the borders of every escape.    *)
EXTENDS JsonPeers

Str(s) == [kind |-> "String", is |-> s]

MCKeys == {<<97>>, <<97, 98>>, <<233>>}

MCValues ==
    {Str(<<>>), Str(<<34, 92, 8, 9, 10>>), Str(<<92, 110>>), Str(<<12, 13, 31, 32, 126, 127>>),
     Str(<<128, 55295, 57344, 65535>>), Str(<<65536, 66559, 66560, 1114111>>),
     [kind |-> "Number", is |-> 10],
     [kind |-> "Array", is |-> <<[kind |-> "Bool", is |-> TRUE], [kind |-> "Null"]>>],
     Object(<<[key |-> <<98>>, value |-> [kind |-> "Bool", is |-> FALSE]],
              [key |-> <<97>>, value |-> Str(<<98>>)]>>)}
=============================================================================
