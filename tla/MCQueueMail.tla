----------------------------- MODULE MCQueueMail -----------------------------
(* Two hosts, one with a name that needs escapes, two ordinary relays, an   *)
(* empty one and one with a slash in it.                                    *)
EXTENDS QueueMail

MCName     == <<<<97>>, <<34, 9>>>>
MCName8    == <<<<97>>, <<233>>>>  \* a and e with an acute accent
MCBase64   == <<"A", "B", "C">>
\* Two digits to the base 3.
MCQueueId  == [n \in 1 .. 8 |-> <<MCBase64[1 + (n % 3)], MCBase64[1 + (n \div 3)]>>]
MCRelays   == {<<>>, <<"r">>, <<"r", "/", "s">>}
=============================================================================
