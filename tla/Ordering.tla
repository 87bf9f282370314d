------------------------------ MODULE Ordering ------------------------------
(* slice::sort and sort_by of the Rust library, for keys that all differ,   *)
(* and Iterator::filter.                                                    *)
EXTENDS Integers, FiniteSets

\* The elements of S in the order that the pairs in less give: the i-th is
\* the one with i - 1 elements before it.
in_order(S, less) ==
    [i \in 1 .. Cardinality(S) |->
        CHOOSE x \in S : Cardinality({y \in S : <<y, x>> \in less}) = i - 1]

\* The elements of the sequence s at the positions in I, in their order in s.
at_positions(s, I) ==
    LET kept == in_order(I, {p \in I \X I : p[1] < p[2]})
    IN  [n \in DOMAIN kept |-> s[kept[n]]]
=============================================================================
