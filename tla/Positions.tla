------------------------------ MODULE Positions ------------------------------
(* The elements of a sequence that are at some of its positions, in order. *)
EXTENDS Naturals, FiniteSets

\* The k-th of a set of positions.
Nth(S, k) == CHOOSE i \in S : Cardinality({j \in S : j <= i}) = k

\* The elements of s at the positions S.
Picked(s, S) == [k \in 1 .. Cardinality(S) |-> s[Nth(S, k)]]
=============================================================================
