------------------------------- MODULE Order -------------------------------
(* A set of numbers in its order, as the code goes through maps with numbers   *)
(* for keys and through arrays with gaps.                                      *)
EXTENDS Naturals, FiniteSets

(* by number from 0, the members of a set of numbers in their order *)
Rank(S, x) == Cardinality({y \in S : y < x})
At(S, n) == CHOOSE x \in S : Rank(S, x) = n
=============================================================================
