----------------------------- MODULE Enumeration -----------------------------
(***************************************************************************)
(* The members of a finite set of numbers as a sequence, the smallest      *)
(* first: what a loop over an array of flags or a sorted map visits.       *)
(***************************************************************************)
EXTENDS Integers, FiniteSets

Rank(x, S) == Cardinality({y \in S : y < x})

Ascending(S) == [n \in 1 .. Cardinality(S) |-> CHOOSE x \in S : Rank(x, S) = n - 1]
=============================================================================
