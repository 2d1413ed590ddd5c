------------------------------ MODULE Listing -------------------------------
(***************************************************************************)
(* The order in which a loop over a list finds what it keeps of it.        *)
(***************************************************************************)
EXTENDS Naturals, FiniteSets

\* The members of a finite set of numbers, from the least on.
InOrder(S) ==
  [k \in 1..Cardinality(S) |-> CHOOSE i \in S : Cardinality({j \in S : j < i}) = k - 1]
=============================================================================
