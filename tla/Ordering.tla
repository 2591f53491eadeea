------------------------------ MODULE Ordering ------------------------------
(***************************************************************************)
(* Sorting, as the std::sort and the sorted directory listings of the code *)
(* do it: an element stands where the number of those before it says.  An  *)
(* order is a set of pairs, the earlier element first, and is total on     *)
(* what is sorted.  These definitions, unlike SortSeq and SelectSeq, can   *)
(* be expanded in a proof.                                                 *)
(***************************************************************************)
EXTENDS Integers, FiniteSets

\* The elements of S, those that come first in the order first.
Ranked(S, order) ==
  [n \in 1..Cardinality(S) |->
     CHOOSE x \in S : Cardinality({y \in S : <<y, x>> \in order}) = n - 1]

\* The numbers in S, the smallest first.
Ascending(S) ==
  [n \in 1..Cardinality(S) |-> CHOOSE x \in S : Cardinality({y \in S : y < x}) = n - 1]
=============================================================================
