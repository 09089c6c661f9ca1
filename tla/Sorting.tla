------------------------------- MODULE Sorting -------------------------------
(***************************************************************************)
(* The elements of a finite set in the order of a strict total order on    *)
(* them, as the sort functions of a library return them.                   *)
(***************************************************************************)
EXTENDS Integers, FiniteSets

Sorted(S, before(_, _)) ==
  CHOOSE s \in [1..Cardinality(S) -> S] :
    \A i, j \in 1..Cardinality(S) : i < j => before(s[i], s[j])
=============================================================================
