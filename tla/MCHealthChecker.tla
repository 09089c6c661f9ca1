-------------------------- MODULE MCHealthChecker --------------------------
(***************************************************************************)
(* HealthChecker for TLC.                                                  *)
(***************************************************************************)
EXTENDS HealthChecker, TLC

Symmetry == Permutations(Instances) \cup Permutations(Tasks \ {Health})
=============================================================================
