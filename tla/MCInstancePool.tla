--------------------------- MODULE MCInstancePool ---------------------------
(* Small instances of InstancePool for TLC. *)
EXTENDS InstancePool, TLC

\* Sessions, instances and tasks are interchangeable.
Symmetry == Permutations(Sessions) \cup Permutations(Instances) \cup Permutations(Tasks)
=============================================================================
