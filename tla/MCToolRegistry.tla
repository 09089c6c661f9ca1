--------------------------- MODULE MCToolRegistry ---------------------------
(* Small instances of ToolRegistry for TLC. *)
EXTENDS ToolRegistry, TLC

\* No backend has a namespace of its own, the default of the configuration.
OwnName == [b \in Backends |-> b]

\* Every backend is configured with a namespace of its own, unlike its name.
OwnSpace == [b \in Backends |-> <<"space", b>>]

Symmetry == Permutations(Backends) \cup Permutations(Names) \cup Permutations(Tasks)
=============================================================================
