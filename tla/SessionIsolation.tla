-------------------------- MODULE SessionIsolation --------------------------
(***************************************************************************)
(* What dedicated instance mode promises (src/docs/backend-management.md,  *)
(* src/docs/architecture.md): at most MaxInstances instances exist, and an *)
(* instance is handed to one session only, between its start and its end.  *)
(***************************************************************************)
EXTENDS Naturals, FiniteSets

CONSTANTS Sessions, Instances, None, MaxInstances

VARIABLES
    present,   \* the instances that exist
    user       \* the session an instance was given to

Init ==
    /\ present \in SUBSET Instances
    /\ Cardinality(present) <= MaxInstances
    /\ user = [i \in Instances |-> None]

Spawn(i) ==
    /\ i \notin present
    /\ Cardinality(present) < MaxInstances
    /\ present' = present \cup {i}
    /\ user' = [user EXCEPT ![i] = None]

Give(i, s) ==
    /\ i \in present
    /\ user[i] = None
    /\ user' = [user EXCEPT ![i] = s]
    /\ UNCHANGED present

Remove(gone) ==
    /\ gone \subseteq present
    /\ present' = present \ gone
    /\ UNCHANGED user

Next ==
    \/ \E i \in Instances : Spawn(i)
    \/ \E i \in Instances, s \in Sessions : Give(i, s)
    \/ \E gone \in SUBSET Instances : Remove(gone)

Spec == Init /\ [][Next]_<<present, user>>
=============================================================================
