--------------------------- MODULE RequestSession ---------------------------
(***************************************************************************)
(* What a client sees of its requests while daemons come and go            *)
(* (src/docs/architecture.md, "Proxy startup and reconnect behavior"): a   *)
(* request reaches a daemon at most once, in the order of sending, and     *)
(* gets one answer: the daemon's, or an error that invites a retry, after  *)
(* which no daemon starts on it any more.                                  *)
(***************************************************************************)
EXTENDS Naturals, Sequences

CONSTANT Requests   \* numbered in the order the client sends them

VARIABLES
    ran,      \* the requests daemons have received, in that order
    result    \* what the client got: "none", "done" or "failed"

Init == ran = << >> /\ result = [r \in Requests |-> "none"]

Receive(r) ==
    /\ result[r] = "none"
    /\ \A i \in 1..Len(ran) : ran[i] < r
    /\ ran' = Append(ran, r)
    /\ UNCHANGED result

Complete(r) ==
    /\ result[r] = "none"
    /\ \E i \in 1..Len(ran) : ran[i] = r
    /\ result' = [result EXCEPT ![r] = "done"]
    /\ UNCHANGED ran

Fail(lost) ==
    /\ \A r \in lost : result[r] = "none"
    /\ result' = [r \in Requests |-> IF r \in lost THEN "failed" ELSE result[r]]
    /\ UNCHANGED ran

Next ==
    \/ \E r \in Requests : Receive(r) \/ Complete(r)
    \/ \E lost \in SUBSET Requests : Fail(lost)

Spec == Init /\ [][Next]_<<ran, result>>
=============================================================================
