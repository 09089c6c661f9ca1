----------------------------- MODULE MCCallTool -----------------------------
(* The calls of the manager, with a chain of one dedicated fallback, and    *)
(* one backend instance below them; a behaviour is about one of the two.    *)
EXTENDS CallTool, Transport, TLC

CONSTANT Subjects

VARIABLE subject

Chain == <<"fallback">>

Init == CallInit /\ TransportInit /\ subject \in Subjects
        /\ (subject = "calls" => kind = "cli")
        /\ (subject = "transport" => may = {"shutdown"})

Next ==
    /\ \/ subject = "calls" /\ CallNext /\ UNCHANGED transportVars
       \/ subject = "transport" /\ TransportNext /\ UNCHANGED callVars
    /\ UNCHANGED subject

vars == <<callVars, transportVars, subject>>
Calling(A) == subject = "calls" /\ A /\ UNCHANGED <<may, transportVars, subject>>
Below(A) == subject = "transport" /\ A /\ UNCHANGED <<callVars, subject>>

\* CallFairness and TransportFairness, each where its module runs.
Fairness ==
    /\ \A c \in Calls : WF_vars(Calling(CallStep(c)))
    /\ WF_vars(Calling(StopAll))
    /\ WF_vars(Below(StartStep)) /\ WF_vars(Below(HaltStep)) /\ WF_vars(Below(ReaperStep))
    /\ \A u \in Users : WF_vars(Below(UseEnds(u)))

Spec == Init /\ [][Next]_vars /\ Fairness
=============================================================================
