\* Two calls, a limit of one call and one token; a shutdown, cancellations and state
\* changes, or a replacement of one of the backends beside them.
CONSTANTS
    Calls = {c1, c2}
    Primary = "primary"
    Fallbacks <- Chain
    Dedicated = {"fallback"}
    Rated = {"primary"}
    MaxCalls = 1
    Rate = 1
    MaxRetries = 1
    MaxStarts = 2
    Scenarios = {{"shutdown"}, {"cancel", "falter"}, {"replace"}}
    Users = {c1, c2}
    Kinds = {"stdio", "http", "cli"}
    Subjects = {"calls", "transport"}
SPECIFICATION Spec
INVARIANTS CallsAccounted  DrainedBeforeStop RepeatedOnlyAfterErrors StopIsClean
PROPERTIES  ExitNoticed
CHECK_DEADLOCK FALSE
