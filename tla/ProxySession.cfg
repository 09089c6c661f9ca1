SPECIFICATION FairSpec
CONSTANTS
    NumRequests = 2
    MaxGen = 3
    MaxAsks = 1
    MaxPings = 1
    Scenarios = {{"hang", "fail"}, {"split"}}
INVARIANTS
    Accounted
PROPERTIES
    KeepsSession
    RequestsAnswered
    
CHECK_DEADLOCK FALSE
