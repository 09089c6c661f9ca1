SPECIFICATION FairSpec
CONSTANTS
    Tasks = {h, c}
    h = h
    c = c
    Instances = {i1, i2}
    i1 = i1
    i2 = i2
    Health = h
    None = None
    Dedicated = FALSE
    Ops = {"remove", "stop_all"}
    Options = {"crash", "timeout"}
    FailureThreshold = 2
    MaxRestarts = 1
PROPERTIES
    NeglectEnds
    LimitIsPerWindow
    CyclesEnd
CHECK_DEADLOCK FALSE
