SPECIFICATION Spec
CONSTANTS
    Tasks = {h, c}
    h = h
    c = c
    Instances = {i1, i2}
    i1 = i1
    i2 = i2
    Health = h
    None = None
    Dedicated = TRUE
    Ops = {"add", "remove", "restart", "stop_all"}
    Options = {"crash", "hang", "prereq", "memory"}
    FailureThreshold = 2
    MaxRestarts = 1
INVARIANTS NothingLeftBehind AttemptsBounded UnhealthyIsOpen
PROPERTIES HealthyNotRestarted
CHECK_DEADLOCK FALSE
