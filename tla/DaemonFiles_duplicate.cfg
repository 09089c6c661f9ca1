\* Two proxies and any interleaving, nothing else.
CONSTANTS
    MaxDaemons = 2
    Proxies = {p1, p2}
    Operator = op
    None = none
    MaxBinds = 1
    MaxCommands = 0
    MaxCrashes = 0
    Options = {"delay"}
SPECIFICATION DaemonSpec
INVARIANTS OneDaemon
CHECK_DEADLOCK FALSE
