\* One proxy, up to three daemons, every command, crashes and failures; processes
\* run undisturbed between two awaits.
CONSTANTS
    MaxDaemons = 3
    Proxies = {p1}
    Operator = op
    None = none
    MaxBinds = 2
    MaxCommands = 2
    MaxCrashes = 1
    Options = {"stop", "upgrade", "status", "leave", "idle", "fail", "crash"}
SPECIFICATION DaemonSpec
INVARIANTS CleanExit UpgradeSound
PROPERTIES SessionsSpared
CHECK_DEADLOCK FALSE
