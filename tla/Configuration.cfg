\* Fifteen files and two sets of .env files; two changes of the file beside two calls
\* of the meta tools; three saves and their kills; three flows of two backends.
CONSTANTS
    MaxU = 65535
    Process <- Shell
    ConfigFiles <- SomeFiles
    DotenvFiles <- Dotenvs
    Projects <- SomeProjects
    Secrets <- SomeSecrets
    Cells <- SomeCells
    Variables <- SomeVariables
    Names = {a, b, c}
    Static = {a}
    Listed = {a, b}
    Versions = {1, 2}
    Wanted = {b, c}
    Clients = {c1}
    MaxDynamic = 1
    MaxEdits = 2
    MaxCalls = 2
    Savers = {s1, s2}
    Callers = {c1, c2}
    MaxRecent = 2
    MaxVersions = 2
    MaxSaves = 4
    MaxRecords = 3
    Sites = {a, b}
    MaxFlows = 3
    Lifetime = 3
    Interval = 1
    Subjects = {"load", "reload", "cache", "tracker", "tokens"}
SPECIFICATION Spec
INVARIANTS RunningAsWritten  DynamicLimit CacheKept TrackerAgrees 
 
CHECK_DEADLOCK FALSE
