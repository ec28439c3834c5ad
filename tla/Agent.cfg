SPECIFICATION AgentSpec
CONSTANTS
    Cap = 1
    InitialDelay = 1
    MaxDelay = 2
    Producers = {p1}
    Kinds = {"telemetry", "plain", "critical"}
    Faults = {"write"}
    Values = {0, 1, 2}
    Default = 3
    Workers = {w1}
    Requests = {r1, r2}
    Goroutines = {g1, g2}
    MaxNet = 1
    ConfigFaults = {"drop", "save", "restart"}
    Few = {0, 1}
    None = None
    Releases <- ReleaseSet
    First <- FirstRelease
    Commands = {c1, c2}
    MaxFailures = 1
    MaxCommands = 3
    DedupWindow = 2
    RateWindow = 2
    Interval = 1
    Settings <- SettingSet
CHECK_DEADLOCK FALSE
INVARIANTS
    PartsTypeOK
    SingleUpdateFollows
    
PROPERTIES
    
    NeverOlder
