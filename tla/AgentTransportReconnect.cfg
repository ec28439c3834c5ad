SPECIFICATION FairSpec
CONSTANTS
    Cap = 2
    InitialDelay = 1
    MaxDelay = 3
    Producers = {p1}
    Kinds = {"telemetry", "critical"}
    Faults = {}
PROPERTIES
    MaintainsConnection
CHECK_DEADLOCK FALSE
