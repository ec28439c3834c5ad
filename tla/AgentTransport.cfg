SPECIFICATION FairSpec
CONSTANTS
    Cap = 2
    InitialDelay = 1
    MaxDelay = 3
    Producers = {p1, p2}
    Kinds = {"telemetry", "plain", "critical"}
    Faults = {"write"}
CHECK_DEADLOCK FALSE
INVARIANTS
    ChannelsClosedOnce
PROPERTIES
    ReconnectsUnlessFull
