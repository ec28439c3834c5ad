SPECIFICATION ServerSpec
CONSTANTS
    None = None
    NoSchedule = NoSchedule
    NoOrg = NoOrg
    Slots = {1, 2}
    Session = "s1"
    Sessions = {"s1", "s2"}
    CallTypes = {"offline", "time_drift"}
    OverlapTypes = {"high_cpu", "crash"}
    Devices = {"d1"}
    Periods = {1, 2}
    QueueLimit = 2
    All = "all"
    Worker = "k1"
    Workers = {"k1", "k2"}
    Schedules = {"s1", "s2"}
    OverlapSchedules = {"s1"}
    Admin = "admin"
    Users = {"admin", "u1", "u2"}
    OverlapUsers = {"admin", "u1"}
    OneRequest = "r1"
    Requests = {"r1", "r2"}
    Orgs = {"o1", "o2"}
    OneOrg = "o1"
    Members = {"u1", "u2"}
    Calls = {"c1", "c2", "c3"}
    RateMax = 3
    MaxCount = 6
    MaxCrashes = 1
    Commands = {"c1", "c2", "c3", "c4"}
    Limit = 2
    Dispatchers = 2
    Callers = {"scheduled"}
    MaxCopies = 1
CHECK_DEADLOCK FALSE
INVARIANTS
    ServerTypeOK
    OneOpenAlert
    NoPhantomMail
    LimitsHold
    NobodyStranded
PROPERTIES
    FieldsKept
