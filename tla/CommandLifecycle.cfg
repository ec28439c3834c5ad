SPECIFICATION Spec
CONSTANTS
    Commands = {c1, c2}
    Limit = 2
    Dispatchers = 2
    Callers = {"rest", "bulk", "scheduled"}
    MaxCopies = 1
SYMMETRY Symmetry
INVARIANTS
    ResultsAreReal
    RunTwiceOnlyRedelivered
PROPERTIES
    ImplementsContract
