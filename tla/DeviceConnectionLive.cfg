SPECIFICATION FairSpec
CONSTANTS
    Workers = {w1}
    Handlers = {h1, h2}
    Tasks = {t1}
    None = None
    MaxAttempts = 1
    Env = {"sweep"}
INVARIANTS
    OfflineWriteAhead

    
