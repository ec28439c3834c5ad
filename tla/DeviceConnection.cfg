SPECIFICATION Spec
CONSTANTS
    Workers = {w1, w2}
    Handlers = {h1, h2}
    Tasks = {t1}
    None = None
    MaxAttempts = 1
    Env = {"failures", "crash", "maintenance", "alerts", "revoke"}
SYMMETRY Symmetry
INVARIANTS
    NoOrphanedSocket
    PendingTaskLive
