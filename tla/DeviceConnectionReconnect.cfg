SPECIFICATION Spec
CONSTANTS
    Workers = {w1}
    Handlers = {h1, h2}
    Tasks = {t1, t2}
    None = None
    MaxAttempts = 1
    Env = {}
PROPERTIES
    CleanupDropsOwnSocket
