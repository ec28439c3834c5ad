SPECIFICATION MCSpec
CONSTANTS
    Machines = {m1}
    Tokens = {t1}
    Rows = {d1, d2, d3}
    Requests = {r1, r2}
    MaxKeys = 1
    Installers = {"install", "deploy"}
    Faults = {"timeout", "server", "agent", "refuse", "expire"}
    None = None
CHECK_DEADLOCK FALSE

    
PROPERTIES
    DeployedAgentRuns
