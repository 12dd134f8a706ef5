SPECIFICATION Spec
CONSTANTS
    Commands = {"a"}
    Flows = {t1, t2}
    MaxReconnectAttempts = 1
    MaxReloads = 0
    MaxFaults = 1
    MaxConnections = 5
CHECK_DEADLOCK FALSE
INVARIANT RateLimitKept
