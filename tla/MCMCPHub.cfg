SPECIFICATION FairSpec
CONSTANTS
    Commands = {"a"}
    Flows = {t1, t2}
    MaxReconnectAttempts = 1
    MaxReloads = 1
    MaxFaults = 2
    MaxConnections = 6
CHECK_DEADLOCK FALSE
INVARIANT HubInv
PROPERTY EveryCallReturns
