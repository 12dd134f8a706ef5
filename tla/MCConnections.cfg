SPECIFICATION MCSpec
CONSTANTS
    Keys = {k1, k2}
    KVKeys = {x1, x2}
    Values = {v1, v2}
    MaxTtl = 1
    MaxTickets = 3
    Clients = {c1, c2}
    Users = {u1, u2, u3}
    MinConnections = 1
    MaxConnections = 2
    MaxOpened = 4
    Requests = {r1, r2}
    MaxSessions = 2
    SessionTtl = 2
    MaxSessionsMade = 3
    Agents = {a1, a2}
    MaxSockets = 2
    MaxIds = 3
    Daemons = {p1, p2, p3}
    Nobody = nobody
    MaxStarts = 4
INVARIANTS TypeOK ServedInOrder WaitersCounted NoIdleWait HandlesMatchHolders CPInv HBInv DCInv NobodyIsEvicted KVTypeOK CleanMeansSaved
PROPERTIES ImplementsMutex CloseReleasesAll ShutdownEnds SessionsKept ConnectionsSettle SavedEventually
CHECK_DEADLOCK FALSE
