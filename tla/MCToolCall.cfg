SPECIFICATION MCSpec
CONSTANTS
    c1 = c1
    c2 = c2
    c3 = c3
    read = read
    create = create
    Calls = {c1, c2}
    MaxCalls = 4
    Tools <- MCTools
    MutationTools <- MCMutationTools
    DefaultProfile <- MCDefaultProfile
    ServerOverride <- MCServerOverride
    RegistryOverride <- MCRegistryOverride
    ToolOverride <- MCToolOverride
    ThresholdNum = 1
    ThresholdDen = 2
    WindowMs = 1
    HalfOpenIntervalMs = 2
    Callers = {d1, d2}
    MaxTokens = 1
    TokenTicks = 2
    PollTicks = 3
    QueueTicks = 7
    QueueLimit = 2
    Streams = {s1}
    Clients = {k1, k2}
    MaxReports = 2
    Executions = {e1, e2}
    MaxConcurrentProcesses = 1
    Servers = {v1, v2}
    BatchSize = 2
    MaxBatches = 2
INVARIANTS TypeOK ProbeFlagSound StatsBalance MutationAtMostOnce RLInv ESInv EXInv SBInv
PROPERTIES AdmitsAgain EveryCallSettles OpenPeriodNotExtended PartsSettle
CHECK_DEADLOCK FALSE
