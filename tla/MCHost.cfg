SPECIFICATION MCSpec
CONSTANTS
    ToolCalls = {t1, t2}
    MaxStoredExecutions = 1
    GatewayAttempts = 3
    BridgeCalls = {b1, b2, b3}
    MaxSamplesPerBucket = 2
    Recordings = {r1, r2}
    MaxTotalBytes = 2
    MaxEvents = 2
    Servers <- MCServers
    ToolKeys <- MCToolKeys
    Owner <- MCOwner
    Prefixed <- MCPrefixed
    ComposedName <- MCComposedName
    BuiltInPassthrough <- MCBuiltInPassthrough
    PerServerRouting <- MCPerServerRouting
    MaxAbandoned = 1
    MaxReloads = 2
    ServerNames = {n1, n2}
    AlternativeNames = {n1}
    EntryNames = {n1}
    MaxEdits = 1
INVARIANTS CallsAccounted ConfigurationKept
CHECK_DEADLOCK FALSE
