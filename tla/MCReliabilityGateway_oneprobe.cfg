SPECIFICATION Spec
CONSTANTS
    c1 = c1
    c2 = c2
    c3 = c3
    read = read
    create = create
    Calls = {c1, c2}
    MaxCalls = 4
    Tools <- MCTools
    MutationTools <- MCMutationTools
    DefaultProfile <- MCDefaultProfile
    ServerOverride <- MCServerOverride
    RegistryOverride <- MCRegistryOverride
    ToolOverride <- MCToolOverride
    ThresholdNum = 1
    ThresholdDen = 2
    WindowMs = 1
    HalfOpenIntervalMs = 2
INVARIANT OneConcurrentProbe
