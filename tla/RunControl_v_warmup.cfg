SPECIFICATION Spec
CONSTANTS
    NThreads = 2
    Connections = 1
    Requests = 0
    Bailout = 0
    Warmup = 1
    Duration = 1
    Progress = FALSE
    ScriptStops = FALSE
    TimeModulus = 16
    Horizon = 2
    MaxResponses = 2
    MaxErrors = 0
    MaxSignals = 1
INVARIANTS
    WarmupExcluded
    RuntimeWithinElapsed
