SPECIFICATION Spec
CONSTANTS
    NThreads = 2
    Connections = 1
    Requests = 1
    Bailout = 0
    Warmup = 1
    Duration = 1
    Progress = FALSE
    ScriptStops = FALSE
    TimeModulus = 16
    Horizon = 1
    MaxResponses = 2
    MaxErrors = 0
    MaxSignals = 0
INVARIANT RequestsExact
