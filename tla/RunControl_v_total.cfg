SPECIFICATION Spec
CONSTANTS
    NThreads = 2
    Connections = 1
    Requests = 0
    Bailout = 2
    Warmup = 0
    Duration = 1
    Progress = FALSE
    ScriptStops = FALSE
    TimeModulus = 16
    Horizon = 1
    MaxResponses = 2
    MaxErrors = 2
    MaxSignals = 0
INVARIANT BailoutTotalExact
