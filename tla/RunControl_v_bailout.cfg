SPECIFICATION Spec
CONSTANTS
    NThreads = 2
    Connections = 1
    Requests = 1
    Bailout = 1
    Warmup = 0
    Duration = 1
    Progress = FALSE
    ScriptStops = FALSE
    TimeModulus = 16
    Horizon = 1
    MaxResponses = 2
    MaxErrors = 1
    MaxSignals = 0
PROPERTY BailoutIsFinal
