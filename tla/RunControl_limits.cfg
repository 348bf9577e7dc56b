SPECIFICATION Spec
CONSTANTS
    NThreads = 2
    Connections = 1
    Requests = 2
    Bailout = 2
    Warmup = 1
    Duration = 0
    Progress = FALSE
    ScriptStops = FALSE
    TimeModulus = 16
    Horizon = 1
    MaxResponses = 3
    MaxErrors = 1
    MaxSignals = 1
INVARIANTS
    ExactResponses
    BailoutJustified
    BailoutHonoured
