SPECIFICATION FairSpec
CONSTANTS
    NThreads = 2
    Connections = 1
    Requests = 1
    Bailout = 0
    Warmup = 0
    Duration = 1
    Progress = TRUE
    ScriptStops = TRUE
    TimeModulus = 16
    Horizon = 1
    MaxResponses = 2
    MaxErrors = 1
    MaxSignals = 0
INVARIANTS
    ProgressCoversRun
    DurationMeansDeadline
PROPERTIES
    StopTerminates
