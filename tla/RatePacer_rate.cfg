SPECIFICATION Spec
CONSTANTS
    PNum = 5
    PDen = 2
    TicksPerMs = 3
    Pipeline = 2
    ThreadStart = 1
    Peers = {"prompt", "any"}
    ServerTime = 2
    MaxPending = 7
    MaxTimers = 2
    Horizon = 15
    PromptHorizon = 120
INVARIANTS
    CorrectionNeverGifts
    NeverAhead
    CatchUpIsBounded
    KeepsSchedule
