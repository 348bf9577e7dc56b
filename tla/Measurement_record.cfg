CONSTANTS
    SubBucketMagnitude = 2
    UnitMagnitude = 0
    HighestTrackable = 12
    NumThreads = 2
    Responses <- FewResponses
    OneShots = {"calibrate", "end_warmup"}
    Percentiles = {0, 50, 90, 100}
    MaxResponses = 2
SPECIFICATION Spec
INVARIANT TypeOK RecordedOnce PercentilesRight ExtremesRight ScrapeCanBeWalked ScrapeIsBetween
CHECK_DEADLOCK FALSE
