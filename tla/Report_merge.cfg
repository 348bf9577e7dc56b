CONSTANTS
    SubBucketMagnitude = 2
    UnitMagnitude = 0
    HighestTrackable = 12
    NumFiles = 2
    Headers <- TwoHeaders
    Multiple = Multiple
    NoUrl = NoUrl
    Responses <- FewResponses
    MaxEach = 2
    MaxSpoiled = 1
    TicksPerHalfDistance = 5
    Resolution = 6
SPECIFICATION Spec
INVARIANT MergeIsExact SpectrumRight ViewsRight
CHECK_DEADLOCK FALSE
