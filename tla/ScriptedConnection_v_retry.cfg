SPECIFICATION Spec
CONSTANTS
    Tls = {TRUE}
    Lengths = {1, 2}
    Pieces = {0, 1, 2}
    Increment = 3
    MaxFields = 2
    MaxUsed = 5
    NoCall = NoCall
INVARIANTS
    BatchIsAlwaysWhole
