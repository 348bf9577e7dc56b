SPECIFICATION Spec
CONSTANTS
    Fds = {3, 4}
    Backends = {"kqueue"}
    MaxBatch = 1
INVARIANTS
    EventStillValid
