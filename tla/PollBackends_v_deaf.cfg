SPECIFICATION Spec
CONSTANTS
    Fds = {3, 4}
    Backends = {"select"}
    MaxBatch = 1
PROPERTIES
    PollIsNeverDeaf
