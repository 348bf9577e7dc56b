SPECIFICATION Spec
CONSTANTS
    Fds = {3, 4}
    Backends = {"select", "kqueue", "evport", "epoll", "wepoll"}
    MaxBatch = 1
INVARIANTS
    WatchedIsRegistered
    NoStaleDispatch
PROPERTIES
    PollTellsTruth
