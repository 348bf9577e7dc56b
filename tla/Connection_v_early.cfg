SPECIFICATION Spec
CONSTANTS
    Conns = {c1}
    Fds = {3, 4, 5}
    NoFd = NoFd
    NoConn = NoConn
    Pipeline = 1
    Modes = {"closed"}
    Tls = FALSE
    ConnectMayFail = FALSE
    EarlyResponses = TRUE
    ServerCloses = FALSE
    PendingModulus = 8
    MaxTimers = 2
    MaxBuffered = 4
INVARIANTS
    ConnectionsKeptOpen
