SPECIFICATION Spec
CONSTANTS
    Conns = {c1, c2}
    Fds = {3, 4}
    NoFd = NoFd
    NoConn = NoConn
    Pipeline = 1
    Modes = {"rate", "delay"}
    Tls = FALSE
    ConnectMayFail = TRUE
    EarlyResponses = FALSE
    ServerCloses = TRUE
    PendingModulus = 8
    MaxTimers = 1
    MaxBuffered = 2
INVARIANTS
    DescriptorsOwned
CHECK_DEADLOCK FALSE
