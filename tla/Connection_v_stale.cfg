SPECIFICATION Spec
CONSTANTS
    Conns = {c1}
    Fds = {3}
    NoFd = NoFd
    NoConn = NoConn
    Pipeline = 1
    Modes = {"rate"}
    Tls = FALSE
    ConnectMayFail = FALSE
    EarlyResponses = FALSE
    ServerCloses = TRUE
    PendingModulus = 8
    MaxTimers = 2
    MaxBuffered = 4
PROPERTIES
    OneBatchAtATime
