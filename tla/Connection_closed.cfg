SPECIFICATION Spec
CONSTANTS
    Conns = {c1, c2}
    Fds = {3, 4, 5}
    NoFd = NoFd
    NoConn = NoConn
    Pipeline = 2
    Modes = {"closed"}
    Tls = TRUE
    ConnectMayFail = TRUE
    EarlyResponses = FALSE
    ServerCloses = TRUE
    PendingModulus = 8
    MaxTimers = 2
    MaxBuffered = 4
INVARIANTS
    TypeOK
    PendingMatchesWire
    ConnectionsKeptOpen
PROPERTIES
    OneBatchAtATime
CHECK_DEADLOCK FALSE
