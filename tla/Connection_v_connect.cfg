SPECIFICATION Spec
CONSTANTS
    Conns = {c1, c2}
    Fds = {3, 4, 5}
    NoFd = NoFd
    NoConn = NoConn
    Pipeline = 1
    Modes = {"closed"}
    Tls = FALSE
    ConnectMayFail = TRUE
    EarlyResponses = FALSE
    ServerCloses = TRUE
    PendingModulus = 8
    MaxTimers = 2
    MaxBuffered = 4
INVARIANTS
    ConnectionsNeverLost
