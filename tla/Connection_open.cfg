SPECIFICATION FairSpec
CONSTANTS
    Conns = {c1, c2}
    Fds = {3, 4, 5}
    NoFd = NoFd
    NoConn = NoConn
    Pipeline = 2
    Modes = {"closed", "rate", "delay"}
    Tls = FALSE
    ConnectMayFail = FALSE
    EarlyResponses = FALSE
    ServerCloses = FALSE
    PendingModulus = 8
    MaxTimers = 2
    MaxBuffered = 4
INVARIANTS
    ConnectionsKeptOpen
PROPERTIES
    OneBatchAtATime
    KeepsSending
