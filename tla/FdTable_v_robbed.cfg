SPECIFICATION Spec
CONSTANTS
    t1 = t1
    t2 = t2
    c1 = c1
    c2 = c2
    c3 = c3
    Threads = {t1, t2}
    Conns = {c1, c2, c3}
    ThreadOf <- OneAndTwo
    s1 = s1
    s2 = s2
    s3 = s3
    Sockets = {s1, s2, s3}
    INVALID_SOCKET = INVALID_SOCKET
    WPK_FIRST_FD = 3
    WPK_MAX_FDS = 5
SYMMETRY
    AnyHandle
INVARIANTS
    NobodyIsRobbed

CHECK_DEADLOCK FALSE
