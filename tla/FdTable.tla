------------------------------- MODULE FdTable -------------------------------
(***************************************************************************)
(* The table of the Windows build (src/compat_win32.c) that gives SOCKETs  *)
(* small numbers.  It is shared by all threads: a number is handed out and *)
(* taken back under its lock, which makes each of these one step, but      *)
(* socket() and closesocket() are called outside of it, and wpk_native     *)
(* reads the table without it.                                             *)
(*                                                                         *)
(* Its users are the connections of wrk.c, of which those of a thread take *)
(* turns.  A connection whose connect failed keeps its old number in c->fd *)
(* and may have a delay_request timer armed: that registers whatever       *)
(* socket the number leads to by then, and when one of its handlers fails, *)
(* reconnect_socket closes it.                                             *)
(***************************************************************************)
EXTENDS Integers, Sequences, FiniteSets

CONSTANTS
    Threads, Conns,
    ThreadOf,          \* the thread of each connection
    Sockets,           \* handles that Windows may return
    INVALID_SOCKET,
    WPK_FIRST_FD, WPK_MAX_FDS

Numbers == WPK_FIRST_FD .. WPK_MAX_FDS - 1

ASSUME TableAssumption ==
    /\ IsFiniteSet(Conns) /\ ThreadOf \in [Conns -> Threads]
    /\ IsFiniteSet(Sockets) /\ INVALID_SOCKET \notin Sockets
    /\ WPK_FIRST_FD \in Nat \ {0} /\ WPK_MAX_FDS \in Nat /\ WPK_FIRST_FD <= WPK_MAX_FDS

VARIABLES
    fds,         \* the table
    free_fds,    \* free_fds[0 .. free_top - 1]
    next_fd,
    pc,          \* where the connection is in connect_socket or reconnect_socket
    fd,          \* c->fd, zero before the first connect
    got,         \* connect_socket's own fd, from wpk_socket to the connect's result
    handle,      \* the SOCKET s of the wpk_socket or wpk_close that c is in
    client,      \* the connections that are the clientData of an event
    timer,       \* whether c has a delay_request timer
    mine,        \* history: the socket that c opened and has not closed itself
    robbed,      \* history: the connections whose socket another one has closed
    peak         \* history: the most sockets that were open at a time

vars == <<fds, free_fds, next_fd, pc, fd, got, handle, client, timer, mine, robbed, peak>>

OpenSockets ==
    ({handle[c] : c \in Conns} \cup {fds[f] : f \in Numbers}) \ {INVALID_SOCKET}

\* A thread is in one call at a time.
Busy(c) == \E d \in Conns : /\ ThreadOf[d] = ThreadOf[c] /\ d # c
                            /\ pc[d] \notin {"new", "idle"}

Init ==
    /\ fds = [f \in Numbers |-> INVALID_SOCKET]
    /\ free_fds = <<>>
    /\ next_fd = WPK_FIRST_FD
    /\ pc = [c \in Conns |-> "new"]
    /\ fd = [c \in Conns |-> 0] /\ got = [c \in Conns |-> 0]
    /\ handle = [c \in Conns |-> INVALID_SOCKET]
    /\ client = {} /\ timer = [c \in Conns |-> FALSE]
    /\ mine = [c \in Conns |-> INVALID_SOCKET] /\ robbed = {}
    /\ peak = 0

\* wpk_socket, before the lock: Windows returns a handle that is not in use, or none.
Create(c) ==
    /\ pc[c] \in {"new", "creating"} /\ ~Busy(c)
    /\ \/ /\ \E s \in Sockets \ OpenSockets : handle' = [handle EXCEPT ![c] = s]
          /\ pc' = [pc EXCEPT ![c] = "created"]
       \/ pc' = [pc EXCEPT ![c] = "idle"] /\ UNCHANGED handle
    /\ UNCHANGED <<fds, free_fds, next_fd, fd, got, client, timer, mine, robbed>>
    /\ peak' = IF Cardinality(OpenSockets') > peak THEN Cardinality(OpenSockets') ELSE peak

\* The socket is in the table under the number f.
Enter(c, f) ==
    /\ f < WPK_MAX_FDS
    /\ fds' = [fds EXCEPT ![f] = handle[c]]
    /\ got' = [got EXCEPT ![c] = f]
    /\ mine' = [mine EXCEPT ![c] = handle[c]]
    /\ handle' = [handle EXCEPT ![c] = INVALID_SOCKET]
    /\ pc' = [pc EXCEPT ![c] = "connecting"]
    /\ UNCHANGED <<fd, client, timer, robbed, peak>>

\* Mutant of Allocate: the numbers that came back are not used.
AllocateFresh(c) ==
    /\ pc[c] = "created"
    /\ Enter(c, next_fd)
    /\ next_fd' = next_fd + 1
    /\ UNCHANGED free_fds

\* wpk_socket, under the lock: the number freed last, or the next one.
Allocate(c) ==
    /\ pc[c] = "created"
    /\ \/ /\ free_fds # <<>>
          /\ Enter(c, free_fds[Len(free_fds)])
          /\ free_fds' = SubSeq(free_fds, 1, Len(free_fds) - 1)
          /\ UNCHANGED next_fd
       \/ /\ free_fds = <<>>
          /\ Enter(c, next_fd)
          /\ next_fd' = next_fd + 1
          /\ UNCHANGED free_fds

\* No number is left: WSAEMFILE, and the socket is closed after the lock.
Exhausted(c) ==
    /\ pc[c] = "created" /\ free_fds = <<>> /\ next_fd = WPK_MAX_FDS
    /\ pc' = [pc EXCEPT ![c] = "failing"]
    /\ UNCHANGED <<fds, free_fds, next_fd, fd, got, handle, client, timer, mine, robbed, peak>>

\* wpk_native, which every other call goes through.
Native(f) == IF f \in Numbers THEN fds[f] ELSE INVALID_SOCKET

\* c becomes the clientData of number f in its loop.
Registered(c, f) ==
    {c} \cup {d \in client : ThreadOf[d] = ThreadOf[c] => fd[d] # f}

\* The end of connect_socket, when all went well, aeCreateFileEvent too.
Connected(c) ==
    /\ pc[c] = "connecting" /\ Native(got[c]) # INVALID_SOCKET
    /\ fd' = [fd EXCEPT ![c] = got[c]]
    /\ client' = Registered(c, got[c])
    /\ pc' = [pc EXCEPT ![c] = "idle"] /\ got' = [got EXCEPT ![c] = 0]
    /\ UNCHANGED <<fds, free_fds, next_fd, handle, timer, mine, robbed, peak>>

\* Mutant of Release: a number that is free already is freed again.
ReleaseTwice(c, f) ==
    /\ f \in Numbers
    /\ fds' = [fds EXCEPT ![f] = INVALID_SOCKET]
    /\ free_fds' = Append(free_fds, f)
    /\ handle' = [handle EXCEPT ![c] = fds[f]]
    /\ robbed' = (robbed \cup {d \in Conns : mine[d] = fds[f]}) \ {c}
    /\ mine' = [mine EXCEPT ![c] = INVALID_SOCKET]
    /\ UNCHANGED <<next_fd, fd, timer, peak>>

\* wpk_close, under the lock: whatever socket the number leads to, if any.
Release(c, f) ==
    /\ IF Native(f) # INVALID_SOCKET
         THEN /\ fds' = [fds EXCEPT ![f] = INVALID_SOCKET]
              /\ free_fds' = Append(free_fds, f)
              /\ handle' = [handle EXCEPT ![c] = fds[f]]
              /\ robbed' = (robbed \cup {d \in Conns : mine[d] = fds[f]}) \ {c}
         ELSE robbed' = robbed \ {c} /\ UNCHANGED <<fds, free_fds, handle>>
    /\ mine' = [mine EXCEPT ![c] = INVALID_SOCKET]
    /\ UNCHANGED <<next_fd, fd, timer, peak>>

\* connect_socket's error path.
ConnectFails(c) ==
    /\ pc[c] = "connecting"
    /\ Release(c, got[c])
    /\ pc' = [pc EXCEPT ![c] = "failing"] /\ got' = [got EXCEPT ![c] = 0]
    /\ UNCHANGED client

\* A handler of c fails: reconnect_socket.  Events already reported may call it
\* although the socket has been closed since.
Reconnect(c) ==
    /\ pc[c] = "idle" /\ ~Busy(c) /\ c \in client
    /\ client' = client \ {c}
    /\ Release(c, fd[c])
    /\ pc' = [pc EXCEPT ![c] = "closing"]
    /\ UNCHANGED got

\* wpk_close, and wpk_socket when the table is full, after the lock.
CloseSocket(c) ==
    /\ pc[c] \in {"closing", "failing"}
    /\ handle' = [handle EXCEPT ![c] = INVALID_SOCKET]
    /\ pc' = [pc EXCEPT ![c] = IF @ = "closing" THEN "creating" ELSE "idle"]
    /\ UNCHANGED <<fds, free_fds, next_fd, fd, got, client, timer, mine, robbed, peak>>

\* socket_writeable puts a request off.
Delay(c) ==
    /\ pc[c] = "idle" /\ ~Busy(c) /\ c \in client /\ ~timer[c]
    /\ timer' = [timer EXCEPT ![c] = TRUE]
    /\ UNCHANGED <<fds, free_fds, next_fd, pc, fd, got, handle, client, mine, robbed, peak>>

\* delay_request: no socket, no registration (ae_wepoll.c).
DelayRequest(c) ==
    /\ pc[c] = "idle" /\ ~Busy(c) /\ timer[c]
    /\ timer' = [timer EXCEPT ![c] = FALSE]
    /\ client' = IF Native(fd[c]) # INVALID_SOCKET THEN Registered(c, fd[c]) ELSE client
    /\ UNCHANGED <<fds, free_fds, next_fd, pc, fd, got, handle, mine, robbed, peak>>

Next == \E c \in Conns :
    \/ Create(c) \/ Allocate(c) \/ Exhausted(c) \/ Connected(c) \/ ConnectFails(c)
    \/ Reconnect(c) \/ CloseSocket(c) \/ Delay(c) \/ DelayRequest(c)

Spec == Init /\ [][Next]_vars

-------------------------------------------------------------------------------
(* Properties *)

\* Every variable has its type.
TypeOK ==
    /\ fds \in [Numbers -> Sockets \cup {INVALID_SOCKET}]
    /\ free_fds \in Seq(Numbers)
    /\ next_fd \in WPK_FIRST_FD .. WPK_MAX_FDS
    /\ pc \in [Conns -> {"new", "creating", "created", "failing", "connecting",
                         "idle", "closing"}]
    /\ fd \in [Conns -> Numbers \cup {0}] /\ got \in [Conns -> Numbers \cup {0}]
    /\ handle \in [Conns -> Sockets \cup {INVALID_SOCKET}]
    /\ client \subseteq Conns /\ timer \in [Conns -> BOOLEAN]
    /\ mine \in [Conns -> Sockets \cup {INVALID_SOCKET}] /\ robbed \subseteq Conns
    /\ peak \in Nat

\* The comment at the head of the file: numbers are reused, which keeps them below
\* the peak number of open sockets - counted from the first - although sockets are
\* created and closed outside of the lock, and numbers are closed twice.
BelowPeak == next_fd - WPK_FIRST_FD <= peak

\* The number under which c uses its socket.
Number(c) == IF pc[c] = "connecting" THEN got[c] ELSE fd[c]

Finds(c) == mine[c] # INVALID_SOCKET => Native(Number(c)) = mine[c]

\* From wpk_socket to its own wpk_close, a connection's number leads to the socket
\* it opened, whatever other threads do to the table between two of its calls -
\* reading without the lock is safe - until another connection closes that
\* socket: no two connections are given a number at the same time.
OwnSocket == \A c \in Conns : Finds(c) \/ c \in robbed

\* The same without the exception: a connection with an old number in c->fd closes
\* the socket of another one (wrk.c:533), whose calls then find none, or a third's.
NobodyIsRobbed == \A c \in Conns : Finds(c)
===============================================================================
