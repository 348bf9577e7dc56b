------------------------------ MODULE Connection ------------------------------
(***************************************************************************)
(* The connections of one wperfk thread (src/wrk.c): connect_socket and    *)
(* reconnect_socket, the three socket handlers, delay_request and the part *)
(* of response_complete that drives a connection, with the table of file   *)
(* events of ae.c and the sockets they watch.                              *)
(*                                                                         *)
(* A handler runs to completion: one action is one handler.  A request is  *)
(* two units on the wire and a response two units (its beginning and its   *)
(* end), so that a write, a read and a response can be partial.  A read    *)
(* that delivers more is several reads in a row.                           *)
(***************************************************************************)
EXTENDS Integers, FiniteSets

CONSTANTS
    Conns,             \* the connections of the thread
    Fds,               \* descriptors the kernel may hand out
    NoFd, NoConn,
    Pipeline,          \* cfg.pipeline: requests in one write
    Modes,             \* the ways of pacing the runs of the model may use
    Tls,               \* the handshake of sock.connect can fail
    ConnectMayFail,    \* socket() or connect() may fail at once
    EarlyResponses,    \* the server may answer before it has the whole request
    ServerCloses,      \* the server may close or reset a connection
    PendingModulus,    \* stands for 2^64, the modulus of c->pending
    MaxTimers,         \* bound: delay_request timers of a connection
    MaxBuffered        \* size of the socket's send buffer, in units

ASSUME ConnectionAssumption ==
    /\ Pipeline \in Nat \ {0} /\ PendingModulus \in Nat
    /\ PendingModulus > Pipeline
    /\ MaxTimers \in Nat /\ MaxBuffered \in Nat \ {0}
    /\ {Tls, ConnectMayFail, EarlyResponses, ServerCloses} \subseteq BOOLEAN
    /\ Modes \subseteq {"closed", "rate", "delay"}
    /\ NoFd \notin Fds /\ NoConn \notin Conns

Length == 2 * Pipeline   \* c->length, in units

VARIABLES
    mode,        \* "rate": cfg.rate is set, usec_to_next_send may ask to wait;
                 \* "delay": cfg.delay, the script's delay() may; else "closed"
    \* struct connection
    fd, written, pending, has_pending, in_response, delayed,
    timers,      \* delay_request timers of the connection that are armed
    starting,    \* its delayed_initial_connect timer is armed
    net,         \* per descriptor: the socket, who opened it, its aeFileEvent
    stray        \* history: a delay_request timer outlived the only socket of
                 \* its connection

cvars == <<written, pending, has_pending, in_response, delayed>>
vars  == <<mode, fd, cvars, timers, starting, net, stray>>

\* A descriptor that is not open: no events, nothing in transit.
Closed ==
    [sock |-> "closed", opener |-> NoConn, r |-> "none", w |-> "none", client |-> NoConn,
     toServer |-> 0, toClient |-> 0, answering |-> FALSE, eof |-> FALSE]

Init ==
    /\ mode \in Modes
    /\ fd = [c \in Conns |-> NoFd]
    /\ written = [c \in Conns |-> 0]
    /\ pending = [c \in Conns |-> 0]
    /\ has_pending = [c \in Conns |-> FALSE]
    /\ in_response = [c \in Conns |-> FALSE]
    /\ delayed = [c \in Conns |-> FALSE]
    /\ timers = [c \in Conns |-> 0]
    /\ starting = [c \in Conns |-> TRUE]
    /\ net = [f \in Fds |-> Closed]
    /\ stray = FALSE

-------------------------------------------------------------------------------
(* aeCreateFileEvent, aeDeleteFileEvent *)

\* Registering WRITABLE; epoll_ctl refuses a descriptor that is not open.
RegisterWritable(n, f, c) ==
    IF f = NoFd \/ n[f].sock = "closed" THEN n
    ELSE [n EXCEPT ![f].w = "writeable", ![f].client = c]

DeleteWritable(n, f) == [n EXCEPT ![f].w = "none"]

-------------------------------------------------------------------------------
(* connect_socket, reconnect_socket *)

\* On failure c->fd keeps its old value and nothing is registered.
ConnectSocket(c, n) ==
    \/ \E f \in {g \in Fds : n[g].sock = "closed"} :
         /\ fd' = [fd EXCEPT ![c] = f]
         /\ net' = [n EXCEPT ![f] =
              [Closed EXCEPT !.sock = "connecting", !.opener = c, !.r = "connected",
                             !.w = "connected", !.client = c]]
    \/ ConnectMayFail /\ net' = n /\ UNCHANGED fd

\* Both events of c->fd are deleted and c->fd is closed, whoever owns it by now.
Disconnect(c, n) ==
    IF fd[c] = NoFd THEN n ELSE [n EXCEPT ![fd[c]] = Closed]

\* Mutant of ReconnectSocket: the old socket is not closed.
ReconnectLeaks(c, n) == ConnectSocket(c, n)

ReconnectSocket(c, n) == ConnectSocket(c, Disconnect(c, n))

DelayedInitialConnect(c) ==
    /\ starting[c]
    /\ starting' = [starting EXCEPT ![c] = FALSE]
    /\ ConnectSocket(c, net)
    /\ UNCHANGED <<cvars, timers>>

-------------------------------------------------------------------------------
(* Readiness, as the poll backend reports it *)

CanWrite(f) == net[f].sock \in {"open", "broken"}
CanRead(f)  == \/ net[f].sock = "broken"
               \/ net[f].sock = "open" /\ (net[f].toClient > 0 \/ net[f].eof)

\* The handler h of descriptor f, registered for reading or for writing, is due.
Due(f, h) == \/ net[f].r = h /\ CanRead(f)
             \/ net[f].w = h /\ CanWrite(f)

-------------------------------------------------------------------------------
(* socket_connected *)

\* A plain socket is always OK here: a connect that failed shows up when the
\* request is written.  The RETRY of a TLS handshake changes nothing.
SocketConnected(f) ==
    LET c == net[f].client IN
    /\ Due(f, "connected")
    /\ \/ /\ in_response' = [in_response EXCEPT ![c] = FALSE]
          /\ written' = [written EXCEPT ![c] = 0]
          /\ net' = [net EXCEPT ![f].r = "readable", ![f].w = "writeable"]
          /\ UNCHANGED <<fd, pending, has_pending, delayed>>
       \/ /\ Tls
          /\ ReconnectSocket(c, net)
          /\ UNCHANGED cvars
    /\ UNCHANGED <<timers, starting>>

-------------------------------------------------------------------------------
(* socket_writeable and delay_request *)

\* Mutant of MustWait: WRITABLE is not given up while the timer runs.
MustWaitKeepsWritable(f) ==
    LET c == net[f].client IN
    /\ Due(f, "writeable") /\ written[c] = 0 /\ timers[c] < MaxTimers
    /\ \/ mode = "rate" /\ UNCHANGED delayed
       \/ /\ mode = "delay" /\ ~delayed[c]
          /\ delayed' = [delayed EXCEPT ![c] = TRUE]
    /\ timers' = [timers EXCEPT ![c] = @ + 1]
    /\ UNCHANGED <<fd, written, pending, has_pending, in_response, starting, net>>

\* usec_to_next_send or the script's delay() asks to wait: WRITABLE is given up
\* for a timer.
MustWait(f) ==
    LET c == net[f].client IN
    /\ Due(f, "writeable") /\ written[c] = 0 /\ timers[c] < MaxTimers
    /\ \/ mode = "rate" /\ UNCHANGED delayed
       \/ /\ mode = "delay" /\ ~delayed[c]
          /\ delayed' = [delayed EXCEPT ![c] = TRUE]
    /\ net' = DeleteWritable(net, f)
    /\ timers' = [timers EXCEPT ![c] = @ + 1]
    /\ UNCHANGED <<fd, written, pending, has_pending, in_response, starting>>

\* Mutant of StartBatch: a batch begun again keeps what was pending.
StartBatchKeepsPending(c) ==
    IF written[c] = 0
      THEN /\ delayed' = [delayed EXCEPT ![c] = FALSE]
           /\ has_pending' = [has_pending EXCEPT ![c] = TRUE]
           /\ pending' = [pending EXCEPT ![c] = IF has_pending[c] THEN @ ELSE Pipeline]
      ELSE UNCHANGED <<delayed, has_pending, pending>>

\* The first byte of a batch: it is counted as pending before it is written.
StartBatch(c) ==
    IF written[c] = 0
      THEN /\ delayed' = [delayed EXCEPT ![c] = FALSE]
           /\ has_pending' = [has_pending EXCEPT ![c] = TRUE]
           /\ pending' = [pending EXCEPT ![c] = Pipeline]
      ELSE UNCHANGED <<delayed, has_pending, pending>>

\* Mutant of Send: c->written is not reset after the last byte.
SendNoReset(f) ==
    LET c == net[f].client
        g == fd[c] IN
    /\ Due(f, "writeable") /\ net[g].sock = "open"
    /\ \E n \in 1 .. Length - written[c] :
         /\ net[g].toServer + n <= MaxBuffered
         /\ written' = [written EXCEPT ![c] = @ + n]
         /\ net' = [net EXCEPT ![g].toServer = @ + n,
                               ![f].w = IF written[c] + n = Length THEN "none" ELSE @]
    /\ StartBatch(c)
    /\ UNCHANGED <<fd, in_response, timers, starting>>

\* sock.write took n units.
Send(f) ==
    LET c == net[f].client
        g == fd[c] IN
    /\ Due(f, "writeable")
    /\ net[g].sock = "open"
    /\ \E n \in 1 .. Length - written[c] :
         LET sent == [net EXCEPT ![g].toServer = @ + n] IN
         /\ net[g].toServer + n <= MaxBuffered
         /\ IF written[c] + n = Length
              THEN /\ written' = [written EXCEPT ![c] = 0]
                   /\ net' = DeleteWritable(sent, f)
              ELSE /\ written' = [written EXCEPT ![c] = @ + n]
                   /\ net' = sent
    /\ StartBatch(c)
    /\ UNCHANGED <<fd, in_response, timers, starting>>

\* sock.write would block.
SendRetry(f) ==
    LET c == net[f].client IN
    /\ Due(f, "writeable") /\ net[fd[c]].sock = "open"
    /\ StartBatch(c)
    /\ UNCHANGED <<fd, written, in_response, timers, starting, net>>

SendError(f) ==
    LET c == net[f].client IN
    /\ Due(f, "writeable") /\ net[fd[c]].sock # "open"
    /\ StartBatch(c)
    /\ ReconnectSocket(c, net)
    /\ UNCHANGED <<written, in_response, timers, starting>>

SocketWriteable(f) == MustWait(f) \/ Send(f) \/ SendRetry(f) \/ SendError(f)

\* Mutant of DelayRequest: the timer ends without making c writeable.
DelayRequestForgets(c) ==
    /\ timers[c] > 0
    /\ timers' = [timers EXCEPT ![c] = @ - 1]
    /\ UNCHANGED <<fd, cvars, starting, net>>

\* The timer fires and it is time to send (when it is not, it re-arms itself).
DelayRequest(c) ==
    /\ timers[c] > 0
    /\ timers' = [timers EXCEPT ![c] = @ - 1]
    /\ net' = RegisterWritable(net, fd[c], c)
    /\ UNCHANGED <<fd, cvars, starting>>

-------------------------------------------------------------------------------
(* response_complete and socket_readable *)

\* Mutants of ResponseComplete: the connection is not made writeable again; it is
\* made writeable by every response; has_pending is not cleared.
ResponseCompleteSilent(c, n, keepAlive) ==
    LET left == (pending[c] - 1) % PendingModulus
        rest == n IN
    /\ in_response' = [in_response EXCEPT ![c] = FALSE]
    /\ pending' = [pending EXCEPT ![c] = left]
    /\ has_pending' = [has_pending EXCEPT ![c] = @ /\ left # 0]
    /\ IF keepAlive THEN net' = rest /\ UNCHANGED fd
                    ELSE ReconnectSocket(c, rest)
    /\ UNCHANGED <<written, delayed>>

ResponseCompleteEager(c, n, keepAlive) ==
    LET left == (pending[c] - 1) % PendingModulus
        rest == RegisterWritable(n, fd[c], c) IN
    /\ in_response' = [in_response EXCEPT ![c] = FALSE]
    /\ pending' = [pending EXCEPT ![c] = left]
    /\ has_pending' = [has_pending EXCEPT ![c] = @ /\ left # 0]
    /\ IF keepAlive THEN net' = rest /\ UNCHANGED fd
                    ELSE ReconnectSocket(c, rest)
    /\ UNCHANGED <<written, delayed>>

ResponseCompleteKeepsFlag(c, n, keepAlive) ==
    LET left == (pending[c] - 1) % PendingModulus
        rest == IF left = 0 THEN RegisterWritable(n, fd[c], c) ELSE n IN
    /\ in_response' = [in_response EXCEPT ![c] = FALSE]
    /\ pending' = [pending EXCEPT ![c] = left]
    /\ has_pending' = has_pending
    /\ IF keepAlive THEN net' = rest /\ UNCHANGED fd
                    ELSE ReconnectSocket(c, rest)
    /\ UNCHANGED <<written, delayed>>

\* The last response of a batch makes the connection writeable again; without
\* keep-alive the socket is replaced.  n is the table after the read.
ResponseComplete(c, n, keepAlive) ==
    LET left == (pending[c] - 1) % PendingModulus
        rest == IF left = 0 THEN RegisterWritable(n, fd[c], c) ELSE n IN
    /\ in_response' = [in_response EXCEPT ![c] = FALSE]
    /\ pending' = [pending EXCEPT ![c] = left]
    /\ has_pending' = [has_pending EXCEPT ![c] = @ /\ left # 0]
    /\ IF keepAlive THEN net' = rest /\ UNCHANGED fd
                    ELSE ReconnectSocket(c, rest)
    /\ UNCHANGED <<written, delayed>>

ReadData(f) ==
    LET c == net[f].client
        g == fd[c]
        n == [net EXCEPT ![g].toClient = @ - 1] IN
    /\ Due(f, "readable")
    /\ net[g].sock = "open" /\ net[g].toClient > 0
    /\ IF ~in_response[c]
         THEN /\ in_response' = [in_response EXCEPT ![c] = TRUE]
              /\ net' = n
              /\ UNCHANGED <<fd, written, pending, has_pending, delayed>>
         ELSE \E keepAlive \in {TRUE} \cup {~ServerCloses} :
                ResponseComplete(c, n, keepAlive)
    /\ UNCHANGED <<timers, starting>>

\* EOF completes a close-delimited response; anywhere else it is an error.
ReadEof(f) ==
    LET c == net[f].client
        g == fd[c] IN
    /\ Due(f, "readable")
    /\ net[g].sock = "open" /\ net[g].toClient = 0 /\ net[g].eof
    /\ \/ in_response[c] /\ ResponseComplete(c, net, FALSE)
       \/ ReconnectSocket(c, net) /\ UNCHANGED cvars
    /\ UNCHANGED <<timers, starting>>

ReadError(f) ==
    LET c == net[f].client IN
    /\ Due(f, "readable") /\ net[fd[c]].sock = "broken"
    /\ ReconnectSocket(c, net)
    /\ UNCHANGED <<cvars, timers, starting>>

SocketReadable(f) == ReadData(f) \/ ReadEof(f) \/ ReadError(f)

-------------------------------------------------------------------------------
(* The network and the server *)

Establish(f) ==
    /\ net[f].sock = "connecting"
    /\ \/ net' = [net EXCEPT ![f].sock = "open"]
       \/ ServerCloses /\ net' = [net EXCEPT ![f].sock = "broken"]
    /\ UNCHANGED <<fd, cvars, timers, starting>>

\* The server begins, or ends, the answer to the request at the head.
Answer(f) ==
    /\ net[f].sock = "open" /\ ~net[f].eof
    /\ IF net[f].answering
         THEN net' = [net EXCEPT ![f].toClient = @ + 1, ![f].answering = FALSE]
         ELSE /\ net[f].toServer >= IF EarlyResponses THEN 1 ELSE 2
              /\ net' = [net EXCEPT ![f].toClient = @ + 1, ![f].answering = TRUE,
                                    ![f].toServer = @ - 2]
    /\ UNCHANGED <<fd, cvars, timers, starting>>

CloseOrReset(f) ==
    /\ ServerCloses /\ net[f].sock = "open"
    /\ \/ ~net[f].eof /\ net' = [net EXCEPT ![f].eof = TRUE]
       \/ net' = [net EXCEPT ![f].sock = "broken"]
    /\ UNCHANGED <<fd, cvars, timers, starting>>

-------------------------------------------------------------------------------
\* The step leaves c with a timer, and with the number of a socket that it closed:
\* the connect that was to replace the socket failed.
GoesAstray(c) ==
    /\ timers[c] > 0 /\ fd[c] # NoFd /\ fd'[c] = fd[c]
    /\ net[fd[c]].sock # "closed" /\ net'[fd[c]].sock = "closed"

Track ==
    /\ UNCHANGED mode
    /\ stray' = (stray \/ \E c \in Conns : GoesAstray(c))

Next ==
    /\ \/ \E c \in Conns : DelayedInitialConnect(c) \/ DelayRequest(c)
       \/ \E f \in Fds : \/ SocketConnected(f) \/ SocketWriteable(f)
                         \/ SocketReadable(f)
                         \/ Establish(f) \/ Answer(f) \/ CloseOrReset(f)
    /\ Track

Handle(A) == A /\ Track

\* aeProcessEvents runs the handler of every ready descriptor and every due
\* timer; a write that is retried is not refused for ever; the server of these
\* runs answers and drains its socket.
Fairness ==
    /\ \A c \in Conns : /\ WF_vars(Handle(DelayedInitialConnect(c)))
                        /\ WF_vars(Handle(DelayRequest(c)))
    /\ \A f \in Fds :
         /\ WF_vars(Handle(SocketConnected(f))) /\ SF_vars(Handle(Send(f)))
         /\ WF_vars(Handle(SocketReadable(f)))
         /\ WF_vars(Handle(Establish(f))) /\ WF_vars(Handle(Answer(f)))

Spec == Init /\ [][Next]_vars
FairSpec == Spec /\ Fairness

-------------------------------------------------------------------------------
(* Properties *)

\* The connections and their descriptors have their types.
ConnectionsOK ==
    /\ mode \in Modes
    /\ fd \in [Conns -> Fds \cup {NoFd}]
    /\ written \in [Conns -> 0 .. Length - 1]
    /\ pending \in [Conns -> 0 .. PendingModulus - 1]
    /\ has_pending \in [Conns -> BOOLEAN]
    /\ in_response \in [Conns -> BOOLEAN]
    /\ delayed \in [Conns -> BOOLEAN]
    /\ timers \in [Conns -> 0 .. MaxTimers]
    /\ starting \in [Conns -> BOOLEAN]
    /\ net \in [Fds ->
         [sock : {"closed", "connecting", "open", "broken"},
          opener : Conns \cup {NoConn},
          r : {"none", "connected", "readable"},
          w : {"none", "connected", "writeable"},
          client : Conns \cup {NoConn},
          toServer : Int, toClient : Nat, answering : BOOLEAN, eof : BOOLEAN]]

\* Every variable has its type.
TypeOK == ConnectionsOK /\ stray \in BOOLEAN

Connected(c) == fd[c] # NoFd /\ net[fd[c]].client = c /\ net[fd[c]].r = "readable"

Units(b) == IF b THEN 1 ELSE 0

\* What is still to be sent, answered or read on c's socket, in units.
InFlight(c) ==
    LET s == net[fd[c]] IN
    s.toServer + s.toClient + Units(s.answering) + Units(in_response[c])
    + IF written[c] > 0 THEN Length - written[c] ELSE 0

\* Whole responses the peer of c still owes, whatever c itself believes.
Owed(c) == IF Connected(c) THEN InFlight(c) \div 2 ELSE 0

\* c is about to begin a batch.
AtBatchStart(c) ==
    timers[c] > 0 \/ (net[fd[c]].w = "writeable" /\ written[c] = 0)

\* c->pending agrees with the wire: a batch is begun only when nothing of the
\* previous one is in flight, and until it ends `pending' is exactly the number
\* of responses the socket still owes - across partial writes, retries, reads
\* that end anywhere, script delays and reconnects.
PendingMatchesWire ==
    \A c \in Conns : Connected(c) =>
        IF AtBatchStart(c) THEN InFlight(c) = 0 ELSE InFlight(c) = 2 * pending[c]

HasSocket(c) == fd[c] # NoFd /\ net[fd[c]].client = c

\* Something will call a handler for c again: a timer, a socket that is being
\* connected, WRITABLE, or READABLE on a socket that will become readable.
Wakeable(c) ==
    \/ starting[c] \/ timers[c] > 0
    \/ /\ HasSocket(c)
       /\ LET s == net[fd[c]] IN
          \/ s.w # "none"
          \/ s.r # "none" /\ (InFlight(c) >= 2 \/ s.eof \/ s.sock = "broken")

\* No connection is ever forgotten: each of the -c connections always has a
\* source of its next event, after every handler - but for one whose connect
\* failed, which is left without a socket for good (README).
ConnectionsKeptOpen ==
    \A c \in Conns : Wakeable(c) \/ (ConnectMayFail /\ ~HasSocket(c))

\* The same without the exception, which connect_socket does not keep: see README.
ConnectionsNeverLost == \A c \in Conns : Wakeable(c)

\* An open descriptor's handlers are called with the connection that opened it.
Direct(f) == net[f].sock # "closed" => net[f].client = net[f].opener

\* The connection an event is for has the number of the event's socket, so that its
\* handlers read, write and close that socket.
Held(f) == net[f].sock # "closed" =>
    net[f].client \in Conns /\ fd[net[f].client] = f

\* Events reach the connection that opened the socket, although numbers are given
\* out again and a failed connect leaves the old one in c->fd.  The exception is
\* what connect_socket leaves when it fails with a delay_request timer armed: the
\* timer then registers c for whichever socket has the number by now.
DescriptorsOwned == \A f \in Fds : Held(f) /\ (Direct(f) \/ stray)

\* The same without the exception, which delay_request does not keep: see README.
EventsReachOpener == \A f \in Fds : Direct(f)

\* The connection, with the socket's view of what is owed, is a RequestCycle.
Cycle == INSTANCE RequestCycle WITH owed <- [c \in Conns |-> Owed(c)]
OneBatchAtATime == Cycle!Spec

\* In the closed loop, and with a script's delays, a connection never stops sending
\* to a server that answers: batches begin and end for ever.
KeepsSending ==
    mode # "rate" =>
        \A c \in Conns : []<>has_pending[c] /\ []<>~has_pending[c]
===============================================================================
