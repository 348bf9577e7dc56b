--------------------------- MODULE ConnectionProofs ---------------------------
(***************************************************************************)
(* Theorems about the connections of a thread, for any number of them and  *)
(* of descriptors, any pipeline and every configuration the model has.     *)
(*                                                                         *)
(* Base, that the client of every descriptor in use has its number, needs  *)
(* no hypothesis, and neither does OpenInv, that it opened the socket as   *)
(* long as no timer went astray.  What the batches keep needs Quiet.  An   *)
(* action belongs to one connection, c: Does(c) says that it keeps Base    *)
(* and, for c, ConnInv, that it moves c's batch as the abstract            *)
(* RequestCycle may, and that it changes nothing the invariant of another  *)
(* connection reads (Frame),                                               *)
(* which FrameKeeps turns into the invariant of all of them.               *)
(***************************************************************************)
EXTENDS Connection, TLAPS

\* What there is about a descriptor.
Socket ==
    [sock : {"closed", "connecting", "open", "broken"},
     r : {"none", "connected", "readable"},
     w : {"none", "connected", "writeable"},
     opener : Conns \cup {NoConn}, client : Conns \cup {NoConn},
     toServer : Int, toClient : Nat, answering : BOOLEAN, eof : BOOLEAN]

\* Every descriptor is closed, and bare, or open and its client has the number.
Owned ==
    \A f \in Fds :
        IF net[f].sock = "closed" THEN net[f] = Closed
        ELSE net[f].client \in Conns /\ fd[net[f].client] = f

Tables == fd \in [Conns -> Fds \cup {NoFd}] /\ net \in [Fds -> Socket] /\ Owned

\* A connection that waits for its first connect has no descriptor.
NotStarted == \A c \in Conns : starting[c] => fd[c] = NoFd

Base == ConnectionsOK /\ Owned /\ NotStarted

-------------------------------------------------------------------------------
(* What an action can do to the descriptors *)

\* The descriptor of a connect that has just begun.
Fresh(c) ==
    [Closed EXCEPT !.sock = "connecting", !.opener = c, !.r = "connected",
                   !.w = "connected", !.client = c]

\* c's descriptor is closed, and it has a new one, which may be the same; or none.
Reopened(c) ==
    \/ \E f \in Fds :
         /\ f = fd[c] \/ net[f].sock = "closed"
         /\ fd' = [fd EXCEPT ![c] = f]
         /\ net' = [g \in Fds |-> IF g = f THEN Fresh(c)
                                  ELSE IF g = fd[c] THEN Closed ELSE net[g]]
    \/ /\ ConnectMayFail /\ fd' = fd
       /\ net' = [g \in Fds |-> IF g = fd[c] THEN Closed ELSE net[g]]

\* reconnect_socket closes the descriptor of c and opens one, or fails to: whatever the
\* handler did to that descriptor before is of no consequence.
LEMMA ReconnectReopens ==
    ASSUME Base, NEW c \in Conns, NEW n \in [Fds -> Socket],
           \A g \in Fds : g # fd[c] => n[g] = net[g],
           ReconnectSocket(c, n)
    PROVE  Reopened(c)
<1> DEFINE closed == [g \in Fds |-> IF g = fd[c] THEN Closed ELSE net[g]]
<1>1. Disconnect(c, n) = closed
  <2>1. CASE fd[c] = NoFd
    <3>1. \A g \in Fds : g # fd[c]
      BY <2>1, ConnectionAssumption
    <3> QED
      BY <2>1, <3>1 DEF Disconnect
  <2>2. CASE fd[c] # NoFd
    BY <2>2 DEF Disconnect, Base, ConnectionsOK
  <2> QED
    BY <2>1, <2>2
<1>2. CASE \E f \in {g \in Fds : closed[g].sock = "closed"} :
             /\ fd' = [fd EXCEPT ![c] = f]
             /\ net' = [closed EXCEPT ![f] = Fresh(c)]
  <2>1. PICK f \in Fds : /\ closed[f].sock = "closed"
                         /\ fd' = [fd EXCEPT ![c] = f]
                         /\ net' = [closed EXCEPT ![f] = Fresh(c)]
    BY <1>2
  <2>2. f = fd[c] \/ net[f].sock = "closed"
    BY <2>1
  <2>3. net' = [g \in Fds |-> IF g = f THEN Fresh(c)
                              ELSE IF g = fd[c] THEN Closed ELSE net[g]]
    BY <2>1
  <2> QED
    BY <2>1, <2>2, <2>3 DEF Reopened
<1>3. CASE ConnectMayFail /\ net' = closed /\ UNCHANGED fd
  BY <1>3 DEF Reopened
<1> HIDE DEF closed
<1> QED
  BY <1>1, <1>2, <1>3 DEF ReconnectSocket, ConnectSocket, Fresh

\* A descriptor that is closed, and one that is being connected, have their types.
LEMMA BareSockets ==
    /\ Closed \in Socket
    /\ \A c \in Conns : Fresh(c) \in Socket
<1> DEFINE A == {"closed", "connecting", "open", "broken"}
           B == {"none", "connected", "readable"}
           C == {"none", "connected", "writeable"}
           D == Conns \cup {NoConn}
           Truth == BOOLEAN
           F == FALSE
<1>1. /\ F \in Truth /\ 0 \in Int /\ 0 \in Nat /\ NoConn \in D
      /\ \A c \in Conns : c \in D
      /\ "closed" \in A /\ "connecting" \in A
      /\ "none" \in B /\ "connected" \in B /\ "none" \in C /\ "connected" \in C
  OBVIOUS
<1>2. Socket = [sock : A, opener : D, r : B, w : C, client : D, toServer : Int, toClient : Nat,
                answering : Truth, eof : Truth]
  BY Zenon DEF Socket
<1>3. Closed = [sock |-> "closed", opener |-> NoConn, r |-> "none", w |-> "none", client |-> NoConn,
                toServer |-> 0, toClient |-> 0, answering |-> F, eof |-> F]
  BY Zenon DEF Closed
<1>4. \A c \in Conns :
        Fresh(c) = [Closed EXCEPT !.sock = "connecting", !.opener = c,
                                  !.r = "connected", !.w = "connected", !.client = c]
  BY Zenon DEF Fresh
<1> HIDE DEF A, B, C, D, Truth, F
<1>5. Closed \in Socket
  BY <1>1, <1>2, <1>3
<1>6. ASSUME NEW c \in Conns
      PROVE  Fresh(c) \in Socket
  BY <1>1, <1>2, <1>3, <1>4, ZenonT(60)
<1> QED
  BY <1>5, <1>6

\* A reconnect keeps types and ownership of the descriptors.
LEMMA ReopenedTables ==
    ASSUME Base, NEW c \in Conns, Reopened(c),
           fd[c] = NoFd \/ net[fd[c]].client = c
    PROVE  Tables'
<1>1. Fresh(c) \in Socket /\ Closed \in Socket
  BY BareSockets
<1>2. net \in [Fds -> Socket] /\ fd \in [Conns -> Fds \cup {NoFd}]
  BY DEF Base, ConnectionsOK, Socket
<1>3. ASSUME NEW f \in Fds, f = fd[c] \/ net[f].sock = "closed",
             fd' = [fd EXCEPT ![c] = f],
             net' = [g \in Fds |-> IF g = f THEN Fresh(c)
                                   ELSE IF g = fd[c] THEN Closed ELSE net[g]]
      PROVE  Tables'
  <2>1. fd' \in [Conns -> Fds \cup {NoFd}] /\ net' \in [Fds -> Socket]
    BY <1>1, <1>2, <1>3
  <2>2. ASSUME NEW g \in Fds
        PROVE  IF net'[g].sock = "closed" THEN net'[g] = Closed
               ELSE net'[g].client \in Conns /\ fd'[net'[g].client] = g
    <3>1. CASE g = f
      BY <1>2, <1>3, <3>1 DEF Fresh, Closed
    <3>2. CASE g # f /\ g = fd[c]
      BY <1>2, <1>3, <3>2 DEF Closed
    <3>3. CASE g # f /\ g # fd[c]
      BY <1>2, <1>3, <3>3 DEF Base, Owned
    <3> QED
      BY <3>1, <3>2, <3>3
  <2> QED
    BY <2>1, <2>2 DEF Tables, Owned
<1>4. ASSUME fd' = fd,
             net' = [g \in Fds |-> IF g = fd[c] THEN Closed ELSE net[g]]
      PROVE  Tables'
  <2>1. fd' \in [Conns -> Fds \cup {NoFd}] /\ net' \in [Fds -> Socket]
    BY <1>1, <1>2, <1>4
  <2>2. ASSUME NEW g \in Fds
        PROVE  IF net'[g].sock = "closed" THEN net'[g] = Closed
               ELSE net'[g].client \in Conns /\ fd'[net'[g].client] = g
    BY <1>2, <1>4 DEF Closed, Base, Owned
  <2> QED
    BY <2>1, <2>2 DEF Tables, Owned
<1> QED
  BY <1>3, <1>4 DEF Reopened

\* A descriptor that stays open, with the owner of the number as its client.
LEMMA UpdatedTables ==
    ASSUME Base, NEW f \in Fds, NEW s \in Socket, s.sock # "closed",
           s.client \in Conns, fd[s.client] = f,
           net' = [net EXCEPT ![f] = s], fd' = fd
    PROVE  Tables'
<1>1. net \in [Fds -> Socket] /\ fd \in [Conns -> Fds \cup {NoFd}]
  BY DEF Base, ConnectionsOK, Socket
<1>2. ASSUME NEW g \in Fds
      PROVE  IF net'[g].sock = "closed" THEN net'[g] = Closed
             ELSE net'[g].client \in Conns /\ fd'[net'[g].client] = g
  BY <1>1 DEF Base, Owned
<1> QED
  BY <1>1, <1>2 DEF Tables, Owned

\* The descriptor of an event is open, and its client's own.
LEMMA ClientOwns ==
    ASSUME Base, NEW f \in Fds, net[f].sock # "closed"
    PROVE  net[f] \in Socket /\ net[f].client \in Conns /\ fd[net[f].client] = f
BY DEF Base, Owned, ConnectionsOK, Socket

\* The descriptor of an event that is due is open, and its client's own.
LEMMA DueOwns ==
    ASSUME Base, NEW f \in Fds, NEW h \in {"connected", "readable", "writeable"}, Due(f, h)
    PROVE  /\ net[f] \in Socket /\ net[f].sock # "closed"
           /\ net[f].client \in Conns /\ fd[net[f].client] = f
BY ClientOwns DEF Due, CanRead, CanWrite

-------------------------------------------------------------------------------
(* What handlers do to an open descriptor *)

\* The types of the fields of a descriptor.
LEMMA SocketFields ==
    ASSUME NEW s \in Socket
    PROVE  /\ s.sock \in {"closed", "connecting", "open", "broken"}
           /\ s.toServer \in Int /\ s.toClient \in Nat
           /\ s.r \in {"none", "connected", "readable"}
           /\ s.w \in {"none", "connected", "writeable"}
           /\ s.client \in Conns \cup {NoConn} /\ s.opener \in Conns \cup {NoConn}
BY DEF Socket

\* Each change the handlers make to an open descriptor keeps its type.
LEMMA SocketUpdates ==
    ASSUME NEW s \in Socket
    PROVE  /\ \A x \in {"none", "writeable"} : [s EXCEPT !.w = x] \in Socket
           /\ \A c \in Conns : [s EXCEPT !.w = "writeable", !.client = c] \in Socket
           /\ [s EXCEPT !.r = "readable", !.w = "writeable"] \in Socket
           /\ \A n \in Int : [s EXCEPT !.toServer = n] \in Socket
           /\ \A n \in Nat : [s EXCEPT !.toClient = n] \in Socket
           /\ \A x \in {"open", "broken"} : [s EXCEPT !.sock = x] \in Socket
           /\ [s EXCEPT !.eof = TRUE] \in Socket
           /\ \A n \in Nat : [s EXCEPT !.toClient = n, !.answering = FALSE] \in Socket
           /\ \A n \in Nat, m \in Int :
                 [s EXCEPT !.toClient = n, !.answering = TRUE, !.toServer = m] \in Socket
<1> DEFINE A == {"closed", "connecting", "open", "broken"}
           B == {"none", "connected", "readable"}
           C == {"none", "connected", "writeable"}
           D == Conns \cup {NoConn}
           Truth == BOOLEAN
           F == FALSE
           T == TRUE
<1>1. /\ F \in Truth /\ T \in Truth
      /\ A = {"closed", "connecting", "open", "broken"}
      /\ B = {"none", "connected", "readable"}
      /\ C = {"none", "connected", "writeable"}
      /\ D = Conns \cup {NoConn}
  OBVIOUS
<1>2. Socket = [sock : A, opener : D, r : B, w : C, client : D, toServer : Int, toClient : Nat,
                answering : Truth, eof : Truth]
  BY Zenon DEF Socket
<1>3. /\ [s EXCEPT !.eof = TRUE] = [s EXCEPT !.eof = T]
      /\ \A n \in Nat : [s EXCEPT !.toClient = n, !.answering = FALSE]
                       = [s EXCEPT !.toClient = n, !.answering = F]
      /\ \A n \in Nat, m \in Int :
           [s EXCEPT !.toClient = n, !.answering = TRUE, !.toServer = m]
           = [s EXCEPT !.toClient = n, !.answering = T, !.toServer = m]
  OBVIOUS
<1> HIDE DEF A, B, C, D, Truth, F, T
<1>4. /\ [s EXCEPT !.eof = T] \in Socket
      /\ \A n \in Nat : [s EXCEPT !.toClient = n, !.answering = F] \in Socket
      /\ \A n \in Nat, m \in Int :
           [s EXCEPT !.toClient = n, !.answering = T, !.toServer = m] \in Socket
  BY <1>1, <1>2
<1>5. /\ \A x \in {"none", "writeable"} : [s EXCEPT !.w = x] \in Socket
      /\ \A c \in Conns : [s EXCEPT !.w = "writeable", !.client = c] \in Socket
      /\ [s EXCEPT !.r = "readable", !.w = "writeable"] \in Socket
      /\ \A n \in Int : [s EXCEPT !.toServer = n] \in Socket
      /\ \A n \in Nat : [s EXCEPT !.toClient = n] \in Socket
      /\ \A x \in {"open", "broken"} : [s EXCEPT !.sock = x] \in Socket
  BY <1>1, <1>2
<1>6. [s EXCEPT !.eof = TRUE] \in Socket
  BY <1>3, <1>4, Zenon
<1>7. ASSUME NEW n \in Nat
      PROVE  [s EXCEPT !.toClient = n, !.answering = FALSE] \in Socket
  BY <1>3, <1>4, Zenon
<1>8. ASSUME NEW n \in Nat, NEW m \in Int
      PROVE  [s EXCEPT !.toClient = n, !.answering = TRUE, !.toServer = m] \in Socket
  <2>1. [s EXCEPT !.toClient = n, !.answering = TRUE, !.toServer = m]
          = [s EXCEPT !.toClient = n, !.answering = T, !.toServer = m]
    BY <1>3, Zenon
  <2>2. [s EXCEPT !.toClient = n, !.answering = T, !.toServer = m] \in Socket
    BY <1>4, Zenon
  <2> QED
    BY <2>1, <2>2, Zenon
<1> QED
  BY <1>5, <1>6, <1>7, <1>8, Zenon

-------------------------------------------------------------------------------
(* The invariant of a connection *)

\* What the theorems about batches assume: no response overtakes its request, and no
\* delay_request timer outlives a socket, because no run is paced or the server keeps
\* its connections.  Outside of it the theorems are false: the runs Connection_v_early
\* and Connection_v_stale of the README show how.
Quiet == ~EarlyResponses /\ (Modes \subseteq {"closed"} \/ ~ServerCloses)

\* A socket that is being connected has nothing on it yet; one that is connected is read
\* from, and ends only with a server that closes.
SocketSound(s) ==
    /\ \/ s.r = "connected" /\ s.w = "connected"
          /\ s.toServer = 0 /\ s.toClient = 0 /\ ~s.answering
       \/ s.r = "readable" /\ s.w \in {"none", "writeable"}
          /\ s.sock # "connecting" /\ s.toServer >= 0
    /\ s.eof \/ s.sock = "broken" => ServerCloses

\* A connection that is connected waits, in one way, to begin a batch; or is in the
\* middle of one, of which it still writes or waits for the responses.
Waits(c) ==
    /\ InFlight(c) = 0 /\ written[c] = 0
    /\ \/ timers[c] = 0 /\ net[fd[c]].w = "writeable"
       \/ timers[c] = 1 /\ net[fd[c]].w = "none"

InBatch(c) ==
    /\ InFlight(c) = 2 * pending[c] /\ pending[c] > 0 /\ timers[c] = 0
    /\ \/ written[c] > 0 /\ net[fd[c]].w = "writeable"
       \/ written[c] = 0 /\ net[fd[c]].w = "none"

\* A timer is armed only for a connected socket that stays, and whoever has no socket
\* is yet to start, or its connect failed.
ConnInv(c) ==
    /\ HasSocket(c) => SocketSound(net[fd[c]])
    /\ Connected(c) => Waits(c) \/ InBatch(c)
    /\ timers[c] > 0 => Connected(c) /\ ~ServerCloses
    /\ HasSocket(c) \/ starting[c] \/ ConnectMayFail

IInv == Base /\ \A c \in Conns : ConnInv(c)

\* What c's batch still owes.
Left(c) == IF Connected(c) /\ ~AtBatchStart(c) THEN pending[c] ELSE 0
\* What one step may do to it.
Advance(c) ==
    \/ Left(c)' = Left(c)
    \/ Left(c)' = 0
    \/ Left(c) = 0 /\ Left(c)' = Pipeline
    \/ Left(c) > 0 /\ Left(c)' = Left(c) - 1

\* A handler of c leaves the other connections as they are.
FrameVars(c) ==
    \A d \in Conns : d # c =>
        /\ written'[d] = written[d] /\ pending'[d] = pending[d]
        /\ in_response'[d] = in_response[d] /\ timers'[d] = timers[d]
        /\ starting'[d] = starting[d]

\* Only c's descriptors, old and new, change.
FrameNet(c) ==
    /\ \A d \in Conns : d # c => fd'[d] = fd[d]
    /\ \A g \in Fds :
        \/ net'[g] = net[g]
        \/ net[g].client \in {c, NoConn} /\ net'[g].client \in {c, NoConn}

Frame(c) == FrameVars(c) /\ FrameNet(c)

\* What a handler of c leaves alone is all that the invariant of another connection, d,
\* depends on.
LEMMA FrameKeeps ==
    ASSUME Base, NEW c \in Conns, Frame(c), NEW d \in Conns, d # c, ConnInv(d)
    PROVE  ConnInv(d)' /\ Left(d)' = Left(d) /\ Owed(d)' = Owed(d)
<1>1. /\ fd'[d] = fd[d] /\ written'[d] = written[d] /\ pending'[d] = pending[d]
      /\ in_response'[d] = in_response[d] /\ timers'[d] = timers[d]
      /\ starting'[d] = starting[d]
  BY DEF Frame, FrameVars, FrameNet
<1>2. HasSocket(d)' <=> HasSocket(d)
  BY <1>1, ConnectionAssumption DEF HasSocket, Frame, FrameNet, Base, ConnectionsOK
<1>3. HasSocket(d) => net'[fd[d]] = net[fd[d]]
  BY ConnectionAssumption DEF HasSocket, Frame, FrameNet, Base, ConnectionsOK
<1>4. Connected(d)' <=> Connected(d)
  BY <1>1, <1>2, <1>3 DEF HasSocket, Connected
<1>5. Connected(d) => HasSocket(d)
  BY DEF HasSocket, Connected
<1>6. Connected(d) => InFlight(d)' = InFlight(d) /\ (AtBatchStart(d)' <=> AtBatchStart(d))
  BY <1>1, <1>3, <1>5 DEF InFlight, AtBatchStart, Units
<1>7. Connected(d) => (Waits(d)' <=> Waits(d)) /\ (InBatch(d)' <=> InBatch(d))
  BY <1>1, <1>3, <1>5, <1>6 DEF Waits, InBatch
<1>8. ConnInv(d)'
  <2>1. HasSocket(d)' => SocketSound(net[fd[d]])'
    BY <1>1, <1>2, <1>3 DEF ConnInv, SocketSound
  <2> QED
    BY <2>1, <1>1, <1>2, <1>4, <1>7 DEF ConnInv
<1>9. Left(d)' = Left(d) /\ Owed(d)' = Owed(d)
  BY <1>1, <1>4, <1>6 DEF Left, Owed
<1> QED
  BY <1>8, <1>9

-------------------------------------------------------------------------------
(* One handler of c *)

\* The types of everything but the descriptors.
Scalars ==
    /\ mode \in Modes
    /\ written \in [Conns -> 0 .. Length - 1]
    /\ pending \in [Conns -> 0 .. PendingModulus - 1]
    /\ has_pending \in [Conns -> BOOLEAN]
    /\ in_response \in [Conns -> BOOLEAN]
    /\ delayed \in [Conns -> BOOLEAN]
    /\ timers \in [Conns -> 0 .. MaxTimers]
    /\ starting \in [Conns -> BOOLEAN]

\* What is shown of each handler.
Does(c) ==
    Base' /\ (Quiet /\ ConnInv(c) => Frame(c) /\ ConnInv(c)' /\ Advance(c))

\* f is the open descriptor of c.
Mine(c, f) ==
    /\ fd[c] = f /\ net[f] \in Socket
    /\ net[f].client = c /\ net[f].sock # "closed"

\* A handler is called with the connection whose descriptor has the event.
LEMMA DueIsMine ==
    ASSUME Base, NEW f \in Fds, NEW h \in {"connected", "readable", "writeable"},
           Due(f, h)
    PROVE  net[f].client \in Conns /\ Mine(net[f].client, f)
BY DueOwns DEF Mine

\* A handler of c that ends in reconnect_socket, with no timer left.
LEMMA ReopenDoes ==
    ASSUME Base, NEW c \in Conns, Reopened(c),
           fd[c] = NoFd \/ (fd[c] \in Fds /\ net[fd[c]].client = c),
           Scalars', FrameVars(c), ~starting'[c],
           Quiet /\ ConnInv(c) => timers'[c] = 0
    PROVE  Does(c)
<1>1. Tables'
  BY ReopenedTables
<1>2. /\ fd \in [Conns -> Fds \cup {NoFd}] /\ net \in [Fds -> Socket]
      /\ NoFd \notin Fds /\ NoConn \notin Conns
  BY ConnectionAssumption DEF Base, ConnectionsOK, Socket
<1>3. \A d \in Conns : d # c => fd'[d] = fd[d]
  BY <1>2 DEF Reopened
<1>4. NotStarted'
  BY <1>3 DEF NotStarted, Base, FrameVars
<1>5. Base'
  <2>1. ConnectionsOK' /\ Owned'
    BY <1>1 DEF Tables, Scalars, ConnectionsOK, Socket
  <2> QED
    BY <2>1, <1>4 DEF Base
<1>6. \A g \in Fds : \/ net'[g] = net[g]
                     \/ net[g].client \in {c, NoConn} /\ net'[g].client \in {c, NoConn}
  <2>1. Fresh(c).client = c /\ Closed.client = NoConn
    BY DEF Fresh, Closed
  <2>2. \A g \in Fds : net[g].sock = "closed" => net[g].client = NoConn
    BY <2>1 DEF Base, Owned
  <2> QED
    BY <1>2, <2>1, <2>2 DEF Reopened
<1>7. Frame(c)
  BY <1>3, <1>6 DEF Frame, FrameNet
<1>8. \/ fd'[c] \in Fds /\ net'[fd'[c]] = Fresh(c)
      \/ ConnectMayFail /\ (fd'[c] = NoFd \/ net'[fd'[c]] = Closed)
  BY <1>2 DEF Reopened
<1>9. ~Connected(c)'
  <2>1. Fresh(c).r = "connected" /\ Closed.client = NoConn
    BY DEF Fresh, Closed
  <2> QED
    BY <1>2, <1>8, <2>1 DEF Connected
<1>10. Quiet /\ ConnInv(c) => ConnInv(c)'
  <2>1. CASE fd'[c] \in Fds /\ net'[fd'[c]] = Fresh(c)
    <3>1. HasSocket(c)' /\ SocketSound(net[fd[c]])'
      BY <1>2, <2>1 DEF HasSocket, SocketSound, Fresh, Closed
    <3> QED
      BY <1>9, <3>1 DEF ConnInv
  <2>2. CASE ConnectMayFail /\ (fd'[c] = NoFd \/ net'[fd'[c]] = Closed)
    <3>1. ~HasSocket(c)'
      BY <1>2, <2>2 DEF HasSocket, Closed
    <3> QED
      BY <1>9, <2>2, <3>1 DEF ConnInv
  <2> QED
    BY <1>8, <2>1, <2>2
<1>11. Advance(c)
  BY <1>9 DEF Advance, Left
<1> QED
  BY <1>5, <1>7, <1>10, <1>11 DEF Does

\* A handler of c that changes c's own descriptor, which stays open.
LEMMA UpdateKeeps ==
    ASSUME Base, NEW c \in Conns, NEW f \in Fds, Mine(c, f),
           NEW s \in Socket, s.client = c, s.sock # "closed",
           net' = [net EXCEPT ![f] = s], fd' = fd,
           Scalars', FrameVars(c), starting' = starting
    PROVE  Base' /\ Frame(c) /\ Mine(c, f)' /\ net'[f] = s
<1>1. Tables'
  BY UpdatedTables DEF Mine
<1>2. NotStarted'
  BY DEF NotStarted, Base
<1>3. Base'
  <2>1. ConnectionsOK' /\ Owned'
    BY <1>1 DEF Tables, Scalars, ConnectionsOK, Socket
  <2> QED
    BY <1>2, <2>1 DEF Base
<1>4. net \in [Fds -> Socket] /\ net'[f] = s
  BY DEF Base, ConnectionsOK, Socket
<1>5. Frame(c) /\ Mine(c, f)'
  BY <1>4 DEF Frame, FrameNet, Mine
<1> QED
  BY <1>3, <1>4, <1>5

\* A batch has a length, and the number of its requests fits c->pending.
LEMMA Numbers ==
    /\ Length \in Nat /\ Length = 2 * Pipeline /\ Length > 0
    /\ Pipeline \in 1 .. PendingModulus - 1
BY ConnectionAssumption DEF Length

\* delayed_initial_connect: the first socket of c.
LEMMA InitialConnectDoes ==
    ASSUME Base, NEW c \in Conns, DelayedInitialConnect(c), UNCHANGED mode
    PROVE  Does(c)
<1>1. fd[c] = NoFd /\ net \in [Fds -> Socket]
  BY DEF DelayedInitialConnect, Base, NotStarted, ConnectionsOK, Socket
<1>2. ReconnectSocket(c, net)
  BY <1>1 DEF DelayedInitialConnect, ReconnectSocket, Disconnect
<1>3. Reopened(c)
  BY <1>1, <1>2, ReconnectReopens
<1>4. Scalars' /\ FrameVars(c) /\ ~starting'[c]
  BY DEF DelayedInitialConnect, cvars, Scalars, FrameVars, Base, ConnectionsOK
<1>5. ConnInv(c) => timers'[c] = 0
  BY <1>1, ConnectionAssumption
     DEF ConnInv, Connected, DelayedInitialConnect, Base, ConnectionsOK
<1> QED
  BY <1>1, <1>3, <1>4, <1>5, ReopenDoes

\* socket_connected: the socket begins to wait for a batch, or the handshake failed.
LEMMA ConnectedDoes ==
    ASSUME Base, NEW f \in Fds, NEW c, c = net[f].client,
           SocketConnected(f), UNCHANGED mode
    PROVE  Does(c)
<1>1. c \in Conns /\ Mine(c, f) /\ net \in [Fds -> Socket] /\ starting' = starting
  BY DueIsMine DEF SocketConnected, Base, ConnectionsOK, Socket
<1>2. ~starting[c] /\ fd[c] \in Fds
  BY <1>1, ConnectionAssumption DEF Mine, Base, NotStarted, ConnectionsOK
<1>3. CASE /\ in_response' = [in_response EXCEPT ![c] = FALSE]
           /\ written' = [written EXCEPT ![c] = 0]
           /\ net' = [net EXCEPT ![f].r = "readable", ![f].w = "writeable"]
           /\ UNCHANGED <<fd, pending, has_pending, delayed, timers>>
  <2> DEFINE s == [net[f] EXCEPT !.r = "readable", !.w = "writeable"]
  <2>1. /\ s \in Socket /\ s.client = c /\ s.sock = net[f].sock
        /\ s.r = "readable" /\ s.w = "writeable" /\ s.eof = net[f].eof
        /\ s.toServer = net[f].toServer /\ s.toClient = net[f].toClient
        /\ s.answering = net[f].answering
    <3>1. net[f] \in Socket /\ net[f].client = c
      BY <1>1 DEF Mine
    <3>2. s \in Socket
      BY <3>1, SocketUpdates
    <3>3. /\ s.client = c /\ s.sock = net[f].sock
          /\ s.r = "readable" /\ s.w = "writeable"
          /\ s.toServer = net[f].toServer /\ s.toClient = net[f].toClient
      BY <3>1 DEF Socket
    <3>4. s.eof = net[f].eof /\ s.answering = net[f].answering
      BY <3>1 DEF Socket
    <3> QED
      BY <3>2, <3>3, <3>4
  <2>2. net' = [net EXCEPT ![f] = s]
    BY <1>1, <1>3
  <2>3. Scalars' /\ FrameVars(c)
    BY <1>1, <1>3, Numbers DEF Scalars, FrameVars, Base, ConnectionsOK
  <2> HIDE DEF s
  <2>4. Base' /\ Frame(c) /\ Mine(c, f)' /\ net'[f] = s
    BY <1>1, <1>3, <2>1, <2>2, <2>3, UpdateKeeps, ZenonT(60) DEF Mine
  <2>5. ASSUME Quiet, ConnInv(c)
        PROVE  ConnInv(c)' /\ Advance(c)
    <3>1. HasSocket(c) /\ SocketSound(net[f])
      BY <1>1, <1>2, <2>5, ConnectionAssumption DEF HasSocket, Mine, ConnInv
    <3>2. net[f].r = "connected" \/ net[f].w = "connected"
      BY DEF SocketConnected, Due
    <3>3. net[f].r = "connected" /\ ~Connected(c) /\ net[f].sock # "connecting"
      BY <1>1, <3>1, <3>2 DEF SocketSound, Connected, Mine, SocketConnected, Due, CanRead, CanWrite
    <3>4. timers[c] = 0
      BY <1>1, <2>5, <3>3 DEF ConnInv, Base, ConnectionsOK
    <3>5. /\ fd'[c] = f /\ written'[c] = 0 /\ timers'[c] = 0 /\ ~in_response'[c]
          /\ starting'[c] = starting[c]
      BY <1>1, <1>3, <3>4 DEF Mine, Base, ConnectionsOK
    <3>6. SocketSound(s)
      BY <2>1, <3>1, <3>3 DEF SocketSound
    <3>7. InFlight(c)' = 0
      BY <2>1, <2>4, <3>1, <3>3, <3>5 DEF InFlight, Units, SocketSound
    <3>8. Connected(c)' /\ HasSocket(c)' /\ Waits(c)'
      BY <1>2, <2>1, <2>4, <3>5, <3>7, ConnectionAssumption, <1>1
         DEF Connected, HasSocket, Waits, Mine
    <3>9. ConnInv(c)'
      BY <2>4, <3>5, <3>6, <3>8 DEF ConnInv
    <3>10. Left(c)' = 0
      BY <2>1, <2>4, <3>5 DEF Left, AtBatchStart
    <3> QED
      BY <3>9, <3>10 DEF Advance
  <2> QED
    BY <2>4, <2>5 DEF Does
<1>4. CASE ReconnectSocket(c, net) /\ UNCHANGED <<cvars, timers>>
  <2>1. Reopened(c)
    BY <1>1, <1>4, ReconnectReopens
  <2>2. Scalars' /\ FrameVars(c)
    BY <1>1, <1>4 DEF cvars, Scalars, FrameVars, Base, ConnectionsOK
  <2>3. Quiet /\ ConnInv(c) => timers'[c] = 0
    <3> SUFFICES ASSUME Quiet, ConnInv(c) PROVE timers[c] = 0
      BY <1>4
    <3>1. HasSocket(c) /\ SocketSound(net[f])
      BY <1>1, <1>2, ConnectionAssumption DEF HasSocket, Mine, ConnInv
    <3>2. net[f].r # "readable"
      BY <3>1 DEF SocketConnected, Due, SocketSound
    <3> QED
      BY <1>1, <3>2 DEF ConnInv, Connected, Mine, Base, ConnectionsOK
  <2> QED
    BY <1>1, <1>2, <2>1, <2>2, <2>3, ReopenDoes DEF Mine
<1> QED
  BY <1>3, <1>4 DEF SocketConnected

\* What socket_writeable finds: c has no timer, and a batch is to be begun or goes on.
LEMMA DueWriteable ==
    ASSUME Base, NEW f \in Fds, NEW c, c = net[f].client, Due(f, "writeable")
    PROVE  /\ c \in Conns /\ Mine(c, f) /\ fd[c] \in Fds /\ ~starting[c]
           /\ net \in [Fds -> Socket] /\ net[f].sock # "connecting"
           /\ Quiet /\ ConnInv(c) =>
                /\ HasSocket(c) /\ Connected(c) /\ SocketSound(net[f])
                /\ net[f].w = "writeable" /\ timers[c] = 0
                /\ Waits(c) \/ InBatch(c)
                /\ (written[c] = 0 <=> Waits(c))
<1>1. c \in Conns /\ Mine(c, f) /\ net \in [Fds -> Socket]
  BY DueIsMine DEF Base, ConnectionsOK, Socket
<1>2. ~starting[c] /\ fd[c] \in Fds
  BY <1>1, ConnectionAssumption DEF Mine, Base, NotStarted, ConnectionsOK
<1>3. net[f].sock # "connecting" /\ (net[f].r = "writeable" \/ net[f].w = "writeable")
  BY DEF Due, CanRead, CanWrite
<1>4. net[f].w = "writeable"
  BY <1>1, <1>3 DEF Mine, Socket
<1>5. ASSUME Quiet, ConnInv(c)
      PROVE  /\ HasSocket(c) /\ Connected(c) /\ SocketSound(net[f])
             /\ timers[c] = 0
             /\ Waits(c) \/ InBatch(c)
             /\ (written[c] = 0 <=> Waits(c))
  <2>1. HasSocket(c) /\ SocketSound(net[f])
    BY <1>1, <1>2, <1>5, ConnectionAssumption DEF HasSocket, Mine, ConnInv
  <2>2. Connected(c)
    BY <1>1, <1>4, <2>1 DEF SocketSound, Connected, HasSocket, Mine
  <2>3. Waits(c) \/ InBatch(c)
    BY <1>5, <2>2 DEF ConnInv
  <2>4. timers[c] = 0 /\ (written[c] = 0 <=> Waits(c))
    BY <1>1, <1>4, <2>3 DEF Waits, InBatch, Mine, Base, ConnectionsOK
  <2> QED
    BY <2>1, <2>2, <2>3, <2>4
<1> QED
  BY <1>1, <1>2, <1>3, <1>4, <1>5

\* A write that has to wait gives WRITABLE up for one timer.
LEMMA MustWaitDoes ==
    ASSUME Base, NEW f \in Fds, NEW c, c = net[f].client,
           MustWait(f), UNCHANGED mode
    PROVE  Does(c)
<1> DEFINE s == [net[f] EXCEPT !.w = "none"]
<1>0. Due(f, "writeable")
  BY DEF MustWait
<1>1. /\ c \in Conns /\ Mine(c, f) /\ fd[c] \in Fds /\ ~starting[c]
      /\ net \in [Fds -> Socket]
  BY <1>0, DueWriteable
<1>2. net[f] \in Socket
  BY <1>1 DEF Mine
<1>3. s \in Socket
  BY <1>2, SocketUpdates
<1>4. /\ s.client = net[f].client /\ s.sock = net[f].sock /\ s.w = "none" /\ s.r = net[f].r
      /\ s.toServer = net[f].toServer /\ s.toClient = net[f].toClient
      /\ s.eof = net[f].eof /\ s.answering = net[f].answering
  BY <1>2 DEF Socket
<1>5. net' = [net EXCEPT ![f] = s]
  BY <1>1 DEF MustWait, DeleteWritable
<1>6. Scalars' /\ FrameVars(c) /\ fd' = fd /\ starting' = starting
  <2>1. delayed' \in [Conns -> BOOLEAN]
    BY <1>1 DEF MustWait, Base, ConnectionsOK
  <2>2. timers' \in [Conns -> 0 .. MaxTimers]
    BY <1>1, ConnectionAssumption DEF MustWait, Base, ConnectionsOK
  <2>3. /\ UNCHANGED <<fd, written, pending, has_pending, in_response, starting>>
        /\ timers' = [timers EXCEPT ![c] = @ + 1]
    BY DEF MustWait
  <2>4. FrameVars(c)
    BY <1>1, <2>3 DEF FrameVars, Base, ConnectionsOK
  <2> QED
    BY <2>1, <2>2, <2>3, <2>4 DEF Scalars, Base, ConnectionsOK
<1> HIDE DEF s
<1>7. Base' /\ Frame(c) /\ Mine(c, f)' /\ net'[f] = s
  BY <1>1, <1>3, <1>4, <1>5, <1>6, UpdateKeeps DEF Mine
<1>8. ASSUME Quiet, ConnInv(c)
      PROVE  ConnInv(c)' /\ Advance(c)
  <2>1. HasSocket(c) /\ Connected(c) /\ SocketSound(net[f]) /\ timers[c] = 0
        /\ Waits(c) /\ net[f].r = "readable"
    BY <1>0, <1>1, <1>8, DueWriteable DEF MustWait, Connected, Mine
  <2>2. ~ServerCloses
    BY <1>8 DEF MustWait, Quiet, Base, ConnectionsOK
  <2>3. /\ fd'[c] = f /\ written'[c] = 0 /\ timers'[c] = 1
        /\ in_response'[c] = in_response[c] /\ starting'[c] = starting[c]
    BY <1>1, <2>1 DEF MustWait, Mine, Base, ConnectionsOK
  <2>4. SocketSound(s)
    BY <1>4, <2>1 DEF SocketSound
  <2>5. InFlight(c)' = InFlight(c)
    BY <1>1, <1>4, <1>7, <2>1, <2>3 DEF InFlight, Units, Mine, Waits
  <2>6. Connected(c)' /\ HasSocket(c)' /\ Waits(c)'
    BY <1>1, <1>4, <1>7, <2>1, <2>3, <2>5 DEF Connected, HasSocket, Waits, Mine
  <2>7. ConnInv(c)'
    BY <1>7, <2>2, <2>3, <2>4, <2>6 DEF ConnInv
  <2>8. Left(c)' = 0
    BY <2>3 DEF Left, AtBatchStart
  <2> QED
    BY <2>7, <2>8 DEF Advance
<1> QED
  BY <1>7, <1>8 DEF Does

\* The first write of a batch sets `pending' to Pipeline, whose type holds it.
LEMMA StartBatchDoes ==
    ASSUME Base, NEW c \in Conns, StartBatch(c)
    PROVE  /\ delayed' \in [Conns -> BOOLEAN] /\ has_pending' \in [Conns -> BOOLEAN]
           /\ pending' \in [Conns -> 0 .. PendingModulus - 1]
           /\ \A d \in Conns : d # c => pending'[d] = pending[d]
           /\ pending'[c] = IF written[c] = 0 THEN Pipeline ELSE pending[c]
<1>1. CASE written[c] = 0
  <2>1. /\ delayed' = [delayed EXCEPT ![c] = FALSE]
        /\ has_pending' = [has_pending EXCEPT ![c] = TRUE]
        /\ pending' = [pending EXCEPT ![c] = Pipeline]
    BY <1>1 DEF StartBatch
  <2>2. delayed' \in [Conns -> BOOLEAN] /\ has_pending' \in [Conns -> BOOLEAN]
    BY <2>1 DEF Base, ConnectionsOK
  <2> QED
    BY <1>1, <2>1, <2>2, Numbers DEF Base, ConnectionsOK
<1>2. CASE written[c] # 0
  BY <1>2 DEF StartBatch, Base, ConnectionsOK
<1> QED
  BY <1>1, <1>2

\* What a write takes from the batch it adds to the wire: what is in flight is the same,
\* or the whole of a batch that has just begun.
LEMMA SendDoes ==
    ASSUME Base, NEW f \in Fds, NEW c, c = net[f].client,
           Send(f), UNCHANGED mode
    PROVE  Does(c)
<1>0. Due(f, "writeable") /\ StartBatch(c)
  BY DEF Send
<1>1. /\ c \in Conns /\ Mine(c, f) /\ fd[c] = f /\ ~starting[c]
      /\ net \in [Fds -> Socket]
  BY <1>0, DueWriteable DEF Mine
<1>2. net[f] \in Socket /\ written[c] \in 0 .. Length - 1
  BY <1>1 DEF Mine, Base, ConnectionsOK
<1>3. PICK n \in 1 .. Length - written[c] :
        LET sent == [net EXCEPT ![f].toServer = @ + n] IN
        IF written[c] + n = Length
          THEN written' = [written EXCEPT ![c] = 0] /\ net' = DeleteWritable(sent, f)
          ELSE written' = [written EXCEPT ![c] = @ + n] /\ net' = sent
  BY <1>1 DEF Send
<1> DEFINE all == written[c] + n = Length
           m == net[f].toServer + n
           s == IF all THEN [net[f] EXCEPT !.toServer = m, !.w = "none"]
                       ELSE [net[f] EXCEPT !.toServer = m]
<1>4. m \in Int /\ n \in Nat /\ n > 0 /\ written[c] + n <= Length
  <2>1. Length - written[c] \in Int
    BY <1>2, Numbers
  <2>2. n \in Int /\ 1 <= n /\ n <= Length - written[c]
    BY <2>1
  <2> QED
    BY <1>2, <2>1, <2>2, Numbers, SocketFields
<1>5. s \in Socket
  <2>1. [net[f] EXCEPT !.toServer = m] \in Socket
    BY <1>2, <1>4, SocketUpdates
  <2>2. [[net[f] EXCEPT !.toServer = m] EXCEPT !.w = "none"] \in Socket
    BY <2>1, SocketUpdates
  <2>3. [[net[f] EXCEPT !.toServer = m] EXCEPT !.w = "none"]
        = [net[f] EXCEPT !.toServer = m, !.w = "none"]
    OBVIOUS
  <2> QED
    BY <2>1, <2>2, <2>3
<1>6. /\ s.client = net[f].client /\ s.sock = net[f].sock /\ s.r = net[f].r
      /\ s.w = (IF all THEN "none" ELSE net[f].w)
      /\ s.toServer = m /\ s.toClient = net[f].toClient
      /\ s.eof = net[f].eof /\ s.answering = net[f].answering
  BY <1>2 DEF Socket
<1>7. net' = [net EXCEPT ![f] = s]
  BY <1>1, <1>3 DEF DeleteWritable
<1>8. /\ written' \in [Conns -> 0 .. Length - 1]
      /\ written'[c] = (IF all THEN 0 ELSE written[c] + n)
      /\ \A d \in Conns : d # c => written'[d] = written[d]
  <2>1. written \in [Conns -> 0 .. Length - 1]
    BY DEF Base, ConnectionsOK
  <2>2. CASE all
    <3>1. written' = [written EXCEPT ![c] = 0]
      BY <1>3, <2>2
    <3> QED
      BY <1>1, <2>1, <2>2, <3>1, Numbers
  <2>3. CASE ~all
    <3>1. written' = [written EXCEPT ![c] = @ + n]
      BY <1>3, <2>3
    <3>2. written[c] + n \in 0 .. Length - 1
      BY <1>2, <1>4, <2>3, Numbers
    <3> QED
      BY <1>1, <2>1, <2>3, <3>1, <3>2
  <2> QED
    BY <2>2, <2>3
<1>9. /\ Scalars' /\ FrameVars(c)
      /\ UNCHANGED <<fd, in_response, timers, starting>>
  BY <1>0, <1>1, <1>8, StartBatchDoes DEF Send, Scalars, FrameVars, Base, ConnectionsOK
<1> HIDE DEF s
<1>10. Base' /\ Frame(c) /\ Mine(c, f)' /\ net'[f] = s
  <2>1. s.client = c /\ s.sock # "closed" /\ fd' = fd /\ starting' = starting
    BY <1>1, <1>6, <1>9 DEF Mine
  <2> QED
    BY <1>1, <1>5, <1>7, <1>9, <2>1, UpdateKeeps
<1>11. ASSUME Quiet, ConnInv(c)
       PROVE  ConnInv(c)' /\ Advance(c)
  <2>1. /\ HasSocket(c) /\ Connected(c) /\ SocketSound(net[f]) /\ timers[c] = 0
        /\ Waits(c) \/ InBatch(c)
        /\ (written[c] = 0 <=> Waits(c))
        /\ net[f].w = "writeable" /\ net[f].r = "readable"
    BY <1>0, <1>1, <1>11, DueWriteable DEF Connected
  <2>2. /\ fd'[c] = f /\ timers'[c] = 0
        /\ in_response'[c] = in_response[c] /\ starting'[c] = starting[c]
        /\ pending'[c] = IF written[c] = 0 THEN Pipeline ELSE pending[c]
    BY <1>0, <1>1, <1>9, <2>1, StartBatchDoes
  <2>3. SocketSound(s)
    BY <1>2, <1>4, <1>6, <2>1, SocketFields DEF SocketSound
  <2>4. InFlight(c)' = IF written[c] = 0 THEN Length ELSE InFlight(c)
    <3>1. written[c] = 0 => InFlight(c) = 0
      BY <2>1 DEF Waits
    <3>2. InFlight(c)' = m + net[f].toClient + Units(net[f].answering)
            + Units(in_response[c])
            + IF written'[c] > 0 THEN Length - written'[c] ELSE 0
      BY <1>1, <1>6, <1>10, <2>2 DEF InFlight, Units
    <3>3. InFlight(c) = net[f].toServer + net[f].toClient + Units(net[f].answering)
            + Units(in_response[c])
            + IF written[c] > 0 THEN Length - written[c] ELSE 0
      BY <1>1 DEF InFlight
    <3>4. Units(net[f].answering) \in Int /\ Units(in_response[c]) \in Int
      BY DEF Units
    <3>5. net[f].toServer \in Int /\ net[f].toClient \in Int
      BY <1>2, SocketFields
    <3> DEFINE u == Units(net[f].answering)
               v == Units(in_response[c])
               left == IF written[c] > 0 THEN Length - written[c] ELSE 0
               left2 == IF written'[c] > 0 THEN Length - written'[c] ELSE 0
    <3>6. left2 = IF written[c] = 0 THEN Length - n ELSE left - n
      BY <1>2, <1>4, <1>8, Numbers
    <3>7. left \in Int
      BY <1>2, Numbers
    <3> HIDE DEF u, v, left, left2
    <3>8. InFlight(c)' = (net[f].toServer + n) + net[f].toClient + u + v + left2
      BY <3>2 DEF u, v, left2
    <3>9. InFlight(c) = net[f].toServer + net[f].toClient + u + v + left
      BY <3>3 DEF u, v, left
    <3>10. u \in Int /\ v \in Int
      BY <3>4 DEF u, v
    <3>11. written[c] = 0 => left = 0
      BY DEF left
    <3> DEFINE x == net[f].toServer
               y == net[f].toClient
    <3>12. x \in Int /\ y \in Int /\ n \in Int /\ Length \in Int
      BY <1>4, <3>5, Numbers
    <3>13. InFlight(c)' = (x + n) + y + u + v + left2
           /\ InFlight(c) = x + y + u + v + left
      BY <3>8, <3>9
    <3> HIDE DEF x, y
    <3>14. CASE written[c] = 0
      BY <3>1, <3>6, <3>10, <3>11, <3>12, <3>13, <3>14
    <3>15. CASE written[c] # 0
      BY <3>6, <3>7, <3>10, <3>12, <3>13, <3>15
    <3> QED
      BY <3>14, <3>15
  <2>5. pending'[c] > 0 /\ InFlight(c)' = 2 * pending'[c]
    BY <2>1, <2>2, <2>4, Numbers DEF InBatch
  <2>6. Connected(c)' /\ HasSocket(c)' /\ InBatch(c)'
    BY <1>1, <1>2, <1>4, <1>6, <1>8, <1>10, <2>1, <2>2, <2>5, Numbers
       DEF Connected, HasSocket, InBatch, Mine
  <2>7. ConnInv(c)'
    BY <1>10, <2>2, <2>3, <2>6 DEF ConnInv
  <2>8. ~AtBatchStart(c)' /\ Left(c)' = pending'[c]
    BY <1>2, <1>4, <1>6, <1>8, <1>10, <2>2, <2>6, Numbers DEF Left, AtBatchStart
  <2>9. Left(c) = IF written[c] = 0 THEN 0 ELSE pending[c]
    BY <1>1, <1>2, <2>1 DEF Left, AtBatchStart
  <2> QED
    BY <2>2, <2>7, <2>8, <2>9 DEF Advance
<1> QED
  BY <1>10, <1>11 DEF Does

\* A write that takes nothing begins the batch again, when it had not begun.
LEMMA SendRetryDoes ==
    ASSUME Base, NEW f \in Fds, NEW c, c = net[f].client,
           SendRetry(f), UNCHANGED mode
    PROVE  Does(c)
<1>0. Due(f, "writeable") /\ StartBatch(c)
  BY DEF SendRetry
<1>1. /\ c \in Conns /\ Mine(c, f) /\ fd[c] = f /\ ~starting[c]
      /\ net \in [Fds -> Socket]
  BY <1>0, DueWriteable DEF Mine
<1>2. /\ Scalars' /\ FrameVars(c)
      /\ UNCHANGED <<fd, written, in_response, timers, starting, net>>
  BY <1>0, <1>1, StartBatchDoes DEF SendRetry, Scalars, FrameVars, Base, ConnectionsOK
<1>3. Base' /\ Frame(c)
  <2>1. net' = [net EXCEPT ![f] = net[f]]
    BY <1>1, <1>2
  <2>2. /\ net[f] \in Socket /\ net[f].client = c /\ net[f].sock # "closed"
        /\ fd' = fd /\ starting' = starting
    BY <1>1, <1>2 DEF Mine
  <2> QED
    BY <1>1, <1>2, <2>1, <2>2, UpdateKeeps
<1>4. ASSUME Quiet, ConnInv(c)
      PROVE  ConnInv(c)' /\ Advance(c)
  <2>1. /\ HasSocket(c) /\ Connected(c) /\ SocketSound(net[f]) /\ timers[c] = 0
        /\ Waits(c) \/ InBatch(c)
        /\ (written[c] = 0 <=> Waits(c))
        /\ net[f].w = "writeable"
    BY <1>0, <1>1, <1>4, DueWriteable
  <2>2. pending'[c] = IF written[c] = 0 THEN Pipeline ELSE pending[c]
    BY <1>0, <1>1, StartBatchDoes
  <2>3. /\ HasSocket(c)' = HasSocket(c) /\ Connected(c)' = Connected(c)
        /\ InFlight(c)' = InFlight(c) /\ AtBatchStart(c)' = AtBatchStart(c)
        /\ Waits(c)' = Waits(c) /\ SocketSound(net[f])' = SocketSound(net[f])
    BY <1>2 DEF HasSocket, Connected, InFlight, AtBatchStart, Waits, SocketSound, Units
  <2>4. Waits(c)' \/ InBatch(c)'
    BY <1>2, <2>1, <2>2, <2>3 DEF InBatch
  <2>5. ConnInv(c)'
    BY <1>1, <1>2, <2>1, <2>3, <2>4 DEF ConnInv
  <2>6. Left(c)' = Left(c)
    BY <1>1, <1>2, <2>1, <2>2, <2>3 DEF Left, AtBatchStart
  <2> QED
    BY <2>5, <2>6 DEF Advance
<1> QED
  BY <1>3, <1>4 DEF Does

\* A write that fails replaces the socket.
LEMMA SendErrorDoes ==
    ASSUME Base, NEW f \in Fds, NEW c, c = net[f].client,
           SendError(f), UNCHANGED mode
    PROVE  Does(c)
<1>0. Due(f, "writeable") /\ StartBatch(c)
  BY DEF SendError
<1>1. /\ c \in Conns /\ Mine(c, f) /\ fd[c] = f /\ ~starting[c]
      /\ net \in [Fds -> Socket]
  BY <1>0, DueWriteable DEF Mine
<1>2. Reopened(c)
  BY <1>1, ReconnectReopens DEF SendError
<1>3. /\ Scalars' /\ FrameVars(c)
      /\ UNCHANGED <<timers, starting>>
  BY <1>0, <1>1, StartBatchDoes DEF SendError, Scalars, FrameVars, Base, ConnectionsOK
<1>4. Quiet /\ ConnInv(c) => timers'[c] = 0
  BY <1>0, <1>1, <1>3, DueWriteable
<1> QED
  BY <1>1, <1>2, <1>3, <1>4, ReopenDoes DEF Mine

\* The timer gives back the WRITABLE it took: under Quiet its socket is still there.
LEMMA DelayRequestDoes ==
    ASSUME Base, NEW c \in Conns, DelayRequest(c), UNCHANGED mode
    PROVE  Does(c)
<1> DEFINE f == fd[c]
           s == [net[f] EXCEPT !.w = "writeable", !.client = c]
<1>1. /\ net \in [Fds -> Socket] /\ f \in Fds \cup {NoFd}
      /\ UNCHANGED <<fd, written, pending, has_pending, in_response, delayed, starting>>
      /\ timers' = [timers EXCEPT ![c] = @ - 1] /\ timers[c] > 0
      /\ timers \in [Conns -> 0 .. MaxTimers] /\ MaxTimers \in Nat
  BY ConnectionAssumption DEF DelayRequest, cvars, Base, ConnectionsOK, Socket
<1>2. timers' \in [Conns -> 0 .. MaxTimers] /\ timers'[c] = timers[c] - 1
  BY <1>1
<1>3. Scalars' /\ FrameVars(c)
  BY <1>1, <1>2 DEF Scalars, FrameVars, Base, ConnectionsOK
<1>4. NotStarted'
  BY <1>1 DEF NotStarted, Base
<1>5. CASE f = NoFd \/ net[f].sock = "closed"
  <2>1. net' = net
    BY <1>5 DEF DelayRequest, RegisterWritable
  <2>2. Base'
    <3>1. Owned' /\ ConnectionsOK'
      BY <1>1, <1>3, <2>1 DEF Owned, Scalars, Base, ConnectionsOK, Socket
    <3> QED
      BY <1>4, <3>1 DEF Base
  <2>3. ~(Quiet /\ ConnInv(c))
    <3>1. ~Connected(c)
      <4>1. Closed.client = NoConn
        BY DEF Closed
      <4> QED
        BY <1>1, <1>5, <4>1, ConnectionAssumption DEF Connected, Base, Owned
    <3> QED
      BY <1>1, <3>1 DEF ConnInv
  <2> QED
    BY <2>2, <2>3 DEF Does
<1>6. CASE f # NoFd /\ net[f].sock # "closed"
  <2>1. f \in Fds /\ net[f] \in Socket
    BY <1>1, <1>6
  <2>2. s \in Socket
    BY <2>1, SocketUpdates
  <2>3. /\ s.client = c /\ s.sock = net[f].sock /\ s.w = "writeable" /\ s.r = net[f].r
        /\ s.toServer = net[f].toServer /\ s.toClient = net[f].toClient
        /\ s.eof = net[f].eof /\ s.answering = net[f].answering
    BY <2>1 DEF Socket
  <2>4. net' = [net EXCEPT ![f] = s]
    BY <1>1, <1>6, <2>1 DEF DelayRequest, RegisterWritable
  <2>5. fd' = fd /\ fd[c] = f /\ starting' = starting
    BY <1>1
  <2> HIDE DEF s, f
  <2>6. Tables'
    BY <1>6, <2>1, <2>2, <2>3, <2>4, <2>5, UpdatedTables
  <2>7. Base'
    <3>1. ConnectionsOK' /\ Owned'
      BY <1>3, <2>6 DEF Tables, Scalars, ConnectionsOK, Socket
    <3> QED
      BY <1>4, <3>1 DEF Base
  <2>8. ASSUME Quiet, ConnInv(c)
        PROVE  Frame(c) /\ ConnInv(c)' /\ Advance(c)
    <3>1. /\ Connected(c) /\ ~ServerCloses /\ HasSocket(c) /\ SocketSound(net[f])
          /\ net[f].client = c /\ net[f].r = "readable"
      BY <1>1, <2>5, <2>8 DEF ConnInv, Connected, HasSocket
    <3>2. Mine(c, f)
      BY <1>6, <2>1, <2>5, <3>1 DEF Mine
    <3>3. Frame(c) /\ net'[f] = s
      BY <1>3, <1>6, <2>1, <2>2, <2>3, <2>4, <2>5, <3>2, UpdateKeeps
    <3>4. timers[c] = 1 /\ Waits(c)
      BY <1>1, <2>8, <3>1 DEF ConnInv, Waits, InBatch
    <3>5. timers'[c] = 0 /\ fd'[c] = f
      BY <1>2, <2>5, <3>4
    <3>6. SocketSound(s)
      BY <2>3, <3>1 DEF SocketSound
    <3>7. InFlight(c)' = InFlight(c)
      BY <1>1, <2>3, <2>5, <3>3, <3>5 DEF InFlight, Units
    <3>8. f # NoFd
      BY <1>6
    <3>9. HasSocket(c)' /\ Connected(c)' /\ Waits(c)'
      BY <1>1, <2>3, <2>5, <3>1, <3>3, <3>4, <3>5, <3>7, <3>8
         DEF HasSocket, Connected, Waits
    <3>10. ConnInv(c)'
      BY <3>3, <3>5, <3>6, <3>9 DEF ConnInv
    <3>11. Left(c)' = 0
      BY <1>1, <2>3, <2>5, <3>3, <3>4, <3>5 DEF Left, AtBatchStart, Waits
    <3> QED
      BY <3>3, <3>10, <3>11 DEF Advance
  <2> QED
    BY <2>7, <2>8 DEF Does
<1> QED
  BY <1>5, <1>6

\* c->pending - 1, in the width of c->pending.
LEMMA OneLess ==
    ASSUME NEW p \in 0 .. PendingModulus - 1
    PROVE  /\ (p - 1) % PendingModulus \in 0 .. PendingModulus - 1
           /\ p > 0 => (p - 1) % PendingModulus = p - 1
<1> DEFINE M == PendingModulus
<1>1. M \in Nat /\ M > 0 /\ p \in Int
  BY ConnectionAssumption
<1> HIDE DEF M
<1>2. \A x \in Int : x % M \in 0 .. M - 1
  BY <1>1
<1>3. p > 0 => (p - 1) % M = p - 1
  BY <1>1 DEF M
<1> QED
  BY <1>1, <1>2, <1>3 DEF M

\* A connection that is readable is connected, with its own descriptor.
LEMMA DueReadable ==
    ASSUME Base, NEW f \in Fds, NEW c, c = net[f].client, Due(f, "readable")
    PROVE  /\ c \in Conns /\ Mine(c, f) /\ fd[c] = f /\ ~starting[c]
           /\ net \in [Fds -> Socket]
           /\ Quiet /\ ConnInv(c) =>
                /\ HasSocket(c) /\ Connected(c) /\ SocketSound(net[f])
                /\ net[f].r = "readable" /\ net[f].toServer >= 0
                /\ Waits(c) \/ InBatch(c)
<1>1. c \in Conns /\ Mine(c, f) /\ net \in [Fds -> Socket]
  BY DueIsMine DEF Base, ConnectionsOK, Socket
<1>2. fd[c] = f /\ ~starting[c] /\ f # NoFd
  BY <1>1, ConnectionAssumption DEF Mine, Base, NotStarted, ConnectionsOK
<1>3. net[f].r = "readable"
  BY <1>1 DEF Due, Mine, Socket
<1>4. ASSUME Quiet, ConnInv(c)
      PROVE  /\ HasSocket(c) /\ Connected(c) /\ SocketSound(net[f])
             /\ net[f].toServer >= 0
             /\ Waits(c) \/ InBatch(c)
  <2>1. HasSocket(c) /\ Connected(c)
    BY <1>1, <1>2, <1>3 DEF HasSocket, Connected, Mine
  <2>2. SocketSound(net[f]) /\ (Waits(c) \/ InBatch(c))
    BY <1>2, <1>4, <2>1 DEF ConnInv
  <2>3. net[f].toServer >= 0
    BY <1>3, <2>2 DEF SocketSound
  <2> QED
    BY <2>1, <2>2, <2>3
<1> QED
  BY <1>1, <1>2, <1>3, <1>4

\* The parts of what is in flight.
Rest(c) == IF written[c] > 0 THEN Length - written[c] ELSE 0

\* What is in flight is the sum of its parts, of which only toServer could be negative.
LEMMA Parts ==
    ASSUME Base, NEW f \in Fds, NEW c \in Conns, Mine(c, f)
    PROVE  /\ InFlight(c) = net[f].toServer + net[f].toClient
                 + Units(net[f].answering) + Units(in_response[c]) + Rest(c)
           /\ net[f].toServer \in Int /\ net[f].toClient \in Nat
           /\ Units(net[f].answering) \in {0, 1} /\ Units(in_response[c]) \in {0, 1}
           /\ Rest(c) \in Nat /\ (Rest(c) = 0 <=> written[c] = 0)
           /\ written[c] \in Nat
<1>1. written[c] \in 0 .. Length - 1 /\ fd[c] = f /\ net[f] \in Socket
  BY DEF Mine, Base, ConnectionsOK
<1>2. InFlight(c) = net[f].toServer + net[f].toClient
        + Units(net[f].answering) + Units(in_response[c]) + Rest(c)
  BY <1>1 DEF InFlight, Rest
<1>3. Rest(c) \in Nat /\ (Rest(c) = 0 <=> written[c] = 0) /\ written[c] \in Nat
  BY <1>1, Numbers DEF Rest
<1>4. Units(net[f].answering) \in {0, 1} /\ Units(in_response[c]) \in {0, 1}
  BY DEF Units
<1> QED
  BY <1>1, <1>2, <1>3, <1>4, SocketFields

\* The first part of a response is read.
LEMMA ReadBeginDoes ==
    ASSUME Base, NEW f \in Fds, NEW c, c = net[f].client, UNCHANGED mode,
           Due(f, "readable"), net[f].toClient > 0, ~in_response[c],
           in_response' = [in_response EXCEPT ![c] = TRUE],
           net' = [net EXCEPT ![f].toClient = @ - 1],
           UNCHANGED <<fd, written, pending, has_pending, delayed, timers, starting>>
    PROVE  Does(c)
<1> DEFINE s == [net[f] EXCEPT !.toClient = net[f].toClient - 1]
<1>1. /\ c \in Conns /\ Mine(c, f) /\ fd[c] = f /\ ~starting[c]
      /\ net \in [Fds -> Socket] /\ net[f] \in Socket
  BY DueReadable DEF Mine
<1>2. net[f].toClient - 1 \in Nat
  BY <1>1, SocketFields
<1>3. s \in Socket /\ net' = [net EXCEPT ![f] = s]
  BY <1>1, <1>2, SocketUpdates
<1>4. /\ s.client = net[f].client /\ s.sock = net[f].sock /\ s.w = net[f].w /\ s.r = net[f].r
      /\ s.toServer = net[f].toServer /\ s.toClient = net[f].toClient - 1
      /\ s.eof = net[f].eof /\ s.answering = net[f].answering
  BY <1>1, <1>2 DEF Socket
<1> HIDE DEF s
<1>5. Scalars' /\ FrameVars(c) /\ fd' = fd /\ starting' = starting
  BY <1>1 DEF Scalars, FrameVars, Base, ConnectionsOK
<1>6. Base' /\ Frame(c) /\ Mine(c, f)' /\ net'[f] = s
  <2>1. s.client = c /\ s.sock # "closed"
    BY <1>1, <1>4 DEF Mine
  <2> QED
    BY <1>1, <1>3, <1>5, <2>1, UpdateKeeps
<1>7. ASSUME Quiet, ConnInv(c)
      PROVE  ConnInv(c)' /\ Advance(c)
  <2>1. /\ HasSocket(c) /\ Connected(c) /\ SocketSound(net[f])
        /\ net[f].r = "readable" /\ net[f].toServer >= 0
        /\ Waits(c) \/ InBatch(c)
    BY <1>1, <1>7, DueReadable
  <2>2. InFlight(c) > 0
    BY <1>1, <1>2, <2>1, Parts
  <2>3. InBatch(c)
    BY <2>1, <2>2 DEF Waits
  <2>4. in_response'[c] = TRUE
    BY <1>1 DEF Base, ConnectionsOK
  <2>5. InFlight(c)' = InFlight(c)
    <3>1. InFlight(c)' = s.toServer + s.toClient + Units(s.answering)
            + Units(in_response'[c]) + Rest(c)'
      BY <1>1, <1>6 DEF InFlight, Rest
    <3>2. Units(in_response'[c]) = 1 /\ Units(in_response[c]) = 0
      BY <2>4 DEF Units
    <3>3. Units(s.answering) = Units(net[f].answering) /\ Rest(c)' = Rest(c)
      BY <1>4 DEF Rest
    <3>4. InFlight(c)' = net[f].toServer + (net[f].toClient - 1)
            + Units(net[f].answering) + 1 + Rest(c)
      BY <1>4, <3>1, <3>2, <3>3
    <3>5. InFlight(c) = net[f].toServer + net[f].toClient
            + Units(net[f].answering) + 0 + Rest(c)
      BY <1>1, <3>2, Parts
    <3>6. /\ net[f].toServer \in Int /\ net[f].toClient \in Int
          /\ Units(net[f].answering) \in Int /\ Rest(c) \in Int
      BY <1>1, Parts
    <3> QED
      BY <3>4, <3>5, <3>6
  <2>6. SocketSound(s)
    BY <1>4, <2>1 DEF SocketSound
  <2>7. HasSocket(c)' /\ Connected(c)' /\ InBatch(c)'
    BY <1>1, <1>4, <1>6, <2>1, <2>3, <2>5 DEF HasSocket, Connected, InBatch
  <2>8. ConnInv(c)'
    BY <1>1, <1>6, <2>3, <2>6, <2>7 DEF ConnInv, InBatch
  <2>9. Left(c)' = Left(c)
    BY <1>1, <1>4, <1>6, <2>1, <2>7 DEF Left, AtBatchStart
  <2> QED
    BY <2>8, <2>9 DEF Advance
<1> QED
  BY <1>6, <1>7 DEF Does

\* What response_complete does to the fields of c.
Completes(c, left) ==
    /\ in_response' = [in_response EXCEPT ![c] = FALSE]
    /\ pending' = [pending EXCEPT ![c] = left]
    /\ has_pending' = [has_pending EXCEPT ![c] = @ /\ left # 0]
    /\ UNCHANGED <<written, delayed, timers, starting, mode>>

\* The end of a response keeps the types, and the fields of the other connections.
LEMMA CompletesScalars ==
    ASSUME Base, NEW c \in Conns, NEW left, left = (pending[c] - 1) % PendingModulus,
           Completes(c, left)
    PROVE  Scalars' /\ FrameVars(c) /\ starting' = starting
<1>1. left \in 0 .. PendingModulus - 1
  BY OneLess DEF Base, ConnectionsOK
<1>2. has_pending' \in [Conns -> BOOLEAN]
  BY DEF Completes, Base, ConnectionsOK
<1>3. pending' \in [Conns -> 0 .. PendingModulus - 1]
  BY <1>1 DEF Completes, Base, ConnectionsOK
<1>4. in_response' \in [Conns -> BOOLEAN]
  BY DEF Completes, Base, ConnectionsOK
<1>5. FrameVars(c)
  BY DEF Completes, FrameVars, Base, ConnectionsOK
<1> QED
  BY <1>2, <1>3, <1>4, <1>5 DEF Completes, Scalars, Base, ConnectionsOK

\* The last part of a response is read, and the socket stays.
LEMMA ReadEndDoes ==
    ASSUME Base, NEW f \in Fds, NEW c, c = net[f].client,
           Due(f, "readable"), net[f].toClient > 0, in_response[c],
           NEW left, left = (pending[c] - 1) % PendingModulus, Completes(c, left),
           NEW n, n = [net EXCEPT ![f].toClient = @ - 1],
           net' = IF left = 0 THEN RegisterWritable(n, f, c) ELSE n, fd' = fd
    PROVE  Does(c)
<1> DEFINE r == [net[f] EXCEPT !.toClient = net[f].toClient - 1]
           s == IF left = 0 THEN [r EXCEPT !.w = "writeable", !.client = c] ELSE r
<1>1. /\ c \in Conns /\ Mine(c, f) /\ fd[c] = f /\ ~starting[c] /\ f # NoFd
      /\ net \in [Fds -> Socket] /\ net[f] \in Socket /\ net[f].sock # "closed"
      /\ net[f].client = c
  BY DueReadable, ConnectionAssumption DEF Mine
<1>2. net[f].toClient - 1 \in Nat
  BY <1>1, SocketFields
<1>3. r \in Socket
  BY <1>1, <1>2, SocketUpdates
<1>4. s \in Socket
  BY <1>1, <1>3, SocketUpdates
<1>5. /\ s.client = c /\ s.sock = net[f].sock /\ s.r = net[f].r
      /\ s.w = (IF left = 0 THEN "writeable" ELSE net[f].w)
      /\ s.toServer = net[f].toServer /\ s.toClient = net[f].toClient - 1
      /\ s.eof = net[f].eof /\ s.answering = net[f].answering
  BY <1>1, <1>2 DEF Socket
<1>6. n[f] = r /\ n[f].sock = net[f].sock /\ n = [net EXCEPT ![f] = r]
  BY <1>1 DEF Socket
<1>7. net' = [net EXCEPT ![f] = s]
  <2>1. CASE left = 0
    <3>1. net' = [n EXCEPT ![f].w = "writeable", ![f].client = c]
      BY <1>1, <1>6, <2>1 DEF RegisterWritable
    <3> QED
      BY <1>1, <1>6, <2>1, <3>1, ZenonT(60)
  <2>2. CASE left # 0
    BY <1>6, <2>2
  <2> QED
    BY <2>1, <2>2
<1>8. Scalars' /\ FrameVars(c) /\ starting' = starting
  BY <1>1, CompletesScalars
<1> HIDE DEF r, s
<1>9. Base' /\ Frame(c) /\ net'[f] = s
  <2>1. s.sock # "closed" /\ s.client = c
    BY <1>1, <1>5
  <2>2. c \in Conns /\ f \in Fds /\ Mine(c, f)
    BY <1>1
  <2> QED
    BY <1>4, <1>7, <1>8, <2>1, <2>2, UpdateKeeps, Zenon
<1>10. ASSUME Quiet, ConnInv(c)
       PROVE  ConnInv(c)' /\ Advance(c)
  <2>1. /\ HasSocket(c) /\ Connected(c) /\ SocketSound(net[f])
        /\ net[f].r = "readable" /\ net[f].toServer >= 0
        /\ Waits(c) \/ InBatch(c)
    BY <1>1, <1>10, DueReadable
  <2>2. /\ Units(in_response[c]) = 1 /\ Units(in_response'[c]) = 0
        /\ pending'[c] = left /\ written'[c] = written[c] /\ timers'[c] = timers[c]
    BY <1>1 DEF Units, Completes, Base, ConnectionsOK
  <2>3. /\ InFlight(c) = net[f].toServer + net[f].toClient
             + Units(net[f].answering) + 1 + Rest(c)
        /\ net[f].toServer \in Nat /\ net[f].toClient \in Nat
        /\ Units(net[f].answering) \in {0, 1}
        /\ Rest(c) \in Nat /\ (Rest(c) = 0 <=> written[c] = 0)
    <3>1. /\ InFlight(c) = net[f].toServer + net[f].toClient
               + Units(net[f].answering) + Units(in_response[c]) + Rest(c)
          /\ net[f].toServer \in Int /\ net[f].toClient \in Nat
          /\ Units(net[f].answering) \in {0, 1}
          /\ Rest(c) \in Nat /\ (Rest(c) = 0 <=> written[c] = 0)
      BY <1>1, Parts
    <3>2. Units(in_response[c]) = 1
      BY <2>2
    <3>3. net[f].toServer \in Nat
      BY <2>1, <3>1
    <3> QED
      BY <3>1, <3>2, <3>3
  <2>4. InFlight(c) >= 2
    BY <2>3
  <2>5. InBatch(c) /\ timers[c] = 0 /\ pending[c] > 0 /\ InFlight(c) = 2 * pending[c]
    <3>1. InFlight(c) # 0
      BY <2>4
    <3>2. ~Waits(c)
      BY <3>1, Zenon DEF Waits
    <3>3. InBatch(c)
      BY <2>1, <3>2, Zenon
    <3> QED
      BY <3>3, Zenon DEF InBatch
  <2>6. left = pending[c] - 1 /\ pending[c] \in Nat
    BY <1>1, <2>5, OneLess DEF Base, ConnectionsOK
  <2>7. InFlight(c)' = InFlight(c) - 2
    <3>1. InFlight(c)' = s.toServer + s.toClient + Units(s.answering)
            + Units(in_response'[c]) + Rest(c)'
      BY <1>1, <1>9 DEF InFlight, Rest
    <3>2. Units(s.answering) = Units(net[f].answering) /\ Rest(c)' = Rest(c)
      BY <1>5, <2>2 DEF Rest
    <3>3. InFlight(c)' = net[f].toServer + (net[f].toClient - 1)
            + Units(net[f].answering) + 0 + Rest(c)
      BY <1>5, <2>2, <3>1, <3>2
    <3> QED
      BY <2>3, <3>3
  <2>8. SocketSound(s)
    BY <1>5, <2>1 DEF SocketSound
  <2>9. HasSocket(c)' /\ Connected(c)'
    BY <1>1, <1>5, <1>9, <2>1 DEF HasSocket, Connected
  <2>10. CASE left = 0
    <3>1. InFlight(c) = 2 /\ written[c] = 0
      BY <2>3, <2>5, <2>6, <2>10
    <3>2. Waits(c)'
      BY <1>1, <1>5, <1>9, <2>2, <2>5, <2>7, <2>10, <3>1 DEF Waits
    <3>3. ConnInv(c)'
      BY <1>1, <1>9, <2>2, <2>5, <2>8, <2>9, <3>2 DEF ConnInv
    <3>4. Left(c)' = 0
      BY <1>1, <1>5, <1>9, <2>2, <2>10 DEF Left, AtBatchStart
    <3> QED
      BY <3>3, <3>4 DEF Advance
  <2>11. CASE left # 0
    <3>1. InBatch(c)'
      BY <1>1, <1>5, <1>9, <2>2, <2>5, <2>6, <2>7, <2>11 DEF InBatch
    <3>2. ConnInv(c)'
      BY <1>1, <1>9, <2>2, <2>5, <2>8, <2>9, <3>1 DEF ConnInv
    <3>3. ~AtBatchStart(c) /\ ~AtBatchStart(c)'
      BY <1>1, <1>5, <1>9, <2>2, <2>5, <2>11 DEF AtBatchStart, InBatch
    <3>4. Left(c) = pending[c] /\ Left(c)' = left
      BY <2>1, <2>2, <2>9, <3>3 DEF Left
    <3> QED
      BY <2>5, <2>6, <3>2, <3>4 DEF Advance
  <2> QED
    BY <2>10, <2>11
<1> QED
  BY <1>9, <1>10 DEF Does

\* A read that replaces the socket, whatever response it completes.
LEMMA ReadReopens ==
    ASSUME Base, NEW f \in Fds, NEW c, c = net[f].client, UNCHANGED mode,
           Due(f, "readable"), UNCHANGED <<timers, starting>>,
           Quiet /\ ConnInv(c) => ServerCloses,
           NEW n \in [Fds -> Socket], \A g \in Fds : g # f => n[g] = net[g],
           ReconnectSocket(c, n),
           \/ UNCHANGED cvars
           \/ \E left : left = (pending[c] - 1) % PendingModulus /\ Completes(c, left)
    PROVE  Does(c)
<1>1. /\ c \in Conns /\ Mine(c, f) /\ fd[c] = f /\ ~starting[c]
      /\ net[f].client = c
  BY DueReadable DEF Mine
<1>2. Reopened(c)
  BY <1>1, ReconnectReopens
<1>3. Scalars' /\ FrameVars(c)
  <2>1. CASE UNCHANGED cvars
    BY <2>1 DEF cvars, Scalars, FrameVars, Base, ConnectionsOK
  <2>2. CASE \E left : left = (pending[c] - 1) % PendingModulus /\ Completes(c, left)
    BY <1>1, <2>2, CompletesScalars
  <2> QED
    BY <2>1, <2>2
<1>4. Quiet /\ ConnInv(c) => timers'[c] = 0
  BY <1>1 DEF ConnInv, Base, ConnectionsOK
<1> QED
  BY <1>1, <1>2, <1>3, <1>4, ReopenDoes

\* What a response leaves of the table: at most c's own descriptor is changed.
LEMMA RegisterOwn ==
    ASSUME NEW f \in Fds, NEW c \in Conns, NEW n \in [Fds -> Socket]
    PROVE  /\ RegisterWritable(n, f, c) \in [Fds -> Socket]
           /\ \A g \in Fds : g # f => RegisterWritable(n, f, c)[g] = n[g]
<1> DEFINE s == [n[f] EXCEPT !.w = "writeable", !.client = c]
<1>1. s \in Socket
  BY SocketUpdates
<1>2. RegisterWritable(n, f, c) \in {n, [n EXCEPT ![f] = s]}
  BY DEF RegisterWritable
<1> HIDE DEF s
<1> QED
  BY <1>1, <1>2

\* The end of a response that also ends the socket.
LEMMA CompleteDoes ==
    ASSUME Base, NEW f \in Fds, NEW c, c = net[f].client, UNCHANGED mode,
           Due(f, "readable"), UNCHANGED <<timers, starting>>,
           Quiet /\ ConnInv(c) => ServerCloses,
           NEW n \in [Fds -> Socket], \A g \in Fds : g # f => n[g] = net[g],
           ResponseComplete(c, n, FALSE)
    PROVE  Does(c)
<1> DEFINE left == (pending[c] - 1) % PendingModulus
           rest == IF left = 0 THEN RegisterWritable(n, fd[c], c) ELSE n
<1>1. c \in Conns /\ fd[c] = f
  BY DueReadable
<1>2. ReconnectSocket(c, rest)
  BY DEF ResponseComplete
<1>3. Completes(c, left)
  BY DEF ResponseComplete, Completes
<1>4. rest \in [Fds -> Socket] /\ \A g \in Fds : g # f => rest[g] = net[g]
  BY <1>1, RegisterOwn
<1> HIDE DEF rest
<1> QED
  BY <1>2, <1>3, <1>4, ReadReopens

\* socket_readable with data: the beginning or the end of a response.
LEMMA ReadDataDoes ==
    ASSUME Base, NEW f \in Fds, NEW c, c = net[f].client,
           ReadData(f), UNCHANGED mode
    PROVE  Does(c)
<1> DEFINE n == [net EXCEPT ![f].toClient = @ - 1]
           left == (pending[c] - 1) % PendingModulus
<1>0. Due(f, "readable")
  BY DEF ReadData
<1>1. /\ c \in Conns /\ Mine(c, f) /\ fd[c] = f /\ net \in [Fds -> Socket]
      /\ net[f] \in Socket
  BY <1>0, DueReadable DEF Mine
<1>2. net[f].toClient > 0 /\ UNCHANGED <<timers, starting>>
  BY <1>1 DEF ReadData
<1>3. CASE ~in_response[c]
  <2>1. /\ in_response' = [in_response EXCEPT ![c] = TRUE]
        /\ net' = n
        /\ UNCHANGED <<fd, written, pending, has_pending, delayed>>
    BY <1>1, <1>3 DEF ReadData
  <2> QED
    BY <1>0, <1>1, <1>2, <1>3, <2>1, ReadBeginDoes
<1>4. CASE in_response[c] /\ ResponseComplete(c, n, TRUE)
  <2>1. Completes(c, left)
    BY <1>2, <1>4 DEF ResponseComplete, Completes
  <2>2. /\ net' = IF left = 0 THEN RegisterWritable(n, f, c) ELSE n
        /\ fd' = fd
    BY <1>1, <1>4 DEF ResponseComplete
  <2> QED
    BY <1>0, <1>1, <1>2, <1>4, <2>1, <2>2, ReadEndDoes
<1>5. CASE in_response[c] /\ ServerCloses /\ ResponseComplete(c, n, FALSE)
  <2>1. net[f].toClient - 1 \in Nat
    BY <1>1, <1>2, SocketFields
  <2>2. [net[f] EXCEPT !.toClient = net[f].toClient - 1] \in Socket
    BY <1>1, <2>1, SocketUpdates
  <2>3. n \in [Fds -> Socket] /\ \A g \in Fds : g # f => n[g] = net[g]
    BY <1>1, <2>2
  <2> HIDE DEF n
  <2> QED
    BY <1>0, <1>2, <1>5, <2>3, CompleteDoes
<1>6. in_response[c] => \E k \in {TRUE} \cup {~ServerCloses} : ResponseComplete(c, n, k)
  BY <1>1 DEF ReadData
<1> HIDE DEF n
<1>7. in_response[c] => \/ ResponseComplete(c, n, TRUE)
                        \/ ServerCloses /\ ResponseComplete(c, n, FALSE)
  BY <1>6, ConnectionAssumption
<1> QED
  BY <1>3, <1>4, <1>5, <1>7

\* A socket of c's that is readable for its end, or broken, has a server that closes.
LEMMA EndOfSocket ==
    ASSUME Base, NEW f \in Fds, NEW c, c = net[f].client, Due(f, "readable"),
           net[f].eof \/ net[f].sock = "broken", Quiet, ConnInv(c)
    PROVE  ServerCloses
BY DueReadable DEF SocketSound

\* socket_readable at the end of the stream, in a response or outside of one.
LEMMA ReadEofDoes ==
    ASSUME Base, NEW f \in Fds, NEW c, c = net[f].client,
           ReadEof(f), UNCHANGED mode
    PROVE  Does(c)
<1>0. Due(f, "readable") /\ UNCHANGED <<timers, starting>>
  BY DEF ReadEof
<1>1. c \in Conns /\ fd[c] = f /\ net \in [Fds -> Socket]
  BY <1>0, DueReadable
<1>2. Quiet /\ ConnInv(c) => ServerCloses
  BY <1>0, <1>1, EndOfSocket DEF ReadEof
<1>3. CASE ResponseComplete(c, net, FALSE)
  BY <1>0, <1>1, <1>2, <1>3, CompleteDoes
<1>4. CASE ReconnectSocket(c, net) /\ UNCHANGED cvars
  BY <1>0, <1>1, <1>2, <1>4, ReadReopens
<1> QED
  BY <1>3, <1>4 DEF ReadEof

\* socket_readable on a socket that is broken.
LEMMA ReadErrorDoes ==
    ASSUME Base, NEW f \in Fds, NEW c, c = net[f].client,
           ReadError(f), UNCHANGED mode
    PROVE  Does(c)
<1>0. Due(f, "readable") /\ UNCHANGED <<timers, starting, cvars>> /\ ReconnectSocket(c, net)
  BY DEF ReadError
<1>1. c \in Conns /\ fd[c] = f /\ net \in [Fds -> Socket]
  BY <1>0, DueReadable
<1>2. Quiet /\ ConnInv(c) => ServerCloses
  BY <1>0, <1>1, EndOfSocket DEF ReadError
<1> QED
  BY <1>0, <1>1, <1>2, ReadReopens

-------------------------------------------------------------------------------
(* The network and the server *)

\* A step of the network leaves c's fields alone, and what is in flight.
LEMMA NetworkDoes ==
    ASSUME Base, NEW f \in Fds, NEW c, c = net[f].client, net[f].sock # "closed",
           UNCHANGED <<mode, fd, cvars, timers, starting>>,
           NEW s \in Socket, s.sock # "closed", s.client = c,
           s.r = net[f].r, s.w = net[f].w,
           net' = [net EXCEPT ![f] = s],
           Quiet /\ ConnInv(c) =>
             /\ SocketSound(s)
             /\ s.r = "readable" =>
                  s.toServer + s.toClient + Units(s.answering)
                  = net[f].toServer + net[f].toClient + Units(net[f].answering)
    PROVE  Does(c)
<1>1. /\ c \in Conns /\ Mine(c, f) /\ net \in [Fds -> Socket] /\ fd[c] = f
      /\ net[f] \in Socket /\ f # NoFd
  BY ClientOwns, ConnectionAssumption DEF Mine, Base, ConnectionsOK, Socket
<1>2. /\ written' = written /\ pending' = pending /\ in_response' = in_response
      /\ timers' = timers /\ starting' = starting /\ fd' = fd
  BY DEF cvars
<1>3. Scalars' /\ FrameVars(c)
  BY DEF cvars, Scalars, FrameVars, Base, ConnectionsOK
<1>4. Base' /\ Frame(c) /\ Mine(c, f)' /\ net'[f] = s
  BY <1>1, <1>2, <1>3, UpdateKeeps
<1>5. ASSUME Quiet, ConnInv(c)
      PROVE  ConnInv(c)' /\ Advance(c)
  <2>1. HasSocket(c) /\ HasSocket(c)'
    BY <1>1, <1>2, <1>4 DEF HasSocket, Mine
  <2>2. Connected(c)' <=> Connected(c)
    BY <1>1, <1>2, <1>4, <2>1 DEF Connected, HasSocket
  <2>3. Connected(c) => InFlight(c)' = InFlight(c)
    <3> SUFFICES ASSUME Connected(c) PROVE InFlight(c)' = InFlight(c)
      OBVIOUS
    <3>1. s.toServer + s.toClient + Units(s.answering)
          = net[f].toServer + net[f].toClient + Units(net[f].answering)
      BY <1>1, <1>5 DEF Connected
    <3>2. InFlight(c)' = s.toServer + s.toClient + Units(s.answering)
            + Units(in_response[c]) + Rest(c)
      BY <1>1, <1>2, <1>4 DEF InFlight, Rest, Units
    <3>3. InFlight(c) = net[f].toServer + net[f].toClient + Units(net[f].answering)
            + Units(in_response[c]) + Rest(c)
      BY <1>1 DEF InFlight, Rest
    <3> QED
      BY <3>1, <3>2, <3>3
  <2>4. Connected(c) => /\ Waits(c)' <=> Waits(c)
                        /\ InBatch(c)' <=> InBatch(c)
                        /\ AtBatchStart(c)' <=> AtBatchStart(c)
    BY <1>1, <1>2, <1>4, <2>3 DEF Waits, InBatch, AtBatchStart
  <2>5. ConnInv(c)'
    BY <1>1, <1>2, <1>4, <1>5, <2>1, <2>2, <2>4 DEF ConnInv
  <2>6. Left(c)' = Left(c)
    BY <1>2, <2>2, <2>4 DEF Left
  <2> QED
    BY <2>5, <2>6 DEF Advance
<1> QED
  BY <1>4, <1>5 DEF Does

\* A connect ends, well or not.
LEMMA EstablishDoes ==
    ASSUME Base, NEW f \in Fds, NEW c, c = net[f].client,
           Establish(f), UNCHANGED mode
    PROVE  Does(c)
<1>1. PICK x \in {"open", "broken"} :
        /\ net' = [net EXCEPT ![f].sock = x]
        /\ x = "broken" => ServerCloses
  BY DEF Establish
<1> DEFINE s == [net[f] EXCEPT !.sock = x]
<1>2. /\ net[f].sock = "connecting" /\ net[f].sock # "closed"
      /\ UNCHANGED <<fd, cvars, timers, starting>>
  BY DEF Establish
<1>3. /\ net[f] \in Socket /\ c \in Conns /\ fd[c] = f /\ f # NoFd
      /\ net \in [Fds -> Socket]
  BY <1>2, ClientOwns, ConnectionAssumption DEF Base, ConnectionsOK, Socket
<1>4. s \in Socket
  BY <1>3, SocketUpdates
<1>5. /\ s.client = c /\ s.sock = x /\ s.r = net[f].r /\ s.w = net[f].w
      /\ s.toServer = net[f].toServer /\ s.toClient = net[f].toClient
      /\ s.eof = net[f].eof /\ s.answering = net[f].answering
  BY <1>3 DEF Socket
<1>6. net' = [net EXCEPT ![f] = s]
  BY <1>1, <1>3
<1> HIDE DEF s
<1>7. ASSUME Quiet, ConnInv(c)
      PROVE  SocketSound(s)
  <2>1. SocketSound(net[f])
    BY <1>3, <1>7 DEF ConnInv, HasSocket
  <2> QED
    BY <1>1, <1>2, <1>5, <2>1 DEF SocketSound
<1>8. /\ s.sock # "closed"
      /\ s.toServer + s.toClient + Units(s.answering)
         = net[f].toServer + net[f].toClient + Units(net[f].answering)
  BY <1>5
<1> QED
  BY <1>2, <1>4, <1>5, <1>6, <1>7, <1>8, NetworkDoes

\* The server takes a request off the wire and puts a response on it.
LEMMA AnswerDoes ==
    ASSUME Base, NEW f \in Fds, NEW c, c = net[f].client,
           Answer(f), UNCHANGED mode
    PROVE  Does(c)
<1>1. /\ net[f].sock = "open" /\ net[f].sock # "closed" /\ ~net[f].eof
      /\ UNCHANGED <<fd, cvars, timers, starting>>
  BY DEF Answer
<1>2. /\ net[f] \in Socket /\ c \in Conns /\ fd[c] = f /\ f # NoFd
      /\ net \in [Fds -> Socket]
  BY <1>1, ClientOwns, ConnectionAssumption DEF Base, ConnectionsOK, Socket
<1>3. net[f].toClient + 1 \in Nat /\ net[f].toServer - 2 \in Int
      /\ net[f].toServer \in Int /\ net[f].toClient \in Nat
  BY <1>2, SocketFields
<1>4. Quiet /\ ConnInv(c) => SocketSound(net[f])
  BY <1>2 DEF ConnInv, HasSocket
<1>5. CASE net[f].answering
  <2> DEFINE s == [net[f] EXCEPT !.toClient = net[f].toClient + 1, !.answering = FALSE]
  <2>1. s \in Socket
    BY <1>2, <1>3, SocketUpdates
  <2>2. /\ s.client = c /\ s.sock = net[f].sock /\ s.r = net[f].r /\ s.w = net[f].w
        /\ s.toServer = net[f].toServer /\ s.toClient = net[f].toClient + 1
        /\ s.eof = net[f].eof /\ ~s.answering
    BY <1>2, <1>3 DEF Socket
  <2>3. net' = [net EXCEPT ![f] = s]
    BY <1>2, <1>5 DEF Answer
  <2> HIDE DEF s
  <2>4. Quiet /\ ConnInv(c) => SocketSound(s)
    BY <1>4, <1>5, <2>2 DEF SocketSound
  <2>5. Units(s.answering) = 0 /\ Units(net[f].answering) = 1
    BY <1>5, <2>2 DEF Units
  <2>6. s.toServer + s.toClient + Units(s.answering)
        = net[f].toServer + net[f].toClient + Units(net[f].answering)
    BY <1>3, <2>2, <2>5
  <2>7. s.sock # "closed"
    BY <1>1, <2>2
  <2> QED
    BY <1>1, <2>1, <2>2, <2>3, <2>4, <2>6, <2>7, NetworkDoes
<1>6. CASE ~net[f].answering
  <2> DEFINE s == [net[f] EXCEPT !.toClient = net[f].toClient + 1, !.answering = TRUE,
                                 !.toServer = net[f].toServer - 2]
  <2>1. s \in Socket
    BY <1>2, <1>3, SocketUpdates
  <2>2. /\ s.client = c /\ s.sock = net[f].sock /\ s.r = net[f].r /\ s.w = net[f].w
        /\ s.toServer = net[f].toServer - 2 /\ s.toClient = net[f].toClient + 1
        /\ s.eof = net[f].eof /\ s.answering
    BY <1>2, <1>3 DEF Socket
  <2>3. net' = [net EXCEPT ![f] = s]
    BY <1>2, <1>6 DEF Answer
  <2> HIDE DEF s
  <2>4. ~EarlyResponses => net[f].toServer >= 2
    BY <1>6 DEF Answer
  <2>5. Quiet /\ ConnInv(c) => SocketSound(s)
    <3>1. Quiet => net[f].toServer >= 2 /\ s.toServer >= 0
      BY <1>3, <2>2, <2>4 DEF Quiet
    <3>2. Quiet /\ ConnInv(c) => s.r = "readable"
      BY <1>3, <1>4, <2>2, <3>1 DEF SocketSound
    <3> QED
      BY <1>4, <2>2, <3>1, <3>2 DEF SocketSound
  <2>6. Units(s.answering) = 1 /\ Units(net[f].answering) = 0
    BY <1>6, <2>2 DEF Units
  <2>7. s.toServer + s.toClient + Units(s.answering)
        = net[f].toServer + net[f].toClient + Units(net[f].answering)
    <3>1. s.toServer + s.toClient + Units(s.answering)
          = (net[f].toServer - 2) + (net[f].toClient + 1) + 1
      BY <2>2, <2>6
    <3>2. \A x, y \in Int : (x - 2) + (y + 1) + 1 = x + y + 0
      OBVIOUS
    <3> QED
      BY <1>3, <2>6, <3>1, <3>2
  <2>8. s.sock # "closed"
    BY <1>1, <2>2
  <2> QED
    BY <1>1, <2>1, <2>2, <2>3, <2>5, <2>7, <2>8, NetworkDoes
<1> QED
  BY <1>5, <1>6

\* The server closes the connection or resets it.
LEMMA CloseOrResetDoes ==
    ASSUME Base, NEW f \in Fds, NEW c, c = net[f].client,
           CloseOrReset(f), UNCHANGED mode
    PROVE  Does(c)
<1>1. /\ ServerCloses /\ net[f].sock = "open" /\ net[f].sock # "closed"
      /\ UNCHANGED <<fd, cvars, timers, starting>>
  BY DEF CloseOrReset
<1>2. /\ net[f] \in Socket /\ c \in Conns /\ fd[c] = f /\ f # NoFd
      /\ net \in [Fds -> Socket]
  BY <1>1, ClientOwns, ConnectionAssumption DEF Base, ConnectionsOK, Socket
<1>3. Quiet /\ ConnInv(c) => SocketSound(net[f])
  BY <1>2 DEF ConnInv, HasSocket
<1>4. PICK s \in {[net[f] EXCEPT !.eof = TRUE], [net[f] EXCEPT !.sock = "broken"]} :
        net' = [net EXCEPT ![f] = s]
  BY <1>2 DEF CloseOrReset
<1>5. s \in Socket
  BY <1>2, <1>4, SocketUpdates
<1>6. /\ s.client = c /\ s.sock \in {"open", "broken"} /\ s.r = net[f].r /\ s.w = net[f].w
      /\ s.toServer = net[f].toServer /\ s.toClient = net[f].toClient
      /\ s.answering = net[f].answering
  BY <1>1, <1>2, <1>4 DEF Socket
<1>7. Quiet /\ ConnInv(c) => SocketSound(s)
  BY <1>1, <1>3, <1>6 DEF SocketSound
<1>8. /\ s.sock # "closed"
      /\ s.toServer + s.toClient + Units(s.answering)
         = net[f].toServer + net[f].toClient + Units(net[f].answering)
  BY <1>6
<1> QED
  BY <1>1, <1>4, <1>5, <1>6, <1>7, <1>8, NetworkDoes

-------------------------------------------------------------------------------
(* The invariant *)

\* Every step is a step of one connection.
LEMMA NextDoes ==
    ASSUME Base, Next
    PROVE  \E c \in Conns : Does(c)
<1>0. UNCHANGED mode
  BY DEF Next, Track
<1>1. ASSUME NEW c \in Conns, DelayedInitialConnect(c) \/ DelayRequest(c)
      PROVE  Does(c)
  BY <1>0, <1>1, InitialConnectDoes, DelayRequestDoes
<1>2. ASSUME NEW f \in Fds, SocketConnected(f)
      PROVE  net[f].client \in Conns /\ Does(net[f].client)
  BY <1>0, <1>2, DueIsMine, ConnectedDoes DEF SocketConnected
<1>3. ASSUME NEW f \in Fds, SocketWriteable(f)
      PROVE  net[f].client \in Conns /\ Does(net[f].client)
  <2>1. Due(f, "writeable")
    BY <1>3 DEF SocketWriteable, MustWait, Send, SendRetry, SendError
  <2>2. net[f].client \in Conns
    BY <2>1, DueIsMine
  <2> QED
    BY <1>0, <1>3, <2>2, MustWaitDoes, SendDoes, SendRetryDoes, SendErrorDoes
       DEF SocketWriteable
<1>4. ASSUME NEW f \in Fds, SocketReadable(f)
      PROVE  net[f].client \in Conns /\ Does(net[f].client)
  <2>1. Due(f, "readable")
    BY <1>4 DEF SocketReadable, ReadData, ReadEof, ReadError
  <2>2. net[f].client \in Conns
    BY <2>1, DueIsMine
  <2> QED
    BY <1>0, <1>4, <2>2, ReadDataDoes, ReadEofDoes, ReadErrorDoes DEF SocketReadable
<1>5. ASSUME NEW f \in Fds, Establish(f) \/ Answer(f) \/ CloseOrReset(f)
      PROVE  net[f].client \in Conns /\ Does(net[f].client)
  <2>1. net[f].sock # "closed"
    BY <1>5 DEF Establish, Answer, CloseOrReset
  <2>2. net[f].client \in Conns
    BY <2>1, ClientOwns
  <2> QED
    BY <1>0, <1>5, <2>2, EstablishDoes, AnswerDoes, CloseOrResetDoes
<1>6. \/ \E c \in Conns : DelayedInitialConnect(c) \/ DelayRequest(c)
      \/ \E f \in Fds : \/ SocketConnected(f) \/ SocketWriteable(f) \/ SocketReadable(f)
                        \/ Establish(f) \/ Answer(f) \/ CloseOrReset(f)
  BY DEF Next
<1>7. CASE \E c \in Conns : DelayedInitialConnect(c) \/ DelayRequest(c)
  BY <1>1, <1>7
<1>8. CASE \E f \in Fds : \/ SocketConnected(f) \/ SocketWriteable(f) \/ SocketReadable(f)
                          \/ Establish(f) \/ Answer(f) \/ CloseOrReset(f)
  BY <1>2, <1>3, <1>4, <1>5, <1>8
<1> QED
  BY <1>6, <1>7, <1>8

\* Every step, and a stutter, keeps the types and the ownership.
LEMMA BaseStep ==
    ASSUME Base, [Next]_vars
    PROVE  Base'
<1>1. CASE Next
  BY <1>1, NextDoes DEF Does
<1>2. CASE UNCHANGED vars
  BY <1>2 DEF vars, cvars, Base, ConnectionsOK, Owned, NotStarted
<1> QED
  BY <1>1, <1>2

\* Under Quiet every step keeps the invariant of every connection, and moves the
\* batch of at most one.
LEMMA InvStep ==
    ASSUME Quiet, IInv, [Next]_vars
    PROVE  /\ IInv'
           /\ \/ \A d \in Conns : Owed(d)' = Owed(d)
              \/ \E c \in Conns :
                   /\ Advance(c)
                   /\ \A d \in Conns : d # c => Owed(d)' = Owed(d)
<1>1. CASE Next
  <2>1. PICK c \in Conns : Does(c)
    BY <1>1, NextDoes DEF IInv
  <2>2. Base /\ Base' /\ Frame(c) /\ ConnInv(c)' /\ Advance(c)
    BY <2>1 DEF Does, IInv
  <2>3. ASSUME NEW d \in Conns, d # c
        PROVE  ConnInv(d)' /\ Owed(d)' = Owed(d)
    BY <2>2, <2>3, FrameKeeps DEF IInv
  <2>4. IInv'
    BY <2>2, <2>3 DEF IInv
  <2> QED
    BY <2>2, <2>3, <2>4
<1>2. CASE UNCHANGED vars
  <2>1. /\ mode' = mode /\ fd' = fd /\ written' = written /\ pending' = pending
        /\ has_pending' = has_pending /\ in_response' = in_response
        /\ delayed' = delayed /\ timers' = timers /\ starting' = starting /\ net' = net
    BY <1>2 DEF vars, cvars
  <2>2. Base'
    BY <1>2, BaseStep DEF IInv
  <2>3. ASSUME NEW d \in Conns
        PROVE  ConnInv(d)' /\ Owed(d)' = Owed(d)
    <3>1. InFlight(d)' = InFlight(d) /\ Connected(d)' = Connected(d)
          /\ HasSocket(d)' = HasSocket(d)
      BY <2>1 DEF InFlight, Units, Connected, HasSocket
    <3>2. ConnInv(d)
      BY DEF IInv
    <3> QED
      BY <2>1, <3>1, <3>2 DEF ConnInv, SocketSound, Waits, InBatch, Owed
  <2> QED
    BY <2>2, <2>3 DEF IInv
<1> QED
  BY <1>1, <1>2

\* In the first state no descriptor is open and every connection is to be started.
LEMMA InitInv ==
    ASSUME Init
    PROVE  IInv /\ \A c \in Conns : Owed(c) = 0
<1>2. Closed \in Socket
  BY BareSockets
<1>3. net \in [Fds -> Socket] /\ Scalars /\ fd \in [Conns -> Fds \cup {NoFd}]
  BY <1>2, Numbers, ConnectionAssumption DEF Init, Scalars
<1>4. Owned /\ NotStarted
  BY DEF Init, Owned, NotStarted, Closed
<1>5. Base
  BY <1>3, <1>4 DEF Base, ConnectionsOK, Scalars, Socket
<1>6. ASSUME NEW c \in Conns
      PROVE  ConnInv(c) /\ Owed(c) = 0
  BY DEF Init, ConnInv, HasSocket, Connected, Owed
<1> QED
  BY <1>5, <1>6 DEF IInv

-------------------------------------------------------------------------------
(* Who opened a socket *)

\* Until a timer goes astray, a socket's client is the connection that opened it, and
\* a connection with a timer has a socket that it opened.
OpenInv ==
    ~stray =>
        /\ \A f \in Fds : Direct(f)
        /\ \A c \in Conns : timers[c] > 0 => fd[c] \in Fds /\ net[fd[c]].opener = c

\* The table n has the same sockets as net, with the same openers and clients.
Alike(n) ==
    \A g \in Fds :
        /\ n[g].opener = net[g].opener /\ n[g].client = net[g].client
        /\ n[g].sock = "closed" <=> net[g].sock = "closed"

\* delay_request: only c's number may have another client, which is c.
Registers(c) ==
    /\ timers[c] > 0
    /\ \A g \in Fds :
         /\ net'[g].opener = net[g].opener
         /\ net'[g].sock = net[g].sock
         /\ net'[g].client = net[g].client \/ (g = fd[c] /\ net'[g].client = c)

\* What an action of c may do to sockets and timers: c replaces its own socket; the
\* sockets stay, and only a client gets a timer; or c's timer registers it.
Moves(c) ==
    /\ \A d \in Conns : d # c => timers'[d] = timers[d]
    /\ \/ /\ Reopened(c) /\ timers'[c] = timers[c]
          /\ fd[c] = NoFd \/ (fd[c] \in Fds /\ Mine(c, fd[c]))
       \/ /\ fd' = fd /\ Alike(net')
          /\ timers'[c] > 0 => timers[c] > 0 \/ (fd[c] \in Fds /\ Mine(c, fd[c]))
       \/ fd' = fd /\ Registers(c)

\* One descriptor is changed, but not its opener, its client or whether it is open.
LEMMA UpdateAlike ==
    ASSUME NEW n \in [Fds -> Socket], Alike(n), NEW f \in Fds, NEW s,
           s.opener = n[f].opener, s.client = n[f].client,
           s.sock = "closed" <=> n[f].sock = "closed"
    PROVE  Alike([n EXCEPT ![f] = s])
BY DEF Alike

\* Registering WRITABLE for the connection that is the client changes neither.
LEMMA RegisterAlike ==
    ASSUME NEW n \in [Fds -> Socket], Alike(n), NEW c \in Conns,
           fd[c] \in Fds, n[fd[c]].client = c
    PROVE  Alike(RegisterWritable(n, fd[c], c))
<1> DEFINE f == fd[c]
           s == [n[f] EXCEPT !.w = "writeable", !.client = c]
<1>1. n[f] \in Socket
  OBVIOUS
<1>2. s.opener = n[f].opener /\ s.client = n[f].client /\ s.sock = n[f].sock
  BY <1>1 DEF Socket
<1>3. RegisterWritable(n, f, c) \in {n, [n EXCEPT ![f] = s]}
  BY DEF RegisterWritable
<1> HIDE DEF s
<1>4. Alike([n EXCEPT ![f] = s])
  BY <1>2, UpdateAlike
<1> QED
  BY <1>3, <1>4

\* The actions that begin a connection, and those of the network.
LEMMA OutsideMoves ==
    ASSUME Base, NEW c \in Conns
    PROVE  /\ DelayedInitialConnect(c) => Moves(c)
           /\ DelayRequest(c) => Moves(c)
           /\ \A f \in Fds : Establish(f) \/ Answer(f) \/ CloseOrReset(f) => Moves(c)
<1>1. net \in [Fds -> Socket] /\ fd \in [Conns -> Fds \cup {NoFd}]
      /\ timers \in [Conns -> 0 .. MaxTimers]
  BY DEF Base, ConnectionsOK, Socket
<1>2. ASSUME DelayedInitialConnect(c)
      PROVE  Moves(c)
  <2>1. fd[c] = NoFd /\ timers' = timers
    BY <1>2 DEF DelayedInitialConnect, Base, NotStarted
  <2>2. ReconnectSocket(c, net)
    BY <1>2, <2>1 DEF DelayedInitialConnect, ReconnectSocket, Disconnect
  <2>3. Reopened(c)
    BY <1>1, <2>2, ReconnectReopens
  <2> QED
    BY <2>1, <2>3 DEF Moves
<1>3. ASSUME DelayRequest(c)
      PROVE  Moves(c)
  <2> DEFINE s == [net[fd[c]] EXCEPT !.w = "writeable", !.client = c]
  <2>1. /\ timers[c] > 0 /\ fd' = fd /\ net' = RegisterWritable(net, fd[c], c)
        /\ \A d \in Conns : d # c => timers'[d] = timers[d]
    BY <1>1, <1>3 DEF DelayRequest
  <2>2. CASE net' = net
    BY <2>1, <2>2 DEF Moves, Registers
  <2>3. CASE fd[c] \in Fds /\ net' = [net EXCEPT ![fd[c]] = s]
    <3>1. net[fd[c]] \in Socket
      BY <1>1, <2>3
    <3>2. s.opener = net[fd[c]].opener /\ s.client = c /\ s.sock = net[fd[c]].sock
      BY <3>1 DEF Socket
    <3> HIDE DEF s
    <3> QED
      BY <1>1, <2>1, <2>3, <3>2 DEF Moves, Registers
  <2> QED
    BY <1>1, <2>1, <2>2, <2>3 DEF RegisterWritable
<1>4. ASSUME NEW f \in Fds, Establish(f) \/ Answer(f) \/ CloseOrReset(f)
      PROVE  Moves(c)
  <2>1. fd' = fd /\ timers' = timers /\ net[f] \in Socket /\ net[f].sock # "closed"
    BY <1>1, <1>4 DEF Establish, Answer, CloseOrReset
  <2>2. ASSUME NEW s, net' = [net EXCEPT ![f] = s], s.opener = net[f].opener,
               s.client = net[f].client, s.sock # "closed"
        PROVE  Alike(net')
    BY <1>1, <2>1, <2>2, UpdateAlike DEF Alike
  <2>3. Alike(net')
    <3>1. CASE Establish(f)
      <4>1. PICK x \in {"open", "broken"} :
              net' = [net EXCEPT ![f] = [net[f] EXCEPT !.sock = x]]
        BY <1>1, <3>1 DEF Establish
      <4> DEFINE s == [net[f] EXCEPT !.sock = x]
      <4>2. s.opener = net[f].opener /\ s.client = net[f].client /\ s.sock # "closed"
        BY <2>1 DEF Socket
      <4> HIDE DEF s
      <4> QED
        BY <2>2, <4>1, <4>2 DEF s
    <3>2. CASE Answer(f)
      <4> DEFINE yes == TRUE
                 no == FALSE
                 old == net[f]
                 s == [old EXCEPT !.toClient = @ + 1, !.answering = no]
                 t == [old EXCEPT !.toClient = @ + 1, !.answering = yes,
                                  !.toServer = @ - 2]
      <4>1. net' = [net EXCEPT ![f] = s] \/ net' = [net EXCEPT ![f] = t]
        BY <1>1, <3>2 DEF Answer
      <4> HIDE DEF yes, no
      <4>2. /\ s.opener = old.opener /\ s.client = old.client /\ s.sock = old.sock
            /\ t.opener = old.opener /\ t.client = old.client /\ t.sock = old.sock
        BY <2>1 DEF Socket
      <4> HIDE DEF s, t
      <4> QED
        BY <2>1, <2>2, <4>1, <4>2
    <3>3. CASE CloseOrReset(f)
      <4> DEFINE yes == TRUE
                 s == [net[f] EXCEPT !.eof = yes]
                 t == [net[f] EXCEPT !.sock = "broken"]
      <4>1. net' = [net EXCEPT ![f] = s] \/ net' = [net EXCEPT ![f] = t]
        BY <1>1, <3>3 DEF CloseOrReset
      <4> HIDE DEF yes
      <4>2. /\ s.opener = net[f].opener /\ s.client = net[f].client /\ s.sock # "closed"
            /\ t.opener = net[f].opener /\ t.client = net[f].client /\ t.sock # "closed"
        BY <2>1 DEF Socket
      <4> HIDE DEF s, t
      <4> QED
        BY <2>2, <4>1, <4>2
    <3> QED
      BY <1>4, <3>1, <3>2, <3>3
  <2> QED
    BY <2>1, <2>3 DEF Moves
<1> QED
  BY <1>2, <1>3, <1>4

\* A handler of c that ends in reconnect_socket.
LEMMA ReopenMoves ==
    ASSUME Base, NEW f \in Fds, NEW c \in Conns, Mine(c, f), timers' = timers,
           NEW n \in [Fds -> Socket], \A g \in Fds : g # f => n[g] = net[g],
           ReconnectSocket(c, n)
    PROVE  Moves(c)
<1>1. fd[c] = f
  BY DEF Mine
<1>2. Reopened(c)
  BY <1>1, ReconnectReopens
<1> QED
  BY <1>1, <1>2 DEF Moves

\* A handler of c that keeps its socket.
LEMMA UpdateMoves ==
    ASSUME Base, NEW f \in Fds, NEW c \in Conns, Mine(c, f),
           NEW s, net' = [net EXCEPT ![f] = s], fd' = fd, s.opener = net[f].opener,
           s.client = c, s.sock = net[f].sock,
           \A d \in Conns : d # c => timers'[d] = timers[d]
    PROVE  Moves(c)
<1>1. net \in [Fds -> Socket] /\ fd[c] = f /\ net[f].client = c
  BY DEF Mine, Base, ConnectionsOK, Socket
<1>2. Alike(net')
  BY <1>1, UpdateAlike DEF Alike
<1> QED
  BY <1>1, <1>2 DEF Moves

\* The handlers of an event of c.
LEMMA HandlerMoves ==
    ASSUME Base, NEW f \in Fds, NEW c, c = net[f].client,
           SocketConnected(f) \/ SocketWriteable(f) \/ SocketReadable(f)
    PROVE  c \in Conns /\ Moves(c)
<1>1. \E h \in {"connected", "readable", "writeable"} : Due(f, h)
  BY DEF SocketConnected, SocketWriteable, MustWait, Send, SendRetry, SendError,
         SocketReadable, ReadData, ReadEof, ReadError
<1>2. c \in Conns /\ Mine(c, f)
  BY <1>1, DueIsMine
<1>3. /\ net \in [Fds -> Socket] /\ timers \in [Conns -> 0 .. MaxTimers]
      /\ fd[c] = f /\ net[f] \in Socket /\ net[f].client = c /\ net[f].sock # "closed"
  BY <1>2 DEF Base, ConnectionsOK, Socket, Mine
<1>6. CASE SocketConnected(f)
  <2>1. CASE /\ net' = [net EXCEPT ![f].r = "readable", ![f].w = "writeable"]
             /\ fd' = fd /\ timers' = timers
    <3> DEFINE s == [net[f] EXCEPT !.r = "readable", !.w = "writeable"]
    <3>1. net' = [net EXCEPT ![f] = s]
      BY <1>3, <2>1
    <3>2. s.opener = net[f].opener /\ s.client = c /\ s.sock = net[f].sock
      BY <1>3 DEF Socket
    <3> HIDE DEF s
    <3> QED
      BY <1>2, <1>3, <2>1, <3>1, <3>2, UpdateMoves
  <2>2. CASE ReconnectSocket(c, net) /\ timers' = timers
    BY <1>2, <1>3, <2>2, ReopenMoves
  <2> QED
    BY <1>6, <2>1, <2>2 DEF SocketConnected
<1>7. CASE MustWait(f)
  <2> DEFINE s == [net[f] EXCEPT !.w = "none"]
  <2>1. net' = [net EXCEPT ![f] = s] /\ fd' = fd
    BY <1>3, <1>7 DEF MustWait, DeleteWritable
  <2>2. \A d \in Conns : d # c => timers'[d] = timers[d]
    BY <1>3, <1>7 DEF MustWait
  <2>3. s.opener = net[f].opener /\ s.client = c /\ s.sock = net[f].sock
    BY <1>3 DEF Socket
  <2> HIDE DEF s
  <2> QED
    BY <1>2, <1>3, <2>1, <2>2, <2>3, UpdateMoves
<1>8. CASE Send(f)
  <2>1. timers' = timers /\ fd' = fd
    BY <1>8 DEF Send
  <2>2. PICK n \in 1 .. Length - written[c] :
          LET sent == [net EXCEPT ![f].toServer = @ + n] IN
          net' = sent \/ net' = [sent EXCEPT ![f].w = "none"]
    BY <1>3, <1>8 DEF Send, DeleteWritable
  <2> DEFINE s == [net[f] EXCEPT !.toServer = @ + n]
             t == [s EXCEPT !.w = "none"]
  <2>3. /\ s.opener = net[f].opener /\ s.client = c /\ s.sock = net[f].sock
        /\ t.opener = net[f].opener /\ t.client = c /\ t.sock = net[f].sock
    BY <1>3 DEF Socket
  <2>4. net' \in {[net EXCEPT ![f] = s], [net EXCEPT ![f] = t]}
    BY <1>3, <2>2
  <2> HIDE DEF s, t
  <2> QED
    BY <1>2, <1>3, <2>1, <2>3, <2>4, UpdateMoves
<1>9. CASE SendRetry(f)
  <2>1. timers' = timers /\ fd' = fd /\ net' = net
    BY <1>9 DEF SendRetry
  <2> QED
    BY <1>2, <1>3, <2>1 DEF Moves, Alike
<1>10. CASE SendError(f)
  <2>1. ReconnectSocket(c, net) /\ timers' = timers
    BY <1>10 DEF SendError
  <2> QED
    BY <1>2, <1>3, <2>1, ReopenMoves
<1>11. CASE ReadData(f)
  <2> DEFINE s == [net[f] EXCEPT !.toClient = @ - 1]
             n == [net EXCEPT ![f] = s]
             rest == IF (pending[c] - 1) % PendingModulus = 0
                       THEN RegisterWritable(n, fd[c], c) ELSE n
  <2>1. net[f].toClient > 0 /\ timers' = timers
    BY <1>3, <1>11 DEF ReadData
  <2>2. s \in Socket /\ s.client = c
    <3>1. net[f].toClient - 1 \in Nat
      BY <1>3, <2>1, SocketFields
    <3>2. s \in Socket
      BY <1>3, <3>1, SocketUpdates
    <3> QED
      BY <1>3, <3>2 DEF Socket
  <2>3. s.opener = net[f].opener /\ s.sock = net[f].sock
    BY <1>3 DEF Socket
  <2>4. \/ net' = n /\ fd' = fd
        \/ net' = rest /\ fd' = fd
        \/ ReconnectSocket(c, rest)
    <3>1. n = [net EXCEPT ![f].toClient = @ - 1]
      BY <1>3
    <3> QED
      BY <1>3, <1>11, <3>1 DEF ReadData, ResponseComplete
  <2> HIDE DEF s
  <2>5. /\ n \in [Fds -> Socket] /\ Alike(n) /\ n[f].client = c
        /\ \A g \in Fds : g # f => n[g] = net[g]
    BY <1>3, <2>2, <2>3 DEF Alike
  <2> HIDE DEF n
  <2>6. /\ rest \in [Fds -> Socket] /\ Alike(rest)
        /\ \A g \in Fds : g # f => rest[g] = net[g]
    BY <1>2, <1>3, <2>5, RegisterOwn, RegisterAlike
  <2> HIDE DEF rest
  <2>7. CASE ReconnectSocket(c, rest)
    BY <1>2, <2>1, <2>6, <2>7, ReopenMoves
  <2>8. CASE Alike(net') /\ fd' = fd
    BY <1>2, <1>3, <2>1, <2>8 DEF Moves
  <2> QED
    BY <2>4, <2>5, <2>6, <2>7, <2>8
<1>12. CASE ReadEof(f)
  <2> DEFINE rest == IF (pending[c] - 1) % PendingModulus = 0
                       THEN RegisterWritable(net, fd[c], c) ELSE net
  <2>1. timers' = timers
    BY <1>12 DEF ReadEof
  <2>2. ReconnectSocket(c, rest) \/ ReconnectSocket(c, net)
    BY <1>12 DEF ReadEof, ResponseComplete
  <2>3. rest \in [Fds -> Socket] /\ \A g \in Fds : g # f => rest[g] = net[g]
    BY <1>2, <1>3, RegisterOwn
  <2> HIDE DEF rest
  <2> QED
    BY <1>2, <1>3, <2>1, <2>2, <2>3, ReopenMoves
<1>13. CASE ReadError(f)
  <2>1. ReconnectSocket(c, net) /\ timers' = timers
    BY <1>13 DEF ReadError
  <2> QED
    BY <1>2, <1>3, <2>1, ReopenMoves
<1> QED
  BY <1>2, <1>6, <1>7, <1>8, <1>9, <1>10, <1>11, <1>12, <1>13
     DEF SocketWriteable, SocketReadable

\* What an action of c does keeps the openers: when c replaces its socket it closes one
\* that it opened, so nobody else's; when that fails with a timer armed, stray is set.
LEMMA MovesKeepOpeners ==
    ASSUME Base, OpenInv, NEW c \in Conns, Moves(c), Track
    PROVE  OpenInv'
<1> SUFFICES ASSUME ~stray'
             PROVE  /\ \A g \in Fds : Direct(g)'
                    /\ \A d \in Conns : timers'[d] > 0 =>
                         fd'[d] \in Fds /\ net'[fd'[d]].opener = d
  BY DEF OpenInv
<1>1. ~stray /\ \A d \in Conns : ~GoesAstray(d)
  BY DEF Track
<1>2. /\ net \in [Fds -> Socket] /\ fd \in [Conns -> Fds \cup {NoFd}]
      /\ timers \in [Conns -> 0 .. MaxTimers] /\ NoFd \notin Fds /\ NoConn \notin Conns
  BY ConnectionAssumption DEF Base, ConnectionsOK, Socket
<1>3. /\ \A g \in Fds : Direct(g)
      /\ \A d \in Conns : timers[d] > 0 => fd[d] \in Fds /\ net[fd[d]].opener = d
  BY <1>1 DEF OpenInv
<1>4. \A g \in Fds : net[g].sock = "closed" => net[g].opener = NoConn
  BY DEF Base, Owned, Closed
<1>5. CASE /\ Reopened(c) /\ timers'[c] = timers[c]
           /\ \A d \in Conns : d # c => timers'[d] = timers[d]
           /\ fd[c] = NoFd \/ (fd[c] \in Fds /\ Mine(c, fd[c]))
  <2>1. Fresh(c).opener = c /\ Fresh(c).client = c /\ Closed.sock = "closed"
    BY DEF Fresh, Closed
  <2>2. \A d \in Conns : timers'[d] = timers[d]
    BY <1>5
  <2>3. fd[c] \in Fds => net[fd[c]].sock # "closed" /\ net[fd[c]].opener = c
    BY <1>2, <1>3, <1>5 DEF Mine, Direct
  <2>4. ASSUME NEW f \in Fds, f = fd[c] \/ net[f].sock = "closed",
               fd' = [fd EXCEPT ![c] = f],
               net' = [g \in Fds |-> IF g = f THEN Fresh(c)
                                     ELSE IF g = fd[c] THEN Closed ELSE net[g]]
        PROVE  /\ \A g \in Fds : Direct(g)'
               /\ \A d \in Conns : timers'[d] > 0 =>
                         fd'[d] \in Fds /\ net'[fd'[d]].opener = d
    <3>1. ASSUME NEW g \in Fds PROVE Direct(g)'
      BY <1>3, <2>1, <2>4 DEF Direct
    <3>2. ASSUME NEW d \in Conns, timers'[d] > 0
          PROVE  fd'[d] \in Fds /\ net'[fd'[d]].opener = d
      <4>1. CASE d = c
        BY <1>2, <2>1, <2>4, <4>1
      <4>2. CASE d # c
        <5>1. fd[d] \in Fds /\ net[fd[d]].opener = d
          BY <1>3, <2>2, <3>2
        <5>2. fd[d] # fd[c] /\ fd[d] # f
          BY <1>2, <1>4, <2>3, <2>4, <4>2, <5>1
        <5> QED
          BY <1>2, <2>4, <4>2, <5>1, <5>2
      <4> QED
        BY <4>1, <4>2
    <3> QED
      BY <3>1, <3>2
  <2>5. ASSUME fd' = fd,
               net' = [g \in Fds |-> IF g = fd[c] THEN Closed ELSE net[g]]
        PROVE  /\ \A g \in Fds : Direct(g)'
               /\ \A d \in Conns : timers'[d] > 0 =>
                         fd'[d] \in Fds /\ net'[fd'[d]].opener = d
    <3>1. ASSUME NEW g \in Fds PROVE Direct(g)'
      BY <1>3, <2>1, <2>5 DEF Direct
    <3>2. ASSUME NEW d \in Conns, timers'[d] > 0
          PROVE  fd'[d] \in Fds /\ net'[fd'[d]].opener = d
      <4>1. fd[d] \in Fds /\ net[fd[d]].opener = d /\ timers[d] > 0
        BY <1>3, <2>2, <3>2
      <4>2. d # c
        BY <1>1, <1>2, <2>1, <2>3, <2>5, <4>1 DEF GoesAstray
      <4>3. fd[d] # fd[c]
        BY <2>3, <4>1, <4>2
      <4> QED
        BY <2>5, <4>1, <4>3
    <3> QED
      BY <3>1, <3>2
  <2> QED
    BY <1>5, <2>4, <2>5 DEF Reopened
<1>6. CASE /\ \A d \in Conns : d # c => timers'[d] = timers[d]
           /\ fd' = fd /\ Alike(net')
           /\ timers'[c] > 0 => timers[c] > 0 \/ (fd[c] \in Fds /\ Mine(c, fd[c]))
  <2>1. ASSUME NEW g \in Fds PROVE Direct(g)'
    BY <1>3, <1>6 DEF Alike, Direct
  <2>2. ASSUME NEW d \in Conns, timers'[d] > 0
        PROVE  fd'[d] \in Fds /\ net'[fd'[d]].opener = d
    <3>1. timers[d] > 0 \/ (fd[d] \in Fds /\ net[fd[d]].opener = d)
      BY <1>3, <1>6, <2>2 DEF Mine, Direct
    <3>2. fd[d] \in Fds /\ net[fd[d]].opener = d
      BY <1>3, <3>1
    <3> QED
      BY <1>6, <3>2 DEF Alike
  <2> QED
    BY <2>1, <2>2
<1>7. CASE /\ \A d \in Conns : d # c => timers'[d] = timers[d]
           /\ fd' = fd /\ Registers(c)
  <2>1. fd[c] \in Fds /\ net[fd[c]].opener = c
    BY <1>3, <1>7 DEF Registers
  <2>2. ASSUME NEW g \in Fds PROVE Direct(g)'
    <3> SUFFICES ASSUME net'[g].sock # "closed"
                 PROVE  net'[g].client = net'[g].opener
      BY DEF Direct
    <3>1. CASE g = fd[c] /\ net'[g].client = c
      BY <1>7, <2>1, <3>1 DEF Registers
    <3>2. CASE net'[g].client = net[g].client
      BY <1>3, <1>7, <3>2 DEF Registers, Direct
    <3> QED
      BY <1>7, <3>1, <3>2 DEF Registers
  <2>3. ASSUME NEW d \in Conns, timers'[d] > 0
        PROVE  fd'[d] \in Fds /\ net'[fd'[d]].opener = d
    <3>1. timers[d] > 0
      BY <1>7, <2>3 DEF Registers
    <3> QED
      BY <1>3, <1>7, <3>1 DEF Registers
  <2> QED
    BY <2>2, <2>3
<1> QED
  BY <1>5, <1>6, <1>7 DEF Moves

\* Every step, and a stutter, keeps the openers.
LEMMA OpenStep ==
    ASSUME Base, OpenInv, [Next]_vars
    PROVE  OpenInv'
<1>1. CASE Next
  <2>1. Track
    BY <1>1 DEF Next
  <2>2. \E c \in Conns : Moves(c)
    <3>1. ASSUME NEW f \in Fds, Establish(f) \/ Answer(f) \/ CloseOrReset(f)
          PROVE  \E c \in Conns : Moves(c)
      <4>1. net[f].sock # "closed"
        BY <3>1 DEF Establish, Answer, CloseOrReset
      <4>2. net[f].client \in Conns
        BY <4>1, ClientOwns
      <4> QED
        BY <3>1, <4>2, OutsideMoves
    <3> QED
      BY <1>1, <3>1, OutsideMoves, HandlerMoves DEF Next
  <2> QED
    BY <2>1, <2>2, MovesKeepOpeners
<1>2. CASE UNCHANGED vars
  BY <1>2 DEF vars, OpenInv, Direct
<1> QED
  BY <1>1, <1>2

-------------------------------------------------------------------------------
(* Theorems *)

\* The types, and whose a descriptor is, are invariants of every configuration.
LEMMA BaseInvariant == Spec => []Base
<1>1. Init => Base
  BY InitInv DEF IInv
<1>2. Base /\ [Next]_vars => Base'
  BY BaseStep
<1> QED
  BY <1>1, <1>2, PTL DEF Spec

\* Every variable has its type: c->pending stays in its width and c->written below
\* the length of the batch, over any number of requests, errors and reconnects.
THEOREM TypeCorrect == Spec => []TypeOK
<1> DEFINE Types == Base /\ stray \in BOOLEAN
<1>1. Init => Types
  BY InitInv DEF IInv, Init
<1>2. Types /\ [Next]_vars => Types'
  BY BaseStep DEF Next, Track, vars
<1>3. Types => TypeOK
  BY DEF Base, TypeOK
<1> QED
  BY <1>1, <1>2, <1>3, PTL DEF Spec

\* Events reach the connection that opened their socket, in every configuration and
\* with any server, until a connect fails with a delay_request timer of its
\* connection armed; and also then the client of a socket has its number.
THEOREM Ownership == Spec => []DescriptorsOwned
<1> DEFINE Inv == Base /\ OpenInv
<1>1. Init => Inv
  <2>1. Init => Base
    BY InitInv DEF IInv
  <2>2. Init => OpenInv
    BY DEF Init, OpenInv, Direct, Closed
  <2> QED
    BY <2>1, <2>2
<1>2. Inv /\ [Next]_vars => Inv'
  BY BaseStep, OpenStep
<1>3. Inv => DescriptorsOwned
  BY DEF Base, Owned, OpenInv, DescriptorsOwned, Held
<1> QED
  BY <1>1, <1>2, <1>3, PTL DEF Spec

\* The invariant of every connection.
LEMMA Inductive == ASSUME Quiet PROVE Spec => []IInv
<1>1. Init => IInv
  BY InitInv
<1>2. IInv /\ [Next]_vars => IInv'
  BY InvStep
<1> QED
  BY <1>1, <1>2, PTL DEF Spec

\* What the invariant says of a connection that waits or is in a batch.
LEMMA BatchState ==
    ASSUME IInv, NEW c \in Conns
    PROVE  /\ Connected(c) => IF AtBatchStart(c) THEN InFlight(c) = 0
                              ELSE InFlight(c) = 2 * pending[c]
           /\ Owed(c) = Left(c)
<1>1. pending[c] \in Nat
  BY ConnectionAssumption DEF IInv, Base, ConnectionsOK
<1>2. timers[c] \in Nat
  BY ConnectionAssumption DEF IInv, Base, ConnectionsOK
<1>3. Waits(c) => AtBatchStart(c) /\ InFlight(c) = 0
  BY DEF Waits, AtBatchStart
<1>4. InBatch(c) => ~AtBatchStart(c) /\ InFlight(c) = 2 * pending[c]
  BY <1>2 DEF InBatch, AtBatchStart
<1>5. Connected(c) => Waits(c) \/ InBatch(c)
  BY DEF IInv, ConnInv
<1>6. (2 * pending[c]) \div 2 = pending[c] /\ 0 \div 2 = 0
  BY <1>1
<1> QED
  BY <1>3, <1>4, <1>5, <1>6 DEF Owed, Left

\* c->pending agrees with the wire, for any number of connections, any pipeline and
\* any width of the counter that holds it: a batch is begun with nothing in flight,
\* and until it ends `pending' is what the socket still owes.
THEOREM PendingIsExact == ASSUME Quiet PROVE Spec => []PendingMatchesWire
<1>1. IInv => PendingMatchesWire
  BY BatchState DEF PendingMatchesWire
<1> QED
  BY <1>1, Inductive, PTL

\* No connection is forgotten: after every handler there is a timer, a connect or a
\* registered event that will call one for it again, unless its connect failed.
THEOREM NothingIsForgotten == ASSUME Quiet PROVE Spec => []ConnectionsKeptOpen
<1>1. ASSUME IInv, NEW c \in Conns
      PROVE  Wakeable(c) \/ (ConnectMayFail /\ ~HasSocket(c))
  <2>1. ConnInv(c) /\ pending[c] \in Nat
    BY <1>1, ConnectionAssumption DEF IInv, Base, ConnectionsOK
  <2>2. CASE ~HasSocket(c)
    BY <2>1, <2>2 DEF ConnInv, Wakeable
  <2>3. CASE HasSocket(c) /\ net[fd[c]].r = "connected"
    BY <2>1, <2>3 DEF ConnInv, SocketSound, Wakeable
  <2>4. CASE HasSocket(c) /\ net[fd[c]].r # "connected"
    <3>1. Connected(c) /\ net[fd[c]].r = "readable"
      BY <2>1, <2>4 DEF ConnInv, SocketSound, HasSocket, Connected
    <3>2. CASE Waits(c)
      BY <2>4, <3>2 DEF Waits, Wakeable
    <3>3. CASE InBatch(c)
      <4>1. InFlight(c) >= 2
        BY <2>1, <3>3 DEF InBatch
      <4> QED
        BY <2>4, <3>1, <4>1 DEF Wakeable
    <3> QED
      BY <2>1, <3>1, <3>2, <3>3 DEF ConnInv
  <2> QED
    BY <2>2, <2>3, <2>4
<1>2. IInv => ConnectionsKeptOpen
  BY <1>1 DEF ConnectionsKeptOpen
<1> QED
  BY <1>2, Inductive, PTL

\* What a connection owes is what its batch still owes: now, and after a step.
LEMMA OwedIsLeft == IInv => \A c \in Conns : Owed(c) = Left(c)
BY BatchState

LEMMA OwedIsLeftNext == IInv' => \A c \in Conns : Owed(c)' = Left(c)'
<1>1. IInv' => (\A c \in Conns : Owed(c) = Left(c))'
  BY OwedIsLeft, PTL
<1> QED
  BY <1>1

\* A step moves the abstract connections by one step of RequestCycle or none.
LEMMA CycleStep ==
    ASSUME Quiet, IInv, [Next]_vars
    PROVE  [Cycle!Next]_[c \in Conns |-> Owed(c)]
<1> DEFINE owed == [c \in Conns |-> Owed(c)]
<1>1. IInv'
  BY InvStep
<1>2. CASE \A d \in Conns : Owed(d)' = Owed(d)
  <2>1. owed' = owed
    BY <1>2
  <2> QED
    BY <2>1
<1>3. CASE \E c \in Conns : /\ Advance(c)
                            /\ \A d \in Conns : d # c => Owed(d)' = Owed(d)
  <2>1. PICK c \in Conns : /\ Advance(c)
                           /\ \A d \in Conns : d # c => Owed(d)' = Owed(d)
    BY <1>3
  <2>2. Owed(c) = Left(c)
    BY OwedIsLeft
  <2>3. Owed(c)' = Left(c)'
    BY <1>1, OwedIsLeftNext
  <2>4. \/ Owed(c)' = Owed(c)
        \/ Owed(c)' = 0
        \/ Owed(c) = 0 /\ Owed(c)' = Pipeline
        \/ Owed(c) > 0 /\ Owed(c)' = Owed(c) - 1
    BY <2>1, <2>2, <2>3 DEF Advance
  <2>5. owed' = [owed EXCEPT ![c] = Owed(c)']
    BY <2>1
  <2>6. owed' = owed \/ Cycle!Abort(c) \/ Cycle!Begin(c) \/ Cycle!Complete(c)
    BY <2>4, <2>5 DEF Cycle!Abort, Cycle!Begin, Cycle!Complete
  <2> QED
    BY <2>6 DEF Cycle!Next
<1> QED
  BY <1>2, <1>3, InvStep

\* The detailed connection implements RequestCycle: every handler, and every step of
\* the network, begins a whole batch when nothing is owed, receives one response of
\* it, gives the batch up with its socket, or does none of these.
THEOREM BatchesAreCycles == ASSUME Quiet PROVE Spec => OneBatchAtATime
<1>1. Init => Cycle!Init
  BY InitInv DEF Cycle!Init
<1>2. IInv /\ [Next]_vars => [Cycle!Next]_[c \in Conns |-> Owed(c)]
  BY CycleStep
<1> QED
  BY <1>1, <1>2, Inductive, PTL DEF Spec, OneBatchAtATime, Cycle!Spec
===============================================================================
