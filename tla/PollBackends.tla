----------------------------- MODULE PollBackends -----------------------------
(***************************************************************************)
(* The five poll backends of the event loop (src/ae_select.c, ae_kqueue.c, *)
(* ae_evport.c, ae_epoll.c and ae_wepoll.c) under the table of file events *)
(* of ae.c, driven by what the handlers of wrk.c ask of them.  The build   *)
(* chooses one of them; a behaviour is of the one that Init chose.         *)
(*                                                                         *)
(* desc[f] is everything about the number f: its socket (open, and what it *)
(* is ready for), its aeFileEvent (mask and procedures), what the kernel   *)
(* watches it for, and for event ports its entry in pending_masks.         *)
(***************************************************************************)
EXTENDS Naturals, Sequences, SequencesExt, FiniteSets

CONSTANTS
    Fds,          \* the numbers sockets can have
    Backends,     \* the backends of the run
    MaxBatch      \* MAX_EVENT_BATCHSZ

ASSUME PollAssumption ==
    /\ Fds \subseteq Nat /\ IsFiniteSet(Fds)
    /\ Backends \subseteq {"select", "kqueue", "evport", "epoll", "wepoll"}
    /\ MaxBatch \in Nat \ {0}

VARIABLES
    backend,
    desc,
    fired,       \* eventLoop->fired, from the entry being processed on; "live"
                 \* says whether the entry's socket is still the one polled
    phase        \* where aeProcessEvents is: about to poll, or past it, with
                 \* first the fired entries and then the timers

vars == <<backend, desc, fired, phase>>

R == "readable"
W == "writable"

\* A number without socket, event or registration.
Unused ==
    [open |-> FALSE, ready |-> {}, mask |-> {}, rproc |-> "none", wproc |-> "none",
     kernel |-> {}, pend |-> {}, aborted |-> FALSE]

Init ==
    /\ backend \in Backends
    /\ desc = [f \in Fds |-> Unused]
    /\ fired = <<>>
    /\ phase = "poll"

-------------------------------------------------------------------------------
(* aeApiAddEvent: whether it succeeds, and what it leaves *)

\* FD_SET knows nothing of sockets: it takes any number.
SelectAdd(d, m) == [d EXCEPT !.kernel = @ \cup m]

\* One filter for each direction.
KqueueAdd(d, m) == [d EXCEPT !.kernel = @ \cup m]

\* EPOLL_CTL_ADD of a descriptor that is in the set fails, as does EPOLL_CTL_MOD
\* of one that is not.
EpollAccepts(d) == d.open /\ (d.mask = {} <=> d.kernel = {})
EpollAdd(d, m) == [d EXCEPT !.kernel = d.mask \cup m]

\* wepoll is given wpk_native(fd): no socket for a number that is closed.
WepollAdd(d, m) == EpollAdd(d, m)

\* Mutant of EvportAdd: the events associated before are forgotten.
EvportAddReplaces(d, m) ==
    IF d.pend # {} THEN [d EXCEPT !.pend = @ \cup m]
                   ELSE [d EXCEPT !.kernel = m]

\* A descriptor that is pending is associated again by the next poll.
EvportAccepts(d) == d.open \/ d.pend # {}
EvportAdd(d, m) ==
    IF d.pend # {} THEN [d EXCEPT !.pend = @ \cup m \cup d.mask]
                   ELSE [d EXCEPT !.kernel = d.mask \cup m]

Accepts(d) ==
    CASE backend = "select" -> TRUE
      [] backend = "kqueue" -> d.open
      [] backend = "evport" -> EvportAccepts(d)
      [] OTHER -> EpollAccepts(d)

AddEvent(d, m) ==
    CASE backend = "select" -> SelectAdd(d, m)
      [] backend = "kqueue" -> KqueueAdd(d, m)
      [] backend = "evport" -> EvportAdd(d, m)
      [] backend = "wepoll" -> WepollAdd(d, m)
      [] OTHER -> EpollAdd(d, m)

-------------------------------------------------------------------------------
(* aeApiDelEvent, called when the mask of the event is already the new one *)

SelectDel(d, m) == [d EXCEPT !.kernel = @ \ m]
KqueueDel(d, m) == [d EXCEPT !.kernel = @ \ m]
EpollDel(d, m)  == [d EXCEPT !.kernel = d.mask \ m]
WepollDel(d, m) == EpollDel(d, m)

\* port_dissociate of what is not associated fails, and the program aborts.
EvportDel(d, m) ==
    IF d.pend # {} THEN [d EXCEPT !.pend = @ \ m]
    ELSE IF d.mask = {} THEN [d EXCEPT !.kernel = {}, !.aborted = @ \/ d.kernel = {}]
    ELSE [d EXCEPT !.kernel = d.mask, !.aborted = @ \/ ~d.open]

DelEvent(d, m) ==
    CASE backend = "select" -> SelectDel(d, m)
      [] backend = "kqueue" -> KqueueDel(d, m)
      [] backend = "evport" -> EvportDel(d, m)
      [] backend = "wepoll" -> WepollDel(d, m)
      [] OTHER -> EpollDel(d, m)

-------------------------------------------------------------------------------
(* aeCreateFileEvent, aeDeleteFileEvent, and sockets that come and go *)

\* Mutant of CreateFileEvent: the last procedure serves both directions.
CreateFileEventOneProc(d, m, rproc, wproc) ==
    IF Accepts(d)
      THEN [AddEvent(d, m) EXCEPT !.mask = @ \cup m, !.rproc = wproc, !.wproc = wproc]
      ELSE d

CreateFileEvent(d, m, rproc, wproc) ==
    IF Accepts(d)
      THEN [AddEvent(d, m) EXCEPT !.mask = @ \cup m,
                                  !.rproc = IF R \in m THEN rproc ELSE @,
                                  !.wproc = IF W \in m THEN wproc ELSE @]
      ELSE d

DeleteFileEvent(d, m) ==
    IF d.mask = {} THEN d ELSE DelEvent([d EXCEPT !.mask = @ \ m], m)

\* The kernel drops a socket's registrations with the socket; an fd_set stays.
CloseSocket(d) ==
    [d EXCEPT !.open = FALSE, !.ready = {},
              !.kernel = IF backend = "select" THEN @ ELSE {}]

\* connect_socket on the number of d.
Connecting(d) ==
    CreateFileEvent([d EXCEPT !.open = TRUE], {R, W}, "connected", "connected")

-------------------------------------------------------------------------------
(* aeApiPoll: what the kernel reports of f *)

Entry(f, bits) == [fd |-> f, bits |-> bits, rfired |-> FALSE, live |-> TRUE]

Reportable(f) == desc[f].kernel \cap desc[f].ready

\* select fails with EBADF for ever when an fd_set holds a closed number.
Poisoned == backend = "select" /\ \E f \in Fds : desc[f].kernel # {} /\ ~desc[f].open

\* The kernel reports in an order of its own.
Fire(entries) == fired' \in SetToSeqs(entries)

\* Every registered number, in order, also one that is not ready.
SelectPoll ==
    LET some == ~Poisoned /\ \E f \in Fds : Reportable(f) # {}
        all  == {f \in Fds : some /\ desc[f].mask # {}} IN
    /\ Fire({Entry(f, desc[f].mask \cap Reportable(f)) : f \in all})
    /\ \A i, j \in DOMAIN fired' : i < j => fired'[i].fd < fired'[j].fd
    /\ UNCHANGED desc

\* An entry for each filter: a socket may have two.
KqueuePoll ==
    /\ Fire(UNION {{Entry(f, {b}) : b \in Reportable(f)} : f \in Fds})
    /\ UNCHANGED desc

\* An error or a hangup is reported unasked, as writable.
EpollBits(f) == Reportable(f) \cup
    IF desc[f].kernel # {} /\ "err" \in desc[f].ready THEN {W} ELSE {}
EpollPoll ==
    /\ Fire({Entry(f, EpollBits(f)) : f \in {g \in Fds : EpollBits(g) # {}}})
    /\ UNCHANGED desc
WepollPoll == EpollPoll

\* Mutant of Reassociate: what was pending stays so.
ReassociateKeepsPending(d) == IF d.pend = {} THEN d ELSE [d EXCEPT !.kernel = d.pend]

Reassociate(d) ==
    IF d.pend = {} THEN d
    ELSE [d EXCEPT !.kernel = d.pend, !.pend = {}, !.aborted = @ \/ ~d.open]

\* What was reported last time is associated again; what is reported now is not.
EvportPoll ==
    LET again == [f \in Fds |-> Reassociate(desc[f])]
        due == {f \in Fds : again[f].kernel \cap again[f].ready # {}} IN
    \E batch \in SUBSET due :
        /\ IF Cardinality(due) <= MaxBatch THEN batch = due
                                           ELSE Cardinality(batch) = MaxBatch
        /\ Fire({Entry(f, again[f].kernel \cap again[f].ready) : f \in batch})
        /\ desc' = [f \in Fds |->
             IF f \in batch THEN [again[f] EXCEPT !.pend = again[f].kernel, !.kernel = {}]
                            ELSE again[f]]

\* Also a poll that reports nothing ends: its timeout or an error ended it.
Poll ==
    /\ phase = "poll" /\ phase' = "events"
    /\ CASE backend = "select" -> SelectPoll
         [] backend = "kqueue" -> KqueuePoll
         [] backend = "evport" -> EvportPoll
         [] backend = "wepoll" -> WepollPoll
         [] OTHER -> EpollPoll
    /\ UNCHANGED backend

-------------------------------------------------------------------------------
(* Handlers, as far as they change the table *)

Then(d) == [table |-> d, replaced |-> FALSE]

\* reconnect_socket: the new socket may get any free number, or connect fails.
Reconnects(f) ==
    LET gone == [desc EXCEPT ![f] = CloseSocket(DeleteFileEvent(@, {R, W}))]
        free == {g \in Fds : ~gone[g].open} IN
    {[table |-> t, replaced |-> TRUE] :
        t \in {gone} \cup {[gone EXCEPT ![g] = Connecting(@)] : g \in free}}

Writeable(d) == CreateFileEvent(d, {W}, "readable", "writeable")

\* What the handler proc, called for f, may leave.
Outcomes(f, proc) ==
    {Then(desc)} \cup Reconnects(f) \cup
    CASE proc = "connected" ->
           {Then([desc EXCEPT ![f] =
              Writeable(CreateFileEvent(@, {R}, "readable", "writeable"))])}
      [] proc = "readable"  -> {Then([desc EXCEPT ![f] = Writeable(@)])}
      [] proc = "writeable" -> {Then([desc EXCEPT ![f] = DeleteFileEvent(@, {W})])}

\* The other entries of a socket that was replaced are about no socket any more.
Marked(entries, f, replaced) ==
    [i \in DOMAIN entries |->
       IF entries[i].fd = f /\ replaced THEN [entries[i] EXCEPT !.live = FALSE]
                                        ELSE entries[i]]

-------------------------------------------------------------------------------
(* aeProcessEvents: the entries of one poll *)

Due(e, b) == b \in e.bits \cap desc[e.fd].mask

\* Mutant of WriteCalled: a procedure is called for both bits.
WriteCalledTwice(e) == ~Due(e, R) /\ Due(e, W)

ReadCalled(e)  == Due(e, R)
WriteCalled(e) == ~Due(e, R) /\ Due(e, W) /\
    (e.rfired => desc[e.fd].wproc # desc[e.fd].rproc)

CallRead ==
    /\ fired # <<>> /\ ReadCalled(fired[1])
    /\ LET e == [fired[1] EXCEPT !.bits = @ \ {R}, !.rfired = TRUE] IN
       \E o \in Outcomes(e.fd, desc[e.fd].rproc) :
         /\ desc' = o.table
         /\ fired' = Marked(<<e>> \o Tail(fired), e.fd, o.replaced)
    /\ UNCHANGED <<backend, phase>>

CallWrite ==
    /\ fired # <<>> /\ WriteCalled(fired[1])
    /\ \E o \in Outcomes(fired[1].fd, desc[fired[1].fd].wproc) :
         /\ desc' = o.table
         /\ fired' = Marked(Tail(fired), fired[1].fd, o.replaced)
    /\ UNCHANGED <<backend, phase>>

NoCall ==
    /\ fired # <<>> /\ ~ReadCalled(fired[1]) /\ ~WriteCalled(fired[1])
    /\ fired' = Tail(fired)
    /\ UNCHANGED <<backend, desc, phase>>

Dispatched == phase = "events" /\ fired = <<>>

\* Timers: delayed_initial_connect, and delay_request, whose c->fd may be closed.
DelayedInitialConnect(f) ==
    /\ Dispatched /\ ~desc[f].open
    /\ desc' = [desc EXCEPT ![f] = Connecting(@)]
    /\ UNCHANGED <<backend, fired, phase>>

DelayRequest(f) ==
    /\ Dispatched
    /\ desc' = [desc EXCEPT ![f] = Writeable(@)]
    /\ UNCHANGED <<backend, fired, phase>>

\* aeMain calls aeProcessEvents again.
NextRound ==
    /\ Dispatched /\ phase' = "poll"
    /\ UNCHANGED <<backend, desc, fired>>

\* The peer and the kernel: a socket is ready for what they say, at any time.
Readiness(f) ==
    /\ desc[f].open /\ "err" \notin desc[f].ready
    /\ \E s \in (SUBSET {R, W}) \cup {{R, W, "err"}} :
         desc' = [desc EXCEPT ![f].ready = s]
    /\ UNCHANGED <<backend, fired, phase>>

Next ==
    \/ Poll \/ CallRead \/ CallWrite \/ NoCall \/ NextRound
    \/ \E f \in Fds : DelayedInitialConnect(f) \/ DelayRequest(f) \/ Readiness(f)

Spec == Init /\ [][Next]_vars

-------------------------------------------------------------------------------
(* Properties *)

Descriptor ==
    [open : BOOLEAN, ready : SUBSET {R, W, "err"}, mask : SUBSET {R, W},
     rproc : {"none", "connected", "readable"},
     wproc : {"none", "connected", "writeable"},
     kernel : SUBSET {R, W}, pend : SUBSET {R, W}, aborted : BOOLEAN]

\* Every variable has its type.
TypeOK ==
    /\ backend \in Backends
    /\ desc \in [Fds -> Descriptor]
    /\ fired \in Seq([fd : Fds, bits : SUBSET {R, W}, rfired : BOOLEAN, live : BOOLEAN])
    /\ phase \in {"poll", "events"}
    /\ phase = "poll" => fired = <<>>

Consistent(d) ==
    /\ d.mask = d.kernel \cup d.pend
    /\ d.kernel = {} \/ d.pend = {}
    /\ ~d.aborted

\* Every backend watches exactly what is registered, through partial removals,
\* replaced sockets and descriptors just reported; with event ports a
\* descriptor is associated or pending and never both, and no call aborts
\* (the comment at the head of ae_evport.c).
WatchedIsRegistered == \A f \in Fds : Consistent(desc[f])

\* What the entries of a poll say of f.
Told(f) == UNION {fired'[i].bits : i \in {j \in DOMAIN fired' : fired'[j].fd = f}}

ToldAll(f) == Told(f) \cap desc[f].mask = desc[f].ready \cap desc[f].mask

Polled == phase = "poll" /\ phase' = "events"

\* A poll, also one that reports nothing, tells the truth and all of it: of every
\* registered descriptor, exactly the directions it is ready for.  Two kinds of
\* poll leave some out: one of event ports whose batch had no more room, and one
\* of select while its set holds a closed number (ae_select.c:77), which then
\* reports nothing at all.
PollTellsTruth ==
    [][Polled => \A f \in Fds :
         \/ ToldAll(f)
         \/ backend = "evport" /\ Told(f) = {} /\ Len(fired') = MaxBatch
         \/ Poisoned /\ fired' = <<>>]_vars

\* Without select's exception: a delay_request that outlived its socket puts the
\* closed number into the set (wrk.c:723), and no descriptor is heard of again.
PollIsNeverDeaf ==
    [][Polled /\ fired' = <<>> => \A f \in Fds : ToldAll(f)]_vars

\* No handler is called on the strength of a socket that was closed since: when
\* the entry at the head is of a replaced socket, its number is left alone.
StaleCall == fired # <<>> /\ ~fired[1].live /\ (ReadCalled(fired[1]) \/ WriteCalled(fired[1]))

\* This holds for every backend that reports a socket at most once.
NoStaleDispatch == backend # "kqueue" => ~StaleCall

\* What aeProcessEvents says of itself, "we check if the event is still valid":
\* kqueue's second entry breaks it.
EventStillValid == ~StaleCall
===============================================================================
