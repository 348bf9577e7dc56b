------------------------------ MODULE EventLoop -------------------------------
(***************************************************************************)
(* The event loop of one wperfk thread (src/ae.c): aeMain, aeProcessEvents *)
(* and processTimeEvents over the list of timers and the table of file     *)
(* events, with the handlers of src/wrk.c as what they may do to both.     *)
(*                                                                         *)
(* The clock is the wall clock, in milliseconds; ae.c keeps a time as its  *)
(* second and its millisecond in it.  It runs while the loop runs, and may *)
(* be set back.  A call of a timer's handler is one action, which takes    *)
(* time; a file event of two bits is two calls.                            *)
(***************************************************************************)
EXTENDS Integers, Sequences, SequencesExt, FiniteSetsExt

CONSTANTS
    Fds,            \* the descriptors of the thread's sockets
    MsPerSec,       \* milliseconds in a second
    Delays,         \* delays the handlers ask for, in milliseconds
    FirstTimers,    \* delays of the timers that thread_main creates
    HandlerTimes,   \* bound: how long the handler of a timer may run
    Horizon,        \* bound: the clock
    MaxSteps,       \* bound: how often the clock is set back
    MaxIds          \* bound: timers ever created

ASSUME EventLoopAssumption ==
    /\ Fds \subseteq Nat
    /\ MsPerSec \in Nat \ {0} /\ Horizon \in Nat
    /\ Delays \subseteq Nat \ {0} /\ HandlerTimes \subseteq Nat
    /\ FirstTimers \in Seq(Nat)
    /\ MaxSteps \in Nat /\ MaxIds \in Nat

VARIABLES
    clock,      \* gettimeofday, in milliseconds
    \* struct aeEventLoop
    table,      \* events: the handlers each descriptor is registered with;
                \* maxfd; polled (history): the sockets the last poll watched
    timers,     \* timeEventHead: the list of timers, head first
    timeEventNextId, lastTime, stop,
    \* the loop's place
    pc,         \* "create", "poll", "sleep", "files", "write", "times", "exit"
    wake,       \* when the poll in progress times out; -1 for never
    fired,      \* events the poll reported that are not dispatched yet
    cur,        \* the event whose writable bit is to be dispatched
    te,         \* processTimeEvents: the place in the list
    maxId,      \* processTimeEvents: the last timer this pass may call
    \* history
    sleepFrom,  \* when the poll's timeout was computed
    owed,       \* timers that the pass in progress has to call
    steps       \* how often the clock was set back

list == <<timers, timeEventNextId>>
poll == <<wake, fired, cur, sleepFrom>>
pass == <<lastTime, te, maxId, owed>>
vars == <<clock, table, list, stop, pc, poll, pass, steps>>

None == [r |-> "none", w |-> "none"]   \* a mask of AE_NONE

NoEvent == [fd |-> -1, mask |-> {}, rfired |-> FALSE]

Sec(t) == t \div MsPerSec
Ms(t)  == t % MsPerSec

Init ==
    /\ clock \in MsPerSec .. 2 * MsPerSec - 1
    /\ table = [events |-> [f \in Fds |-> None], maxfd |-> -1, polled |-> {}]
    /\ timers = << >> /\ timeEventNextId = 0
    /\ lastTime = Sec(clock)
    /\ stop = FALSE
    /\ pc = "create"
    /\ wake = 0 /\ fired = {} /\ cur = NoEvent /\ te = 1 /\ maxId = -1
    /\ sleepFrom = 0 /\ owed = {} /\ steps = 0

-------------------------------------------------------------------------------
(* aeCreateFileEvent, aeDeleteFileEvent: t is a table *)

Registered(t) == {f \in Fds : t.events[f] # None}

\* The handlers h replace those there are; "none" leaves what is there.
CreateFileEvent(t, f, h) ==
    [t EXCEPT !.events[f] = [r |-> IF h.r = "none" THEN @.r ELSE h.r,
                             w |-> IF h.w = "none" THEN @.w ELSE h.w],
              !.maxfd = IF f > @ THEN f ELSE @]

\* Mutant of HighestBelow: only the next descriptor is looked at.
HighestBelowNext(t, f) == IF f - 1 \in Registered(t) THEN f - 1 ELSE -1

\* The highest registered descriptor below f.
HighestBelow(t, f) == Max({-1} \cup {g \in Registered(t) : g < f})

DeleteFileEvent(t, f, h) ==
    LET left == [t EXCEPT !.events[f] = [r |-> IF h.r = "none" THEN @.r ELSE "none",
                                         w |-> IF h.w = "none" THEN @.w ELSE "none"]]
    IN  IF f = t.maxfd /\ left.events[f] = None
          THEN [left EXCEPT !.maxfd = HighestBelow(left, f)]
          ELSE left

Both(h)   == [r |-> h, w |-> h]
Write(h)  == [r |-> "none", w |-> h]

\* connect_socket: it takes a free descriptor, or fails.
ConnectSocket(t) ==
    {[CreateFileEvent(t, g, Both("connected")) EXCEPT !.polled = @ \ {g}] :
       g \in Fds \ Registered(t)} \cup {t}

ReconnectSocket(t, f) == ConnectSocket(DeleteFileEvent(t, f, Both("any")))

-------------------------------------------------------------------------------
(* aeAddMillisecondsToNow, aeCreateTimeEvent *)

\* Mutant of AddMilliseconds: no carry into the second.
AddMillisecondsNoCarry(now, delay) ==
    [sec |-> Sec(now) + Sec(delay), ms |-> (Ms(now) + Ms(delay)) % MsPerSec]

AddMilliseconds(now, delay) ==
    LET ms == Ms(now) + Ms(delay) IN
    IF ms >= MsPerSec
      THEN [sec |-> Sec(now) + Sec(delay) + 1, ms |-> ms - MsPerSec]
      ELSE [sec |-> Sec(now) + Sec(delay), ms |-> ms]

\* due is what the caller asked for.
Timer(id, now, delay) ==
    [id |-> id, when |-> AddMilliseconds(now, delay), due |-> now + delay]

\* aeCreateTimeEvent puts the new timer at the head of the list.
NewTimer(delay) == Timer(timeEventNextId, clock, delay)

\* thread_main, one timer after the other.
CreateTimer ==
    /\ pc = "create"
    /\ IF timeEventNextId < Len(FirstTimers)
         THEN /\ timers' = <<NewTimer(FirstTimers[timeEventNextId + 1])>> \o timers
              /\ timeEventNextId' = timeEventNextId + 1
              /\ UNCHANGED pc
         ELSE pc' = "poll" /\ UNCHANGED list
    /\ UNCHANGED <<clock, table, stop, poll, pass, steps>>

-------------------------------------------------------------------------------
(* aeProcessEvents: the poll *)

Before(a, b) == \/ a.sec < b.sec
                \/ a.sec = b.sec /\ a.ms < b.ms

\* aeSearchNearestTimer: where the first in the list is of those no other precedes.
Nearest ==
    Min({i \in 1 .. Len(timers) :
           \A j \in 1 .. Len(timers) : ~Before(timers[j].when, timers[i].when)})

\* Mutant of Timeout: the borrow from the second is forgotten.
TimeoutNoBorrow(now, when) ==
    LET sec  == when.sec - Sec(now)
        msec == IF when.ms < Ms(now) THEN when.ms + MsPerSec - Ms(now)
                                     ELSE when.ms - Ms(now)
    IN  (IF sec < 0 THEN 0 ELSE sec) * MsPerSec + msec

\* The poll's timeout.  A second below zero becomes zero; the milliseconds stay.
Timeout(now, when) ==
    LET borrow == when.ms < Ms(now)
        sec    == when.sec - Sec(now) - (IF borrow THEN 1 ELSE 0)
        msec   == when.ms - Ms(now) + (IF borrow THEN MsPerSec ELSE 0)
    IN  (IF sec < 0 THEN 0 ELSE sec) * MsPerSec + msec

Poll ==
    /\ pc = "poll"
    /\ pc' = "sleep"
    /\ sleepFrom' = clock
    /\ wake' = IF timers = << >> THEN -1 ELSE clock + Timeout(clock, timers[Nearest].when)
    /\ UNCHANGED <<clock, table, list, stop, fired, cur, pass, steps>>

\* Any set of ready descriptors.  Errors and hang-ups are reported as writable,
\* whether that was asked for or not.
PollReturns ==
    /\ pc = "sleep"
    /\ \E ready \in SUBSET Registered(table) :
         /\ ready # {} \/ (wake # -1 /\ clock >= wake)
         /\ \E mask \in [ready -> {{"R"}, {"W"}, {"R", "W"}}] :
              fired' = {[fd |-> f, mask |-> mask[f], rfired |-> FALSE] : f \in ready}
    /\ table' = [table EXCEPT !.polled = Registered(table)]
    /\ pc' = "files" /\ wake' = 0 /\ sleepFrom' = 0
    /\ UNCHANGED <<clock, list, stop, cur, pass, steps>>

-------------------------------------------------------------------------------
(* aeProcessEvents: dispatching what fired *)

\* What handler h of descriptor f may make of the table.
Effects(t, f, h) ==
    {t} \cup ReconnectSocket(t, f) \cup
    CASE h = "connected" ->
           {CreateFileEvent(t, f, [r |-> "readable", w |-> "writeable"])}
      [] h = "readable"  -> {CreateFileEvent(t, f, Write("writeable"))}
      [] h = "writeable" -> {DeleteFileEvent(t, f, Write("any"))}

\* Handler h runs.  response_complete, and thread:stop() in any callback of the
\* script, may stop the loop; socket_writeable may create a delay_request timer.
Handler(f, h) ==
    /\ table' \in Effects(table, f, h)
    /\ stop' \in {stop, stop \/ h # "connected"}
    /\ \/ UNCHANGED list
       \/ /\ h = "writeable" /\ timeEventNextId < MaxIds
          /\ \E d \in Delays : timers' = <<NewTimer(d)>> \o timers
          /\ timeEventNextId' = timeEventNextId + 1

\* fe->mask & mask: an event counts only if it is still registered.
ReadDue(e) == "R" \in e.mask /\ table.events[e.fd].r # "none"

\* Mutant of WriteDue: a handler that serves both bits is called for both.
WriteDueTwice(e) == "W" \in e.mask /\ table.events[e.fd].w # "none"

\* A handler that serves both bits is called once.
WriteDue(e) ==
    /\ "W" \in e.mask /\ table.events[e.fd].w # "none"
    /\ ~e.rfired \/ table.events[e.fd].w # table.events[e.fd].r

DispatchRead ==
    /\ pc = "files"
    /\ \E e \in fired :
         /\ fired' = fired \ {e}
         /\ cur' = [e EXCEPT !.rfired = ReadDue(e)]
         /\ IF ReadDue(e) THEN Handler(e.fd, table.events[e.fd].r)
                          ELSE UNCHANGED <<table, list, stop>>
    /\ pc' = "write"
    /\ UNCHANGED <<clock, wake, sleepFrom, pass, steps>>

DispatchWrite ==
    /\ pc = "write"
    /\ IF WriteDue(cur) THEN Handler(cur.fd, table.events[cur.fd].w)
                        ELSE UNCHANGED <<table, list, stop>>
    /\ pc' = "files" /\ cur' = NoEvent
    /\ UNCHANGED <<clock, wake, fired, sleepFrom, pass, steps>>

-------------------------------------------------------------------------------
(* processTimeEvents *)

Ids(S) == {t.id : t \in S}

\* Mutant of Reset: timers keep their second when the clock was set back.
ResetNothing(ts) == ts

\* The clock went back to an earlier second: every timer is due.
Reset(ts) == [i \in 1 .. Len(ts) |-> [ts[i] EXCEPT !.when.sec = 0, !.due = 0]]

StartPass ==
    /\ pc = "files" /\ fired = {}
    /\ LET back == Sec(clock) < lastTime IN
         /\ timers' = IF back THEN Reset(timers) ELSE timers
         /\ owed' = Ids({t \in Range(timers) : back \/ t.due <= clock})
    /\ lastTime' = Sec(clock)
    /\ te' = 1
    /\ maxId' = timeEventNextId - 1
    /\ pc' = "times"
    /\ UNCHANGED <<clock, table, timeEventNextId, stop, poll, steps>>

\* Mutant of IsDue: seconds and milliseconds are compared each for itself.
IsDuePerField(t) == Sec(clock) >= t.when.sec /\ Ms(clock) >= t.when.ms

IsDue(t) == \/ Sec(clock) > t.when.sec
            \/ Sec(clock) = t.when.sec /\ Ms(clock) >= t.when.ms

\* A timer created in this pass, or not due: the next one.
SkipTimer ==
    /\ pc = "times" /\ te <= Len(timers)
    /\ timers[te].id > maxId \/ ~IsDue(timers[te])
    /\ te' = te + 1
    /\ UNCHANGED <<clock, table, list, stop, pc, poll, lastTime, maxId, owed, steps>>

\* The handler asks to be called again, and may stop the loop (check_limits,
\* check_timeouts, sample_rate, calibrate, delay_request).
Rearm ==
    /\ \E d \in Delays :
         timers' = [timers EXCEPT ![te].when = AddMilliseconds(clock', d),
                                  ![te].due = clock' + d]
    /\ stop' \in {stop, TRUE}
    /\ UNCHANGED <<table, timeEventNextId>>

\* AE_NOMORE: delayed_initial_connect and delay_request change the table,
\* calibrate creates the timer of sample_rate.  aeDeleteTimeEvent looks for the
\* identifier, which no other timer has: it finds the one at te.
NoMore ==
    /\ \/ /\ table' \in ConnectSocket(table) \cup
                {CreateFileEvent(table, f, Write("writeable")) : f \in Registered(table)}
          /\ timers' = RemoveAt(timers, te)
          /\ UNCHANGED timeEventNextId
       \/ /\ timeEventNextId < MaxIds
          /\ \E d \in Delays : timers' = <<NewTimer(d)>> \o RemoveAt(timers, te)
          /\ timeEventNextId' = timeEventNextId + 1
          /\ UNCHANGED table
    /\ UNCHANGED stop

\* Mutant of CallTimer: the scan goes on behind the timer that was called.
CallTimerGoesOn ==
    /\ pc = "times" /\ te <= Len(timers)
    /\ timers[te].id <= maxId /\ IsDue(timers[te])
    /\ \E ms \in HandlerTimes : clock + ms <= Horizon /\ clock' = clock + ms
    /\ Rearm \/ NoMore
    /\ te' = te + 1
    /\ owed' = owed \ {timers[te].id}
    /\ UNCHANGED <<pc, poll, lastTime, maxId, steps>>

\* After a call the scan starts again at the head of the list.
CallTimer ==
    /\ pc = "times" /\ te <= Len(timers)
    /\ timers[te].id <= maxId /\ IsDue(timers[te])
    /\ \E ms \in HandlerTimes : clock + ms <= Horizon /\ clock' = clock + ms
    /\ Rearm \/ NoMore
    /\ te' = 1
    /\ owed' = owed \ {timers[te].id}
    /\ UNCHANGED <<pc, poll, lastTime, maxId, steps>>

\* aeMain looks at stop between two rounds.
EndPass ==
    /\ pc = "times" /\ te > Len(timers)
    /\ pc' = IF stop THEN "exit" ELSE "poll"
    /\ te' = 1 /\ maxId' = -1
    /\ UNCHANGED <<clock, table, list, stop, poll, lastTime, owed, steps>>

-------------------------------------------------------------------------------
(* The clock *)

Tick ==
    /\ clock < Horizon
    /\ clock' = clock + 1
    /\ UNCHANGED <<table, list, stop, pc, poll, pass, steps>>

\* What was due and is not any more need not be called.
StepBack ==
    /\ steps < MaxSteps /\ steps' = steps + 1
    /\ clock' \in MsPerSec .. clock - 1
    /\ owed' = owed \cap Ids({t \in Range(timers) : t.due <= clock'})
    /\ UNCHANGED <<table, list, stop, pc, poll, lastTime, te, maxId>>

Next ==
    \/ CreateTimer \/ Poll \/ PollReturns
    \/ DispatchRead \/ DispatchWrite
    \/ StartPass \/ SkipTimer \/ CallTimer \/ EndPass
    \/ Tick \/ StepBack

Spec == Init /\ [][Next]_vars

-------------------------------------------------------------------------------
(* Properties *)

When(t) == t.when.sec * MsPerSec + t.when.ms

\* Types, and what the fields promise: a timer's milliseconds are less than a
\* second, no identifier is given twice, and the scan stays in the list.
TypeOK ==
    /\ clock \in Nat /\ lastTime \in Nat /\ sleepFrom \in Nat
    /\ table.events \in
         [Fds -> [r : {"none", "connected", "readable"},
                  w : {"none", "connected", "writeable"}]]
    /\ table.maxfd \in Fds \cup {-1} /\ table.polled \subseteq Fds
    /\ \A i \in 1 .. Len(timers) :
         /\ timers[i].when.sec \in Nat /\ timers[i].when.ms \in 0 .. MsPerSec - 1
         /\ timers[i].id \in 0 .. timeEventNextId - 1
         /\ \A j \in 1 .. i - 1 : timers[i].id < timers[j].id
    /\ te \in 1 .. Len(timers) + 1
    /\ pc \in {"create", "poll", "sleep", "files", "write", "times", "exit"}

\* A poll that starts before any timer is due ends exactly when the first one is,
\* neither later nor in a busy loop; one that starts late is over in less than a
\* second.  This is aeSearchNearestTimer and the arithmetic of aeProcessEvents.
SleepsUntilNearest ==
    pc = "sleep" /\ timers # << >> =>
       /\ \E t \in Range(timers) : When(t) < sleepFrom \/ When(t) = wake
       /\ (\A t \in Range(timers) : sleepFrom <= When(t))
             => \A t \in Range(timers) : wake <= When(t)
       /\ (\E t \in Range(timers) : When(t) < sleepFrom)
             => wake \in sleepFrom .. sleepFrom + MsPerSec - 1

\* "Search the first timer to fire.  This operation is useful to know how many
\* time the select can be put in sleep without to delay any event": no poll lasts
\* past the timers in the list, or waits when one of them is overdue.
NoOversleep ==
    pc = "sleep" =>
        \A t \in Range(timers) : wake <= When(t) \/ wake <= sleepFrom

\* A pass calls every timer that was due when it started, however the handlers
\* change the list under it; after the clock was set back to an earlier second it
\* calls every timer there is.
PassIsThorough == pc \in {"poll", "exit"} => owed = {}

\* No timer is called before the delay its handler asked for is over, unless the
\* clock was set back meanwhile.
NeverEarly == [][CallTimer => clock >= timers[te].due]_vars

\* A handler is called for the socket that the poll reported and no other, even
\* when the handler of the same event's other bit closed it and the new socket
\* has the same number.
NoStaleDispatch ==
    /\ pc = "files" => \A e \in fired : ReadDue(e) => e.fd \in table.polled
    /\ pc = "write" => (WriteDue(cur) => cur.fd \in table.polled)

\* maxfd is the highest registered descriptor: select() looks no further.
MaxFdExact == table.maxfd = Max({-1} \cup Registered(table))
===============================================================================
