------------------------------- MODULE RatePacer -------------------------------
(***************************************************************************)
(* Constant-rate pacing and coordinated-omission correction for one        *)
(* connection (src/wrk.c): usec_to_next_send, the waiting that             *)
(* socket_writeable and delay_request do with its answer, and the latency  *)
(* response_complete records.  What the waiting needs of the connection is *)
(* kept: whether WRITABLE is registered, the timers that are armed, and    *)
(* what its socket still owes.                                             *)
(*                                                                         *)
(* Times are in ticks of the microsecond clock, TicksPerMs of them to a    *)
(* millisecond.  The throughput is PDen / PNum requests per tick, so that  *)
(* the code's truncated `complete / throughput' is an integer division.    *)
(***************************************************************************)
EXTENDS Integers, FiniteSets

CONSTANTS
    PNum, PDen,    \* ticks between two requests of the connection: PNum / PDen
    TicksPerMs,    \* resolution of the event loop's timers
    Pipeline,      \* cfg.pipeline
    ThreadStart,   \* c->thread_start
    Peers,         \* the surroundings the runs of the model may have
    ServerTime,    \* of a prompt server, in ticks
    MaxPending,    \* stands for the largest uint64_t
    MaxTimers,     \* bound: delay_request timers of the connection
    Horizon,       \* bound: the last tick
    PromptHorizon  \* bound: the last tick of a run with a prompt server

ASSUME PacerAssumption ==
    /\ PNum \in Nat \ {0} /\ PDen \in Nat \ {0} /\ TicksPerMs \in Nat \ {0}
    /\ Pipeline \in Nat \ {0} /\ ThreadStart \in Nat /\ Horizon \in Nat
    /\ Peers \subseteq {"prompt", "any"} /\ ServerTime \in Nat
    /\ MaxPending \in Nat /\ MaxPending >= Pipeline /\ MaxTimers \in Nat

VARIABLES
    peer,      \* "prompt": handlers run when they are due, answers take ServerTime
               \* at most and sockets are kept; "any": none of this is so
    now,
    writable,  \* WRITABLE is registered for the connection's socket
    timers,    \* when its delay_request timers fire
    inFlight,  \* responses its socket still owes
    complete, caught_up, catch_up_start_time, complete_at_catch_up_start,
    has_pending, pending, actual_latency_start, complete_at_last_batch_start,
    idleLost   \* history: a socket was lost while nothing was in flight on it

pacing == <<caught_up, catch_up_start_time, complete_at_catch_up_start>>
batch  == <<has_pending, pending, actual_latency_start,
            complete_at_last_batch_start>>
conn   == <<writable, timers, inFlight, idleLost>>
vars   == <<peer, now, conn, complete, pacing, batch>>

Init ==
    /\ peer \in Peers
    /\ now = ThreadStart
    /\ writable = TRUE /\ timers = {} /\ inFlight = 0 /\ complete = 0
    /\ caught_up = TRUE
    /\ catch_up_start_time = 0 /\ complete_at_catch_up_start = 0
    /\ has_pending = FALSE /\ pending = 0
    /\ actual_latency_start = 0 /\ complete_at_last_batch_start = 0
    /\ idleLost = FALSE

\* n / c->throughput and n / c->catch_up_throughput, truncated to whole ticks.
Paced(n)   == (n * PNum) \div PDen
CaughtUp(n) == (n * PNum) \div (2 * PDen)

\* When request n is due.
Scheduled(n) == ThreadStart + Paced(n)

-------------------------------------------------------------------------------
(* usec_to_next_send *)

OnPace == Scheduled(complete) > now

\* Mutant of CatchUpStart: the start of a catch-up period is not remembered.
CatchUpStartEveryCall == now

\* The first call that finds the connection behind starts a catch-up period.
CatchUpStart == IF caught_up THEN now ELSE catch_up_start_time
CatchUpComplete == IF caught_up THEN complete ELSE complete_at_catch_up_start

Pace ==
    /\ caught_up' = OnPace
    /\ catch_up_start_time' = IF OnPace THEN catch_up_start_time ELSE CatchUpStart
    /\ complete_at_catch_up_start' =
         IF OnPace THEN complete_at_catch_up_start ELSE CatchUpComplete

\* Mutant: catching up also when on pace.
NextStartNoPace == CatchUpStart + CaughtUp(complete - CatchUpComplete)

NextStart == IF OnPace THEN Scheduled(complete)
             ELSE CatchUpStart + CaughtUp(complete - CatchUpComplete)

\* Mutant: no limit while catching up.
UsecToNextSendNoLimit == IF OnPace THEN NextStart - now ELSE 0

UsecToNextSend == IF NextStart > now THEN NextStart - now ELSE 0

-------------------------------------------------------------------------------
(* socket_writeable, delay_request *)

\* A wait is rounded up to whole milliseconds, and ae counts them from the
\* current time truncated to milliseconds.
TimerFor(usec) ==
    (now \div TicksPerMs) * TicksPerMs + (usec \div TicksPerMs + 1) * TicksPerMs

Wait ==
    /\ writable /\ UsecToNextSend > 0
    /\ Cardinality(timers) < MaxTimers
    /\ Pace
    /\ writable' = FALSE
    /\ timers' = timers \cup {TimerFor(UsecToNextSend)}
    /\ UNCHANGED <<now, inFlight, complete, batch, idleLost>>

StartBatch ==
    /\ IF has_pending
         THEN UNCHANGED <<actual_latency_start, complete_at_last_batch_start>>
         ELSE /\ actual_latency_start' = now
              /\ complete_at_last_batch_start' = complete
    /\ has_pending' = TRUE
    /\ pending' = Pipeline

Send ==
    /\ writable /\ UsecToNextSend = 0
    /\ inFlight <= Pipeline * MaxTimers
    /\ Pace
    /\ StartBatch
    /\ writable' = FALSE
    /\ inFlight' = inFlight + Pipeline
    /\ UNCHANGED <<now, timers, complete, idleLost>>

DelayRequest(t) ==
    /\ t <= now
    /\ Pace
    /\ IF UsecToNextSend > 0
         THEN /\ timers' = (timers \ {t}) \cup {TimerFor(UsecToNextSend)}
              /\ UNCHANGED writable
         ELSE /\ timers' = timers \ {t}
              /\ writable' = TRUE
    /\ UNCHANGED <<now, inFlight, complete, batch, idleLost>>

-------------------------------------------------------------------------------
(* response_complete, reconnect_socket *)

\* Mutant of LessPending: pending is signed.
LessPendingSigned == pending - 1

\* --c->pending, unsigned.
LessPending == IF pending = 0 THEN MaxPending ELSE pending - 1

\* Mutant: the schedule of the responses counted so far, "gifting" the later
\* ones of a batch.
ExpectedStartGifts == Scheduled(complete)

\* When the batch in flight should have been sent.
ExpectedStart == Scheduled(complete_at_last_batch_start)

Respond ==
    /\ inFlight > 0
    /\ inFlight' = inFlight - 1
    /\ complete' = complete + 1
    /\ pending' = LessPending
    /\ has_pending' = (has_pending /\ LessPending # 0)
    /\ writable' = (writable \/ LessPending = 0)
    /\ UNCHANGED <<now, timers, pacing, actual_latency_start,
                   complete_at_last_batch_start, idleLost>>

\* The socket is lost; on the new one WRITABLE is registered when it connects,
\* and a batch that was outstanding is sent again.
Reconnect ==
    /\ peer # "prompt"
    /\ idleLost' = (idleLost \/ inFlight = 0)
    /\ inFlight' = 0
    /\ writable' = TRUE
    /\ UNCHANGED <<now, timers, complete, pacing, batch>>

LastTick == IF peer = "prompt" THEN PromptHorizon ELSE Horizon

\* Time passes; when everything is prompt, not while a handler or an answer is
\* due.
Tick ==
    /\ now < LastTick
    /\ peer = "prompt" => /\ ~writable /\ \A t \in timers : now < t
                          /\ inFlight > 0 => now < actual_latency_start + ServerTime
    /\ now' = now + 1
    /\ UNCHANGED <<conn, complete, pacing, batch>>

Done == now = LastTick /\ UNCHANGED vars

Next ==
    /\ \/ Wait \/ Send \/ Respond \/ Reconnect \/ Tick \/ Done
       \/ \E t \in timers : DelayRequest(t)
    /\ UNCHANGED peer

Spec == Init /\ [][Next]_vars

-------------------------------------------------------------------------------
(* Properties *)

\* Every variable has its type.
TypeOK ==
    /\ peer \in Peers
    /\ now \in Nat /\ complete \in Nat /\ inFlight \in Nat
    /\ writable \in BOOLEAN /\ timers \subseteq Nat /\ idleLost \in BOOLEAN
    /\ caught_up \in BOOLEAN /\ has_pending \in BOOLEAN
    /\ catch_up_start_time \in Nat /\ complete_at_catch_up_start \in Nat
    /\ pending \in 0 .. MaxPending
    /\ actual_latency_start \in Nat /\ complete_at_last_batch_start \in Nat

\* The two latencies response_complete would record for a response arriving now.
CorrectedLatency   == now - ExpectedStart
UncorrectedLatency == now - actual_latency_start

\* "This wil never ever ever happen": whenever a response can arrive, the
\* corrected latency is not negative, and it never flatters the server - it is at
\* least the uncorrected one - also for a batch that was sent again on a new
\* socket, is only partly answered or was overtaken by a second batch.
CorrectionNeverGifts ==
    inFlight > 0 => /\ CorrectedLatency >= UncorrectedLatency
                    /\ UncorrectedLatency >= 0

\* What was complete when the batch in flight was sent.
Started == complete + inFlight - Pipeline

\* As long as sockets are lost only with a batch in flight, no batch is on the
\* wire before its first request is due, catching up included.  (A timer armed
\* for a socket that is lost later fires on the next one, out of its turn.)
NeverAhead ==
    (~idleLost /\ inFlight > 0) => Scheduled(Started) <= now

\* A backlog is worked off at no more than twice the rate: since the catch-up
\* period began, no more was sent than twice the throughput allows, plus a batch.
CatchUpIsBounded ==
    (~idleLost /\ ~caught_up /\ inFlight > 0) =>
        CaughtUp(Started - complete_at_catch_up_start)
            <= now - catch_up_start_time

\* Against a prompt server the schedule is kept: rounding every wait up to
\* milliseconds never adds up.  The next request is late by two timer periods
\* and one answer at most, however long the run.
KeepsSchedule ==
    peer = "prompt" => now - Scheduled(complete) <= 2 * TicksPerMs + ServerTime
===============================================================================
