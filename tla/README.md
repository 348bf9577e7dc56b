# wperfk in TLA+

wperfk is an HTTP load generator, descended from wrk and wrk2: some threads, each
with an event loop of its own, drive many connections in a closed loop or at a
constant rate, and report what they measured. These modules model the parts of
it that decide *whether the numbers are right*: how a run starts and stops, how a
connection is kept busy, what the script sends and is given, when a request is sent
and what its latency is measured from, how the event loop keeps time and watches
descriptors on five kernels, and how latencies are recorded, summed, written to
files, merged and shown.
TLC checks each of them on small instances; TLAPS proves all of the safety properties
but those of `Report` for every value of the constants.

Paths below are relative to `src/` of the repository; `wrk.c` is `src/wrk.c`, and
so on. PROJECT.json lists the components, the runs, for every definition the
lines it models, the mutants that show each property can fail, the hazards and
the theorems.

## 1. Inventory

### Components

| component | where | state it keeps | operations | interacts with |
|---|---|---|---|---|
| run control | `wrk.c` main, `thread_main`, `check_limits`, `check_timeouts`, `end_warmup`, `report_errors`, `response_complete` | globals `stop`, `stopped_by`, `responses_total`, `errors_total`, `threads_running`; per thread `complete`, `errors`, `errors_reported`, `warming` | create, warm up, count, stop, join, sum, exit code | all threads through unlocked globals and atomic counters; SIGINT handler |
| connection engine | `wrk.c` `connect_socket` ... `socket_readable`, `net.c`, `ssl.c` | `fd`, `written`, `pending`, `has_pending`, `in_response`, `delayed` | connect, handshake, write, read, complete, reconnect, delay | event table of `ae.c`, the kernel's sockets, the parser's callbacks, the script |
| rate pacing | `wrk.c` `usec_to_next_send`, `delay_request`, `response_complete` | `complete`, `caught_up`, the catch-up's start, `actual_latency_start`, `complete_at_last_batch_start` | when to send, how long to wait, corrected and uncorrected latency | event-loop timers, clock |
| event loop | `ae.c`; `ae_epoll.c`, `ae_kqueue.c`, `ae_evport.c`, `ae_select.c`, `ae_wepoll.c` | table of file events, `maxfd`, list of timers, `lastTime`, `stop`; per backend what the kernel watches | register, poll, dispatch, call and re-arm timers | calls every handler of a thread; wall clock |
| latency histogram | `hdr_histogram.c` | `counts`, `total_count` | record, reset, iterate, add, percentile, min, max, mean | written by its thread, read by main and by a scrape |
| calibration, rate sampling | `wrk.c` `calibrate`, `sample_rate` | `interval`, `start`, `requests`; `statistics.requests` under a mutex | after ten seconds choose the interval, then sample | timers, histograms, `end_warmup` |
| response buffers, expectations | `wrk.c` `header_field` ... `response_body`, `script.c` `buffer_*`, `script_response` | `headers`, `body`, `state` of a connection | collect, match, hand over, reset | parser callbacks, reconnect, Lua |
| script engine | `script.c`, `wrk.lua` | one Lua state per thread, targets | `setup`, `init`, `request`, `response`, `delay`, `done` | run control, connections |
| Prometheus endpoint | `prometheus.c`, `wrk.c` `render_metrics` | none | scrape | reads every thread's counters without a lock |
| histogram files, merge | `wrk.c` `write_hist`, `read_hist_counts`, `merge_main` | files | write, read, refuse, add | histogram |
| statistics for the script | `stats.c`, `script.c` `script_stats_*` | a histogram each | `latency[i]`, `latency(p)`, deviation, share within a range | histogram, `done()`, report |
| report, JSON, progress | `wrk.c`, `aprintf.c` | none | print | sums; the percentile spectrum walks a histogram |
| options, URLs, units | `wrk.c`, `url.c`, `units.c` | `cfg` | parse, once | - |
| Windows descriptors | `compat_win32.c` | table of `SOCKET`s, stack of freed numbers | create, look up, close | connections of all threads |
| vendored | `deps/llhttp`, `deps/wepoll`, `tinymt64.c` | | | |

### What is hard in it

- *Shared state without locks.* Four parties (deadline, `-n`, `--bailout`,
  SIGINT) write `stopped_by` and `stop` in two separate steps; threads leave
  their warmup each by its own timer while others already measure; a scrape
  reads counts that are being written.
- *Handlers that must leave the next event armed.* A connection lives only as
  long as some event will call it again; no test counts live connections.
- *Failure and ordering on the wire.* Partial writes, reads that end anywhere,
  pipelined batches, servers that close or answer early, descriptors that are
  reused, timers that outlive the socket they were armed for.
- *Retried writes and cut responses.* A TLS write that is retried must be given
  the same bytes, while `request()` may be called again in between; a response
  that a reconnect cuts off leaves its bytes in the buffers.
- *Five kernels.* Each backend keeps the kernel's view of a descriptor in step
  with the table in its own way, across sockets that are closed and replaced
  under the same number between two entries of one poll.
- *Files from elsewhere.* `merge` must refuse what is not a whole file of a
  compatible histogram, and add up the rest exactly.
- *Time.* A schedule in microseconds over timers in milliseconds over a wall
  clock that can be set back, kept as two fields with carry and borrow;
  catching up after a slow answer without a burst; a latency measured from a
  time that is computed, not observed.
- *Arithmetic at a boundary.* The two overlapping scales of the histogram, the
  rounding of a percentile's rank, counters that are reset by two owners.

What makes each component correct is the list of properties in sections 3 to 7,
and PROJECT.json's hazards say, line by line, what they are for.

## 2. Plan

| order | module | composes | abstract specification or reference | status |
|---|---|---|---|---|
| 1 | RunControl (+ Proofs) | main, SIGINT, threads | tickets: who drew which of the N responses | done |
| 2 | Connection (+ Proofs) | handlers, event table, sockets | RequestCycle: one batch at a time | done |
| 3 | RatePacer (+ Proofs) | pacing, its timers, latency correction | the schedule `complete / throughput` | done |
| 4 | EventLoop (+ Proofs) | timers, poll, dispatch | time as one number | done |
| 5 | HdrHistogram, Measurement (+ Proofs) | histogram; threads, resets, scrape, report | the bag of recorded latencies | done |
| 6 | PollBackends (+ Proofs) | five backends under the table of file events | the table itself | done |
| 7 | ScriptedConnection (+ Proofs) | `request()`, writes, parser callbacks, buffers, reconnect, `response()` | the response that was sent | done |
| 8 | Report | `--hist-out`, `merge`, percentile spectrum, statistics | the bags of all runs | done |
| 9 | FdTable (+ Proofs) | Windows descriptor table, connections of several threads | a function from numbers to sockets | done |
| - | RateSampling | `calibrate`, `sample_rate`, `end_warmup` in one timer list | requests per elapsed time | not written, see section 9 |
| - | Targets | round-robin of `script.c` and `wrk.lua` | every target in turn | not written, see section 9 |

Every safety property that a run checks has a theorem, but for the three of module 8,
Report, which are left to TLC with the liveness properties (sections 7 and 9). The next
worth proving is `MergeIsExact`. The lemmas on powers of two, ranges and the iterator in
MeasurementProofs carry over as they are, since they speak of `HdrHistogram` alone; what
it needs besides is an induction along the lines of a file, for what `ReadLine` makes of
what `WriteHist` wrote, and that a histogram filled by a fold over a bag holds the bag.

All modules are written for both tools: parameters are CONSTANTS with named
assumptions, one action per handler or per visible step of one, invariants as
conjunctions, recursion only as recursive functions.

## 3. Run control: RunControl, RunControlProofs

`RunControl` has one variable per global and one function over the threads per
field of `struct thread`; `pc[t]` says where a thread stands and `mpc` where
main does. Every access to a shared global is a step of its own. So
`report_errors` is four: add to `errors_total` (`ReportErrors`), compare with N
and look at `stop` (`BailoutCheck`), write `stopped_by` (`BailoutReason`), write
`stop` (`BailoutStop`). What a handler does to its own thread belongs to the
neighbouring step. The wire is the environment: at any time a response may
arrive, with any status, any expectation failed, closing or not, and any socket
may fail. The SIGINT handler is two steps that interleave with everything. A
script's `thread:stop()` (`ScriptStop`, where `ScriptStops` allows it) stops one loop,
from that thread's own calls or from `setup()`, and sets no global.

| run | question | bounds and why they suffice |
|---|---|---|
| RunControl_limits | do the four ways of stopping, the tickets and the warmup agree? | two threads, N = 2 for `-n` and `--bailout`, three responses and an error each, one SIGINT, one tick of warmup: the last ticket can be drawn by either thread on either side of the other's `end_warmup`, and overdrawn; errors of the warmup are reported and cleared |
| RunControl_stop | does a run end, and for the reason it gives? | two threads, `-n 1`, a deadline of 1, `thread:stop()` at any time, two tickets, `--progress`: each of the three can come first, stop one thread or both, and a thread can find the tickets gone or be stopped while it holds the last |

- `ExactResponses`: once every thread has left its warmup, what main prints is
  the number of tickets drawn, capped at N.
- `BailoutJustified`, `DurationMeansDeadline`: the reason given is true; "duration" is
  also what a run gives when the script has stopped all of its threads (section 8).
- `BailoutHonoured`: no run ends with N errors reported and no stop, although
  the sum is made in one step and tested in another.
- `ReportedWithinCounted`: a reset never makes later errors unreportable (proved,
  and part of no run).
- `ProgressCoversRun`: main prints progress until the last thread has left its
  loop, also for a thread that was created and has never run.
- `StopTerminates`: a stop or the deadline ends the process, also when no
  response ever arrives.

*Fairness* (`FairSpec`): main, the second half of the signal handler and a
thread inside a handler go on (weak fairness: they run and wait for nothing);
`check_limits`, `check_timeouts` and the exit from the loop happen again and
again (strong fairness: their timers re-arm themselves at every call, and the
loop calls due timers after each poll, section 6). Nothing is assumed of the
server, of responses or of SIGINT.

*Proved*, for any number of threads and any limits (`RunControlProofs`):
`TypeCorrect`, `ErrorsSafe` (`BailoutJustified`, `ReportedWithinCounted`),
`ExactTotal` (`ExactResponses`), `DurationIsDeadline`, `BailoutIsHonoured`
(`BailoutHonoured`), `ProgressCovers` (`ProgressCoversRun`). The argument: `ControlInv`
ties labels to locals (a thread at `rc_ticket` is not warming, main at "sum" has
joined everybody); with it `TicketInv` says that the first `Cap` numbers are
each held by exactly one thread and that a thread past its warmup has counted as
many responses as it holds tickets, one less between the draw and the count;
`SumInv` then says that main's partial sum is the cardinality of the tickets of
the threads added so far. `ExactResponses` alone is not inductive: it speaks of
the end only, and a step before it needs to know who holds which ticket.
`ReasonInv` says for `stop`, `stopped_by` and each `loop_stop` why they have their
value: the thread that drew the last ticket is on its way to write the reason, and a
loop that was stopped with no reason was stopped by the deadline, the tickets or the
script.
`ErrorInv` needs that what `report_errors` read is at most the sum as it is now.
`BailInv`: while `errors_total` has reached the limit, `stop` is set or some thread is
`Bailing`, between its sum and its write to `stop`; no other thread can leave such a
state behind it. `RunningInv`: `threads_running` is the cardinality of the set of threads
that were created and are not past their loop, except in a process that exits because a
thread could not be created. Only liveness (`StopTerminates`) is left to TLC.

## 4. The connection: Connection, RequestCycle, ConnectionProofs

One action per handler, since a thread runs one handler at a time: `net[f]` is a
descriptor, its socket with what is on its way in both directions, and its
`aeFileEvent`; the other functions are the fields of `struct connection`. A
request and a response are two units each, so writes, reads and responses can be
partial. `ReconnectSocket` is the whole of `reconnect_socket`: it deletes the
events, closes and connects again inside the handler that called it, and may get
the same number. `RequestCycle` is the promise to the peer: a batch of
`Pipeline` requests is begun only when all of the previous one was answered, and
given up only with its socket; `Connection` implements it under `owed <- Owed`,
checked as the property `OneBatchAtATime`.

| run | configuration | bounds |
|---|---|---|
| Connection_open | closed loop, rate and `delay()`; the server answers and keeps open | two connections, batches of two |
| Connection_closed | closed loop, TLS handshakes and connects that fail, partial writes, a server that closes at any moment | two connections, three descriptors, batches of two; a connection whose connect failed is lost for good, so the system may stop |
| Connection_reuse | rate mode and `delay()`, connects that fail, a server that closes at any moment: timers outlive their sockets, and connections keep numbers they have closed | two connections and two numbers, so that each can be given the other's old one; batches of one, a timer each |

- `PendingMatchesWire`: `c->pending` is what the socket owes, through partial
  writes, retries, delays and reconnects.
- `ConnectionsKeptOpen`: after every handler something is armed that will call the
  connection again, unless its connect failed at once (section 8).
- `DescriptorsOwned`: the client of an event has the number the event is for, so that
  its handlers act on that socket; and it is the connection that opened the socket
  (`opener`), until a connect fails while a `delay_request` timer is armed. That is the
  history `stray`: the timer then registers the connection for whichever socket has its
  old number by now, and that socket's events go to it (section 8).
- `KeepsSending`: batches begin and end for ever.

Two connections are enough for reuse of a number by the other; batches of two
tell the first response from the last; three descriptors give one to spare.
*Fairness* is assumed in `Connection_open` only, where the server answers and
connects succeed: handlers of ready events and due timers run (weak), and `Send`
with strong fairness, because the socket's buffer may fill up again before the
handler is called, and drains whenever the server reads.

*Proved*, for any connections, descriptors, pipeline and modes (`ConnectionProofs`):
without any assumption on the server `TypeCorrect` and `Ownership` (`DescriptorsOwned`);
under `Quiet` the three that say what the engine is for, `PendingIsExact`
(`PendingMatchesWire`), `NothingIsForgotten` (`ConnectionsKeptOpen`) and
`BatchesAreCycles` (`Spec` implements `RequestCycle`). `Quiet` is: no response ends
before its request is written, and either every connection is in the closed loop or the
server closes none. Each half is needed: without the first `Connection_v_early` is a
counterexample, without the second `Connection_v_stale`, both faults of the code
(section 8). Both runs are within `Quiet`.

`Ownership` rests on `OpenInv`: while nothing went astray, a connection that has a timer
has an open socket which it opened itself, so that the timer registers it for its own.
The invariant `IInv` of the others is `Base`, whose number each descriptor in use is, which
needs no assumption, and for each connection `ConnInv`: a connected one either `Waits` to
begin a batch, for room in its socket or for its timer, with nothing owed, or is `InBatch`, where what it has written, what
is `pending`, what is on the wire in both directions and which events are registered
determine each other; a timer is armed only for a socket that stays. `ConnectionsKeptOpen`
alone is not inductive: that a readable event is enough to be called again depends on
there being an answer to come. Every handler touches its own connection and its own
socket, and a `Frame` lemma carries the rest; `Does` says what a handler may do to its
own, and the writes and the reads are each proved to do that. The refinement is then step
by step: `Owed`, computed from the wire, is what is left of the batch, so a step begins a
batch, has one answer read, loses the socket or changes nothing of it.
`KeepsSending` is liveness and left to TLC.

### What is sent and what is given to the script: ScriptedConnection, ScriptedProofs

The same handlers, seen from the script. Bytes are counted, not spelled: a string
is its length, a batch an identity and a length. `SocketWriteable` calls
`request()` again whenever `written` is 0 (`ScriptRequest`) and writes a piece:
`SockWrite` advances `written`, `SslWrite` does not before all is taken, which
is the rule of OpenSSL, whose own position is `ssl`. The parser may call
`HeaderField`, `HeaderValue` and `ResponseBody` with pieces of any length, also
0, in any legal order; `BufferAppend`, `BufferReset` and `Terminate` are the
buffer's arithmetic. `ResponseComplete` matches and hands over; `ResponseIgnored`
is the same after `stop`, and `ReconnectSocket` loses the socket at any moment:
both leave the buffers as they are. `own` and `leftover` are histories: the
response as the server sent it, and whether an earlier one left something.

Run `ScriptedConnection_cycle`: plain and TLS, fixed and dynamic requests, with
and without `response()` and `--expect-body`; requests of one or two bytes, pieces
of 0 to 2, two header fields, five bytes in a buffer that grows by 3: a string can
come in three pieces, and a buffer fills exactly, overflows by one, and is
enlarged twice.

- `RoomForTerminator`: the terminators that are written without asking for room
  always have it.
- `ResponseIsOwn`: `response()` and `--expect-body` judge the response that the
  call is about, however it was cut into pieces.
- `BatchIsWhole`: what the server reads as a batch is what one call of `request()`
  returned; excepted is a dynamic request over TLS (section 8).

*Proved*, for any lengths, pieces and increment: `TypeCorrect`, `TerminatorsHaveRoom`,
`BatchesAreWhole` (`BatchIsWhole`) and `ResponsesAreOwn` (`ResponseIsOwn`). The first
invariant adds to the room that an allocated buffer
has a free byte at all times, and that it is allocated when a string is open:
`AppendLeavesRoom` and `ResetLeavesRoom` make the free byte, and `header_value`
can use it only once before the next of these. `BatchInv`: until a batch is whole, what
the socket took of it is what is counted, in `written` or, over TLS, by OpenSSL, and no
other text was begun meanwhile; after it nothing is counted. `OwnInv`: when no earlier
response left anything, each buffer holds what the parser delivered of the response being
read, and one that was reset reads as empty whatever bytes are still in it.

### The numbers of sockets on Windows: FdTable, FdTableProofs

On Windows a socket is a handle, and `compat_win32.c` gives it a small number in
a table that all threads share. `socket()`, the allocation under the lock, the
removal under the lock and `closesocket()` are steps of their own (`Create`, `Allocate`,
the `Release` in `ConnectFails` and `Reconnect`, `CloseSocket`), so that two threads can
be between any two of them, and Windows may give a handle that was just closed to
another thread. `Exhausted` is a table without a free number. Connections of one thread
take turns. `Release` is `wpk_close` of whatever number it is given, by whoever calls it:
it takes the socket out that is there, and does nothing when none is. Its callers are
those of `wrk.c`: a connection whose connect failed keeps its old number in `fd`; a
`delay_request` timer of it (`Delay`, `DelayRequest`) registers the socket that has the
number by then, and its next failing handler (`Reconnect`) closes that. `mine` and
`robbed` are histories: the socket a connection has opened and not closed itself, and the
connections whose socket another one has closed.

Run `FdTable_numbers`: three connections of two threads, three handles, in a table of two
numbers: the table can be full, both threads can want the last number, and each number
can be closed twice, or by a connection that no longer has it. Handles are only compared,
so they are interchangeable (`SYMMETRY`).

- `BelowPeak`: a number is less than the first one plus the most sockets that were
  ever open at once, as the head of the file says.
- `OwnSocket`: from when `wpk_socket` returns until it closes it, the connection's number
  leads to its own socket, although `wpk_native` takes no lock; until another
  connection has closed that socket through an old number (section 8).

*Proved*, for any threads, connections and table: `TypeCorrect`,
`NumbersStayBelowPeak` and `LookupFindsOwn`. `StackOK` says that the stack of freed
numbers holds each number below `next_fd` that leads to no socket exactly once - a second
close adds none; then an empty stack means that every number given out leads to an open
socket (`FreshIsBelowPeak`), and a fresh number is below the peak. `OwnSocket` follows
from `OwnOK`, with `HandleOK`: a handle is in one place, the table or one connection's
call, so that whoever takes a socket out of the table either opened it or robs the one
that did.

## 5. Pacing: RatePacer, RatePacerProofs

Time is in ticks; `TicksPerMs` of them make a millisecond, the resolution of the
timers, and the rate is a fraction, so `complete / throughput` truncates as in
the code. `Pace` and `UsecToNextSend` are `usec_to_next_send`, with its catch-up
state; `TimerFor` rounds as `socket_writeable` does. `peer` is chosen at the start: any
server, or a prompt one that answers within `ServerTime` and a loop that is never late.

| run | question | bounds |
|---|---|---|
| RatePacer_rate | is anything early, is a backlog a burst, is a latency flattering? | batches of two, up to two stale timers, sockets lost at any time, 15 ticks at 2.5 ticks a request, three ticks to a millisecond: several batches, catch-up included |
| the same, prompt peer | do roundings add up? | 120 ticks, some 48 requests |

- `CorrectionNeverGifts`: the corrected latency is at least the uncorrected one,
  and that is not negative (`hdr_record_value` would abort, and the code says
  "This wil never ever ever happen").
- `NeverAhead`: no batch is sent before its first request is due.
- `CatchUpIsBounded`: a backlog is worked off at no more than twice the rate.
- `KeepsSchedule`: against a prompt server the lag stays within two timer
  periods and one answer.

Every response is recorded in the model, as with `--record_all_responses`.
`NeverAhead` and `CatchUpIsBounded` are claimed as long as sockets are lost only
with a batch in flight: a timer that outlives its socket fires on the next one
(section 8).

*Proved*, for every rate, pipeline and timer period (`RatePacerProofs`):
`TypeCorrect`, `CorrectionIsSafe`, `RateIsKept` (`NeverAhead`) and `CatchUpIsKept`
(`CatchUpIsBounded`). `StartInv` carries `CorrectionIsSafe`:
whatever is in flight was begun when its expected start had passed, and answers
only move the expected start up to what was sent. `RateIsKept` needs `OneThing`:
writable, waiting on one timer, or waiting for answers that `pending` counts;
without it a second batch could be begun on top of the first. `CatchUpIsKept` rests on the
same: who is behind is let through only when `now` has reached the catch-up's own
schedule, twice as fast from its start, and while that batch is in flight neither the
start nor the batch changes. `ScheduleIsKept` (`KeepsSchedule`) has a hypothesis, that the server answers a batch within
the time the rate gives one, `ServerTime <= Paced(Pipeline)`; without it the property is
false, since a connection that waits for its answers longer than its requests are apart
is never caught up with, and within it is the run (2 ticks of an answer against 5 of the
schedule). `PromptInv` is why roundings do not add up: a connection that is ahead waits
for its own turn, and `TimerIsNear` has its timer one period late at most; so a catch-up
period begins at most one period behind, its own schedule gains on the other one
(`CaughtUpIsNear`), and a wait within it adds one more period, whatever number of
batches it has. An answer later, the next request is at most where the last one was.
Rounded down in two parts the schedule is no later than rounded down once (`PacedAdds`), so
the truncations do not add up either.

## 6. The event loop: EventLoop, EventLoopProofs

`aeMain` as a cycle of places: "poll" computes the timeout, "sleep" waits,
"files" and "write" dispatch the two bits of each event, "times" walks the list
of timers, "create" is `thread_main` before it. The list is the sequence
`timers`, newest first, `te` the place in it, `maxId` the last timer that a pass
may call. A call of a timer's handler is one action, takes time, may stop the
loop (as any handler may, but `socket_connected`), re-arm the timer, end it, create
another or register events. `StepBack` sets the wall clock back. A timer's `due` is what its handler asked for, kept
apart from `when`, the two fields that the code computes.

Run `EventLoop_times`: two descriptors with a gap between them, timers at 0 and
2 ms, delays of 1 and 3, handlers that take 0 or 1 ms, one step back, seconds of
two milliseconds so that carry, borrow and the crossing of a second happen all
the time. It may stop (`aeStop`), and the clock ends at `Horizon`.

- `SleepsUntilNearest`: a poll that starts before any timer is due ends exactly
  when the first is; a late one is over in less than a second.
- `PassIsThorough`: a pass calls every timer that was due when it began,
  whatever handlers do to the list; after a step back to an earlier second,
  every timer.
- `NeverEarly` (action property): no timer before its delay is over.
- `NoStaleDispatch`: a handler is called only for a socket that the poll
  watched, even when the handler of the other bit has replaced it under the
  same number.
- `MaxFdExact`: `maxfd` is the highest registered descriptor (in no run, to keep
  the run to what is hard; it holds when added).

*Proved*, for seconds of any length and any timers (`EventLoopProofs`):
all five properties. `SleepIsRight`, `TimersAreNotEarly` and `TypeCorrect` rest on the
inductive invariant `LoopInv`: every
timer's two fields stand for the time its handler asked for (or it was made due
at once), and while the loop sleeps `wake` is the timeout computed for the
nearest of the timers in the list, which no step changes during the sleep. The
lemmas `AddIsExact`, `OrderIsRight`, `TimeoutIsRight` and `NearestIsFirst` carry the
arithmetic. `NothingStale` (`NoStaleDispatch`) rests on `DispatchInv`: the events that
wait are of different descriptors, and those are registered as when the poll reported
them, since a handler touches no other number (`Touched`); the descriptor whose readable
bit was handled is as it was too, or its handler has replaced it, and then one handler
serves both bits, which is not called twice. `PassesAreThorough` (`PassIsThorough`) rests
on `PassInv`: identifiers fall along the list, and a timer that the pass still owes a
call lies ahead of the scan, is due, and is not newer than the pass. A handler that
inserts does so in front of the scan, one that removes does not make it skip, and time
only moves on during a pass.

### The kernels: PollBackends, PollBackendsProofs

`desc[f]` is everything about a number: its socket and what it is ready for, its
`aeFileEvent`, what the kernel watches it for, and for event ports its entry in
`pending_masks`. `Init` chooses one of the five backends; `SelectAdd`,
`KqueueAdd`, `EpollAdd` ... are their `aeApiAddEvent` and `aeApiDelEvent` with the
kernel's rules (a closed socket leaves epoll, kqueue and the port by itself, but
not select's sets; an event port forgets what it reports). `Poll` is `aeApiPoll`
with the loop's bookkeeping, `CallRead`, `CallWrite` and `NoCall` process the next
fired entry, `NextRound` goes back to the poll when all entries and timers are done,
and the handlers do what those of `wrk.c` ask of the loop: register, unregister, close and connect again under any free number.

Run `PollBackends_watch`: two descriptors, so that one can be replaced while the
other's entry waits; a batch of one, so that an event port leaves something for
the next poll. Sockets become ready or fail at any time.

- `WatchedIsRegistered`: the kernel watches exactly what the table says (with event
  ports, or the descriptor is pending, never both, and nothing aborts).
- `PollTellsTruth`: every poll, also one that reports nothing, reports each registered
  direction that is ready and no other; but for a descriptor that found no room in
  a full batch of an event port, and for `select()` while its set holds a closed number,
  which fails and reports nothing (section 8).
- `NoStaleDispatch`: no handler is called on the strength of a socket that was
  closed since; except with kqueue (section 8).

*Proved*, for any descriptors, backends and batch: `TypeCorrect`, `WatchIsExact`
(`WatchedIsRegistered`), `PollIsTrue` (`PollTellsTruth`) and, for every backend but
kqueue, `NothingStale` (`NoStaleDispatch`). What a handler does to one number maps a sound descriptor to a
sound one, whichever backend it is (`AddKeeps`, `DelKeeps`, `CloseKeeps` up to
`OutcomesKeep`); soundness ties the procedures to the mask, the mask to what is
watched, and a closed socket to an empty mask. The invariant of the whole adds
that before a poll no entry of the last one waits, and that what is pending was fired. `PollIsTrue` is a theorem about
steps, from that invariant and `ErrInv`: an error is reported only of a socket that is
writable too, which is the direction `aeApiPoll` turns it into. `StaleInv`: no two waiting
entries are of one descriptor, so only the entry a handler was called for can become
stale, and then what is left of it is its writable bit while the number has one procedure
for both directions, or no event. With kqueue there are two entries, and it is false.

## 7. Latencies: HdrHistogram, Measurement

`HdrHistogram` holds the pure part of `hdr_histogram.c`: from a value to its
bucket, sub-bucket and index, the ranges of values that share a count, the
iterator (`Walk`, where `hdr_iter_next` stands after each call; `Visited`, the
calls that return true), and recording, adding, percentile, minimum, maximum and
mean over it. Shifts are powers of two, by a function `Power` of which laws can be proved,
and doubles are exact.

`Measurement` is what the program does with it. Threads record each response in
two histograms; `calibrate` and `end_warmup` reset them, which clears the counts
one by one; a scrape (`hist_add_live`) adds the counts of every thread one by
one, meanwhile; main adds up the histograms after the join. A thread's
`total_count` is read by nobody else before the join, which is why recording is
one step. The history `recorded` is the bag of responses since the last reset.

Run `Measurement_record`: two threads, two responses in all out of two kinds (one
corrected, with its two latencies in the last bucket and the one before, and one
of latency 0, in the first, which leaves the mean at 0), both resets in each
thread, histograms of three buckets and eight counts, percentiles 0, 50, 90 and
100. Three buckets are the first, one whose lower half is the bucket before it,
and the last, so every case of the index occurs; two responses meet in one count
or in two, of one thread or of two. The run ends with the report.

- `RecordedOnce`: what the iterator finds is what was recorded since the last
  reset, each response once, in the range its latency is in; also in the sums.
- `PercentilesRight`: p percent, rounded, of the latencies are at most the value
  reported, fewer are below its range, and the range is narrow: one unit, or no wider
  than the precision allows.
- `ExtremesRight`: minimum, maximum and mean, to the histogram's precision; the mean is
  off by half a unit more for each response when a unit is more than 1.
- `CorrectedDominates`: at no percentile is the corrected latency below the
  uncorrected one (proved, and part of no run; it holds when added).
- `ScrapeCanBeWalked`: a copy can be walked at any moment, which is what the
  comment at `wrk.c` 1697 is about.
- `ScrapeIsBetween`: without a reset in between, a finished scrape lies between
  the counts at its beginning and at its end.

`Measurement` assumes that latencies are within the histogram (`InRange`): 24
hours are, and `CorrectionNeverGifts` shows that none is negative.

### What becomes of them: Report

`Report` takes filled histograms to what is printed. A run records a bag of
responses; `stats` looks at it (`PercentileOf`, which is `latency(p)` and
`latency:percentile(p)`; `LatencyAt`, which is `latency[i]`; `Within`, `DevianceTotal`);
`--hist-out` writes it (a line of the file is a record: header, parameters,
counts, end); one of the files may be spoiled, cut off at some line or with a line
lost or changed; `merge` reads them one after the other, refuses or adds; and
`hdr_percentile_iter_next` goes through the sum line by line, its percentile an exact
multiple of `1/Whole`.

Run `Report_merge`: two runs of three kinds of response, each up to twice, a latency
in each of the three buckets, one of them corrected, one spoiled file at most; a
spectrum of five ticks to each half distance, as the program prints it, exact to
six halvings, which is more than four responses can use. The run ends with the
last line.

- `MergeIsExact`: counts, counters and the longest runtime of whole files are
  what was recorded; anything spoiled is refused, but for a missing end
  (section 8); a whole file never is.
- `SpectrumRight`: every line of the spectrum is true of the responses.
- `ViewsRight`: `latency[i]`, the deviation and the share within a range are right to
  the histogram's precision. `latency[i]` makes the index a percentage, a double, and
  that a rank again (`script.c` 464, `hdr_histogram.c` 338-341). The model rounds the
  percentage to a whole percent, either way, which with the totals of the run is as far
  off as a double with a total near 2^46; the rank is i for both, and the first or the
  last for an index below 1 or above the total.

*Proved*, for any threads, responses, units, precisions and sizes of the histogram
(`MeasurementProofs`): all properties of `Measurement`, namely `TypeCorrect`,
`EachIsCountedOnce` (`RecordedOnce`), `PercentilesAreRight` (`PercentilesRight`),
`ExtremesAreRight` (`ExtremesRight`), `CorrectedIsNotBelow` (`CorrectedDominates`),
`ScrapesLieBetween` (`ScrapeIsBetween`) and `ScrapesCanBeWalked` (`ScrapeCanBeWalked`);
and, of the iterator alone, `WalkIsInOrder`: bucket and sub-bucket of call k + 1 have the
index k, so every count is visited once.

- *Values and counts.* `PowerLaws` has what is needed of powers of two: each is positive
  and twice the one before. From it follow the dimensions of a histogram (`Dimensions`:
  the half is a half, some bucket is the last), that the length in bits of a number exists
  and is unique (`BitLengthIsRight`), and that the ranges of the stops of the iterator
  follow on each other without gap or overlap (`RangesFollow`, `RangesOrdered`). So a value
  has the index of the one range it lies in, whose ends are what
  `lowest_equivalent_value` and `highest_equivalent_value` say (`RangeIsRight`,
  `CountedOnce`), and the values that pass the assertions of `counts_index` are those
  up to the end of the last range (`CountedUpTo`).
- *Counts and responses.* `Marks` is the set of the responses of a bag with a latency in a
  set of values, one element for each time; `HowMany` is its cardinality. One
  recording adds one element to it (`MarkAdded`), and what the iterator has counted up to
  a stop is the cardinality for all values up to the end of its range (`RunsCount`).
  `RecordInv` says that a thread's two histograms hold what it recorded since its last
  reset, unless it is just being reset, and main's what all recorded. `RecordedOnce` alone
  is not inductive: it does not say that during a reset, while the counts are cleared one by
  one, the bag is empty already and nothing is added to it.
- *Sums.* `hdr_add` records each count again under the value it stands for. `MergedIsRight`:
  the result has, for each stop, the sum over the threads; `MarksOfAll`: so has the bag
  of all. Both are inductions on subsets of the threads.
- *The report.* A rank is reached at a stop that no earlier one reaches (`RankIsReached`),
  which with `RunsCount` is `PercentilesRight`; with a response's two latencies it is
  `CorrectedDominates`. For the mean, the sum over the counts is regrouped as one
  over the responses (`SumByCount`), and each response is off by half of its range at most
  (`MedianIsNear`).
- A finished scrape says nothing of one that is half way. `ScrapeInv` says that there are
  two numbers for each count and thread, what was there at the beginning and what was
  taken: `before` and the copy are their sums, nothing is taken yet of a count the scrape
  has not passed, and of the others no less than was there and no more than there is.
  Recording only makes counts larger; a reset makes `before` unknown.
- `WalkInv` says more than `ScrapeCanBeWalked`: the copy's total *is* what its counts run
  to, at every moment.
- Powers, sums over threads and running sums over counts are recursive functions. What such
  a definition computes is found by induction on the numbers below a bound or on the
  subsets of a finite set, and that is a statement about a set (`AllNumbers`,
  `AllSubsets`), not about an operator: so `SumIsMonotone`, `SumGrows`, `RecursionExists`,
  `TotalGrows` are within reach.

The proofs hold for units larger than 1 too, which wperfk does not use. That showed two
bounds that the run, with a unit of 1, could not tell from too narrow ones: in the first
bucket a range is a unit wide, however small its values, so a percentile may be off by
a unit and a mean by half of one. `PercentilesRight` and `ExtremesRight` say so.

Left to TLC: `MergeIsExact`, `SpectrumRight` and `ViewsRight` of `Report`. They rest on the
lemmas above; what they need besides, the lines of a file and the folds over bags and
lines, is not proved (section 2).

## 8. Where the code and its documents part

These properties say what a document, a comment or a test says of the program, or what
a handler takes for granted, and TLC finds each of them violated. They are stated in the
modules, and can be shown by hand with `tlc -config <name>.cfg <MC module>`; they are not part of the list of
runs, all of which pass.

- `Connection_v_early` (`ConnectionsKeptOpen`): a response that completes while its
  request is still being written (`wrk.c` 827-829, 937-939) leaves the connection
  without any event for the rest of the run; also its timeout cannot help, since
  `check_timeouts` only counts.
- `Connection_v_stale` (`OneBatchAtATime`): a `delay_request` timer survives a
  reconnect, and the new socket sends a second request before the first is answered
  ("each connection will only begin to send a request after receiving a response",
  `docs/wrk2-README.md` 306).
- `Connection_v_connect` (`ConnectionsNeverLost`): a connect that fails at once is
  never tried again ("Connections to keep open", `wrk.c` 89).
- `ScriptedConnection_v_leftover` (`ResponseIsAlwaysOwn`): after a response that was
  cut off by a reconnect, the next `response()` is given its headers and body too
  ("response() is called with the HTTP response status, headers, and body",
  SCRIPTING:81).
- `ScriptedConnection_v_retry` (`BatchIsAlwaysWhole`): over TLS `written` stays 0 while a
  write is retried, so `request()` is called again (`wrk.c` 912), and a batch is
  begun with one text and ended with another. OpenSSL may refuse that as well, when
  the text has become shorter; the connection is then opened anew.
- `EventLoop_v_overdue` (`NoOversleep`): when the nearest timer is overdue and belongs
  to an earlier second, `aeProcessEvents` sets the negative seconds to 0 and keeps
  the microseconds (`ae.c` 357): the poll sleeps up to a second too long, though the
  comment at 216-218 has it sleep "without to delay any event".
- `PollBackends_v_kqueue` (`EventStillValid`): kqueue reports the two directions of a
  socket as two entries (`ae_kqueue.c` 117); when the first replaces the socket under
  the same number, the second calls a handler for the new one, which "we check if
  the event is still valid" (`ae.c` 379-381) does not see.
- `Report_v_cut` (`MergeIsComplete`): a file cut off inside or between its histograms is
  merged without the rest, "exact bucket counts plus run totals" (`wrk.c` 1533): the
  loops of 1573 and 1618 end at the end of the file as they do at "end".
- `RunControl_v_script` (`DurationIsReached`): a run whose threads are all stopped by
  `thread:stop()` (SCRIPTING:58, `scripts/stop.lua`) says "duration" long before its
  duration: `script_thread_stop` stops the loop and writes no reason (`script.c` 516-520),
  and `stopped_by` has no value for it (README.md:212).
- `Connection_v_owner` (`EventsReachOpener`): a connect fails with a `delay_request` timer
  armed; the timer then registers WRITABLE on the old number in `c->fd` (`wrk.c` 723), which
  another connection has by now, and that one's events go to the first. No document
  speaks of this; that a number alone names a connection's socket is what `delay_request`
  takes for granted.
- `FdTable_v_robbed` (`NobodyIsRobbed`): the same connection's next failing handler closes
  that socket under the other (`wrk.c` 533), though numbers were chosen so that a connection
  without a socket "never aliases a live socket" (`compat_win32.c` 5-6). On Windows the
  other may be in another thread, since all share one table; elsewhere too, since the
  kernel's numbers are the process's.
- `PollBackends_v_deaf` (`PollIsNeverDeaf`): the same timer, while nobody has the old
  number, puts a closed one into select's set; from then on `select()` fails, and
  `aeApiPoll` takes that for a poll without events (`ae_select.c` 77-94), until
  some socket gets the number.
- `Report_v_call` (`CallIsRawValue`): SCRIPTING:99 has `latency(i)` for "raw value and
  count"; in the code the call is the percentile (`script.c` 64), which
  `tests/smoke.sh`:75 asserts, and the raw value is `latency[i]`.
- `RunControl_v_warmup` (`WarmupExcluded`): a run stopped inside its warmup
  reports warmup traffic (README.md:152). With `-continue` the same configuration
  shows `RuntimeWithinElapsed` violated too: such a run has a runtime near 2^64 us
  (SCRIPTING:102).
- `RunControl_v_requests` (`RequestsExact`): a thread can draw the last ticket
  while another is still warming, and the total is not N (README.md:151).
- `RunControl_v_bailout` (`BailoutIsFinal`): the reason "bailout" can be
  overwritten, and exit code 2 with it (README.md:173).
- `RunControl_v_total` (`BailoutTotalExact`): with two threads more than N errors
  can be summed (tests/smoke.sh:84 expects N).
- `RunControl_v_setup` (`SetupBeforeStart`): threads run before `setup()` was
  called for all (SCRIPTING:49-50).

Three more were met while reading and have no model: `sample_rate` divides by zero
when it runs in the same millisecond as `end_warmup` (`wrk.c` 634; the conversion of
the quotient is undefined, and 2^63 fails the assertion at `hdr_histogram.c` 52);
`calibrate` takes the mean of an empty histogram, NaN, for a success (this one is
part of `Calibrate`); and `script_copy_value` stores each entry of a table with key and value exchanged,
and pops the table itself at the end (`script.c` 611-616), though SCRIPTING:60-61
allows "tables of the same".

## 9. What is not modelled, and why

- The Lua engine, TLS inside OpenSSL, the parser and the kernel appear as what
  they may answer: outcomes of handlers, callbacks in any legal order.
- Options, URLs, units, report, JSON, Prometheus text: pure functions of one input,
  without state. Setting up a TLS context and a Lua state happens once, before
  anything that could interleave with it.
- `sample_rate` and the choice of its interval: what it samples is shown in one line
  of the report, it shares nothing with the other timers but the counter
  `requests`, and at the boundary where it could go wrong its value is undefined
  (section 8).
- Round-robin over targets, `wrk.lua`'s defaults, the choice among several addresses
  and the copying of values between Lua states: one thread, one call, no order of
  steps to get wrong. `thread:stop()` is in RunControl, and in EventLoop any handler that
  calls the script may stop the loop.
- `stats.c` for an array of samples: every `stats` of this program has a histogram, so
  these branches are never taken. The linear and logarithmic iterators and
  `hdr_record_corrected_value` are not called either.
- `FD_SETSIZE`: all numbers of PollBackends are below it; select is used only where no
  other backend exists.
- `connections / threads` drops a remainder: a division, nothing to check.
- `check_timeouts` counts an old `c->start` at every pass; RunControl takes any
  number. No document says what the count is meant to be.
- Memory exhaustion (`malloc` failing), 2^31 connections and 64-bit wrap of
  counters other than `pending` and the runtime are outside the bounds.

Out of the prover's reach, and left to TLC: liveness under fairness (`StopTerminates`,
`KeepsSending`) and ENABLED. Not proved: what the files, the merge and the spectrum make of
the counts (sections 2 and 7). `KeepsSchedule` is proved for servers that answer within the
time the rate allows, and is false of others (section 5).

## 10. Running

    tlc -workers 2 -config RunControl_limits.cfg MCRunControl
    tlapm RunControlProofs.tla

The largest run (RunControl_limits) takes about three minutes with two workers,
RunControl_stop and Report_merge almost two, Connection_closed and Connection_reuse about
one and a half, the others less.
