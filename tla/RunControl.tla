------------------------------ MODULE RunControl ------------------------------
(***************************************************************************)
(* How a wperfk run starts, is measured, stops and is summed up            *)
(* (src/wrk.c): main creates the threads, each thread runs its event loop, *)
(* and four independent parties can end the run - the deadline, the -n     *)
(* limit, the --bailout limit and SIGINT.  They communicate through        *)
(* unlocked globals (`stop', `stopped_by') and two atomic counters         *)
(* (`responses_total', `errors_total').  A fifth, the script's             *)
(* thread:stop(), ends one event loop and writes neither global.           *)
(*                                                                         *)
(* Every access to a shared global is a step of its own; everything else a *)
(* handler does to its own thread is folded into the neighbouring step.    *)
(* What happens on the wire is the environment's choice: a response may    *)
(* arrive, carry a status above 399, fail an --expect- check or close the  *)
(* connection, and a socket may fail, at any time.                         *)
(***************************************************************************)
EXTENDS Integers, FiniteSets

CONSTANTS
    NThreads,      \* cfg.threads
    Connections,   \* connections of one thread
    Requests,      \* cfg.requests, 0 when -n is not given
    Bailout,       \* cfg.bailout, 0 when --bailout is not given
    Warmup,        \* cfg.warmup in clock ticks, 0 when not given
    Duration,      \* cfg.duration in clock ticks
    Progress,      \* cfg.progress is set
    ScriptStops,   \* the script may call thread:stop()
    TimeModulus,   \* stands for 2^64, the modulus of uint64_t arithmetic
    Horizon,       \* bound: the last clock tick
    MaxResponses,  \* bound: responses counted by a thread, tickets handed out
    MaxErrors,     \* bound: errors counted by a thread
    MaxSignals     \* bound: SIGINTs delivered

ASSUME ConstantsAssumption ==
    /\ NThreads \in Nat \ {0}
    /\ Connections \in Nat \ {0}
    /\ Requests \in Nat /\ Bailout \in Nat /\ Warmup \in Nat /\ Duration \in Nat
    /\ Horizon \in Nat /\ MaxResponses \in Nat
    /\ MaxErrors \in Nat /\ MaxSignals \in Nat
    /\ Progress \in BOOLEAN /\ ScriptStops \in BOOLEAN
    /\ TimeModulus \in Nat \ {0} /\ Warmup < TimeModulus

Threads == 1 .. NThreads
Reasons == {"duration", "requests", "bailout", "signal"}

warmup_end == Warmup             \* the clock starts at 0 when main reads it
stop_at    == Warmup + Duration

VARIABLES
    now,              \* time_us(), in ticks
    \* globals
    stop, stopped_by, responses_total, errors_total, threads_running,
    \* main
    mpc, mi, sum_complete, sum_errors, sum_mismatch, runtime_us, exit_code,
    \* the SIGINT handler
    spc, signals,
    \* one entry per thread: control, and the fields of `thread'
    pc, ret, loop_stop, warming, complete, errors, mismatch, errors_reported,
    \* locals of report_errors and response_complete
    total, late, last,
    \* history: the numbers this thread drew from responses_total and counted
    tickets,
    \* history: thread:stop() was the first to stop the thread's loop
    script_stop

globals  == <<stop, stopped_by, responses_total, errors_total, threads_running>>
mainvars == <<mpc, mi, sum_complete, sum_errors, sum_mismatch, runtime_us,
              exit_code>>
outside  == <<spc, signals, script_stop>>
counts   == <<complete, errors, mismatch, errors_reported, tickets>>
locals   == <<total, late, last>>
vars     == <<now, globals, mainvars, outside, pc, ret, loop_stop, warming,
              counts, locals>>

Labels == {"unborn", "init", "loop", "rc_ticket", "rc_count", "rc_mismatch",
           "rc_finish", "rc_last", "rc_stop", "rc_close", "reconnect",
           "report", "bailcheck", "bail", "bailstop", "limits", "reset", "done"}

\* The labels report_errors returns to.
Returns == {"rc_mismatch", "rc_finish", "reconnect", "limits", "reset"}

-------------------------------------------------------------------------------
Init ==
    /\ now = 0
    /\ stop = FALSE /\ stopped_by = "duration"
    /\ responses_total = 0 /\ errors_total = 0 /\ threads_running = 0
    /\ mpc = "setup" /\ mi = 1
    /\ sum_complete = 0 /\ sum_errors = 0 /\ sum_mismatch = 0
    /\ runtime_us = 0 /\ exit_code = 0
    /\ spc = "idle" /\ signals = 0
    /\ pc = [t \in Threads |-> "unborn"]
    /\ ret = [t \in Threads |-> "limits"]
    /\ loop_stop = [t \in Threads |-> FALSE]
    /\ warming = [t \in Threads |-> FALSE]
    /\ complete = [t \in Threads |-> 0]
    /\ errors = [t \in Threads |-> 0]
    /\ mismatch = [t \in Threads |-> 0]
    /\ errors_reported = [t \in Threads |-> 0]
    /\ total = [t \in Threads |-> 0]
    /\ late = [t \in Threads |-> FALSE]
    /\ last = [t \in Threads |-> FALSE]
    /\ tickets = [t \in Threads |-> {}]
    /\ script_stop = [t \in Threads |-> FALSE]

\* The process has not exited.
Alive == mpc # "exit"

-------------------------------------------------------------------------------
(* main *)

\* script_init calls the script's setup() for thread mi.
Setup ==
    /\ mpc = "setup"
    /\ mpc' = "spawn"
    /\ UNCHANGED <<now, globals, mi, sum_complete, sum_errors, sum_mismatch,
                   runtime_us, exit_code, outside, pc, ret, loop_stop, warming,
                   counts, locals>>

\* Mutant of Spawn: the thread is not counted before it is created.
SpawnUncounted ==
    /\ mpc = "spawn"
    /\ pc' = [pc EXCEPT ![mi] = "init"]
    /\ IF mi < NThreads
         THEN mpc' = "setup" /\ mi' = mi + 1
         ELSE mpc' = "progress" /\ mi' = 1
    /\ UNCHANGED <<now, globals, sum_complete, sum_errors, sum_mismatch,
                   runtime_us, exit_code, outside, ret, loop_stop, warming,
                   counts, locals>>

\* pthread_create for thread mi; the loop goes on with the next thread.
Spawn ==
    /\ mpc = "spawn"
    /\ threads_running' = threads_running + 1
    /\ pc' = [pc EXCEPT ![mi] = "init"]
    /\ IF mi < NThreads
         THEN mpc' = "setup" /\ mi' = mi + 1
         ELSE mpc' = "progress" /\ mi' = 1
    /\ UNCHANGED <<now, stop, stopped_by, responses_total, errors_total,
                   sum_complete, sum_errors, sum_mismatch, runtime_us,
                   exit_code, outside, ret, loop_stop, warming, counts, locals>>

\* aeCreateEventLoop or pthread_create failed: exit(2), whatever already runs.
SpawnFails ==
    /\ mpc = "spawn"
    /\ mpc' = "exit" /\ exit_code' = 2
    /\ threads_running' = threads_running + 1
    /\ UNCHANGED <<now, stop, stopped_by, responses_total, errors_total, mi,
                   sum_complete, sum_errors, sum_mismatch, runtime_us, outside,
                   pc, ret, loop_stop, warming, counts, locals>>

\* progress_loop prints until no thread is running any more.
ProgressLoop ==
    /\ mpc = "progress"
    /\ Progress => threads_running <= 0
    /\ mpc' = "join"
    /\ UNCHANGED <<now, globals, mi, sum_complete, sum_errors, sum_mismatch,
                   runtime_us, exit_code, outside, pc, ret, loop_stop, warming,
                   counts, locals>>

\* pthread_join for thread mi; after the last one the runtime is taken.
Join ==
    /\ mpc = "join" /\ pc[mi] = "done"
    /\ IF mi < NThreads
         THEN mi' = mi + 1 /\ UNCHANGED <<mpc, runtime_us>>
         ELSE /\ mi' = 1 /\ mpc' = "sum"
              /\ runtime_us' = (now + TimeModulus - warmup_end) % TimeModulus
    /\ UNCHANGED <<now, globals, sum_complete, sum_errors, sum_mismatch,
                   exit_code, outside, pc, ret, loop_stop, warming, counts,
                   locals>>

\* Thread mi's counters are added to main's.
Sum ==
    /\ mpc = "sum"
    /\ sum_complete' = sum_complete + complete[mi]
    /\ sum_errors'   = sum_errors + errors[mi]
    /\ sum_mismatch' = sum_mismatch + mismatch[mi]
    /\ IF mi < NThreads
         THEN mi' = mi + 1 /\ mpc' = mpc
         ELSE mi' = mi /\ mpc' = "output"
    /\ UNCHANGED <<now, globals, runtime_us, exit_code, outside, pc, ret,
                   loop_stop, warming, counts, locals>>

\* Mutant of ExitCode: the number of mismatches leaks into the exit code.
ExitCodeCounts == IF stopped_by = "bailout" THEN 2
                  ELSE IF sum_mismatch > 0 THEN 3 + sum_mismatch ELSE 0

ExitCode == IF stopped_by = "bailout" THEN 2
            ELSE IF sum_mismatch > 0 THEN 3 ELSE 0

\* The report is written; --hist-out may be unwritable.
Output ==
    /\ mpc = "output"
    /\ mpc' = "exit"
    /\ exit_code' \in {ExitCode, 1}
    /\ UNCHANGED <<now, globals, mi, sum_complete, sum_errors, sum_mismatch,
                   runtime_us, outside, pc, ret, loop_stop, warming, counts,
                   locals>>

-------------------------------------------------------------------------------
(* handler, installed by sigaction once every thread runs *)

Signal ==
    /\ mpc \in {"progress", "join", "sum", "output"}
    /\ spc = "idle" /\ signals < MaxSignals
    /\ stopped_by' = "signal"
    /\ spc' = "store" /\ signals' = signals + 1
    /\ UNCHANGED <<now, stop, responses_total, errors_total, threads_running,
                   mainvars, script_stop, pc, ret, loop_stop, warming, counts,
                   locals>>

SignalStop ==
    /\ Alive /\ spc = "store"
    /\ stop' = TRUE /\ spc' = "idle"
    /\ UNCHANGED <<now, stopped_by, responses_total, errors_total,
                   threads_running, mainvars, signals, script_stop, pc, ret,
                   loop_stop, warming, counts, locals>>

-------------------------------------------------------------------------------
(* thread_main *)

Goto(t, label) == pc' = [pc EXCEPT ![t] = label]

\* A call of report_errors that returns to label.
CallReport(t, label) ==
    /\ pc'  = [pc EXCEPT ![t] = "report"]
    /\ ret' = [ret EXCEPT ![t] = label]

\* A call made only `if (cfg.bailout)'.
CallReportIfBailout(t, label) ==
    IF Bailout > 0 THEN CallReport(t, label)
                   ELSE Goto(t, label) /\ UNCHANGED ret

\* The end of report_errors; what the call kept is cleared, so that states that
\* differ only in dead locals are one state.
Return(t) ==
    /\ pc'  = [pc EXCEPT ![t] = ret[t]]
    /\ ret' = [ret EXCEPT ![t] = "limits"]

\* aeStop
StopLoop(t) == loop_stop' = [loop_stop EXCEPT ![t] = TRUE]

\* aeMain is entered, with its `stop = 0': an earlier thread:stop() is lost.
ThreadInit(t) ==
    /\ pc[t] = "init"
    /\ warming' = [warming EXCEPT ![t] = Warmup > 0]
    /\ loop_stop' = [loop_stop EXCEPT ![t] = FALSE]
    /\ script_stop' = [script_stop EXCEPT ![t] = FALSE]
    /\ Goto(t, "loop")
    /\ UNCHANGED <<now, globals, mainvars, spc, signals, ret, counts, locals>>

\* script_thread_stop: the thread's own request(), delay() or response() stops its
\* loop, or main's setup() does, which may keep the threads it was shown.  A call
\* for a loop that is stopped already changes nothing.
ScriptStop(t) ==
    /\ Alive /\ ScriptStops /\ ~loop_stop[t]
    /\ \/ pc[t] \in {"loop", "rc_finish"}
       \/ mpc = "setup" /\ pc[t] \notin {"unborn", "done"}
    /\ StopLoop(t)
    /\ script_stop' = [script_stop EXCEPT ![t] = TRUE]
    /\ UNCHANGED <<now, globals, mainvars, spc, signals, pc, ret, warming,
                   counts, locals>>

\* aeMain saw loop->stop.  It looks only between two iterations, so handlers
\* of the events already fired may run after aeStop and before this step.
LeaveLoop(t) ==
    /\ pc[t] = "loop" /\ loop_stop[t]
    /\ threads_running' = threads_running - 1
    /\ Goto(t, "done")
    /\ UNCHANGED <<now, stop, stopped_by, responses_total, errors_total,
                   mainvars, outside, ret, loop_stop, warming, counts, locals>>

-------------------------------------------------------------------------------
(* report_errors *)

ReportErrors(t) ==
    /\ pc[t] = "report"
    /\ IF errors[t] > errors_reported[t]
         THEN /\ errors_total' = errors_total + (errors[t] - errors_reported[t])
              /\ total' = [total EXCEPT ![t] = errors_total']
              /\ errors_reported' = [errors_reported EXCEPT ![t] = errors[t]]
              /\ Goto(t, "bailcheck") /\ UNCHANGED ret
         ELSE /\ Return(t)
              /\ UNCHANGED <<errors_total, total, errors_reported>>
    /\ UNCHANGED <<now, stop, stopped_by, responses_total, threads_running,
                   mainvars, outside, loop_stop, warming, complete, errors,
                   mismatch, tickets, late, last>>

\* Mutants of BailoutReached: one error too early; one too late.
BailoutEarly(t) == Bailout > 0 /\ total[t] + 1 >= Bailout /\ ~stop
BailoutLate(t) == Bailout > 0 /\ total[t] > Bailout /\ ~stop

BailoutReached(t) == Bailout > 0 /\ total[t] >= Bailout /\ ~stop

BailoutCheck(t) ==
    /\ pc[t] = "bailcheck"
    /\ IF BailoutReached(t) THEN Goto(t, "bail") /\ UNCHANGED ret
                            ELSE Return(t)
    /\ total' = [total EXCEPT ![t] = 0]
    /\ UNCHANGED <<now, globals, mainvars, outside, loop_stop, warming, counts,
                   late, last>>

BailoutReason(t) ==
    /\ pc[t] = "bail"
    /\ stopped_by' = "bailout"
    /\ Goto(t, "bailstop")
    /\ UNCHANGED <<now, stop, responses_total, errors_total, threads_running,
                   mainvars, outside, ret, loop_stop, warming, counts, locals>>

BailoutStop(t) ==
    /\ pc[t] = "bailstop"
    /\ stop' = TRUE
    /\ Return(t)
    /\ UNCHANGED <<now, stopped_by, responses_total, errors_total,
                   threads_running, mainvars, outside, loop_stop, warming,
                   counts, locals>>

-------------------------------------------------------------------------------
(* timer handlers *)

CheckLimits(t) ==
    /\ pc[t] = "loop"
    /\ CallReport(t, "limits")
    /\ UNCHANGED <<now, globals, mainvars, outside, loop_stop, warming, counts,
                   locals>>

CheckLimitsStop(t) ==
    /\ pc[t] = "limits"
    /\ loop_stop' = [loop_stop EXCEPT ![t] = @ \/ stop]
    /\ Goto(t, "loop")
    /\ UNCHANGED <<now, globals, mainvars, outside, ret, warming, counts, locals>>

\* end_warmup: the timer was set for warmup_end and fires once.
EndWarmup(t) ==
    /\ pc[t] = "loop" /\ warming[t] /\ now >= warmup_end
    /\ CallReport(t, "reset")
    /\ UNCHANGED <<now, globals, mainvars, outside, loop_stop, warming, counts,
                   locals>>

\* Mutants of EndWarmupReset: one of the counters is not cleared.
EndWarmupKeepsReported(t) ==
    /\ pc[t] = "reset"
    /\ complete' = [complete EXCEPT ![t] = 0]
    /\ errors' = [errors EXCEPT ![t] = 0]
    /\ mismatch' = [mismatch EXCEPT ![t] = 0]
    /\ warming' = [warming EXCEPT ![t] = FALSE]
    /\ Goto(t, "loop")
    /\ UNCHANGED <<now, globals, mainvars, outside, ret, loop_stop, tickets,
                   errors_reported, locals>>

EndWarmupKeepsComplete(t) ==
    /\ pc[t] = "reset"
    /\ errors' = [errors EXCEPT ![t] = 0]
    /\ mismatch' = [mismatch EXCEPT ![t] = 0]
    /\ errors_reported' = [errors_reported EXCEPT ![t] = 0]
    /\ warming' = [warming EXCEPT ![t] = FALSE]
    /\ Goto(t, "loop")
    /\ UNCHANGED <<now, globals, mainvars, outside, ret, loop_stop, tickets,
                   complete, locals>>

EndWarmupReset(t) ==
    /\ pc[t] = "reset"
    /\ complete' = [complete EXCEPT ![t] = 0]
    /\ errors' = [errors EXCEPT ![t] = 0]
    /\ mismatch' = [mismatch EXCEPT ![t] = 0]
    /\ errors_reported' = [errors_reported EXCEPT ![t] = 0]
    /\ warming' = [warming EXCEPT ![t] = FALSE]
    /\ Goto(t, "loop")
    /\ UNCHANGED <<now, globals, mainvars, outside, ret, loop_stop, tickets,
                   locals>>

\* Mutant of CheckTimeouts: the deadline is left to response_complete.
CheckTimeoutsNoDeadline(t) ==
    /\ pc[t] = "loop"
    /\ loop_stop' = [loop_stop EXCEPT ![t] = @ \/ stop]
    /\ UNCHANGED <<now, globals, mainvars, outside, pc, ret, warming, counts,
                   locals>>

\* check_timeouts: k of the thread's connections are older than cfg.timeout.
CheckTimeouts(t) ==
    /\ pc[t] = "loop"
    /\ \E k \in 0 .. Connections :
         /\ errors[t] + k <= MaxErrors
         /\ errors' = [errors EXCEPT ![t] = @ + k]
    /\ loop_stop' = [loop_stop EXCEPT ![t] = @ \/ stop \/ now >= stop_at]
    /\ UNCHANGED <<now, globals, mainvars, outside, pc, ret, warming, complete,
                   mismatch, errors_reported, tickets, locals>>

-------------------------------------------------------------------------------
(* socket errors and reconnects *)

\* The error path of socket_connected, socket_writeable and socket_readable.
SocketError(t) ==
    /\ pc[t] = "loop" /\ errors[t] < MaxErrors
    /\ errors' = [errors EXCEPT ![t] = @ + 1]
    /\ CallReportIfBailout(t, "reconnect")
    /\ UNCHANGED <<now, globals, mainvars, outside, loop_stop, warming,
                   complete, mismatch, errors_reported, tickets, locals>>

\* connect_socket at the end of reconnect_socket; a failure is counted but
\* not reported until the next report_errors.
Reconnect(t) ==
    /\ pc[t] = "reconnect"
    /\ \/ UNCHANGED errors
       \/ errors[t] < MaxErrors /\ errors' = [errors EXCEPT ![t] = @ + 1]
    /\ Goto(t, "loop")
    /\ UNCHANGED <<now, globals, mainvars, outside, ret, loop_stop, warming,
                   complete, mismatch, errors_reported, tickets, locals>>

-------------------------------------------------------------------------------
(* response_complete *)

\* `now' is read on entry and compared with stop_at only near the end.
ResponseComplete(t) ==
    /\ pc[t] = "loop"
    /\ complete[t] < MaxResponses /\ responses_total < MaxResponses
    /\ IF stop
         THEN StopLoop(t) /\ UNCHANGED <<pc, late>>
         ELSE /\ late' = [late EXCEPT ![t] = now >= stop_at]
              /\ Goto(t, IF Requests > 0 /\ ~warming[t] THEN "rc_ticket"
                                                        ELSE "rc_count")
              /\ UNCHANGED loop_stop
    /\ UNCHANGED <<now, globals, mainvars, outside, ret, warming, counts, total,
                   last>>

\* Mutant of TakeTicket: fetch_and_add, the ticket is the old total.
TakeTicketOld(t) ==
    LET n == responses_total IN
    /\ pc[t] = "rc_ticket"
    /\ responses_total' = n + 1
    /\ IF n > Requests
         THEN StopLoop(t) /\ Goto(t, "loop") /\ UNCHANGED last
         ELSE /\ last' = [last EXCEPT ![t] = n = Requests]
              /\ Goto(t, "rc_count")
              /\ UNCHANGED loop_stop
    /\ UNCHANGED <<now, stop, stopped_by, errors_total, threads_running,
                   mainvars, outside, ret, warming, counts, total, late>>

\* n = __sync_add_and_fetch(&responses_total, 1)
TakeTicket(t) ==
    LET n == responses_total + 1 IN
    /\ pc[t] = "rc_ticket"
    /\ responses_total' = n
    /\ IF n > Requests
         THEN /\ StopLoop(t) /\ Goto(t, "loop")
              /\ late' = [late EXCEPT ![t] = FALSE]
              /\ UNCHANGED <<last, tickets>>
         ELSE /\ last' = [last EXCEPT ![t] = n = Requests]
              /\ tickets' = [tickets EXCEPT ![t] = @ \cup {n}]
              /\ Goto(t, "rc_count")
              /\ UNCHANGED <<loop_stop, late>>
    /\ UNCHANGED <<now, stop, stopped_by, errors_total, threads_running,
                   mainvars, outside, ret, warming, complete, errors, mismatch,
                   errors_reported, total>>

\* thread->complete++, and a status above 399 is an error.
CountResponse(t) ==
    /\ pc[t] = "rc_count"
    /\ complete' = [complete EXCEPT ![t] = @ + 1]
    /\ \/ Goto(t, "rc_mismatch") /\ UNCHANGED <<ret, errors>>
       \/ /\ errors[t] < MaxErrors
          /\ errors' = [errors EXCEPT ![t] = @ + 1]
          /\ CallReportIfBailout(t, "rc_mismatch")
    /\ UNCHANGED <<now, globals, mainvars, outside, loop_stop, warming,
                   mismatch, errors_reported, tickets, locals>>

\* The --expect-status and --expect-body checks.
CheckExpect(t) ==
    /\ pc[t] = "rc_mismatch"
    /\ \/ Goto(t, "rc_finish") /\ UNCHANGED <<ret, errors, mismatch>>
       \/ /\ errors[t] < MaxErrors
          /\ errors' = [errors EXCEPT ![t] = @ + 1]
          /\ mismatch' = [mismatch EXCEPT ![t] = @ + 1]
          /\ CallReportIfBailout(t, "rc_finish")
    /\ UNCHANGED <<now, globals, mainvars, outside, loop_stop, warming,
                   complete, errors_reported, tickets, locals>>

\* Past the deadline the handler leaves before it looks at `last'.
FinishResponse(t) ==
    /\ pc[t] = "rc_finish"
    /\ IF late[t]
         THEN StopLoop(t) /\ Goto(t, "loop")
         ELSE /\ Goto(t, IF last[t] THEN "rc_last" ELSE "rc_close")
              /\ UNCHANGED loop_stop
    /\ late' = [late EXCEPT ![t] = FALSE] /\ last' = [last EXCEPT ![t] = FALSE]
    /\ UNCHANGED <<now, globals, mainvars, outside, ret, warming, counts, total>>

\* Mutant of LastReason: the reason is left as it was.
LastReasonUnset(t) ==
    /\ pc[t] = "rc_last"
    /\ Goto(t, "rc_stop")
    /\ UNCHANGED <<now, globals, mainvars, outside, ret, loop_stop, warming,
                   counts, locals>>

LastReason(t) ==
    /\ pc[t] = "rc_last"
    /\ stopped_by' = "requests"
    /\ Goto(t, "rc_stop")
    /\ UNCHANGED <<now, stop, responses_total, errors_total, threads_running,
                   mainvars, outside, ret, loop_stop, warming, counts, locals>>

LastStop(t) ==
    /\ pc[t] = "rc_stop"
    /\ stop' = TRUE
    /\ StopLoop(t)
    /\ Goto(t, "rc_close")
    /\ UNCHANGED <<now, stopped_by, responses_total, errors_total,
                   threads_running, mainvars, outside, ret, warming, counts,
                   locals>>

\* A response without keep-alive ends in reconnect_socket.
KeepAlive(t) ==
    /\ pc[t] = "rc_close"
    /\ \/ Goto(t, "loop") /\ UNCHANGED ret
       \/ CallReportIfBailout(t, "reconnect")
    /\ UNCHANGED <<now, globals, mainvars, outside, loop_stop, warming, counts,
                   locals>>

-------------------------------------------------------------------------------
Tick ==
    /\ Alive /\ now < Horizon
    /\ now' = now + 1
    /\ UNCHANGED <<globals, mainvars, outside, pc, ret, loop_stop, warming,
                   counts, locals>>

\* The rest of a handler that has begun.
Continue(t) ==
    \/ ReportErrors(t) \/ BailoutCheck(t) \/ BailoutReason(t) \/ BailoutStop(t)
    \/ CheckLimitsStop(t) \/ EndWarmupReset(t) \/ Reconnect(t)
    \/ TakeTicket(t) \/ CountResponse(t) \/ CheckExpect(t) \/ FinishResponse(t)
    \/ LastReason(t) \/ LastStop(t) \/ KeepAlive(t)

ThreadStep(t) ==
    /\ Alive
    /\ \/ ThreadInit(t) \/ LeaveLoop(t)
       \/ CheckLimits(t) \/ EndWarmup(t) \/ CheckTimeouts(t)
       \/ SocketError(t) \/ ResponseComplete(t)
       \/ Continue(t)

MainStep == Setup \/ Spawn \/ SpawnFails \/ ProgressLoop \/ Join \/ Sum \/ Output

Exited == mpc = "exit" /\ UNCHANGED vars

Next ==
    \/ MainStep \/ Signal \/ SignalStop \/ Tick \/ Exited
    \/ \E t \in Threads : ThreadStep(t) \/ ScriptStop(t)

\* main and a handler that has begun keep going; check_limits and
\* check_timeouts re-arm themselves, aeProcessEvents runs every timer that is
\* due in each iteration, and an iteration handles finitely many events before
\* aeMain looks at loop->stop.  Nothing is assumed of the server, of SIGINT, of
\* the script or of the clock.
Fairness ==
    /\ WF_vars(MainStep) /\ WF_vars(SignalStop)
    /\ \A t \in Threads :
         /\ WF_vars(Alive /\ (ThreadInit(t) \/ Continue(t)))
         /\ SF_vars(Alive /\ CheckLimits(t))
         /\ SF_vars(Alive /\ CheckTimeouts(t))
         /\ SF_vars(Alive /\ LeaveLoop(t))

Spec == Init /\ [][Next]_vars
FairSpec == Spec /\ Fairness

-------------------------------------------------------------------------------
(* Properties *)

\* Every variable has its type.
TypeOK ==
    /\ now \in Nat
    /\ stop \in BOOLEAN /\ stopped_by \in Reasons
    /\ responses_total \in Nat /\ errors_total \in Nat
    /\ threads_running \in Int
    /\ mpc \in {"setup", "spawn", "progress", "join", "sum", "output", "exit"}
    /\ mi \in Threads
    /\ sum_complete \in Nat /\ sum_errors \in Nat /\ sum_mismatch \in Nat
    /\ runtime_us \in 0 .. TimeModulus - 1 /\ exit_code \in 0 .. 3
    /\ spc \in {"idle", "store"} /\ signals \in Nat
    /\ pc \in [Threads -> Labels] /\ ret \in [Threads -> Returns]
    /\ loop_stop \in [Threads -> BOOLEAN] /\ warming \in [Threads -> BOOLEAN]
    /\ complete \in [Threads -> Nat] /\ errors \in [Threads -> Nat]
    /\ mismatch \in [Threads -> Nat] /\ errors_reported \in [Threads -> Nat]
    /\ total \in [Threads -> Nat]
    /\ late \in [Threads -> BOOLEAN] /\ last \in [Threads -> BOOLEAN]
    /\ tickets \in [Threads -> SUBSET (Nat \ {0})]
    /\ script_stop \in [Threads -> BOOLEAN]

Summed == mpc = "output" \/ (mpc = "exit" /\ \A t \in Threads : pc[t] = "done")

\* -n: once every thread is past its warmup, the total main prints is exactly
\* the number of tickets handed out, capped at N.  No interleaving of the
\* atomic increments, the deadline, SIGINT and --bailout loses a response that
\* was given one of the first N tickets or counts one that was not.
ExactResponses ==
    (Summed /\ Requests > 0 /\ \A t \in Threads : ~warming[t]) =>
        sum_complete = IF responses_total > Requests THEN Requests
                                                     ELSE responses_total

\* A finished run that calls itself "duration" really reached its deadline, unless
\* the script was the first to stop every one of its threads, since thread:stop()
\* leaves no reason.  A thread that leaves its loop because the N tickets are gone writes
\* neither `stop' nor `stopped_by'; one that its script stops may hold the last
\* ticket: the reason is still given.
DurationMeansDeadline ==
    (Summed /\ stopped_by = "duration") =>
        now >= stop_at \/ \A t \in Threads : script_stop[t]

\* The reason "bailout" is only ever given when N errors were reported, also
\* when the errors of a warmup are counted and then cleared.
BailoutJustified ==
    stopped_by = "bailout" => Bailout > 0 /\ errors_total >= Bailout

\* A thread never claims to have reported more errors than it counted; if it
\* did (a reset of one of the two alone), later errors would not be reported.
ReportedWithinCounted ==
    \A t \in Threads : errors_reported[t] <= errors[t]

\* --progress: main prints until the last thread is out of its event loop.  The
\* count goes up before pthread_create and down after aeMain, so a thread that
\* was created and has not been scheduled yet still keeps the loop going.
ProgressCoversRun ==
    (Progress /\ mpc \in {"join", "sum", "output"}) =>
        \A t \in Threads : pc[t] = "done"

\* --bailout is honoured: no run ends with N errors reported and without a stop.
\* Whichever thread's report reaches N sees it, although the sum is made in one
\* atomic step and tested in another.
BailoutHonoured ==
    (Summed /\ Bailout > 0 /\ errors_total >= Bailout) => stop

\* Once `stop' is set, by whatever party, or the deadline has passed, every thread
\* leaves its loop, main joins them all and the process exits, also when no
\* response ever arrives again.
StopTerminates == (stop \/ now >= stop_at) ~> (mpc = "exit")

-------------------------------------------------------------------------------
(* What the documentation and the tests say, and the code does not do *)

\* README: warmup traffic is excluded from every result.  The counters are only
\* cleared by end_warmup, which a run that stops earlier never reaches.
WarmupExcluded ==
    Summed => \A t \in Threads : warming[t] => complete[t] = 0

\* README: -n stops after exactly N responses.  One thread can draw all N
\* tickets while another has not run its end_warmup yet.
RequestsExact ==
    (Summed /\ stopped_by = "requests") => sum_complete = Requests

\* SCRIPTING: summary.duration is the run's duration.  main subtracts
\* warmup_end from the time of the last join, in unsigned arithmetic.
RuntimeWithinElapsed == Summed => runtime_us <= now

\* README: a run that --bailout stopped exits with code 2.  The reason is
\* overwritten by SIGINT, or by a thread already holding the last ticket.
BailoutIsFinal ==
    [][(stop /\ stopped_by = "bailout") => stopped_by' = "bailout"]_vars

\* tests/smoke.sh: a run stopped by --bailout N reports N errors.  A thread
\* already past its test of `stop' still counts its error.
BailoutTotalExact ==
    (Summed /\ stopped_by = "bailout") => sum_errors = Bailout

\* README: stopped_by is "duration", "requests", "bailout" or "signal".  A run whose
\* threads the script stopped (SCRIPTING: thread:stop() - stop the thread) is none
\* of them and gives "duration", long before its deadline.
DurationIsReached ==
    (Summed /\ stopped_by = "duration") => now >= stop_at

\* SCRIPTING: setup() runs when no thread has been started.  The creation loop
\* starts each thread before it calls setup() for the next one.
SetupBeforeStart ==
    mpc = "setup" => \A t \in Threads : pc[t] = "unborn"
===============================================================================
