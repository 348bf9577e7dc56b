--------------------------- MODULE RunControlProofs ---------------------------
(***************************************************************************)
(* Proofs about RunControl, for every number of threads and every setting  *)
(* of the limits.  The invariants below are the strengthenings that make   *)
(* the properties of RunControl inductive.                                 *)
(***************************************************************************)
EXTENDS RunControl, FiniteSetTheorems, TLAPS

\* Labels at which report_errors runs.
Reporting == {"report", "bailcheck", "bail", "bailstop"}

\* Control: what a thread's label says of its locals, and what main's says of
\* the threads.
ControlInv ==
    /\ \A t \in Threads :
         /\ pc[t] \in {"unborn", "init"} => complete[t] = 0 /\ tickets[t] = {}
         /\ pc[t] = "reset" \/ ret[t] = "reset" => warming[t]
         /\ ret[t] = "reset" => pc[t] \in Reporting
         /\ pc[t] = "rc_ticket" => ~warming[t] /\ Requests > 0
         /\ last[t] => \/ pc[t] \in {"rc_count", "rc_mismatch", "rc_finish"}
                       \/ /\ pc[t] \in Reporting
                          /\ ret[t] \in {"rc_mismatch", "rc_finish"}
    /\ mpc \in {"setup", "spawn"} => \A t \in Threads : t >= mi => pc[t] = "unborn"
    /\ mpc = "progress" => mi = 1
    /\ mpc = "join" => \A t \in Threads : t < mi => pc[t] = "done"
    /\ mpc \in {"sum", "output"} => \A t \in Threads : pc[t] = "done"
    /\ mpc = "exit" => \/ \E t \in Threads : pc[t] = "unborn"
                       \/ \A t \in Threads : pc[t] = "done"

\* The number of tickets that were below the limit.
Cap == IF responses_total > Requests THEN Requests ELSE responses_total

\* Tickets: the first Cap numbers are each held by exactly one thread, and a
\* thread past its warmup has counted as many responses as it holds tickets.
TicketInv ==
    /\ UNION {tickets[t] : t \in Threads} = 1 .. Cap
    /\ \A t, u \in Threads : t # u => tickets[t] \cap tickets[u] = {}
    /\ \A t \in Threads :
         /\ warming[t] => tickets[t] = {}
         /\ Requests > 0 /\ ~warming[t] =>
              complete[t] + (IF pc[t] = "rc_count" THEN 1 ELSE 0)
                  = Cardinality(tickets[t])

\* The tickets of the first n threads.
Drawn(n) == UNION {tickets[t] : t \in 1 .. n}

Measured == Requests > 0 /\ \A t \in Threads : ~warming[t]

\* main's sum is the number of tickets of the threads added so far.
SumInv ==
    /\ mpc \in {"setup", "spawn", "progress", "join"} => sum_complete = 0
    /\ mpc = "sum" /\ Measured => sum_complete = Cardinality(Drawn(mi - 1))
    /\ mpc = "output" \/ (mpc = "exit" /\ \A t \in Threads : pc[t] = "done") =>
         (Measured => sum_complete = Cardinality(Drawn(NThreads)))

\* Reasons: why `stop', `stopped_by' and a thread's loop->stop have their values.
ReasonInv ==
    /\ stopped_by = "duration" => ~stop /\ spc = "idle"
    /\ \A t \in Threads :
         /\ pc[t] \in {"rc_stop", "bailstop"} => stopped_by # "duration"
         /\ late[t] => now >= stop_at
         /\ pc[t] = "done" => loop_stop[t]
         /\ loop_stop[t] => \/ stop \/ now >= stop_at
                            \/ Requests > 0 /\ responses_total > Requests
                            \/ script_stop[t]
    /\ Requests > 0 /\ responses_total >= Requests =>
         \/ stopped_by # "duration" \/ now >= stop_at
         \/ \E t \in Threads : last[t] \/ pc[t] = "rc_last"

\* Errors: what report_errors read is not more than what is on errors_total.
ErrorInv ==
    /\ ReportedWithinCounted
    /\ BailoutJustified
    /\ \A t \in Threads :
         /\ total[t] <= errors_total
         /\ pc[t] = "bail" => Bailout > 0 /\ errors_total >= Bailout

-------------------------------------------------------------------------------
(* Type correctness *)


\* main's loop index stays a thread.
LEMMA ThreadIndex ==
    /\ 1 \in Threads
    /\ \A i \in Threads : i \in Nat /\ (i < NThreads => i + 1 \in Threads)
  BY ConstantsAssumption DEF Threads

\* TypeOK, for every value of the constants: no step of main, the signal
\* handler or a thread leaves a variable outside its type.  The one delicate
\* step is Join, whose runtime stays in range because it is taken modulo 2^64.
THEOREM TypeCorrect == Spec => []TypeOK
<1>1. Init => TypeOK
  <2> SUFFICES ASSUME Init PROVE TypeOK
    OBVIOUS
  <2>1. stop \in BOOLEAN
    BY DEF Init
  <2>2. /\ loop_stop \in [Threads -> BOOLEAN] /\ warming \in [Threads -> BOOLEAN]
        /\ late \in [Threads -> BOOLEAN] /\ last \in [Threads -> BOOLEAN]
    BY DEF Init
  <2>3. pc \in [Threads -> Labels] /\ ret \in [Threads -> Returns]
    BY DEF Init, Labels, Returns
  <2>4. mi \in Threads /\ runtime_us \in 0 .. TimeModulus - 1
    BY ConstantsAssumption, ThreadIndex DEF Init
  <2>5. /\ complete \in [Threads -> Nat] /\ errors \in [Threads -> Nat]
        /\ mismatch \in [Threads -> Nat] /\ errors_reported \in [Threads -> Nat]
        /\ total \in [Threads -> Nat] /\ tickets \in [Threads -> SUBSET (Nat \ {0})]
        /\ script_stop \in [Threads -> BOOLEAN]
    BY DEF Init
  <2>6. /\ now \in Nat /\ responses_total \in Nat /\ errors_total \in Nat
        /\ threads_running \in Int /\ stopped_by \in Reasons
        /\ sum_complete \in Nat /\ sum_errors \in Nat /\ sum_mismatch \in Nat
        /\ exit_code \in 0 .. 3 /\ signals \in Nat
    BY DEF Init, Reasons
  <2> QED BY <2>1, <2>2, <2>3, <2>4, <2>5, <2>6 DEF Init, TypeOK
<1>2. TypeOK /\ [Next]_vars => TypeOK'
  <2> SUFFICES ASSUME TypeOK, [Next]_vars PROVE TypeOK'
    OBVIOUS
  <2> USE ConstantsAssumption DEF TypeOK, Reasons, Labels, Returns, globals,
        mainvars, outside, counts, locals
  <2>1. CASE Setup BY <2>1, SMTT(60) DEF Setup
  <2>2. CASE Spawn BY ThreadIndex, <2>2, SMTT(60) DEF Spawn
  <2>3. CASE SpawnFails BY <2>3, SMTT(60) DEF SpawnFails
  <2>4. CASE ProgressLoop BY <2>4, SMTT(60) DEF ProgressLoop
  <2>5. CASE Join
    <3>1. (now + TimeModulus - warmup_end) % TimeModulus \in 0 .. TimeModulus - 1
      BY DEF warmup_end
    <3> QED BY ThreadIndex, <2>5, <3>1 DEF Join
  <2>6. CASE Sum BY ThreadIndex, <2>6, SMTT(60) DEF Sum
  <2>7. CASE Output BY <2>7, SMTT(60) DEF Output, ExitCode
  <2>8. CASE Signal BY <2>8, SMTT(60) DEF Signal
  <2>9. CASE SignalStop BY <2>9, SMTT(60) DEF SignalStop
  <2>10. CASE Tick BY <2>10, SMTT(60) DEF Tick
  <2>11. CASE Exited BY <2>11, SMTT(60) DEF Exited, vars
  <2>12. ASSUME NEW t \in Threads, ThreadStep(t) PROVE TypeOK'
    <3> USE DEF Goto, CallReport, CallReportIfBailout, Return, StopLoop
    <3>1. CASE ThreadInit(t) BY <3>1, SMTT(60) DEF ThreadInit
    <3>2. CASE LeaveLoop(t) BY <3>2, SMTT(60) DEF LeaveLoop
    <3>3. CASE CheckLimits(t) BY <3>3, SMTT(60) DEF CheckLimits
    <3>4. CASE EndWarmup(t) BY <3>4, SMTT(60) DEF EndWarmup
    <3>5. CASE CheckTimeouts(t) BY <3>5, SMTT(60) DEF CheckTimeouts
    <3>6. CASE SocketError(t) BY <3>6, SMTT(60) DEF SocketError
    <3>7. CASE ResponseComplete(t)
      <4>0. (now >= stop_at) \in BOOLEAN
        OBVIOUS
      <4>1. late' \in [Threads -> BOOLEAN]
        BY <3>7, <4>0, Zenon DEF ResponseComplete
      <4>2. loop_stop' \in [Threads -> BOOLEAN]
        BY <3>7, Zenon DEF ResponseComplete
      <4>3. pc' \in [Threads -> Labels]
        BY <3>7 DEF ResponseComplete
      <4> QED BY <3>7, <4>1, <4>2, <4>3 DEF ResponseComplete
    <3>8. CASE ReportErrors(t) BY <3>8, SMTT(60) DEF ReportErrors
    <3>9. CASE BailoutCheck(t) BY <3>9, SMTT(60) DEF BailoutCheck
    <3>10. CASE BailoutReason(t) BY <3>10, SMTT(60) DEF BailoutReason
    <3>11. CASE BailoutStop(t) BY <3>11, SMTT(60) DEF BailoutStop
    <3>12. CASE CheckLimitsStop(t) BY <3>12, SMTT(60) DEF CheckLimitsStop
    <3>13. CASE EndWarmupReset(t) BY <3>13, SMTT(60) DEF EndWarmupReset
    <3>14. CASE Reconnect(t) BY <3>14, SMTT(60) DEF Reconnect
    <3>15. CASE TakeTicket(t)
      <4>1. last' \in [Threads -> BOOLEAN] /\ late' \in [Threads -> BOOLEAN]
        BY <3>15, Zenon DEF TakeTicket
      <4>2. loop_stop' \in [Threads -> BOOLEAN]
        BY <3>15, Zenon DEF TakeTicket
      <4>3. pc' \in [Threads -> Labels]
        BY <3>15 DEF TakeTicket
      <4>4. responses_total' \in Nat
        BY <3>15 DEF TakeTicket
      <4>5. tickets' \in [Threads -> SUBSET (Nat \ {0})]
        BY <3>15 DEF TakeTicket
      <4> QED BY <3>15, <4>1, <4>2, <4>3, <4>4, <4>5 DEF TakeTicket
    <3>16. CASE CountResponse(t) BY <3>16, SMTT(60) DEF CountResponse
    <3>17. CASE CheckExpect(t) BY <3>17, SMTT(60) DEF CheckExpect
    <3>18. CASE FinishResponse(t)
      <4>1. /\ loop_stop' \in [Threads -> BOOLEAN]
            /\ late' \in [Threads -> BOOLEAN] /\ last' \in [Threads -> BOOLEAN]
        BY <3>18, Zenon DEF FinishResponse
      <4>2. pc' \in [Threads -> Labels]
        BY <3>18 DEF FinishResponse
      <4> QED BY <3>18, <4>1, <4>2 DEF FinishResponse
    <3>19. CASE LastReason(t) BY <3>19, SMTT(60) DEF LastReason
    <3>20. CASE LastStop(t) BY <3>20, SMTT(60) DEF LastStop
    <3>21. CASE KeepAlive(t) BY <3>21, SMTT(60) DEF KeepAlive
    <3> QED BY <2>12, <3>1, <3>2, <3>3, <3>4, <3>5, <3>6, <3>7, <3>8, <3>9,
          <3>10, <3>11, <3>12, <3>13, <3>14, <3>15, <3>16, <3>17, <3>18, <3>19,
          <3>20, <3>21 DEF ThreadStep, Continue
  <2>13. CASE UNCHANGED vars BY <2>13, SMTT(60) DEF vars
  <2>14. ASSUME NEW t \in Threads, ScriptStop(t) PROVE TypeOK'
    BY <2>14, SMTT(60) DEF ScriptStop, StopLoop
  <2> QED BY <2>1, <2>2, <2>3, <2>4, <2>5, <2>6, <2>7, <2>8, <2>9, <2>10,
        <2>11, <2>12, <2>13, <2>14 DEF Next, MainStep
<1> QED BY <1>1, <1>2, PTL DEF Spec

-------------------------------------------------------------------------------
(* Errors and --bailout *)

\* BailoutJustified and ReportedWithinCounted, for every number of threads and
\* every limit: whatever the interleaving of report_errors in the threads, the
\* reason "bailout" means that N errors were reported, and end_warmup never
\* leaves a thread with more errors reported than counted.
THEOREM ErrorsSafe == Spec => [](BailoutJustified /\ ReportedWithinCounted)
<1>1. Init => ErrorInv
  BY DEF Init, ErrorInv, BailoutJustified, ReportedWithinCounted
<1>2. TypeOK /\ ErrorInv /\ [Next]_vars => ErrorInv'
  <2> SUFFICES ASSUME TypeOK, ErrorInv, [Next]_vars PROVE ErrorInv'
    OBVIOUS
  <2>0. /\ pc \in [Threads -> Labels] /\ ret \in [Threads -> Returns]
        /\ errors \in [Threads -> Nat] /\ errors_reported \in [Threads -> Nat]
        /\ total \in [Threads -> Nat] /\ errors_total \in Nat /\ Bailout \in Nat
    BY ConstantsAssumption DEF TypeOK
  <2> USE DEF ErrorInv, BailoutJustified, ReportedWithinCounted, globals,
        mainvars, outside, counts, locals
  <2>1. CASE Setup BY <2>0, <2>1 DEF Setup
  <2>2. CASE Spawn BY <2>0, <2>2 DEF Spawn
  <2>3. CASE SpawnFails BY <2>0, <2>3 DEF SpawnFails
  <2>4. CASE ProgressLoop BY <2>0, <2>4 DEF ProgressLoop
  <2>5. CASE Join BY <2>0, <2>5 DEF Join
  <2>6. CASE Sum BY <2>0, <2>6 DEF Sum
  <2>7. CASE Output BY <2>0, <2>7 DEF Output
  <2>8. CASE Signal BY <2>0, <2>8 DEF Signal
  <2>9. CASE SignalStop BY <2>0, <2>9 DEF SignalStop
  <2>10. CASE Tick BY <2>0, <2>10 DEF Tick
  <2>11. CASE Exited BY <2>0, <2>11 DEF Exited, vars
  <2>12. ASSUME NEW t \in Threads, ThreadStep(t) PROVE ErrorInv'
    <3> USE DEF Goto, CallReport, CallReportIfBailout, Return, StopLoop, Returns
    <3>1. CASE ThreadInit(t) BY <2>0, <3>1 DEF ThreadInit
    <3>2. CASE LeaveLoop(t) BY <2>0, <3>2 DEF LeaveLoop
    <3>3. CASE CheckLimits(t) BY <2>0, <3>3 DEF CheckLimits
    <3>4. CASE EndWarmup(t) BY <2>0, <3>4 DEF EndWarmup
    <3>5. CASE CheckTimeouts(t) BY <2>0, <3>5 DEF CheckTimeouts
    <3>6. CASE SocketError(t) BY <2>0, <3>6 DEF SocketError
    <3>7. CASE ResponseComplete(t) BY <2>0, <3>7 DEF ResponseComplete
    <3>8. CASE ReportErrors(t) BY <2>0, <3>8 DEF ReportErrors
    <3>9. CASE BailoutCheck(t)
      BY <2>0, <3>9 DEF BailoutCheck, BailoutReached
    <3>10. CASE BailoutReason(t) BY <2>0, <3>10 DEF BailoutReason
    <3>11. CASE BailoutStop(t) BY <2>0, <3>11 DEF BailoutStop
    <3>12. CASE CheckLimitsStop(t) BY <2>0, <3>12 DEF CheckLimitsStop
    <3>13. CASE EndWarmupReset(t) BY <2>0, <3>13 DEF EndWarmupReset
    <3>14. CASE Reconnect(t) BY <2>0, <3>14 DEF Reconnect
    <3>15. CASE TakeTicket(t) BY <2>0, <3>15 DEF TakeTicket
    <3>16. CASE CountResponse(t) BY <2>0, <3>16 DEF CountResponse
    <3>17. CASE CheckExpect(t) BY <2>0, <3>17 DEF CheckExpect
    <3>18. CASE FinishResponse(t) BY <2>0, <3>18 DEF FinishResponse
    <3>19. CASE LastReason(t) BY <2>0, <3>19 DEF LastReason
    <3>20. CASE LastStop(t) BY <2>0, <3>20 DEF LastStop
    <3>21. CASE KeepAlive(t) BY <2>0, <3>21 DEF KeepAlive
    <3> QED BY <2>12, <3>1, <3>2, <3>3, <3>4, <3>5, <3>6, <3>7, <3>8, <3>9,
          <3>10, <3>11, <3>12, <3>13, <3>14, <3>15, <3>16, <3>17, <3>18,
          <3>19, <3>20, <3>21
          DEF ThreadStep, Continue
  <2>13. CASE UNCHANGED vars BY <2>0, <2>13 DEF vars
  <2>14. ASSUME NEW t \in Threads, ScriptStop(t) PROVE ErrorInv'
    BY <2>0, <2>14 DEF ScriptStop
  <2> QED BY <2>1, <2>2, <2>3, <2>4, <2>5, <2>6, <2>7, <2>8, <2>9, <2>10,
        <2>11, <2>12, <2>13, <2>14
        DEF Next, MainStep
<1> QED
  <2>1. ErrorInv => BailoutJustified /\ ReportedWithinCounted
    BY DEF ErrorInv
  <2> QED BY <1>1, <1>2, <2>1, TypeCorrect, PTL DEF Spec

-------------------------------------------------------------------------------
(* Control *)

\* ControlInv: where a thread is in its code agrees with its locals, and where
\* main is agrees with which threads exist and which have ended.
LEMMA Control == Spec => []ControlInv
<1>1. Init => ControlInv
  BY DEF Init, ControlInv, Reporting
<1>2. TypeOK /\ ControlInv /\ [Next]_vars => ControlInv'
  <2> SUFFICES ASSUME TypeOK, ControlInv, [Next]_vars PROVE ControlInv'
    OBVIOUS
  <2>0. /\ pc \in [Threads -> Labels] /\ ret \in [Threads -> Returns]
        /\ warming \in [Threads -> BOOLEAN] /\ last \in [Threads -> BOOLEAN]
        /\ complete \in [Threads -> Nat] /\ mi \in Threads
        /\ tickets \in [Threads -> SUBSET (Nat \ {0})]
    BY DEF TypeOK
  <2> USE DEF ControlInv, Reporting, globals, mainvars, outside, counts, locals
  <2>1. CASE Setup BY <2>0, <2>1 DEF Setup
  <2>2. CASE Spawn
    BY <2>0, <2>2, ThreadIndex DEF Spawn, Threads
  <2>3. CASE SpawnFails
    BY <2>0, <2>3, ThreadIndex DEF SpawnFails
  <2>4. CASE ProgressLoop
    BY <2>0, <2>4 DEF ProgressLoop, Threads
  <2>5. CASE Join
    <3>1. \A t \in Threads : t <= mi => pc[t] = "done"
      BY <2>0, <2>5 DEF Join, Threads
    <3>2. CASE mi < NThreads
      <4>1. mi' = mi + 1 /\ mpc' = "join" /\ pc' = pc
        BY <2>5, <3>2 DEF Join
      <4>2. \A t \in Threads : t < mi + 1 => t <= mi
        BY <2>0 DEF Threads
      <4> QED BY <2>0, <2>5, <3>1, <4>1, <4>2 DEF Join
    <3>3. CASE ~(mi < NThreads)
      <4>1. \A t \in Threads : pc[t] = "done"
        BY <2>0, <3>1, <3>3, ConstantsAssumption DEF Threads
      <4>2. mpc' = "sum" /\ pc' = pc
        BY <2>5, <3>3 DEF Join
      <4> QED BY <2>0, <2>5, <4>1, <4>2 DEF Join
    <3> QED BY <3>2, <3>3
  <2>6. CASE Sum BY <2>0, <2>6 DEF Sum
  <2>7. CASE Output BY <2>0, <2>7 DEF Output
  <2>8. CASE Signal BY <2>0, <2>8 DEF Signal
  <2>9. CASE SignalStop BY <2>0, <2>9 DEF SignalStop
  <2>10. CASE Tick BY <2>0, <2>10 DEF Tick
  <2>11. CASE Exited BY <2>0, <2>11 DEF Exited, vars
  <2>12. ASSUME NEW t \in Threads, ThreadStep(t) PROVE ControlInv'
    <3> USE DEF Goto, CallReport, CallReportIfBailout, Return, StopLoop, Returns
    <3>1. CASE ThreadInit(t) BY <2>0, <3>1 DEF ThreadInit
    <3>2. CASE LeaveLoop(t) BY <2>0, <3>2 DEF LeaveLoop
    <3>3. CASE CheckLimits(t) BY <2>0, <3>3 DEF CheckLimits
    <3>4. CASE EndWarmup(t) BY <2>0, <3>4 DEF EndWarmup
    <3>5. CASE CheckTimeouts(t) BY <2>0, <3>5 DEF CheckTimeouts
    <3>6. CASE SocketError(t) BY <2>0, <3>6 DEF SocketError
    <3>7. CASE ResponseComplete(t) BY <2>0, <3>7 DEF ResponseComplete
    <3>8. CASE ReportErrors(t) BY <2>0, <3>8 DEF ReportErrors
    <3>9. CASE BailoutCheck(t) BY <2>0, <3>9 DEF BailoutCheck
    <3>10. CASE BailoutReason(t) BY <2>0, <3>10 DEF BailoutReason
    <3>11. CASE BailoutStop(t) BY <2>0, <3>11 DEF BailoutStop
    <3>12. CASE CheckLimitsStop(t) BY <2>0, <3>12 DEF CheckLimitsStop
    <3>13. CASE EndWarmupReset(t) BY <2>0, <3>13 DEF EndWarmupReset
    <3>14. CASE Reconnect(t) BY <2>0, <3>14 DEF Reconnect
    <3>15. CASE TakeTicket(t) BY <2>0, <3>15 DEF TakeTicket
    <3>16. CASE CountResponse(t) BY <2>0, <3>16 DEF CountResponse
    <3>17. CASE CheckExpect(t) BY <2>0, <3>17 DEF CheckExpect
    <3>18. CASE FinishResponse(t) BY <2>0, <3>18 DEF FinishResponse
    <3>19. CASE LastReason(t) BY <2>0, <3>19 DEF LastReason
    <3>20. CASE LastStop(t) BY <2>0, <3>20 DEF LastStop
    <3>21. CASE KeepAlive(t) BY <2>0, <3>21 DEF KeepAlive
    <3> QED BY <2>12, <3>1, <3>2, <3>3, <3>4, <3>5, <3>6, <3>7, <3>8, <3>9,
          <3>10, <3>11, <3>12, <3>13, <3>14, <3>15, <3>16, <3>17, <3>18,
          <3>19, <3>20, <3>21
          DEF ThreadStep, Continue
  <2>13. CASE UNCHANGED vars BY <2>0, <2>13 DEF vars
  <2>14. ASSUME NEW t \in Threads, ScriptStop(t) PROVE ControlInv'
    BY <2>0, <2>14 DEF ScriptStop
  <2> QED BY <2>1, <2>2, <2>3, <2>4, <2>5, <2>6, <2>7, <2>8, <2>9, <2>10,
        <2>11, <2>12, <2>13, <2>14
        DEF Next, MainStep
<1> QED BY <1>1, <1>2, TypeCorrect, PTL DEF Spec

-------------------------------------------------------------------------------
(* Tickets and -n *)

\* Steps that touch neither tickets nor counters preserve TicketInv.
LEMMA TicketFrame ==
    ASSUME TicketInv,
           UNCHANGED <<tickets, responses_total, complete, warming>>,
           \A t \in Threads :
              \/ pc'[t] = "rc_count" <=> pc[t] = "rc_count"
              \/ Requests = 0 \/ warming[t]
    PROVE  TicketInv'
  BY ConstantsAssumption DEF TicketInv, Cap

\* TicketInv: fetch-and-add hands out 1, 2, 3, ... without gaps or repeats, and
\* a thread's count lags its tickets only between the draw and the increment.
LEMMA Tickets == Spec => []TicketInv
<1>1. Init => TicketInv
  <2> SUFFICES ASSUME Init PROVE TicketInv
    OBVIOUS
  <2>1. Cap = 0 /\ 1 .. Cap = {}
    BY ConstantsAssumption DEF Init, Cap
  <2>2. \A t \in Threads : tickets[t] = {} /\ complete[t] = 0 /\ pc[t] = "unborn"
    BY DEF Init
  <2>3. UNION {tickets[t] : t \in Threads} = {}
    BY <2>2
  <2> QED BY <2>1, <2>2, <2>3, FS_EmptySet DEF TicketInv
<1>2. TypeOK /\ ControlInv /\ TicketInv /\ [Next]_vars => TicketInv'
  <2> SUFFICES ASSUME TypeOK, ControlInv, TicketInv, [Next]_vars
               PROVE  TicketInv'
    OBVIOUS
  <2>0. /\ pc \in [Threads -> Labels] /\ ret \in [Threads -> Returns]
        /\ warming \in [Threads -> BOOLEAN] /\ complete \in [Threads -> Nat]
        /\ tickets \in [Threads -> SUBSET (Nat \ {0})]
        /\ responses_total \in Nat /\ Requests \in Nat /\ mi \in Threads
    BY ConstantsAssumption DEF TypeOK
  <2> USE DEF globals, mainvars, outside, counts, locals
  <2>1. CASE Setup BY TicketFrame, <2>0, <2>1 DEF Setup
  <2>2. CASE Spawn
    <3>1. pc[mi] = "unborn"
      BY <2>0, <2>2, ThreadIndex DEF Spawn, ControlInv
    <3> QED BY TicketFrame, <2>0, <3>1, <2>2 DEF Spawn
  <2>3. CASE SpawnFails BY TicketFrame, <2>0, <2>3 DEF SpawnFails
  <2>4. CASE ProgressLoop BY TicketFrame, <2>0, <2>4 DEF ProgressLoop
  <2>5. CASE Join BY TicketFrame, <2>0, <2>5 DEF Join
  <2>6. CASE Sum BY TicketFrame, <2>0, <2>6 DEF Sum
  <2>7. CASE Output BY TicketFrame, <2>0, <2>7 DEF Output
  <2>8. CASE Signal BY TicketFrame, <2>0, <2>8 DEF Signal
  <2>9. CASE SignalStop BY TicketFrame, <2>0, <2>9 DEF SignalStop
  <2>10. CASE Tick BY TicketFrame, <2>0, <2>10 DEF Tick
  <2>11. CASE Exited BY TicketFrame, <2>0, <2>11 DEF Exited, vars
  <2>12. ASSUME NEW t \in Threads, ThreadStep(t) PROVE TicketInv'
    <3> USE DEF Goto, CallReport, CallReportIfBailout, Return, StopLoop, Returns
    <3>1. CASE ThreadInit(t)
      <4>1. complete[t] = 0 /\ tickets[t] = {}
        BY <3>1 DEF ThreadInit, ControlInv
      <4>2. pc' = [pc EXCEPT ![t] = "loop"]
        BY <3>1 DEF ThreadInit
      <4>3. \A u \in Threads \ {t} : warming'[u] = warming[u]
        BY <2>0, <3>1 DEF ThreadInit
      <4>4. UNCHANGED <<tickets, responses_total, complete>>
        BY <3>1 DEF ThreadInit
      <4> QED BY <2>0, <4>1, <4>2, <4>3, <4>4, FS_EmptySet DEF TicketInv, Cap
    <3>2. CASE LeaveLoop(t) BY TicketFrame, <2>0, <3>2 DEF LeaveLoop
    <3>3. CASE CheckLimits(t) BY TicketFrame, <2>0, <3>3 DEF CheckLimits
    <3>4. CASE EndWarmup(t) BY TicketFrame, <2>0, <3>4 DEF EndWarmup
    <3>5. CASE CheckTimeouts(t) BY TicketFrame, <2>0, <3>5 DEF CheckTimeouts
    <3>6. CASE SocketError(t) BY TicketFrame, <2>0, <3>6 DEF SocketError
    <3>7. CASE ResponseComplete(t)
      <4>1. pc'[t] = "rc_count" => Requests = 0 \/ warming[t]
        BY <2>0, <3>7 DEF ResponseComplete
      <4>2. \A u \in Threads \ {t} : pc'[u] = pc[u]
        BY <2>0, <3>7 DEF ResponseComplete
      <4>3. UNCHANGED <<tickets, responses_total, complete, warming>>
        BY <3>7 DEF ResponseComplete
      <4>4. \A u \in Threads :
              \/ pc'[u] = "rc_count" <=> pc[u] = "rc_count"
              \/ Requests = 0 \/ warming[u]
        <5>1. pc[t] # "rc_count"
          BY <3>7 DEF ResponseComplete
        <5> QED BY <4>1, <4>2, <5>1, Zenon
      <4> QED BY TicketFrame, <4>3, <4>4
    <3>8. CASE ReportErrors(t) BY TicketFrame, <2>0, <3>8 DEF ReportErrors
    <3>9. CASE BailoutCheck(t) BY TicketFrame, <2>0, <3>9 DEF BailoutCheck
    <3>10. CASE BailoutReason(t) BY TicketFrame, <2>0, <3>10 DEF BailoutReason
    <3>11. CASE BailoutStop(t) BY TicketFrame, <2>0, <3>11 DEF BailoutStop
    <3>12. CASE CheckLimitsStop(t) BY TicketFrame, <2>0, <3>12 DEF CheckLimitsStop
    <3>13. CASE EndWarmupReset(t)
      <4>1. warming[t] /\ tickets[t] = {}
        BY <3>13 DEF EndWarmupReset, ControlInv, TicketInv
      <4>2. /\ pc' = [pc EXCEPT ![t] = "loop"]
            /\ complete' = [complete EXCEPT ![t] = 0]
        BY <3>13 DEF EndWarmupReset
      <4>3. \A u \in Threads \ {t} : warming'[u] = warming[u]
        BY <2>0, <3>13 DEF EndWarmupReset
      <4>4. UNCHANGED <<tickets, responses_total>>
        BY <3>13 DEF EndWarmupReset
      <4>5. /\ complete'[t] + (IF pc'[t] = "rc_count" THEN 1 ELSE 0) = 0
            /\ Cardinality(tickets'[t]) = 0 /\ tickets'[t] = {}
        <5>1. complete'[t] = 0 /\ pc'[t] = "loop"
          BY <2>0, <4>2
        <5>2. tickets'[t] = {}
          BY <4>1, <4>4
        <5>3. Cardinality(tickets'[t]) = 0
          BY <5>2, FS_EmptySet
        <5> QED BY <5>1, <5>2, <5>3
      <4>6. \A u \in Threads \ {t} : complete'[u] = complete[u] /\ pc'[u] = pc[u]
        BY <2>0, <4>2
      <4> QED BY <4>3, <4>4, <4>5, <4>6 DEF TicketInv, Cap
    <3>14. CASE Reconnect(t) BY TicketFrame, <2>0, <3>14 DEF Reconnect
    <3>15. CASE TakeTicket(t)
      <4> DEFINE n == responses_total + 1
      <4>0. /\ pc[t] = "rc_ticket" /\ ~warming[t] /\ Requests > 0
            /\ responses_total' = n /\ UNCHANGED <<complete, warming>>
        BY <3>15 DEF TakeTicket, ControlInv
      <4>1. CASE n > Requests
        <5>1. tickets' = tickets /\ pc' = [pc EXCEPT ![t] = "loop"]
          BY <3>15, <4>1 DEF TakeTicket
        <5>2. Cap' = Requests /\ Cap = Requests
          BY <2>0, <4>0, <4>1 DEF Cap
        <5> QED BY <2>0, <4>0, <5>1, <5>2 DEF TicketInv
      <4>2. CASE ~(n > Requests)
        <5>1. /\ tickets' = [tickets EXCEPT ![t] = @ \cup {n}]
              /\ pc' = [pc EXCEPT ![t] = "rc_count"]
          BY <3>15, <4>2 DEF TakeTicket
        <5>2. Cap = responses_total /\ Cap' = n
          BY <2>0, <4>0, <4>2 DEF Cap
        <5>3. \A u \in Threads : tickets[u] \subseteq 1 .. Cap
          BY DEF TicketInv
        <5>4. \A u \in Threads : n \notin tickets[u]
          BY <2>0, <5>2, <5>3
        <5>5. UNION {tickets'[u] : u \in Threads} = 1 .. Cap'
          <6>1. UNION {tickets'[u] : u \in Threads}
                  = (UNION {tickets[u] : u \in Threads}) \cup {n}
            BY <2>0, <5>1
          <6>2. (1 .. responses_total) \cup {n} = 1 .. n
            BY <2>0
          <6> QED BY <5>2, <6>1, <6>2 DEF TicketInv
        <5>6. \A u, v \in Threads : u # v => tickets'[u] \cap tickets'[v] = {}
          BY <2>0, <5>1, <5>4 DEF TicketInv
        <5>7. Cardinality(tickets'[t]) = Cardinality(tickets[t]) + 1
          <6>1. IsFiniteSet(tickets[t])
            <7>1. IsFiniteSet(1 .. responses_total)
              BY <2>0, FS_Interval
            <7> QED BY <5>2, <5>3, <7>1, FS_Subset
          <6> QED BY <2>0, <5>1, <5>4, <6>1, FS_AddElement
        <5>8. \A u \in Threads : warming'[u] => tickets'[u] = {}
          BY <2>0, <4>0, <5>1 DEF TicketInv
        <5>9. ASSUME NEW u \in Threads, ~warming'[u]
              PROVE complete'[u] + (IF pc'[u] = "rc_count" THEN 1 ELSE 0)
                      = Cardinality(tickets'[u])
          <6>1. CASE u = t
            <7>1. complete[t] + 0 = Cardinality(tickets[t])
              BY <4>0 DEF TicketInv
            <7> QED BY <2>0, <4>0, <5>1, <5>7, <6>1, <7>1
          <6>2. CASE u # t
            BY <2>0, <4>0, <5>1, <5>9, <6>2 DEF TicketInv
          <6> QED BY <6>1, <6>2
        <5> QED BY <5>5, <5>6, <5>8, <5>9 DEF TicketInv
      <4> QED BY <4>1, <4>2
    <3>16. CASE CountResponse(t)
      <4>1. /\ complete' = [complete EXCEPT ![t] = @ + 1]
            /\ UNCHANGED <<tickets, responses_total, warming>>
        BY <3>16 DEF CountResponse
      <4>2. /\ pc[t] = "rc_count" /\ pc'[t] # "rc_count"
            /\ \A u \in Threads \ {t} : pc'[u] = pc[u]
        BY <2>0, <3>16 DEF CountResponse
      <4> QED BY <2>0, <4>1, <4>2 DEF TicketInv, Cap
    <3>17. CASE CheckExpect(t) BY TicketFrame, <2>0, <3>17 DEF CheckExpect
    <3>18. CASE FinishResponse(t) BY TicketFrame, <2>0, <3>18 DEF FinishResponse
    <3>19. CASE LastReason(t) BY TicketFrame, <2>0, <3>19 DEF LastReason
    <3>20. CASE LastStop(t) BY TicketFrame, <2>0, <3>20 DEF LastStop
    <3>21. CASE KeepAlive(t) BY TicketFrame, <2>0, <3>21 DEF KeepAlive
    <3> QED BY <2>12, <3>1, <3>2, <3>3, <3>4, <3>5, <3>6, <3>7, <3>8, <3>9,
          <3>10, <3>11, <3>12, <3>13, <3>14, <3>15, <3>16, <3>17, <3>18,
          <3>19, <3>20, <3>21
          DEF ThreadStep, Continue
  <2>13. CASE UNCHANGED vars BY TicketFrame, <2>0, <2>13 DEF vars
  <2>14. ASSUME NEW t \in Threads, ScriptStop(t) PROVE TicketInv'
    BY TicketFrame, <2>0, <2>14 DEF ScriptStop
  <2> QED BY <2>1, <2>2, <2>3, <2>4, <2>5, <2>6, <2>7, <2>8, <2>9, <2>10,
        <2>11, <2>12, <2>13, <2>14
        DEF Next, MainStep
<1> QED BY <1>1, <1>2, TypeCorrect, Control, PTL DEF Spec

\* A thread's step leaves main's variables alone and starts from a live label.
LEMMA ThreadStepFrame ==
    ASSUME TypeOK, NEW t \in Threads, ThreadStep(t)
    PROVE  pc[t] # "done" /\ mpc # "exit" /\ UNCHANGED mainvars
<1> USE DEF mainvars
<1>1. mpc # "exit"
  BY DEF ThreadStep, Alive
<1>2. CASE Continue(t)
  BY <1>1, <1>2 DEF Continue, ReportErrors, BailoutCheck, BailoutReason,
     BailoutStop, CheckLimitsStop, EndWarmupReset, Reconnect, TakeTicket,
     CountResponse, CheckExpect, FinishResponse, LastReason, LastStop, KeepAlive
<1>3. CASE ~Continue(t)
  BY <1>1, <1>3 DEF ThreadStep, ThreadInit, LeaveLoop, CheckLimits, EndWarmup,
     CheckTimeouts, SocketError, ResponseComplete
<1> QED BY <1>2, <1>3

\* SumInv: main's loop adds up as many responses as the threads hold tickets.
LEMMA Sums == Spec => []SumInv
<1>1. Init => SumInv
  BY DEF Init, SumInv
<1>2. TypeOK /\ ControlInv /\ TicketInv /\ SumInv /\ [Next]_vars => SumInv'
  <2> SUFFICES ASSUME TypeOK, ControlInv, TicketInv, SumInv, [Next]_vars
               PROVE  SumInv'
    OBVIOUS
  <2> USE DEF globals, mainvars, outside, counts, locals
  <2>0. /\ pc \in [Threads -> Labels] /\ mi \in Threads
        /\ sum_complete \in Nat /\ complete \in [Threads -> Nat]
        /\ tickets \in [Threads -> SUBSET (Nat \ {0})]
        /\ responses_total \in Nat /\ Requests \in Nat
    BY ConstantsAssumption DEF TypeOK
  <2>1. CASE Setup BY <2>1 DEF Setup, SumInv, Measured, Drawn
  <2>2. CASE Spawn BY <2>2 DEF Spawn, SumInv
  <2>3. CASE SpawnFails
    <3>1. pc[mi] = "unborn" /\ pc' = pc
      <4>1. mpc = "spawn" /\ pc' = pc
        BY <2>3 DEF SpawnFails
      <4>2. mi >= mi
        BY <2>0, ThreadIndex
      <4> QED BY <2>0, <4>1, <4>2 DEF ControlInv
    <3> QED BY <2>0, <2>3, <3>1 DEF SpawnFails, SumInv
  <2>4. CASE ProgressLoop BY <2>4 DEF ProgressLoop, SumInv
  <2>5. CASE Join
    <3>1. CASE mi < NThreads
      BY <2>5, <3>1 DEF Join, SumInv
    <3>2. CASE ~(mi < NThreads)
      <4>1. mi' = 1 /\ mpc' = "sum" /\ sum_complete' = 0
        BY <2>5, <3>2 DEF Join, SumInv
      <4>2. Drawn(mi - 1)' = {}
        BY <4>1 DEF Drawn
      <4> QED BY <4>1, <4>2, FS_EmptySet DEF SumInv
    <3> QED BY <3>1, <3>2
  <2>6. CASE Sum
    <3>0. /\ mpc = "sum" /\ sum_complete' = sum_complete + complete[mi]
          /\ UNCHANGED <<tickets, warming, pc>>
      BY <2>6 DEF Sum
    <3>1. ASSUME Measured
          PROVE  sum_complete' = Cardinality(Drawn(mi))
      <4>1. sum_complete = Cardinality(Drawn(mi - 1))
        BY <3>0, <3>1 DEF SumInv
      <4>2. complete[mi] = Cardinality(tickets[mi])
        <5>1. pc[mi] = "done"
          BY <2>0, <3>0 DEF ControlInv
        <5>2. complete[mi] + 0 = Cardinality(tickets[mi])
          BY <2>0, <3>1, <5>1 DEF TicketInv, Measured
        <5> QED BY <2>0, <5>2
      <4>3. Drawn(mi) = Drawn(mi - 1) \cup tickets[mi]
        BY <2>0 DEF Drawn, Threads
      <4>4. Drawn(mi - 1) \cap tickets[mi] = {}
        <5>1. \A u \in 1 .. mi - 1 : u \in Threads /\ u # mi
          BY <2>0, ConstantsAssumption DEF Threads
        <5>2. \A u \in 1 .. mi - 1 : tickets[u] \cap tickets[mi] = {}
          BY <2>0, <5>1 DEF TicketInv
        <5> QED BY <5>2 DEF Drawn
      <4>5. IsFiniteSet(Drawn(mi - 1)) /\ IsFiniteSet(tickets[mi])
        <5>1. Drawn(mi - 1) \subseteq 1 .. Cap /\ tickets[mi] \subseteq 1 .. Cap
          <6>1. \A u \in Threads : tickets[u] \subseteq 1 .. Cap
            BY DEF TicketInv
          <6>2. \A u \in 1 .. mi - 1 : u \in Threads
            BY <2>0, ConstantsAssumption DEF Threads
          <6> QED BY <2>0, <6>1, <6>2 DEF Drawn
        <5>2. IsFiniteSet(1 .. Cap)
          BY <2>0, FS_Interval DEF Cap
        <5> QED BY <5>1, <5>2, FS_Subset
      <4>6. Cardinality(Drawn(mi))
              = Cardinality(Drawn(mi - 1)) + Cardinality(tickets[mi])
        <5>1. Cardinality(Drawn(mi)) = Cardinality(Drawn(mi - 1))
                + Cardinality(tickets[mi]) - Cardinality({})
          BY <4>3, <4>4, <4>5, FS_Union
        <5> QED BY <4>5, <5>1, FS_EmptySet, FS_CardinalityType
      <4> QED BY <3>0, <4>1, <4>2, <4>6
    <3>2. Measured' <=> Measured
      BY <3>0 DEF Measured
    <3>3. CASE mi < NThreads
      <4>1. mi' = mi + 1 /\ mpc' = "sum"
        BY <2>6, <3>3 DEF Sum
      <4>2. Drawn(mi - 1)' = Drawn(mi)
        <5>1. mi' - 1 = mi
          BY <2>0, <4>1, ThreadIndex
        <5> QED BY <3>0, <5>1 DEF Drawn
      <4> QED BY <3>1, <3>2, <4>1, <4>2 DEF SumInv
    <3>4. CASE ~(mi < NThreads)
      <4>1. mpc' = "output" /\ mi = NThreads
        BY <2>0, <2>6, <3>4, ConstantsAssumption DEF Sum, Threads
      <4>2. Drawn(NThreads)' = Drawn(mi)
        BY <3>0, <4>1 DEF Drawn
      <4> QED BY <3>1, <3>2, <4>1, <4>2 DEF SumInv
    <3> QED BY <3>3, <3>4
  <2>7. CASE Output BY <2>7 DEF Output, SumInv, Measured, Drawn
  <2>8. CASE Signal BY <2>8 DEF Signal, SumInv, Measured, Drawn
  <2>9. CASE SignalStop BY <2>9 DEF SignalStop, SumInv, Measured, Drawn
  <2>10. CASE Tick BY <2>10 DEF Tick, SumInv, Measured, Drawn
  <2>11. CASE Exited BY <2>11 DEF Exited, vars, SumInv, Measured, Drawn
  <2>12. ASSUME NEW t \in Threads, ThreadStep(t) PROVE SumInv'
    <3>1. mpc \notin {"sum", "output", "exit"}
      BY <2>12, ThreadStepFrame DEF ControlInv
    <3>2. UNCHANGED <<mpc, sum_complete>>
      BY <2>12, ThreadStepFrame
    <3> QED BY <3>1, <3>2 DEF SumInv
  <2>13. CASE UNCHANGED vars BY <2>13 DEF vars, SumInv, Measured, Drawn
  <2>14. ASSUME NEW t \in Threads, ScriptStop(t) PROVE SumInv'
    BY <2>14 DEF ScriptStop, SumInv, Measured, Drawn
  <2> QED BY <2>1, <2>2, <2>3, <2>4, <2>5, <2>6, <2>7, <2>8, <2>9, <2>10,
        <2>11, <2>12, <2>13, <2>14 DEF Next, MainStep
<1> QED BY <1>1, <1>2, TypeCorrect, Control, Tickets, PTL DEF Spec

\* ExactResponses, for every number of threads and every N: the total main
\* prints is exactly the number of tickets handed out, capped at N, whatever
\* ended the run and however the threads' increments were interleaved.
THEOREM ExactTotal == Spec => []ExactResponses
<1>1. TypeOK /\ TicketInv /\ SumInv => ExactResponses
  <2> SUFFICES ASSUME TypeOK, TicketInv, SumInv, Summed, Measured
               PROVE  sum_complete = Cap
    BY DEF ExactResponses, Measured, Cap
  <2>1. sum_complete = Cardinality(Drawn(NThreads))
    BY DEF SumInv, Summed
  <2>2. Drawn(NThreads) = 1 .. Cap
    BY DEF Drawn, TicketInv, Threads
  <2>3. Cap \in Nat
    BY ConstantsAssumption DEF TypeOK, Cap
  <2>4. Cardinality(1 .. Cap) = Cap
    BY <2>3, FS_Interval
  <2> QED BY <2>1, <2>2, <2>4
<1> QED BY <1>1, TypeCorrect, Tickets, Sums, PTL

-------------------------------------------------------------------------------
(* The reason for stopping *)

\* ReasonInv: a thread's loop is only stopped for one of the four reasons or by
\* its script, and once the N tickets are gone some thread is about to say so.
LEMMA ReasonsHold == Spec => []ReasonInv
<1>1. Init => ReasonInv
  <2> SUFFICES ASSUME Init PROVE ReasonInv
    OBVIOUS
  <2> QED BY ConstantsAssumption DEF Init, ReasonInv
<1>2. TypeOK /\ ControlInv /\ ReasonInv /\ [Next]_vars => ReasonInv'
  <2> SUFFICES ASSUME TypeOK, ControlInv, ReasonInv, [Next]_vars
               PROVE  ReasonInv'
    OBVIOUS
  <2>0. /\ pc \in [Threads -> Labels] /\ ret \in [Threads -> Returns]
        /\ late \in [Threads -> BOOLEAN] /\ last \in [Threads -> BOOLEAN]
        /\ loop_stop \in [Threads -> BOOLEAN]
        /\ responses_total \in Nat /\ Requests \in Nat /\ now \in Nat
        /\ stop_at \in Nat /\ mi \in Threads
    BY ConstantsAssumption DEF TypeOK, stop_at
  <2> USE DEF ReasonInv, globals, mainvars, outside, counts, locals
  <2>1. CASE Setup BY <2>0, <2>1 DEF Setup
  <2>2. CASE Spawn
    <3>1. mpc = "spawn" /\ mi >= mi
      BY <2>0, <2>2, ThreadIndex DEF Spawn
    <3>2. pc[mi] = "unborn"
      BY <2>0, <3>1 DEF ControlInv
    <3> QED BY <2>0, <2>2, <3>2 DEF Spawn
  <2>3. CASE SpawnFails BY <2>0, <2>3 DEF SpawnFails
  <2>4. CASE ProgressLoop BY <2>0, <2>4 DEF ProgressLoop
  <2>5. CASE Join BY <2>0, <2>5 DEF Join
  <2>6. CASE Sum BY <2>0, <2>6 DEF Sum
  <2>7. CASE Output BY <2>0, <2>7 DEF Output
  <2>8. CASE Signal BY <2>0, <2>8 DEF Signal
  <2>9. CASE SignalStop BY <2>0, <2>9 DEF SignalStop
  <2>10. CASE Tick BY <2>0, <2>10 DEF Tick
  <2>11. CASE Exited BY <2>0, <2>11 DEF Exited, vars
  <2>12. ASSUME NEW t \in Threads, ThreadStep(t) PROVE ReasonInv'
    <3> USE DEF Goto, CallReport, CallReportIfBailout, Return, StopLoop, Returns
    <3>1. CASE ThreadInit(t) BY <2>0, <3>1 DEF ThreadInit
    <3>2. CASE LeaveLoop(t) BY <2>0, <3>2 DEF LeaveLoop
    <3>3. CASE CheckLimits(t) BY <2>0, <3>3 DEF CheckLimits
    <3>4. CASE EndWarmup(t) BY <2>0, <3>4 DEF EndWarmup
    <3>5. CASE CheckTimeouts(t) BY <2>0, <3>5 DEF CheckTimeouts
    <3>6. CASE SocketError(t) BY <2>0, <3>6 DEF SocketError
    <3>7. CASE ResponseComplete(t) BY <2>0, <3>7 DEF ResponseComplete
    <3>8. CASE ReportErrors(t) BY <2>0, <3>8 DEF ReportErrors
    <3>9. CASE BailoutCheck(t) BY <2>0, <3>9 DEF BailoutCheck
    <3>10. CASE BailoutReason(t) BY <2>0, <3>10 DEF BailoutReason
    <3>11. CASE BailoutStop(t) BY <2>0, <3>11 DEF BailoutStop
    <3>12. CASE CheckLimitsStop(t) BY <2>0, <3>12 DEF CheckLimitsStop
    <3>13. CASE EndWarmupReset(t) BY <2>0, <3>13 DEF EndWarmupReset
    <3>14. CASE Reconnect(t) BY <2>0, <3>14 DEF Reconnect
    <3>15. CASE TakeTicket(t)
      <4> DEFINE n == responses_total + 1
      <4>0. /\ pc[t] = "rc_ticket" /\ Requests > 0 /\ responses_total' = n
            /\ UNCHANGED <<stop, stopped_by, spc, now, script_stop>>
        BY <3>15 DEF TakeTicket, ControlInv
      <4>1. CASE n > Requests
        <5>1. /\ pc' = [pc EXCEPT ![t] = "loop"] /\ last' = last
              /\ loop_stop' = [loop_stop EXCEPT ![t] = TRUE]
              /\ late' = [late EXCEPT ![t] = FALSE]
          BY <3>15, <4>1 DEF TakeTicket
        <5>2. responses_total >= Requests
          BY <2>0, <4>1
        <5>3. responses_total' > Requests
          BY <4>0, <4>1
        <5>4. \/ stopped_by' # "duration" \/ now' >= stop_at
              \/ \E u \in Threads : last'[u] \/ pc'[u] = "rc_last"
          BY <2>0, <4>0, <5>1, <5>2
        <5>5. stop_at' = stop_at
          BY DEF stop_at
        <5> QED BY <2>0, <4>0, <5>1, <5>3, <5>4, <5>5
      <4>2. CASE ~(n > Requests)
        <5>1. /\ pc' = [pc EXCEPT ![t] = "rc_count"]
              /\ last' = [last EXCEPT ![t] = (n = Requests)]
              /\ UNCHANGED <<loop_stop, late>>
          BY <3>15, <4>2 DEF TakeTicket
        <5>2. responses_total' >= Requests => last'[t]
          <6>1. responses_total' >= Requests => n = Requests
            BY <2>0, <4>0, <4>2
          <6>2. last'[t] = (n = Requests)
            BY <2>0, <5>1, Zenon
          <6> QED BY <6>1, <6>2, Zenon
        <5>3. ~(responses_total > Requests)
          BY <2>0, <4>2
        <5>4. stop_at' = stop_at
          BY DEF stop_at
        <5>5. /\ pc'[t] = "rc_count" /\ late'[t] = late[t]
              /\ loop_stop'[t] = loop_stop[t]
              /\ \A u \in Threads : u # t =>
                   /\ pc'[u] = pc[u] /\ late'[u] = late[u]
                   /\ loop_stop'[u] = loop_stop[u]
          BY <2>0, <5>1
        <5>6. stopped_by' = "duration" => ~stop' /\ spc' = "idle"
          BY <4>0
        <5>7. \A u \in Threads : loop_stop[u] =>
                stop \/ now >= stop_at \/ script_stop[u]
          BY <5>3
        <5>8. ASSUME NEW u \in Threads
              PROVE  /\ pc'[u] \in {"rc_stop", "bailstop"}
                           => stopped_by' # "duration"
                     /\ late'[u] => now' >= stop_at'
                     /\ pc'[u] = "done" => loop_stop'[u]
                     /\ loop_stop'[u] => \/ stop' \/ now' >= stop_at'
                                         \/ Requests > 0
                                              /\ responses_total' > Requests
                                         \/ script_stop'[u]
          BY <4>0, <5>4, <5>5, <5>7
        <5>9. responses_total' >= Requests =>
                \E u \in Threads : last'[u] \/ pc'[u] = "rc_last"
          BY <5>2
        <5> QED BY <5>6, <5>8, <5>9
      <4> QED BY <4>1, <4>2
    <3>16. CASE CountResponse(t) BY <2>0, <3>16 DEF CountResponse
    <3>17. CASE CheckExpect(t) BY <2>0, <3>17 DEF CheckExpect
    <3>18. CASE FinishResponse(t) BY <2>0, <3>18 DEF FinishResponse
    <3>19. CASE LastReason(t) BY <2>0, <3>19 DEF LastReason
    <3>20. CASE LastStop(t) BY <2>0, <3>20 DEF LastStop
    <3>21. CASE KeepAlive(t) BY <2>0, <3>21 DEF KeepAlive
    <3> QED BY <2>12, <3>1, <3>2, <3>3, <3>4, <3>5, <3>6, <3>7, <3>8, <3>9,
          <3>10, <3>11, <3>12, <3>13, <3>14, <3>15, <3>16, <3>17, <3>18,
          <3>19, <3>20, <3>21
          DEF ThreadStep, Continue
  <2>13. CASE UNCHANGED vars BY <2>0, <2>13 DEF vars
  <2>14. ASSUME NEW t \in Threads, ScriptStop(t) PROVE ReasonInv'
    <3>1. /\ loop_stop' = [loop_stop EXCEPT ![t] = TRUE]
          /\ script_stop' = [script_stop EXCEPT ![t] = TRUE]
          /\ UNCHANGED <<now, stop, stopped_by, responses_total, spc, pc, last, late>>
      BY <2>14, Zenon DEF ScriptStop, StopLoop, globals, locals
    <3>2. stop_at' = stop_at
      BY DEF stop_at
    <3>3. ASSUME NEW u \in Threads
          PROVE  /\ loop_stop[u] => loop_stop'[u]
                 /\ loop_stop'[u] => loop_stop[u] \/ script_stop'[u]
                 /\ script_stop[u] => script_stop'[u]
      BY <2>0, <3>1 DEF TypeOK
    <3> QED BY <2>0, <3>1, <3>2, <3>3 DEF ReasonInv
  <2> QED BY <2>1, <2>2, <2>3, <2>4, <2>5, <2>6, <2>7, <2>8, <2>9, <2>10,
        <2>11, <2>12, <2>13, <2>14
        DEF Next, MainStep
<1> QED BY <1>1, <1>2, TypeCorrect, Control, PTL DEF Spec

\* DurationMeansDeadline, for every number of threads and every limit: a run
\* that reports "duration" as its reason ended at or after its deadline, or each
\* of its threads was stopped by thread:stop() and by nothing before it.
THEOREM DurationIsDeadline == Spec => []DurationMeansDeadline
<1>1. TypeOK /\ ControlInv /\ ReasonInv => DurationMeansDeadline
  <2> SUFFICES ASSUME TypeOK, ControlInv, ReasonInv, Summed,
                      stopped_by = "duration", ~(now >= stop_at),
                      NEW i \in Threads, ~script_stop[i]
               PROVE  FALSE
    BY DEF DurationMeansDeadline
  <2>1. \A t \in Threads : pc[t] = "done"
    BY DEF ControlInv, Summed
  <2>2. loop_stop[i] /\ ~stop
    BY <2>1 DEF ReasonInv
  <2>3. Requests > 0 /\ responses_total > Requests
    BY <2>2 DEF ReasonInv
  <2>4. responses_total >= Requests
    BY <2>3, ConstantsAssumption DEF TypeOK
  <2>5. PICK t \in Threads : last[t] \/ pc[t] = "rc_last"
    BY <2>3, <2>4 DEF ReasonInv
  <2>6. last[t] => pc[t] # "done"
    BY DEF ControlInv, Reporting
  <2> QED BY <2>1, <2>5, <2>6
<1> QED BY <1>1, TypeCorrect, Control, ReasonsHold, PTL

-------------------------------------------------------------------------------
(* --bailout is not forgotten *)

\* A report that reached the limit is still on its way: its thread has the total
\* in hand, or has found the limit reached and is about to store `stop'.
Bailing(t) ==
    \/ pc[t] = "bailcheck" /\ total[t] >= Bailout
    \/ pc[t] \in {"bail", "bailstop"}

BailInv ==
    Bailout > 0 /\ errors_total >= Bailout =>
        stop \/ \E t \in Threads : Bailing(t)

\* A step that leaves every bailing thread bailing, unless it stores `stop'.
LEMMA BailFrame ==
    ASSUME BailInv, errors_total' = errors_total, stop => stop',
           \A t \in Threads : Bailing(t) => stop' \/ Bailing(t)'
    PROVE  BailInv'
  BY DEF BailInv

\* BailoutHonoured, for every number of threads: the thread whose increment
\* takes the sum to N holds a total of at least N, so the test that follows
\* cannot miss it, and nothing takes `stop' back.
THEOREM BailoutIsHonoured == Spec => []BailoutHonoured
<1>1. Init => BailInv
  BY ConstantsAssumption DEF Init, BailInv
<1>2. TypeOK /\ ControlInv /\ BailInv /\ [Next]_vars => BailInv'
  <2> SUFFICES ASSUME TypeOK, ControlInv, BailInv, [Next]_vars
               PROVE  BailInv'
    OBVIOUS
  <2>0. /\ pc \in [Threads -> Labels] /\ ret \in [Threads -> Returns]
        /\ total \in [Threads -> Nat] /\ errors_total \in Nat /\ Bailout \in Nat
        /\ mi \in Threads
        /\ errors \in [Threads -> Nat] /\ errors_reported \in [Threads -> Nat]
    BY ConstantsAssumption DEF TypeOK
  <2> USE DEF Bailing, globals, mainvars, outside, counts, locals
  <2>1. CASE Setup BY BailFrame, <2>0, <2>1 DEF Setup
  <2>2. CASE Spawn
    <3>1. pc[mi] = "unborn"
      BY <2>0, <2>2, ThreadIndex DEF Spawn, ControlInv
    <3> QED BY BailFrame, <2>0, <2>2, <3>1 DEF Spawn
  <2>3. CASE SpawnFails BY BailFrame, <2>0, <2>3 DEF SpawnFails
  <2>4. CASE ProgressLoop BY BailFrame, <2>0, <2>4 DEF ProgressLoop
  <2>5. CASE Join BY BailFrame, <2>0, <2>5 DEF Join
  <2>6. CASE Sum BY BailFrame, <2>0, <2>6 DEF Sum
  <2>7. CASE Output BY BailFrame, <2>0, <2>7 DEF Output
  <2>8. CASE Signal BY BailFrame, <2>0, <2>8 DEF Signal
  <2>9. CASE SignalStop BY BailFrame, <2>0, <2>9 DEF SignalStop
  <2>10. CASE Tick BY BailFrame, <2>0, <2>10 DEF Tick
  <2>11. CASE Exited BY BailFrame, <2>0, <2>11 DEF Exited, vars
  <2>12. ASSUME NEW t \in Threads, ThreadStep(t) PROVE BailInv'
    <3> USE DEF Goto, CallReport, CallReportIfBailout, Return, StopLoop, Returns
    <3>1. CASE ThreadInit(t) BY BailFrame, <2>0, <3>1 DEF ThreadInit
    <3>2. CASE LeaveLoop(t) BY BailFrame, <2>0, <3>2 DEF LeaveLoop
    <3>3. CASE CheckLimits(t) BY BailFrame, <2>0, <3>3 DEF CheckLimits
    <3>4. CASE EndWarmup(t) BY BailFrame, <2>0, <3>4 DEF EndWarmup
    <3>5. CASE CheckTimeouts(t) BY BailFrame, <2>0, <3>5 DEF CheckTimeouts
    <3>6. CASE SocketError(t) BY BailFrame, <2>0, <3>6 DEF SocketError
    <3>7. CASE ResponseComplete(t)
      BY BailFrame, <2>0, <3>7 DEF ResponseComplete
    <3>8. CASE ReportErrors(t)
    <4>1. CASE errors[t] > errors_reported[t]
      <5>1. /\ errors_total' = errors_total + (errors[t] - errors_reported[t])
            /\ total' = [total EXCEPT ![t] = errors_total']
            /\ pc' = [pc EXCEPT ![t] = "bailcheck"]
        BY <3>8, <4>1 DEF ReportErrors
      <5>2. pc'[t] = "bailcheck" /\ total'[t] = errors_total'
        BY <2>0, <5>1
      <5> QED BY <5>2 DEF BailInv
    <4>2. CASE ~(errors[t] > errors_reported[t])
      BY BailFrame, <2>0, <3>8, <4>2 DEF ReportErrors
    <4> QED BY <4>1, <4>2
    <3>9. CASE BailoutCheck(t)
    BY BailFrame, <2>0, <3>9 DEF BailoutCheck, BailoutReached, BailInv
    <3>10. CASE BailoutReason(t) BY BailFrame, <2>0, <3>10 DEF BailoutReason
    <3>11. CASE BailoutStop(t) BY BailFrame, <2>0, <3>11 DEF BailoutStop
    <3>12. CASE CheckLimitsStop(t)
      BY BailFrame, <2>0, <3>12 DEF CheckLimitsStop
    <3>13. CASE EndWarmupReset(t) BY BailFrame, <2>0, <3>13 DEF EndWarmupReset
    <3>14. CASE Reconnect(t) BY BailFrame, <2>0, <3>14 DEF Reconnect
    <3>15. CASE TakeTicket(t) BY BailFrame, <2>0, <3>15 DEF TakeTicket
    <3>16. CASE CountResponse(t) BY BailFrame, <2>0, <3>16 DEF CountResponse
    <3>17. CASE CheckExpect(t) BY BailFrame, <2>0, <3>17 DEF CheckExpect
    <3>18. CASE FinishResponse(t) BY BailFrame, <2>0, <3>18 DEF FinishResponse
    <3>19. CASE LastReason(t) BY BailFrame, <2>0, <3>19 DEF LastReason
    <3>20. CASE LastStop(t) BY BailFrame, <2>0, <3>20 DEF LastStop
    <3>21. CASE KeepAlive(t) BY BailFrame, <2>0, <3>21 DEF KeepAlive
    <3> QED BY <2>12, <3>1, <3>2, <3>3, <3>4, <3>5, <3>6, <3>7, <3>8, <3>9,
          <3>10, <3>11, <3>12, <3>13, <3>14, <3>15, <3>16, <3>17, <3>18,
          <3>19, <3>20, <3>21 DEF ThreadStep, Continue
  <2>13. CASE UNCHANGED vars BY BailFrame, <2>0, <2>13 DEF vars
  <2>14. ASSUME NEW t \in Threads, ScriptStop(t) PROVE BailInv'
    BY BailFrame, <2>0, <2>14 DEF ScriptStop
  <2> QED BY <2>1, <2>2, <2>3, <2>4, <2>5, <2>6, <2>7, <2>8, <2>9, <2>10,
        <2>11, <2>12, <2>13, <2>14 DEF Next, MainStep
<1>3. ControlInv /\ BailInv => BailoutHonoured
  BY DEF ControlInv, BailInv, Bailing, BailoutHonoured, Summed
<1> QED BY <1>1, <1>2, <1>3, TypeCorrect, Control, PTL DEF Spec

-------------------------------------------------------------------------------
(* --progress waits for the last thread *)

\* The threads that have been created and are not out of their event loop.
Running == {t \in Threads : pc[t] \notin {"unborn", "done"}}

\* threads_running counts them, except in a process that exits because a thread
\* could not be created; and main is past the creation loop only when every
\* thread has been created.
RunningInv ==
    /\ mpc # "exit" => threads_running = Cardinality(Running)
    /\ mpc \in {"setup", "spawn"} =>
         \A t \in Threads : t < mi => pc[t] # "unborn"
    /\ mpc \in {"progress", "join"} => \A t \in Threads : pc[t] # "unborn"
    /\ Progress /\ mpc = "join" => \A t \in Threads : pc[t] = "done"

\* A step of a thread within its event loop, or of main outside the creation
\* loop, that leaves the count alone.
LEMMA RunningFrame ==
    ASSUME RunningInv, UNCHANGED <<threads_running, mi>>,
           \/ mpc' = mpc
           \/ mpc = "setup" /\ mpc' = "spawn"
           \/ mpc' = "exit",
           \A t \in Threads : /\ pc'[t] = "unborn" <=> pc[t] = "unborn"
                              /\ pc'[t] = "done" <=> pc[t] = "done"
    PROVE  RunningInv'
<1>1. \A t \in Threads :
        pc'[t] \notin {"unborn", "done"} <=> pc[t] \notin {"unborn", "done"}
  OBVIOUS
<1>2. Running' = Running
  BY <1>1 DEF Running
<1>3. CASE mpc' = mpc
  BY <1>2, <1>3 DEF RunningInv
<1>4. CASE mpc = "setup" /\ mpc' = "spawn"
  BY <1>2, <1>4 DEF RunningInv
<1>5. CASE mpc' = "exit"
  BY <1>5 DEF RunningInv
<1> QED BY <1>3, <1>4, <1>5

\* ProgressCoversRun, for every number of threads: the count that progress_loop
\* reads without a lock is the number of threads between their creation and the
\* end of aeMain, so it is zero only when the last one is out.
THEOREM ProgressCovers == Spec => []ProgressCoversRun
<1>1. Init => RunningInv
  <2> SUFFICES ASSUME Init PROVE RunningInv
    OBVIOUS
  <2>1. Running = {}
    BY DEF Init, Running
  <2> QED BY <2>1, FS_EmptySet DEF Init, RunningInv, Threads
<1>2. TypeOK /\ ControlInv /\ RunningInv /\ [Next]_vars => RunningInv'
  <2> SUFFICES ASSUME TypeOK, ControlInv, RunningInv, [Next]_vars
               PROVE  RunningInv'
    OBVIOUS
  <2>0. /\ pc \in [Threads -> Labels] /\ ret \in [Threads -> Returns]
        /\ threads_running \in Int /\ mi \in Threads
    BY DEF TypeOK
  <2>00. IsFiniteSet(Running) /\ Cardinality(Running) \in Nat
    <3>1. IsFiniteSet(Threads)
      BY ConstantsAssumption, FS_Interval DEF Threads
    <3> QED BY <3>1, FS_Subset, FS_CardinalityType DEF Running
  <2> USE DEF globals, mainvars, outside, counts, locals
  <2>1. CASE Setup BY RunningFrame, <2>0, <2>1 DEF Setup
  <2>2. CASE Spawn
    <3>1. pc[mi] = "unborn"
      BY <2>0, <2>2, ThreadIndex DEF Spawn, ControlInv
    <3>2. pc' = [pc EXCEPT ![mi] = "init"] /\ threads_running' = threads_running + 1
      BY <2>2 DEF Spawn
    <3>3. Running' = Running \cup {mi} /\ mi \notin Running
      BY <2>0, <3>1, <3>2 DEF Running
    <3>4. threads_running' = Cardinality(Running')
      BY <2>00, <2>2, <3>2, <3>3, FS_AddElement DEF RunningInv, Spawn
    <3>5. \A t \in Threads : t <= mi => pc'[t] # "unborn"
      <4>1. \A t \in Threads : t < mi => pc[t] # "unborn"
        BY <2>2 DEF Spawn, RunningInv
      <4>2. \A t \in Threads : t <= mi => t = mi \/ t < mi
        BY <2>0 DEF Threads
      <4> QED BY <2>0, <3>2, <4>1, <4>2
    <3>6. CASE mi < NThreads
      <4>1. mpc' = "setup" /\ mi' = mi + 1
        BY <2>2, <3>6 DEF Spawn
      <4>2. \A t \in Threads : t < mi + 1 => t <= mi
        BY <2>0 DEF Threads
      <4> QED BY <3>4, <3>5, <4>1, <4>2 DEF RunningInv
    <3>7. CASE ~(mi < NThreads)
      <4>1. mpc' = "progress"
        BY <2>2, <3>7 DEF Spawn
      <4>2. \A t \in Threads : t <= mi
        BY <2>0, <3>7, ConstantsAssumption DEF Threads
      <4> QED BY <3>4, <3>5, <4>1, <4>2 DEF RunningInv
    <3> QED BY <3>6, <3>7
  <2>3. CASE SpawnFails
    BY <2>3 DEF SpawnFails, RunningInv
  <2>4. CASE ProgressLoop
    <3>1. UNCHANGED <<pc, threads_running>> /\ mpc = "progress" /\ mpc' = "join"
      BY <2>4 DEF ProgressLoop
    <3>2. Running' = Running
      BY <3>1 DEF Running
    <3>3. Progress => \A t \in Threads : pc[t] = "done"
      <4> SUFFICES ASSUME Progress PROVE Running = {}
        BY <3>1 DEF RunningInv, Running
      <4>1. Cardinality(Running) = 0
        BY <2>00, <2>4, <3>1 DEF ProgressLoop, RunningInv
      <4> QED BY <2>00, <4>1, FS_EmptySet
    <3> QED BY <3>1, <3>2, <3>3 DEF RunningInv
  <2>5. CASE Join
    <3>1. UNCHANGED <<pc, threads_running>> /\ mpc = "join"
          /\ mpc' \in {"join", "sum"}
      BY <2>5 DEF Join
    <3>2. Running' = Running
      BY <3>1 DEF Running
    <3> QED BY <3>1, <3>2 DEF RunningInv
  <2>6. CASE Sum
    <3>1. UNCHANGED <<pc, threads_running>> /\ mpc = "sum"
          /\ mpc' \in {"sum", "output"}
      BY <2>6 DEF Sum
    <3>2. Running' = Running
      BY <3>1 DEF Running
    <3> QED BY <3>1, <3>2 DEF RunningInv
  <2>7. CASE Output BY RunningFrame, <2>0, <2>7 DEF Output
  <2>8. CASE Signal BY RunningFrame, <2>0, <2>8 DEF Signal
  <2>9. CASE SignalStop BY RunningFrame, <2>0, <2>9 DEF SignalStop
  <2>10. CASE Tick BY RunningFrame, <2>0, <2>10 DEF Tick
  <2>11. CASE Exited BY RunningFrame, <2>0, <2>11 DEF Exited, vars
  <2>12. ASSUME NEW t \in Threads, ThreadStep(t) PROVE RunningInv'
    <3> USE DEF Goto, CallReport, CallReportIfBailout, Return, StopLoop, Returns
    <3>1. CASE ThreadInit(t) BY RunningFrame, <2>0, <3>1 DEF ThreadInit
    <3>2. CASE LeaveLoop(t)
      <4>1. /\ pc[t] = "loop" /\ pc' = [pc EXCEPT ![t] = "done"]
            /\ threads_running' = threads_running - 1 /\ UNCHANGED <<mpc, mi>>
        BY <3>2 DEF LeaveLoop
      <4>2. Running' = Running \ {t} /\ t \in Running
        BY <2>0, <4>1 DEF Running
      <4>3. mpc # "exit" => threads_running' = Cardinality(Running')
        BY <2>00, <4>1, <4>2, FS_RemoveElement DEF RunningInv
      <4> QED BY <2>0, <4>1, <4>3 DEF RunningInv
    <3>3. CASE CheckLimits(t) BY RunningFrame, <2>0, <3>3 DEF CheckLimits
    <3>4. CASE EndWarmup(t) BY RunningFrame, <2>0, <3>4 DEF EndWarmup
    <3>5. CASE CheckTimeouts(t) BY RunningFrame, <2>0, <3>5 DEF CheckTimeouts
    <3>6. CASE SocketError(t) BY RunningFrame, <2>0, <3>6 DEF SocketError
    <3>7. CASE ResponseComplete(t)
      BY RunningFrame, <2>0, <3>7 DEF ResponseComplete
    <3>8. CASE ReportErrors(t) BY RunningFrame, <2>0, <3>8 DEF ReportErrors
    <3>9. CASE BailoutCheck(t) BY RunningFrame, <2>0, <3>9 DEF BailoutCheck
    <3>10. CASE BailoutReason(t)
      BY RunningFrame, <2>0, <3>10 DEF BailoutReason
    <3>11. CASE BailoutStop(t) BY RunningFrame, <2>0, <3>11 DEF BailoutStop
    <3>12. CASE CheckLimitsStop(t)
      BY RunningFrame, <2>0, <3>12 DEF CheckLimitsStop
    <3>13. CASE EndWarmupReset(t)
      BY RunningFrame, <2>0, <3>13 DEF EndWarmupReset
    <3>14. CASE Reconnect(t) BY RunningFrame, <2>0, <3>14 DEF Reconnect
    <3>15. CASE TakeTicket(t) BY RunningFrame, <2>0, <3>15 DEF TakeTicket
    <3>16. CASE CountResponse(t)
      BY RunningFrame, <2>0, <3>16 DEF CountResponse
    <3>17. CASE CheckExpect(t) BY RunningFrame, <2>0, <3>17 DEF CheckExpect
    <3>18. CASE FinishResponse(t)
      BY RunningFrame, <2>0, <3>18 DEF FinishResponse
    <3>19. CASE LastReason(t) BY RunningFrame, <2>0, <3>19 DEF LastReason
    <3>20. CASE LastStop(t) BY RunningFrame, <2>0, <3>20 DEF LastStop
    <3>21. CASE KeepAlive(t) BY RunningFrame, <2>0, <3>21 DEF KeepAlive
    <3> QED BY <2>12, <3>1, <3>2, <3>3, <3>4, <3>5, <3>6, <3>7, <3>8, <3>9,
          <3>10, <3>11, <3>12, <3>13, <3>14, <3>15, <3>16, <3>17, <3>18,
          <3>19, <3>20, <3>21 DEF ThreadStep, Continue
  <2>13. CASE UNCHANGED vars BY RunningFrame, <2>0, <2>13 DEF vars
  <2>14. ASSUME NEW t \in Threads, ScriptStop(t) PROVE RunningInv'
    BY RunningFrame, <2>0, <2>14 DEF ScriptStop
  <2> QED BY <2>1, <2>2, <2>3, <2>4, <2>5, <2>6, <2>7, <2>8, <2>9, <2>10,
        <2>11, <2>12, <2>13, <2>14 DEF Next, MainStep
<1>3. ControlInv /\ RunningInv => ProgressCoversRun
  BY DEF ControlInv, RunningInv, ProgressCoversRun
<1> QED BY <1>1, <1>2, <1>3, TypeCorrect, Control, PTL DEF Spec
===============================================================================
