------------------------------ MODULE Measurement ------------------------------
(***************************************************************************)
(* The latencies of a run, src/wrk.c: each thread records every response   *)
(* in two histograms, corrected and not; calibrate and end_warmup empty    *)
(* them; a Prometheus scrape (render_metrics) adds up the corrected ones,  *)
(* count by count and without a lock, while the threads go on; after the   *)
(* join main adds all of them and reports.                                 *)
(*                                                                         *)
(* A handler is one step for the other threads except where a scrape can   *)
(* see into it: hdr_reset clears the counts one by one.  A thread's        *)
(* total_count is read by that thread alone until it has ended.            *)
(***************************************************************************)
EXTENDS HdrHistogram

CONSTANTS
    NumThreads,    \* cfg.threads
    Responses,     \* what is recorded of a response: [corrected, actual]
    OneShots,      \* which of calibrate (with -R) and end_warmup (with --warmup) are set
    Percentiles,   \* those the report prints
    MaxResponses   \* bound: responses that are recorded in all

ASSUME MeasurementAssumption ==
    /\ NumThreads \in Nat \ {0}
    /\ Responses \subseteq [corrected : Nat, actual : Nat]
    /\ \A r \in Responses : InRange(r.corrected) /\ r.actual <= r.corrected
    /\ OneShots \subseteq {"calibrate", "end_warmup"}
    /\ Percentiles \subseteq 0 .. 100
    /\ MaxResponses \in Nat

VARIABLES
    where,        \* Threads: "created", "looping", "resetting", "ended"
    latency,      \* thread.latency_histogram, NoHistogram before hdr_init
    u_latency,    \* thread.u_latency_histogram
    timers,       \* the one-shot timers of the thread that have not fired
    scrape,       \* render_metrics: the thread (0: no scrape) and count it is at, its copy h
    report,       \* main's sums, NoHistogram before the join
    u_report,
    recorded,     \* history: how often each response was recorded since the last reset
    responses,    \* history: how many were recorded at all
    before        \* history: the counts when the scrape began, Unknown once a reset is seen

vars == <<where, latency, u_latency, timers, scrape, report, u_report,
          recorded, responses, before>>

Threads == 1 .. NumThreads

NoHistogram == [counts |-> <<>>, total_count |-> 0]
NoResponses == [r \in Responses |-> 0]
Unknown     == [i \in Indices |-> -1]

Counts(t) == (IF latency[t] = NoHistogram THEN Empty ELSE latency[t]).counts

\* The counts of all threads, one by one.
AllCounts == [i \in Indices |-> SumFunction([t \in Threads |-> Counts(t)[i]])]

Idle == [thread |-> 0, index |-> 0, h |-> Empty]

Init ==
    /\ where     = [t \in Threads |-> "created"]
    /\ latency   = [t \in Threads |-> NoHistogram]
    /\ u_latency = [t \in Threads |-> NoHistogram]
    /\ timers    = [t \in Threads |-> OneShots]
    /\ scrape    = Idle
    /\ report    = NoHistogram
    /\ u_report  = NoHistogram
    /\ recorded  = [t \in Threads |-> NoResponses]
    /\ responses = 0
    /\ before    = Unknown

-------------------------------------------------------------------------------
(* A thread *)

\* Mutant of StartThread: one histogram is not allocated.
StartThreadOne(t) ==
    /\ where[t] = "created"
    /\ where'   = [where   EXCEPT ![t] = "looping"]
    /\ latency' = [latency EXCEPT ![t] = Empty]
    /\ UNCHANGED <<u_latency, timers, scrape, report, u_report, recorded, responses, before>>

\* thread_main: hdr_init, twice.
StartThread(t) ==
    /\ where[t] = "created"
    /\ where'     = [where     EXCEPT ![t] = "looping"]
    /\ latency'   = [latency   EXCEPT ![t] = Empty]
    /\ u_latency' = [u_latency EXCEPT ![t] = Empty]
    /\ UNCHANGED <<timers, scrape, report, u_report, recorded, responses, before>>

\* What response_complete records of a response.
ResponseComplete(t, r) ==
    /\ latency'   = [latency   EXCEPT ![t] = Record(@, r.corrected, 1)]
    /\ u_latency' = [u_latency EXCEPT ![t] = Record(@, r.actual, 1)]

Respond(t, r) ==
    /\ where[t] = "looping" /\ responses < MaxResponses
    /\ ResponseComplete(t, r)
    /\ recorded'  = [recorded EXCEPT ![t][r] = @ + 1]
    /\ responses' = responses + 1
    /\ UNCHANGED <<where, timers, scrape, report, u_report, before>>

\* hdr_reset of latency_histogram begins.
BeginReset(t, timer) ==
    /\ where'    = [where    EXCEPT ![t] = "resetting"]
    /\ latency'  = [latency  EXCEPT ![t].total_count = 0]
    /\ timers'   = [timers   EXCEPT ![t] = @ \ {timer}]
    /\ recorded' = [recorded EXCEPT ![t] = NoResponses]
    /\ before'   = Unknown
    /\ UNCHANGED <<u_latency, scrape, report, u_report, responses>>

\* calibrate.  Tried again later while all latencies are 0; the mean of no
\* latency at all is not 0 but NaN.
Calibrate(t) ==
    /\ where[t] = "looping" /\ "calibrate" \in timers[t]
    /\ latency[t].total_count > 0 => MeanTotal(latency[t]) # 0
    /\ BeginReset(t, "calibrate")

\* end_warmup
EndWarmup(t) ==
    /\ where[t] = "looping" /\ "end_warmup" \in timers[t]
    /\ BeginReset(t, "end_warmup")

\* memset clears a count; the order is the library's.
ClearCount(t, i) ==
    /\ where[t] = "resetting" /\ latency[t].counts[i] # 0
    /\ latency' = [latency EXCEPT ![t].counts[i] = 0]
    /\ UNCHANGED <<where, u_latency, timers, scrape, report, u_report,
                   recorded, responses, before>>

\* Mutant of EndReset: only one of the histograms is reset.
EndResetOne(t) ==
    /\ where[t] = "resetting" /\ latency[t] = Empty
    /\ where' = [where EXCEPT ![t] = "looping"]
    /\ UNCHANGED <<latency, u_latency, timers, scrape, report, u_report,
                   recorded, responses, before>>

\* Then hdr_reset of u_latency_histogram, which no scrape reads.
EndReset(t) ==
    /\ where[t] = "resetting" /\ latency[t] = Empty
    /\ where'     = [where     EXCEPT ![t] = "looping"]
    /\ u_latency' = [u_latency EXCEPT ![t] = Empty]
    /\ UNCHANGED <<latency, timers, scrape, report, u_report,
                   recorded, responses, before>>

\* The loop is stopped, for a reason of RunControl.
EndThread(t) ==
    /\ where[t] = "looping"
    /\ where' = [where EXCEPT ![t] = "ended"]
    /\ UNCHANGED <<latency, u_latency, timers, scrape, report, u_report,
                   recorded, responses, before>>

-------------------------------------------------------------------------------
(* The scrape *)

BeginScrape ==
    /\ scrape = Idle
    /\ scrape' = [Idle EXCEPT !.thread = 1]
    /\ before' = IF \E t \in Threads : where[t] = "resetting" THEN Unknown ELSE AllCounts
    /\ UNCHANGED <<where, latency, u_latency, timers, report, u_report,
                   recorded, responses>>

\* Mutant of NextThread: the loop variable of hist_add_live lives on.
NextThreadKeepsIndex == [scrape EXCEPT !.thread = @ + 1]

NextThread == [scrape EXCEPT !.thread = @ + 1, !.index = 0]

\* Mutant of HistAddLive: the total is the thread's.
HistAddLiveTotal(src) ==
    LET i == scrape.index
    IN  IF i = CountsLen
          THEN [NextThread EXCEPT !.h.total_count = @ + src.total_count]
          ELSE [scrape EXCEPT !.index = i + 1, !.h.counts[i] = @ + src.counts[i]]

\* One turn of the loop of hist_add_live.
HistAddLive(src) ==
    LET i == scrape.index
        n == src.counts[i]
    IN  IF i = CountsLen
          THEN NextThread
          ELSE [scrape EXCEPT !.index = i + 1, !.h.counts[i] = @ + n,
                              !.h.total_count = @ + n]

\* A thread without a histogram is passed over.
ScrapeThread ==
    /\ scrape.thread \in Threads
    /\ LET src == latency[scrape.thread]
       IN  scrape' = IF src = NoHistogram THEN NextThread ELSE HistAddLive(src)
    /\ UNCHANGED <<where, latency, u_latency, timers, report, u_report,
                   recorded, responses, before>>

\* The copy is printed and dropped.
EndScrape ==
    /\ scrape.thread = NumThreads + 1
    /\ scrape' = Idle
    /\ before' = Unknown
    /\ UNCHANGED <<where, latency, u_latency, timers, report, u_report,
                   recorded, responses>>

-------------------------------------------------------------------------------
(* main, after the join *)

Merged(h) == LET Step(t, sum) == Add(sum, h[t]) IN FoldSet(Step, Empty, Threads)

Report ==
    /\ report = NoHistogram
    /\ \A t \in Threads : where[t] = "ended"
    /\ report'   = Merged(latency)
    /\ u_report' = Merged(u_latency)
    /\ UNCHANGED <<where, latency, u_latency, timers, scrape,
                   recorded, responses, before>>

Next ==
    \/ \E t \in Threads :
         \/ StartThread(t)
         \/ \E r \in Responses : Respond(t, r)
         \/ Calibrate(t) \/ EndWarmup(t)
         \/ \E i \in Indices : ClearCount(t, i)
         \/ EndReset(t) \/ EndThread(t)
    \/ BeginScrape \/ ScrapeThread \/ EndScrape
    \/ Report

Spec == Init /\ [][Next]_vars

-------------------------------------------------------------------------------
(* Properties *)

Histograms == [counts : [Indices -> Nat], total_count : Nat]

\* Types; every histogram a percentile is taken of is one whose walk ends.
TypeOK ==
    /\ where \in [Threads -> {"created", "looping", "resetting", "ended"}]
    /\ \A t \in Threads :
         IF where[t] = "created" THEN latency[t] = NoHistogram
                                 ELSE {latency[t], u_latency[t]} \subseteq Histograms
    /\ timers \in [Threads -> SUBSET OneShots]
    /\ scrape \in [thread : 0 .. NumThreads + 1, index : 0 .. CountsLen, h : Histograms]
    /\ recorded \in [Threads -> [Responses -> Nat]]
    /\ responses \in 0 .. MaxResponses

\* How many of the responses in bag have a latency in S.
HowMany(bag, latencyOf(_), S) ==
    Cardinality({x \in Responses \X (1 .. MaxResponses) :
                   x[2] <= bag[x[1]] /\ latencyOf(x[1]) \in S})

Corrected(r) == r.corrected
Actual(r)    == r.actual

\* All responses that main's report is about.
Reported == [r \in Responses |-> SumFunction([t \in Threads |-> recorded[t][r]])]

\* The values that the k-th stop of the iterator stands for.
From(k)   == ValueFromIndex(Walk[k])
Values ==
    [k \in Indices |-> From(k) .. IF k = CountsLen - 1 THEN HighestEquivalent(From(k))
                                                       ELSE From(k + 1) - 1]

Agrees(h, bag, latencyOf(_)) ==
    /\ \A k \in Indices : CountAt(h, k) = HowMany(bag, latencyOf, Values[k])
    /\ h.total_count = HowMany(bag, latencyOf, Nat)

\* What the iterator finds in a histogram is what was recorded since its last
\* reset: each response once, under the range its latency is in, and so in the
\* sums of all threads (hdr_record_value, hdr_reset, hdr_add against hdr_iter_next).
RecordedOnce ==
    /\ \A t \in Threads : where[t] \in {"looping", "ended"} =>
         /\ Agrees(latency[t], recorded[t], Corrected)
         /\ Agrees(u_latency[t], recorded[t], Actual)
    /\ report # NoHistogram =>
         /\ Agrees(report, Reported, Corrected)
         /\ Agrees(u_report, Reported, Actual)

Below(v) == 0 .. v - 1

\* A reported percentile is right to the precision of the histogram: p percent
\* of the latencies, rounded, are at most as large, fewer are below its range,
\* and the range is narrow: a unit wide, or narrow for its values by what the
\* precision asks (hdr_value_at_percentile, print_hdr_latency).
PercentilesRight ==
    report.total_count > 0 =>
      \A p \in Percentiles :
        LET n    == report.total_count
            v    == ValueAtPercentile(report, p)
            low  == LowestEquivalent(v)
            upTo == HowMany(Reported, Corrected, 0 .. v)
            less == HowMany(Reported, Corrected, Below(low))
        IN  /\ 200 * upTo >= 2 * p * n - 100
            /\ less = 0 \/ 200 * less < 2 * p * n + 100
            /\ upTo > less
            /\ v - low < Power[UnitMagnitude] \/ (v - low) * SubBucketHalfCount <= low

\* The smallest, the largest and the mean latency of the report, to the same
\* precision (hdr_min, hdr_max, hdr_mean, over the iterator): the mean is off by
\* no more than a SubBucketCount-th of each latency, and half a unit.
ExtremesRight ==
    report.total_count > 0 =>
      LET seen == {r.corrected : r \in {q \in Responses : Reported[q] > 0}}
          sum  == SumFunction([r \in Responses |-> Reported[r] * r.corrected])
          half == SubBucketCount * (Power[UnitMagnitude] \div 2)
          err  == SumFunction([r \in Responses |-> Reported[r] * (r.corrected + half)])
      IN  /\ HdrMin(report) = LowestEquivalent(Min(seen))
          /\ HdrMax(report) = LowestEquivalent(Max(seen))
          /\ SubBucketCount * (MeanTotal(report) - sum) \in -err .. err

\* At no percentile does the report show a corrected latency below the
\* uncorrected one: both histograms hold the same responses at all times.
CorrectedDominates ==
    report # NoHistogram =>
      /\ report.total_count = u_report.total_count
      /\ \A p \in Percentiles : ValueAtPercentile(report, p) >= ValueAtPercentile(u_report, p)

\* The copy of a scrape can be walked at any moment, whatever the threads do:
\* "hdr_add() iterates until the source's total_count, ... it can then walk off
\* the end of the array" (wrk.c 1697) does not happen to it.
ScrapeCanBeWalked == WalkEnds(scrape.h)

\* A finished scrape in which no thread was reset lies between the counts of
\* its beginning and those of its end: nothing is counted twice or lost.
ScrapeIsBetween ==
    scrape.thread = NumThreads + 1 /\ before # Unknown =>
      \A i \in Indices :
        before[i] <= scrape.h.counts[i] /\ scrape.h.counts[i] <= AllCounts[i]
===============================================================================
