-------------------------------- MODULE Report --------------------------------
(***************************************************************************)
(* What becomes of the latencies of a run (src/wrk.c, src/stats.c,         *)
(* src/hdr_histogram.c): the report and the script's done() look at them   *)
(* through stats; --hist-out writes them to a file of exact counts; and    *)
(* `wperfk merge' reads the files of several runs, adds them up and prints *)
(* the percentile spectrum line by line.                                   *)
(*                                                                         *)
(* A line of a file is a record.  One of the files may be spoiled before   *)
(* the merge: cut off after some line (a full disk), or with a line lost   *)
(* or changed.  The counters of a run are abstracted to requests, which    *)
(* adds up, and runtime_us, which does not.  Percentiles are exact, in     *)
(* units of 1/Whole.                                                       *)
(***************************************************************************)
EXTENDS HdrHistogram, Sequences, SequencesExt

CONSTANTS
    NumFiles,       \* arguments of merge
    Headers,        \* of the files: [url, runtime_us, requests]
    Multiple, NoUrl,
    Responses,      \* what a run records of a response: [corrected, actual]
    MaxEach,        \* bound: how often a run records each response
    MaxSpoiled,     \* bound: files that are spoiled
    TicksPerHalfDistance,   \* of the spectrum (5)
    Resolution      \* bound: halvings of the distance to 100% that are exact

ASSUME ReportAssumption ==
    /\ {NumFiles, TicksPerHalfDistance, Resolution} \subseteq Nat \ {0}
    /\ {MaxEach, MaxSpoiled} \subseteq Nat
    /\ \A h \in Headers : h.runtime_us \in Nat /\ h.requests \in Nat
                          /\ h.url \notin {Multiple, NoUrl}
    /\ Responses \subseteq [corrected : Nat, actual : Nat]
    /\ \A r \in Responses : InRange(r.corrected) /\ r.actual <= r.corrected

Files == 1 .. NumFiles
Whole == TicksPerHalfDistance * 2 ^ Resolution

VARIABLES
    run,         \* the runs so far, [header, bag]: how often each recorded what
    file,        \* their files: [lines, how: "whole", "cut" or "spoiled" (history)]
    outcome,     \* of merge: "merging", "refused", "printing", "done"
    total,       \* [read, url, runtime_us, requests, latency, u_latency]
    iter,        \* hdr_percentile_iter: [k: the stop of the walk,
                 \*   percentile_to_iterate_to, seen_last_value]
    line         \* the line of the spectrum printed last: [k, percentile]

vars == <<run, file, outcome, total, iter, line>>

Corrected(r) == r.corrected
Actual(r)    == r.actual

\* The histogram of a run; that it is filled like this is shown in Measurement.
HistogramOf(bag, valueOf(_)) ==
    LET Step(r, h) == Record(h, valueOf(r), bag[r]) IN FoldSet(Step, Empty, Responses)

-------------------------------------------------------------------------------
(* write_hist *)

Params == <<HighestTrackable, CountsLen>>

\* A count of 0 is not written.
WriteHistCounts(name, h) ==
    <<[kind |-> "hist", name |-> name, params |-> Params]>>
    \o SelectSeq([i \in 1 .. CountsLen |-> [kind |-> "count", idx |-> i - 1,
                                            count |-> h.counts[i - 1]]],
                 LAMBDA l : l.count # 0)
    \o <<[kind |-> "end"]>>

WriteHist(r) ==
    <<[kind |-> "wperfk-hist 1"], [kind |-> "url", url |-> r.header.url],
      [kind |-> "runtime_us", n |-> r.header.runtime_us],
      [kind |-> "requests", n |-> r.header.requests]>>
    \o WriteHistCounts("latency", HistogramOf(r.bag, Corrected))
    \o WriteHistCounts("u_latency", HistogramOf(r.bag, Actual))

CutOff(f)  == {SubSeq(f, 1, n) : n \in 0 .. Len(f) - 1}

\* Spoiled in a way merge looks for: another kind of file, a histogram of other
\* dimensions, a count without an index or half a count.
Refusable(f) ==
    {Tail(f)} \cup
    {[f EXCEPT ![i].params[2] = @ + 1] : i \in {j \in DOMAIN f : f[j].kind = "hist"}} \cup
    {[f EXCEPT ![i] = bad] :
       i \in {j \in DOMAIN f : f[j].kind = "count"},
       bad \in {[kind |-> "count", idx |-> CountsLen, count |-> 1], [kind |-> "half"]}}

-------------------------------------------------------------------------------
(* Init; the runs and their files *)

NothingRead == [read |-> 0, url |-> NoUrl, runtime_us |-> 0, requests |-> 0,
                latency |-> Empty, u_latency |-> Empty]

\* hdr_percentile_iter_init
PercentileIterInit == [k |-> -1, percentile_to_iterate_to |-> 0, seen_last_value |-> FALSE]

Init ==
    /\ run     = <<>>
    /\ file    = <<>>
    /\ outcome = "merging"
    /\ total   = NothingRead
    /\ iter    = PercentileIterInit
    /\ line    = [k |-> -1, percentile |-> 0]

\* A run ends and is reported.
Measure ==
    /\ Len(run) < NumFiles /\ Len(run) = Len(file)
    /\ \E h \in Headers, bag \in [Responses -> 0 .. MaxEach] :
         run' = Append(run, [header |-> h, bag |-> bag])
    /\ UNCHANGED <<file, outcome, total, iter, line>>

WriteFile ==
    LET lines == WriteHist(Last(run))
        spoil == Cardinality({f \in DOMAIN file : file[f].how # "whole"}) < MaxSpoiled
    IN  /\ Len(file) < Len(run)
        /\ \E f \in {[lines |-> lines, how |-> "whole"]}
               \cup (IF spoil THEN [lines : CutOff(lines), how : {"cut"}] ELSE {})
               \cup (IF spoil THEN [lines : Refusable(lines), how : {"spoiled"}] ELSE {}) :
             file' = Append(file, f)
        /\ UNCHANGED <<run, outcome, total, iter, line>>

-------------------------------------------------------------------------------
(* merge_main *)

\* What merge_main knows in the middle of a file: its totals so far, the run of
\* the file (m), the histogram it is in, and whether the file is refused (rc).
Opened == [t |-> total, m |-> [runtime_us |-> 0, requests |-> 0], in |-> "", rc |-> 0]

AddUrl(s, url) ==
    [s EXCEPT !.t.url = IF @ = NoUrl THEN url ELSE IF @ = url THEN @ ELSE Multiple]

AddCount(h, l) ==
    [counts |-> [h.counts EXCEPT ![l.idx] = @ + l.count],
     total_count |-> h.total_count + l.count]

\* Mutant of ReadHistCounts: idx is not compared with the length of the array.
ReadHistCountsAny(s, l) ==
    IF l.kind = "end" THEN [s EXCEPT !.in = ""]
    ELSE IF l.kind = "count"
      THEN IF l.idx \notin Indices THEN s
           ELSE IF s.in = "latency" THEN [s EXCEPT !.t.latency   = AddCount(@, l)]
                                    ELSE [s EXCEPT !.t.u_latency = AddCount(@, l)]
    ELSE [s EXCEPT !.rc = -1]

\* read_hist_counts, a turn of its loop: a line that is no count in the array
\* is an error.
ReadHistCounts(s, l) ==
    IF l.kind = "end" THEN [s EXCEPT !.in = ""]
    ELSE IF l.kind = "count" /\ l.idx \in Indices
      THEN IF s.in = "latency" THEN [s EXCEPT !.t.latency   = AddCount(@, l)]
                               ELSE [s EXCEPT !.t.u_latency = AddCount(@, l)]
    ELSE [s EXCEPT !.rc = -1]

\* A turn of the loop over the lines; lines of no known kind are passed over.
ReadLine(s, l) ==
    IF s.rc # 0 THEN s
    ELSE IF s.in # "" THEN ReadHistCounts(s, l)
    ELSE CASE l.kind = "url"        -> AddUrl(s, l.url)
           [] l.kind = "runtime_us" -> [s EXCEPT !.m.runtime_us = l.n]
           [] l.kind = "requests"   -> [s EXCEPT !.m.requests = l.n]
           [] l.kind = "hist"       -> IF l.params = Params THEN [s EXCEPT !.in = l.name]
                                                            ELSE [s EXCEPT !.rc = -1]
           [] OTHER                 -> s

\* The runs are taken to be concurrent.
AddTotals(t, m) ==
    [t EXCEPT !.read = @ + 1, !.requests = @ + m.requests,
              !.runtime_us = Max({@, m.runtime_us})]

\* Nothing tells the end of a file from the end of what was left of it.
ReadFile ==
    /\ outcome = "merging" /\ Len(file) = NumFiles /\ total.read < NumFiles
    /\ LET lines == file[total.read + 1].lines
           known == lines # <<>> /\ lines[1].kind = "wperfk-hist 1"
           s     == FoldLeft(ReadLine, Opened, lines)
       IN  IF known /\ s.rc = 0
             THEN total' = AddTotals(s.t, s.m) /\ UNCHANGED outcome
             ELSE outcome' = "refused" /\ UNCHANGED total
    /\ UNCHANGED <<run, file, iter, line>>

StartPrinting ==
    /\ outcome = "merging" /\ total.read = NumFiles
    /\ outcome' = "printing"
    /\ UNCHANGED <<run, file, total, iter, line>>

-------------------------------------------------------------------------------
(* hdr_percentiles_print *)

CountTo(h, k) == IF k = -1 THEN 0 ELSE CountsTo(h)[k]

\* Half of the distance to 100% that is left, as a power of two; the code takes
\* the logarithm of 100/(100 - percentile).
HalfDistance(p) == 2 * Max({2 ^ n : n \in {m \in 0 .. Resolution : 2 ^ m * (Whole - p) <= Whole}})

NextPercentile(p) == p + Whole \div (TicksPerHalfDistance * HalfDistance(p))

\* Mutant of ReportsAt: the percentile may lie past the stop.
ReportsAtAnyCount(h, k, p) == CountAt(h, k) # 0

ReportsAt(h, k, p) == CountAt(h, k) # 0 /\ p * h.total_count <= Whole * CountTo(h, k)

\* hdr_percentile_iter_next returns true.  The stop it is at is tried again
\* before the walk goes on; when all has been counted there is one line more.
NextLine ==
    LET h    == total.latency
        p    == iter.percentile_to_iterate_to
        here == {k \in Indices : k >= iter.k /\ ReportsAt(h, k, p)}
    IN  /\ outcome = "printing"
        /\ IF CountTo(h, iter.k) < h.total_count
             THEN /\ iter' = [iter EXCEPT !.k = Min(here),
                                          !.percentile_to_iterate_to = NextPercentile(p)]
                  /\ line' = [k |-> Min(here), percentile |-> p]
             ELSE /\ ~iter.seen_last_value
                  /\ iter' = [iter EXCEPT !.seen_last_value = TRUE]
                  /\ line' = [k |-> iter.k, percentile |-> Whole]
        /\ UNCHANGED <<run, file, outcome, total>>

\* It returns false; merge ends.
EndPrinting ==
    /\ outcome = "printing" /\ iter.seen_last_value
    /\ outcome' = "done"
    /\ UNCHANGED <<run, file, total, iter, line>>

Next == Measure \/ WriteFile \/ ReadFile \/ StartPrinting \/ NextLine \/ EndPrinting

Spec == Init /\ [][Next]_vars

-------------------------------------------------------------------------------
(* stats: what the report and the script's done() are shown *)

\* More than 100 percent are taken for 100.
Requested(p) == Min({p, 100})

\* script_stats_percentile, which is latency:percentile(p) and also latency(p).
PercentileOf(h, p) == ValueAtPercentile(h, Requested(p))

\* 100.0 * i / n as a double: rounded either way, here to a whole percent.  A rank
\* is then off by up to n / 100, as with doubles by about n / 2^51.
Percentages(i, n) == {(100 * i) \div n, (100 * i + n - 1) \div n}

\* script_stats_get, latency[i]: the index becomes a percentage, and that a rank.
LatencyAt(h, i) ==
    IF h.total_count = 0 THEN {0}
    ELSE {PercentileOf(h, p) : p \in Percentages(i, h.total_count)}

\* stats_within_stdev times total_count: of the values from lower to upper, the
\* two bounds cut to integers.
Within(h, lower, upper) ==
    LET value(k) == ValueFromIndex(Walk[k])
        seen     == Visited(h)
        above    == {k \in seen : upper < HighestEquivalent(value(k))}
        last     == IF above = {} THEN CountsLen - 1 ELSE Min(above)
        below    == {k \in seen : k <= last /\ lower > value(k)}
    IN  (IF above = {} THEN h.total_count ELSE CountTo(h, last))
        - (IF below = {} THEN 0 ELSE CountTo(h, Max(below)))

-------------------------------------------------------------------------------
(* Properties *)

\* How many responses of a bag have a latency in S.
HowMany(bag, valueOf(_), S) ==
    SumFunctionOnSet(bag, {r \in Responses : valueOf(r) \in S})

AllRuns == [r \in Responses |-> SumFunction([f \in Files |-> run[f].bag[r]])]

AllWhole == \A f \in Files : file[f].how = "whole"

\* The values that the k-th stop of the walk stands for.
From   == [k \in Indices |-> ValueFromIndex(Walk[k])]
Values == [k \in Indices |-> From[k] .. HighestEquivalent(From[k])]

Agrees(h, valueOf(_)) ==
    /\ \A k \in Indices : CountAt(h, k) = HowMany(AllRuns, valueOf, Values[k])
    /\ h.total_count = SumFunction(AllRuns)

Merged == outcome \in {"printing", "done"}

\* What merge prints is what the runs recorded: the counts of each latency and the
\* counters add up over whole files, the runtime is the longest, and a file that
\* is not whole is refused, except that the end of one may be missing; then
\* nothing is counted that was not recorded.  Whole files are not refused
\* (write_hist against merge_main and read_hist_counts).
MergeIsExact ==
    /\ outcome = "refused" => ~AllWhole
    /\ Merged =>
         /\ \A f \in Files : file[f].how # "spoiled"
         /\ \A k \in Indices :
              CountAt(total.latency, k) <= HowMany(AllRuns, Corrected, Values[k])
    /\ Merged /\ AllWhole =>
         /\ Agrees(total.latency, Corrected) /\ Agrees(total.u_latency, Actual)
         /\ total.requests = SumFunction([f \in Files |-> run[f].header.requests])
         /\ total.runtime_us = Max({run[f].header.runtime_us : f \in Files})
         /\ {run[f].header.url : f \in Files} = {total.url} \/ total.url = Multiple

\* A line of the spectrum is true of the responses of all runs: at least its
\* percentile of them are at most its value, no more than that are smaller to the
\* precision of the histogram, and the last line has them all
\* (hdr_percentile_iter_next on the sums of hdr_add or of merge).
SpectrumRight ==
    line.k # -1 /\ AllWhole =>
      LET n    == SumFunction(AllRuns)
          upTo == HowMany(AllRuns, Corrected, 0 .. HighestEquivalent(From[line.k]))
          less == HowMany(AllRuns, Corrected, 0 .. From[line.k] - 1)
      IN  /\ less < upTo
          /\ less * Whole <= line.percentile * n
          /\ line.percentile * n <= upTo * Whole
          /\ iter.seen_last_value => upTo = n

\* v is the value of the rank-th smallest of a bag.
IsRanked(bag, v, rank) ==
    /\ HowMany(bag, Corrected, 0 .. v) >= rank
    /\ HowMany(bag, Corrected, 0 .. LowestEquivalent(v) - 1) < rank

\* What stats says of a run is right to the precision of the histogram: latency[i]
\* is the i-th smallest, whichever way the percentage in between was rounded, and
\* the nearest there is when i is none; the deviation is that of the responses,
\* each taken at the middle of its range; and the share within a range counts what
\* lies in it and, at either end, at most what shares a count with the bound or
\* follows on it (script_stats_get, stats_stdev and stats_within_stdev).
ViewsRight ==
    Len(run) = 1 /\ file = <<>> =>
      LET bag == run[1].bag
          h   == HistogramOf(bag, Corrected)
          Has(from, to) == HowMany(bag, Corrected, from .. to)
          middle(r) == SumFunction(bag) * MedianEquivalent(r.corrected)
          mean == SumFunction([r \in Responses |-> bag[r] * MedianEquivalent(r.corrected)])
      IN  /\ DevianceTotal(h) = SumFunction(
                 [r \in Responses |-> bag[r] * (middle(r) - mean) ^ 2])
          /\ h.total_count # 0 =>
               \A i \in 0 .. h.total_count + 1 : \A v \in LatencyAt(h, i) :
                 IsRanked(bag, v, Max({1, Min({i, h.total_count})}))
          /\ \A upper \in 0 .. HighestTrackable : \A lower \in 0 .. upper :
               /\ Within(h, lower, upper) >= Has(HighestEquivalent(lower) + 1, upper)
               /\ Within(h, lower, upper) <=
                    Has(LowestEquivalent(lower), HighestEquivalent(HighestEquivalent(upper) + 1))

\* "latency(i) -- raw value and count" (SCRIPTING 99): the call is of the percentile,
\* as a test of the repository has it (tests/smoke.sh 75): see README.
CallIsRawValue ==
    Len(run) = 1 /\ file = <<>> =>
      LET h == HistogramOf(run[1].bag, Corrected) IN
      \A i \in 1 .. h.total_count : IsRanked(run[1].bag, PercentileOf(h, i), i)

\* A file cut off is not merged.  "Histogram file: exact bucket counts plus run
\* totals, mergeable across machines" (wrk.c 1533): see README.
MergeIsComplete == Merged => AllWhole
===============================================================================
