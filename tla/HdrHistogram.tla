----------------------------- MODULE HdrHistogram -----------------------------
(***************************************************************************)
(* The histogram of src/hdr_histogram.c: how a value finds its count, and  *)
(* what the iterator, the percentiles, the minimum, the maximum, the mean  *)
(* and the merging of two histograms make of the counts.                   *)
(*                                                                         *)
(* A histogram is a record [counts, total_count]; counts is indexed from 0 *)
(* as in the code.  The other fields are fixed when it is allocated: they  *)
(* are constants here.  Doubles are exact.                                 *)
(***************************************************************************)
EXTENDS Integers, FiniteSetsExt, Functions

CONSTANTS
    SubBucketMagnitude,   \* bits of a sub-bucket: 11 for three figures
    UnitMagnitude,        \* unit_magnitude: 0 in wperfk
    HighestTrackable      \* highest_trackable_value

ASSUME HistogramAssumption ==
    /\ SubBucketMagnitude \in Nat \ {0}
    /\ UnitMagnitude \in Nat /\ HighestTrackable \in Nat

-------------------------------------------------------------------------------
(* hdr_init *)

\* pow(2, n) and 1 << n: a function, of which the laws of powers can be proved.
Power[n \in Nat] == IF n = 0 THEN 1 ELSE 2 * Power[n - 1]

SubBucketCount     == Power[SubBucketMagnitude]
SubBucketHalfCount == SubBucketCount \div 2
SubBucketMask      == (SubBucketCount - 1) * Power[UnitMagnitude]

\* The mask is doubled until it reaches the highest value to be tracked.
BucketCount ==
    Min({n \in 1 .. HighestTrackable + 1 :
           SubBucketMask * Power[n - 1] >= HighestTrackable})

CountsLen == (BucketCount + 1) * SubBucketHalfCount

Indices == 0 .. CountsLen - 1

Empty == [counts |-> [i \in Indices |-> 0], total_count |-> 0]

-------------------------------------------------------------------------------
(* Where a value is counted *)

\* The number of bits of v | mask, which is that of the larger of the two.
BitLength(v) ==
    LET m == IF v > SubBucketMask THEN v ELSE SubBucketMask
    IN  CHOOSE n \in 1 .. m + 1 : Power[n - 1] <= m /\ m < Power[n]

BucketIndex(v) == BitLength(v) - UnitMagnitude - SubBucketMagnitude

SubBucketIndex(v, bucket) == v \div Power[bucket + UnitMagnitude]

\* The assertions of counts_index.
Counted(p) ==
    /\ p.bucket < BucketCount
    /\ p.sub < SubBucketCount
    /\ p.bucket = 0 \/ p.sub >= SubBucketHalfCount

\* Each bucket after the first adds its upper half.
CountsIndex(p) ==
    (p.bucket + 1) * SubBucketHalfCount + p.sub - SubBucketHalfCount

PlaceOf(v) == [bucket |-> BucketIndex(v), sub |-> SubBucketIndex(v, BucketIndex(v))]

ValueFromIndex(p) == p.sub * Power[p.bucket + UnitMagnitude]

\* Values that have a count; a negative one, or a larger one, fails an assertion.
InRange(v) == v >= 0 /\ Counted(PlaceOf(v))

-------------------------------------------------------------------------------
(* Values that share a count *)

LowestEquivalent(v) == ValueFromIndex(PlaceOf(v))

SizeOfRange(v) ==
    LET p == PlaceOf(v)
    IN  Power[UnitMagnitude + (IF p.sub >= SubBucketCount THEN p.bucket + 1
                                                          ELSE p.bucket)]

HighestEquivalent(v) == LowestEquivalent(v) + SizeOfRange(v) - 1
MedianEquivalent(v)  == LowestEquivalent(v) + SizeOfRange(v) \div 2

-------------------------------------------------------------------------------
(* hdr_record_values *)

\* Mutant of Record: the total grows by one, as in hdr_record_value.
RecordTotalByOne(h, v, count) ==
    LET i == CountsIndex(PlaceOf(v)) IN
    IF i \in Indices
      THEN [counts |-> [h.counts EXCEPT ![i] = @ + count],
            total_count |-> h.total_count + 1]
      ELSE h

\* count more of v; what has no index is refused.
Record(h, v, count) ==
    LET i == CountsIndex(PlaceOf(v)) IN
    IF i \in Indices
      THEN [counts |-> [h.counts EXCEPT ![i] = @ + count],
            total_count |-> h.total_count + count]
      ELSE h

-------------------------------------------------------------------------------
(* The iterator *)

\* Mutant of IncrementBucket: every bucket is walked from its first sub-bucket.
IncrementBucketFromZero(p) ==
    IF p.sub + 1 >= SubBucketCount THEN [bucket |-> p.bucket + 1, sub |-> 0]
                                   ELSE [p EXCEPT !.sub = @ + 1]

\* The lower half of a bucket after the first is the one before.
IncrementBucket(p) ==
    IF p.sub + 1 >= SubBucketCount
      THEN [bucket |-> p.bucket + 1, sub |-> SubBucketHalfCount]
      ELSE [p EXCEPT !.sub = @ + 1]

\* Where hdr_iter_next stands after k + 1 calls.
Walk ==
    LET at[k \in Indices] ==
          IncrementBucket(IF k = 0 THEN [bucket |-> 0, sub |-> -1] ELSE at[k - 1])
    IN  [k \in Indices |-> at[k]]

CountAt(h, k) == h.counts[CountsIndex(Walk[k])]

\* count_to_index at each of these stops.
CountsTo(h) ==
    LET to[k \in Indices] == CountAt(h, k) + IF k = 0 THEN 0 ELSE to[k - 1]
    IN  [k \in Indices |-> to[k]]

\* The calls of hdr_iter_next that return true: the walk stops once it has seen
\* total_count values.
Visited(h) ==
    LET to == CountsTo(h)
    IN  {k \in Indices : (IF k = 0 THEN 0 ELSE to[k - 1]) < h.total_count}

Recorded(h) == {k \in Visited(h) : CountAt(h, k) # 0}

\* Whether the walk ends inside the array.
WalkEnds(h) == CountsTo(h)[CountsLen - 1] >= h.total_count

-------------------------------------------------------------------------------
(* hdr_add, hdr_max, hdr_min, hdr_value_at_percentile, hdr_mean, hdr_stddev *)

\* Each count is recorded under the value it stands for.
Add(h, from) ==
    LET Step(k, dst) == Record(dst, ValueFromIndex(Walk[k]), CountAt(from, k))
    IN  FoldSet(Step, h, Recorded(from))

HdrMax(h) ==
    IF Recorded(h) = {} THEN LowestEquivalent(0)
    ELSE LowestEquivalent(HighestEquivalent(ValueFromIndex(Walk[Max(Recorded(h))])))

HdrMin(h) ==
    IF Recorded(h) = {} THEN 0 ELSE ValueFromIndex(Walk[Min(Recorded(h))])

\* Mutant of CountAtPercentile: the rank is not rounded.
CountAtPercentileCut(h, p) == Max({1, (p * h.total_count) \div 100})

\* The rank a percentile asks for, rounded, at least 1.
CountAtPercentile(h, p) == Max({1, (2 * p * h.total_count + 100) \div 200})

ValueAtRank(h, rank) ==
    LET to      == CountsTo(h)
        reached == {k \in Visited(h) : to[k] >= rank}
    IN  IF reached = {} THEN 0
        ELSE HighestEquivalent(ValueFromIndex(Walk[Min(reached)]))

ValueAtPercentile(h, p) == ValueAtRank(h, CountAtPercentile(h, p))

\* hdr_mean times total_count.
MeanTotal(h) ==
    LET part == [k \in Indices |->
                   CountAt(h, k) * MedianEquivalent(ValueFromIndex(Walk[k]))]
    IN  SumFunctionOnSet(part, Recorded(h))

\* The square of hdr_stddev times the third power of total_count.
DevianceTotal(h) ==
    LET dev(k) == h.total_count * MedianEquivalent(ValueFromIndex(Walk[k])) - MeanTotal(h)
    IN  SumFunctionOnSet([k \in Indices |-> CountAt(h, k) * dev(k) * dev(k)], Recorded(h))
===============================================================================
