------------------------------ MODULE Histogram ------------------------------
(***************************************************************************)
(* leveldb's Histogram (util/histogram.cc, util/histogram.h): samples are    *)
(* counted in buckets of growing width, two histograms can be merged, and a  *)
(* percentile is read off the counts by a straight line within a bucket.     *)
(* Doubles are fractions here: a percentile is a numerator over Counted *    *)
(* 100.  The samples themselves are kept as history.                         *)
(***************************************************************************)
EXTENDS Integers, Sequences, SequencesExt, FiniteSets, FiniteSetsExt, TLC

CONSTANTS BucketWidth,   \* kBucketLimit[b] is BucketWidth * 2^b here, but for the last, which is the sentinel
          kNumBuckets,   \* 154 in the code
          Sentinel,      \* the last limit, 1e200 in the code
          Samples,       \* values that are added
          MaxSamples     \* bound: samples of one histogram

VARIABLES hist,      \* two histograms
          sampled    \* history: the samples of each, in order

Two == {1, 2}
Sorted(s) == SortSeq(s, LAMBDA v, w : v < w)
kBucketLimit == [b \in 0 .. kNumBuckets - 1 |-> IF b = kNumBuckets - 1 THEN Sentinel ELSE BucketWidth * 2 ^ b]
Cleared == [min |-> Sentinel, max |-> 0, num |-> 0, sum |-> 0, squares |-> 0, buckets |-> [b \in 0 .. kNumBuckets - 1 |-> 0]]

\* The first bucket whose limit is above the value; the last takes the rest.
Bucket(v) == Min({b \in 0 .. kNumBuckets - 1 : b = kNumBuckets - 1 \/ kBucketLimit[b] > v})

Added(h, v) == [min |-> Min({h.min, v}), max |-> Max({h.max, v}), num |-> h.num + 1,
                sum |-> h.sum + v, squares |-> h.squares + v * v, buckets |-> [h.buckets EXCEPT ![Bucket(v)] = @ + 1]]

MergedKeepsMin(h, o) ==
    [min |-> IF h.num = 0 THEN h.min ELSE Min({h.min, o.min}), max |-> Max({h.max, o.max}), num |-> h.num + o.num,
     sum |-> h.sum + o.sum, squares |-> h.squares + o.squares,
     buckets |-> [b \in 0 .. kNumBuckets - 1 |-> h.buckets[b] + o.buckets[b]]]

Merged(h, o) ==
    [min |-> Min({h.min, o.min}), max |-> Max({h.max, o.max}), num |-> h.num + o.num,
     sum |-> h.sum + o.sum, squares |-> h.squares + o.squares,
     buckets |-> [b \in 0 .. kNumBuckets - 1 |-> h.buckets[b] + o.buckets[b]]]

-----------------------------------------------------------------------------
Init == hist = [i \in Two |-> Cleared] /\ sampled = [i \in Two |-> <<>>]

Clear(i) == hist' = [hist EXCEPT ![i] = Cleared] /\ sampled' = [sampled EXCEPT ![i] = <<>>]

Add(i, v) ==
    /\ Len(sampled[i]) < MaxSamples
    /\ hist' = [hist EXCEPT ![i] = Added(@, v)]
    /\ sampled' = [sampled EXCEPT ![i] = Sorted(Append(@, v))]

\* A histogram may also be merged with itself.
Merge(i, j) ==
    /\ Len(sampled[i]) + Len(sampled[j]) <= MaxSamples
    /\ hist' = [hist EXCEPT ![i] = Merged(@, hist[j])]
    /\ sampled' = [sampled EXCEPT ![i] = Sorted(@ \o sampled[j])]

Next == \E i \in Two : Clear(i) \/ (\E v \in Samples : Add(i, v)) \/ (\E j \in Two : Merge(i, j))

Spec == Init /\ [][Next]_<<hist, sampled>>

-----------------------------------------------------------------------------
\* How many samples are in the buckets up to b.
UpTo(h, b) == FoldLeft(LAMBDA a, c : a + h.buckets[c], 0, [k \in 1 .. b + 1 |-> k - 1])

\* The bucket that the percentile falls into; the threshold is num * p / 100.
Reached(h, p) == Min({b \in 0 .. kNumBuckets - 1 : 100 * UpTo(h, b) >= h.num * p})
Counted(h, p) == h.buckets[Reached(h, p)]

PercentileOpen(h, p) ==
    LET b == Reached(h, p)
        left == IF b = 0 THEN 0 ELSE kBucketLimit[b - 1]
        unit == 100 * h.buckets[b]
    IN  left * unit + (kBucketLimit[b] - left) * (h.num * p - 100 * (UpTo(h, b) - h.buckets[b]))

\* Percentile, times 100 * Counted(h, p).  With no sample the code divides zero by zero.
Percentile(h, p) ==
    LET b == Reached(h, p)
        left == IF b = 0 THEN 0 ELSE kBucketLimit[b - 1]
        unit == 100 * h.buckets[b]
        r == left * unit + (kBucketLimit[b] - left) * (h.num * p - 100 * (UpTo(h, b) - h.buckets[b]))
    IN  Min({Max({r, h.min * unit}), h.max * unit})

Median(h) == Percentile(h, 50)

\* Doubles as a numerator and a denominator; StandardDeviation is the root of Variance.
Average(h) == IF h.num = 0 THEN <<0, 1>> ELSE <<h.sum, h.num>>
Variance(h) == IF h.num = 0 THEN <<0, 1>> ELSE <<h.squares * h.num - h.sum * h.sum, h.num * h.num>>

\* A row of ToString for each bucket that is not empty; "so far" is its cumulative percentage times num.
Row(h, b) == [left |-> IF b = 0 THEN 0 ELSE kBucketLimit[b - 1], right |-> kBucketLimit[b],
              count |-> h.buckets[b], sofar |-> 100 * UpTo(h, b),
              marks |-> (40 * h.buckets[b] + h.num) \div (2 * h.num)]
ToRows(h) == LET used == SelectSeq([k \in 1 .. kNumBuckets |-> k - 1], LAMBDA b : h.buckets[b] > 0)
             IN  [k \in DOMAIN used |-> Row(h, used[k])]

\* The sample of the rank that p asks for.
Exact(s, p) ==
    CHOOSE v \in ToSet(s) : /\ 100 * Cardinality({k \in DOMAIN s : s[k] <= v}) >= Len(s) * p
                            /\ 100 * Cardinality({k \in DOMAIN s : s[k] < v}) < Len(s) * p

\* Histogram: the sums and the buckets of as many samples as it counts.
IsHistogram(h) == h.num \in 0 .. MaxSamples /\ DOMAIN h.buckets = DOMAIN kBucketLimit /\ h.sum >= 0 /\ h.squares >= h.sum - h.num

(* The two histograms count their samples.                                  *)
TypeOK == \A i \in Two : IsHistogram(hist[i]) /\ hist[i].num = Len(sampled[i])

(* However samples were added and histograms merged, with an empty one or    *)
(* with itself too, the result is that of adding every sample to a cleared   *)
(* histogram (Merge, Add).                                                   *)
MergeCounts == \A i \in Two : hist[i] = FoldLeft(Added, Cleared, sampled[i])

(* A percentile is between the smallest and the largest sample and in the    *)
(* bucket of the sample that has that rank, and a higher percentile is not   *)
(* below a lower one (Percentile's line within a bucket and its two limits). *)
PercentilesClose ==
    \A i \in Two : hist[i].num > 0 =>
        /\ \A p \in {1, 50, 100} :
            LET h == hist[i]
                b == Bucket(Exact(sampled[i], p))
                unit == 100 * Counted(h, p)
                left == IF b = 0 THEN 0 ELSE kBucketLimit[b - 1]
            IN  /\ Percentile(h, p) \in left * unit .. kBucketLimit[b] * unit
                /\ Percentile(h, p) \in h.min * unit .. h.max * unit
        /\ \A p, q \in {1, 50, 100} : p < q =>
               Percentile(hist[i], p) * Counted(hist[i], q) <= Percentile(hist[i], q) * Counted(hist[i], p)

(* ToString of merged histograms is a true summary: each row counts the      *)
(* samples between its limits, the rows are in order and their cumulative    *)
(* percentage ends at 100; the average and the median are between the        *)
(* smallest and the largest sample; the variance is no negative number, and  *)
(* zero only when all samples are equal.                                     *)
SummaryTrue ==
    \A i \in Two :
        LET h == hist[i]
            rows == ToRows(h)
            average == Average(h)
        IN  /\ \A k \in DOMAIN rows :
                  /\ rows[k].count = Cardinality({j \in DOMAIN sampled[i] : sampled[i][j] \in rows[k].left .. rows[k].right - 1})
                  /\ rows[k].marks \in 0 .. 20
                  /\ k > 1 => rows[k - 1].right <= rows[k].left
            /\ h.num > 0 =>
                  /\ rows[Len(rows)].sofar = 100 * h.num
                  /\ h.min * average[2] <= average[1] /\ average[1] <= h.max * average[2]
                  /\ Median(h) \in h.min * 100 * Counted(h, 50) .. h.max * 100 * Counted(h, 50)
            /\ Variance(h)[1] >= 0
            /\ (Variance(h)[1] = 0) <=> Cardinality(ToSet(sampled[i])) <= 1
=============================================================================
