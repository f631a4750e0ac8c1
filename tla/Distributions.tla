--------------------------- MODULE Distributions ---------------------------
(***************************************************************************)
(* Statistics of a stream of values: MeasureData, which a delta keeps of a *)
(* measure, Distribution, which a view keeps of many deltas, and what      *)
(* Prometheus is given of it.                                              *)
(*                                                                         *)
(* Means are kept times Scale and squares times Scale^2, where Scale is a  *)
(* multiple of all counts, so that they are integers and exact.            *)
(***************************************************************************)
EXTENDS BucketBoundaries, SequencesExt, FiniteSetsExt

CONSTANTS
  Scale,
  Measured,   \* values that are recorded
  Boundaries, \* the lower bounds of the buckets of the views of the measure, increasing
  Infinity,   \* larger than all values
  MaxValues   \* bound on the values recorded

VARIABLES
  boundaries_,  \* those the present delta keeps histograms for
  measure_data, \* the MeasureData of the present delta
  distribution, \* the Distribution of the view, and its bucket_boundaries
  batch, merged \* history: the values in the one, and in the other

statsVars == <<boundaries_, measure_data, distribution, batch, merged>>

----------------------------------------------------------------------------
Statistics == [count |-> 0, mean |-> 0, squares |-> 0, min |-> Infinity, max |-> -Infinity]

NewMeasureData(all) ==
  [statistics |-> Statistics, histograms |-> [b \in all |-> Histogram(b)]]

NewDistribution(bounds) == [statistics |-> Statistics, bucket_counts |-> Histogram(bounds)]

Square(x) == x * x

\* "the method of provisional means".
WithValue(s, value) ==
  LET v == Scale * value
      count == s.count + 1
      mean == s.mean + (v - s.mean) \div count
  IN [count |-> count, mean |-> mean,
      squares |-> s.squares + (v - s.mean) * (v - mean),
      min |-> Min({value, s.min}), max |-> Max({value, s.max})]

\* MeasureData::Add
AddValue(data, value) ==
  [statistics |-> WithValue(data.statistics, value),
   histograms |-> [b \in DOMAIN data.histograms |->
                     [data.histograms[b] EXCEPT ![BucketForValue(b, value)] = @ + 1]]]

\* Mutant: the difference of the means is not accounted for.
TogetherAdding(d, s) ==
  [count |-> d.count + s.count,
   mean |-> d.mean + ((s.mean - d.mean) * s.count) \div (d.count + s.count),
   squares |-> d.squares + s.squares,
   min |-> Min({d.min, s.min}), max |-> Max({d.max, s.max})]

\* "provisional means generalized for multiple values in both datasets"
Together(d, s) ==
  LET count == d.count + s.count
      mean == d.mean + ((s.mean - d.mean) * s.count) \div count
  IN [count |-> count, mean |-> mean,
      squares |-> d.squares + s.squares + d.count * Square(d.mean)
                  + s.count * Square(s.mean) - count * Square(mean),
      min |-> IF count = s.count THEN s.min ELSE Min({d.min, s.min}),
      max |-> IF count = s.count THEN s.max ELSE Max({d.max, s.max})]

\* MeasureData::AddToDistribution.  Without a histogram for the boundaries all
\* values count in the underflow bucket.
AddToDistribution(data, bounds, d) ==
  [statistics |-> Together(d.statistics, data.statistics),
   bucket_counts |-> [i \in 0 .. Len(bounds) |->
     d.bucket_counts[i] +
       IF bounds \in DOMAIN data.histograms THEN data.histograms[bounds][i]
       ELSE IF i = 0 THEN data.statistics.count ELSE 0]]

----------------------------------------------------------------------------
\* SetValue of the Prometheus exporter: counts up to an upper bound.
PrometheusHistogram(bounds, d) ==
  [sample_count |-> d.statistics.count,
   sample_sum |-> d.statistics.count * d.statistics.mean,
   bucket |-> [i \in 1 .. NumBuckets(bounds) |->
     [cumulative_count |-> FoldLeftDomain(LAMBDA n, k : n + d.bucket_counts[k - 1], 0,
                                          [k \in 1 .. i |-> k]),
      upper_bound |-> IF i <= Len(bounds) THEN bounds[i] ELSE Infinity]]]

\* SetTypedValue of the Stackdriver exporter, of a histogram with finite bounds.
StackdriverDistribution(bounds, d) ==
  IF NumBuckets(bounds) > 1
  THEN [bounds |-> bounds, bucket_counts |-> [i \in 1 .. NumBuckets(bounds) |-> d.bucket_counts[i - 1]]]
  ELSE [bounds |-> <<>>, bucket_counts |-> <<>>]

----------------------------------------------------------------------------
StatsInit ==
  /\ boundaries_ \in {{}, Boundaries}
  /\ \E bounds \in Boundaries :
       distribution = [bounds |-> bounds, data |-> NewDistribution(bounds)]
  /\ measure_data = NewMeasureData(boundaries_)
  /\ batch = <<>> /\ merged = <<>>

Record(value) ==
  /\ Len(batch) + Len(merged) < MaxValues
  /\ measure_data' = AddValue(measure_data, value)
  /\ batch' = Append(batch, value)
  /\ UNCHANGED <<boundaries_, distribution, merged>>

\* The delta is merged into the view, and the next one may keep more histograms: those
\* of views that have been registered meanwhile.
Consume(next) ==
  /\ batch # <<>>
  /\ boundaries_ \subseteq next
  /\ distribution' = [distribution EXCEPT
       !.data = AddToDistribution(measure_data, distribution.bounds, @)]
  /\ merged' = merged \o
       [i \in DOMAIN batch |-> [value |-> batch[i],
                                placed |-> distribution.bounds \in boundaries_]]
  /\ batch' = <<>>
  /\ boundaries_' = next
  /\ measure_data' = NewMeasureData(next)

StatsNext ==
  \/ \E value \in Measured : Record(value)
  \/ \E next \in {Boundaries, {}} : Consume(next)

----------------------------------------------------------------------------
\* What the statistics of values are by definition.
Sum(values) == FoldLeft(LAMBDA x, y : x + y, 0, values)

Described(s, values) ==
  LET n == Len(values)
      mean == (Scale * Sum(values)) \div n
  IN IF n = 0 THEN s = Statistics
     ELSE /\ s.count = n /\ s.mean * n = Scale * Sum(values)
          /\ s.squares = Sum([i \in DOMAIN values |-> Square(Scale * values[i] - mean)])
          /\ s.min = Min(ToSet(values)) /\ s.max = Max(ToSet(values))

\* The half-open range of a bucket: "[boundaries[i], boundaries[i+1])".
InBucket(bounds, i, value) ==
  /\ i > 0 => bounds[i] <= value
  /\ i < Len(bounds) => value < bounds[i + 1]

\* However values are divided into deltas, a view's mean, squared deviation, extrema
\* and histogram are those of all its values; only values of a delta that kept no
\* histogram for it are all in its first bucket.  What exporters send adds up.
DistributionsAgree ==
  LET bounds == distribution.bounds
      d == distribution.data
      prometheus == PrometheusHistogram(bounds, d)
      Placed(i) == SelectSeq(merged, LAMBDA m : m.placed /\ InBucket(bounds, i, m.value))
  IN /\ Described(measure_data.statistics, batch)
     /\ Described(d.statistics, [i \in DOMAIN merged |-> merged[i].value])
     /\ \A i \in 0 .. Len(bounds) :
          d.bucket_counts[i] = Len(Placed(i)) +
            IF i = 0 THEN Len(SelectSeq(merged, LAMBDA m : ~m.placed)) ELSE 0
     /\ Sum(StackdriverDistribution(bounds, d).bucket_counts) \in {d.statistics.count, 0}
     /\ prometheus.bucket[NumBuckets(bounds)] =
          [cumulative_count |-> d.statistics.count, upper_bound |-> Infinity]
     /\ \A i \in DOMAIN bounds : (\A m \in ToSet(merged) : m.placed) =>
          prometheus.bucket[i].cumulative_count =
            Len(SelectSeq(merged, LAMBDA m : m.value < prometheus.bucket[i].upper_bound))
=============================================================================
