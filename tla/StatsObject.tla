---------------------------- MODULE StatsObject ----------------------------
(***************************************************************************)
(* StatsObject<N>: what was recorded over the last N intervals, in a ring  *)
(* of N + 1 buckets.  A bucket is the sequence of the values added to it:  *)
(* the sums, extrema and histograms kept in the code are functions of it.  *)
(* Time is counted in ticks; fractions of an interval are ticks of it.     *)
(***************************************************************************)
EXTENDS Integers, Sequences, SequencesExt, FiniteSets, FiniteSetsExt

CONSTANTS
  N,               \* the template parameter
  bucket_interval, \* ticks per bucket
  Width,           \* bits of uint32_t
  Objects,         \* StatsObjects that are merged
  Values,          \* values added, natural numbers
  Times,           \* the times passed
  MaxAdds,         \* bound on the values added
  MaxMerges        \* bound on the Merge calls

VARIABLES
  object, \* the StatsObjects; <<>> before construction
  since,  \* history: when an object was constructed
  added,  \* history: the values added to an object, its own and merged ones,
          \* each with the number of its interval
  adds,    \* history: the number of Add() calls
  merges   \* history: the number of Merge() calls

windowVars == <<object, since, added, adds, merges>>

NumBuckets == N + 1
Constructed == {o \in Objects : object[o] # <<>>}
MaxU32 == 2^Width - 1

\* absl::Floor(now - UnixEpoch(), bucket_interval_)
Floor(now) == now - (now % bucket_interval)

CurBucketStartTime(s) == s.next_bucket_start_time - bucket_interval

\* StatsObject(num_stats, interval, now): the first bucket is filled from now on.
New(now) ==
  [next_bucket_start_time |-> Floor(now) + bucket_interval,
   cur_bucket |-> 0,
   initial_bucket_filled |-> bucket_interval - (now % bucket_interval),
   data |-> [i \in 0 .. N |-> <<>>]]

\* The index of the bucket n intervals before the current one.
NthBucketIndex(s, n) ==
  IF s.cur_bucket - n < 0 THEN s.cur_bucket - n + NumBuckets ELSE s.cur_bucket - n

NthBucket(s, n) == s.data[NthBucketIndex(s, n)]

\* How many intervals now is ahead of the current bucket, saturated.
BucketsAhead(s, now) ==
  IF now < s.next_bucket_start_time THEN 0
  ELSE Min({(now - s.next_bucket_start_time) \div bucket_interval + 1, MaxU32})

\* Mutant: one bucket fewer is emptied.
ShiftClearingTooFew(s, now) ==
  IF now < s.next_bucket_start_time THEN s
  ELSE LET shifts == Min({NumBuckets, BucketsAhead(s, now)}) IN
       [next_bucket_start_time |-> Floor(now) + bucket_interval,
        cur_bucket |-> NthBucketIndex(s, NumBuckets - shifts),
        initial_bucket_filled |->
          IF shifts + s.cur_bucket >= NumBuckets THEN bucket_interval
          ELSE s.initial_bucket_filled,
        data |-> [i \in 0 .. N |->
          IF \E n \in 1 .. shifts - 1 : i = NthBucketIndex(s, NumBuckets - n)
          THEN <<>> ELSE s.data[i]]]

\* Moves the ring on so that now is in the current bucket; the oldest buckets
\* are emptied to be used again.  (If all are, cur_bucket_ stays.)
Shift(s, now) ==
  IF now < s.next_bucket_start_time THEN s
  ELSE LET shifts == Min({NumBuckets, BucketsAhead(s, now)}) IN
       [next_bucket_start_time |-> Floor(now) + bucket_interval,
        cur_bucket |-> NthBucketIndex(s, NumBuckets - shifts),
        initial_bucket_filled |->
          IF shifts + s.cur_bucket >= NumBuckets THEN bucket_interval
          ELSE s.initial_bucket_filled,
        data |-> [i \in 0 .. N |->
          IF \E n \in 1 .. shifts : i = NthBucketIndex(s, NumBuckets - n)
          THEN <<>> ELSE s.data[i]]]

\* Add, AddToDistribution: a time before the current bucket counts as in it.
AddValue(s, v, now) ==
  LET t == Shift(s, now) IN [t EXCEPT !.data[t.cur_bucket] = Append(@, v)]

\* Merge(other) into s.
Merged(s, other) ==
  LET t == Shift(s, CurBucketStartTime(other))
      intervals_ahead == BucketsAhead(other, CurBucketStartTime(t))
  IN IF intervals_ahead >= NumBuckets THEN t
     ELSE [t EXCEPT
       !.initial_bucket_filled = Max({@, other.initial_bucket_filled}),
       !.data = [i \in 0 .. N |->
         LET ns == {n \in 0 .. N - intervals_ahead :
                      i = NthBucketIndex(t, n + intervals_ahead)}
         IN IF ns = {} THEN @[i] ELSE @[i] \o NthBucket(other, CHOOSE n \in ns : TRUE)]]

----------------------------------------------------------------------------
\* The queries.  The oldest bucket counts in part: portion.num / portion.den.

LastBucketPortion(s, now) ==
  LET rest == bucket_interval - (now % bucket_interval) IN
  IF rest >= s.initial_bucket_filled THEN [num |-> 1, den |-> 1]
  ELSE [num |-> rest, den |-> s.initial_bucket_filled]

\* The values that SumInto and DistributionInto take as a whole, and in part.
WholeValues(s, now) ==
  LET ahead == BucketsAhead(s, now) IN
  IF ahead >= NumBuckets THEN <<>>
  ELSE FoldLeftDomain(LAMBDA out, i : out \o NthBucket(s, i - 1), <<>>,
                      [i \in 1 .. N - ahead |-> i])

LastValues(s, now) ==
  LET ahead == BucketsAhead(s, now) IN
  IF ahead >= NumBuckets THEN <<>> ELSE NthBucket(s, N - ahead)

SumOf(values) == FoldLeft(LAMBDA x, y : x + y, 0, values)

\* SumInto, times the denominator of the portion.
ScaledSum(s, now) ==
  LET p == LastBucketPortion(s, now) IN
  p.den * SumOf(WholeValues(s, now)) + p.num * SumOf(LastValues(s, now))

\* RateInto, of an object with num_stats stats of one sum, for val of that size: only
\* as many as there are buckets are divided.  Each is a fraction.
Rates(s, now, num_stats) ==
  LET scaled == [num |-> ScaledSum(s, now), den |-> LastBucketPortion(s, now).den] IN
  [i \in 1 .. num_stats |->
     IF i <= Min({num_stats, NumBuckets})
     THEN [scaled EXCEPT !.den = @ * N * bucket_interval] ELSE scaled]

\* DistributionInto.  The integers are added up bucket by bucket, and the part of the
\* last one is cut off; its extrema count in full.  The mean is a fraction, of 0 / 0
\* while there is no value.  (Extrema and means of merged objects are not modelled.)
Counts(s, now) ==
  LET p == LastBucketPortion(s, now)
      whole == WholeValues(s, now)
      last == LastValues(s, now)
      Count(Test(_)) ==
        Len(SelectSeq(whole, Test)) + (p.num * Len(SelectSeq(last, Test))) \div p.den
      values == ToSet(whole \o last)
  IN [count |-> Count(LAMBDA v : TRUE),
      histogram |-> [x \in Values |-> Count(LAMBDA v : v = x)],
      min |-> IF values = {} THEN "infinity" ELSE Min(values),
      max |-> IF values = {} THEN "-infinity" ELSE Max(values),
      mean |-> [num |-> ScaledSum(s, now), den |-> p.den * Len(whole) + p.num * Len(last)]]

\* IsEmpty: buckets_ahead is converted to an int32_t.
IsEmpty(s, now) ==
  LET ahead == BucketsAhead(s, now)
      signed == IF ahead < 2^(Width - 1) THEN ahead ELSE ahead - 2^Width
  IN \A i \in 0 .. N - signed : SumOf(NthBucket(s, i)) = 0

----------------------------------------------------------------------------
WindowInit ==
  /\ object = [o \in Objects |-> <<>>]
  /\ since = [o \in Objects |-> 0]
  /\ added = [o \in Objects |-> <<>>]
  /\ adds = 0 /\ merges = 0

Construct(o, now) ==
  /\ o \notin Constructed
  /\ object' = [object EXCEPT ![o] = New(now)]
  /\ since' = [since EXCEPT ![o] = now]
  /\ UNCHANGED <<added, adds, merges>>

Add(o, v, now) ==
  /\ o \in Constructed
  /\ adds < MaxAdds
  /\ object' = [object EXCEPT ![o] = AddValue(@, v, now)]
  /\ added' = [added EXCEPT ![o] = Append(@,
       [value |-> v,
        interval |-> Max({now, CurBucketStartTime(object[o])}) \div bucket_interval])]
  /\ adds' = adds + 1
  /\ UNCHANGED <<since, merges>>

Merge(o, other) ==
  /\ o # other /\ {o, other} \subseteq Constructed /\ merges < MaxMerges
  /\ object' = [object EXCEPT ![o] = Merged(@, object[other])]
  /\ added' = [added EXCEPT ![o] = @ \o added[other]]
  /\ merges' = merges + 1
  /\ UNCHANGED <<since, adds>>

WindowNext ==
  \/ \E o \in Objects, now \in Times : Construct(o, now)
  \/ \E o \in Objects, v \in Values, now \in Times : Add(o, v, now)
  \/ \E o, other \in Objects : Merge(o, other)

----------------------------------------------------------------------------
\* What was added in an interval, and in the intervals from a to b.
ValuesOf(o, interval) ==
  SumOf([i \in DOMAIN added[o] |->
           IF added[o][i].interval = interval THEN added[o][i].value ELSE 0])

SumFrom(o, a, b) == SumOf([i \in 1 .. (b - a) + 1 |-> ValuesOf(o, a + i - 1)])

CurInterval(o) == CurBucketStartTime(object[o]) \div bucket_interval

\* The sum is of all that was added in the last N intervals and of a part of what was
\* added in the one before.  Without merges, and until the object is left behind, the
\* part is the share of that interval, or of what the object has seen of it, that lies
\* less than N intervals back; else no less than the share of the interval.
SumsExact(o, now) ==
  LET s == object[o]
      last == (now \div bucket_interval) - N
      whole == SumFrom(o, last + 1, CurInterval(o))
      part == ValuesOf(o, last)
      rest == bucket_interval - (now % bucket_interval)
      covered == IF last = since[o] \div bucket_interval
                 THEN bucket_interval - (since[o] % bucket_interval)
                 ELSE bucket_interval
      den == LastBucketPortion(s, now).den
  IN /\ ScaledSum(s, now) \in den * whole .. den * (whole + part)
     /\ ScaledSum(s, now) * bucket_interval >= den * (bucket_interval * whole + rest * part)
     /\ merges = 0 /\ BucketsAhead(s, now) = 0 =>
          ScaledSum(s, now) * covered = den * (covered * whole + Min({rest, covered}) * part)

\* A histogram never counts more than the count it belongs to, and all that was added in
\* the last N intervals; the extrema are those of what was added in these or in the one
\* before, and the mean is between them.
CountsAgree(o, now) ==
  LET s == object[o]
      counts == Counts(s, now)
      histogram == FoldSet(LAMBDA v, n : n + counts.histogram[v], 0, Values)
      last == (now \div bucket_interval) - N
      Since(interval) == SelectSeq(added[o], LAMBDA a : a.interval >= interval)
      window == {a.value : a \in ToSet(Since(last))}
  IN /\ Len(Since(last + 1)) <= histogram /\ histogram <= counts.count
     /\ counts.count <= Len(Since(last))
     /\ merges = 0 =>
          IF window = {} THEN counts.mean.den = 0 /\ counts.min = "infinity"
          ELSE /\ {counts.min, counts.max} \subseteq window
               /\ \A v \in window : counts.min <= v /\ v <= counts.max
               /\ counts.min * counts.mean.den <= counts.mean.num
               /\ counts.mean.num <= counts.max * counts.mean.den

\* "Gets the sum of each stat divided by total_interval()", of no more stats than buckets.
RatesAgree(s, now) ==
  \A i \in 1 .. NumBuckets :
    LET rate == Rates(s, now, NumBuckets)[i] IN
    rate.num * LastBucketPortion(s, now).den * N * bucket_interval
      = rate.den * ScaledSum(s, now)

\* "keeps statistics over a sliding window": at any time from its current bucket on,
\* after any sequence of additions, late ones too, shifts and merges, an object sums
\* up the window that ends then; and unless it is left behind by half of all uint32_t
\* intervals it is empty when the sum of its positive values is zero.
WindowSums ==
  \A o \in Constructed : \A now \in Times :
    now >= CurBucketStartTime(object[o]) =>
      /\ SumsExact(o, now)
      /\ CountsAgree(o, now)
      /\ RatesAgree(object[o], now)
      /\ BucketsAhead(object[o], now) < 2^(Width - 1) =>
           (IsEmpty(object[o], now) <=> ScaledSum(object[o], now) = 0)
=============================================================================
