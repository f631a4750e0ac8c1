-------------------------- MODULE BucketBoundaries --------------------------
(***************************************************************************)
(* The buckets of a histogram, as the sequence of the lower bounds of all  *)
(* of them but the first.                                                  *)
(***************************************************************************)
EXTENDS Integers, Sequences, FiniteSets

Linear(num_finite_buckets, offset, width) ==
  [i \in 1 .. num_finite_buckets + 1 |-> offset + (i - 1) * width]

Exponential(num_finite_buckets, scale, growth_factor) ==
  [i \in 1 .. num_finite_buckets + 1 |->
     IF i = 1 THEN 0 ELSE scale * growth_factor^(i - 2)]

Explicit(bounds) ==
  IF \A i \in 1 .. Len(bounds) - 1 : bounds[i] <= bounds[i + 1] THEN bounds ELSE <<>>

NumBuckets(bounds) == Len(bounds) + 1

\* The index of a value's bucket, from 0: upper_bound.
BucketForValue(bounds, value) == Cardinality({i \in DOMAIN bounds : bounds[i] <= value})

Histogram(bounds) == [i \in 0 .. Len(bounds) |-> 0]
=============================================================================
