------------------------------- MODULE Delta -------------------------------
(***************************************************************************)
(* The values that stats/internal passes from Record() to the views:       *)
(* MeasureData (measure_data.h) and Delta (delta_producer.h).  Pure         *)
(* operators; StatsPipeline gives them threads and locks.                  *)
(*                                                                         *)
(* A recorded value is named by the position of its Record() call in the   *)
(* order of all calls, a number in Nat \ {0}.  A MeasureData keeps the      *)
(* count, the last value and statistics of everything added; the           *)
(* statistics (mean, deviation, min, max, histograms) are a function of the *)
(* values added and of their count, and are abstracted to those.           *)
(*                                                                         *)
(* Measure index i of the code is i + 1 here.                              *)
(***************************************************************************)
EXTENDS Naturals, Sequences

\* A MeasureData with nothing added: measure_data.h's member initialisers.
NoData == [count |-> 0, values |-> {}, last |-> 0]

\* MeasureData::Add.
Add(data, value) ==
  [count |-> data.count + 1, values |-> data.values \cup {value}, last |-> value]

\* Mutant: the last value is the view's.
CombineKeepingLast(total, data) ==
  [count  |-> total.count + data.count,
   values |-> total.values \cup data.values,
   last   |-> total.last]

\* Adding `data` to the totals kept by a view: the counts add up, the
\* statistics combine, and the last value is that of `data`.
Combine(total, data) ==
  [count  |-> total.count + data.count,
   values |-> total.values \cup data.values,
   last   |-> data.last]

----------------------------------------------------------------------------
\* A Delta: the bucket boundaries of each measure when it was started (a
\* MeasureData's boundaries_ is a span of these), and a row of MeasureData,
\* one per measure, for every tag set recorded under.
EmptyDelta == [registered_boundaries |-> <<>>, rows |-> [tags \in {} |-> <<>>]]

\* The row of a tag set: the existing one, or a new one with one empty
\* MeasureData per registered measure.
RowFor(delta, tags) ==
  IF tags \in DOMAIN delta.rows
  THEN delta.rows[tags]
  ELSE [i \in 1 .. Len(delta.registered_boundaries) |-> NoData]

\* Delta::Record, for a list of measurements whose ids have these indexes.
DeltaRecord(delta, value, indexes, tags) ==
  LET row == RowFor(delta, tags) IN
  [registered_boundaries |-> delta.registered_boundaries,
   rows |-> [other \in DOMAIN delta.rows \cup {tags} |->
               IF other = tags
               THEN [i \in DOMAIN row |->
                       IF i \in indexes THEN Add(row[i], value) ELSE row[i]]
               ELSE delta.rows[other]]]

\* Every measurement of the list has a MeasureData in its row (the vector
\* access row[index], and ABSL_ASSERT(index < registered_boundaries_.size())).
RecordInRange(delta, indexes, tags) ==
  /\ indexes \subseteq 1 .. Len(delta.registered_boundaries)
  /\ indexes \subseteq DOMAIN RowFor(delta, tags)

\* Delta::SwapAndReset leaves in *this an empty delta with the current
\* boundaries, and in *other what *this held.
ResetDelta(registered_boundaries) ==
  [registered_boundaries |-> registered_boundaries, rows |-> EmptyDelta.rows]
============================================================================
