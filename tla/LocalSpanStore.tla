--------------------------- MODULE LocalSpanStore ---------------------------
(***************************************************************************)
(* LocalSpanStoreImpl: the newest spans that have ended, the newest first. *)
(* Each method holds the store's mutex for its whole body, so each is one  *)
(* step or one function of the state.                                      *)
(***************************************************************************)
EXTENDS Integers, Sequences, SequencesExt, FiniteSets

CONSTANTS
  kMaxSpans,  \* how many spans are kept (128), at least one
  Names,      \* span names
  AnyName,    \* the empty string in a filter
  Codes,      \* canonical status codes
  Latencies,  \* latencies of spans, in microseconds: negative if the clock went back
  Uint64Range, \* 2^64
  Maxima,     \* the max_spans_to_return of the filters tried
  FilterLimits, \* their lower_latency_ns and upper_latency_ns, any uint64_t
  MaxAdded    \* bound on the spans added

\* Latencies are differences of two times: half of a uint64_t is enough for them.
ASSUME StoreAssumption ==
  /\ kMaxSpans \in Nat \ {0} /\ Maxima \subseteq Int
  /\ Latencies \subseteq Int /\ Uint64Range \in Nat
  /\ FilterLimits \subseteq 0 .. Uint64Range - 1
  /\ \A latency \in Latencies : 2 * latency < Uint64Range /\ -2 * latency <= Uint64Range

\* What the store's methods look at in a SpanData, and a number to tell it by.
SpanData == [id : Nat, name : Names, code : Codes, latency : Latencies]

VARIABLES spans_, stored \* stored: history, all spans in the order of AddSpan

storeVars == <<spans_, stored>>

StoreInit == spans_ = <<>> /\ stored = <<>>

\* Mutant: room is made at the front, where the newest span is.
PushEvictingNewest(spans, data) ==
  <<data>> \o (IF Len(spans) >= kMaxSpans THEN Tail(spans) ELSE spans)

\* pop_back to make room, and emplace_front.
Push(spans, data) ==
  <<data>> \o (IF Len(spans) >= kMaxSpans THEN Front(spans) ELSE spans)

AddSpan(data) ==
  /\ Len(stored) < MaxAdded
  /\ spans_' = Push(spans_, data)
  /\ stored' = Append(stored, data)

ClearForTesting == spans_' = <<>> /\ stored' = <<>>

StoreNext ==
  \/ \E name \in Names, code \in Codes, latency \in Latencies :
       AddSpan([id |-> Len(stored) + 1, name |-> name, code |-> code,
                latency |-> latency])
  \/ ClearForTesting

StoreSpec == StoreInit /\ [][StoreNext]_storeVars

----------------------------------------------------------------------------
\* The queries.

\* The upper ends, in microseconds, of all latency buckets but the last.
BucketEnds == <<10, 100, 1000, 10000, 100000, 1000000, 10000000, 100000000>>

\* The LatencyBucketBoundary of a latency, counted from 1.
GetLatencyBucketBoundary(latency) ==
  Cardinality({i \in DOMAIN BucketEnds : BucketEnds[i] <= latency}) + 1

\* MapIncrement
Increment(map, k) ==
  [x \in DOMAIN map \cup {k} |->
     IF x = k THEN (IF x \in DOMAIN map THEN map[x] + 1 ELSE 1) ELSE map[x]]

EmptyMap == [x \in {} |-> 0]

\* GetPerSpanNameSummary: the counts of a name, which may be new.
GetPerSpanNameSummary(span_name, summary) ==
  IF span_name \in DOMAIN summary THEN summary[span_name]
  ELSE [latency |-> EmptyMap, error |-> EmptyMap]

\* GetSummary: for each name, counts by latency bucket and by status code.
AddToSummary(summary, span) ==
  LET curr == GetPerSpanNameSummary(span.name, summary)
      new == [latency |-> Increment(curr.latency, GetLatencyBucketBoundary(span.latency)),
              error |-> Increment(curr.error, span.code)]
  IN [n \in DOMAIN summary \cup {span.name} |->
        IF n = span.name THEN new ELSE summary[n]]

GetSummary == FoldLeft(AddToSummary, EmptyMap, spans_)

\* The loop of the queries: a span that matches is copied, and the loop is left when
\* there are as many as asked for.  (A negative max becomes a huge size_t.)
Visit(loop, next) ==
  LET out == IF next.matches THEN Append(loop.out, next.span) ELSE loop.out
  IN IF loop.left THEN loop
     ELSE [loop EXCEPT !.out = out, !.left = loop.max >= 0 /\ Len(out) >= loop.max]

FirstOf(max, matching) ==
  FoldLeft(Visit, [max |-> max, out |-> <<>>, left |-> FALSE],
           [i \in DOMAIN spans_ |-> [span |-> spans_[i], matches |-> i \in matching]]).out

NameMatches(filter, span) == filter.span_name \in {AnyName, span.name}

\* latency_ns is unsigned: of a negative latency it is a huge number.
GetLatencySampledSpans(filter) ==
  FirstOf(filter.max, {i \in DOMAIN spans_ :
    LET latency == spans_[i].latency
        latency_ns == IF latency < 0 THEN latency + Uint64Range ELSE latency IN
    /\ NameMatches(filter, spans_[i])
    /\ filter.lower <= latency_ns /\ latency_ns < filter.upper})

\* filter.all_errors is not looked at.
GetErrorSampledSpans(filter) ==
  FirstOf(filter.max, {i \in DOMAIN spans_ :
    NameMatches(filter, spans_[i]) /\ filter.code = spans_[i].code})

\* GetSpans: all of them.
GetSpans == spans_

----------------------------------------------------------------------------
\* "The LocalSpanStore has a bounded size and evicts Spans when needed": it keeps
\* the last kMaxSpans spans that were added, the newest first.
NewestKept ==
  GetSpans = Reverse(SubSeq(stored, Len(stored) - Len(spans_) + 1, Len(stored)))
  /\ Len(spans_) = IF Len(stored) < kMaxSpans THEN Len(stored) ELSE kMaxSpans

\* The half-open range of bucket i: "Ranges are half-open, e.g. [0..10us)".
InBucket(latency, i) ==
  /\ i > 1 => BucketEnds[i - 1] <= latency
  /\ i <= Len(BucketEnds) => latency < BucketEnds[i]

Count(Test(_)) == Cardinality({i \in DOMAIN spans_ : Test(spans_[i])})

\* The summary counts every span once by its latency and once by its code, under
\* its name, and has no empty counts.  The status makes no difference: spans with an error
\* are in the counts by latency, which are documented to be of successful spans, and
\* successful spans in the "error" counts, as OK.
SummaryCounts ==
  /\ DOMAIN GetSummary = {spans_[i].name : i \in DOMAIN spans_}
  /\ \A name \in DOMAIN GetSummary :
       LET s == GetSummary[name]
           CountOf(map, k) == IF k \in DOMAIN map THEN map[k] ELSE 0 IN
       /\ \A i \in 1 .. Len(BucketEnds) + 1 :
            CountOf(s.latency, i) =
              Count(LAMBDA span : span.name = name /\ InBucket(span.latency, i))
       /\ \A code \in Codes :
            CountOf(s.error, code) =
              Count(LAMBDA span : span.name = name /\ span.code = code)
       /\ \A k \in DOMAIN s.latency : s.latency[k] > 0
       /\ \A k \in DOMAIN s.error : s.error[k] > 0

----------------------------------------------------------------------------
LatencyFilters ==
  [span_name : Names \cup {AnyName}, max : Maxima, lower : FilterLimits, upper : FilterLimits]
ErrorFilters ==
  [span_name : Names \cup {AnyName}, max : Maxima, code : Codes]

\* The n-th of the spans at the positions given is the n-th of the answer.
AreFirst(answer, max, positions) ==
  /\ Len(answer) = IF Cardinality(positions) < max THEN Cardinality(positions) ELSE max
  /\ \A i \in positions :
       LET n == Cardinality({j \in positions : j <= i}) IN
       n <= max => answer[n] = spans_[i]

\* The latency is "in the half-open interval".  A negative one is in none, and is found in
\* none unless the upper limit is above 2^63, where the code finds it as what it is
\* unsigned, against that documentation.
InInterval(filter, latency) ==
  \/ filter.lower <= latency /\ latency < filter.upper
  \/ /\ latency < 0 /\ 2 * filter.upper > Uint64Range
     /\ filter.lower <= latency + Uint64Range /\ latency + Uint64Range < filter.upper

\* Asked for at least one span, a query returns the newest spans that match its
\* filter, no more than it was asked for.
QueriesAnswered ==
  /\ \A f \in LatencyFilters : f.max > 0 =>
       AreFirst(GetLatencySampledSpans(f), f.max, {i \in DOMAIN spans_ :
         NameMatches(f, spans_[i]) /\ InInterval(f, spans_[i].latency)})
  /\ \A f \in ErrorFilters : f.max > 0 =>
       AreFirst(GetErrorSampledSpans(f), f.max, {i \in DOMAIN spans_ :
         NameMatches(f, spans_[i]) /\ spans_[i].code = f.code})

\* A full store keeps the newest spans, and its summary and queries are about them.
StoreAnswers == NewestKept /\ SummaryCounts /\ QueriesAnswered
=============================================================================
