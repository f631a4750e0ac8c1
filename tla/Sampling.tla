------------------------------ MODULE Sampling ------------------------------
(***************************************************************************)
(* The decision to sample a span: from its parent, or with a sampler.      *)
(* Spans of a trace may start in several processes, each with current      *)
(* TraceParams of its own, which the program may change at any time.       *)
(*                                                                         *)
(* The threshold of a ProbabilitySampler is computed in doubles, in two    *)
(* halves of 32 bits.  A double is its numerator over Denominator, a power *)
(* of two so large (2^1074) that all doubles are whole numbers of it.      *)
(***************************************************************************)
EXTENDS Integers, FiniteSets

CONSTANTS
  HalfRange,   \* 2^32: how many values half of a threshold has
  Denominator, \* of doubles
  Significands, \* 2^53: how many values the significand of a double has
  Ulps,        \* units in the last place: the powers of two from 1 on
  Numerators,  \* of the probabilities set
  Processes,
  TraceIds,    \* the first 8 bytes of trace ids, as numbers
  SpanNames,   \* spans that are started
  NoParent,
  MaxSets      \* bound on the changes of the parameters

ASSUME SamplingAssumption ==
  /\ HalfRange \in Nat /\ HalfRange >= 4
  /\ Significands \in Nat /\ Significands >= 4 * HalfRange
  /\ Denominator \in Nat /\ Denominator > 0 /\ Numerators \subseteq Int
  /\ TraceIds \subseteq 0 .. HalfRange * HalfRange - 1
  /\ NoParent \notin SpanNames

\* x is a significand of full length in the unit u, or u is the least unit.
IsUlp(u, x) == x < Significands * u /\ (u = 1 \/ Significands * u <= 2 * x)

\* Each unit is at least twice the one before; one of them is that of the doubles just
\* below 1; and there is one for each number that a threshold is made from.
ASSUME UlpAssumption ==
  /\ Ulps \subseteq Nat \ {0} /\ \A u, v \in Ulps : u < v => 2 * u <= v
  /\ \E u \in Ulps : Denominator = Significands * u
  /\ \A x \in 0 .. 2 * HalfRange * Denominator : \E u \in Ulps : IsUlp(u, x)

VARIABLES
  probability, \* the sampler of each process's current TraceParams
  started_,    \* the SpanContexts of the spans, and with which parent and
               \* which probabilities they were decided (history)
  sets         \* history: the number of changes

samplingVars == <<probability, started_, sets>>

UINT64_MAX == HalfRange * HalfRange - 1
UINT32_MAX == HalfRange - 1

\* The double nearest to x, of two the one with an even significand.
Round(x) ==
  LET ulp == CHOOSE u \in Ulps : IsUlp(u, x)
      significand == x \div ulp
      rest == x % ulp
      down == 2 * rest < ulp \/ (2 * rest = ulp /\ significand % 2 = 0)
  IN ulp * (IF down THEN significand ELSE significand + 1)

\* CalculateThreshold(numerator / Denominator): the integral part of the product is the
\* high half; the low half is made from the rest and from the product again, and may
\* carry.  The product and the sum are rounded; modf and ldexp are exact.
CalculateThreshold(numerator) ==
  LET product == Round(UINT32_MAX * numerator)
      hi_bits == product \div Denominator
      lo_bits == Round((product % Denominator) * HalfRange + product) \div Denominator
  IN IF numerator <= 0 THEN 0
     ELSE IF numerator >= Denominator THEN UINT64_MAX
     ELSE (hi_bits * HalfRange + lo_bits) % (UINT64_MAX + 1)

\* ProbabilitySampler: id is the first 8 bytes of the trace id.
ShouldSample(threshold, id) == threshold # 0 /\ id <= threshold

----------------------------------------------------------------------------
\* Mutant: the parent's decision is not looked at if the span has a sampler.
DecideAgain(parent, id, sampler) == ShouldSample(CalculateThreshold(sampler), id)

\* SpanGenerator::Generate: a span whose parent is not sampled is decided again.
\* sampler: the numerator of the span's own sampler, or of the current one.
Decide(parent, id, sampler) ==
  \/ parent # NoParent /\ started_[parent].sampled
  \/ ShouldSample(CalculateThreshold(sampler), id)

StartSpan(span, parent, id, sampler) ==
  /\ span \notin DOMAIN started_
  /\ started_' = [s \in DOMAIN started_ \cup {span} |->
       IF s \in DOMAIN started_ THEN started_[s]
       ELSE [parent |-> parent, id |-> id, sampler |-> sampler,
             sampled |-> Decide(parent, id, sampler)]]
  /\ UNCHANGED <<probability, sets>>

SamplingInit ==
  /\ probability \in [Processes -> Numerators]
  /\ started_ = <<>>
  /\ sets = 0

SetCurrentTraceParams(p, numerator) ==
  /\ sets < MaxSets
  /\ probability' = [probability EXCEPT ![p] = numerator]
  /\ sets' = sets + 1
  /\ UNCHANGED started_

\* A new trace, a child in the same process, or with a remote parent: with the
\* sampler of the process, AlwaysSampler or NeverSampler.
SamplingNext ==
  \/ \E p \in Processes, numerator \in Numerators : SetCurrentTraceParams(p, numerator)
  \/ \E span \in SpanNames, p \in Processes : \E sampler \in {probability[p], 0, Denominator} :
       \/ \E id \in TraceIds : StartSpan(span, NoParent, id, sampler)
       \/ \E parent \in DOMAIN started_ :
            StartSpan(span, parent, started_[parent].id, sampler)

SamplingSpec == SamplingInit /\ [][SamplingNext]_samplingVars

----------------------------------------------------------------------------
\* A span and all that it descends from: what is in every set of spans that it is in
\* and that has the parents of its spans.
WithParents(spans) == \A s \in spans : started_[s].parent \in spans \cup {NoParent}

Ancestry(span) ==
  {s \in DOMAIN started_ :
     \A spans \in SUBSET DOMAIN started_ : span \in spans /\ WithParents(spans) => s \in spans}

\* Of every probability that is a double, the number of ids that its threshold lets
\* through is its share of all of them, up to one part in Significands and two ids: no
\* carry and no wrap to zero makes it another.  0 lets none through, and 1 all.
SharesExact ==
  \A numerator \in {n \in 0 .. Denominator : Round(n) = n} :
    LET share == Denominator * Cardinality({id \in 0 .. UINT64_MAX :
                   ShouldSample(CalculateThreshold(numerator), id)})
        exact == numerator * (UINT64_MAX + 1)
        allowed == exact + 2 * Significands * Denominator
    IN /\ numerator \in {0, Denominator} => share = exact
       /\ Significands * (share - exact) <= allowed
       /\ Significands * (exact - share) <= allowed

\* "full trees of Spans will be sampled": whatever becomes of the parameters, under a
\* span that is sampled all spans are, in every process, and one that is not has only
\* been refused; with one probability the whole trace is decided as its root is.  The
\* share of the ids that are sampled is the probability, as near as doubles compute it.
SamplingConsistent ==
  /\ \A span \in DOMAIN started_ :
       LET samplers == {started_[s].sampler : s \in Ancestry(span)}
           sampled == started_[span].sampled IN
       /\ sampled <=> \E s \in Ancestry(span) :
                        ShouldSample(CalculateThreshold(started_[s].sampler), started_[span].id)
       /\ samplers = {0} => ~sampled
       /\ Denominator \in samplers => sampled
       /\ \A sampler \in samplers : samplers = {sampler} =>
            \A s \in Ancestry(span) : started_[s].sampled = sampled
  /\ SharesExact
=============================================================================
