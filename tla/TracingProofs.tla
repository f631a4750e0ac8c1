--------------------------- MODULE TracingProofs ---------------------------
(***************************************************************************)
(* Theorems about Tracing: what is proved of Spans and of SpanExporter     *)
(* holds of the two together, and with it what they promise together.      *)
(***************************************************************************)
EXTENDS Tracing, SpansProofs

Exporting == INSTANCE SpanExporterProofs WITH
  Threads <- Initializers, Testers <- {}, Spans <- SpanIds, pc <- exporter_pc

----------------------------------------------------------------------------
\* The parts.

\* The assumptions of SpanExporter.
LEMMA ExporterAssumptions ==
  /\ Worker \notin Initializers /\ {} \subseteq Initializers
  /\ Free \notin Initializers \cup {Worker}
  /\ Exporting!IsFiniteSet(SpanIds) /\ BatchSizes \subseteq Int /\ Intervals \subseteq Int
  BY TracingAssumption DEF IsFiniteSet, Exporting!IsFiniteSet

\* The exporter the proofs are about is the one that Tracing composes.
LEMMA SameInit == Exporter!Init <=> Exporting!Init
  BY DEF Exporter!Init, Exporting!Init, Exporter!AllThreads, Exporting!AllThreads

LEMMA SameNext == [Exporter!Next]_Exporter!vars <=> [Exporting!Next]_Exporting!vars
  BY DEF
    Exporter!Next, Exporting!Next, Exporter!Internal, Exporting!Internal,
    Exporter!Call, Exporting!Call, Exporter!Continue, Exporting!Continue,
    Exporter!RunWorkerLoop, Exporting!RunWorkerLoop, Exporter!Export, Exporting!Export,
    Exporter!SetBatchSize, Exporting!SetBatchSize, Exporter!SetInterval,
    Exporting!SetInterval, Exporter!RegisterHandler, Exporting!RegisterHandler,
    Exporter!StartCollecting, Exporting!StartCollecting, Exporter!AddSpan,
    Exporting!AddSpan, Exporter!StartBatch, Exporting!StartBatch, Exporter!EnterWait,
    Exporting!EnterWait, Exporter!Tick, Exporting!Tick, Exporter!WakeWithNothing,
    Exporting!WakeWithNothing, Exporter!WakeWithSpans, Exporting!WakeWithSpans,
    Exporter!WakeWith, Exporting!WakeWith, Exporter!TakeSpans, Exporting!TakeSpans,
    Exporter!ExportForTesting, Exporting!ExportForTesting, Exporter!LockHandlers,
    Exporting!LockHandlers, Exporter!CallHandler, Exporting!CallHandler,
    Exporter!ExportDone, Exporting!ExportDone, Exporter!IsBatchFull,
    Exporting!IsBatchFull, Exporter!AtLeastOne, Exporting!AtLeastOne, Exporter!Goto,
    Exporting!Goto, Exporter!Range, Exporting!Range, Exporter!AllThreads,
    Exporting!AllThreads, Exporter!settings, Exporting!settings, Exporter!spanVars,
    Exporting!spanVars, Exporter!registry, Exporting!registry, Exporter!worker,
    Exporting!worker, Exporter!calls, Exporting!calls, Exporter!vars, Exporting!vars

\* A step of the whole is a step of Spans, and one of SpanExporter, or leaves it alone.
LEMMA StepOfSpans == [TracingNext]_TracingVars => [Next]_vars
  BY DEF TracingNext, TracingVars, HandOver, Next

LEMMA StepOfExporter ==
  ASSUME SpansInv, [TracingNext]_TracingVars PROVE [Exporting!Next]_Exporting!vars
<1>1. ASSUME NEW t \in Threads, HandOver(t)
      PROVE  Exporter!Next
  <2>1. span[t] \in SpanIds
    BY <1>1 DEF HandOver, HandToExporter, Goto, SpansInv, Owned, Exists, Ending
  <2> QED
    BY <1>1, <2>1 DEF HandOver, Exporter!Next
<1>2. ASSUME Exporter!Internal
      PROVE  Exporter!Next
  BY <1>2 DEF Exporter!Next
<1>3. ASSUME UNCHANGED exporterVars
      PROVE  UNCHANGED Exporter!vars
  BY <1>3 DEF exporterVars, Exporter!vars, Exporter!settings, Exporter!spanVars,
    Exporter!registry, Exporter!worker, Exporter!calls
<1>4. [Exporter!Next]_Exporter!vars
  BY <1>1, <1>2, <1>3 DEF TracingNext, TracingVars
<1> QED
  BY <1>4, SameNext

\* What is proved of the parts holds of the whole.
PartsInv ==
  /\ SpansInv
  /\ Exporting!ExporterInv /\ Exporting!OnePlace /\ Exporting!InOrder /\ Exporting!OnlyEnded

LEMMA PartsInit == TracingInit => PartsInv
<1> SUFFICES ASSUME TracingInit PROVE PartsInv
  OBVIOUS
<1>1. Init /\ Exporting!Init
  BY SameInit DEF TracingInit
<1>2. Exporting!ExporterInv
  BY <1>1, ExporterAssumptions, Exporting!ExporterInit
<1>3. Exporting!OnePlace
  BY <1>1, ExporterAssumptions, Exporting!OnePlaceInit
<1>4. Exporting!InOrder
  BY <1>1, ExporterAssumptions, Exporting!InOrderInit
<1>5. Exporting!OnlyEnded
  BY <1>1, ExporterAssumptions, Exporting!OnlyEndedInit
<1> QED
  BY <1>1, <1>2, <1>3, <1>4, <1>5, SpansInit DEF PartsInv

LEMMA PartsStep == PartsInv /\ [TracingNext]_TracingVars => PartsInv'
<1> SUFFICES ASSUME PartsInv, [TracingNext]_TracingVars PROVE PartsInv'
  OBVIOUS
<1>1. /\ SpansInv /\ Exporting!ExporterInv /\ Exporting!OnePlace /\ Exporting!InOrder
      /\ Exporting!OnlyEnded
  BY DEF PartsInv
<1>2. [Exporting!Next]_Exporting!vars
  BY <1>1, StepOfExporter
<1>3. SpansInv'
  BY <1>1, StepOfSpans, SpansStep
<1>4. Exporting!ExporterInv'
  BY <1>1, <1>2, ExporterAssumptions, Exporting!ExporterStep
<1>5. Exporting!OnePlace'
  BY <1>1, <1>2, ExporterAssumptions, Exporting!OnePlaceStep
<1>6. Exporting!InOrder'
  BY <1>1, <1>2, ExporterAssumptions, Exporting!InOrderStep
<1>7. Exporting!OnlyEnded'
  BY <1>1, <1>2, ExporterAssumptions, Exporting!OnlyEndedStep
<1> QED
  BY <1>3, <1>4, <1>5, <1>6, <1>7 DEF PartsInv

\* The invariants of Spans and of SpanExporter are invariants of the two composed: the
\* threads that end spans and the worker that exports them do not disturb each other.
THEOREM PartsInvariant == TracingSpec => []PartsInv
  BY PartsInit, PartsStep, PTL DEF TracingSpec

----------------------------------------------------------------------------
\* The way of a span.

\* What Span::End has handed over is what AddSpan was called with; it is collected from
\* some call on.
Joined ==
  /\ ended = Range(handed)
  /\ IsSuffix(collected, handed)
  /\ collect_spans_ \in BOOLEAN /\ (collect_spans_ \/ collected = <<>>)

\* An element appended to both keeps a suffix one; the empty sequence always is.
LEMMA SuffixAppend ==
  ASSUME NEW S, NEW s \in Seq(S), NEW t \in Seq(S), NEW e \in S, IsSuffix(s, t)
  PROVE  IsSuffix(Append(s, e), Append(t, e))
<1>1. /\ Len(s) <= Len(t) /\ \A i \in 1 .. Len(s) : s[i] = t[Len(t) - Len(s) + i]
  BY SuffixDef
<1> DEFINE v == Append(s, e)  w == Append(t, e)
<1>2. /\ v \in Seq(S) /\ w \in Seq(S) /\ Len(v) = Len(s) + 1 /\ Len(w) = Len(t) + 1
      /\ \A i \in 1 .. Len(s) : v[i] = s[i]
      /\ \A i \in 1 .. Len(t) : w[i] = t[i]
      /\ v[Len(s) + 1] = e /\ w[Len(t) + 1] = e
  OBVIOUS
<1> HIDE DEF v, w
<1>3. ASSUME NEW i \in 1 .. Len(v)
      PROVE  v[i] = w[Len(w) - Len(v) + i]
  <2>1. CASE i = Len(s) + 1
    BY <1>2, <2>1
  <2>2. CASE i \in 1 .. Len(s)
    <3>1. Len(w) - Len(v) + i = Len(t) - Len(s) + i /\ Len(t) - Len(s) + i \in 1 .. Len(t)
      BY <1>1, <1>2, <2>2
    <3> QED
      BY <1>1, <1>2, <2>2, <3>1
  <2> QED
    BY <1>2, <2>1, <2>2
<1>4. /\ v \in Seq(S) /\ w \in Seq(S) /\ Len(v) <= Len(w)
      /\ \A i \in 1 .. Len(v) : v[i] = w[Len(w) - Len(v) + i]
  BY <1>1, <1>2, <1>3
<1>5. IsSuffix(v, w)
  BY <1>4, SuffixDef
<1> QED
  BY <1>5 DEF v, w

LEMMA EmptySuffix == ASSUME NEW S, NEW t \in Seq(S) PROVE IsSuffix(<<>>, t)
<1> DEFINE none == SubSeq(t, 1, 0)
<1>1. none = <<>> /\ none \in Seq(S) /\ Len(none) = 0 /\ Len(t) \in Nat
  OBVIOUS
<1> HIDE DEF none
<1>2. \A s \in Seq(S) : Len(s) <= Len(t) /\ (\A i \in 1 .. Len(s) : s[i] = t[Len(t) - Len(s) + i])
        => IsSuffix(s, t)
  BY SuffixDef
<1>3. /\ Len(none) <= Len(t)
      /\ \A i \in 1 .. Len(none) : none[i] = t[Len(t) - Len(none) + i]
  BY <1>1
<1>4. IsSuffix(none, t)
  BY <1>1, <1>2, <1>3
<1> QED
  BY <1>1, <1>4

\* At the start there is nothing.
LEMMA JoinedInit == TracingInit => Joined
<1> SUFFICES ASSUME TracingInit PROVE Joined
  OBVIOUS
<1>1. ended = {} /\ collected = <<>> /\ collect_spans_ = FALSE /\ handed = <<>>
  BY DEF TracingInit, Init, Exporter!Init
<1>2. IsSuffix(<<>>, handed)
  <2>1. handed \in Seq(SpanIds)
    BY <1>1
  <2> QED
    BY <2>1, EmptySuffix
<1>3. Range(handed) = {}
  BY <1>1 DEF Range
<1> QED
  BY <1>1, <1>2, <1>3 DEF Joined

\* The hand-over is one step, in which the span is appended to both or, when no handler
\* is there, to neither of collected and spans_.
LEMMA JoinedStep == PartsInv /\ Joined /\ [TracingNext]_TracingVars => Joined'
<1> SUFFICES ASSUME PartsInv, Joined, [TracingNext]_TracingVars PROVE Joined'
  OBVIOUS
<1>1. handed \in Seq(SpanIds) /\ collected \in Seq(SpanIds)
  BY DEF PartsInv, SpansInv, Filed, Exporting!ExporterInv, Exporting!Batches
<1>2. ASSUME NEW t \in Threads, HandOver(t)
      PROVE  Joined'
  <2> DEFINE s == span[t]
  <2>1. s \in SpanIds
    BY <1>2 DEF HandOver, HandToExporter, Goto, PartsInv, SpansInv, Owned, Exists, Ending
  <2>2. /\ handed' = Append(handed, s) /\ ended' = ended \cup {s}
        /\ collected' = IF collect_spans_ THEN Append(collected, s) ELSE collected
        /\ collect_spans_' = collect_spans_
    BY <1>2 DEF HandOver, HandToExporter, Exporter!AddSpan
  <2> HIDE DEF s
  <2>3. Range(handed') = Range(handed) \cup {s} /\ handed' \in Seq(SpanIds)
    BY <1>1, <2>1, <2>2, AppendRange
  <2>4. IsSuffix(collected', handed')
    <3>1. CASE collect_spans_
      BY <1>1, <2>1, <2>2, <3>1, SuffixAppend DEF Joined
    <3>2. CASE ~ collect_spans_
      BY <2>2, <2>3, <3>2, EmptySuffix DEF Joined
    <3> QED
      BY <3>1, <3>2
  <2> QED
    BY <2>2, <2>3, <2>4 DEF Joined
<1>3. ASSUME UNCHANGED <<ended, collected, handed>>,
             collect_spans_' = collect_spans_ \/ collect_spans_' = TRUE
      PROVE  Joined'
  BY <1>3 DEF Joined
<1>4. ASSUME Exporter!Internal, UNCHANGED vars
      PROVE  Joined'
  <2>1. UNCHANGED <<ended, collected>> /\ (collect_spans_' = collect_spans_ \/ collect_spans_' = TRUE)
    BY <1>4 DEF Exporter!Internal, Exporter!Call, Exporter!Continue, Exporter!RunWorkerLoop,
      Exporter!Export, Exporter!SetBatchSize, Exporter!SetInterval, Exporter!RegisterHandler,
      Exporter!StartCollecting, Exporter!StartBatch, Exporter!EnterWait, Exporter!Tick,
      Exporter!WakeWithNothing, Exporter!WakeWithSpans, Exporter!WakeWith,
      Exporter!ExportForTesting, Exporter!LockHandlers, Exporter!CallHandler,
      Exporter!ExportDone, Exporter!spanVars
  <2> QED
    BY <1>3, <1>4, <2>1 DEF vars
<1>5. ASSUME NEW t \in Threads, Call(t) \/ Continue(t), UNCHANGED exporterVars
      PROVE  Joined'
  <2>1. UNCHANGED handed
    BY <1>5 DEF Call, Continue, StartSpan, AddEventTo, AddAttributes, SetStatus, SetName, Change,
      End, EndAgain, Link, Started, RemoveSpan, AddToLocalStore, vars
  <2> QED
    BY <1>3, <1>5, <2>1 DEF exporterVars
<1>6. ASSUME UNCHANGED TracingVars
      PROVE  Joined'
  BY <1>3, <1>6 DEF TracingVars, vars, exporterVars
<1> QED
  BY <1>2, <1>4, <1>5, <1>6 DEF TracingNext

LEMMA JoinedInvariant == TracingSpec => []Joined
  BY JoinedInit, JoinedStep, PartsInvariant, PTL DEF TracingSpec

\* What the exporter holds or has exported has ended, so that it is frozen: a handler is
\* given a span as it was at its end, however late.
THEOREM ExportedHaveEnded == TracingSpec => []ExportedSpansHaveEnded
<1>1. PartsInv /\ Joined => ExportedSpansHaveEnded
  <2> SUFFICES ASSUME PartsInv, Joined,
                      NEW s \in Range(spans_) \cup Range(collected)
                                  \cup UNION {Range(exported[h]) : h \in Handlers}
               PROVE  impl[s].has_ended
    BY DEF ExportedSpansHaveEnded
  <2>1. s \in ended
    BY DEF PartsInv, Exporting!OnlyEnded, Exporting!Range, Range
  <2>2. s \in Range(handed)
    BY <2>1 DEF Joined
  <2> QED
    BY <2>2 DEF PartsInv, SpansInv, Filed
<1> QED
  BY <1>1, PartsInvariant, JoinedInvariant, PTL

\* Spans are lost only before the first handler: what is collected is what was handed over
\* last, and the first handler is given it in the order of the calls of AddSpan.
THEOREM ExportedInOrderOfEnding == TracingSpec => []ExportedInOrder
<1>1. PartsInv /\ Joined => ExportedInOrder
  <2> SUFFICES ASSUME PartsInv, Joined PROVE ExportedInOrder
    OBVIOUS
  <2>1. handlers_ = <<>> => collected = <<>>
    BY DEF PartsInv, Exporting!ExporterInv, Exporting!Started
  <2>2. Exporter!ExportedInOrder
    BY DEF PartsInv, Exporting!InOrder, Exporting!ExportedInOrder, Exporter!ExportedInOrder,
      Exporting!Taken, Exporter!Taken
  <2> QED
    BY <2>1, <2>2 DEF Joined, ExportedInOrder
<1> QED
  BY <1>1, PartsInvariant, JoinedInvariant, PTL

\* The exporter implements the abstract log also for spans that threads start, change and
\* end: what handlers are given grows by whole batches, and is what was handed over.
THEOREM TracingIsALog == TracingSpec => ImplementsLog
<1>1. TracingInit => Exporting!Log!Init
  BY SameInit, ExporterAssumptions, Exporting!LogInit DEF TracingInit
<1>2. PartsInv /\ PartsInv' /\ [TracingNext]_TracingVars
      => [Exporting!Log!Record \/ Exporting!Log!Harvest]_<<Len(collected), Exporting!Delivered>>
  <2> SUFFICES ASSUME PartsInv, PartsInv', [TracingNext]_TracingVars
               PROVE  [Exporting!Log!Record \/ Exporting!Log!Harvest]_<<Len(collected), Exporting!Delivered>>
    OBVIOUS
  <2>1. [Exporting!Next]_Exporting!vars
    BY StepOfExporter DEF PartsInv
  <2>2. /\ Exporting!ExporterInv /\ Exporting!ExporterInv'
        /\ Exporting!OnePlace /\ Exporting!OnePlace'
    BY DEF PartsInv
  <2> QED
    BY <2>1, <2>2, ExporterAssumptions, Exporting!LogStep
<1>3. Exporting!Log!Init <=> Exporter!Log!Init
  BY DEF Exporting!Log!Init, Exporter!Log!Init, Exporting!Delivered, Exporter!Delivered
<1>4. [Exporting!Log!Record \/ Exporting!Log!Harvest]_<<Len(collected), Exporting!Delivered>>
      <=> [Exporter!Log!Record \/ Exporter!Log!Harvest]_<<Len(collected), Exporter!Delivered>>
  BY DEF Exporting!Log!Record, Exporter!Log!Record, Exporting!Log!Harvest, Exporter!Log!Harvest,
    Exporting!Delivered, Exporter!Delivered, Exporting!Cardinality, Exporter!Cardinality,
    Exporting!IsFiniteSet, Exporter!IsFiniteSet
<1> QED
  BY <1>1, <1>2, <1>3, <1>4, PartsInvariant, PTL
  DEF TracingSpec, ImplementsLog, Exporter!ImplementsLog, Exporter!Log!Spec
=============================================================================
