----------------------- MODULE SpanExporterProperties -----------------------
(***************************************************************************)
(* What is claimed of SpanExporter.                                        *)
(***************************************************************************)
EXTENDS SpanExporter

----------------------------------------------------------------------------
\* The spans thread t has taken and not yet given to the i-th handler.
Taken(t, i) == IF pc[t] = "exporting" /\ next[t] > i THEN <<>> ELSE batch[t]

\* What the i-th handler will have been given when the export that is under way,
\* if any, is over.
Due(i) ==
  LET under_way == {t \in AllThreads : pc[t] = "exporting" /\ next[t] <= i} IN
  IF under_way = {} THEN exported[handlers_[i]]
  ELSE exported[handlers_[i]] \o batch[CHOOSE t \in under_way : TRUE]

\* What the first handler has been given.
First == IF handlers_ = <<>> THEN <<>> ELSE exported[handlers_[1]]

\* Each span that was collected is in one place, once: among spans_, in the batch
\* of one thread, or with the first handler; and without a handler nothing is
\* collected ("Don't collect spans until an exporter has been registered").
SpansInOnePlace ==
  /\ IsInjective(collected)
  /\ Range(collected) =
       Range(First) \cup Range(spans_) \cup UNION {Range(Taken(t, 1)) : t \in AllThreads}
  /\ \A t \in AllThreads : IsInjective(First \o spans_ \o Taken(t, 1))
  /\ \A t, u \in AllThreads :
       t # u => Range(Taken(t, 1)) \cap Range(Taken(u, 1)) = {}

\* A handler that is registered late is given the same spans as the earlier ones
\* from then on, in the same order.
HandlersAgree ==
  \A i, j \in DOMAIN handlers_ : i < j => IsSuffix(Due(j), Due(i))

\* The worker alone hands the spans over in the order in which they ended.
ExportedInOrder ==
  handlers_ # <<>> =>
    exported[handlers_[1]] \o Taken(Worker, 1) \o spans_ = collected

\* The exporter behaves as a log of which the handlers are given a growing
\* prefix, whole batches at a time.
Delivered == IF handlers_ = <<>> THEN {} ELSE DOMAIN exported[handlers_[1]]

Log == INSTANCE RecordLog WITH
  MaxCalls <- Cardinality(Spans), recorded <- Len(collected), delivered <- Delivered

ImplementsLog == Log!Spec

\* The worker does not spin: when it starts on a batch it has time to wait for, and it
\* wakes without spans only when that has passed, whatever sizes and intervals the
\* program sets ("batch_size_ = std::max(1, size)").
WorkerNeverSpins ==
  [][/\ pc[Worker] = "loop" /\ pc'[Worker] = "enter" => deadline' > 0
     /\ pc[Worker] = "await" /\ pc'[Worker] = "loop" => deadline = 0]_vars

\* Every call of the application returns: handler_mu_ is always released, while
\* a handler is called and while span_mu_ is taken inside it.
CallsReturn == \A t \in Threads : pc[t] # "idle" ~> pc[t] = "idle"
=============================================================================
