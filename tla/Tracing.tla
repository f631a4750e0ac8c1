------------------------------ MODULE Tracing ------------------------------
(***************************************************************************)
(* The whole way of a span: threads start, change and end spans (Spans)    *)
(* while others register handlers, and a worker exports what has ended     *)
(* (SpanExporter).  The two meet in the last step of Span::End, which is   *)
(* SpanExporterImpl::AddSpan.                                              *)
(***************************************************************************)
EXTENDS Spans

CONSTANTS
  Initializers, \* the threads that register handlers
  Worker, Handlers, BatchSizes, Intervals, Free

ASSUME TracingAssumption ==
  /\ Worker \notin Initializers /\ Free \notin Initializers \cup {Worker}
  /\ IsFiniteSet(SpanIds) /\ BatchSizes \subseteq Int /\ Intervals \subseteq Int

VARIABLES
  batch_size_, interval_, cached_batch_size_, spans_, collect_spans_,
  handlers_, thread_started_, handler_mu_, exporter_pc, batch, size, deadline,
  next, ended, collected, exported

exporterVars ==
  <<batch_size_, interval_, cached_batch_size_, spans_, collect_spans_,
    handlers_, thread_started_, handler_mu_, exporter_pc, batch, size, deadline,
    next, ended, collected, exported>>

Exporter == INSTANCE SpanExporterProperties WITH
  Threads <- Initializers, Testers <- {}, Spans <- SpanIds, pc <- exporter_pc

TracingInit == Init /\ Exporter!Init

\* Mutant: Span::End hands the span over before it marks it.
HandOverEarly(t) ==
  \E s \in known :
    /\ pc[t] = "idle" /\ IsRecording(s) /\ ~impl[s].has_ended
    /\ Exporter!AddSpan(s)
    /\ handed' = Append(handed, s)
    /\ UNCHANGED <<spans, stores, locals, changes, attempts>>

\* The last step of Span::End.
HandOver(t) == HandToExporter(t) /\ Exporter!AddSpan(span[t])

TracingNext ==
  \/ \E t \in Threads :
       \/ (Call(t) \/ Continue(t)) /\ UNCHANGED exporterVars
       \/ HandOver(t)
  \/ Exporter!Internal /\ UNCHANGED vars

TracingVars == <<vars, exporterVars>>

TracingFairness ==
  /\ \A t \in Threads : WF_TracingVars(Continue(t) /\ UNCHANGED exporterVars)
                        /\ WF_TracingVars(HandOver(t))
  /\ SF_TracingVars(Exporter!RunWorkerLoop /\ UNCHANGED vars)
  /\ \A t \in Initializers :
       SF_TracingVars(Exporter!Continue(t) /\ UNCHANGED vars)
  /\ WF_TracingVars(Exporter!Tick /\ UNCHANGED vars)

TracingSpec == TracingInit /\ [][TracingNext]_TracingVars /\ TracingFairness

----------------------------------------------------------------------------
\* What the exporter holds, or has exported, has ended: what its handlers are
\* given, converted at any later time, is the span as it was at its end.
ExportedSpansHaveEnded ==
  \A s \in Range(spans_) \cup Range(collected) \cup UNION {Range(exported[h]) : h \in Handlers} :
    impl[s].has_ended

\* Spans are lost only before the first handler: those collected are the last
\* ones handed over, and they reach that handler in the same order.
ExportedInOrder ==
  /\ IsSuffix(collected, handed)
  /\ ended = Range(handed)
  /\ handlers_ = <<>> => collected = <<>>
  /\ Exporter!ExportedInOrder

\* The exporter implements the abstract log, of which handlers have a growing prefix.
ImplementsLog == Exporter!ImplementsLog

\* "A Span that's sampled will be exported" (span.h), by every handler that was
\* registered when it ended.
SampledSpansExported ==
  \A t \in Threads, s \in SpanIds, h \in Handlers :
    pc[t] = "remove" /\ span[t] = s /\ collect_spans_ /\ h \in Range(handlers_)
      ~> s \in Range(exported[h])
=============================================================================
