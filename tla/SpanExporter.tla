--------------------------- MODULE SpanExporter ---------------------------
(***************************************************************************)
(* SpanExporterImpl: spans that ended are collected, and a worker thread   *)
(* hands them to the registered handlers in batches.                       *)
(*                                                                         *)
(* handler_mu_ guards the settings and handlers_, and is held while the    *)
(* handlers are called.  span_mu_ guards the spans: nobody holds it from   *)
(* one step to the next, so what a thread does under it is one step.  The  *)
(* worker gives it up while it waits for a full batch or its deadline.     *)
(*                                                                         *)
(* Time is counted in ticks of one second, the shortest interval.          *)
(***************************************************************************)
EXTENDS Integers, Sequences, FiniteSets, SequencesExt

CONSTANTS
  Threads,    \* the application's threads
  Worker,     \* the export thread t_
  Testers,    \* the threads that call ExportForTesting
  Spans,      \* the spans the program ends
  Handlers,   \* the handlers it registers
  BatchSizes, \* the sizes it passes to SetBatchSize
  Intervals,  \* the intervals it passes to SetInterval
  Free        \* the owner of an unlocked mutex

ASSUME ThreadsAssumption ==
  /\ Worker \notin Threads /\ Testers \subseteq Threads
  /\ Free \notin Threads \cup {Worker}
ASSUME ParametersAssumption ==
  IsFiniteSet(Spans) /\ BatchSizes \subseteq Int /\ Intervals \subseteq Int

AllThreads == Threads \cup {Worker}

VARIABLES
  batch_size_, interval_,
  cached_batch_size_,  \* before the worker's first wait it has no value yet
  spans_, collect_spans_,
  handlers_, thread_started_,
  handler_mu_,         \* the thread that holds it, or Free
  pc,                  \* each thread's next step
  batch,               \* the spans each thread has taken to export
  size, deadline,      \* the worker's locals: the batch size, the ticks left
  next,                \* the index of the handler a thread calls next
  ended,               \* history: the spans AddSpan was called with
  collected,           \* history: those it kept, in order
  exported             \* history: the spans each handler was given, in order

settings == <<batch_size_, interval_>>
spanVars == <<spans_, collect_spans_, ended, collected>>
registry == <<handlers_, thread_started_>>
worker   == <<cached_batch_size_, size, deadline>>
calls    == <<batch, next, exported>>
vars == <<settings, spanVars, registry, worker, calls, handler_mu_, pc>>

Init ==
  /\ batch_size_ = 64 /\ interval_ = 5
  /\ cached_batch_size_ \in {0} \cup BatchSizes
  /\ spans_ = <<>> /\ collect_spans_ = FALSE
  /\ handlers_ = <<>> /\ thread_started_ = FALSE
  /\ handler_mu_ = Free
  /\ pc = [t \in AllThreads |-> IF t = Worker THEN "not_started" ELSE "idle"]
  /\ batch = [t \in AllThreads |-> <<>>]
  /\ next = [t \in AllThreads |-> 0]
  /\ size = 0 /\ deadline = 0
  /\ ended = {} /\ collected = <<>>
  /\ exported = [h \in Handlers |-> <<>>]

Goto(t, from, to) == pc[t] = from /\ pc' = [pc EXCEPT ![t] = to]

\* Mutant: the program's number is taken as it is.
NotClamped(n) == n

\* std::max(1, n)
AtLeastOne(n) == IF n < 1 THEN 1 ELSE n

----------------------------------------------------------------------------
\* The settings.
SetBatchSize(t, n) ==
  /\ pc[t] = "idle" /\ handler_mu_ = Free
  /\ batch_size_' = AtLeastOne(n)
  /\ UNCHANGED <<interval_, spanVars, registry, worker, calls, handler_mu_, pc>>

SetInterval(t, seconds) ==
  /\ pc[t] = "idle" /\ handler_mu_ = Free
  /\ interval_' = AtLeastOne(seconds)
  /\ UNCHANGED <<batch_size_, spanVars, registry, worker, calls, handler_mu_, pc>>

\* RegisterHandler.  The first handler starts the worker; handler_mu_ stays held
\* until the spans are collected too.
RegisterHandler(t, h) ==
  /\ pc[t] = "idle" /\ handler_mu_ = Free
  /\ h \notin Range(handlers_)
  /\ handlers_' = Append(handlers_, h)
  /\ thread_started_' = TRUE
  /\ IF thread_started_
     THEN UNCHANGED <<handler_mu_, pc>>
     ELSE /\ handler_mu_' = t
          /\ pc' = [pc EXCEPT ![t] = "collect", ![Worker] = "loop"]
  /\ UNCHANGED <<settings, spanVars, worker, calls>>

\* The end of StartExportThread, under span_mu_.
StartCollecting(t) ==
  /\ Goto(t, "collect", "idle")
  /\ collect_spans_' = TRUE
  /\ handler_mu_' = Free
  /\ UNCHANGED <<settings, spans_, ended, collected, registry, worker, calls>>

\* Mutant: spans are collected whether there is a handler or not.
AddSpanAlways(s) ==
  /\ s \notin ended
  /\ ended' = ended \cup {s}
  /\ spans_' = Append(spans_, s) /\ collected' = Append(collected, s)
  /\ UNCHANGED <<settings, collect_spans_, registry, worker, calls, handler_mu_,
                 pc>>

\* AddSpan, the last step of Span::End.
AddSpan(s) ==
  /\ s \notin ended
  /\ ended' = ended \cup {s}
  /\ IF collect_spans_
     THEN spans_' = Append(spans_, s) /\ collected' = Append(collected, s)
     ELSE UNCHANGED <<spans_, collected>>
  /\ UNCHANGED <<settings, collect_spans_, registry, worker, calls, handler_mu_,
                 pc>>

----------------------------------------------------------------------------
\* RunWorkerLoop.

\* The start of the loop: the size and the deadline of this batch.
StartBatch ==
  /\ handler_mu_ = Free
  /\ Goto(Worker, "loop", "enter")
  /\ size' = batch_size_
  /\ deadline' = interval_
  /\ UNCHANGED <<settings, spanVars, registry, cached_batch_size_, calls,
                 handler_mu_>>

\* span_mu_ is taken, and given up in AwaitWithDeadline.
EnterWait ==
  /\ Goto(Worker, "enter", "await")
  /\ cached_batch_size_' = size
  /\ UNCHANGED <<settings, spanVars, registry, size, deadline, calls,
                 handler_mu_>>

Tick ==
  /\ pc[Worker] \in {"enter", "await"} /\ deadline > 0
  /\ deadline' = deadline - 1
  /\ UNCHANGED <<settings, spanVars, registry, cached_batch_size_, size, calls,
                 handler_mu_, pc>>

IsBatchFull == Len(spans_) >= cached_batch_size_

\* Mutant: the spans are copied to the batch.
CopySpans(t) == batch' = [batch EXCEPT ![t] = spans_] /\ UNCHANGED spans_

\* The spans are swapped with an empty batch.
TakeSpans(t) == batch' = [batch EXCEPT ![t] = spans_] /\ spans_' = <<>>

\* The wait is over and there are no spans.
WakeWithNothing ==
  /\ IsBatchFull \/ deadline = 0
  /\ spans_ = <<>>
  /\ Goto(Worker, "await", "loop")
  /\ UNCHANGED <<settings, spanVars, registry, worker, calls, handler_mu_>>

\* The batch is taken, and converted by ToSpanData.
WakeWith(batchReady) ==
  /\ batchReady /\ spans_ # <<>>
  /\ Goto(Worker, "await", "export")
  /\ TakeSpans(Worker)
  /\ UNCHANGED <<settings, collect_spans_, ended, collected, registry, worker,
                 next, exported, handler_mu_>>

\* Mutant: the deadline is missed.
WakeOnlyFull == WakeWith(IsBatchFull)

\* The wait is over: the batch is full, or it is late.
WakeWithSpans == WakeWith(IsBatchFull \/ deadline = 0)

\* ExportForTesting takes the spans, however few, on the calling thread.
ExportForTesting(t) ==
  /\ Goto(t, "idle", "export")
  /\ TakeSpans(t)
  /\ UNCHANGED <<settings, collect_spans_, ended, collected, registry, worker,
                 next, exported, handler_mu_>>

----------------------------------------------------------------------------
\* Export, by the worker or by a tester.
LockHandlers(t) ==
  /\ handler_mu_ = Free
  /\ Goto(t, "export", "exporting")
  /\ handler_mu_' = t
  /\ next' = [next EXCEPT ![t] = 1]
  /\ UNCHANGED <<settings, spanVars, registry, worker, batch, exported>>

\* handler->Export(span_data)
CallHandler(t) ==
  /\ pc[t] = "exporting" /\ next[t] <= Len(handlers_)
  /\ exported' = [exported EXCEPT ![handlers_[next[t]]] = @ \o batch[t]]
  /\ next' = [next EXCEPT ![t] = @ + 1]
  /\ UNCHANGED <<settings, spanVars, registry, worker, batch, handler_mu_, pc>>

\* Mutants: all but the first handler are left out; handler_mu_ stays locked.
ExportDoneEarly(t) ==
  /\ next[t] > 1
  /\ Goto(t, "exporting", IF t = Worker THEN "loop" ELSE "idle")
  /\ handler_mu_' = Free
  /\ batch' = [batch EXCEPT ![t] = <<>>] /\ next' = [next EXCEPT ![t] = 0]
  /\ UNCHANGED <<settings, spanVars, registry, worker, exported>>

ExportDoneLocked(t) ==
  /\ next[t] > Len(handlers_)
  /\ Goto(t, "exporting", IF t = Worker THEN "loop" ELSE "idle")
  /\ batch' = [batch EXCEPT ![t] = <<>>] /\ next' = [next EXCEPT ![t] = 0]
  /\ UNCHANGED <<settings, spanVars, registry, worker, exported, handler_mu_>>

\* All handlers have been called: handler_mu_ is released, the batch cleared.
ExportDone(t) ==
  /\ next[t] > Len(handlers_)
  /\ Goto(t, "exporting", IF t = Worker THEN "loop" ELSE "idle")
  /\ handler_mu_' = Free
  /\ batch' = [batch EXCEPT ![t] = <<>>] /\ next' = [next EXCEPT ![t] = 0]
  /\ UNCHANGED <<settings, spanVars, registry, worker, exported>>

Export(t) == LockHandlers(t) \/ CallHandler(t) \/ ExportDone(t)

----------------------------------------------------------------------------
RunWorkerLoop ==
  StartBatch \/ EnterWait \/ WakeWithNothing \/ WakeWithSpans \/ Export(Worker)

\* The calls of the program.
Call(t) ==
  \/ \E n \in BatchSizes : SetBatchSize(t, n)
  \/ \E seconds \in Intervals : SetInterval(t, seconds)
  \/ \E h \in Handlers : RegisterHandler(t, h)

Continue(t) == StartCollecting(t) \/ Export(t)

\* Everything but the spans that end.
Internal ==
  \/ \E t \in Threads : Call(t) \/ Continue(t)
  \/ \E t \in Testers : ExportForTesting(t)
  \/ RunWorkerLoop
  \/ Tick

Next == Internal \/ \E s \in Spans : AddSpan(s)

\* Threads run on, a mutex is not withheld for ever, and time passes.
Fairness ==
  /\ SF_vars(RunWorkerLoop)
  /\ \A t \in Threads : SF_vars(Continue(t))
  /\ WF_vars(Tick)

Spec == Init /\ [][Next]_vars /\ Fairness
=============================================================================
