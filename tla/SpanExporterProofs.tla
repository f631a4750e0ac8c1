------------------------- MODULE SpanExporterProofs -------------------------
(***************************************************************************)
(* Theorems about SpanExporter, for every set of threads, testers, spans   *)
(* and handlers, and all sizes and intervals.                              *)
(***************************************************************************)
EXTENDS SpanExporterProperties, SequenceTheorems, FiniteSetTheorems, TLAPS

----------------------------------------------------------------------------
\* The inductive invariant.

\* Where the threads are, and who holds handler_mu_.
Control ==
  /\ pc \in [AllThreads -> {"not_started", "idle", "collect", "loop", "enter",
                            "await", "export", "exporting"}]
  /\ pc[Worker] \notin {"idle", "collect"}
  /\ \A t \in Threads : pc[t] \in {"idle", "collect", "export", "exporting"}
  /\ \A t \in AllThreads : pc[t] \in {"collect", "exporting"} => handler_mu_ = t

\* The settings are positive, and so is what the worker has copied of them.
Clamped ==
  /\ batch_size_ \in Int /\ batch_size_ >= 1
  /\ interval_ \in Int /\ interval_ >= 1
  /\ size \in Int /\ deadline \in Int
  /\ pc[Worker] = "enter" => size >= 1
  /\ pc[Worker] = "await" => cached_batch_size_ \in Int /\ cached_batch_size_ >= 1

\* Each handler is registered once, and none is called before.
Registry ==
  /\ handlers_ \in Seq(Handlers)
  /\ \A i, j \in 1 .. Len(handlers_) : handlers_[i] = handlers_[j] => i = j
  /\ exported \in [Handlers -> Seq(Spans)]
  /\ \A h \in Handlers \ Range(handlers_) : exported[h] = <<>>

\* The spans on their way, and the handler that is called next.
Batches ==
  /\ spans_ \in Seq(Spans) /\ collected \in Seq(Spans)
  /\ batch \in [AllThreads -> Seq(Spans)]
  /\ next \in [AllThreads -> Nat]
  /\ \A t \in AllThreads :
       /\ pc[t] \notin {"export", "exporting"} => batch[t] = <<>>
       /\ pc[t] = "exporting" => next[t] >= 1

\* Nothing is collected before the first handler is there, which starts the worker.
Started ==
  /\ thread_started_ \in BOOLEAN /\ collect_spans_ \in BOOLEAN
  /\ thread_started_ <=> handlers_ # <<>>
  /\ pc[Worker] # "not_started" => handlers_ # <<>>
  /\ \A t \in Threads : pc[t] = "collect" => handlers_ # <<>>
  /\ collect_spans_ => handlers_ # <<>>
  /\ handlers_ = <<>> => spans_ = <<>> /\ collected = <<>>

ExporterInv == Control /\ Clamped /\ Registry /\ Batches /\ Started

\* The initial state has an idle program and an empty exporter.
LEMMA ExporterInit == Init => ExporterInv
<1> SUFFICES ASSUME Init PROVE ExporterInv
  OBVIOUS
<1> USE ThreadsAssumption DEF Init, AllThreads
<1>1. Control
  BY DEF Control
<1>2. Clamped
  BY DEF Clamped
<1>3. Registry
  BY DEF Registry
<1>4. Batches
  BY DEF Batches
<1>5. Started
  BY DEF Started
<1> QED
  BY <1>1, <1>2, <1>3, <1>4, <1>5 DEF ExporterInv

\* What std::max(1, n) returns.
LEMMA Clamps == ASSUME NEW n \in Int PROVE AtLeastOne(n) \in Int /\ AtLeastOne(n) >= 1
  BY DEF AtLeastOne

----------------------------------------------------------------------------
\* Every step preserves each part of the invariant.

\* Threads go from step to step, and the mutex with them.
LEMMA ControlStep == ExporterInv /\ [Next]_vars => Control'
<1> USE ThreadsAssumption DEF AllThreads, Control, Goto
<1> SUFFICES ASSUME Control, [Next]_vars PROVE Control'
  BY DEF ExporterInv
<1>1. ASSUME NEW t \in Threads, NEW n, SetBatchSize(t, n) \/ SetInterval(t, n)
      PROVE  Control'
  BY <1>1 DEF SetBatchSize, SetInterval
<1>2. ASSUME NEW t \in Threads, NEW h, RegisterHandler(t, h)
      PROVE  Control'
  BY <1>2 DEF RegisterHandler
<1>3. ASSUME NEW t \in Threads, StartCollecting(t)
      PROVE  Control'
  BY <1>3 DEF StartCollecting
<1>4. ASSUME NEW s, AddSpan(s)
      PROVE  Control'
  BY <1>4 DEF AddSpan
<1>5. CASE StartBatch \/ EnterWait \/ Tick \/ WakeWithNothing
  BY <1>5 DEF StartBatch, EnterWait, Tick, WakeWithNothing
<1>6. CASE WakeWithSpans
  BY <1>6 DEF WakeWithSpans, WakeWith
<1>7. ASSUME NEW t \in Testers, ExportForTesting(t)
      PROVE  Control'
  BY <1>7 DEF ExportForTesting
<1>8. ASSUME NEW t \in AllThreads, Export(t)
      PROVE  Control'
  BY <1>8 DEF Export, LockHandlers, CallHandler, ExportDone
<1>9. CASE UNCHANGED vars
  BY <1>9 DEF vars
<1> QED
  BY <1>1, <1>2, <1>3, <1>4, <1>5, <1>6, <1>7, <1>8, <1>9
  DEF Next, Internal, Call, Continue, RunWorkerLoop

\* Only SetBatchSize and SetInterval write the settings, and only the worker copies
\* them.
LEMMA ClampedStep == ExporterInv /\ [Next]_vars => Clamped'
<1> USE ThreadsAssumption, ParametersAssumption DEF AllThreads, Clamped, Goto, settings, worker
<1> SUFFICES ASSUME Control, Clamped, [Next]_vars PROVE Clamped'
  BY DEF ExporterInv
<1>1. ASSUME NEW t \in Threads, NEW n \in Int, SetBatchSize(t, n) \/ SetInterval(t, n)
      PROVE  Clamped'
  BY <1>1, Clamps DEF SetBatchSize, SetInterval
<1>2. ASSUME NEW t \in Threads, NEW h, RegisterHandler(t, h)
      PROVE  Clamped'
  BY <1>2 DEF RegisterHandler, Control
<1>3. ASSUME NEW t \in Threads, StartCollecting(t)
      PROVE  Clamped'
  BY <1>3 DEF StartCollecting, Control
<1>4. ASSUME NEW s, AddSpan(s)
      PROVE  Clamped'
  BY <1>4 DEF AddSpan
<1>5. CASE StartBatch \/ EnterWait \/ Tick \/ WakeWithNothing
  BY <1>5 DEF StartBatch, EnterWait, Tick, WakeWithNothing, Control
<1>6. CASE WakeWithSpans
  BY <1>6 DEF WakeWithSpans, WakeWith, Control
<1>7. ASSUME NEW t \in Testers, ExportForTesting(t)
      PROVE  Clamped'
  BY <1>7 DEF ExportForTesting, Control
<1>8. ASSUME NEW t \in AllThreads, Export(t)
      PROVE  Clamped'
  BY <1>8 DEF Export, LockHandlers, CallHandler, ExportDone, Control
<1>9. CASE UNCHANGED vars
  BY <1>9 DEF vars
<1> QED
  BY <1>1, <1>2, <1>3, <1>4, <1>5, <1>6, <1>7, <1>8, <1>9
  DEF Next, Internal, Call, Continue, RunWorkerLoop

\* A handler is appended, once; the handlers that are called are registered.
LEMMA RegistryStep == ExporterInv /\ [Next]_vars => Registry'
<1> USE DEF Registry
<1> SUFFICES ASSUME ExporterInv, [Next]_vars PROVE Registry'
  OBVIOUS
<1>1. ASSUME NEW t \in Threads, NEW h \in Handlers, RegisterHandler(t, h)
      PROVE  Registry'
  <2>1. /\ handlers_' = Append(handlers_, h) /\ exported' = exported
        /\ h \notin Range(handlers_)
    BY <1>1 DEF RegisterHandler, calls
  <2>2. \A i \in 1 .. Len(handlers_) : h # handlers_[i]
    BY <2>1 DEF Range, ExporterInv
  <2>3. Range(handlers_) \subseteq Range(handlers_')
    <3> SUFFICES ASSUME NEW i \in DOMAIN handlers_
                 PROVE  i \in DOMAIN handlers_' /\ handlers_'[i] = handlers_[i]
      BY DEF Range
    <3> QED
      BY <2>1 DEF ExporterInv
  <2> QED
    BY <2>1, <2>2, <2>3 DEF ExporterInv
<1>2. ASSUME NEW t \in AllThreads, CallHandler(t)
      PROVE  Registry'
  <2>1. /\ handlers_' = handlers_ /\ next[t] \in 1 .. Len(handlers_)
        /\ exported' = [exported EXCEPT ![handlers_[next[t]]] = @ \o batch[t]]
    BY <1>2 DEF CallHandler, registry, ExporterInv, Batches
  <2>2. batch[t] \in Seq(Spans) /\ handlers_[next[t]] \in Handlers
    BY <2>1 DEF ExporterInv, Batches
  <2>3. exported[handlers_[next[t]]] \o batch[t] \in Seq(Spans)
    BY <2>2, ConcatProperties DEF ExporterInv
  <2>4. handlers_[next[t]] \in Range(handlers_)
    BY <2>1 DEF Range, ExporterInv
  <2> QED
    BY <2>1, <2>2, <2>3, <2>4 DEF ExporterInv
<1>3. (\A t \in Threads, h \in Handlers : ~ RegisterHandler(t, h))
      /\ (\A t \in AllThreads : ~ CallHandler(t))
      => handlers_' = handlers_ /\ exported' = exported
  BY DEF Next, Internal, Call, Continue, RunWorkerLoop, Export, vars, calls, registry,
    SetBatchSize, SetInterval, StartCollecting, AddSpan, StartBatch, EnterWait, Tick,
    WakeWithNothing, WakeWithSpans, WakeWith, ExportForTesting, LockHandlers,
    ExportDone, AllThreads
<1> QED
  BY <1>1, <1>2, <1>3 DEF ExporterInv

\* A sequence followed by one more element.
LEMMA ConcatAppend ==
  ASSUME NEW S, NEW s \in Seq(S), NEW t \in Seq(S), NEW e \in S
  PROVE  /\ Append(t, e) \in Seq(S) /\ Append(s \o t, e) \in Seq(S)
         /\ s \o Append(t, e) = Append(s \o t, e)
  OBVIOUS

\* The spans in a batch are those taken, until the batch is exported.
LEMMA BatchesStep == ExporterInv /\ [Next]_vars => Batches'
<1> USE ThreadsAssumption DEF AllThreads, Batches, Goto, spanVars, calls
<1> SUFFICES ASSUME Control, Batches, Started, [Next]_vars PROVE Batches'
  BY DEF ExporterInv
<1>1. ASSUME NEW t \in Threads, NEW n, SetBatchSize(t, n) \/ SetInterval(t, n)
      PROVE  Batches'
  BY <1>1 DEF SetBatchSize, SetInterval
<1>2. ASSUME NEW t \in Threads, NEW h, RegisterHandler(t, h)
      PROVE  Batches'
  BY <1>2 DEF RegisterHandler, Control, Started
<1>3. ASSUME NEW t \in Threads, StartCollecting(t)
      PROVE  Batches'
  BY <1>3 DEF StartCollecting, Control
<1>4. ASSUME NEW s \in Spans, AddSpan(s)
      PROVE  Batches'
  <2>1. Append(spans_, s) \in Seq(Spans) /\ Append(collected, s) \in Seq(Spans)
    OBVIOUS
  <2> QED
    BY <1>4, <2>1 DEF AddSpan
<1>5. CASE StartBatch \/ EnterWait \/ Tick \/ WakeWithNothing
  BY <1>5 DEF StartBatch, EnterWait, Tick, WakeWithNothing, Control
<1>6. ASSUME NEW t \in AllThreads, (WakeWithSpans /\ t = Worker) \/ ExportForTesting(t)
      PROVE  Batches'
  <2>1. /\ batch' = [batch EXCEPT ![t] = spans_] /\ spans_' = <<>>
        /\ pc' = [pc EXCEPT ![t] = "export"]
        /\ collected' = collected /\ next' = next
    BY <1>6 DEF WakeWithSpans, WakeWith, ExportForTesting, TakeSpans
  <2> QED
    BY <2>1 DEF Control
<1>7. ASSUME NEW t \in AllThreads, LockHandlers(t)
      PROVE  Batches'
  BY <1>7 DEF LockHandlers, Control
<1>8. ASSUME NEW t \in AllThreads, CallHandler(t)
      PROVE  Batches'
  BY <1>8 DEF CallHandler, Control
<1>9. ASSUME NEW t \in AllThreads, ExportDone(t)
      PROVE  Batches'
  BY <1>9 DEF ExportDone, Control
<1>10. CASE UNCHANGED vars
  BY <1>10 DEF vars
<1> QED
  BY <1>1, <1>2, <1>3, <1>4, <1>5, <1>6, <1>7, <1>8, <1>9, <1>10
  DEF Next, Internal, Call, Continue, RunWorkerLoop, Export

\* The first handler starts the worker, and then the collecting.
LEMMA StartedStep == ExporterInv /\ [Next]_vars => Started'
<1> USE ThreadsAssumption DEF AllThreads, Started, Goto, spanVars, registry
<1> SUFFICES ASSUME Control, Registry, Batches, Started, [Next]_vars PROVE Started'
  BY DEF ExporterInv
<1>1. ASSUME NEW t \in Threads, NEW n, SetBatchSize(t, n) \/ SetInterval(t, n)
      PROVE  Started'
  BY <1>1 DEF SetBatchSize, SetInterval
<1>2. ASSUME NEW t \in Threads, NEW h \in Handlers, RegisterHandler(t, h)
      PROVE  Started'
  <2>1. handlers_' = Append(handlers_, h) /\ handlers_' # <<>>
    BY <1>2 DEF RegisterHandler, Registry
  <2> QED
    BY <1>2, <2>1 DEF RegisterHandler
<1>3. ASSUME NEW t \in Threads, StartCollecting(t)
      PROVE  Started'
  BY <1>3 DEF StartCollecting, Control
<1>4. ASSUME NEW s \in Spans, AddSpan(s)
      PROVE  Started'
  BY <1>4 DEF AddSpan
<1>5. CASE StartBatch \/ EnterWait \/ Tick \/ WakeWithNothing
  BY <1>5 DEF StartBatch, EnterWait, Tick, WakeWithNothing, Control
<1>6. ASSUME NEW t \in AllThreads, (WakeWithSpans /\ t = Worker) \/ ExportForTesting(t)
      PROVE  Started'
  BY <1>6 DEF WakeWithSpans, WakeWith, ExportForTesting, TakeSpans, Control
<1>7. ASSUME NEW t \in AllThreads, Export(t)
      PROVE  Started'
  <2>1. UNCHANGED <<spans_, collect_spans_, collected, handlers_, thread_started_>>
    BY <1>7 DEF Export, LockHandlers, CallHandler, ExportDone
  <2>2. \A u \in Threads : pc'[u] = "collect" => pc[u] = "collect"
    BY <1>7 DEF Export, LockHandlers, CallHandler, ExportDone, Control
  <2>3. pc'[Worker] # "not_started" => pc[Worker] # "not_started"
    BY <1>7 DEF Export, LockHandlers, CallHandler, ExportDone, Control
  <2> QED
    BY <2>1, <2>2, <2>3
<1>8. CASE UNCHANGED vars
  BY <1>8 DEF vars
<1> QED
  BY <1>1, <1>2, <1>3, <1>4, <1>5, <1>6, <1>7, <1>8
  DEF Next, Internal, Call, Continue, RunWorkerLoop

\* The invariant is inductive.
LEMMA ExporterStep == ExporterInv /\ [Next]_vars => ExporterInv'
  BY ControlStep, ClampedStep, RegistryStep, BatchesStep, StartedStep DEF ExporterInv

\* The exporter's control state, settings, handlers and batches stay in order: a thread
\* with a handler in its hands owns handler_mu_, no setting is below one, no handler is
\* registered twice, and nothing is collected before there is one.
THEOREM ExporterInvariant == Spec => []ExporterInv
  BY ExporterInit, ExporterStep, PTL DEF Spec

\* The worker never spins: RunWorkerLoop waits for its deadline before it starts again
\* with nothing, as batch sizes and intervals are clamped to one.
THEOREM WorkerRests == Spec => WorkerNeverSpins
<1>1. ASSUME ExporterInv, [Next]_vars, pc[Worker] = "loop", pc'[Worker] = "enter"
      PROVE  deadline' > 0
  <2> USE ThreadsAssumption DEF AllThreads, Control, Goto
  <2>1. StartBatch
    BY <1>1 DEF ExporterInv, Next, Internal, Call, Continue, RunWorkerLoop, Export, vars,
      calls, SetBatchSize, SetInterval, RegisterHandler, StartCollecting, AddSpan,
      EnterWait, Tick, WakeWithNothing, WakeWithSpans, WakeWith, ExportForTesting,
      LockHandlers, CallHandler, ExportDone
  <2> QED
    BY <1>1, <2>1 DEF StartBatch, ExporterInv, Clamped
<1>2. ASSUME ExporterInv, [Next]_vars, pc[Worker] = "await", pc'[Worker] = "loop"
      PROVE  deadline = 0
  <2> USE ThreadsAssumption DEF AllThreads, Control, Goto
  <2>1. WakeWithNothing
    BY <1>2 DEF ExporterInv, Started, registry, Next, Internal, Call, Continue, RunWorkerLoop, Export, vars,
      calls, SetBatchSize, SetInterval, RegisterHandler, StartCollecting, AddSpan,
      StartBatch, EnterWait, Tick, WakeWithSpans, WakeWith, ExportForTesting,
      LockHandlers, CallHandler, ExportDone
  <2>2. ~ IsBatchFull \/ Len(spans_) > 0
    BY <1>2 DEF IsBatchFull, ExporterInv, Clamped, Batches
  <2> QED
    BY <2>1, <2>2 DEF WakeWithNothing
<1> QED
  BY <1>1, <1>2, ExporterInvariant, PTL DEF WorkerNeverSpins, Spec

----------------------------------------------------------------------------
\* The spans are exported in the order in which they ended, by the worker alone.

\* When only the worker exports, no other thread does.
OnlyWorker == \A t \in Threads : pc[t] \in {"idle", "collect"}

InOrder == OnlyWorker /\ ExportedInOrder

\* At the start nothing is exported.
LEMMA InOrderInit == Init => InOrder
  BY ThreadsAssumption DEF Init, InOrder, OnlyWorker, ExportedInOrder, AllThreads

\* A thread that does not test does not export.
LEMMA OnlyWorkerStep ==
  ASSUME Testers = {}, ExporterInv, OnlyWorker, [Next]_vars PROVE OnlyWorker'
<1> USE ThreadsAssumption DEF AllThreads, OnlyWorker, Goto, ExporterInv, Control
<1>1. ASSUME NEW t \in Threads, StartCollecting(t) \/ Export(t)
      PROVE  OnlyWorker'
  BY <1>1 DEF StartCollecting, Export, LockHandlers, CallHandler, ExportDone
<1>2. ASSUME NEW t \in Threads, NEW h, RegisterHandler(t, h)
      PROVE  OnlyWorker'
  BY <1>2 DEF RegisterHandler
<1>3. ASSUME RunWorkerLoop
      PROVE  OnlyWorker'
  BY <1>3 DEF RunWorkerLoop, StartBatch, EnterWait, WakeWithNothing, WakeWithSpans,
    WakeWith, Export, LockHandlers, CallHandler, ExportDone
<1>4. ASSUME pc' = pc
      PROVE  OnlyWorker'
  BY <1>4
<1> QED
  BY <1>1, <1>2, <1>3, <1>4, Testers = {}
  DEF Next, Internal, Call, Continue, SetBatchSize, SetInterval, AddSpan, Tick, vars

\* The first handler's spans, the worker's batch and those that wait are the spans
\* collected, and a step moves them on from one to the next.
LEMMA InOrderStep ==
  ASSUME Testers = {}, ExporterInv, InOrder, [Next]_vars PROVE InOrder'
<1> DEFINE first == exported[handlers_[1]]
<1> USE ThreadsAssumption DEF AllThreads, Goto, Taken
<1>1. OnlyWorker'
  BY OnlyWorkerStep DEF InOrder
<1>2. SUFFICES ASSUME handlers_' # <<>>
               PROVE  (first \o Taken(Worker, 1) \o spans_ = collected)'
  BY <1>1 DEF InOrder, ExportedInOrder
<1>3. /\ handlers_ \in Seq(Handlers) /\ spans_ \in Seq(Spans) /\ collected \in Seq(Spans)
      /\ exported \in [Handlers -> Seq(Spans)] /\ batch[Worker] \in Seq(Spans)
      /\ next[Worker] \in Nat /\ Worker \in AllThreads
  BY DEF ExporterInv, Registry, Batches
<1>4. handlers_ # <<>> => first \in Seq(Spans) /\ handlers_[1] \in Handlers
  BY <1>3
<1>5. \A s, t \in Seq(Spans), e \in Spans : s \o Append(t, e) = Append(s \o t, e)
  BY ConcatAppend
<1>6. \A s \in Seq(Spans) : s \o <<>> = s /\ <<>> \o s = s
  BY ConcatEmptySeq
<1>7. ASSUME NEW s \in Spans, AddSpan(s)
      PROVE  (first \o Taken(Worker, 1) \o spans_ = collected)'
  <2>1. UNCHANGED <<handlers_, exported, batch, next, pc>>
    BY <1>7 DEF AddSpan, registry, calls
  <2>2. first \o Taken(Worker, 1) \in Seq(Spans)
    BY <2>1, <1>2, <1>3, <1>4, ConcatProperties
  <2>3. first \o Taken(Worker, 1) \o spans_ = collected
    BY <2>1, <1>2 DEF InOrder, ExportedInOrder
  <2>4. first \o Taken(Worker, 1) \o Append(spans_, s) = Append(collected, s)
    <3> DEFINE before == first \o Taken(Worker, 1)
    <3>1. before \in Seq(Spans) /\ before \o spans_ = collected
      BY <2>2, <2>3
    <3> HIDE DEF before
    <3>2. before \o Append(spans_, s) = Append(before \o spans_, s)
      BY <3>1, <1>3, <1>5
    <3>3. before \o Append(spans_, s) = Append(collected, s)
      BY <3>1, <3>2
    <3> QED
      BY <3>3 DEF before
  <2> QED
    BY <1>7, <2>1, <2>3, <2>4 DEF AddSpan
<1>8. ASSUME NEW t \in Threads, NEW h \in Handlers, RegisterHandler(t, h)
      PROVE  (first \o Taken(Worker, 1) \o spans_ = collected)'
  <2>1. /\ handlers_' = Append(handlers_, h) /\ h \notin Range(handlers_)
        /\ UNCHANGED <<exported, batch, next, spans_, collected>>
    BY <1>8 DEF RegisterHandler, spanVars, calls
  <2>2. CASE handlers_ = <<>>
    <3>1. handlers_'[1] = h /\ exported[h] = <<>> /\ spans_ = <<>> /\ collected = <<>>
      BY <2>1, <2>2 DEF ExporterInv, Registry, Started, Range
    <3>2. Taken(Worker, 1)' = <<>>
      BY <1>8, <2>1, <2>2 DEF RegisterHandler, ExporterInv, Started, Batches, Control
    <3> QED
      BY <2>1, <3>1, <3>2
  <2>3. CASE handlers_ # <<>>
    <3>1. handlers_'[1] = handlers_[1] /\ pc' = pc
      BY <1>3, <1>8, <2>1, <2>3 DEF RegisterHandler, ExporterInv, Started
    <3> QED
      BY <2>1, <2>3, <3>1 DEF InOrder, ExportedInOrder
  <2> QED
    BY <2>2, <2>3
<1>9. CASE WakeWithSpans
  <2>1. /\ UNCHANGED <<handlers_, exported, next, collected>> /\ spans_' = <<>>
        /\ batch'[Worker] = spans_ /\ pc'[Worker] = "export" /\ pc[Worker] = "await"
    BY <1>9 DEF WakeWithSpans, WakeWith, TakeSpans, registry, ExporterInv, Batches, Control
  <2>2. batch[Worker] = <<>>
    BY <2>1 DEF ExporterInv, Batches
  <2> QED
    BY <2>1, <2>2, <1>2, <1>3, <1>4, <1>6 DEF InOrder, ExportedInOrder
<1>10. CASE LockHandlers(Worker)
  <2>1. /\ UNCHANGED <<handlers_, exported, batch, collected, spans_>>
        /\ next'[Worker] = 1 /\ pc'[Worker] = "exporting" /\ pc[Worker] = "export"
    BY <1>10 DEF LockHandlers, registry, spanVars, ExporterInv, Batches, Control
  <2>2. Taken(Worker, 1) = batch[Worker] /\ Taken(Worker, 1)' = batch[Worker]
    BY <2>1
  <2> QED
    BY <2>1, <2>2, <1>2 DEF InOrder, ExportedInOrder
<1>11. CASE CallHandler(Worker)
  <2>1. /\ UNCHANGED <<handlers_, batch, collected, spans_, pc>>
        /\ pc[Worker] = "exporting" /\ next'[Worker] = next[Worker] + 1
        /\ next[Worker] \in 1 .. Len(handlers_)
        /\ exported' = [exported EXCEPT ![handlers_[next[Worker]]] = @ \o batch[Worker]]
    BY <1>11 DEF CallHandler, registry, spanVars, ExporterInv, Batches, Control
  <2>2. CASE next[Worker] = 1
    <3>1. /\ exported' = [exported EXCEPT ![handlers_[1]] = @ \o batch[Worker]]
          /\ handlers_'[1] = handlers_[1] /\ next'[Worker] = 2
      BY <2>1, <2>2
    <3>3. first' = first \o batch[Worker]
      BY <2>1, <3>1, <1>2, <1>4, <1>3
    <3>4. Taken(Worker, 1)' = <<>>
      BY <2>1, <3>1
    <3>2. Taken(Worker, 1) = batch[Worker]
      BY <2>1, <2>2
    <3> QED
      BY <2>1, <3>2, <3>3, <3>4, <1>2, <1>3, <1>4, <1>6, ConcatProperties
      DEF InOrder, ExportedInOrder
  <2>3. CASE next[Worker] # 1
    <3>1. handlers_[next[Worker]] # handlers_[1]
      BY <2>1, <2>3, <1>2, <1>3 DEF ExporterInv, Registry
    <3>2. first' = first
      BY <2>1, <3>1, <1>2, <1>4, <1>3
    <3>3. Taken(Worker, 1) = <<>> /\ Taken(Worker, 1)' = <<>>
      BY <2>1, <2>3, <1>3
    <3> QED
      BY <2>1, <3>2, <3>3, <1>2 DEF InOrder, ExportedInOrder
  <2> QED
    BY <2>2, <2>3
<1>12. CASE ExportDone(Worker)
  <2>1. /\ UNCHANGED <<handlers_, exported, collected, spans_>>
        /\ pc[Worker] = "exporting" /\ next[Worker] > Len(handlers_)
        /\ batch'[Worker] = <<>>
    BY <1>12 DEF ExportDone, registry, spanVars, ExporterInv, Batches, Control
  <2>2. Len(handlers_) >= 1
    BY <2>1, <1>2, <1>3
  <2>3. Taken(Worker, 1) = <<>> /\ Taken(Worker, 1)' = <<>>
    BY <2>1, <2>2, <1>3
  <2> QED
    BY <2>1, <2>3, <1>2 DEF InOrder, ExportedInOrder
<1>13. ASSUME UNCHANGED <<handlers_, exported, collected, spans_, batch, next>>,
              pc'[Worker] = "exporting" <=> pc[Worker] = "exporting"
       PROVE  (first \o Taken(Worker, 1) \o spans_ = collected)'
  BY <1>13, <1>2 DEF InOrder, ExportedInOrder
<1>14. ASSUME NEW t \in Threads, StartCollecting(t)
       PROVE  (first \o Taken(Worker, 1) \o spans_ = collected)'
  BY <1>14, <1>13 DEF StartCollecting, registry, calls, ExporterInv, Control
<1>15. ASSUME NEW t \in Threads PROVE ~ Export(t)
  BY DEF InOrder, OnlyWorker, Export, LockHandlers, CallHandler, ExportDone
<1>16. CASE StartBatch \/ EnterWait \/ WakeWithNothing \/ Tick
  BY <1>16, <1>13 DEF StartBatch, EnterWait, WakeWithNothing, Tick, registry, calls,
    spanVars, ExporterInv, Control
<1>17. ASSUME NEW t \in Threads, NEW n, SetBatchSize(t, n) \/ SetInterval(t, n)
       PROVE  (first \o Taken(Worker, 1) \o spans_ = collected)'
  BY <1>17, <1>13 DEF SetBatchSize, SetInterval, registry, calls, spanVars
<1>18. CASE UNCHANGED vars
  BY <1>18, <1>13 DEF vars, registry, calls, spanVars
<1> QED
  BY <1>7, <1>8, <1>9, <1>10, <1>11, <1>12, <1>14, <1>15, <1>16, <1>17, <1>18, Testers = {}
  DEF Next, Internal, Call, Continue, RunWorkerLoop, Export

\* Where nobody calls ExportForTesting, the first handler is given the spans in the order
\* in which Span::End handed them to AddSpan, and what it lacks is in the worker's batch
\* or waits in spans_.
THEOREM InOrderOfEnding == Testers = {} => (Spec => []ExportedInOrder)
<1>1. Testers = {} /\ ExporterInv /\ InOrder /\ [Next]_vars => InOrder'
  BY InOrderStep
<1>2. InOrder => ExportedInOrder
  BY DEF InOrder
<1> SUFFICES ASSUME Testers = {} PROVE Spec => []ExportedInOrder
  OBVIOUS
<1>3. ExporterInv /\ InOrder /\ [Next]_vars => InOrder'
  BY <1>1
<1> QED
  BY <1>2, <1>3, InOrderInit, ExporterInvariant, PTL DEF Spec

----------------------------------------------------------------------------
\* All handlers are given the same spans.

\* A suffix, by its elements.
LEMMA SuffixDef ==
  ASSUME NEW S, NEW s \in Seq(S), NEW t \in Seq(S)
  PROVE  IsSuffix(s, t) <=>
           /\ Len(s) <= Len(t)
           /\ \A i \in 1 .. Len(s) : s[i] = t[Len(t) - Len(s) + i]
<1> DEFINE r == Reverse(s)  q == Reverse(t)
<1>1. /\ r \in Seq(S) /\ Len(r) = Len(s)
      /\ \A i \in 1 .. Len(s) : r[i] = s[Len(s) - i + 1]
  BY DEF Reverse
<1>2. /\ q \in Seq(S) /\ Len(q) = Len(t)
      /\ \A i \in 1 .. Len(t) : q[i] = t[Len(t) - i + 1]
  BY DEF Reverse
<1> HIDE DEF r, q
<1>3. IsSuffix(s, t) <=> Len(r) <= Len(q) /\ SubSeq(r, 1, Len(r)) = SubSeq(q, 1, Len(r))
  BY DEF IsSuffix, IsPrefix, r, q
<1>4. SubSeq(r, 1, Len(r)) = r
  BY <1>1, SubSeqFull
<1>5. ASSUME Len(r) <= Len(q)
      PROVE  /\ SubSeq(q, 1, Len(r)) \in Seq(S) /\ Len(SubSeq(q, 1, Len(r))) = Len(r)
             /\ \A i \in 1 .. Len(r) : SubSeq(q, 1, Len(r))[i] = q[i]
  BY <1>1, <1>2, <1>5
<1>6. IsSuffix(s, t) <=> Len(s) <= Len(t) /\ \A i \in 1 .. Len(s) : r[i] = q[i]
  BY <1>1, <1>2, <1>3, <1>4, <1>5, SeqEqual
<1>7. ASSUME Len(s) <= Len(t)
      PROVE  (\A i \in 1 .. Len(s) : r[i] = q[i])
             <=> \A i \in 1 .. Len(s) : s[i] = t[Len(t) - Len(s) + i]
  <2>1. ASSUME \A i \in 1 .. Len(s) : r[i] = q[i], NEW i \in 1 .. Len(s)
        PROVE  s[i] = t[Len(t) - Len(s) + i]
    <3> DEFINE k == Len(s) - i + 1
    <3>1. k \in 1 .. Len(s) /\ Len(s) - k + 1 = i /\ Len(t) - k + 1 = Len(t) - Len(s) + i
      OBVIOUS
    <3> HIDE DEF k
    <3>2. r[k] = s[i]
      BY <1>1, <3>1
    <3>3. k \in 1 .. Len(t)
      BY <1>7, <3>1
    <3>4. q[k] = t[Len(t) - Len(s) + i]
      BY <1>2, <3>1, <3>3
    <3> QED
      BY <2>1, <3>1, <3>2, <3>4
  <2>2. ASSUME \A i \in 1 .. Len(s) : s[i] = t[Len(t) - Len(s) + i], NEW i \in 1 .. Len(s)
        PROVE  r[i] = q[i]
    <3> DEFINE k == Len(s) - i + 1
    <3>1. k \in 1 .. Len(s) /\ Len(t) - i + 1 = Len(t) - Len(s) + k
      OBVIOUS
    <3>2. r[i] = s[k] /\ q[i] = t[Len(t) - Len(s) + k]
      BY <1>1, <1>2, <1>7, <3>1
    <3> HIDE DEF k
    <3> QED
      BY <2>2, <3>1, <3>2
  <2> QED
    BY <2>1, <2>2
<1> QED
  BY <1>6, <1>7

\* What is appended to both keeps a suffix one; the empty sequence always is.
LEMMA SuffixConcat ==
  ASSUME NEW S, NEW s \in Seq(S), NEW t \in Seq(S), NEW u \in Seq(S), IsSuffix(s, t)
  PROVE  IsSuffix(s \o u, t \o u)
<1>1. /\ Len(s) <= Len(t) /\ \A i \in 1 .. Len(s) : s[i] = t[Len(t) - Len(s) + i]
  BY SuffixDef
<1>2. s \o u \in Seq(S) /\ t \o u \in Seq(S)
      /\ Len(s \o u) = Len(s) + Len(u) /\ Len(t \o u) = Len(t) + Len(u)
  OBVIOUS
<1>3. ASSUME NEW i \in 1 .. Len(s) + Len(u)
      PROVE  (s \o u)[i] = (t \o u)[Len(t) - Len(s) + i]
  <2>1. CASE i <= Len(s)
    BY <1>1, <2>1
  <2>2. CASE i > Len(s)
    <3>1. (s \o u)[i] = u[i - Len(s)]
      BY <2>2, ConcatProperties
    <3>2. Len(t) - Len(s) + i \in Len(t) + 1 .. Len(t) + Len(u)
      BY <2>2
    <3>3. (t \o u)[Len(t) - Len(s) + i] = u[Len(t) - Len(s) + i - Len(t)]
      BY <3>2, ConcatProperties
    <3>4. Len(t) - Len(s) + i - Len(t) = i - Len(s)
      OBVIOUS
    <3> QED
      BY <3>1, <3>3, <3>4
  <2>3. i <= Len(s) \/ i > Len(s)
    OBVIOUS
  <2> QED
    BY <2>1, <2>2, <2>3
<1>4. Len(t \o u) - Len(s \o u) = Len(t) - Len(s)
  BY <1>2
<1> DEFINE v == s \o u  w == t \o u
<1>5. v \in Seq(S) /\ w \in Seq(S) /\ Len(v) <= Len(w)
      /\ \A i \in 1 .. Len(v) : v[i] = w[Len(w) - Len(v) + i]
  BY <1>1, <1>2, <1>3, <1>4
<1> HIDE DEF v, w
<1>6. IsSuffix(v, w)
  BY <1>5, SuffixDef
<1> QED
  BY <1>6 DEF v, w

LEMMA EmptySuffix == ASSUME NEW S, NEW t \in Seq(S) PROVE IsSuffix(<<>>, t)
<1> DEFINE none == SubSeq(t, 1, 0)
<1>1. none = <<>> /\ none \in Seq(S) /\ Len(none) = 0 /\ Len(t) \in Nat
  OBVIOUS
<1> HIDE DEF none
<1>2. \A s \in Seq(S) : Len(s) <= Len(t) /\ (\A i \in 1 .. Len(s) : s[i] = t[Len(t) - Len(s) + i])
        => IsSuffix(s, t)
  BY SuffixDef
<1>3. /\ Len(none) <= Len(t)
      /\ \A i \in 1 .. Len(none) : none[i] = t[Len(t) - Len(none) + i]
  BY <1>1
<1>4. IsSuffix(none, t)
  BY <1>1, <1>2, <1>3
<1> QED
  BY <1>1, <1>4

\* One thread at most is calling the handlers, and only it makes a difference to what
\* is due.
LEMMA DueOf ==
  ASSUME ExporterInv, NEW i, NEW t \in AllThreads, pc[t] = "exporting"
  PROVE  Due(i) = IF next[t] <= i THEN exported[handlers_[i]] \o batch[t]
                                  ELSE exported[handlers_[i]]
<1> DEFINE U == {u \in AllThreads : pc[u] = "exporting" /\ next[u] <= i}
<1>1. \A u \in AllThreads : pc[u] = "exporting" => u = t
  BY DEF ExporterInv, Control
<1>2. U = IF next[t] <= i THEN {t} ELSE {}
  BY <1>1
<1>3. U # {} => U = {t} /\ (CHOOSE u \in U : TRUE) = t
  BY <1>2
<1> QED
  BY <1>2, <1>3 DEF Due

LEMMA DueAtRest ==
  ASSUME NEW i, \A t \in AllThreads : pc[t] # "exporting"
  PROVE  Due(i) = exported[handlers_[i]]
  BY DEF Due

\* The same of the next state.
LEMMA DueOfNext ==
  ASSUME ExporterInv', NEW i, NEW t \in AllThreads, pc'[t] = "exporting"
  PROVE  Due(i)' = IF next'[t] <= i THEN exported'[handlers_'[i]] \o batch'[t]
                                    ELSE exported'[handlers_'[i]]
<1> DEFINE U == {u \in AllThreads : pc'[u] = "exporting" /\ next'[u] <= i}
<1>1. \A u \in AllThreads : pc'[u] = "exporting" => u = t
  BY DEF ExporterInv, Control
<1>2. U = IF next'[t] <= i THEN {t} ELSE {}
  BY <1>1
<1>3. U # {} => U = {t} /\ (CHOOSE u \in U : TRUE) = t
  BY <1>2
<1> QED
  BY <1>2, <1>3 DEF Due

LEMMA DueAtRestNext ==
  ASSUME NEW i, \A t \in AllThreads : pc'[t] # "exporting"
  PROVE  Due(i)' = exported'[handlers_'[i]]
  BY DEF Due

\* A step that leaves the handlers, and the export that is under way, alone leaves
\* what is due alone.
LEMMA DueKept ==
  ASSUME ExporterInv, ExporterInv', UNCHANGED <<exported, handlers_>>, NEW i,
         \A t \in AllThreads :
           /\ pc'[t] = "exporting" <=> pc[t] = "exporting"
           /\ pc[t] = "exporting" => batch'[t] = batch[t] /\ next'[t] = next[t]
  PROVE  Due(i)' = Due(i)
<1>1. CASE \E t \in AllThreads : pc[t] = "exporting"
  <2>1. PICK t \in AllThreads : pc[t] = "exporting"
    BY <1>1
  <2>2. Due(i) = IF next[t] <= i THEN exported[handlers_[i]] \o batch[t]
                                 ELSE exported[handlers_[i]]
    BY <2>1, DueOf
  <2>3. pc'[t] = "exporting" /\ batch'[t] = batch[t] /\ next'[t] = next[t]
    BY <2>1
  <2>4. Due(i)' = IF next'[t] <= i THEN exported'[handlers_'[i]] \o batch'[t]
                                   ELSE exported'[handlers_'[i]]
    BY <2>3, DueOfNext
  <2> QED
    BY <2>2, <2>3, <2>4
<1>2. CASE \A t \in AllThreads : pc[t] # "exporting"
  BY <1>2, DueAtRest, DueAtRestNext
<1> QED
  BY <1>1, <1>2

\* HandlersAgree of the next state.
LEMMA AgreeNext ==
  ASSUME \A i, j \in DOMAIN handlers_' : i < j => IsSuffix(Due(j)', Due(i)')
  PROVE  HandlersAgree'
  BY DEF HandlersAgree

LEMMA AgreeKept ==
  ASSUME HandlersAgree, handlers_' = handlers_, \A i \in DOMAIN handlers_ : Due(i)' = Due(i)
  PROVE  HandlersAgree'
<1>1. \A i, j \in DOMAIN handlers_ : i < j => IsSuffix(Due(j)', Due(i)')
  BY DEF HandlersAgree
<1> QED
  BY <1>1, AgreeNext

\* Every step leaves what is due to the handlers alone, or appends the same to all of
\* them, or adds a handler that is due nothing yet.
LEMMA HandlersAgreeStep == ExporterInv /\ ExporterInv' /\ HandlersAgree /\ [Next]_vars => HandlersAgree'
<1> SUFFICES ASSUME ExporterInv, ExporterInv', HandlersAgree, [Next]_vars
             PROVE  HandlersAgree'
  OBVIOUS
<1> USE ThreadsAssumption DEF AllThreads, Goto
<1>1. /\ handlers_ \in Seq(Handlers) /\ exported \in [Handlers -> Seq(Spans)]
      /\ batch \in [AllThreads -> Seq(Spans)] /\ next \in [AllThreads -> Nat]
      /\ pc \in [AllThreads -> {"not_started", "idle", "collect", "loop", "enter",
                                "await", "export", "exporting"}]
  BY DEF ExporterInv, Control, Registry, Batches
<1>0. DOMAIN handlers_ = 1 .. Len(handlers_) /\ Len(handlers_) \in Nat
  BY <1>1
<1>2. ASSUME handlers_' = handlers_, \A i \in DOMAIN handlers_ : Due(i)' = Due(i)
      PROVE  HandlersAgree'
  BY <1>2, AgreeKept
<1>3. ASSUME NEW t \in AllThreads, LockHandlers(t)
      PROVE  HandlersAgree'
  <2>1. /\ \A u \in AllThreads : pc[u] # "exporting"
        /\ UNCHANGED <<handlers_, exported, batch>>
        /\ pc'[t] = "exporting" /\ next'[t] = 1
    BY <1>1, <1>3 DEF LockHandlers, registry, ExporterInv, Control
  <2>2. ASSUME NEW i \in 1 .. Len(handlers_)
        PROVE  /\ Due(i) \in Seq(Spans) /\ batch[t] \in Seq(Spans)
               /\ Due(i)' = Due(i) \o batch[t]
    <3>1. Due(i) = exported[handlers_[i]] /\ exported[handlers_[i]] \in Seq(Spans)
      BY <1>1, <2>1, DueAtRest
    <3>2. Due(i)' = IF next'[t] <= i THEN exported'[handlers_'[i]] \o batch'[t]
                                     ELSE exported'[handlers_'[i]]
      BY <2>1, DueOfNext
    <3>3. next'[t] <= i
      BY <2>1
    <3> QED
      BY <1>1, <2>1, <3>1, <3>2, <3>3
  <2>3. ASSUME NEW i \in DOMAIN handlers_, NEW j \in DOMAIN handlers_, i < j
        PROVE  IsSuffix(Due(j)', Due(i)')
    <3>1. IsSuffix(Due(j), Due(i))
      BY <2>3 DEF HandlersAgree
    <3>2. /\ Due(i) \in Seq(Spans) /\ Due(j) \in Seq(Spans) /\ batch[t] \in Seq(Spans)
          /\ Due(i)' = Due(i) \o batch[t] /\ Due(j)' = Due(j) \o batch[t]
      BY <2>2, <1>0
    <3>3. IsSuffix(Due(j) \o batch[t], Due(i) \o batch[t])
      BY <3>1, <3>2, SuffixConcat
    <3> QED
      BY <3>2, <3>3
  <2> QED
    BY <2>1, <2>3, AgreeNext
<1>4. ASSUME NEW t \in AllThreads, CallHandler(t)
      PROVE  HandlersAgree'
  <2>1. /\ UNCHANGED <<handlers_, batch, pc>>
        /\ pc[t] = "exporting" /\ next'[t] = next[t] + 1
        /\ next[t] \in 1 .. Len(handlers_)
        /\ exported' = [exported EXCEPT ![handlers_[next[t]]] = @ \o batch[t]]
    BY <1>1, <1>4 DEF CallHandler, registry, ExporterInv, Batches
  <2>2. ASSUME NEW i \in 1 .. Len(handlers_)
        PROVE  Due(i)' = Due(i)
    <3>1. /\ Due(i) = IF next[t] <= i THEN exported[handlers_[i]] \o batch[t]
                                      ELSE exported[handlers_[i]]
          /\ Due(i)' = IF next'[t] <= i THEN exported'[handlers_[i]] \o batch[t]
                                        ELSE exported'[handlers_[i]]
      BY <2>1, DueOf, DueOfNext
    <3>2. CASE i = next[t]
      <4>1. handlers_[i] \in Handlers
        BY <1>1
      <4>2. exported'[handlers_[i]] = exported[handlers_[i]] \o batch[t]
        BY <2>1, <3>2, <4>1, <1>1
      <4>3. next[t] <= i /\ ~ next'[t] <= i
        BY <2>1, <3>2
      <4> QED
        BY <3>1, <4>2, <4>3
    <3>3. CASE i # next[t]
      <4>1. handlers_[i] # handlers_[next[t]]
        BY <2>1, <3>3 DEF ExporterInv, Registry
      <4>2. exported'[handlers_[i]] = exported[handlers_[i]]
        BY <2>1, <4>1, <1>1
      <4>3. next[t] <= i <=> next'[t] <= i
        BY <2>1, <3>3
      <4> QED
        BY <3>1, <4>2, <4>3
    <3> QED
      BY <3>2, <3>3
  <2> QED
    BY <2>1, <2>2, <1>0, <1>2
<1>5. ASSUME NEW t \in AllThreads, ExportDone(t)
      PROVE  HandlersAgree'
  <2>1. /\ UNCHANGED <<handlers_, exported>> /\ pc[t] = "exporting"
        /\ next[t] > Len(handlers_) /\ \A u \in AllThreads : pc'[u] # "exporting"
    BY <1>1, <1>5 DEF ExportDone, registry, ExporterInv, Control
  <2>2. ASSUME NEW i \in 1 .. Len(handlers_)
        PROVE  Due(i)' = Due(i)
    <3>1. ~ next[t] <= i
      BY <2>1, <1>1
    <3> QED
      BY <2>1, <3>1, DueOf, DueAtRestNext
  <2> QED
    BY <2>1, <2>2, <1>0, <1>2
<1>6. ASSUME NEW t \in Threads, NEW h \in Handlers, RegisterHandler(t, h)
      PROVE  HandlersAgree'
  <2>1. /\ handlers_' = Append(handlers_, h) /\ UNCHANGED <<exported, batch, next>>
        /\ exported[h] = <<>>
        /\ \A u \in AllThreads : pc[u] # "exporting" /\ pc'[u] # "exporting"
    BY <1>1, <1>6 DEF RegisterHandler, calls, ExporterInv, Control, Registry
  <2>2. ASSUME NEW i \in 1 .. Len(handlers_)
        PROVE  Due(i)' = Due(i) /\ Due(i) \in Seq(Spans)
    <3>1. handlers_'[i] = handlers_[i] /\ exported[handlers_[i]] \in Seq(Spans)
      BY <2>1, <1>1
    <3> QED
      BY <2>1, <3>1, DueAtRest, DueAtRestNext
  <2>3. ASSUME NEW k, k = Len(handlers_) + 1
        PROVE  Due(k)' = <<>>
    <3>1. handlers_'[k] = h
      BY <2>1, <2>3, <1>1
    <3>2. Due(k)' = exported'[handlers_'[k]]
      BY <2>1, DueAtRestNext
    <3> QED
      BY <2>1, <3>1, <3>2
  <2>4. DOMAIN handlers_' = 1 .. Len(handlers_) + 1
    BY <2>1, <1>1
  <2>5. ASSUME NEW i \in DOMAIN handlers_', NEW j \in DOMAIN handlers_', i < j
        PROVE  IsSuffix(Due(j)', Due(i)')
    <3>1. i \in DOMAIN handlers_ /\ (j \in DOMAIN handlers_ \/ j = Len(handlers_) + 1)
      BY <2>4, <2>5, <1>0
    <3>2. Due(i)' = Due(i) /\ Due(i) \in Seq(Spans)
      BY <2>2, <3>1, <1>0
    <3>3. CASE j = Len(handlers_) + 1
      <4>1. IsSuffix(<<>>, Due(i))
        BY <3>2, EmptySuffix
      <4> QED
        BY <2>3, <3>2, <3>3, <4>1
    <3>4. CASE j \in DOMAIN handlers_
      <4>1. IsSuffix(Due(j), Due(i))
        BY <2>5, <3>1, <3>4 DEF HandlersAgree
      <4>2. Due(j)' = Due(j)
        BY <2>2, <3>4, <1>0
      <4> QED
        BY <3>2, <4>1, <4>2
    <3> QED
      BY <3>1, <3>3, <3>4
  <2> QED
    BY <2>5, AgreeNext
<1>7. ASSUME UNCHANGED <<exported, handlers_>>,
             \A t \in AllThreads :
               /\ pc'[t] = "exporting" <=> pc[t] = "exporting"
               /\ pc[t] = "exporting" => batch'[t] = batch[t] /\ next'[t] = next[t]
      PROVE  HandlersAgree'
  BY <1>2, <1>7, DueKept
<1>8. ASSUME NEW t \in AllThreads, (WakeWithSpans /\ t = Worker) \/ ExportForTesting(t)
      PROVE  HandlersAgree'
  <2>1. /\ batch' = [batch EXCEPT ![t] = spans_]
        /\ pc' = [pc EXCEPT ![t] = "export"] /\ pc[t] # "exporting"
        /\ UNCHANGED <<exported, handlers_, next>>
    BY <1>8 DEF WakeWithSpans, WakeWith, ExportForTesting, TakeSpans, registry
  <2> QED
    BY <2>1, <1>1, <1>7
<1>9. CASE StartBatch \/ EnterWait \/ WakeWithNothing \/ Tick
  BY <1>1, <1>7, <1>9 DEF StartBatch, EnterWait, WakeWithNothing, Tick, registry, calls
<1>10. ASSUME NEW t \in Threads, NEW n,
              SetBatchSize(t, n) \/ SetInterval(t, n) \/ StartCollecting(t)
       PROVE  HandlersAgree'
  BY <1>1, <1>7, <1>10 DEF SetBatchSize, SetInterval, StartCollecting, registry, calls
<1>11. ASSUME NEW s, AddSpan(s)
       PROVE  HandlersAgree'
  BY <1>7, <1>11 DEF AddSpan, registry, calls
<1>12. CASE UNCHANGED vars
  BY <1>7, <1>12 DEF vars, registry, calls
<1> QED
  BY <1>3, <1>4, <1>5, <1>6, <1>8, <1>9, <1>10, <1>11, <1>12
  DEF Next, Internal, Call, Continue, RunWorkerLoop, Export

\* At the start there is no handler.
LEMMA HandlersAgreeInit == Init => HandlersAgree
  BY DEF Init, HandlersAgree

\* A handler that is registered late is given the same spans as the earlier ones from
\* then on, in the same order, whoever exports: SpanExporterImpl::Export calls all of
\* them under handler_mu_.
THEOREM HandlersGivenTheSame == Spec => []HandlersAgree
  BY HandlersAgreeInit, HandlersAgreeStep, ExporterInvariant, PTL DEF Spec
----------------------------------------------------------------------------
\* Each span is in one place.

\* The elements of a concatenation, and when it holds none twice.
LEMMA RangeConcat ==
  ASSUME NEW S, NEW s \in Seq(S), NEW t \in Seq(S)
  PROVE  /\ s \o t \in Seq(S) /\ Range(s \o t) = Range(s) \cup Range(t)
         /\ IsInjective(s \o t) <=>
              IsInjective(s) /\ IsInjective(t) /\ Range(s) \cap Range(t) = {}
<1> DEFINE u == s \o t
<1>1. /\ u \in Seq(S) /\ DOMAIN u = 1 .. Len(s) + Len(t)
      /\ DOMAIN s = 1 .. Len(s) /\ DOMAIN t = 1 .. Len(t)
      /\ Len(s) \in Nat /\ Len(t) \in Nat
  OBVIOUS
<1>2. \A i \in DOMAIN s : i \in DOMAIN u /\ u[i] = s[i]
  OBVIOUS
<1>3. \A i \in DOMAIN t : Len(s) + i \in DOMAIN u /\ u[Len(s) + i] = t[i]
  OBVIOUS
<1>4. \A i \in DOMAIN u : i \in DOMAIN s \/ i - Len(s) \in DOMAIN t
  OBVIOUS
<1> HIDE DEF u
<1>5. \A i \in DOMAIN u : \/ i \in DOMAIN s /\ u[i] = s[i]
                          \/ i - Len(s) \in DOMAIN t /\ u[i] = t[i - Len(s)]
  BY <1>1, <1>2, <1>3, <1>4
<1>6. Range(u) = Range(s) \cup Range(t)
  BY <1>2, <1>3, <1>5 DEF Range
<1>7. ASSUME IsInjective(u)
      PROVE  IsInjective(s) /\ IsInjective(t) /\ Range(s) \cap Range(t) = {}
  <2>1. IsInjective(s)
    BY <1>2, <1>7 DEF IsInjective
  <2>2. ASSUME NEW i \in DOMAIN t, NEW j \in DOMAIN t, t[i] = t[j]
        PROVE  i = j
    <3>1. Len(s) + i = Len(s) + j
      BY <1>3, <1>7, <2>2 DEF IsInjective
    <3> QED
      BY <1>1, <3>1
  <2>3. ASSUME NEW i \in DOMAIN s, NEW j \in DOMAIN t, s[i] = t[j]
        PROVE  FALSE
    <3>1. i = Len(s) + j
      BY <1>2, <1>3, <1>7, <2>3 DEF IsInjective
    <3> QED
      BY <1>1, <3>1
  <2> QED
    BY <2>1, <2>2, <2>3 DEF IsInjective, Range
<1>8. ASSUME IsInjective(s), IsInjective(t), Range(s) \cap Range(t) = {},
             NEW i \in DOMAIN u, NEW j \in DOMAIN u, u[i] = u[j]
      PROVE  i = j
  <2>1. \A k \in DOMAIN s, l \in DOMAIN t : s[k] # t[l]
    BY <1>8 DEF Range
  <2>2. CASE i \in DOMAIN s /\ u[i] = s[i] /\ j \in DOMAIN s /\ u[j] = s[j]
    BY <1>8, <2>2 DEF IsInjective
  <2>3. CASE /\ i - Len(s) \in DOMAIN t /\ u[i] = t[i - Len(s)]
             /\ j - Len(s) \in DOMAIN t /\ u[j] = t[j - Len(s)]
    <3>1. i - Len(s) = j - Len(s)
      BY <1>8, <2>3 DEF IsInjective
    <3> QED
      BY <1>1, <3>1
  <2> QED
    BY <1>5, <1>8, <2>1, <2>2, <2>3
<1> QED
  BY <1>1, <1>6, <1>7, <1>8 DEF IsInjective, u

\* The same of one more element.
LEMMA RangeAppend ==
  ASSUME NEW S, NEW s \in Seq(S), NEW e \in S
  PROVE  /\ Append(s, e) \in Seq(S) /\ Range(Append(s, e)) = Range(s) \cup {e}
         /\ IsInjective(Append(s, e)) <=> IsInjective(s) /\ e \notin Range(s)
<1>1. Append(s, e) = s \o <<e>> /\ <<e>> \in Seq(S)
  OBVIOUS
<1>2. Range(<<e>>) = {e} /\ IsInjective(<<e>>)
  BY DEF Range, IsInjective
<1>3. /\ Range(s \o <<e>>) = Range(s) \cup {e} /\ s \o <<e>> \in Seq(S)
      /\ IsInjective(s \o <<e>>) <=> IsInjective(s) /\ Range(s) \cap {e} = {}
  BY <1>1, <1>2, RangeConcat
<1> QED
  BY <1>1, <1>3

LEMMA RangeEmpty == Range(<<>>) = {} /\ IsInjective(<<>>)
  BY DEF Range, IsInjective

\* A sequence without repetitions is as long as the set of its elements.
LEMMA LenOfInjective ==
  ASSUME NEW S, NEW s \in Seq(S), IsInjective(s)
  PROVE  /\ IsFiniteSet(Range(s)) /\ Cardinality(Range(s)) = Len(s)
<1> DEFINE D == 1 .. Len(s)  R == Range(s)
<1>1. DOMAIN s = D /\ s \in [D -> R] /\ Len(s) \in Nat
  BY DEF Range
<1>2. IsFiniteSet(D) /\ Cardinality(D) = Len(s)
  <2>1. \A n \in Nat : IsFiniteSet(1 .. n) /\ Cardinality(1 .. n) = n
    <3> SUFFICES ASSUME NEW n \in Nat PROVE IsFiniteSet(1 .. n) /\ Cardinality(1 .. n) = n
      OBVIOUS
    <3>1. /\ IsFiniteSet(1 .. n)
          /\ Cardinality(1 .. n) = IF 1 > n THEN 0 ELSE n - 1 + 1
      BY FS_Interval
    <3> QED
      BY <3>1
  <2> QED
    BY <1>1, <2>1
<1>3. s \in Surjection(D, R)
  BY <1>1 DEF Surjection, Range
<1>4. s \in Injection(D, R)
  BY <1>1 DEF Injection, IsInjective
<1> HIDE DEF D, R
<1>5. IsFiniteSet(R) /\ Cardinality(R) = Cardinality(D)
  BY <1>2, <1>3, <1>4, FS_Surjection
<1> QED
  BY <1>2, <1>5 DEF R

\* No place has a span twice, and no two places have the same.
Apart ==
  /\ IsInjective(First) /\ IsInjective(spans_)
  /\ Range(First) \cap Range(spans_) = {}
  /\ \A t \in AllThreads :
       /\ IsInjective(Taken(t, 1))
       /\ Range(Taken(t, 1)) \cap Range(First) = {}
       /\ Range(Taken(t, 1)) \cap Range(spans_) = {}
  /\ \A t, u \in AllThreads :
       t # u => Range(Taken(t, 1)) \cap Range(Taken(u, 1)) = {}

\* What was collected has ended, and is in one of the places.
Kept ==
  /\ IsInjective(collected) /\ Range(collected) \subseteq ended
  /\ Range(collected) =
       Range(First) \cup Range(spans_) \cup UNION {Range(Taken(t, 1)) : t \in AllThreads}

OnePlace == Apart /\ Kept

\* The places hold sequences of spans.
LEMMA PlacesType ==
  ASSUME ExporterInv
  PROVE  /\ First \in Seq(Spans) /\ spans_ \in Seq(Spans) /\ collected \in Seq(Spans)
         /\ \A t \in AllThreads : Taken(t, 1) \in Seq(Spans)
<1>1. <<>> \in Seq(Spans)
  OBVIOUS
<1>2. handlers_ # <<>> => handlers_[1] \in Handlers
  BY DEF ExporterInv, Registry
<1> QED
  BY <1>1, <1>2 DEF ExporterInv, Registry, Batches, First, Taken

\* Without repetitions in each place and over two of them there are none over all.
LEMMA OnePlaceIs ==
  ASSUME ExporterInv PROVE OnePlace => SpansInOnePlace
<1> SUFFICES ASSUME OnePlace PROVE SpansInOnePlace
  OBVIOUS
<1>1. ASSUME NEW t \in AllThreads
      PROVE  IsInjective(First \o spans_ \o Taken(t, 1))
  <2>1. /\ First \o spans_ \in Seq(Spans) /\ IsInjective(First \o spans_)
        /\ Range(First \o spans_) = Range(First) \cup Range(spans_)
    BY PlacesType, RangeConcat DEF OnePlace, Apart
  <2>2. Range(First \o spans_) \cap Range(Taken(t, 1)) = {}
    BY <2>1 DEF OnePlace, Apart
  <2> QED
    BY <2>1, <2>2, PlacesType, RangeConcat DEF OnePlace, Apart
<1> QED
  BY <1>1 DEF SpansInOnePlace, OnePlace, Apart, Kept

\* At the start there are no spans.
LEMMA OnePlaceInit == Init => OnePlace
<1> SUFFICES ASSUME Init PROVE OnePlace
  OBVIOUS
<1>1. /\ First = <<>> /\ spans_ = <<>> /\ collected = <<>>
      /\ \A t \in AllThreads : Taken(t, 1) = <<>>
  BY DEF Init, First, Taken
<1> QED
  BY <1>1, RangeEmpty DEF OnePlace, Apart, Kept

\* Of what a step does to the places, the invariant needs to know only this.  They may
\* all be left alone.
LEMMA PlacesKept ==
  ASSUME OnePlace, UNCHANGED <<First, spans_, collected>>, ended \subseteq ended',
         \A t \in AllThreads : Taken(t, 1)' = Taken(t, 1)
  PROVE  OnePlace'
<1>1. Apart'
  BY DEF OnePlace, Apart
<1>2. Kept'
  <2>1. UNION {Range(Taken(t, 1)') : t \in AllThreads} = UNION {Range(Taken(t, 1)) : t \in AllThreads}
    OBVIOUS
  <2> QED
    BY <2>1 DEF OnePlace, Kept
<1> QED
  BY <1>1, <1>2 DEF OnePlace

\* A span that has just ended may be put with the others.
LEMMA PlacesGrow ==
  ASSUME ExporterInv, OnePlace, NEW s \in Spans, s \notin ended, ended' = ended \cup {s},
         spans_' = Append(spans_, s), collected' = Append(collected, s), First' = First,
         \A t \in AllThreads : Taken(t, 1)' = Taken(t, 1)
  PROVE  OnePlace'
<1>1. /\ Range(spans_') = Range(spans_) \cup {s} /\ Range(collected') = Range(collected) \cup {s}
      /\ IsInjective(spans_') <=> IsInjective(spans_) /\ s \notin Range(spans_)
      /\ IsInjective(collected') <=> IsInjective(collected) /\ s \notin Range(collected)
  BY PlacesType, RangeAppend
<1>2. s \notin Range(collected)
  BY DEF OnePlace, Kept
<1>3. s \notin Range(First) /\ s \notin Range(spans_) /\ \A t \in AllThreads : s \notin Range(Taken(t, 1))
  BY <1>2 DEF OnePlace, Kept
<1>4. Apart'
  BY <1>1, <1>3 DEF OnePlace, Apart
<1>5. Kept'
  <2>1. UNION {Range(Taken(t, 1)') : t \in AllThreads} = UNION {Range(Taken(t, 1)) : t \in AllThreads}
    OBVIOUS
  <2> QED
    BY <1>1, <1>2, <2>1 DEF OnePlace, Kept
<1> QED
  BY <1>4, <1>5 DEF OnePlace

\* A thread that has none may take those of spans_.
LEMMA PlacesTaken ==
  ASSUME OnePlace, NEW t \in AllThreads, Taken(t, 1) = <<>>,
         Taken(t, 1)' = spans_, spans_' = <<>>, UNCHANGED <<First, collected, ended>>,
         \A u \in AllThreads \ {t} : Taken(u, 1)' = Taken(u, 1)
  PROVE  OnePlace'
<1>1. Apart'
  BY RangeEmpty DEF OnePlace, Apart
<1>2. Kept'
  <2>1. Range(spans_) \cup UNION {Range(Taken(u, 1)) : u \in AllThreads}
        = Range(spans_') \cup UNION {Range(Taken(u, 1)') : u \in AllThreads}
    BY RangeEmpty
  <2> QED
    BY <2>1 DEF OnePlace, Kept
<1> QED
  BY <1>1, <1>2 DEF OnePlace

\* A thread may give those it has to the first handler.
LEMMA PlacesGiven ==
  ASSUME ExporterInv, OnePlace, NEW t \in AllThreads,
         First' = First \o Taken(t, 1), Taken(t, 1)' = <<>>,
         UNCHANGED <<spans_, collected, ended>>,
         \A u \in AllThreads \ {t} : Taken(u, 1)' = Taken(u, 1)
  PROVE  OnePlace'
<1>1. /\ Range(First') = Range(First) \cup Range(Taken(t, 1))
      /\ IsInjective(First')
  BY PlacesType, RangeConcat DEF OnePlace, Apart
<1>2. Apart'
  BY <1>1, RangeEmpty DEF OnePlace, Apart
<1>3. Kept'
  <2>1. Range(First) \cup UNION {Range(Taken(u, 1)) : u \in AllThreads}
        = Range(First') \cup UNION {Range(Taken(u, 1)') : u \in AllThreads}
    BY <1>1, RangeEmpty
  <2> QED
    BY <2>1 DEF OnePlace, Kept
<1> QED
  BY <1>2, <1>3 DEF OnePlace

\* Every step does one of these.
LEMMA OnePlaceStep == ExporterInv /\ OnePlace /\ [Next]_vars => OnePlace'
<1> SUFFICES ASSUME ExporterInv, OnePlace, [Next]_vars PROVE OnePlace'
  OBVIOUS
<1> USE ThreadsAssumption DEF AllThreads, Goto
<1>1. /\ handlers_ \in Seq(Handlers) /\ exported \in [Handlers -> Seq(Spans)]
      /\ batch \in [AllThreads -> Seq(Spans)] /\ next \in [AllThreads -> Nat]
      /\ pc \in [AllThreads -> {"not_started", "idle", "collect", "loop", "enter",
                                "await", "export", "exporting"}]
      /\ \A t \in AllThreads : pc[t] \notin {"export", "exporting"} => batch[t] = <<>>
  BY DEF ExporterInv, Control, Registry, Batches
<1>2. ASSUME NEW s \in Spans, AddSpan(s)
      PROVE  OnePlace'
  <2>1. /\ s \notin ended /\ ended' = ended \cup {s} /\ UNCHANGED First
        /\ \A t \in AllThreads : Taken(t, 1)' = Taken(t, 1)
    BY <1>2 DEF AddSpan, registry, calls, First, Taken
  <2>2. CASE collect_spans_
    BY <1>2, <2>1, <2>2, PlacesGrow DEF AddSpan
  <2>3. CASE ~ collect_spans_
    BY <1>2, <2>1, <2>3, PlacesKept DEF AddSpan
  <2> QED
    BY <2>2, <2>3
<1>3. ASSUME NEW t \in AllThreads, (WakeWithSpans /\ t = Worker) \/ ExportForTesting(t)
      PROVE  OnePlace'
  <2>1. /\ batch' = [batch EXCEPT ![t] = spans_] /\ spans_' = <<>>
        /\ pc' = [pc EXCEPT ![t] = "export"] /\ pc[t] \in {"await", "idle"}
        /\ UNCHANGED <<exported, handlers_, next, collected, ended>>
    BY <1>3 DEF WakeWithSpans, WakeWith, ExportForTesting, TakeSpans, registry
  <2>2. /\ Taken(t, 1) = <<>> /\ Taken(t, 1)' = spans_ /\ UNCHANGED First
        /\ \A u \in AllThreads \ {t} : Taken(u, 1)' = Taken(u, 1)
    BY <1>1, <2>1 DEF Taken, First
  <2> QED
    BY <2>1, <2>2, PlacesTaken
<1>4. ASSUME NEW t \in AllThreads, LockHandlers(t)
      PROVE  OnePlace'
  <2>1. /\ pc' = [pc EXCEPT ![t] = "exporting"] /\ pc[t] = "export"
        /\ next' = [next EXCEPT ![t] = 1] /\ UNCHANGED batch
        /\ UNCHANGED <<handlers_, exported, spans_, collected, ended>>
    BY <1>4 DEF LockHandlers, registry, spanVars
  <2>2. UNCHANGED First /\ \A u \in AllThreads : Taken(u, 1)' = Taken(u, 1)
    BY <1>1, <2>1 DEF Taken, First
  <2> QED
    BY <2>1, <2>2, PlacesKept
<1>5. ASSUME NEW t \in AllThreads, CallHandler(t)
      PROVE  OnePlace'
  <2>1. /\ pc[t] = "exporting" /\ next[t] \in 1 .. Len(handlers_)
        /\ exported' = [exported EXCEPT ![handlers_[next[t]]] = @ \o batch[t]]
        /\ next' = [next EXCEPT ![t] = @ + 1]
        /\ UNCHANGED <<handlers_, spans_, collected, ended, batch, pc>>
    BY <1>1, <1>5 DEF CallHandler, registry, spanVars, ExporterInv, Batches
  <2>2. handlers_ # <<>> /\ handlers_[1] \in Handlers /\ handlers_[next[t]] \in Handlers
    BY <1>1, <2>1
  <2>3. \A u \in AllThreads \ {t} : Taken(u, 1)' = Taken(u, 1)
    BY <1>1, <2>1 DEF Taken
  <2>4. CASE next[t] = 1
    <3>1. exported'[handlers_[1]] = exported[handlers_[1]] \o batch[t]
      BY <1>1, <2>1, <2>2, <2>4
    <3>2. First = exported[handlers_[1]] /\ First' = exported'[handlers_[1]]
      BY <2>1, <2>2 DEF First
    <3>3. Taken(t, 1) = batch[t] /\ Taken(t, 1)' = <<>>
      BY <1>1, <2>1, <2>4 DEF Taken
    <3> QED
      BY <2>1, <2>3, <3>1, <3>2, <3>3, PlacesGiven
  <2>5. CASE next[t] # 1
    <3>1. handlers_[next[t]] # handlers_[1]
      BY <1>1, <2>1, <2>2, <2>5 DEF ExporterInv, Registry
    <3>2. First' = First
      BY <1>1, <2>1, <2>2, <3>1 DEF First
    <3>3. Taken(t, 1)' = Taken(t, 1)
      BY <1>1, <2>1, <2>5 DEF Taken
    <3> QED
      BY <2>1, <2>3, <3>2, <3>3, PlacesKept
  <2> QED
    BY <2>4, <2>5
<1>6. ASSUME NEW t \in AllThreads, ExportDone(t)
      PROVE  OnePlace'
  <2>1. /\ pc[t] = "exporting" /\ next[t] > Len(handlers_)
        /\ batch' = [batch EXCEPT ![t] = <<>>] /\ next' = [next EXCEPT ![t] = 0]
        /\ pc' = [pc EXCEPT ![t] = IF t = Worker THEN "loop" ELSE "idle"]
        /\ UNCHANGED <<handlers_, exported, spans_, collected, ended>>
    BY <1>6 DEF ExportDone, registry, spanVars
  <2>2. Taken(t, 1) = <<>>
    <3>1. CASE handlers_ = <<>>
      <4>1. Range(Taken(t, 1)) = {}
        BY <3>1, RangeEmpty DEF ExporterInv, Started, OnePlace, Kept
      <4>2. Taken(t, 1) \in Seq(Spans)
        BY PlacesType
      <4>3. \A q \in Seq(Spans) : Range(q) = {} => q = <<>>
        <5>1. \A q \in Seq(Spans) : q # <<>> => 1 \in DOMAIN q
          OBVIOUS
        <5> QED
          BY <5>1 DEF Range
      <4> QED
        BY <4>1, <4>2, <4>3
    <3>2. CASE handlers_ # <<>>
      <4>1. next[t] > 1
        BY <1>1, <2>1, <3>2
      <4> QED
        BY <2>1, <4>1 DEF Taken
    <3> QED
      BY <3>1, <3>2
  <2>3. Taken(t, 1)' = <<>>
    BY <1>1, <2>1 DEF Taken
  <2>4. UNCHANGED First /\ \A u \in AllThreads \ {t} : Taken(u, 1)' = Taken(u, 1)
    BY <1>1, <2>1 DEF Taken, First
  <2> QED
    BY <2>1, <2>2, <2>3, <2>4, PlacesKept
<1>7. ASSUME NEW t \in Threads, NEW h \in Handlers, RegisterHandler(t, h)
      PROVE  OnePlace'
  <2>1. /\ handlers_' = Append(handlers_, h) /\ exported[h] = <<>>
        /\ UNCHANGED <<exported, batch, next, spans_, collected, ended>>
    BY <1>7 DEF RegisterHandler, calls, spanVars, ExporterInv, Registry
  <2>2. First' = First
    <3>1. CASE handlers_ = <<>>
      <4>1. handlers_' # <<>> /\ handlers_'[1] = h
        BY <2>1, <3>1
      <4> QED
        BY <2>1, <3>1, <4>1 DEF First
    <3>2. CASE handlers_ # <<>>
      <4>1. \A q \in Seq(Handlers), e \in Handlers :
              q # <<>> => Append(q, e) # <<>> /\ Append(q, e)[1] = q[1]
        OBVIOUS
      <4>2. handlers_' # <<>> /\ handlers_'[1] = handlers_[1]
        BY <1>1, <2>1, <3>2, <4>1
      <4> QED
        BY <2>1, <3>2, <4>2 DEF First
    <3> QED
      BY <3>1, <3>2
  <2>3. \A u \in AllThreads : pc'[u] = "exporting" <=> pc[u] = "exporting"
    BY <1>1, <1>7 DEF RegisterHandler, ExporterInv, Started
  <2> QED
    BY <2>1, <2>2, <2>3, PlacesKept DEF Taken
<1>8. ASSUME UNCHANGED <<exported, handlers_, batch, next, spans_, collected, ended>>,
             \A u \in AllThreads : pc'[u] = "exporting" <=> pc[u] = "exporting"
      PROVE  OnePlace'
  BY <1>8, PlacesKept DEF First, Taken
<1>9. CASE StartBatch \/ EnterWait \/ WakeWithNothing \/ Tick
  BY <1>1, <1>8, <1>9 DEF StartBatch, EnterWait, WakeWithNothing, Tick, registry, calls,
    spanVars
<1>10. ASSUME NEW t \in Threads, NEW n,
              SetBatchSize(t, n) \/ SetInterval(t, n) \/ StartCollecting(t)
       PROVE  OnePlace'
  BY <1>1, <1>8, <1>10 DEF SetBatchSize, SetInterval, StartCollecting, registry, calls,
    spanVars
<1>11. CASE UNCHANGED vars
  BY <1>8, <1>11 DEF vars, registry, calls, spanVars
<1> QED
  BY <1>2, <1>3, <1>4, <1>5, <1>6, <1>7, <1>9, <1>10, <1>11
  DEF Next, Internal, Call, Continue, RunWorkerLoop, Export

\* SpanExporterImpl neither loses nor doubles a span it has collected, whoever takes
\* batches and while handlers are registered: each is among spans_, in one thread's
\* batch, or with the first handler, and only there.
THEOREM EachSpanInOnePlace == Spec => []SpansInOnePlace
<1>1. ExporterInv /\ OnePlace => SpansInOnePlace
  BY OnePlaceIs
<1> QED
  BY <1>1, OnePlaceInit, OnePlaceStep, ExporterInvariant, PTL DEF Spec

----------------------------------------------------------------------------
\* The exporter is a log.

\* No more is with the first handler than was collected, and a span that ends is not
\* among those collected yet.
LEMMA LogLengths ==
  ExporterInv /\ OnePlace =>
    /\ Len(First) \in Nat /\ Len(collected) \in Nat /\ Len(First) <= Len(collected)
    /\ \A s \in Spans \ ended : Len(collected) < Cardinality(Spans)
    /\ Delivered = 1 .. Len(First)
<1> SUFFICES ASSUME ExporterInv, OnePlace
             PROVE  /\ Len(First) \in Nat /\ Len(collected) \in Nat
                    /\ Len(First) <= Len(collected)
                    /\ \A s \in Spans \ ended : Len(collected) < Cardinality(Spans)
                    /\ Delivered = 1 .. Len(First)
  OBVIOUS
<1>1. Len(First) \in Nat /\ Len(collected) \in Nat
  BY PlacesType
<1>2. Len(First) <= Len(collected)
  <2>1. /\ IsFiniteSet(Range(collected)) /\ Cardinality(Range(collected)) = Len(collected)
        /\ Cardinality(Range(First)) = Len(First)
    BY PlacesType, LenOfInjective DEF OnePlace, Apart, Kept
  <2>2. Range(First) \in SUBSET Range(collected)
    BY DEF OnePlace, Kept
  <2> QED
    BY <2>1, <2>2, FS_Subset
<1>3. ASSUME NEW s \in Spans, s \notin ended
      PROVE  Len(collected) < Cardinality(Spans)
  <2>1. IsFiniteSet(Range(collected)) /\ Cardinality(Range(collected)) = Len(collected)
    BY PlacesType, LenOfInjective DEF OnePlace, Kept
  <2>2. Range(collected) \in SUBSET (Spans \ {s})
    <3>1. Range(collected) \subseteq Spans
      BY PlacesType DEF Range
    <3> QED
      BY <1>3, <3>1 DEF OnePlace, Kept
  <2>3. /\ IsFiniteSet(Spans \ {s}) /\ Cardinality(Spans \ {s}) = Cardinality(Spans) - 1
        /\ Cardinality(Spans) \in Nat
    BY ParametersAssumption, FS_RemoveElement, FS_CardinalityType
  <2>4. Cardinality(Range(collected)) <= Cardinality(Spans \ {s})
    BY <2>2, <2>3, FS_Subset
  <2> QED
    BY <1>1, <2>1, <2>3, <2>4
<1>4. Delivered = 1 .. Len(First)
  <2>1. CASE handlers_ = <<>>
    BY <2>1 DEF Delivered, First
  <2>2. CASE handlers_ # <<>>
    BY <2>2, PlacesType DEF Delivered, First
  <2> QED
    BY <2>1, <2>2
<1> QED
  BY <1>1, <1>2, <1>3, <1>4

\* The same of the next state.
LEMMA LogLengthsNext ==
  ExporterInv' /\ OnePlace' =>
    /\ Len(First') \in Nat /\ Len(First') <= Len(collected')
    /\ Delivered' = 1 .. Len(First')
<1>1. ExporterInv /\ OnePlace =>
        Len(First) \in Nat /\ Len(First) <= Len(collected) /\ Delivered = 1 .. Len(First)
  BY LogLengths
<1>2. (ExporterInv /\ OnePlace =>
         Len(First) \in Nat /\ Len(First) <= Len(collected) /\ Delivered = 1 .. Len(First))'
  BY <1>1, PTL
<1> QED
  BY <1>2

\* At the start the log is empty.
LEMMA LogInit == Init => Log!Init
  BY DEF Init, Log!Init, Delivered

\* What AddSpan collects is recorded; the batch the first handler is given is the
\* harvest, if it is not empty; all else leaves the log alone.
LEMMA LogStep ==
  ASSUME ExporterInv, ExporterInv', OnePlace, OnePlace', [Next]_vars
  PROVE  [Log!Record \/ Log!Harvest]_<<Len(collected), Delivered>>
<1> USE ThreadsAssumption DEF AllThreads, Goto
<1>1. /\ handlers_ \in Seq(Handlers) /\ exported \in [Handlers -> Seq(Spans)]
      /\ batch \in [AllThreads -> Seq(Spans)] /\ next \in [AllThreads -> Nat]
  BY DEF ExporterInv, Registry, Batches
<1>2. /\ Delivered = 1 .. Len(First) /\ Delivered' = 1 .. Len(First')
      /\ Len(First') <= Len(collected') /\ Len(First') \in Nat /\ Len(First) \in Nat
      /\ Len(collected) \in Nat
  BY LogLengths, LogLengthsNext
<1>3. ASSUME NEW s \in Spans, AddSpan(s)
      PROVE  Log!Record \/ UNCHANGED <<Len(collected), Delivered>>
  <2>1. First' = First /\ s \notin ended
    BY <1>3 DEF AddSpan, registry, calls, First
  <2>2. CASE collect_spans_
    <3>1. Len(collected') = Len(collected) + 1
      BY <1>3, <2>2 DEF AddSpan, ExporterInv, Batches
    <3>2. Len(collected) < Cardinality(Spans)
      BY <2>1, LogLengths
    <3> QED
      BY <1>2, <2>1, <3>1, <3>2 DEF Log!Record
  <2>3. CASE ~ collect_spans_
    BY <1>2, <1>3, <2>1, <2>3 DEF AddSpan
  <2> QED
    BY <2>2, <2>3
<1>4. ASSUME NEW t \in AllThreads, CallHandler(t)
      PROVE  Log!Harvest \/ UNCHANGED <<Len(collected), Delivered>>
  <2>1. /\ next[t] \in 1 .. Len(handlers_)
        /\ exported' = [exported EXCEPT ![handlers_[next[t]]] = @ \o batch[t]]
        /\ UNCHANGED <<handlers_, collected>>
    BY <1>1, <1>4 DEF CallHandler, registry, spanVars, ExporterInv, Batches
  <2>2. handlers_ # <<>> /\ handlers_[1] \in Handlers /\ handlers_[next[t]] \in Handlers
    BY <1>1, <2>1
  <2>3. First' = First \/ First' = First \o batch[t]
    BY <1>1, <2>1, <2>2 DEF First
  <2>4. Len(First') >= Len(First)
    BY <1>1, <2>3, PlacesType
  <2>5. CASE Len(First') = Len(First)
    BY <1>2, <2>1, <2>5
  <2>6. CASE Len(First') > Len(First)
    <3> DEFINE n == Len(First')
    <3>1. n \in 1 .. Len(collected) /\ Delivered \subseteq 1 .. n /\ Delivered' = 1 .. n
      BY <1>2, <2>1, <2>6
    <3> HIDE DEF n
    <3> QED
      BY <2>1, <3>1 DEF Log!Harvest
  <2> QED
    BY <1>2, <2>4, <2>5, <2>6
<1>5. ASSUME NEW t \in Threads, NEW h \in Handlers, RegisterHandler(t, h)
      PROVE  UNCHANGED <<Len(collected), Delivered>>
  <2>1. /\ handlers_' = Append(handlers_, h) /\ exported[h] = <<>>
        /\ UNCHANGED <<exported, collected>>
    BY <1>5 DEF RegisterHandler, calls, spanVars, ExporterInv, Registry
  <2>2. First' = First
    <3>1. CASE handlers_ = <<>>
      <4>1. handlers_' # <<>> /\ handlers_'[1] = h
        BY <2>1, <3>1
      <4> QED
        BY <2>1, <3>1, <4>1 DEF First
    <3>2. CASE handlers_ # <<>>
      <4>1. \A q \in Seq(Handlers), e \in Handlers :
              q # <<>> => Append(q, e) # <<>> /\ Append(q, e)[1] = q[1]
        OBVIOUS
      <4>2. handlers_' # <<>> /\ handlers_'[1] = handlers_[1]
        BY <1>1, <2>1, <3>2, <4>1
      <4> QED
        BY <2>1, <3>2, <4>2 DEF First
    <3> QED
      BY <3>1, <3>2
  <2> QED
    BY <1>2, <2>1, <2>2
<1>6. ASSUME UNCHANGED <<exported, handlers_, collected>>
      PROVE  UNCHANGED <<Len(collected), Delivered>>
  BY <1>6 DEF Delivered
<1> QED
  BY <1>3, <1>4, <1>5, <1>6
  DEF Next, Internal, Call, Continue, RunWorkerLoop, Export, vars, calls, registry, spanVars,
    SetBatchSize, SetInterval, StartCollecting, StartBatch, EnterWait, Tick,
    WakeWithNothing, WakeWithSpans, WakeWith, ExportForTesting, LockHandlers,
    ExportDone

\* The exporter implements the log, also when tests export beside the worker: the first
\* handler is given a growing part of the spans that were collected, whole batches at a
\* time and each span once.
THEOREM ExporterIsALog == Spec => ImplementsLog
<1>1. ExporterInv /\ ExporterInv' /\ OnePlace /\ OnePlace' /\ [Next]_vars
      => [Log!Record \/ Log!Harvest]_<<Len(collected), Delivered>>
  BY LogStep
<1> QED
  BY <1>1, LogInit, OnePlaceInit, OnePlaceStep, ExporterInvariant, PTL
  DEF Spec, ImplementsLog, Log!Spec
----------------------------------------------------------------------------
\* Only what has ended is exported.

OnlyEnded ==
  /\ Range(spans_) \subseteq ended /\ Range(collected) \subseteq ended
  /\ \A t \in AllThreads : Range(batch[t]) \subseteq ended
  /\ \A h \in Handlers : Range(exported[h]) \subseteq ended

\* At the start there are no spans.
LEMMA OnlyEndedInit == Init => OnlyEnded
  BY RangeEmpty DEF Init, OnlyEnded

\* AddSpan alone takes in a span, and records its end.
LEMMA OnlyEndedStep == ExporterInv /\ OnlyEnded /\ [Next]_vars => OnlyEnded'
<1> SUFFICES ASSUME ExporterInv, OnlyEnded, [Next]_vars PROVE OnlyEnded'
  OBVIOUS
<1>1. /\ handlers_ \in Seq(Handlers) /\ exported \in [Handlers -> Seq(Spans)]
      /\ batch \in [AllThreads -> Seq(Spans)] /\ next \in [AllThreads -> Nat]
      /\ spans_ \in Seq(Spans) /\ collected \in Seq(Spans)
      /\ Worker \in AllThreads /\ Testers \subseteq AllThreads /\ Threads \subseteq AllThreads
  BY ThreadsAssumption DEF ExporterInv, Registry, Batches, AllThreads
<1>2. ASSUME NEW s \in Spans, AddSpan(s)
      PROVE  OnlyEnded'
  <2>1. /\ Range(spans_') \subseteq Range(spans_) \cup {s}
        /\ Range(collected') \subseteq Range(collected) \cup {s}
    <3>1. /\ Range(Append(spans_, s)) = Range(spans_) \cup {s}
          /\ Range(Append(collected, s)) = Range(collected) \cup {s}
      BY <1>1, RangeAppend
    <3> QED
      BY <1>2, <3>1 DEF AddSpan
  <2>2. UNCHANGED <<batch, exported>> /\ ended' = ended \cup {s}
    BY <1>2 DEF AddSpan, calls
  <2> QED
    BY <2>1, <2>2 DEF OnlyEnded
<1>3. ASSUME NEW t \in AllThreads, (WakeWithSpans /\ t = Worker) \/ ExportForTesting(t)
      PROVE  OnlyEnded'
  <2>1. /\ batch' = [batch EXCEPT ![t] = spans_] /\ spans_' = <<>>
        /\ UNCHANGED <<exported, collected, ended>>
    BY <1>3 DEF WakeWithSpans, WakeWith, ExportForTesting, TakeSpans
  <2> QED
    BY <1>1, <2>1, RangeEmpty DEF OnlyEnded
<1>4. ASSUME NEW t \in AllThreads, CallHandler(t)
      PROVE  OnlyEnded'
  <2> DEFINE h == handlers_[next[t]]
  <2>1. /\ next[t] \in 1 .. Len(handlers_)
        /\ exported' = [exported EXCEPT ![h] = @ \o batch[t]]
        /\ UNCHANGED <<batch, spans_, collected, ended>>
    BY <1>1, <1>4 DEF CallHandler, spanVars, ExporterInv, Batches
  <2>2. h \in Handlers
    BY <1>1, <2>1
  <2>3. Range(exported[h] \o batch[t]) = Range(exported[h]) \cup Range(batch[t])
    BY <1>1, <2>2, RangeConcat
  <2> HIDE DEF h
  <2>4. \A g \in Handlers : exported'[g] = exported[g] \/ exported'[g] = exported[h] \o batch[t]
    BY <1>1, <2>1
  <2> QED
    BY <2>1, <2>2, <2>3, <2>4 DEF OnlyEnded
<1>5. ASSUME NEW t \in AllThreads, ExportDone(t)
      PROVE  OnlyEnded'
  <2>1. /\ batch' = [batch EXCEPT ![t] = <<>>]
        /\ UNCHANGED <<exported, spans_, collected, ended>>
    BY <1>5 DEF ExportDone, spanVars
  <2> QED
    BY <1>1, <2>1, RangeEmpty DEF OnlyEnded
<1>6. ASSUME UNCHANGED <<batch, exported, spans_, collected, ended>>
      PROVE  OnlyEnded'
  BY <1>6 DEF OnlyEnded
<1> QED
  BY <1>1, <1>2, <1>3, <1>4, <1>5, <1>6
  DEF Next, Internal, Call, Continue, RunWorkerLoop, Export, vars, calls, spanVars,
    SetBatchSize, SetInterval, RegisterHandler, StartCollecting, StartBatch, EnterWait,
    Tick, WakeWithNothing, LockHandlers

\* No handler is given a span that was not handed to AddSpan, the last step of its end.
THEOREM OnlyEndedIsExported == Spec => []OnlyEnded
  BY OnlyEndedInit, OnlyEndedStep, ExporterInvariant, PTL DEF Spec
=============================================================================
