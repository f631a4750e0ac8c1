# A TLA+ verification of opencensus-cpp

OpenCensus C++ is a library that a program links to record statistics and
traces. The program's threads call it; a few threads of its own move the data
on to exporters. This directory models the parts that keep state, checks them
with TLC on small instances, and proves the main facts about the statistics
pipeline, spans, both exporters and most of the smaller components with TLAPS for
every number of threads, measures, views, spans and handlers.

Paths below are relative to `src/opencensus/`.

## 1. The system

### Components, their state and operations

| Component | State | Operations | Hard behaviour | What makes it correct |
|---|---|---|---|---|
| `MeasureRegistryImpl` (`stats/internal/measure_registry_impl.*`) | descriptors by id, ids by name; a mutex | Register, lookups by name | the id is visible by name before `StatsManager` and `DeltaProducer` know the measure; two registrations race | ids agree with the indexes of both |
| `DeltaProducer`, `Delta`, `MeasureData` (`stats/internal/delta_producer.*`, `measure_data.*`) | active and last delta, boundaries per measure; `delta_mu_`, `harvester_mu_`; a harvester thread | AddMeasure, AddBoundaries, Record, Flush | double buffering with hand-over-hand locks; configuration changes while a harvest is under way | every value is delivered once, in order; a delta's rows fit its configuration |
| `StatsManager`, `View` (`stats/internal/stats_manager.*`, `view.cc`) | measures and their ViewInformations, consumer counts; `mu_` | AddMeasure, AddConsumer, RemoveConsumer, MergeDelta, GetData | views share data and come and go during harvests | a view lives as long as its consumers and shows what was delivered since it was made |
| `ViewDataImpl` (`stats/internal/view_data_impl.*`) | rows, start, end and update times, expiry list | Merge, GetDeltaAndReset, copies | reset under a reader lock; expiry only on merge | a value is in one delta, periods abut, only old rows expire |
| `StatsExporterImpl` (`stats/internal/stats_exporter.*`) | views by name, handlers, interval; a thread | AddView, RemoveView, RegisterPushHandler, SetInterval, Export, GetViewData | the interval changes while the worker sleeps | every handler sees every view, nobody waits for ever |
| `StatsObject` (`common/internal/stats_object.h`) | a ring of buckets, the time of the current one | Add, AddToDistribution, SumInto, RateInto, DistributionInto, Merge | part of the oldest bucket is counted; time goes back or far ahead | the sum is that of the window, up to the oldest bucket's share |
| `Distribution`, `BucketBoundaries`, `Aggregation` (`stats/internal/`) | numbers | construction, BucketForValue, Add | the ends of buckets | each value has one bucket |
| `Span`, `SpanImpl`, `RunningSpanStoreImpl` (`trace/internal/`) | a span's contents, `has_ended_`; the running spans | StartSpan, Add…, Set…, End | a span is shared by threads; End is several calls | frozen after End, filed and handed over once |
| `TraceEvents`, `AttributeList` (`trace/internal/`) | bounded queues and maps | AddEvent, AddAttribute | limits, 0 included | the newest events stay and drops are counted |
| `LocalSpanStoreImpl` | the last 128 spans that ended | AddSpan, GetSummary, GetLatency…, GetError… | eviction, limits of the answers | the newest are kept, answers match their filter |
| `SpanExporterImpl` | spans collected, handlers, batch size, interval; a worker | AddSpan, RegisterHandler, SetBatchSize, SetInterval, ExportForTesting | two mutexes, a condition with a cached threshold and a deadline | each span to each handler once, in order, in the end |
| `Sampler`, `TraceConfigImpl`, `TraceParamsImpl` | atomics, field by field | Set, Get, ShouldSample | mixes of two settings; 64-bit thresholds | the probability asked for; 0 never, 1 always |
| `Context`, `WithContext`, `WithSpan`, `WithTagMap` | a thread-local context | Current, Wrap, scoped swaps | nesting, conditions, other threads | the old context is restored |
| Codecs: B3, CloudTraceContext, TraceContext, grpc-trace-bin, grpc-tags-bin, varint | none | To…Header, From…Header | limits of width and size, malformed input | what is written is read back |
| `TagKey`, `TagMap` | a registry of names; sorted tags, a hash | Register, ctor | a key registered twice | one key per name |
| Exporters (stdout, Prometheus, Stackdriver, Zipkin, OC agent) | connections, registered metrics | handlers' Export | calls that fail or whose answer is lost; types of values; limits of strings | each batch whole and at most once; series as the service was told |
| Ids, status, span data, random, host name, timestamps, gRPC helpers | values, a random generator | accessors | none | see section 6 |

### How they interact

```
 Register ----------> MeasureRegistryImpl --> StatsManager.AddMeasure, DeltaProducer.AddMeasure
 Record ------------> DeltaProducer.active_delta_
 harvester: Flush --> swap --> last_delta_ --> StatsManager.MergeDelta --> ViewDataImpl.Merge
 View(), ~View() ---> StatsManager.AddConsumer (-> DeltaProducer.AddBoundaries), RemoveConsumer
 stats exporter ----> View.GetData --> handlers

 Span::StartSpan ---> Sampler, TraceConfig, SpanImpl, RunningSpanStoreImpl, links of the parents
 Span::End ---------> SpanImpl.End, RunningSpanStore.Remove, LocalSpanStore.Add, SpanExporter.AddSpan
 exporter worker ---> handlers
```

Calls are synchronous; components share no state but through their mutexes.

## 2. The modules

| Module | Models |
|---|---|
| `Delta` | `MeasureData`, `Delta`: pure operators |
| `StatsPipeline` | registry, `DeltaProducer`, `StatsManager`, `View`, the harvester |
| `StatsPipelineProperties` | its properties; `RecordLog` is the abstract specification |
| `RecordLog` | calls in an order, of which consumers have a growing prefix |
| `StatsPipelineProofs` | its theorems |
| `SpanContents` | `TraceEvents`, `AttributeList`: pure operators |
| `Spans`, `SpansProperties`, `SpansProofs` | `Span`, `SpanImpl`, `RunningSpanStoreImpl`, the call of the stores |
| `SpanExporter`, `…Properties`, `…Proofs` | `SpanExporterImpl`; it implements `RecordLog`, too |
| `Tracing`, `TracingProofs` | `Spans` and `SpanExporter` composed: `Span::End` calls `AddSpan` |
| `ViewData`, `ViewDataProofs` | `ViewDataImpl` and its readers; theorems about them and about `ViewObjects` |
| `StatsExporter`, `…Properties`, `…Proofs` | `StatsExporterImpl`, with the part of `StatsManager` it uses |
| `ComponentProperties`, `ComponentsProofs` | what components without shared state promise together; theorems about them |
| `LocalSpanStore` | `LocalSpanStoreImpl` with its queries |
| `StatsObject` | `StatsObject`: a ring of buckets |
| `Contexts` | `Context`, `WithContext`, `WithSpan`, `WithTagMap` |
| `Propagation` | the trace context formats, grpc-tags-bin and varint, as a request goes from service to service |
| `Sampling` | samplers and the decision to sample a span |
| `BucketBoundaries`, `Distributions` | boundaries; the statistics of values, of merged deltas, and of what two exporters make of them |
| `StackdriverStats` | the Stackdriver stats exporter: its options and its handler |
| `SpanValues` | statuses, annotations, message events, links as values |
| `SpanConversion` | what a span is given, and what four trace exporters make of it |
| `TraceHandlers` | their handlers: options, registration, the batches they send, the Zipkin exporter's address and HTTP settings |
| `RunningSpanStore` | `RunningSpanStoreImpl` with its queries, and spans renamed or ended during one |
| `AttributeValues` | `AttributeValue`: a union constructed, copied, moved and destroyed by hand, and `AttributeValueRef` |
| `ViewTypes`, `PrometheusStats` | the type of a view's data; what the Prometheus exporter collects of it |
| `Registrations` | measures, `ViewDescriptor`s and `Views`: what names, ids and types say of each other |
| `TagMaps` | `TagKeyRegistry`, `TagMap` as a key, the tag values of a view's rows |
| `ViewObjects` | the objects that hold a view's data: unions, copies, lifetimes |
| `Identifiers` | `SpanId`, `TraceId`, `TraceOptions`, `SpanContext` and the random generator |
| `FoldUnfolds` | lemmas: folds over finite sets may be unfolded |
| `MC…` | small instances for TLC |

### Correspondence with the code

Variables bear the names of the members they stand for (`active_delta_`,
`handlers_`), and actions those of the functions or handlers. `PROJECT.json`,
"map", gives the lines of each definition.

*Threads.* A thread runs one operation at a time; `pc[t]` is its next step. A
step ends where the thread takes a mutex or lets others in. What is done under
the mutex that guards the data is one step, because nobody else can look; where
a mutex is held over several steps, because other code that does not need it
runs in between, there is a variable for its owner.

*`StatsPipeline`.* A registered measure is its index (from 1); a value is the
number of its `Record` call; a `MeasureData` is its count, the set of values and
the last one, from which all statistics kept in the code follow. A `View` is the
pair of a descriptor and the handle that a thread owns. `failure` holds the
first failed `ABSL_ASSERT` (unless `NDEBUG`) or out-of-range access, after which
nothing is claimed and nothing happens. `log`, `delivered` and `since` are
history variables: no guard reads them except for the bound on calls.

*`Spans`.* A `SpanImpl` is a record of bounded queues, a bounded map, a status,
a name and `has_ended`. The limits of a span come from `TraceConfig` field by
field (`TraceParamsImpl`), so any mix of the values set is possible; they are
chosen from `Params`.

*`SpanExporter`.* The worker's wait ends when the batch, whose size was cached
before the wait, is full, or when the deadline, counted in ticks, has passed.
`cached_batch_size_` has no initial value in the code and has an arbitrary one
here; nothing reads it before it is written.

*`ViewData`.* A merge is a number, the data of a row the set of its merges. The
harvester holds `mu_` exclusively, so `MergeDelta` is one step that folds the
rows of a delta; readers share `mu_`, so the constructor behind
`GetDeltaAndReset`, which reads its source and then writes it, is two steps
(the data race between two readers is undefined behaviour; both reading before
either writes is one outcome of it). The types of window and the expiry are
chosen at the start and never change.
*`StatsExporter`.* Those that read the views share `mu_` over several steps (view
by view, handler by handler); writers are one step and wait for the readers. A
ViewInformation is a count of consumers, a count of merges and an identity.
`wait` is the time left until `next_export_time`.
*`MCComponents`.* The components that it instantiates share no state, so an
execution of this instance is of one of them, which `ComponentsInit` chooses: the variables
of the others keep one value. Those that it extends (by way of `ComponentProperties`, and `ViewData`) are then
in an initial state, so their properties are asked of all of them in every state.

*`StatsObject`.* A bucket is the sequence of values added to it; fractions of an
interval are ticks. History variables hold all values with their intervals, and
the sum and the counts are compared with what they say.

*`Contexts`.* A scope keeps, besides its members, the context it found and what it
was given (history), which no action reads.

*`Propagation`.* A trace header is a record of its fields, with one value for how its
digits are written; the header of tags is a sequence of bytes. `expected` and
`sent` remember what was handed on.

*`Distributions`.* Means are integers times `Scale`, a multiple of every count, so
that divisions are exact; what doubles round off is not modelled.

*`Sampling`.* A double is a whole number of the least one, `Denominator` of which are 1; a
threshold is computed from two numbers that need rounding, to the nearest double and to an even
significand between two (`Round`, with the unit in the last place of the number as its `Ulps`). The
exponents have no upper end, as no number is above 2^33, and NaN, which the code
passes on to the arithmetic, is left out.

*`LocalSpanStore`.* A latency is a number, compared with the ends of buckets and the limits of
filters as a whole; converted to unsigned, it is itself or 2^64 more.

*`StackdriverStats`.* `given` is what the program put in its options, `opts_` what
the handler has of them after `Register`, which one overload leaves without the caller's
stub. `ExportViewData` holds its mutex throughout: one step, with the outcome of each call (done; refused; done, with the answer lost) chosen with it.
The Prometheus exporter keeps no state: `FamiliesTyped` is asked of the same views.

*`TraceHandlers`.* `SpanExporterImpl::Export` holds `handler_mu_` while it calls one
handler after the other: one step, with what reaches each service chosen with it.
`arrived` is the services' side, `batches` what was handed to the handlers. The
settings of a curl handle are a sequence in the order of the calls, any of which may
fail.

*`RunningSpanStore`.* A query is a step for each time it takes a span's mutex; the
store's own is held throughout. `names_seen` are the names each span has had since
the query began.

*`AttributeValues`.* The strings constructed in a slot and not yet destroyed are a
sequence, so that a leak or a double destruction shows; `meant` is what each object
was given.
*`Registrations`.* One call at a time, as `StatsPipeline` has the threads: a call of
the program is a step with all it does in the registry, the manager and the exporter.
A measure id is the number the code computes, of fewer bits. A `ViewDescriptor` is
made with any id that memory may hold, since its constructor sets none; the instance
checked gives every descriptor a measure before it makes a `View` (`UnsetMeasures`).

*`TagMaps`.* A key is its id in the registry; the hash is one that collides. Each map
keeps the set of named tags it was made of (history).

*`ViewObjects`.* The heap is a function of addresses, each used once; a `ViewData`
keeps what the view held when it was made (history). A datum is a number of merges and
the address of the boundaries it refers to.

*`Identifiers`.* A byte is told apart by the value of the generator that it is of, and
its place in it, or is zero.

## 3. The runs

| Run | Module | Expected | Properties | Shows |
|---|---|---|---|---|
| `stats_pipeline` | `MCStatsPipeline` | pass | `TypeOK`, `LastDeltaConsumed`, `NothingLostOrDoubled`, `RecordingOrderKept`, `ConsumersCounted`, `ViewsComplete`, `ImplementsRecordLog` | Two application threads and the harvester, one measure: no interleaving of registering, recording, adding and removing views and flushing loses, doubles or reorders a value, frees a view in use, or breaks the abstract log. |
| `stats_live` | `MCStatsPipeline` | pass | `EverythingDelivered`, `CallsReturn` | With a harvester that keeps flushing, every recorded value reaches the views, and no call waits for ever on the three mutexes. |
| `stats_measures` | `MCStatsPipeline` | pass | `DeltaConfiguration`, `DeltaWithinMeasures`, `CallsMoveWhole` | Two threads register two measures at once, and look them up by name, in a debug build whose assertions may fail: up to the failure no delta has a measure the StatsManager lacks and calls against both measures are delivered whole. |
| `stats_no_histogram` | `MCStatsPipeline` | violation | `HistogramsExist` | A view that shares boundaries another thread is still adding is created before the old delta is merged, and the merge finds no histogram for it. |
| `stats_registration_order` | `MCStatsPipeline` | violation | `RegistrationInOrder` | Two threads take ids in one order and append to measures_ in the other, which the assertion in StatsManager::AddMeasure forbids. |
| `view_data_readers` | `ViewData` | violation | `OneDelta` | Two readers of one delta view reset it under a lock that they share. |
| `stats_exporter` | `StatsExporterProperties` | pass | `ConsumersMatch`, `ExportsComplete`, `DataKept`, `DataExported` | Views are registered, replaced and removed under two names, data is merged, a puller reads and the worker exports: handlers are called with just the registered views, data is kept as long as it has a view, and reaches every handler. |
| `spans` | `MCSpans` | pass | `EndedOnce`, `RunningTracked`, `FrozenAfterEnd`, `LimitsKept`, `LinksMutual` | Two threads start, link, change and end the same spans: an ended span never changes, is filed and handed over once, the running store has what runs, parent and child know of each other, and what overruns a limit (zero included) is dropped from the right end and counted. |
| `span_exporter` | `SpanExporterProperties` | pass | `SpansInOnePlace`, `HandlersAgree`, `CallsReturn`, `WorkerNeverSpins` | Handlers registered, settings changed, spans ending and a tester exporting beside the worker: no span is lost, exported twice or kept from one of the handlers, no call waits for ever, and the worker does not spin. |
| `tracing` | `MCTracing` | pass | `ExportedSpansHaveEnded`, `ExportedInOrder`, `ImplementsLog`, `SampledSpansExported` | Spans that two threads end while a third registers a handler: the exporter holds only spans that have ended, misses only those handed over before the first handler, and gives the others to the handler in order, as the abstract log does, and in the end all of them, though the batch may never fill. |
| `components` | `MCComponents` | pass | `SpanStoresAnswer`, `StatisticsAgree`, `RegistrationsAgree`, `ScopesRestore`, `HeadersCarry`, `SeriesDescribed`, `SpanAccounted`, `SpanDataAgrees`, `EachMergeOnce`, `TimesHold`, `ExpiryExact` | One at a time, the components that share no state: the two stores and their queries, sliding windows, contexts, headers, sampling, values of attributes, measures and views under their names, ids, the statistics of a view, its data as time passes and is read, the objects that carry it, and what exporters send, and to whom, are all checked against what their callers are promised, over every sequence of a few calls. |
| `view_objects_boundaries` | `MCComponents` | violation | `BoundariesAlive` | A snapshot of a view's distributions is read after the last View has gone. |

### Bounds, and why they are enough

Every `.cfg` names its bounds (`MaxRecords`, `MaxChanges`, `MaxTime`, …): all
other state is finite by itself.

* The statistics pipeline has two buffers and three mutexes. Two threads and the
  harvester put a thread at each stage of the hand-over at once; two recorded
  values suffice to lose, double or reorder one; two handles let a view be
  shared and another be created, and an address be used again.
* `stats_pipeline` has one measure, two tag sets that a view keeps apart or joins,
  and views with and without columns; `stats_measures` has two measures, two threads
  that register at once, lookups by name and calls that record against both.
* In `spans` two threads race to end one span; two spans let one be the parent of
  the other; queues have limits 0, 1 and 2 with two changes, so limits 0 and 1
  overflow and 2 does not. The local store holds one span of two.
* `span_exporter` has two spans and two handlers, so one can be registered late or
  while a batch is with the handlers, and batch sizes 0 (which the code raises)
  and 2. In `tracing` the batch is one span, or the 64 of the code, which never
  fills and goes out when its time has come.
* `StatsExporter` has two names, two descriptors and three registrations: enough to share
  data between names, and to replace a view by an equal one and by another.
* `components`: a store of two is given three spans, and every query on the names,
  codes and latencies (negative ones, too) given, with 0, one of them and `UINT64_MAX` for limits, is asked in
  each state; two windows of two
  intervals are added to twice and merged once, at times in, before and beyond the ring
  (whose `uint32_t` has 3 bits); three scopes are open on two threads; a request is passed on
  twice, with three tags and headers up to one byte too long, numbers of 5 bits two at
  a time; two exports of two views out of five (one with an interval window) in requests of
  two series, registered by any of the three overloads; three changes of a span
  with limits of 1 and strings around theirs; three spans of one trace in two
  processes, thresholds of 8 bits in halves of 4, doubles with significands of 6 bits and all
  probabilities of 64ths, so that products and sums are rounded; four values in
  deltas of any size; two handlers out of four exporters, each with one setting, and two
  batches with two spans in all; two running spans, two names, two renames and queries for
  -1 to 2 spans; three attribute values and five calls. Five calls of a program that
  registers two measures and a name that is invalid, describes and makes views of them;
  two maps of two tags and four calls; five steps in the life of a view's data, of every
  window and aggregation, with an interval of one tick that data outlives; three span contexts with ids of one and two words of two bytes;
  three merges into two rows of a view, two ticks with an expiry of none or one, and two
  reads by one reader, so that a row expires, comes back and is read before and after
  (`view_data_readers` has two readers). Each is one more than what fills a bucket, byte, request or limit.

### Fairness

* `WF` of the harvester's `Flush`: its loop never ends.
* `SF` of a thread's `Continue` and of the workers' loops (`RunWorkerLoop` of both
  exporters): a thread that wants a mutex is enabled only while the mutex is free,
  but `absl::Mutex` queues waiters and does not let one be overtaken for ever.
* `WF` of `Continue` where a step needs no mutex that others can hold for ever: the
  pullers of `StatsExporter`, which share it, and the steps of `Span::End`.
* `WF` of `Tick`: time passes, so a deadline is reached.
* None for the calls a program may make. In `Spans` and `Tracing` a program may
  have ended all its spans and make no more calls, so those runs switch the
  deadlock check off; all others that switch it off may stop in a failed
  assertion, or stop when their bounds are reached.

## 4. What the code does not do

The runs that expect a violation each show that a sentence in the code or its
documentation is not true of the program. PROJECT.json, "findings", quotes them.

* `stats_no_histogram` (`HistogramsExist`), `stats/internal/delta_producer.cc:98`: AddBoundaries returns at once when the boundaries are registered already, even while the thread that registered them has swapped the deltas but not merged the old one: a view is then created before the old delta is merged, and MeasureData::AddToDistribution asserts (or, with NDEBUG, puts the values in the underflow bucket). stats_manager.cc:184-186 says of AddBoundaries "We call it before adding the view to avoid errors from the old delta not having a histogram for the new view".
* `stats_registration_order` (`RegistrationInOrder`), `stats/internal/measure_registry_impl.cc:53`: Register releases the registry's mutex before it calls StatsManager::AddMeasure, so two threads can append to measures_ in the opposite order of their ids; the measures then have each other's elements only by luck of being empty, and the assertion fails. stats_manager.cc:168 asserts "measures_.size() == MeasureToIndex(measure) + 1", and measure_registry_impl.h:34 says "MeasureRegistryImpl is thread-safe."
* `view_data_readers` (`OneDelta`), `stats/internal/stats_manager.cc:87`: GetData of a delta view calls GetDeltaAndReset, which swaps the data out and resets the start times, under a ReaderMutexLock: two readers (two Views with equal descriptors share the ViewInformation) race, and both can be given the same data. aggregation_window.h:35-36 says "Delta aggregation accumulates data until it is requested and then resets it, so that each recorded value appears in exactly one delta."
* `view_objects_boundaries` (`BoundariesAlive`), `stats/internal/view_data_impl.cc:182`: the copy constructor, behind View::GetData and every copy of a ViewData, copies each Distribution with its buckets_ pointer, which refers to the aggregation_ of the ViewDataImpl that was copied, and so does the swap of a delta. When that one is destroyed, with the last View or with an earlier ViewData, bucket_boundaries() of the snapshot reads a destroyed object. src/opencensus/stats/distribution.h:64 says "buckets must outlive the Distribution.", and src/opencensus/stats/view.h:51 of GetData "Returns a snapshot of the View's data."

Also seen while modelling, without a run of their own:

* `stats/internal/delta_producer.cc:47`: a measure can be looked up by name before
  the producer knows it (`measure_registry_impl.cc:86`); what is recorded against it
  then is written past the end of the delta's vectors. The model stops there
  (`failure`).
* `stats/measure.h:72-73`: "Recording with an invalid Measure logs an error and
  assert-fails in debug mode"; nothing does, and `MeasureToIndex` maps the invalid id
  to an index like any other (`delta_producer.cc:46`), the first measure's.
* `stats/aggregation.h:50`: "LastValue aggregation returns the last value recorded"; of
  several tag sets that a view joins it shows the one visited last
  (`stats_manager.cc:152`), in the order of a hash map.
* `trace/internal/running_span_store.h:36`: a query for running spans may return one
  that has ended, as `Span::End` ends it first and removes it then
  (`trace/internal/span.cc:217`).
* `trace/internal/local_span_store_impl.cc:131`: a query with
  `max_spans_to_return = 0` returns one span (`trace/internal/local_span_store.h:69-71`);
  and `all_errors` (`:79-81`) is never read.
* `stats/view_descriptor.h:84-88` says rows that were not updated for
  `expiry_duration` are removed; they are removed when something is merged into the
  view (`stats/internal/view_data_impl.cc:195-200`) and stay until then.
* `stats/stats_exporter.h:38-39` says of `SetInterval` "Takes effect after the current export
  finishes"; the worker computes the time of the next export before it exports
  (`stats/internal/stats_exporter.cc:109`), so one more interval is the old one.
* `context/context.h:54`: `Wrap` is a method of a `Context` but captures
  `Context::Current()`, not the object it is called on (`context/internal/context.cc:51`).
* `common/internal/stats_object.h:432-436` cuts the part of the last bucket off where the
  comment on `DistributionInto` (`:100-101`) says counts are rounded to the nearest;
  `IsEmpty` (`:453`) converts a saturated `uint32_t` to an `int32_t`, so an object
  that is left far behind is not empty though its sum is zero; `Merge` adds the means
  and extrema that `AddToDistribution` keeps as if they were sums (`:521`).
* The exporters to the OC agent and to Stackdriver put the attributes of links among
  those of the span (`exporters/trace/ocagent/internal/ocagent_exporter.cc:161-163`), where they can
  replace one with the same key. `SpanAccounted` says that they arrive there, the last link's
  value for each key.
* The Zipkin exporter writes the member "annotations" twice for a span with annotations
  and message events (`exporters/trace/zipkin/internal/zipkin_exporter.cc:119`, `:133`).
* `StackdriverExporter::Register(StackdriverOptions&)` copies the options and then moves
  from the original ones, whose stub it has moved to the copy
  (`exporters/stats/stackdriver/internal/stackdriver_exporter.cc:220-232`).
* `RunningSpanStore::GetRunningSpans` compares a span's name and copies the span under two
  holds of its mutex (`trace/internal/running_span_store_impl.cc:87-88`): a span that is
  renamed in between is returned under another name than the filter's.
* The Zipkin exporter sets the proxy only if its options have none
  (`exporters/trace/zipkin/internal/zipkin_exporter.cc:286`), where the option is "The proxy to
  use for the upcoming request" (`exporters/trace/zipkin/zipkin_exporter.h:32`); and it gives
  milliseconds to `CURLOPT_CONNECTTIMEOUT`, which takes seconds (`:270`), where "The
  default connect timeout is 5 seconds" (`zipkin_exporter.h:39-40`).
* The deprecated `StackdriverExporter::Register` of the trace exporter does not copy
  `prepare_client_context` (`exporters/trace/stackdriver/internal/stackdriver_exporter.cc:275-278`).
* `AttributeValue::operator=` destroys its string before it looks at the other object
  (`trace/internal/attribute_value.cc:71`), which may be the same; nothing in the library
  assigns an object to itself.
* `BucketBoundaries::Exponential` makes its first boundary 0, and one boundary fewer
  above it than `stats/bucket_boundaries.h:42-48` describes.
* `trace/internal/b3.cc:86` extends 64-bit trace ids with zeros in front, and a
  `ProbabilitySampler` reads the first 8 bytes only (`sampler.cc:44`): any probability
  but zero samples all such traces.
* `exporters/stats/prometheus/internal/prometheus_utils.cc:106` gives as an upper bound, which Prometheus takes
  to be inclusive, the end of a bucket that excludes it.
* `trace/internal/span.cc:80`: a child of a span that is not sampled is decided again, so
  after a change of the parameters "all Spans within the same Trace will get the same
  sampling decision" (`sampler.cc:63`) is not so; `SamplingConsistent` says what is.

* `stats/internal/view_data_impl.cc:331-337`: with a negative `expiry_duration`, which nothing
  refuses, `PurgeExpired` does not stop at the row just merged and goes on to read the
  back of an empty list.
* `stats/internal/view_descriptor.cc:42-44`: the constructor leaves `measure_id_` without a value; a
  `View` of a descriptor without a measure has whatever id memory holds, and another
  measure's data if that is valid.
* `stats/internal/view_descriptor.cc:51-60`: a descriptor whose measure was set before that was registered keeps
  an invalid id, though `measure_descriptor()` finds the measure by its name afterwards; and
  exporting an invalid view asserts at every export (`stats/internal/view.cc:41-48`).
* `stats/internal/stats_manager.cc:47-52`: views that differ in `expiry_duration` alone share the data of the
  first, and expire as that one does.
* `stats/internal/delta_producer.cc:48-53`: a `MeasureInt64` looked up by the name of a measure of doubles
  (`measure_registry_impl.cc:117-127`) is not valid, but recording against it is not refused:
  its integer is read as a double.
* `stats/internal/view_data.cc:91-93`: a copy of a `ViewData` takes the time of the copy for its
  end.
* `tags/tag_map.h:64`: a `TagMap` that was moved from has no tags but keeps their hash.
* `common/internal/stats_object.h:385-389`: `RateInto` divides by the interval only as many statistics as
  the object has buckets.
* `trace/internal/local_span_store_impl.cc:123`: a negative latency is converted to an unsigned number,
  from 2^63 on, and is in the lowest bucket of the summary (`:61-63`). A query whose
  `upper_latency_ns` is above 2^63, such as the `UINT64_MAX` of "no upper limit", returns spans of negative
  latency, which are not in its half-open interval (`trace/internal/local_span_store.h:67-69`); with any
  other limits it never does. `InInterval` says it as the code does.
* `trace/internal/local_span_store_impl.cc:110-113`: the summary counts a span of any status by its latency, where
  `trace/internal/local_span_store.h:42` says "Samples based on latency for successful spans are collected in these
  buckets", and one that is OK among `number_of_error_sampled_spans`, too. `SummaryCounts` says it
  as the code does.
* `trace/internal/sampler.cc:35-36` rounds a product and a sum to 53 bits, so that a threshold is exact to
  one part in 2^53 only: that of the double next to 1/3 is `0x5555555555555555` and lets through 342
  ids more than the share of that double. `SharesExact` allows for it.
* `trace/attribute_value_ref.h:70`: unsigned values of 64 bits above `INT64_MAX` become negative.
* `trace/internal/trace_events.h:60-61`: `num_events_recorded` calls itself; nothing calls it.

## 5. What is proved

The theorems hold for all constants that satisfy the named assumptions
(`ThreadsAssumption` and `ParametersAssumption` of the pipeline and of
`SpanExporter`, `SpansAssumption`, `ExporterAssumption`, `TracingAssumption`,
`ViewAssumption`): the
markers for "no owner", "no handle" and "no span" are none, the workers are not
threads of the program, and numbers are natural.
`Contexts` and `ViewObjects` assume nothing. Of the other components they assume

* `SamplingAssumption`: `CalculateThreshold` works on two halves of one range (2^32 in the
  code) of at least four numbers, trace ids are below its square, and significands (2^53) are at least two
  bits longer than such a half;
* `UlpAssumption`: doubles are evenly spaced between powers of two: each unit in the last place is at
  least twice the one before, one of them divides 1 into as many parts as there are significands, and
  each number that a threshold is made from has one;
* `SizesAssumption`: a span id is one word of the generator, a trace id two (8 and 16 bytes
  in the code), of some number of bytes;
* `ArgumentsAssumption`: an `AttributeValueRef` is made by one of its constructors;
* `StoreAssumption`: the store keeps at least one span (128), a latency, however negative, is no more
  than half of what a `uint64_t` can hold: it is an `int64_t` before it is converted; and the limits
  of queries (`FilterLimits`) are any numbers that a `uint64_t` can hold;
* `RunningAssumption`: there are finitely many spans;
* `IndexAssumption`: there is at least one id of a measure (`kIndexMask + 1` in the code);
* `SeriesAssumption`: a request may have at least one series (200), the names of views are finitely many,
  and views, rows and options are of the types that the code gives them.

`RegistrationsHold` has a hypothesis besides: Views are made of descriptors whose measure was
set (`~ UnsetMeasures`). Of others the code says nothing, as their id is uninitialized (section 4).

| Module | Theorem | States |
|---|---|---|
| `StatsPipelineProofs` | `TypeCorrect` | Every variable keeps its type, for any threads, measures, tag sets, boundaries and views. |
| `StatsPipelineProofs` | `MutualExclusion` | Each of the three mutexes is held by exactly the thread whose step says so, and they are taken in the order delta_mu_, harvester_mu_, mu_. |
| `StatsPipelineProofs` | `LastDeltaIsConsumed` | The assertion in SwapDeltas never fails: the previous delta has been merged and cleared. |
| `StatsPipelineProofs` | `ConfigurationMatches` | The active delta always has the present boundaries, and every row one MeasureData per measure. |
| `StatsPipelineProofs` | `NoMeasureMissing` | No delta has a measure the StatsManager lacks, however many threads register at once. |
| `StatsPipelineProofs` | `ViewsAreCounted` | A ViewInformation lives exactly as long as some View points to it, counts those Views, is listed under its own measure only, and is the only one with its descriptor. |
| `StatsPipelineProofs` | `Conservation` | Every recorded value is in exactly one of the active delta, the delta being harvested and the data given to the views, once. |
| `StatsPipelineProofs` | `OrderKept` | What is further along the pipeline is older, and the last value of a row is its newest. |
| `StatsPipelineProofs` | `CallsAreWhole` | The measurements of one call reach the views together. |
| `StatsPipelineProofs` | `Refinement` | The safety part of the pipeline implements the abstract log of calls with a growing delivered prefix. |
| `StatsPipelineProofs` | `ViewsShowAll` | A view shows, row by row, exactly the values delivered since it was made, in groups by its columns, for any tag sets and columns: the rows of a delta are merged one after the other, however many. |
| `FoldUnfolds` | `FoldUnfolds` | A fold over a finite set may be unfolded, for any operator and any choice of the next element: what the loops over the rows of a delta and over nested scopes rest on. |
| `ViewDataProofs` | `ViewInvariant` | The data of a view, its start times and the list by which rows expire agree with one another and with the merges made, and so do the copies that readers have, for any rows, windows, expiries and readers. |
| `ViewDataProofs` | `ExpiryIsExact` | A merge purges the rows that were not updated for longer than the expiry and no others, though PurgeExpired looks at the back of the list only; only the reset of a delta view removes data besides. |
| `ViewDataProofs` | `EachMergeInOnePlace` | Nothing merged into a view is lost or in two places, unless a delta view has several readers: it is in its row, was purged, or was given to the reader in one delta. |
| `ViewDataProofs` | `TimesAlwaysHold` | The start and end times that GetData returns contain those of the merges for every row that has data, for any number of readers, and deltas given to one reader follow each other without a gap. |
| `ViewDataProofs` | `ObjectsAlwaysKept` | However a view of any kind is merged into, read, copied and destroyed, each of its objects has the member of its type and Distributions with boundaries just if that type has them, no two ViewData share an object, and each goes on showing the rows that the view had when it was made, from the times they had then or, of an interval view older than that, from the start of the interval, its end one duration after it (ObjectsKept, which TLC checks as a part of StatisticsAgree). |
| `StatsExporterProofs` | `StatsExporterInvariant` | The inductive invariant of the exporter, for any views, descriptors, handlers and pullers. |
| `StatsExporterProofs` | `ViewsHaveConsumers` | There is data for exactly the descriptors of registered views, with one consumer for each view. |
| `StatsExporterProofs` | `ExportsAreComplete` | Whoever reads copies only views that are registered, as they are, and handlers are called with all of them. |
| `StatsExporterProofs` | `ExportsNeverGoBack` | A view registered again as it was keeps its data, and what a handler is given of a view never goes back. |
| `SpansProofs` | `SpansInvariant` | Which thread has which span, and where each span is between StartSpan and the exporter, for any threads, spans, limits and keys. |
| `SpansProofs` | `EndedOnlyOnce` | However many threads call End, a span is filed once and handed over once, in that order. |
| `SpansProofs` | `RunningIsTracked` | The running store has every recording span from the return of StartSpan to its end, and none that was handed over. |
| `SpansProofs` | `ContentsInvariant` | What a span has of the events, attributes and links it was offered, for any limits. |
| `SpansProofs` | `LimitsAreKept` | Whatever its limits, 0 included, a span has the newest events and the last values of its attributes, and counts what it drops. |
| `SpansProofs` | `LinksAreMutual` | A span started with a parent and that parent are linked to each other, unless one had ended or has dropped links. |
| `SpansProofs` | `EndedIsFrozen` | No step of any thread changes a span that has ended. |
| `SpanExporterProofs` | `ExporterInvariant` | Batch sizes and intervals stay above zero, and a batch is with one thread that holds handler_mu_ while it exports it, for any threads, testers, handlers and spans. |
| `SpanExporterProofs` | `WorkerRests` | The worker waits for its deadline before it starts again without spans. |
| `SpanExporterProofs` | `InOrderOfEnding` | Without ExportForTesting, the first handler has, and is about to be given, the collected spans in the order in which they ended: SpanExporterProperties!ExportedInOrder, which Tracing states of its exporter. |
| `SpanExporterProofs` | `HandlersGivenTheSame` | A handler registered late is given what the earlier ones are given from then on, in the same order, whoever exports. |
| `SpanExporterProofs` | `EachSpanInOnePlace` | A collected span is in spans_, in one batch, or with the handlers, once, whoever exports, and nothing else is: for any threads and testers. |
| `SpanExporterProofs` | `ExporterIsALog` | The collected spans are a log of which the first handlers have a growing part: the exporter implements RecordLog step by step, also with ExportForTesting, which the run of Tracing does not call. |
| `SpanExporterProofs` | `OnlyEndedIsExported` | What waits, is in a batch or is with a handler was handed to AddSpan, the last step of its end: the fact that the composition with Spans rests on. |
| `TracingProofs` | `PartsInvariant` | The invariants of Spans and of SpanExporter hold of the composition, where a step of one may be a step of the other. |
| `TracingProofs` | `ExportedHaveEnded` | Every span that is on its way to a handler or with one has ended, was sampled, and went through the stores first. |
| `TracingProofs` | `ExportedInOrderOfEnding` | Handlers have the sampled spans in the order in which their End handed them over. |
| `TracingProofs` | `TracingIsALog` | The exporter implements RecordLog also where its spans come from Span::End. |
| `ComponentsProofs` | `SpanStoresAlwaysAnswer` | The stores of spans answer what they are asked, for any number of spans and limits of queries, within the bounds that the two theorems that follow state. |
| `ComponentsProofs` | `StoreAnswersAlways` | Of spans of any names, codes and latencies the LocalSpanStore has the newest in order, its summary counts each once by its latency and once by its code, whatever its status, and a query for at least one span, with any uint64_t as limits, returns the newest that match; a negative latency matches as a huge one does, so only if the upper limit is above 2^63. |
| `ComponentsProofs` | `RunningStoreAnswers` | A query of the RunningSpanStore returns spans that are in it, each once and under a name it had meanwhile, and misses none that kept a name asked for, though spans are renamed and end while it runs. |
| `ComponentsProofs` | `SpanDataAlwaysAgrees` | Decisions, ids and values of attributes are the same wherever they are kept: of the three theorems that follow. |
| `ComponentsProofs` | `SamplingIsConsistent` | In any number of processes, whose parameters change at any time, a span is sampled just if it or a span it descends from was decided so, and with one probability a trace is decided as its root. |
| `ComponentsProofs` | `SharesAreExact` | The threshold that is computed in two halves, from a product and a sum that are rounded as doubles are, lets through the share of all ids that a probability asks for, to one part in 2^53 and two ids, for every probability that is a double, any width of halves and any longer significand: no carry or wrap to zero makes it another; 0 lets none through and 1 all. |
| `ComponentsProofs` | `IdentitiesHold` | Ids made of a stream of random words are shared by no two spans and no two traces, and are equal just if their bytes, hex forms and printed contexts are, for words of any number of bytes. |
| `ComponentsProofs` | `ValuesAreKept` | However AttributeValues are constructed, copied, moved, assigned and destroyed, each has what it was given, a string is destroyed once, and none is left behind. |
| `ComponentsProofs` | `RegistrationsHold` | Whatever measures, descriptors and Views a program makes, in any order, if Views are made of descriptors whose measure was set: a name is one measure of one type, a View that is valid is counted by one ViewInformation of its measure, columns and type, and equal descriptors share one. |
| `ComponentsProofs` | `SeriesDescribedAlways` | Of any views, rows, options and number of exports, whatever calls to the service fail or are done and not answered: a series of a custom metric is as the service was told of the metric last, a metric is accepted once, each row that can be sent is in one request, none of which is empty or too long, and what Prometheus collects is typed as its families are. |
| `ComponentsProofs` | `ScopesAreRestored` | However WithContext, WithSpan and WithTagMap are nested, with and without their conditions, on any number of threads, what is left when one goes is the context that it found. |

The argument for the pipeline. `TypeOK` is not inductive: that
`RemoveConsumer` finds its view, or `MergeDelta` its row, needs the other facts.
`Inv` (in `StatsPipelineProofs`) adds the owners of the mutexes, the fact that
`last_delta_` is empty whenever `harvester_mu_` is free, the agreement of the
active delta with the configuration, and a type for what is in `info`.
`ConsumersCounted` needs `ViewsInv` besides: a thread inside `AddConsumer` has no handle yet and
one inside `RemoveConsumer` has one (`HandlesHeld`), and each measure lists only views that
exist, so that a matching view can be shared and none is made twice.
A further part of the module proves `NothingLostOrDoubled` and
`RecordingOrderKept` from `SplitInv`: for each measure and tag set, the values
recorded split into three stages (delivered, pending, active), disjoint, in
order, with counts that are the sizes of their sets. Each step is shown to have
one of few *effects* on a triple (nothing, append to the last stage, shift the
last stage, deliver the middle one), and each effect to preserve `SplitInv`, so
the case split over the actions is done once. The next part shows
that calls move whole: `CutInv` states that the values delivered, pending and
active of *all* measures and tag sets are cut at the same two positions of the
log; `Refinement` maps a `MergeDelta` to `RecordLog!Harvest` up to that cut.
`ViewsComplete` is about the fold with which `MergeDelta` goes over the rows of a
delta. The library defines folds by recursive functions on the subsets of a set;
`FoldUnfolds` shows, for any operator that is folded, that these functions exist, by
the smallest subset on which one would not, so that a fold of n rows is that
of n - 1 and one more (`RowByRow`). What a view shows after k rows (`MergeRowsShow`) is then
right for all k, as there is no smallest one for which it is wrong.

The argument for spans. `EndedOnce` needs to know who else may file a span:
`SpansInv` (in `SpansProofs`) says that a thread inside `StartSpan` has a span that
nobody knows yet, that a thread inside `Span::End` has one that has ended and that
no other thread ends, and where a span may be at each of the four steps (`Owned`,
`Running`, `Filed`). A change to a span by the program, and the links of `StartSpan`,
are shown once to touch contents only, and nothing of a span that has ended.
`KeptInv` then says for each queue and attribute list how it comes from all that
was offered to it; a step changes no part of a span or offers it one more element
(`PartsChange`), and `AddEventNewest` and `AddAttributeLast` show that one element
more keeps it so. Links that were never dropped are the offered ones, so `LinksMutual`
follows from the same fact about what was offered (`LinksOffered`).

The argument for the span exporter. `ExporterInv` ties the steps of the threads to
`handler_mu_`, to the batches they hold and to the clamped sizes. `InOrderOfEnding` follows
what is with the first handler, in the worker's batch and in `spans_` as one sequence, and
needs `Testers = {}`: `ExportForTesting` may overtake the worker's batch. `HandlersAgree` is
about sequences and their suffixes, as each handler's are what was given plus what is
due; lemmas on suffixes and appended batches carry it over each call of a handler.
`SpansInOnePlace` follows from `OnePlace`: batches of different threads, `spans_` and what was
exported have nothing in common (`Apart`), and together they have all that was
added (`Kept`). The exporter is a log of spans (`ExporterIsALog`): what its first handler
has been given grows by what was collected in one step, which maps to `Harvest`.

The argument for `Tracing`. A step of the two composed is one of `Spans`, one of
`SpanExporter`, or `AddSpan` within `Span::End`, which is one of each. So their invariants
hold together (`PartsInv`), and the lemmas about their steps are cited for the instances.
`Joined` then ties them: what the exporter was called with is what `End` has handed over, and
what it has collected is the last part of it.

The argument for `Contexts`. `ScopesRestore` looks at all open scopes of a thread at
once. `Chained` says it from scope to scope: undone in the context that the next scope
found (the last one: in the current context), a scope leaves the context that it found itself. Entering
or leaving a scope adds or takes one link. `AfterIsAt` concludes, with `FoldUnfolds`, that
the fold of `SwapIn` over the scopes above has the same result.

The argument for `ViewData`. `ViewInv` says of the data of a view (`DataInv`) that each
row has merges, of itself only (`Labelled`), that its times contain theirs (`Timed`),
and that `update_times` has each row that has a start time once, with the time of its
last merge, the newest first (`Tracked`); the copies that readers have were once so, up
to their end time (`Copied`). Without `Tracked` it could not be said that `PurgeExpired`, which
looks at the back of the list only, removes what is old and nothing else. A `MergeDelta` is one or
two merges, and `Harvest` says what holds after each of them; its parts `Gone`, `Settled`
and `Accounted` give `ExpiryExact` and that what is no longer in the data was purged.
`OnceInv` and `Periods` follow what the only reader of a delta view takes: all that it was given
precedes what it is about to be given, and that precedes what the view has (`OneReader`),
which is more than `TimesHold` asks for of neighbours, because a delta may be empty.
With two readers of one delta view neither holds (`view_data_readers`), so that
`EachMergeInOnePlace` is claimed if no delta views are tried or there is one reader.

The argument for `ViewObjects`. An object is of one of four types, and each constructor and swap must make
the member that the destructor will take away. `ObjectInv` says that every object is `WellMade`,
that each `ViewData` has one of its own and not that of the view (`Shows`), and that no address in use is one a
later step will give out. So a merge or the end of a view touches no `ViewData`
(`ShowsStill`), and what `GetData` hands out, copied, converted or swapped, has the rows that the view
had (`MadeOfWellMade`). Times that an interval view shows are not before its interval (`ShownFrom`),
which is why a `ViewData` remembers of which view and when it was made, and `ObjectInv` that the
object of the view has the type of its descriptor. The kind of view is free: nothing rests on which there are.

The argument for the statistics exporter. `ConsumersMatch` counts with `Cardinality`, so
lemmas say how the set of views of each descriptor changes when a view comes or goes,
and how `AddConsumer` and `RemoveConsumer` count. `StatsExporterInv` adds that ids are
never used again, that only a reader that shares `mu_` has copies, and that what a handler
has is not newer than the view or than the copy the worker is about to hand on.
All changes to views are one lemma (`ViewsChange`), as is all that touches none (`QuietStep`).

The argument for `Sampling`. `SamplingConsistent` speaks of all ancestors of a span, which a
step makes longer by one. `Ancestry` is the least set with the span and the parents of all
in it, so that no recursion is needed: `SamplingInv` says of it that it has one trace id and that
the span is sampled if a sampler of one of its members chose it, and a span that is started takes over
the ancestry of its parent (`AncestryCloses`). `SharesAreExact` is arithmetic:
`RoundIs` bounds what rounding changes by half a unit in the last place. A double below 1 is
2^-53 below it at least (`DoubleBelowOne`), so that the product stays below the half range less one
(`ProductBelow`) and neither half of a threshold wraps. `HalvesAdd` brings the two halves back to one
sum, with what roundings and the cut at the end change it by, and `ThresholdIs` gives its range; the rest
counts ids.

The argument for `Identifiers`. That ids differ follows from where their words come from: all
are among those drawn so far (`WordsDrawn`), and no word was put into two spans, or into a span and a trace
(`EachWordOnce`). `NewContextKeepsInv` is cited for each way in which a context is made. The
forms of an id are told apart digit by digit (`HexTellsApart`).

The argument for `AttributeValues`. Each slot has one live string if it is of that type, and none otherwise
(`OneString`), and is equal to what it was given (`AsMeant`). Assignment first destroys and then constructs; the
model has no assignment of an object to itself, which the library does not make (section 4).

The argument for the `LocalSpanStore`. `StoreInv` places each span: the n-th from the front is the n-th that was
added last. The summary and the queries are folds over the spans that are kept. With `FoldUnfolds` the
summary after n spans is what a count of each bucket and code among the first n says,
and a query that has visited n spans has the first of those among them that match, up to its limit.

The argument for the `RunningSpanStore`. A query visits each span of the store under that span's mutex only,
while others are renamed and end. `RunningInv` follows it: each span is yet to be visited, or in the
answer once, or was passed over (`EachOnce`, `PassedOver`); whoever is in the answer had a name asked for
(`AnswerMatches`), and one passed over had another name at some time, unless the answer is full.

The argument for `Registrations`. `RegistrationsAgree` compares Views with each other and needs to
know what is between them. `RegistrationInv` says that names, ids and indexes of measures correspond
(`NamesOK`), that held measures and descriptors have ids that were given (`MeasuresOK`), and that a
`ViewInformation` is at the index of its measure, matches no other there, and has as many consumers
as there are Views with its handle (`InfosOK`, `ViewsOK`). Counts of Views are
functions of handles, so that a View that comes or goes changes them at one handle,
as it does a `ViewInformation` (`ConsumerRemoved`) or the list of those of a measure.

The argument for `StackdriverStats`. The handler does not keep what the service knows, so `SeriesInv` says
that what it remembers of a metric is what the service was told last (`DescribedOK`): a name that is
remembered is never described again, and one described whose answer was lost is described anew before
a series is sent. `AfterVisits` follows the loop over the views, again with `FoldUnfolds`, and
`TakenIsExportable` says that it sends just what is known after it as the view says. The rest is
arithmetic: `RequestsCut` says that requests begin where the ones before them end, and
that as many as are made are needed, and `BatchesAre` puts them together again.

`SpanStoresAlwaysAnswer` and `SpanDataAlwaysAgrees` put together what is proved of components that
share nothing; `components` checks the same properties for one of them at a time.

Only model-checked:

* every liveness property: fairness and `ENABLED` are out of the prover's reach;
* `HeadersCarry`: what `ParseTags` and the varints read is recursive, byte by byte, and its proof
  an induction over a header of any length;
* `StatisticsAgree` but for `ObjectsKept`, which `ObjectsAlwaysKept` states, and `SpanAccounted`: sums, sorting and
  flattening of data of any length, which are defined by recursion in the libraries they take them from. The steps by which
  a `StatsObject` or a span changes are few; what they compute is what could be wrong, and that is
  induction over data. `BatchesDelivered` filters a list of calls of any length.

`MCComponents` reaches `ParseTags`, so no module with a theorem extends it: the properties of
components with theorems are defined with them or in `ComponentProperties`, which `MCComponents` and
`ComponentsProofs` both extend.

## 6. What is not modelled, and why

* *StatsExporterImpl* (partly): All operations of a program and the worker loop. ExportForTesting and ClearHandlersForTesting, for tests only, are left out.
* *Random, hostname, timestamp and gRPC helpers* (partly): The random generator, as the ids of spans use it. The host name, conversions of times and of gRPC statuses are wrappers of the platform without state.

## 7. Plan

In order of importance. All are built, in the order of the numbers; what each still
lacks is said with it.

1. The statistics pipeline: model, properties, abstract log, proofs. Open: what
   liveness rests on, as invariants.
2. Tracing: spans, stores, exporter, their composition; proofs about
   each, and that both the exporter alone and the composition are a log. Open: tracing as
   a log from `Span::End` on, with `AddSpan` of spans that end at the same time in either order.
3. `ViewData`: one view's data through merges, expiry and readers, with proofs.
   Open: its composition with the view's handle.
4. `StatsExporter`: the worker, its interval, views and handlers, with proofs. Open: the
   two functions for tests (`ExportForTesting`, `ClearHandlersForTesting`), which make the
   run several times longer; its composition with `ViewData` (a delta view that two
   handlers and a puller read).
5. `Registrations`, `TagMaps`, `ViewObjects`: what measures, descriptors, tag maps and a
   view's data are told apart by and how long they live, with proofs of the first and the last. Open:
   `Registrations` with Views of descriptors of no measure, whose ids are arbitrary
   (`UnsetMeasures`): what is promised does not hold of them.
6. `StatsObject`: the ring of buckets against a history. Open: its use by `ViewData`
   for an interval window.
7. `Sampling`, `Identifiers`, with proofs. Open: the composition of `Sampling` with `Spans`, where the
   decision is an input.
8. `Contexts`, with a proof. Open: nothing but functions wrapped by one thread and called by
   another while it has scopes open of its own.
9. `Propagation`: Open: nothing but wider numbers.
10. `Distributions`, `BucketBoundaries`: Open: lemmas on `BucketForValue`.
11. `StackdriverStats`, `PrometheusStats`, `ViewTypes`, with a proof. Open: their composition with
    `StatsExporter`, whose views they are given.
12. `LocalSpanStore`, `RunningSpanStore`, `AttributeValues`, with proofs; `SpanConversion`,
    `SpanValues`, `TraceHandlers`. Open: `RunningSpanStore` composed with `Spans`, whose `End` it
    repeats in small; a theorem for the handlers' batches, without the folds over what a span has.
