-------------------------- MODULE StackdriverStats --------------------------
(***************************************************************************)
(* The Stackdriver stats exporter: its handler describes the metric of     *)
(* each view to the service, once, and sends the rows of the views as time *)
(* series, so many to a request.  ExportViewData holds the handler's mutex *)
(* from its first line to its last, so an export is one step; the outcomes *)
(* of the calls to the service are chosen with it.                         *)
(***************************************************************************)
EXTENDS PrometheusStats, Integers, SequencesExt, FiniteSets, FiniteSetsExt, Functions

CONSTANTS
  MetricNames, \* names of views
  MetricViews, \* records of a name, columns, measure type, window and aggregation
  Settings,    \* the fields of StackdriverOptions that a program sets
  MetricRows,        \* the rows of a view's data
  kTimeSeriesBatchSize, \* how many series a request may have (200)
  MaxExports   \* bound on the exports

\* What views and options are made of.
ASSUME SeriesAssumption ==
  /\ IsFiniteSet(MetricNames) /\ kTimeSeriesBatchSize \in Nat \ {0}
  /\ \A view \in MetricViews :
       /\ view.name \in MetricNames /\ view.measure \in {"double", "int64"}
       /\ view.window \in {"cumulative", "delta", "interval"}
       /\ view.aggregation \in {"count", "sum", "last", "distribution"}
  /\ \A rows \in MetricRows : rows \in Seq(Range(rows))
  /\ \A settings \in Settings :
       "metric_name_prefix" \in DOMAIN settings =>
         settings.metric_name_prefix \in Seq(Range(settings.metric_name_prefix))

VARIABLES
  opts_,       \* of the handler
  given,       \* history: the options it was registered with, and by which overload
  series_descriptors_, \* registered_descriptors_: the views described to the service, by name
  described,  \* external: the service's descriptor of each custom metric
  accepted,   \* history: how often a name was described with success
  exported,   \* the argument of the last ExportViewData()
  requests,   \* the CreateTimeSeries requests of the last ExportViewData()
  exports     \* history: the number of exports

seriesVars ==
  <<opts_, given, series_descriptors_, described, accepted, exported, requests,
    exports>>

----------------------------------------------------------------------------
\* f, and g where f has no value.
Over(f, g) ==
  [x \in DOMAIN f \cup DOMAIN g |-> IF x \in DOMAIN f THEN f[x] ELSE g[x]]

\* The options.  A name is the sequence of its parts.
StackdriverOptions ==
  [project_id |-> "", opencensus_task |-> "", rpc_deadline |-> 60,
   monitored_resource |-> "", per_metric_monitored_resource |-> <<>>,
   metric_name_prefix |-> <<>>, metric_service_stub |-> "null",
   prepare_client_context |-> "nothing"]

SetOptionDefaults(o) ==
  [o EXCEPT !.project_id = <<"projects/", @>>,
            !.opencensus_task = IF @ = "" THEN "cpp-{PID}@{HOSTNAME}" ELSE @,
            !.metric_name_prefix =
              IF @ = <<>> THEN <<"custom.googleapis.com/", "opencensus/">> ELSE @,
            !.metric_service_stub = IF @ = "null" THEN "monitoring.googleapis.com" ELSE @]

\* The options that each overload of Register makes the handler with.  The second takes
\* the stub from opts into a copy, and then moves opts, and not the copy.
Registered(opts) ==
  {[by |-> "move", opts |-> opts, made |-> opts],
   [by |-> "copy", opts |-> opts, made |-> [opts EXCEPT !.metric_service_stub = "null"]]}
  \cup LET named == [StackdriverOptions EXCEPT !.project_id = opts.project_id,
                                               !.opencensus_task = opts.opencensus_task]
       IN {[by |-> "names", opts |-> named, made |-> named]}

----------------------------------------------------------------------------
MakeType(view) == Append(opts_.metric_name_prefix, view.name)

MakeName(view) == opts_.project_id \o <<"/metricDescriptors/">> \o MakeType(view)

IsKnownCustomMetric(metric_type) ==
  Head(metric_type) \in
    {"custom.googleapis.com/", "external.googleapis.com/", "workload.googleapis.com/"}

GetValueType(view) ==
  CASE view.aggregation = "count" -> "INT64"
    [] view.aggregation \in {"sum", "last"} ->
         IF view.measure = "double" THEN "DOUBLE" ELSE "INT64"
    [] view.aggregation = "distribution" -> "DISTRIBUTION"

TaskLabel(add_task_label) == IF add_task_label THEN {"opencensus_task"} ELSE {}

\* SetMetricDescriptor
MetricDescriptor(view, add_task_label) ==
  [name |-> MakeName(view), type |-> MakeType(view),
   labels |-> TaskLabel(add_task_label) \cup ToSet(view.columns),
   kind |-> IF view.aggregation = "last" THEN "GAUGE" ELSE "CUMULATIVE",
   value_type |-> GetValueType(view)]

\* The view's own resource, or the handler's, if either is set.
MonitoredResourceForView(view) ==
  LET own == opts_.per_metric_monitored_resource IN
  IF view.name \in DOMAIN own THEN own[view.name]
  ELSE IF opts_.monitored_resource = "" THEN "global" ELSE opts_.monitored_resource

\* The three SetTypedValues: the field that is set, or what an assertion refuses.  A
\* double goes into either of two fields.
SetTypedValue(data_type, type) ==
  CASE data_type = "kDouble" ->
         IF type = "DOUBLE" THEN "double_value"
         ELSE IF type = "INT64" THEN "int64_value" ELSE "bad"
    [] data_type = "kInt64" -> IF type = "INT64" THEN "int64_value" ELSE "bad"
    [] data_type = "kDistribution" ->
         IF type = "DISTRIBUTION" THEN "distribution_value" ELSE "bad"

\* What MakeTimeSeries makes of a row.  A series of a gauge has no start time.
TimeSeries(view, row, data_type, add_task_label) ==
  [type |-> MakeType(view), row |-> row, resource |-> MonitoredResourceForView(view),
   labels |-> TaskLabel(add_task_label) \cup ToSet(view.columns),
   task |-> IF add_task_label THEN opts_.opencensus_task ELSE "",
   value |-> SetTypedValue(data_type, GetValueType(view)),
   start_time |-> view.aggregation # "last"]

MakeTimeSeries(datum, add_task_label) ==
  LET data_type == ViewDataType(datum.view)
      rows == Accessor(datum, data_type)
  IN [i \in DOMAIN rows |-> TimeSeries(datum.view, rows[i], data_type, add_task_label)]

\* The requests: num_rpcs is rounded up.  Each call has a context of its own, which
\* prepare_client_context is given.
Batches(time_series) ==
  LET num_rpcs == (Len(time_series) + kTimeSeriesBatchSize - 1) \div kTimeSeriesBatchSize
  IN [rpc_index \in 1 .. num_rpcs |->
        [to |-> opts_.metric_service_stub, name |-> opts_.project_id,
         deadline |-> opts_.rpc_deadline, context |-> opts_.prepare_client_context,
         time_series |-> SubSeq(time_series, (rpc_index - 1) * kTimeSeriesBatchSize + 1,
                                Min({Len(time_series), rpc_index * kTimeSeriesBatchSize}))]]

\* Mutant: a view is remembered before the service has answered.
MaybeRegisterViewFirst(registered, view, ok) ==
  IF view.name \in DOMAIN registered
  THEN [registered |-> registered, result |-> registered[view.name] = view]
  ELSE [registered |-> Over(registered, [name \in {view.name} |-> view]), result |-> ok]

\* MaybeRegisterView, with the registered views before it and after.  ok: whether
\* the service accepts a descriptor.
MaybeRegisterView(registered, view, ok) ==
  IF view.name \in DOMAIN registered
  THEN [registered |-> registered, result |-> registered[view.name] = view]
  ELSE IF ~ok THEN [registered |-> registered, result |-> FALSE]
  ELSE [registered |-> Over(registered, [name \in {view.name} |-> view]), result |-> TRUE]

\* The loop over the views, with the answer that MaybeRegisterView would get.  Builtin
\* metrics are not described.
VisitView(acc, visit) ==
  LET datum == visit.datum
      view == datum.view
      custom == IsKnownCustomMetric(MakeType(view))
      maybe == IF custom THEN MaybeRegisterView(acc.registered, view, visit.ok)
               ELSE [registered |-> acc.registered, result |-> TRUE]
  IN [registered |-> maybe.registered,
      time_series |-> IF maybe.result
                      THEN acc.time_series \o MakeTimeSeries(datum, custom)
                      ELSE acc.time_series]

\* The views of an export are cumulative, and have different names: the exporter keeps
\* them by name.
ExportData ==
  {data \in UNION {[1 .. n -> [view : {v \in MetricViews : Exported(v)}, rows : MetricRows]] :
                     n \in 0 .. Cardinality(MetricNames)} :
     \A i, j \in DOMAIN data : data[i].view.name = data[j].view.name => i = j}

\* answer: what becomes of a CreateMetricDescriptor call for a name.  The service
\* may have done what it was asked though the answer is lost, or is too late for
\* rpc_deadline.  A CreateTimeSeries that fails is logged and not repeated.
ExportViewData(data, answer) ==
  LET visits == [i \in DOMAIN data |->
                   [datum |-> data[i], ok |-> answer[data[i].view.name] = "ok"]]
      after == FoldLeft(VisitView,
                        [registered |-> series_descriptors_, time_series |-> <<>>], visits)
      asked == {datum.view : datum \in {d \in ToSet(data) :
                  /\ IsKnownCustomMetric(MakeType(d.view))
                  /\ d.view.name \notin DOMAIN series_descriptors_}}
      done == {view \in asked : answer[view.name] # "refused"}
  IN /\ exports < MaxExports
     /\ series_descriptors_' = after.registered
     /\ described' = Over([name \in {view.name : view \in done} |->
          MetricDescriptor(CHOOSE view \in done : view.name = name, TRUE)], described)
     /\ accepted' = [name \in MetricNames |->
          accepted[name] + Cardinality({view \in asked :
                             view.name = name /\ answer[name] = "ok"})]
     /\ exported' = data
     /\ requests' = Batches(after.time_series)
     /\ exports' = exports + 1
     /\ UNCHANGED <<opts_, given>>

SeriesInit ==
  /\ \E settings \in Settings : \E register \in Registered(Over(settings, StackdriverOptions)) :
       /\ given = [by |-> register.by, opts |-> register.opts]
       /\ opts_ = SetOptionDefaults(register.made)
  /\ series_descriptors_ = <<>>
  /\ described = <<>>
  /\ accepted = [name \in MetricNames |-> 0]
  /\ exported = <<>> /\ requests = <<>> /\ exports = 0

SeriesNext ==
  \E data \in ExportData :
    \E answer \in [{datum.view.name : datum \in ToSet(data)} -> {"ok", "refused", "lost"}] :
      ExportViewData(data, answer)

SeriesSpec == SeriesInit /\ [][SeriesNext]_seriesVars

----------------------------------------------------------------------------
ValueField == [DOUBLE |-> "double_value", INT64 |-> "int64_value",
               DISTRIBUTION |-> "distribution_value"]

\* A view whose metric the service knows as the view describes it.
Exportable(view) ==
  IsKnownCustomMetric(MakeType(view)) =>
    /\ view.name \in DOMAIN series_descriptors_
    /\ series_descriptors_[view.name] = view

\* A series of a custom metric is as the service was told of the metric last.
SeriesAgrees(series) ==
  IsKnownCustomMetric(series.type) =>
    LET name == Last(series.type) IN
    /\ name \in DOMAIN described
    /\ described[name].type = series.type /\ described[name].labels = series.labels
    /\ ValueField[described[name].value_type] = series.value
    /\ described[name].kind = "CUMULATIVE" <=> series.start_time

\* A request goes where the program said, in the name of its project and with what it
\* adds to the context, but for the stub that the second overload loses.
RequestAsAsked(request) ==
  /\ Last(request.name) = given.opts.project_id
  /\ request.context = given.opts.prepare_client_context
  /\ request.deadline = given.opts.rpc_deadline
  /\ given.by # "copy" /\ given.opts.metric_service_stub # "null" =>
       request.to = given.opts.metric_service_stub

Plus(sum, number) == sum + number
Total(numbers) == FoldLeft(Plus, 0, numbers)

\* "Registers 'descriptor' ... if no view by that name has been registered": every
\* series of a custom metric is as the service was told last, though calls fail, or
\* are done and not answered, and views are altered; a metric is accepted once; and
\* each row of a view that can be exported is in one request of a legal size.  What
\* Prometheus collects of the same data is typed as its families are.
SeriesDescribed ==
  /\ \A request \in ToSet(requests) :
       /\ RequestAsAsked(request)
       /\ Len(request.time_series) \in 1 .. kTimeSeriesBatchSize
       /\ \A series \in ToSet(request.time_series) : SeriesAgrees(series)
  /\ \A name \in MetricNames : accepted[name] <= 1
  /\ LET sent == FlattenSeq([i \in DOMAIN requests |-> requests[i].time_series])
         due == [i \in DOMAIN exported |->
                   IF Exportable(exported[i].view) THEN exported[i].rows ELSE <<>>]
     IN /\ Len(sent) = Total([i \in DOMAIN due |-> Len(due[i])])
        /\ \A i \in DOMAIN due : \A row \in ToSet(due[i]) :
             \E k \in DOMAIN sent : sent[k].type = MakeType(exported[i].view) /\ sent[k].row = row
  /\ FamiliesTyped(exported)
=============================================================================
