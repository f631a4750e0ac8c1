---------------------------- MODULE PrometheusStats ----------------------------
(***************************************************************************)
(* The Prometheus stats exporter, a Collectable: what Collect() makes of   *)
(* StatsExporter::GetViewData().  It keeps no state.                       *)
(***************************************************************************)
EXTENDS ViewTypes, Sequences

MetricType(aggregation) ==
  CASE aggregation = "count" -> "Counter"
    [] aggregation = "sum" -> "Untyped"
    [] aggregation = "last" -> "Gauge"
    [] aggregation = "distribution" -> "Histogram"

\* The three SetValues: the field that is set, or what an assertion refuses.
SetValue(data_type, type) ==
  CASE data_type = "kDouble" ->
         IF type = "Untyped" THEN "untyped" ELSE IF type = "Gauge" THEN "gauge" ELSE "bad"
    [] data_type = "kInt64" ->
         CASE type = "Counter" -> "counter" [] type = "Gauge" -> "gauge"
           [] type = "Untyped" -> "untyped" [] OTHER -> "bad"
    [] data_type = "kDistribution" -> "histogram"

SetData(view, data_type, rows, type) ==
  [i \in DOMAIN rows |->
     [label |-> view.columns, row |-> rows[i], field |-> SetValue(data_type, type)]]

SetMetricFamily(datum) ==
  LET type == MetricType(datum.view.aggregation)
      data_type == ViewDataType(datum.view)
  IN [name |-> datum.view.name, type |-> type,
      metric |-> SetData(datum.view, data_type, Accessor(datum, data_type), type)]

Collect(data) == [i \in DOMAIN data |-> SetMetricFamily(data[i])]

----------------------------------------------------------------------------
FieldOf == [Counter |-> "counter", Untyped |-> "untyped", Gauge |-> "gauge",
            Histogram |-> "histogram"]

\* A family has a metric for each row, with its value in the field of the family's
\* type; no SetValue is asked for another.
FamiliesTyped(data) ==
  \A i \in DOMAIN data :
    LET family == Collect(data)[i] IN
    /\ family.name = data[i].view.name
    /\ [k \in DOMAIN family.metric |-> family.metric[k].row] = data[i].rows
    /\ \A k \in DOMAIN family.metric : family.metric[k].field = FieldOf[family.type]
=============================================================================
