------------------------------- MODULE ViewTypes -------------------------------
(***************************************************************************)
(* The types of a view's data: ViewDataImpl's, by the descriptor, and      *)
(* ViewData's, by which exporters choose an accessor.                      *)
(***************************************************************************)

NumberType(measure) == IF measure = "double" THEN "kDouble" ELSE "kInt64"

\* ViewDataImpl::TypeForDescriptor
TypeForDescriptor(view) ==
  CASE view.window = "interval" -> "kStatsObject"
    [] view.window # "interval" /\ view.aggregation \in {"sum", "last"} -> NumberType(view.measure)
    [] view.window # "interval" /\ view.aggregation = "count" -> "kInt64"
    [] view.window # "interval" /\ view.aggregation = "distribution" -> "kDistribution"

\* ViewDescriptor::RegisterForExport: other views stay out of the exporter.
Exported(view) == view.window = "cumulative"

\* ViewData::type, of a view that is exported: there is no ViewData of kStatsObject.
ViewDataType(view) == TypeForDescriptor(view)

\* double_data(), int_data() and distribution_data(): the rows, or no rows from
\* another accessor than that of the type.
Accessor(datum, type) == IF type = ViewDataType(datum.view) THEN datum.rows ELSE <<>>
=============================================================================
