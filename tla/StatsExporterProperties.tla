---------------------- MODULE StatsExporterProperties ----------------------
(***************************************************************************)
(* What is claimed of StatsExporter.                                       *)
(***************************************************************************)
EXTENDS StatsExporter

\* Every view registered for export has a consumer of the data of its
\* descriptor, and nothing else has: the data of a view that is copied is there,
\* and that of a view that was removed or replaced is not kept.
ConsumersMatch ==
  /\ Range(views_) = DOMAIN info
  /\ \A d \in DOMAIN info :
       info[d].num_consumers = Cardinality({name \in DOMAIN views_ : views_[name] = d})

\* A handler is called with exactly the views that are registered while it is
\* called, each with data that is at most that of the view by now.
ExportsComplete ==
  /\ \A t \in Readers : \A name \in DOMAIN data[t] :
       LET copy == data[t][name] IN
       /\ name \in DOMAIN views_ /\ copy.descriptor = views_[name]
       /\ copy.id = info[copy.descriptor].id
       /\ copy.merges <= info[copy.descriptor].merges
  /\ pc[Worker] = "call" => DOMAIN data[Worker] = DOMAIN views_

\* Registering a view again with the descriptor it has keeps its data, and what a
\* handler is given of one view never goes back.
DataKept ==
  [][/\ \A name \in DOMAIN views_ \cap DOMAIN views_' :
          views_[name] = views_'[name] =>
            info'[views_[name]].id = info[views_[name]].id
     /\ \A h \in Handlers :
          \A name \in DOMAIN exported[h] \cap DOMAIN exported'[h] :
            exported[h][name].id = exported'[h][name].id =>
              exported[h][name].merges <= exported'[h][name].merges]_vars

\* "Every few seconds, each registered handler will be called with the present
\* data for each registered view": what was merged into a view reaches every
\* handler registered by then, unless the view is removed or replaced.
DataExported ==
  \A name \in Names, d \in Descriptors, h \in Handlers, n \in 1 .. MaxMerges :
    /\ name \in DOMAIN views_ /\ views_[name] = d /\ info[d].merges = n
    /\ h \in Range(handlers_)
    ~> \/ name \notin DOMAIN views_ \/ views_[name] # d
       \/ name \in DOMAIN exported[h] /\ exported[h][name].merges >= n
=============================================================================
