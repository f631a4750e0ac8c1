---------------------------- MODULE MCComponents ----------------------------
(***************************************************************************)
(* Small instances, for TLC, of the components that share no state with    *)
(* any other.  An execution is of one of them, which ComponentsInit        *)
(* chooses; the variables of the others keep their values.                 *)
(***************************************************************************)
EXTENDS Integers, Sequences, FiniteSets, TLC, ComponentProperties, ViewData

CONSTANTS Objects \* of StatsObject

\* Values of constants.
SomeLatencies == {-2, 0, 10, 100000000}
SomeFilterLimits == {0, 10, Uint64Range - 1}
SomeLimits == {-1, 0, 1, 2}
SomeArguments ==
  {[of |-> "string_view", value |-> 1], [of |-> "char*", value |-> 3],
   [of |-> "bool", value |-> 1], [of |-> "integral", value |-> 15]}
OneAggregation == {[type |-> "distribution", bucket_boundaries |-> <<1>>]}
OneWindow == {[type |-> "interval", duration |-> 5]}
SomeMetricViews ==
  {[name |-> "a", columns |-> <<"k">>, measure |-> "double", aggregation |-> "count",
    window |-> "cumulative"],
   [name |-> "a", columns |-> <<>>, measure |-> "int64", aggregation |-> "last",
    window |-> "cumulative"],
   [name |-> "b", columns |-> <<>>, measure |-> "double", aggregation |-> "sum",
    window |-> "cumulative"],
   [name |-> "b", columns |-> <<>>, measure |-> "double", aggregation |-> "distribution",
    window |-> "cumulative"],
   [name |-> "b", columns |-> <<>>, measure |-> "double", aggregation |-> "sum",
    window |-> "interval"]}
SomeSettings ==
  {[project_id |-> "p", metric_service_stub |-> "fake",
    prepare_client_context |-> "credentials",
    per_metric_monitored_resource |-> [b |-> "r"]],
   [project_id |-> "p", metric_name_prefix |-> <<"kubernetes.io/">>]}
ThreeRows == {<<1, 2, 3>>}

VARIABLE part \* the component
VARIABLES object, since, added, adds, merges
VARIABLES context, expected, rejected, registered_tag_keys_, tags, sent, hops
VARIABLES recorded, offered
VARIABLES interfaces, handlers, batches, arrived
VARIABLES boundaries_, measure_data, distribution, batch, merged_values
VARIABLES tag_keys_, maps, rows, lookups
VARIABLES kind, heap, view_data, clock, steps

windowVars == <<object, since, added, adds, merges>>
requestVars == <<context, expected, rejected, registered_tag_keys_, tags, sent, hops>>
fillVars == <<recorded, offered>>
sendVars == <<interfaces, handlers, batches, arrived>>
statsVars == <<boundaries_, measure_data, distribution, batch, merged_values>>
tagMapVars == <<tag_keys_, maps, rows, lookups>>
objectVars == <<kind, heap, view_data, clock, steps>>

Sliding == INSTANCE StatsObject WITH
  N <- 2, bucket_interval <- 3, Width <- 3, Values <- {1, 3},
  Times <- {0, 1, 3, 5, 7, 10, 40}, MaxAdds <- 2, MaxMerges <- 1

Request == INSTANCE Propagation WITH
  Halves <- {0, 1}, SpanIds <- {0, 1}, Options <- {0, 3}, Bits <- 2, IntWidth <- 5,
  kMaxLen <- 13, TagNames <- {<<>>, <<1>>, <<5, 5, 5, 5>>}, TagValues <- {<<>>, <<0, 7>>},
  MaxHops <- 2

Short == [type |-> "string", value |-> 1]
Long  == [type |-> "string", value |-> 3]
Seven == [type |-> "int", value |-> 7]
True  == [type |-> "bool", value |-> 1]

Fill == INSTANCE SpanConversion WITH
  MaxEvents <- 1, MaxAttributes <- 1, Strings <- {1, 3},
  Annotations <- {[description |-> 3, attributes |-> <<[key |-> "k1", value |-> Seven],
                                                       [key |-> "k1", value |-> True]>>],
                  [description |-> 1, attributes |-> <<>>]},
  Messages <- {[type |-> "SENT", message_id |-> 1, compressed_message_size |-> 2,
                uncompressed_message_size |-> 3]},
  Links <- {[type |-> "kChildLinkedSpan", context |-> [trace_id |-> 1, span_id |-> 8, options |-> 1],
             attributes |-> <<[key |-> "k1", value |-> Long]>>],
            [type |-> "kParentLinkedSpan", context |-> [trace_id |-> 2, span_id |-> 9, options |-> 0],
             attributes |-> <<[key |-> "k2", value |-> Seven]>>]},
  Attributes <- {[key |-> "k1", value |-> Short], [key |-> "k2", value |-> Long],
                 [key |-> "k2", value |-> Seven]},
  Statuses <- {[code |-> 0, message |-> 2], [code |-> 16, message |-> 2]},
  kDisplayNameStringLen <- 2, kAnnotationStringLen <- 2, kAttributeStringLen <- 2,
  kAgentKey <- "agent", kAgentValue <- 3, MaxFills <- 3

Send == INSTANCE TraceHandlers WITH
  ZipkinSettings <- {[url |-> "url", af_type |-> "kIpv6", http_proxy_tunnel |-> TRUE]},
  AgentSettings <- {[address |-> "a", trace_service_stub |-> "fake"]},
  StackdriverSettings <- {[project_id |-> "p", prepare_client_context |-> "credentials",
                           rpc_deadline |-> 1]},
  MaxHandlers <- 2, MaxBatch <- 2, MaxSpans <- 2

\* For the boundaries of views.
Bounds == INSTANCE BucketBoundaries

Stats == INSTANCE Distributions WITH
  merged <- merged_values,
  Scale <- 12, Measured <- {-2, 0, 1, 3}, Infinity <- 1000, MaxValues <- 4,
  Boundaries <- {Bounds!Linear(1, -1, 2), Bounds!Exponential(2, 1, 3), Bounds!Explicit(<<2, 1>>)}

TagMap == INSTANCE TagMaps WITH
  registered_tag_keys_ <- tag_keys_, KeyNames <- {"a", "b"}, TagValues <- {0, 1},
  MapSlots <- {"x", "y"}, MaxTags <- 2, MaxOps <- 4

Kept == INSTANCE ViewObjects WITH
  ViewKinds <- [window : {"cumulative", "delta", "interval"},
                aggregation : {"sum", "distribution"}, measure : {"int64"}, duration : {1}]
               \cup {[window |-> "interval", aggregation |-> "count", measure |-> "double",
                      duration |-> 1],
                     [window |-> "cumulative", aggregation |-> "last", measure |-> "double",
                      duration |-> 1]},
  TagRows <- {"x", "y"}, MaxSteps <- 5


----------------------------------------------------------------------------
\* The variables of a component that is not the part.
NoWindow ==
  /\ object = <<>> /\ since = <<>> /\ added = <<>> /\ adds = <<>>
  /\ merges = <<>>
NoRequest ==
  /\ context = <<>> /\ expected = <<>> /\ rejected = <<>>
  /\ registered_tag_keys_ = <<>> /\ tags = <<>> /\ sent = <<>> /\ hops = <<>>
NoSeries == SeriesInit /\ given.by = "names"
NoFill == recorded = <<>> /\ offered = <<>>
NoSend == interfaces = <<>> /\ handlers = <<>> /\ batches = <<>> /\ arrived = <<>>
NoStats ==
  /\ boundaries_ = <<>> /\ measure_data = <<>> /\ distribution = <<>>
  /\ batch = <<>> /\ merged_values = <<>>
NoTagMap == tag_keys_ = <<>> /\ maps = <<>> /\ rows = <<>> /\ lookups = <<>>
NoObject ==
  /\ kind = <<>> /\ heap = <<>> /\ view_data = <<>> /\ clock = <<>>
  /\ steps = <<>>
NoRunning == RunningInit /\ names = [span \in RunningSpans |-> "m"]
NoSampler == SamplingInit /\ probability = [p \in Processes |-> 0]
NoView == Init /\ aggregation_window_ = "cumulative" /\ expiry_duration_ = 0

ComponentsInit ==
  /\ part \in {"store", "window", "scope", "request", "series", "fill", "send",
              "running", "value", "sampler", "stats", "registration", "tagmap",
              "object", "id", "view"}
  /\ StoreInit
  /\ IF part = "window" THEN Sliding!WindowInit ELSE NoWindow
  /\ ContextInit
  /\ IF part = "request" THEN Request!RequestInit ELSE NoRequest
  /\ IF part = "series" THEN SeriesInit ELSE NoSeries
  /\ IF part = "fill" THEN Fill!FillInit ELSE NoFill
  /\ IF part = "send" THEN Send!SendInit ELSE NoSend
  /\ IF part = "running" THEN RunningInit ELSE NoRunning
  /\ ValuesInit
  /\ IF part = "sampler" THEN SamplingInit ELSE NoSampler
  /\ IF part = "stats" THEN Stats!StatsInit ELSE NoStats
  /\ RegistrationInit
  /\ IF part = "tagmap" THEN TagMap!TagMapInit ELSE NoTagMap
  /\ IF part = "object" THEN Kept!ObjectInit ELSE NoObject
  /\ IdentifierInit
  /\ IF part = "view" THEN Init ELSE NoView

StoreStep ==
  /\ part = "store" /\ StoreNext
  /\ UNCHANGED <<part, windowVars, contextVars, requestVars, seriesVars, fillVars,
                 sendVars, runningVars, valueVars, samplingVars, statsVars,
                 registrationVars, tagMapVars, objectVars, identifierVars, vars>>

WindowStep ==
  /\ part = "window" /\ Sliding!WindowNext
  /\ UNCHANGED <<part, storeVars, contextVars, requestVars, seriesVars, fillVars,
                 sendVars, runningVars, valueVars, samplingVars, statsVars,
                 registrationVars, tagMapVars, objectVars, identifierVars, vars>>

ScopeStep ==
  /\ part = "scope" /\ ContextNext
  /\ UNCHANGED <<part, storeVars, windowVars, requestVars, seriesVars, fillVars,
                 sendVars, runningVars, valueVars, samplingVars, statsVars,
                 registrationVars, tagMapVars, objectVars, identifierVars, vars>>

RequestStep ==
  /\ part = "request" /\ Request!RequestNext
  /\ UNCHANGED <<part, storeVars, windowVars, contextVars, seriesVars, fillVars,
                 sendVars, runningVars, valueVars, samplingVars, statsVars,
                 registrationVars, tagMapVars, objectVars, identifierVars, vars>>

SeriesStep ==
  /\ part = "series" /\ SeriesNext
  /\ UNCHANGED <<part, storeVars, windowVars, contextVars, requestVars, fillVars,
                 sendVars, runningVars, valueVars, samplingVars, statsVars,
                 registrationVars, tagMapVars, objectVars, identifierVars, vars>>

FillStep ==
  /\ part = "fill" /\ Fill!FillNext
  /\ UNCHANGED <<part, storeVars, windowVars, contextVars, requestVars, seriesVars,
                 sendVars, runningVars, valueVars, samplingVars, statsVars,
                 registrationVars, tagMapVars, objectVars, identifierVars, vars>>

SendStep ==
  /\ part = "send" /\ Send!SendNext
  /\ UNCHANGED <<part, storeVars, windowVars, contextVars, requestVars, seriesVars,
                 fillVars, runningVars, valueVars, samplingVars, statsVars,
                 registrationVars, tagMapVars, objectVars, identifierVars, vars>>

RunningStep ==
  /\ part = "running" /\ RunningNext
  /\ UNCHANGED <<part, storeVars, windowVars, contextVars, requestVars, seriesVars,
                 fillVars, sendVars, valueVars, samplingVars, statsVars,
                 registrationVars, tagMapVars, objectVars, identifierVars, vars>>

ValueStep ==
  /\ part = "value" /\ ValuesNext
  /\ UNCHANGED <<part, storeVars, windowVars, contextVars, requestVars, seriesVars,
                 fillVars, sendVars, runningVars, samplingVars, statsVars,
                 registrationVars, tagMapVars, objectVars, identifierVars, vars>>

SamplerStep ==
  /\ part = "sampler" /\ SamplingNext
  /\ UNCHANGED <<part, storeVars, windowVars, contextVars, requestVars, seriesVars,
                 fillVars, sendVars, runningVars, valueVars, statsVars,
                 registrationVars, tagMapVars, objectVars, identifierVars, vars>>

StatsStep ==
  /\ part = "stats" /\ Stats!StatsNext
  /\ UNCHANGED <<part, storeVars, windowVars, contextVars, requestVars, seriesVars,
                 fillVars, sendVars, runningVars, valueVars, samplingVars,
                 registrationVars, tagMapVars, objectVars, identifierVars, vars>>

RegistrationStep ==
  /\ part = "registration" /\ RegistrationNext
  /\ UNCHANGED <<part, storeVars, windowVars, contextVars, requestVars, seriesVars,
                 fillVars, sendVars, runningVars, valueVars, samplingVars,
                 statsVars, tagMapVars, objectVars, identifierVars, vars>>

TagMapStep ==
  /\ part = "tagmap" /\ TagMap!TagMapNext
  /\ UNCHANGED <<part, storeVars, windowVars, contextVars, requestVars, seriesVars,
                 fillVars, sendVars, runningVars, valueVars, samplingVars,
                 statsVars, registrationVars, objectVars, identifierVars, vars>>

ObjectStep ==
  /\ part = "object" /\ Kept!ObjectNext
  /\ UNCHANGED <<part, storeVars, windowVars, contextVars, requestVars, seriesVars,
                 fillVars, sendVars, runningVars, valueVars, samplingVars,
                 statsVars, registrationVars, tagMapVars, identifierVars, vars>>

IdStep ==
  /\ part = "id" /\ IdentifierNext
  /\ UNCHANGED <<part, storeVars, windowVars, contextVars, requestVars, seriesVars,
                 fillVars, sendVars, runningVars, valueVars, samplingVars,
                 statsVars, registrationVars, tagMapVars, objectVars, vars>>

ViewStep ==
  /\ part = "view" /\ Next
  /\ UNCHANGED <<part, storeVars, windowVars, contextVars, requestVars, seriesVars,
                 fillVars, sendVars, runningVars, valueVars, samplingVars,
                 statsVars, registrationVars, tagMapVars, objectVars,
                 identifierVars>>

ComponentsNext ==
  \/ StoreStep
  \/ WindowStep
  \/ ScopeStep
  \/ RequestStep
  \/ SeriesStep
  \/ FillStep
  \/ SendStep
  \/ RunningStep
  \/ ValueStep
  \/ SamplerStep
  \/ StatsStep
  \/ RegistrationStep
  \/ TagMapStep
  \/ ObjectStep
  \/ IdStep
  \/ ViewStep

componentsVars ==
  <<part, storeVars, windowVars, contextVars, requestVars, seriesVars, fillVars,
    sendVars, runningVars, valueVars, samplingVars, statsVars, registrationVars,
    tagMapVars, objectVars, identifierVars, vars>>

ComponentsSpec == ComponentsInit /\ [][ComponentsNext]_componentsVars

Symmetry == Permutations(SpanNames)

----------------------------------------------------------------------------
\* A StatsObject sums up the window that ends at the time asked for, after late values,
\* shifts and merges in any order; a view's statistics are those of all values in the
\* deltas merged into it, and what is sent of them adds up; the objects that carry
\* them to exporters keep their types, rows and times; and the row of data that a
\* TagMap stands for is that of its set of tags, whatever the order they were given in.
StatisticsAgree ==
  /\ part = "window" => Sliding!WindowSums
  /\ part = "stats" => Stats!DistributionsAgree
  /\ part = "object" => Kept!ObjectsKept
  /\ part = "tagmap" => TagMap!TagMapsAgree

\* Through propagation headers of any formats ids, sampling decisions and tags arrive
\* as they were sent, or not at all.
HeadersCarry == part = "request" => Request!HeadersCarry

\* What a span was given is sent by the trace exporters, or counted as dropped or cut;
\* and their handlers send the batches whole, in order and once, whatever calls fail.
SpanAccounted ==
  /\ part = "fill" => Fill!SpanAccounted
  /\ part = "send" => Send!BatchesDelivered

\* "buckets must outlive the Distribution" (distribution.h:64).  TLC refutes it.
BoundariesAlive == part = "object" => Kept!BoundariesAlive
=============================================================================
