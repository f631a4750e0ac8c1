\* One component at a time of those that share no state.  The numbers of
\* those without constants here are fixed in the module; spans are
\* interchangeable.
SPECIFICATION ComponentsSpec
CONSTANTS
  kMaxSpans = 2
  Names = {n1, n2}
  AnyName = AnyName
  Codes = {OK, NOT_FOUND}
  Latencies <- SomeLatencies
  Uint64Range = 1073741824
  Maxima = {0, 1, 2}
  FilterLimits <- SomeFilterLimits
  MaxAdded = 3
  RunningSpans = {1, 2}
  RunningNames = {"m", "n"}
  Limits <- SomeLimits
  MaxRenames = 2
  Slots = {1, 2, 3}
  Arguments <- SomeArguments
  IntWidth = 4
  MaxOps = 5
  HalfRange = 16
  Denominator = 64
  Significands = 64
  Ulps = {1, 2, 4, 8, 16, 32, 64}
  Numerators = {0, 11, 43}
  Processes = {p1, p2}
  TraceIds = {0, 44, 171}
  SpanNames = {a, b, c}
  NoParent = NoParent
  MaxSets = 1
  WordBytes = 2
  SpanIdSize = 2
  TraceIdSize = 4
  OptionBits = 2
  MaxContexts = 3
  kIndexes = 4
  MeasureNames = {"", "m", "n"}
  Units = {"u"}
  Descriptors = {"k"}
  Locals = {"v"}
  ViewNames = {"a"}
  Aggregations <- OneAggregation
  AggregationWindows <- OneWindow
  Columns = {"c"}
  ExpiryDurations = {1}
  UnsetMeasures = FALSE
  MaxCalls = 5
  MetricNames = {"a", "b"}
  MetricViews <- SomeMetricViews
  Settings <- SomeSettings
  MetricRows <- ThreeRows
  kTimeSeriesBatchSize = 2
  MaxExports = 2
  Objects = {o1, o2}
  Threads = {t1, t2}
  Spans = {s1}
  BlankSpan = BlankSpan
  TagMaps = {m1}
  NoTags = NoTags
  MaxScopes = 3
  MaxWraps = 1
  Rows = {r1, r2}
  Windows = {"delta", "cumulative", "interval"}
  Duration = 1
  Expiries = {0, 1}
  Readers = {reader}
  MaxTime = 2
  MaxMerges = 3
  MaxReads = 2
SYMMETRY Symmetry
CHECK_DEADLOCK FALSE
INVARIANTS
  SpanStoresAnswer
  StatisticsAgree
  RegistrationsAgree
  ScopesRestore
  HeadersCarry
  SeriesDescribed
  SpanAccounted
  SpanDataAgrees
  EachMergeOnce
  TimesHold
PROPERTIES
  ExpiryExact
