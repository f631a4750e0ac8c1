\* Two threads end spans while another registers a handler, and the worker exports: to the handlers, in order, and in the end.
SPECIFICATION TracingSpec
CONSTANTS
  NoSpan = NoSpan
  Worker = worker
  Free = Free
  Threads = {t1, t2}
  Initializers = {i1}
  SpanIds = {s1, s2}
  Params <- Roomy
  kMaxSpans = 1
  Keys = {}
  MaxChanges = 0
  Handlers = {h1}
  BatchSizes = {1}
  Intervals = {}
INVARIANTS
  ExportedSpansHaveEnded
  ExportedInOrder
PROPERTIES
  ImplementsLog
  SampledSpansExported
CHECK_DEADLOCK FALSE
