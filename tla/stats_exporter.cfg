\* Two views under two names, a handler, a puller: views come and go, data is merged, and the worker exports.
SPECIFICATION Spec
CONSTANTS
  Names = {n1, n2}
  Descriptors = {d1, d2}
  Handlers = {h1}
  Pullers = {p1}
  Worker = worker
  Intervals = {0, 1}
  MaxMerges = 1
  MaxViews = 3
INVARIANTS
  ConsumersMatch
  ExportsComplete
PROPERTIES
  DataKept
  DataExported
