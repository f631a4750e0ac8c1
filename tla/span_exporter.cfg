\* A thread that registers two handlers and exports for testing beside the worker.
SPECIFICATION Spec
CONSTANTS
  Worker = worker
  Free = Free
  Threads = {t1}
  Testers = {t1}
  Spans = {s1, s2}
  Handlers = {h1, h2}
  BatchSizes = {0, 2}
  Intervals = {0, 1}
INVARIANTS
  SpansInOnePlace
  HandlersAgree
PROPERTIES
  CallsReturn
  WorkerNeverSpins
