\* Two threads start, change and end the same two spans, with limits that the changes overrun.
SPECIFICATION Spec
CONSTANTS
  NoSpan = NoSpan
  Threads = {t1, t2}
  SpanIds = {s1, s2}
  Params <- Several
  kMaxSpans = 1
  Keys = {k1, k2}
  MaxChanges = 2
INVARIANTS
  EndedOnce
  RunningTracked
  LimitsKept
  LinksMutual
PROPERTIES
  FrozenAfterEnd
CHECK_DEADLOCK FALSE
