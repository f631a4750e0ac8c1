\* Two readers of a delta view at once.
SPECIFICATION Spec
CONSTANTS
  Rows = {r1, r2}
  Windows = {"delta"}
  Duration = 2
  Expiries = {0}
  Readers = {t1, t2}
  MaxTime = 3
  MaxMerges = 4
  MaxReads = 2
INVARIANTS
  OneDelta
CHECK_DEADLOCK FALSE
