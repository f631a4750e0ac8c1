\* Two threads register and look up two measures at once in a debug build.
SPECIFICATION Spec
CONSTANTS
  tag_key = tag_key
  value1 = value1
  value2 = value2
  Harvester = harvester
  NoTag = NoTag
  NotDistribution = NotDistribution
  Free = Free
  Null = Null
  Threads = {t1, t2}
  Registrars = {t1, t2}
  Flushers = {}
  Names = {m1, m2}
  TagMaps <- OneTagMap
  Columns <- KeyColumn
  Boundaries = {b1}
  Handles = {h1, h2}
  Lookups = TRUE
  UseInvalid = FALSE
  NDEBUG = FALSE
  MaxRecords = 1
SYMMETRY HandleSymmetry
INVARIANTS
  DeltaConfiguration
  DeltaWithinMeasures
  CallsMoveWhole
CHECK_DEADLOCK FALSE
