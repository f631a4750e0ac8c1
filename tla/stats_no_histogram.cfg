\* A second view shares boundaries that are still on their way.
SPECIFICATION Spec
CONSTANTS
  tag_key = tag_key
  value1 = value1
  value2 = value2
  Harvester = harvester
  NoTag = NoTag
  NotDistribution = NotDistribution
  Free = Free
  Null = Null
  Threads = {t1, t2}
  Registrars = {t1}
  Flushers = {}
  Names = {m1}
  TagMaps <- OneTagMap
  Columns <- KeyColumn
  Boundaries = {b1}
  Handles = {h1, h2}
  Lookups = FALSE
  UseInvalid = FALSE
  NDEBUG = FALSE
  MaxRecords = 2
INVARIANTS
  HistogramsExist
CHECK_DEADLOCK FALSE
