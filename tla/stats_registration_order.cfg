\* Two threads reach StatsManager::AddMeasure in the order opposite to that of their ids.
SPECIFICATION Spec
CONSTANTS
  tag_key = tag_key
  value1 = value1
  value2 = value2
  Harvester = harvester
  NoTag = NoTag
  NotDistribution = NotDistribution
  Free = Free
  Null = Null
  Threads = {t1, t2}
  Registrars = {t1, t2}
  Flushers = {}
  Names = {m1, m2}
  TagMaps <- OneTagMap
  Columns <- KeyColumn
  Boundaries = {}
  Handles = {h1, h2}
  Lookups = FALSE
  UseInvalid = FALSE
  NDEBUG = FALSE
  MaxRecords = 2
INVARIANTS
  RegistrationInOrder
CHECK_DEADLOCK FALSE
