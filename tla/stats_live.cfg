\* The harvester and two threads under fairness: what is recorded arrives, and calls return.
SPECIFICATION Spec
CONSTANTS
  tag_key = tag_key
  value1 = value1
  value2 = value2
  Harvester = harvester
  NoTag = NoTag
  NotDistribution = NotDistribution
  Free = Free
  Null = Null
  Threads = {t1, t2}
  Registrars = {t1}
  Flushers = {}
  Names = {m1}
  TagMaps <- OneTagMap
  Columns <- KeyColumn
  Boundaries = {b1}
  Handles = {h1, h2}
  Lookups = FALSE
  UseInvalid = FALSE
  NDEBUG = TRUE
  MaxRecords = 1
PROPERTIES
  EverythingDelivered
  CallsReturn
