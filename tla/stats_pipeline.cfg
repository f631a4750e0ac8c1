\* Two threads, one of which also flushes: every order of registering, recording, creating and removing views, and harvesting.
SPECIFICATION Spec
CONSTANTS
  tag_key = tag_key
  value1 = value1
  value2 = value2
  Harvester = harvester
  NoTag = NoTag
  NotDistribution = NotDistribution
  Free = Free
  Null = Null
  Threads = {t1, t2}
  Registrars = {t1}
  Flushers = {t2}
  Names = {m1}
  TagMaps <- TwoTagMaps
  Columns <- AllColumns
  Boundaries = {b1}
  Handles = {h1, h2}
  Lookups = FALSE
  UseInvalid = FALSE
  NDEBUG = TRUE
  MaxRecords = 2
SYMMETRY HandleSymmetry
INVARIANTS
  TypeOK
  LastDeltaConsumed
  NothingLostOrDoubled
  RecordingOrderKept
  ConsumersCounted
  ViewsComplete
PROPERTIES
  ImplementsRecordLog
