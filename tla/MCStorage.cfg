SPECIFICATION Spec
CONSTANTS
  Key = {"a", "b"}
  Torn = Torn
  NoFile = NoFile
  Setups <- Sound
CHECK_DEADLOCK FALSE
INVARIANTS
  MemoryIsHistory
  CacheIsWal
  RefusedOnlyAfterCut
PROPERTIES
  StoreSpec
