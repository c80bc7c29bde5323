SPECIFICATION Spec
CONSTANTS
  Key = {"a", "b"}
  Torn = Torn
  NoFile = NoFile
  Setups <- Counted
CHECK_DEADLOCK FALSE
INVARIANTS
  MemoryIsHistory
