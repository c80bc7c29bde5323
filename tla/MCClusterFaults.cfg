SPECIFICATION Spec
CONSTANTS
  Node = {1, 2, 3}
  None = None
  Seed = {}
  MaxTerm = 1
  MaxIndex = 3
  MaxLogTerm = 1
  MaxRestarts = 0
  MaxPromotions = 0
  MaxChanges = 0
  Settings <- Faults
  Stands <- InTurn
CHECK_DEADLOCK FALSE
INVARIANTS
  AckedWritesKept
  CommittedAgree
  LogMatching
