SPECIFICATION Spec
CONSTANTS
  Node = {1, 2, 3}
  None = None
  Seed = {}
  MaxTerm = 2
  MaxIndex = 4
  MaxLogTerm = 2
  MaxRestarts = 0
  MaxPromotions = 0
  MaxChanges = 0
  Settings <- InheritedTail
  Stands <- InTurn
CHECK_DEADLOCK FALSE
INVARIANTS
  AckedWritesKept
