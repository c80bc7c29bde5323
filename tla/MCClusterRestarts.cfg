SPECIFICATION Spec
CONSTANTS
  Node = {1, 2}
  None = None
  Seed = {}
  MaxTerm = 3
  MaxIndex = 2
  MaxLogTerm = 3
  MaxRestarts = 1
  MaxPromotions = 1
  MaxChanges = 2
  Settings <- Pair
  Stands <- InTurn
CHECK_DEADLOCK FALSE
INVARIANTS
  StandingKeepsVote
PROPERTIES
  CommitNeverRegresses
  ElectionSpec
