SPECIFICATION GroupSpec
CONSTANTS
  Node = {n1, n2, n3}
  None = None
  Seed = {}
  MaxTerm = 2
  MaxIndex = 0
  MaxLogTerm = 0
  MaxRestarts = 1
  MaxPromotions = 0
  MaxChanges = 0
SYMMETRY NodeSymmetry
CHECK_DEADLOCK FALSE
INVARIANTS
  OneLeaderPerTerm
  ElectionInv
