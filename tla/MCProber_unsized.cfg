SPECIFICATION Spec
CONSTANTS
  Slash24s <- ThreeSlash24s
  Lists <- ThreeList
  NoList = NoList
  Slices = 2
  SizingSlices = 3
  SkipFactor = 2
  ProbeBudget = 1
  RecoveryBudgetOf <- ThreeRecovery
  Levels <- CoarseLevels
  RsuMax = 2
  BackoffMax = 1
  Metas = {"eu"}
  MetasOf <- SameMetas
  RoundLimit = 0
  MaxLost = 0
  Sighups = FALSE
CHECK_DEADLOCK FALSE
INVARIANTS
  CoversInterval
