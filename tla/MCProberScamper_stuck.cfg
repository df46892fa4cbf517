SPECIFICATION ScamperFairSpec
CONSTANTS
  Slash24s <- TwoSlash24s
  Lists <- TwoList
  NoList = NoList
  Slices = 2
  SizingSlices = 2
  SkipFactor = 1
  ProbeBudget = 0
  RecoveryBudgetOf <- NoRecovery
  Levels <- CoarseLevels
  RsuMax = 2
  BackoffMax = 1
  Metas <- Tags
  MetasOf <- TwoMetas
  RoundLimit = 2
  MaxLost = 0
  Sighups = FALSE
  Batch = 3
CHECK_DEADLOCK FALSE
PROPERTY
  StopsAtLimit
