SPECIFICATION FairSpec
CONSTANTS
  Slash24s <- TwoSlash24s
  Lists <- TwoLists
  NoList = NoList
  Slices = 1
  SizingSlices = 1
  SkipFactor = 1
  ProbeBudget = 1
  RecoveryBudgetOf <- NoRecovery
  Levels <- CoarseLevels
  RsuMax = 0
  BackoffMax = 0
  Metas <- Tags
  MetasOf <- TwoMetas
  RoundLimit = 3
  MaxLost = 0
  Sighups = TRUE
CHECK_DEADLOCK FALSE
PROPERTIES
  StopsAtLimit
