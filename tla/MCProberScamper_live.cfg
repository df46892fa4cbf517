SPECIFICATION ScamperFairSpec
CONSTANTS
  Slash24s <- TwoSlash24s
  Lists <- TwoList
  NoList = NoList
  Slices = 2
  SizingSlices = 2
  SkipFactor = 1
  ProbeBudget = 1
  RecoveryBudgetOf <- TwoRecovery
  Levels <- CoarseLevels
  RsuMax = 2
  BackoffMax = 1
  Metas <- Tags
  MetasOf <- TwoMetas
  RoundLimit = 0
  MaxLost = 0
  Sighups = FALSE
  Batch = 2
CHECK_DEADLOCK FALSE
INVARIANTS
  TypeOK
  QueueWithinAllowance
  SkipsOnlyWithAnswersToCome
PROPERTIES
  ProbedForEver
  StopsWhenAsked
