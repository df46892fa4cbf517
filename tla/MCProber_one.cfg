SPECIFICATION Spec
CONSTANTS
  Slash24s <- OneSlash24
  Lists <- OneList
  NoList = NoList
  Slices = 1
  SizingSlices = 1
  SkipFactor = 2
  ProbeBudget = 2
  RecoveryBudgetOf <- OneRecovery
  Levels <- FineLevels
  RsuMax = 255
  BackoffMax = 16
  Metas <- Tags
  MetasOf <- OneMeta
  RoundLimit = 0
  MaxLost = 0
  Sighups = FALSE
CHECK_DEADLOCK FALSE
INVARIANTS
  IdleIsStable
  RecoveryOnlyWhenDown
  AdaptivePerRound
PROPERTIES
  NoSnapJudgement
