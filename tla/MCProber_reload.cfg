SPECIFICATION Spec
CONSTANTS
  Slash24s <- ThreeSlash24s
  Lists <- LongAndShort
  NoList = NoList
  Slices = 2
  SizingSlices = 2
  SkipFactor = 1
  ProbeBudget = 0
  RecoveryBudgetOf <- ThreeRecovery
  Levels <- CoarseLevels
  RsuMax = 0
  BackoffMax = 0
  Metas <- Tags
  MetasOf <- ThreeMetas
  RoundLimit = 3
  MaxLost = 1
  Sighups = TRUE
CHECK_DEADLOCK FALSE
INVARIANTS
  OutstandingAccounts
  WaitingHasProbe
  StateCountsMatch
  CoversInterval
  WithinRoundLimit
PROPERTIES
  BackPressure
