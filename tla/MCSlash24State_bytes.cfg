SPECIFICATION Spec
CONSTANTS
  Blocks <- EveryBlock
  AdaptiveBudget = 2
  RoundsMax = 300
INVARIANTS
  TypeOK
  BudgetsAreIndependent
  BackoffFollowsRounds
  HostsInTurn
  RecoveryWithinDocumented
