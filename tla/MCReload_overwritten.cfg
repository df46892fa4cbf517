SPECIFICATION Spec
CONSTANTS
  Slices = 2
  Loaders <- TwoLoaders
  SignalThreads <- MainAndLoader
  Overlapping = FALSE
CHECK_DEADLOCK FALSE
INVARIANTS
  RunningHasLoader
