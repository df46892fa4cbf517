SPECIFICATION FairSpec
CONSTANTS
  Slices = 2
  Loaders <- TwoLoaders
  SignalThreads <- AllThreads
  Overlapping = FALSE
CHECK_DEADLOCK FALSE
INVARIANTS
  TypeOK
  NextNullAtPrepare
  OneLoader
  OnlyStopEndsLoops
PROPERTIES
  AdoptsWhole
  DoneIsAdopted
  ImplementsProtocol
  StopEndsLoop
