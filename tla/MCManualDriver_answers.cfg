SPECIFICATION FairSpec
CONSTANTS
  TargetCnt = 3
  Waits = {1}
  Second = 3
  MaxRtt = 5
  RespTimer = 2
CHECK_DEADLOCK FALSE
INVARIANTS
  ListInOrder
  EachAnsweredOnce
PROPERTY
  Ends
