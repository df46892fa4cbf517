SPECIFICATION FairSpec
CONSTANTS
  r1 = r1
  r2 = r2
  r3 = r3
  NoRequest = NoRequest
  Requests <- ThreeRequests
  WaitOf <- TwoWaits
  Capacity = 3
  Batch = 2
  Window = 2
CHECK_DEADLOCK FALSE
INVARIANTS
  TypeOK
  NeverIdleWithWork
PROPERTIES
  ImplementsQueue
  KeepsSending
