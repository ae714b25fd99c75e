SPECIFICATION FairSpec
CONSTANTS
  t1 = t1
  t2 = t2
  t3 = t3
  None = None
  Tasks <- MCTasks2
  MaxOrders = 2
  MaxGrid = 2
  MaxFaults = 1
  MaxCrashes = 1
INVARIANTS
  TypeOK
  OneOrder
  AckIsTrue
PROPERTIES
  CancelledIsFinal
  
  LinesReachOrder
CHECK_DEADLOCK FALSE
