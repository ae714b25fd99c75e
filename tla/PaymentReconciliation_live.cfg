\* News is sent and tasks are kept: an approved charge is recorded.
SPECIFICATION FairSpec
CONSTANTS
  c1 = c1
  p1 = p1
  p2 = p2
  p3 = p3
  t1 = t1
  t2 = t2
  t3 = t3
  None = None
  Carts <- OneCart
  Owner <- NoHost
  Vip <- Nobody
  Eternal <- Nobody
  Charges <- OneCharge
  ChargedCart <- AllOnTheCart
  Tasks <- TwoTasks
  Versions <- TwoVersions
  Actors <- Everybody
  MaxFailures = 1
CHECK_DEADLOCK FALSE
INVARIANTS ApprovedIsNeverLost
PROPERTIES ApprovedIsSettled
