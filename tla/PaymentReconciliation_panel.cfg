\* One PIX charge against everybody, with one crash.
SPECIFICATION Spec
CONSTANTS
  c1 = c1
  p1 = p1
  p2 = p2
  p3 = p3
  t1 = t1
  t2 = t2
  t3 = t3
  None = None
  Carts <- OneCart
  Owner <- NoHost
  Vip <- Nobody
  Eternal <- Nobody
  Charges <- OneCharge
  ChargedCart <- AllOnTheCart
  Tasks <- TwoTasks
  Versions <- TwoVersions
  Actors <- All
  MaxFailures = 1
CHECK_DEADLOCK FALSE
SYMMETRY Workers
INVARIANTS TypeOK LedgerBacksFacts PaidIsNeverTerminated
