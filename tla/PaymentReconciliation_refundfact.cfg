\* Counterexample: the panel dies between the refunded row and its fact.
SPECIFICATION Spec
CONSTANTS
  c1 = c1
  p1 = p1
  p2 = p2
  p3 = p3
  t1 = t1
  t2 = t2
  t3 = t3
  None = None
  Carts <- OneCart
  Owner <- NoHost
  Vip <- Nobody
  Eternal <- Nobody
  Charges <- OneCharge
  ChargedCart <- AllOnTheCart
  Tasks <- OneTask
  Versions <- TwoVersions
  Actors <- WithManual
  MaxFailures = 1
CHECK_DEADLOCK FALSE
INVARIANTS RefundIsAFact
