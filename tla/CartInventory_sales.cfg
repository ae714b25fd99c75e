\* A joined pair and a rival compete for two units; the store and the ERP cancel and reopen.
SPECIFICATION Spec
CONSTANTS
  host = host  child = child  other = other
  l1 = l1  l2 = l2  l3 = l3
  Nobody = Nobody
  Carts <- ThreeCarts
  Owner <- ThreeJoined
  Vip <- NoCarts
  Eternal <- NoCarts
  Events <- OneEvent
  Lots <- TwoLots
  InitialStock = 2
  MaxUnits = 2
  Quantities <- OneOrTwo
  PanelBound = 2
  Writers <- StoreAndErp
INVARIANTS TypeOK UnitsConserved WaitingMatchesRequests
PROPERTY NoOvertaking
CHECK_DEADLOCK FALSE
