\* Everybody who can close a purchase does, on a joined pair.
SPECIFICATION Spec
CONSTANTS
  host = host  child = child  other = other
  l1 = l1  l2 = l2  l3 = l3
  Nobody = Nobody
  Carts <- JoinedPair
  Owner <- PairJoined
  Vip <- NoCarts
  Eternal <- NoCarts
  Events <- OneEvent
  Lots <- OneLot
  InitialStock = 1
  MaxUnits = 1
  Quantities <- OnlyOne
  PanelBound = 0
  Writers <- WithPanel
INVARIANTS NoDemandOnClosedPurchase WaitingMatchesRequests
CHECK_DEADLOCK FALSE
