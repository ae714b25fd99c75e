\* Payments, reviews and store cancellations race the expiry of a joined pair.
SPECIFICATION Spec
CONSTANTS
  host = host  child = child  other = other
  l1 = l1  l2 = l2  l3 = l3
  Nobody = Nobody
  Carts <- JoinedPair
  Owner <- PairJoined
  Vip <- NoCarts
  Eternal <- NoCarts
  Events <- OneEvent
  Lots <- TwoLots
  InitialStock = 2
  MaxUnits = 2
  Quantities <- OneOrTwo
  PanelBound = 2
  Writers <- Moneyed
INVARIANTS UnitsConserved
PROPERTY MoneyIsNeverCancelled
CHECK_DEADLOCK FALSE
