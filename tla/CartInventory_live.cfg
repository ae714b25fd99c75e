\* Deadlines and promotions make progress; one of the three buyers is a VIP.
SPECIFICATION FairSpec
CONSTANTS
  host = host  child = child  other = other
  l1 = l1  l2 = l2  l3 = l3
  Nobody = Nobody
  Carts <- ThreeCarts
  Owner <- ThreeApart
  Vip <- OtherIsVip
  Eternal <- NoCarts
  Events <- OneEvent
  Lots <- ThreeLots
  InitialStock = 1
  MaxUnits = 2
  Quantities <- OneOrTwo
  PanelBound = 2
  Writers <- StoreOnly
PROPERTIES DueUnitsComeBack StockReachesQueue
CHECK_DEADLOCK FALSE
