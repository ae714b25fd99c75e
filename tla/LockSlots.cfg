\* Five tasks, two of them on the same purchase, and a handler share four connections.
SPECIFICATION FairSpec
CONSTANTS
  h1 = h1  h2 = h2  h3 = h3  h4 = h4  h5 = h5
  w1 = w1
  p1 = p1  p2 = p2  p3 = p3  p4 = p4
  Holders <- FiveHolders
  Handlers <- OneHandler
  Purchases <- FourCarts
  KeyOf <- Twins
  MaxConns = 4
INVARIANTS TypeOK NothingLeaks NeverStuck
PROPERTIES HoldersFinish PoolComesBack
