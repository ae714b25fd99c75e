\* The payment of a cart under two ids, a refund and a cancellation.
SPECIFICATION FairPipeline
CONSTANTS
  r1 = r1  r2 = r2
  Facts <- ThreeFacts
  Relays <- OneRelay
  SweepLimit = 1
  MaxAttempts = 1
  MaxRetry = 1
  MaxFaults = 1
  MaxUnbound = 1
INVARIANTS TypeOK NoFactSlipsAway MailsAreClaimed OrderFactsMatch
PROPERTIES OrderIsNotSoldAgain SaleMaterialises FactsAreDelivered
CHECK_DEADLOCK FALSE
