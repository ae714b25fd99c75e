\* One coupon with at most one use, two buyers, two concurrent requests or tasks.
SPECIFICATION Spec
CONSTANTS
  c1 = c1  c2 = c2  k1 = k1  k2 = k2  s1 = s1  s2 = s2
  None = None
  Carts <- TwoCarts
  Coupons <- OneCoupon
  Sessions <- TwoSessions
  BuyerOf <- Strangers
  MaxUses = 1
  MaxRows = 2
INVARIANTS TypeOK CartShowsRedemption NoUseIsLost
PROPERTIES NeverPastMax EndedStaysEnded
CHECK_DEADLOCK FALSE
