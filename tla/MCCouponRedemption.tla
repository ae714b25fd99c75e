------------------------- MODULE MCCouponRedemption -------------------------
(* Two buyers with a cart each, and two requests or tasks at a time. *)
EXTENDS CouponRedemption, TLC

CONSTANTS c1, c2, k1, k2, s1, s2

TwoCarts   == {c1, c2}
OneCoupon  == {k1}
TwoCoupons == {k1, k2}
TwoSessions == {s1, s2}
Strangers  == (c1 :> "ana" @@ c2 :> "bia")
=============================================================================
