--------------------------- MODULE MCOrderPipeline ---------------------------
(* Small instances of OrderPipeline: one cart, a few facts about its payment, *)
(* one relay or two.                                                          *)
EXTENDS OrderPipeline

CONSTANTS r1, r2

TwoFacts   == 1 .. 2
ThreeFacts == 1 .. 3
FourFacts  == 1 .. 4
TwoRelays  == {r1, r2}
OneRelay   == {r1}
=============================================================================
