----------------------------- MODULE MCLockSlots -----------------------------
(* Instances of LockSlots for TLC: four connections, more holders than slots. *)
EXTENDS LockSlots

CONSTANTS h1, h2, h3, h4, h5, w1, p1, p2, p3, p4

FourHolders == {h1, h2, h3, h4}
FiveHolders == FourHolders \cup {h5}
OneHandler  == {w1}
FourCarts   == {p1, p2, p3, p4}
Apart       == [t \in FourHolders |->
                  CASE t = h1 -> p1 [] t = h2 -> p2 [] t = h3 -> p3 [] t = h4 -> p4]
Twins       == [t \in FiveHolders |-> IF t = h5 THEN p1 ELSE Apart[t]]
=============================================================================
