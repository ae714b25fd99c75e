-------------------------- MODULE MCCartInventory --------------------------
(* Instances of CartInventory for TLC. *)
EXTENDS CartInventory

CONSTANTS host, child, other, l1, l2, l3

OnlyHost    == {host}
TwoCarts    == {host, other}
JoinedPair  == {host, child}
ThreeCarts  == {host, child, other}

Alone       == [c \in OnlyHost |-> c]
PairJoined  == [c \in JoinedPair |-> host]
ThreeApart  == [c \in ThreeCarts |-> c]
ThreeJoined == [c \in ThreeCarts |-> IF c = child THEN host ELSE c]

OneEvent    == {Carts}
TwoEvents   == {Carts \ {child}, {child}}
NoCarts     == {}
OtherIsVip  == {other}
OneLot      == {l1}
TwoLots     == {l1, l2}
ThreeLots   == {l1, l2, l3}
OneOrTwo    == {1, 2}
OnlyOne     == {1}

WithPanel    == Parties \ {"review"}
Nothing      == {}
StoreOnly    == {"store"}
Moneyed      == {"payment", "review", "store"}
StoreAndErp  == {"store", "erp"}
ErpAndReview == {"erp", "review"}
Regenerate   == {"regenerate"}
StoreAndLink == {"store", "regenerate"}
============================================================================
