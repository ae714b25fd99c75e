----------------------- MODULE MCPaymentReconciliation -----------------------
(* Small instances of PaymentReconciliation: one cart that two charges may  *)
(* pay, one or two workers; three of each for counterexamples by hand.      *)
EXTENDS PaymentReconciliation, TLC

CONSTANTS c1, p1, p2, p3, t1, t2, t3

OneCart      == {c1}
NoHost       == [c \in OneCart |-> c]
TwoCharges   == {p1, p2}
ThreeCharges == {p1, p2, p3}
OneCharge    == {p1}
AllOnTheCart == [p \in Charges |-> c1]
TwoTasks     == {t1, t2}
ThreeTasks   == {t1, t2, t3}
OneTask      == {t1}
Nobody       == {}
TwoVersions  == {1, 2}
Pix          == {"pix"}
Store        == {"store"}
Buyers       == {"edit", "deadline"}
Everybody    == {"edit", "store", "deadline"}
EditAndStore == {"edit", "store"}
WithManual   == {"store", "deadline", "manual"}
WithErp      == {"store", "erp"}
WithoutPanel == {"edit", "store", "erp"}
All          == {"pix", "edit", "store", "deadline", "manual", "erp"}
Workers      == Permutations(Tasks)
=============================================================================
