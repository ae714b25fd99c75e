----------------------------- MODULE MCErpOrder -----------------------------
(* Constants of ErpOrder for TLC. *)
EXTENDS ErpOrder, TLC

CONSTANTS t1, t2, t3

MCTasks2 == {t1, t2}
MCTasks3 == {t1, t2, t3}
Workers2 == Permutations(MCTasks2)
Workers3 == Permutations(MCTasks3)
=============================================================================
