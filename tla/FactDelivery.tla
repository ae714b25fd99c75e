---------------------------- MODULE FactDelivery ----------------------------
(***************************************************************************)
(* What the transactional outbox promises to whoever emits a fact: the     *)
(* fact is recorded with the state change that caused it, a handler only   *)
(* ever works on a recorded fact, and a recorded fact is in the end        *)
(* handled or given up where an operator finds it (a dead outbox row or an *)
(* archived task).  Handling may happen more than once.                    *)
(***************************************************************************)
CONSTANT Facts
VARIABLES recorded, handled, abandoned

vars == <<recorded, handled, abandoned>>

Init == recorded = {} /\ handled = {} /\ abandoned = {}

Record(F) ==
  /\ recorded' = recorded \cup F
  /\ UNCHANGED <<handled, abandoned>>

Handle(f) ==
  /\ f \in recorded
  /\ handled' = handled \cup {f}
  /\ UNCHANGED <<recorded, abandoned>>

Abandon(F) ==
  /\ F \subseteq recorded
  /\ abandoned' = abandoned \cup F
  /\ UNCHANGED <<recorded, handled>>

Next ==
  \/ \E f \in Facts : Handle(f)
  \/ \E F \in SUBSET Facts : Record(F) \/ Abandon(F)

\* Nobody waits for ever for a fact that was recorded.
Settles == \A f \in Facts : (f \in recorded) ~> (f \in handled \cup abandoned)

Spec == Init /\ [][Next]_vars
=============================================================================
