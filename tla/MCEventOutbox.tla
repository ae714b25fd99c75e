---------------------------- MODULE MCEventOutbox ----------------------------
(* Small instances of EventOutbox: two facts, two replicas. *)
EXTENDS EventOutbox

CONSTANTS paid, refunded, r1, r2

TwoFacts  == {paid, refunded}
TwoRelays == {r1, r2}
=============================================================================
