------------------------------ MODULE CartRow ------------------------------
(***************************************************************************)
(* One row of the carts table and the SQL guards every writer of it goes   *)
(* through (db/queries/cart.sql, db/queries/waitlist.sql).  The guards are *)
(* shared: the inventory, payment and order models all read a row through  *)
(* the operators below, so a guard is stated once, as in the source.       *)
(*                                                                         *)
(* Abstractions.  expires_at is "none", "armed" (in the future) or "due";  *)
(* payment_status keeps only what the guards tell apart: "pending" stands  *)
(* for NULL, pending, failed and cancelled.  erp_order_accepts_items() is  *)
(* the boolean `accepts'.                                                  *)
(***************************************************************************)
EXTENDS Integers

CONSTANTS
  Carts,      \* cart ids
  Owner,      \* COALESCE(joined_to_cart_id, id): the cart that owns the purchase
  Vip,        \* carts whose handle is_active_vip()
  Eternal     \* carts with never_expires

\* JoinCartIntoHost refuses a chain: an owner is never joined itself.
ASSUME CartRowAssumption ==
  /\ Owner \in [Carts -> Carts]
  /\ \A c \in Carts : Owner[Owner[c]] = Owner[c]
  /\ Vip \subseteq Carts
  /\ Eternal \subseteq Carts

Open       == {"active", "checkout"}
Terminated == {"expired", "cancelled"}
Settled    == {"paid", "refunded"}
HumanCancel == {"store_cancelled", "erp_cancelled"}

Row == [status   : Open \cup Terminated \cup {"completed"},
        reason   : {"none", "expired", "refunded"} \cup HumanCancel,
        pay      : {"pending"} \cup Settled,
        deadline : {"none", "armed", "due"},
        review   : BOOLEAN,     \* payment_review_required
        closed   : BOOLEAN,     \* purchase_closed
        accepts  : BOOLEAN]     \* erp_order_accepts_items(erp_order_status)

NewRow == [status |-> "active", reason |-> "none", pay |-> "pending",
           deadline |-> "none", review |-> FALSE, closed |-> FALSE,
           accepts |-> TRUE]

Joined(c)     == Owner[c] # c
OnlyItself(c) == {c}                                               \* mutant
Purchase(c)   == {x \in Carts : x = c \/ Owner[x] = c}   \* c and the carts joined to it
Protected(c)  == c \in Vip \cup Eternal
Unsettled(r)  == r.pay \notin Settled
Closes(r)     == r.status \in Terminated \/ r.pay \in Settled
Running(rows, c) == Protected(c) \/ rows[c].deadline # "due"

----------------------------------------------------------------------------
(* Guards of the UPDATE statements. *)

ExpirableFromCheckout(rows, c) ==                                  \* mutant
  LET r == rows[c] IN
  r.status = "checkout" /\ Unsettled(r) /\ ~Protected(c) /\ r.deadline = "due"

ExpirableUnderReview(rows, c) ==                                   \* mutant
  LET r == rows[c] IN
  r.status \in Open /\ Unsettled(r) /\ ~r.closed /\ ~Protected(c) /\ r.deadline = "due"

Expirable(rows, c) ==
  LET r == rows[c]  h == rows[Owner[c]] IN
  /\ r.status \in Open /\ Unsettled(r)
  /\ ~r.review /\ ~r.closed /\ r.accepts
  /\ ~Protected(c)
  /\ r.deadline = "due"
  /\ Joined(c) => /\ Unsettled(h) /\ ~h.closed /\ ~h.review
                  /\ h.status \in Open /\ h.accepts
                  /\ ~Protected(Owner[c])

HostLetsCancel(rows, c) ==
  Joined(c) => LET h == rows[Owner[c]] IN Unsettled(h) /\ ~h.closed /\ ~h.review

CancellableAgain(rows, c) ==                                       \* mutant
  Unsettled(rows[c]) /\ ~rows[c].review /\ ~rows[c].closed

StoreCancellable(rows, c) ==
  LET r == rows[c] IN
  /\ r.status \in Open /\ Unsettled(r) /\ ~r.review /\ ~r.closed
  /\ HostLetsCancel(rows, c)

ErpCancellableAgain(rows, c) ==                                    \* mutant
  Unsettled(rows[c]) /\ ~rows[c].closed /\ HostLetsCancel(rows, c)

\* As StoreCancellable, but the statement does not look at the review flag of
\* the cart itself.
ErpCancellable(rows, c) ==
  LET r == rows[c] IN
  /\ r.status \in Open /\ Unsettled(r) /\ ~r.closed
  /\ HostLetsCancel(rows, c)

Restorable(r) == r.status = "cancelled" /\ r.reason = "store_cancelled" /\ Unsettled(r)
Reopenable(r) == r.status = "cancelled" /\ r.reason \in HumanCancel /\ Unsettled(r)
PayableUnlessExpired(r) == r.status # "expired"                    \* mutant
Payable(r)    == r.status \notin Terminated
RefundKills(r) == r.pay = "refunded" /\ r.status \notin Terminated

\* A new unit may enter the cart (the owner and the cart are both checked).
Admits(r) == r.status \in Open /\ Unsettled(r) /\ ~r.review /\ ~r.closed /\ r.accepts

----------------------------------------------------------------------------
(* The close_joined_purchase trigger: writing c's status or payment closes *)
(* the purchases of the carts joined to it.                                *)
WriteRow(rows, c, r) ==
  [x \in Carts |->
     IF x = c THEN r
     ELSE IF Owner[x] = c /\ Closes(r) THEN [rows[x] EXCEPT !.closed = TRUE]
     ELSE rows[x]]

ExpiredRow(r)   == [r EXCEPT !.status = "expired", !.reason = "expired"]
CancelledRow(r, why) == [r EXCEPT !.status = "cancelled", !.reason = why]
PaidRow(r)      == [r EXCEPT !.pay = "paid", !.deadline = "none"]
PaidButCancelled(r) == [PaidRow(r) EXCEPT !.reason = "none"]        \* mutant
RestoredRow(r)  == [PaidRow(r) EXCEPT !.status = "checkout", !.reason = "none"]
ReviewRow(r)    == [r EXCEPT !.review = TRUE, !.pay = "pending", !.deadline = "none"]
ReopenedRow(c, r) == [r EXCEPT !.status = "checkout", !.reason = "none",
                               !.deadline = IF Protected(c) THEN "none" ELSE "armed"]
RegeneratedRow(r) == [r EXCEPT !.status = "checkout", !.pay = "pending", !.deadline = "armed"]
=============================================================================
