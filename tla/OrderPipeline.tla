---------------------------- MODULE OrderPipeline ----------------------------
(***************************************************************************)
(* The facts about one cart's payment, from the transaction that emits     *)
(* them to what their handlers leave behind (cmd/http-server/main.go, the  *)
(* registrations of cart.paid, cart.refunded and cart.cancelled): the      *)
(* order, the GMV ledger and the buyer's mails.  EventOutbox carries the   *)
(* facts; here each task runs its real handler, one read or one            *)
(* transaction at a time, next to the other handlers of the same cart.     *)
(*                                                                         *)
(*   kind     event_outbox.name of each row; rows are numbered as written   *)
(*   pay      carts.payment_status, as the emitters of the facts leave it  *)
(*   order    orders.status, "none" before it is materialised              *)
(*   emitted  rows order.paid and order.refunded, written with the order;  *)
(*            their consumer is the ERP (module ErpOrder)                  *)
(*   ledger   gmv_ledger rows of the cart (UNIQUE (cart_id, entry_type))   *)
(*   markers  order_events (order_id, event_type) that claim a mail        *)
(*   unbound  markers whose order could not be resolved: they have no      *)
(*            order_id and conflict with nothing                           *)
(*   mails    how often each mail was sent                                 *)
(*   pc       where the handler of a fact's task is                        *)
(*                                                                         *)
(* Abstractions: items, totals and snapshots of the order; the coupon and  *)
(* waitlist steps of the handlers are calls that may fail (modules         *)
(* CouponRedemption and CartInventory).                                    *)
(***************************************************************************)
EXTENDS EventOutbox

CONSTANT MaxUnbound   \* bound: markers of a mail written without an order_id

ASSUME PipelineAssumption == Facts \subseteq Nat /\ MaxUnbound \in Nat

VARIABLES kind, pay, order, emitted, ledger, markers, unbound, mails, pc

payVars  == <<kind, pay>>
saleVars == <<order, emitted, ledger, markers, unbound, mails>>
vars     == <<boxVars, payVars, saleVars, pc>>

Kinds    == {"cart.paid", "cart.refunded", "cart.cancelled"}

Terminal  == {"refunded", "cancelled"}
Mail      == {"receipt", "refund"}
Steps     == {"idle", "read", "write", "bill", "claim", "mail"}

TypeOK ==
  /\ BoxTypeOK
  /\ kind \in [Facts -> Kinds \cup {"none"}]
  /\ pay \in {"pending", "paid", "refunded"}
  /\ order \in {"none", "paid"} \cup Terminal
  /\ emitted \subseteq {"order.paid", "order.refunded"}
  /\ ledger \subseteq {"sale", "refund_credit"}
  /\ markers \subseteq Mail
  /\ unbound \in [Mail -> 0 .. MaxUnbound]
  /\ mails \in [Mail -> Nat]
  /\ pc \in [Facts -> Steps]
  /\ \A f \in Facts : pc[f] # "idle" <=> task[f] = "active"

Init ==
  /\ BoxInit
  /\ kind = [f \in Facts |-> "none"] /\ pay = "pending" /\ order = "none"
  /\ emitted = {} /\ ledger = {} /\ markers = {}
  /\ unbound = [m \in Mail |-> 0] /\ mails = [m \in Mail |-> 0]
  /\ pc = [f \in Facts |-> "idle"]

----------------------------------------------------------------------------
(* Who emits: the transactions of PaymentReconciliation and CartInventory. *)

NextRow(f) == row[f] = "none" /\ \A g \in Facts : g < f => row[g] # "none"
EmitFact(name) ==
  /\ \E f \in Facts : NextRow(f) /\ Emit({f}) /\ kind' = [kind EXCEPT ![f] = name]
  /\ UNCHANGED <<saleVars, pc>>

\* The dedup_key holds the payment id: two ids of one payment are two facts.
\* Bound: no charge is approved after the refund (PaymentReconciliation has that).
PaymentApproved == pay # "refunded" /\ pay' = "paid" /\ EmitFact("cart.paid")

\* The row and its fact at once; a manual refund commits them in two
\* transactions, which PaymentReconciliation opens.
PaymentRefunded == pay = "paid" /\ pay' = "refunded" /\ EmitFact("cart.refunded")

\* Only an unpaid cart is cancelled; a payment that comes later restores it.
StoreCancels ==
  /\ pay = "pending" /\ \A f \in Facts : kind[f] # "cart.cancelled"
  /\ EmitFact("cart.cancelled") /\ UNCHANGED pay

----------------------------------------------------------------------------
(* The task of a fact: asynq starts it, its handler steps, it ends. *)

Paid(f)         == kind[f] = "cart.paid"
Refund(f)       == kind[f] = "cart.refunded"
Cancellation(f) == kind[f] = "cart.cancelled"
At(f, step)   == task[f] = "active" /\ pc[f] = step
Goto(f, step) == pc' = [pc EXCEPT ![f] = step]

Starts(f) ==
  /\ StartTask(f)
  /\ Goto(f, "read")
  /\ UNCHANGED <<payVars, saleVars>>

ReturnsStale(f) == FinishTask(f) /\ UNCHANGED <<payVars, saleVars, pc>>    \* mutant
Returns(f) ==
  /\ FinishTask(f)
  /\ Goto(f, "idle")
  /\ UNCHANGED <<payVars, saleVars>>

Refuses(f) ==
  /\ FailTask(f)
  /\ Goto(f, "idle")
  /\ UNCHANGED <<payVars, saleVars>>

\* A query of any step, or the worker itself, fails; the retry starts over.
StepFails(f) ==
  /\ WorkerDies(f)
  /\ Goto(f, "idle")
  /\ UNCHANGED <<payVars, saleVars>>

----------------------------------------------------------------------------
(* cart.paid *)

AssumeOrder(f) ==                                                  \* mutant
  Paid(f) /\ At(f, "read") /\ Goto(f, "bill") /\ UNCHANGED <<boxVars, payVars, saleVars>>

\* OnCartPaid asks whether the order exists before it opens its transaction.
ReadOrder(f) ==
  /\ Paid(f) /\ At(f, "read")
  /\ Goto(f, IF order = "none" THEN "write" ELSE "bill")
  /\ UNCHANGED <<boxVars, payVars, saleVars>>

\* InsertOrder ... ON CONFLICT (cart_id) DO NOTHING, and order.paid with it.
OverwrittenOrder == "paid"                                         \* mutant
InsertedOrder    == IF order = "none" THEN "paid" ELSE order
MaterialiseOrder(f) ==
  /\ Paid(f) /\ At(f, "write")
  /\ order' = InsertedOrder
  /\ emitted' = IF order = "none" THEN emitted \cup {"order.paid"} ELSE emitted
  /\ Goto(f, "bill")
  /\ UNCHANGED <<boxVars, payVars, ledger, markers, unbound, mails>>

\* billing.OnCartPaid: UNIQUE (cart_id, 'sale') DO NOTHING.
BillSale(f) ==
  /\ Paid(f) /\ At(f, "bill")
  /\ ledger' = ledger \cup {"sale"}
  /\ Goto(f, "claim")
  /\ UNCHANGED <<boxVars, payVars, order, emitted, markers, unbound, mails>>

----------------------------------------------------------------------------
(* The terminal transitions of the order. *)

Target(f)  == IF Refund(f) THEN "refunded" ELSE "cancelled"

\* applyTerminalStatus reads the status outside its transaction.
ReadStatus(f) ==
  /\ ~Paid(f) /\ At(f, "read") /\ order = "paid"
  /\ Goto(f, "write")
  /\ UNCHANGED <<boxVars, payVars, saleVars>>

\* Already there: the handler goes on (cart.refunded) or is done (cart.cancelled);
\* a cancelled cart without an order is a benign skip.
SkipStatus(f) ==
  /\ At(f, "read")
  /\ \/ /\ Refund(f) /\ order = "refunded"
        /\ Goto(f, "bill") /\ UNCHANGED <<boxVars, payVars, saleVars>>
     \/ Cancellation(f) /\ order \in {"none", "cancelled"} /\ Returns(f)

\* ErrOrderNotMaterialised of a refund, ErrInvalidOrderTransition: asynq retries.
RefuseStatus(f) ==
  /\ At(f, "read")
  /\ \/ Refund(f) /\ order \in {"none", "cancelled"}
     \/ Cancellation(f) /\ order = "refunded"
  /\ Refuses(f)

\* SetOrderStatusByCartID has no guard; order.refunded commits with it.
NotAnnounced(f) == emitted                                         \* mutant
Announced(f)    == IF Refund(f) THEN emitted \cup {"order.refunded"} ELSE emitted
WriteStatus(f) ==
  /\ ~Paid(f) /\ At(f, "write")
  /\ order' = Target(f)
  /\ emitted' = Announced(f)
  /\ UNCHANGED <<payVars, ledger, markers, unbound, mails>>
  /\ IF Refund(f) THEN Goto(f, "bill") /\ UNCHANGED boxVars
     ELSE FinishTask(f) /\ Goto(f, "idle")

\* billing.OnCartRefunded credits the sale it finds; without one there is
\* nothing to credit.
CreditSale(f) ==
  /\ Refund(f) /\ At(f, "bill")
  /\ ledger' = IF "sale" \in ledger THEN ledger \cup {"refund_credit"} ELSE ledger
  /\ Goto(f, "claim")
  /\ UNCHANGED <<boxVars, payVars, order, emitted, markers, unbound, mails>>

----------------------------------------------------------------------------
(* The mails: the marker is claimed first, then the mail is sent.  The order,  *)
(* and with it the tracking token the receipt needs, exists by then.           *)

MailOf(f) == IF Refund(f) THEN "refund" ELSE "receipt"

\* ON CONFLICT (order_id, event_type) DO NOTHING: who inserts it sends the mail.
UnclaimedMarkers(f) == markers                                     \* mutant
ClaimedMarkers(f)   == markers \cup {MailOf(f)}
ClaimMarker(f) ==
  /\ At(f, "claim") /\ MailOf(f) \notin markers
  /\ markers' = ClaimedMarkers(f)
  /\ Goto(f, "mail")
  /\ UNCHANGED <<boxVars, payVars, order, emitted, ledger, unbound, mails>>

\* insertOrderEvent goes on without the order it failed to resolve.
ClaimUnbound(f) ==
  /\ At(f, "claim") /\ unbound[MailOf(f)] < MaxUnbound
  /\ unbound' = [unbound EXCEPT ![MailOf(f)] = @ + 1]
  /\ Goto(f, "mail")
  /\ UNCHANGED <<boxVars, payVars, order, emitted, ledger, markers, mails>>

AlreadyMailed(f) == At(f, "claim") /\ MailOf(f) \in markers /\ Returns(f)

SendMail(f) ==
  /\ At(f, "mail")
  /\ mails' = [mails EXCEPT ![MailOf(f)] = @ + 1]
  /\ FinishTask(f) /\ Goto(f, "idle")
  /\ UNCHANGED <<payVars, order, emitted, ledger, markers, unbound>>

----------------------------------------------------------------------------
Handler(f) ==
  \/ ReadOrder(f) \/ MaterialiseOrder(f) \/ BillSale(f)
  \/ ReadStatus(f) \/ SkipStatus(f) \/ RefuseStatus(f) \/ WriteStatus(f) \/ CreditSale(f)
  \/ ClaimMarker(f) \/ AlreadyMailed(f) \/ SendMail(f)

Sweep(r)  == RelayStep(r) /\ UNCHANGED <<payVars, saleVars, pc>>
Producers == PaymentApproved \/ PaymentRefunded \/ StoreCancels

PipelineNext ==
  \/ Producers
  \/ \E r \in Relays : Sweep(r) \/ (SweepLost(r) /\ UNCHANGED <<payVars, saleVars, pc>>)
  \/ \E f \in Facts : Starts(f) \/ Handler(f) \/ ClaimUnbound(f) \/ StepFails(f)

PipelineSpec == Init /\ [][PipelineNext]_vars

\* The relay's ticker, the queue's workers and the handlers' timeouts: while one of
\* them has something to do, something is done.  (Per relay and per task in
\* EventOutbox; here work runs out, and this weaker fairness is enough.)
Work == (\E r \in Relays : Sweep(r)) \/ (\E f \in Facts : Starts(f) \/ Handler(f))

FairPipeline == PipelineSpec /\ WF_vars(Work)

----------------------------------------------------------------------------
(* Properties. *)

\* The order of a sale is immutable but for its end: however often cart.paid is
\* delivered, under however many payment ids and however late, a refunded or
\* cancelled order is never sold again (order_write.sql:65).
OrderIsNotSoldAgain == [][(order \in Terminal) => order' # "paid"]_vars

\* Every mail has a marker of its own, however often its fact is delivered: a
\* redelivery mails nothing unless the order could not be resolved
\* (postcheckout/service.go:116).
MailsAreClaimed ==
  \A m \in Mail : mails[m] <= unbound[m] + (IF m \in markers THEN 1 ELSE 0)

\* order.paid and order.refunded are announced with the transition they announce:
\* the ERP is never told of a sale that is not there, nor misses one
\* (on_cart_paid.go:340, on_cart_refunded.go:104).
OrderFactsMatch ==
  /\ "order.paid" \in emitted <=> order # "none"
  /\ order = "refunded" => "order.refunded" \in emitted

\* A paid cart gets its order, unless every one of its facts was given up.
SaleMaterialises ==
  \A f \in Facts :
    Paid(f) ~> (order # "none" \/ row[f] = "dead" \/ task[f] = "archived")

\* A cart that is paid does not have a cancelled order: a cancellation that a later
\* payment won over leaves the sale alone (main.go:1511).
PaidOrderStands == pay = "paid" => order # "cancelled"

\* Only a paid order moves to a terminal status (on_cart_refunded.go:29).
OnlyPaidOrdersEnd == [][(order \in Terminal) => order' = order]_vars

\* The buyer gets one receipt and one refund mail (postcheckout/service.go:116).
MailedOnce == \A m \in Mail : mails[m] <= 1

\* Once every fact was handled, a refunded sale is credited in the ledger.
RefundIsCredited ==
  (\A f \in Facts : row[f] # "none" => f \in handled /\ task[f] = "none")
    => ((\E f \in Facts : Refund(f)) /\ "sale" \in ledger => "refund_credit" \in ledger)
=============================================================================
