------------------------ MODULE PaymentReconciliation ------------------------
(***************************************************************************)
(* How the money a gateway moved becomes the payment status of a cart      *)
(* (internal/payment, Repository.UpdateCartPaymentStatus and               *)
(* RestoreCancelledCartAsPaid, verifyPaymentAttempt).  A notification is a *)
(* durable task: it asks the gateway for the status, reads the cart to     *)
(* interpret a cancellation, and writes in one transaction.  Between those *)
(* steps anything may happen: other notifications of the same or another   *)
(* charge, the merchant's panel, the expiry worker, the ERP.               *)
(*                                                                         *)
(*   rows      the carts (module CartRow)                                  *)
(*   gateway   the truth about each charge, at the provider                *)
(*   news      charges with a webhook the provider still has to send       *)
(*   tasks     the payment.process tasks being worked on                   *)
(*   quote     what a charge was created for (payment_attempts)            *)
(*   contents  what the cart holds (cart_payment_fingerprint)              *)
(*   unbound   charges whose UpdateCheckoutInfo has not run yet            *)
(*   current   carts.checkout_id                                           *)
(*   ledger    cart_payments, by charge                                    *)
(*   amount    carts.paid_amount_cents, counted in charges                 *)
(*   facts     outbox rows <<fact, charge>>: dedup_key is fact:payment_id  *)
(*   panel     the merchant's confirm/refund request on each cart          *)
(*   failures  crashes of a task so far                                    *)
(*                                                                         *)
(* Abstractions: a charge is worth one unit of money; a rejected charge is *)
(* a pending one (both are stale on a settled cart); contents are a small  *)
(* version number and whether paid_quantity was stamped.                   *)
(***************************************************************************)
EXTENDS CartRow, FiniteSets

CONSTANTS
  Charges,      \* payments at the gateway
  ChargedCart,  \* the external_reference of each charge
  Tasks,        \* workers of the payment queue
  Versions,     \* versions of a cart's contents
  Actors,       \* who else acts: "edit", "store", "deadline", "erp", "manual";
                \* and "pix" when the charges are PIX charges, not card charges
  MaxFailures,  \* bound: tasks that die half-way
  None

ASSUME PaymentAssumption ==
  /\ ChargedCart \in [Charges -> Carts]
  /\ Versions # {} /\ MaxFailures \in Nat
  /\ None \notin Charges
  /\ \A c \in Carts : <<"manual", c>> \notin Charges   \* see Manual

VARIABLES rows, gateway, news, tasks, quote, contents, unbound, current,
          ledger, amount, facts, panel, failures

cartVars == <<rows, contents, current, ledger, amount, facts>>
payVars  == <<gateway, news, quote, unbound>>
vars     == <<cartVars, payVars, tasks, panel, failures>>

Manual(c)  == <<"manual", c>>                       \* manualPaymentID
Ids        == Charges \cup {Manual(c) : c \in Carts}
CartOf(p)  == IF p \in Charges THEN ChargedCart[p] ELSE p[2]
Contents   == [version : Versions, stamped : BOOLEAN]
Nothing    == [step |-> "idle", charge |-> None, says |-> "pending"]

TaskStep == {"idle", "queued", "read", "mapped", "restore"}
Says     == {"paid", "pending", "cancelled", "refunded"}

TypeOK ==
  /\ rows \in [Carts -> Row]
  /\ gateway \in [Charges -> {"none", "open", "approved", "cancelled", "voided", "refunded"}]
  /\ news \subseteq Charges /\ unbound \subseteq Charges
  /\ tasks \in [Tasks -> [step : TaskStep, charge : Charges \cup {None}, says : Says]]
  /\ \A t \in Tasks : tasks[t].step # "idle" => tasks[t].charge \in Charges
  /\ quote \in [Charges -> Contents] /\ contents \in [Carts -> Contents]
  /\ current \in [Carts -> Ids \cup {None}]
  /\ ledger \subseteq Ids
  /\ amount \in [Carts -> Nat]
  /\ facts \subseteq {"paid", "cancelled", "refunded"} \X Ids
  /\ panel \in [Carts -> {"idle", "checked", "restore", "marked"}]
  /\ failures \in 0 .. MaxFailures

Init ==
  /\ rows = [c \in Carts |-> [NewRow EXCEPT !.status = "checkout", !.deadline = "due"]]
  /\ gateway = [p \in Charges |-> "none"]
  /\ news = {} /\ unbound = {} /\ ledger = {} /\ facts = {}
  /\ tasks = [t \in Tasks |-> Nothing]
  /\ contents = [c \in Carts |-> [version |-> CHOOSE v \in Versions : TRUE, stamped |-> FALSE]]
  /\ quote = [p \in Charges |-> contents[ChargedCart[p]]]
  /\ current = [c \in Carts |-> None]
  /\ amount = [c \in Carts |-> 0]
  /\ panel = [c \in Carts |-> "idle"]
  /\ failures = 0

----------------------------------------------------------------------------
(* The gateway and the buyer. *)

Chargeable(r) == ~r.review /\ ~r.closed /\ r.status \in Open /\ Unsettled(r)

\* createPaymentAttempt freezes the quote, then the gateway opens the charge.
CreatePaymentAttempt(p) ==
  /\ gateway[p] = "none" /\ Chargeable(rows[ChargedCart[p]])
  /\ gateway' = [gateway EXCEPT ![p] = "open"]
  /\ quote' = [quote EXCEPT ![p] = contents[ChargedCart[p]]]
  /\ unbound' = IF "pix" \in Actors THEN unbound \cup {p} ELSE unbound
  /\ UNCHANGED <<cartVars, news, tasks, panel, failures>>

\* GeneratePix writes checkout_id after the gateway has answered, unguarded.
UpdateCheckoutInfo(p) ==
  /\ p \in unbound /\ unbound' = unbound \ {p}
  /\ current' = [current EXCEPT ![ChargedCart[p]] = p]
  /\ UNCHANGED <<rows, contents, ledger, amount, facts, gateway, news, quote, tasks, panel, failures>>

\* A charge is paid, dies unpaid, or gives its money back: "voided" is a refund
\* the provider reports as cancelled (a charge refunded on the same day).
Moves == {<<"open", "approved">>, <<"open", "cancelled">>,
          <<"approved", "voided">>, <<"approved", "refunded">>}

GatewayMoves(p) ==
  /\ \E m \in Moves : gateway[p] = m[1] /\ gateway' = [gateway EXCEPT ![p] = m[2]]
  /\ news' = news \cup {p}
  /\ UNCHANGED <<cartVars, quote, unbound, tasks, panel, failures>>

Report(p) ==
  CASE gateway[p] = "approved"                 -> "paid"
    [] gateway[p] \in {"cancelled", "voided"}  -> "cancelled"
    [] gateway[p] = "refunded"                 -> "refunded"
    [] OTHER                                   -> "pending"

----------------------------------------------------------------------------
(* Notifications: a task reads the gateway, interprets, writes. *)

Task(t, s, p, w) == tasks' = [tasks EXCEPT ![t] = [step |-> s, charge |-> p, says |-> w]]
Finish(t)        == tasks' = [tasks EXCEPT ![t] = Nothing]

\* The webhook edge enqueues a command without a dedup key: the provider sends
\* each notification at least once.
DispatchPaymentProcess(t, p) ==
  /\ tasks[t].step = "idle" /\ gateway[p] # "none"
  /\ Task(t, "queued", p, "pending")
  /\ news' = news \ {p}
  /\ UNCHANGED <<cartVars, gateway, quote, unbound, panel, failures>>

GetPaymentStatus(t) ==
  LET p == tasks[t].charge IN
  /\ tasks[t].step = "queued"
  /\ Task(t, IF Report(p) = "cancelled" THEN "read" ELSE "mapped", p, Report(p))
  /\ UNCHANGED <<cartVars, payVars, panel, failures>>

\* A cancelled charge of a cart that is paid NOW is a refund.
MapCancelled(t) ==
  LET p == tasks[t].charge IN
  /\ tasks[t].step = "read"
  /\ Task(t, "mapped", p,
          IF Unsettled(rows[ChargedCart[p]]) THEN "cancelled" ELSE "refunded")
  /\ UNCHANGED <<cartVars, payVars, panel, failures>>

\* The worker dies, or a call fails: the task is tried again from the start.
TaskDies(t) ==
  /\ tasks[t].step \in {"read", "mapped", "restore"}
  /\ failures < MaxFailures /\ failures' = failures + 1
  /\ Task(t, "queued", tasks[t].charge, "pending")
  /\ UNCHANGED <<cartVars, payVars, panel>>

----------------------------------------------------------------------------
(* The guarded write. *)

Unrecorded(p)  == FALSE                                            \* mutant
Recorded(p)    == p \in ledger
Known(c, p)    == Recorded(p) \/ current[c] = p

Stale(c, p, says) ==
  IF says = "paid" THEN Recorded(p)
  ELSE \/ says = "refunded" /\ ~Known(c, p)
       \/ rows[c].pay \in Settled /\ (~Known(c, p) \/ says = "pending")

\* verifyPaymentAttempt: the cart is no longer what the charge was made for.
Unfit(p) == p \in Charges /\ quote[p] # contents[ChargedCart[p]]

LostReview(c, p) ==                                                \* mutant
  /\ rows' = WriteRow(rows, c, ReviewRow(rows[c]))
  /\ UNCHANGED <<contents, current, ledger, amount, facts>>
RecordForReview(c, p) ==
  /\ rows' = WriteRow(rows, c, ReviewRow(rows[c]))
  /\ ledger' = ledger \cup {p}
  /\ amount' = [amount EXCEPT ![c] = @ + 1]
  /\ UNCHANGED <<contents, current, facts>>

Unstamped(c) == contents[c]                                        \* mutant
Stamped(c)   == [contents[c] EXCEPT !.stamped = TRUE]
SilentFact(says, p) ==                                             \* mutant
  IF says = "refunded" THEN {<<says, p>>} ELSE {}
Fact(says, p) == IF says = "pending" THEN {} ELSE {<<says, p>>}

RawPayRow(r, says) == [r EXCEPT !.pay = says]                     \* mutant
PayRow(r, says) ==
  CASE says = "paid"     -> PaidRow(r)
    [] says = "refunded" -> [r EXCEPT !.pay = "refunded"]
    [] OTHER             -> [r EXCEPT !.pay = "pending"]

\* UpdateCartPayment on row r of cart c: status, coverage, ledger and fact.
WritePayment(c, p, says, r) ==
  /\ rows' = WriteRow(rows, c, PayRow(r, says))
  /\ current' = [current EXCEPT ![c] = p]
  /\ facts' = facts \cup Fact(says, p)
  /\ IF says = "paid" /\ ~Recorded(p)
     THEN /\ ledger' = ledger \cup {p}
          /\ amount' = [amount EXCEPT ![c] = @ + 1]
          /\ contents' = [contents EXCEPT ![c] = Stamped(c)]
     ELSE UNCHANGED <<ledger, amount, contents>>

CanWrite(c, p, says) == (says = "paid" /\ Unfit(p)) \/ Payable(rows[c])

UpdateCartPaymentStatus(c, p, says) ==
  /\ ~Stale(c, p, says) /\ CanWrite(c, p, says)
  /\ IF says = "paid" /\ Unfit(p) THEN RecordForReview(c, p)
     ELSE WritePayment(c, p, says, rows[c])

\* Payment wins over the merchant's cancellation, and over no other.
RestoreNothing(c, p) == UNCHANGED cartVars                         \* mutant
RestoreCancelledCartAsPaid(c, p) ==
  IF ~Restorable(rows[c]) THEN UNCHANGED cartVars
  ELSE IF Unfit(p) THEN RecordForReview(c, p)
  ELSE WritePayment(c, p, "paid", RestoredRow(rows[c]))

Apply(t) ==
  LET p == tasks[t].charge IN
  /\ tasks[t].step = "mapped"
  /\ UpdateCartPaymentStatus(ChargedCart[p], p, tasks[t].says)
  /\ Finish(t)
  /\ UNCHANGED <<payVars, panel, failures>>

\* ErrStalePayment: a repeated or obsolete notification is acknowledged.
AcknowledgeStale(t) ==
  LET p == tasks[t].charge IN
  /\ tasks[t].step = "mapped" /\ Stale(ChargedCart[p], p, tasks[t].says)
  /\ Finish(t)
  /\ UNCHANGED <<cartVars, payVars, panel, failures>>

\* ErrCartNotPayable: the transaction rolled back; a payment tries to restore.
NotPayable(t) ==
  LET p == tasks[t].charge  says == tasks[t].says IN
  /\ tasks[t].step = "mapped"
  /\ ~Stale(ChargedCart[p], p, says) /\ ~CanWrite(ChargedCart[p], p, says)
  /\ IF says = "paid" THEN Task(t, "restore", p, says) ELSE Finish(t)
  /\ UNCHANGED <<cartVars, payVars, panel, failures>>

Restore(t) ==
  LET p == tasks[t].charge IN
  /\ tasks[t].step = "restore"
  /\ RestoreCancelledCartAsPaid(ChargedCart[p], p)
  /\ Finish(t)
  /\ UNCHANGED <<payVars, panel, failures>>

----------------------------------------------------------------------------
(* The merchant's panel: each request is a read and then a write. *)

\* ConfirmManualPayment refuses a settled cart, reading it outside the write.
ConfirmManualPayment(c) ==
  /\ "manual" \in Actors /\ panel[c] = "idle" /\ Unsettled(rows[c])
  /\ panel' = [panel EXCEPT ![c] = "checked"]
  /\ UNCHANGED <<cartVars, payVars, tasks, failures>>

\* The "internal" provider is refused while other money is under review.
ManualWrite(c) ==
  LET p == Manual(c) IN
  /\ panel[c] = "checked"
  /\ IF Recorded(p) \/ rows[c].review
     THEN UNCHANGED cartVars /\ panel' = [panel EXCEPT ![c] = "idle"]
     ELSE IF ~Payable(rows[c])
     THEN UNCHANGED cartVars /\ panel' = [panel EXCEPT ![c] = "restore"]
     ELSE UpdateCartPaymentStatus(c, p, "paid") /\ panel' = [panel EXCEPT ![c] = "idle"]
  /\ UNCHANGED <<payVars, tasks, failures>>

ManualRestore(c) ==
  /\ panel[c] = "restore" /\ panel' = [panel EXCEPT ![c] = "idle"]
  /\ IF rows[c].review THEN UNCHANGED cartVars
     ELSE RestoreCancelledCartAsPaid(c, Manual(c))
  /\ UNCHANGED <<payVars, tasks, failures>>

\* ConfirmManualRefund: the row in one transaction, the fact in the next.
MarkCartRefunded(c) ==
  /\ "manual" \in Actors /\ panel[c] = "idle" /\ rows[c].pay = "paid"
  /\ rows' = WriteRow(rows, c, [rows[c] EXCEPT !.pay = "refunded"])
  /\ panel' = [panel EXCEPT ![c] = "marked"]
  /\ UNCHANGED <<contents, current, ledger, amount, facts, payVars, tasks, failures>>

EmitManualRefund(c) ==
  /\ panel[c] = "marked" /\ panel' = [panel EXCEPT ![c] = "idle"]
  /\ facts' = facts \cup {<<"refunded", IF current[c] = None THEN Manual(c) ELSE current[c]>>}
  /\ UNCHANGED <<rows, contents, current, ledger, amount, payVars, tasks, failures>>

\* The request dies with its process; nothing retries it.
PanelDies(c) ==
  /\ panel[c] # "idle" /\ panel' = [panel EXCEPT ![c] = "idle"]
  /\ failures < MaxFailures /\ failures' = failures + 1
  /\ UNCHANGED <<cartVars, payVars, tasks>>

----------------------------------------------------------------------------
(* The other writers of the row (see CartInventory for their stock side). *)

WritesRow(c, r) ==
  /\ rows' = WriteRow(rows, c, r)
  /\ UNCHANGED <<contents, current, ledger, amount, facts, payVars, tasks, panel, failures>>

AddItem(c) ==
  /\ "edit" \in Actors /\ Admits(rows[c])
  /\ \E v \in Versions \ {contents[c].version} :
        contents' = [contents EXCEPT ![c].version = v]
  /\ UNCHANGED <<rows, current, ledger, amount, facts, payVars, tasks, panel, failures>>

CancelCart(c) ==
  /\ "store" \in Actors /\ StoreCancellable(rows, c)
  /\ WritesRow(c, CancelledRow(rows[c], "store_cancelled"))

ExpireCart(c) ==
  /\ "deadline" \in Actors /\ Expirable(rows, c)
  /\ WritesRow(c, ExpiredRow(rows[c]))

DeadlinePasses(c) ==
  /\ "deadline" \in Actors /\ rows[c].deadline = "armed"
  /\ WritesRow(c, [rows[c] EXCEPT !.deadline = "due"])

ReopenCancelledCartFromERP(c) ==
  /\ "erp" \in Actors /\ Reopenable(rows[c])
  /\ WritesRow(c, ReopenedRow(c, rows[c]))

\* ReactCartRefunded: the refund fact kills the sale.
CancelCartOnRefund(c) ==
  /\ \E f \in facts : f[1] = "refunded" /\ CartOf(f[2]) = c
  /\ RefundKills(rows[c])
  /\ WritesRow(c, CancelledRow(rows[c], "refunded"))

----------------------------------------------------------------------------
GatewayNext(p) == CreatePaymentAttempt(p) \/ UpdateCheckoutInfo(p) \/ GatewayMoves(p)

TaskStepOf(t) ==
  \/ GetPaymentStatus(t) \/ MapCancelled(t) \/ Apply(t) \/ AcknowledgeStale(t)
  \/ NotPayable(t) \/ Restore(t)

PanelNext(c) ==
  \/ ConfirmManualPayment(c) \/ ManualWrite(c) \/ ManualRestore(c)
  \/ MarkCartRefunded(c) \/ EmitManualRefund(c) \/ PanelDies(c)

RowNext(c) ==
  \/ AddItem(c) \/ CancelCart(c) \/ ExpireCart(c) \/ DeadlinePasses(c)
  \/ ReopenCancelledCartFromERP(c) \/ CancelCartOnRefund(c)

Next ==
  \/ \E p \in Charges : GatewayNext(p)
  \/ \E t \in Tasks : (\E p \in Charges : DispatchPaymentProcess(t, p)) \/ TaskStepOf(t) \/ TaskDies(t)
  \/ \E c \in Carts : PanelNext(c) \/ RowNext(c)

Spec == Init /\ [][Next]_vars

\* The provider sends its news, the queue keeps a task until it is finished.
Fairness ==
  /\ \A t \in Tasks : WF_vars(TaskStepOf(t))
  /\ \A p \in Charges :
        SF_vars(p \in news /\ \E t \in Tasks : DispatchPaymentProcess(t, p))

FairSpec == Spec /\ Fairness

----------------------------------------------------------------------------
(* Properties. *)

\* The ledger row, the coverage and the fact of a payment commit together: a
\* cart.paid fact always has its money in the ledger, and money in the ledger was
\* either announced or put under review (repository.go:2625, payment_attempt.go:16).
LedgerBacksFacts ==
  /\ \A f \in facts : f[1] = "paid" => f[2] \in ledger
  /\ \A p \in ledger : <<"paid", p>> \in facts \/ rows[CartOf(p)].review

\* However often and in whatever order the provider repeats itself, each charge
\* enters paid_amount_cents once (cart.sql:385).
MoneyCountedOnce ==
  \A c \in Carts : amount[c] = Cardinality({p \in ledger : CartOf(p) = c})

\* A cart never ends up paid and expired or cancelled (cart.sql:365).
PaidIsNeverTerminated ==
  \A c \in Carts : rows[c].pay = "paid" => rows[c].status \notin Terminated

\* Two gateway charges of a cart are never both taken for its payment while both
\* hold money: the second one is put under review.
SaleIsPaidOnce ==
  \A p, q \in Charges :
    p # q /\ ChargedCart[p] = ChargedCart[q] /\ {<<"paid", p>>, <<"paid", q>>} \subseteq facts
      => gateway[p] # "approved" \/ gateway[q] # "approved"

\* Only expiry, a refund and a cancellation that is not the store's keep a cart
\* from taking the money of an approved charge (webhook.go:300).
Refuses(r) == r.status = "expired" \/ (r.status = "cancelled" /\ r.reason # "store_cancelled")

Quiet == news = {} /\ \A t \in Tasks : tasks[t].step = "idle"

\* When every notification was handled, an approved charge is in the ledger,
\* unless its cart refuses it: payment wins over the merchant's cancellation.
ApprovedIsNeverLost ==
  Quiet => \A p \in Charges :
    gateway[p] = "approved" => p \in ledger \/ Refuses(rows[ChargedCart[p]])

\* The money of an approved charge is eventually recorded, whoever else writes the
\* cart meanwhile.
ApprovedIsSettled ==
  \A p \in Charges :
    (gateway[p] = "approved") ~>
      (p \in ledger \/ gateway[p] # "approved" \/ Refuses(rows[ChargedCart[p]]))

\* "refunded" is terminal (webhook.go:231): no later step makes it pending or paid.
RefundedIsTerminal ==
  [][\A c \in Carts : rows[c].pay = "refunded" => rows'[c].pay = "refunded"]_vars

\* A paid cart whose charge was cancelled was refunded (webhook.go:227): it does not
\* fall back to a status that runs no refund reaction.
CancelledPaidChargeIsRefund ==
  [][\A c \in Carts : rows[c].pay = "paid" /\ rows'[c].pay = "pending"
       => rows'[c].review]_vars

\* An old charge that was never paid does not refund the charge that replaced it
\* (repository.go:3055).
OldChargeRefundsNothing ==
  [][\A c \in Carts : rows[c].pay = "paid" /\ rows'[c].pay = "refunded"
       => current'[c] \in ledger]_vars

\* A cart that counts as refunded holds no other money of the buyer.
RefundedHoldsNoMoney ==
  \A p \in Charges :
    rows[ChargedCart[p]].pay = "refunded" => ~(p \in ledger /\ gateway[p] = "approved")

\* A refund is a fact, not a field (manual.go:180).
RefundIsAFact ==
  \A c \in Carts :
    rows[c].pay = "refunded" /\ panel[c] # "marked"
      => \E f \in facts : f[1] = "refunded" /\ CartOf(f[2]) = c

\* A paid cart is refused to the manual confirmation (manual.go:67).
PaidIsRefusedToManual ==
  [][\A c \in Carts : rows[c].pay = "paid" => (Manual(c) \in ledger' => Manual(c) \in ledger)]_vars
=============================================================================
