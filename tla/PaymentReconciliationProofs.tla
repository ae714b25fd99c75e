--------------------- MODULE PaymentReconciliationProofs ---------------------
(***************************************************************************)
(* What holds of PaymentReconciliation for every number of carts, charges  *)
(* and workers, every joining of the carts and whoever else writes them.   *)
(*                                                                         *)
(* CartInv needs no more than the types of the gateway, the queue and the  *)
(* panel: no register, however stale, breaks it.  What follows it does     *)
(* depend on what a worker holds.  CountInv and PairInv count the money,   *)
(* SaleInv traces a second payment back to the charge that died before it, *)
(* and LossInv follows an approval from the provider's notification to the *)
(* ledger.                                                                 *)
(***************************************************************************)
EXTENDS PaymentReconciliation, CartRowProofs, FiniteSetTheorems

CartTypes ==
  /\ rows \in [Carts -> Row]
  /\ contents \in [Carts -> Contents]
  /\ current \in [Carts -> Ids \cup {None}]
  /\ ledger \subseteq Ids
  /\ amount \in [Carts -> Nat]
  /\ facts \subseteq {"paid", "cancelled", "refunded"} \X Ids

WorkTypes ==
  /\ gateway \in [Charges -> {"none", "open", "approved", "cancelled", "voided", "refunded"}]
  /\ news \subseteq Charges /\ unbound \subseteq Charges
  /\ tasks \in [Tasks -> [step : TaskStep, charge : Charges \cup {None}, says : Says]]
  /\ \A t \in Tasks : tasks[t].step # "idle" => tasks[t].charge \in Charges
  /\ quote \in [Charges -> Contents]
  /\ panel \in [Carts -> {"idle", "checked", "restore", "marked"}]
  /\ failures \in 0 .. MaxFailures

CartInv == CartTypes /\ PaidIsNeverTerminated /\ LedgerBacksFacts

LEMMA TypeSplit == TypeOK <=> CartTypes /\ WorkTypes
BY DEF TypeOK, CartTypes, WorkTypes

\* Every payment id belongs to a cart: a charge to the cart it was created for,
\* a manual payment to the cart it names.
LEMMA CartOfIds ==
  /\ \A p \in Ids : CartOf(p) \in Carts
  /\ \A p \in Charges : p \in Ids /\ CartOf(p) = ChargedCart[p] /\ ChargedCart[p] \in Carts
  /\ \A c \in Carts : Manual(c) \in Ids /\ CartOf(Manual(c)) = c /\ Manual(c) \notin Charges
BY PaymentAssumption DEF Ids, CartOf, Manual

----------------------------------------------------------------------------
(* The writes. *)

\* A row write that neither takes a review back nor pays a terminated cart, with
\* everything else of the cart as it was.
LEMMA RowWriteInv ==
  ASSUME CartInv, NEW c \in Carts, NEW r \in Row, rows' = WriteRow(rows, c, r),
         rows[c].review => r.review,
         r.pay = "paid" => r.status \notin Terminated
  PROVE  /\ rows' \in [Carts -> Row]
         /\ PaidIsNeverTerminated'
         /\ \A x \in Carts : rows[x].review => rows'[x].review
         /\ rows'[c] = r
<1>1. rows \in [Carts -> Row]  BY DEF CartInv, CartTypes
<1>2. /\ rows' \in [Carts -> Row]
      /\ rows'[c] = r
      /\ \A x \in Carts \ {c} : /\ rows'[x].status = rows[x].status
                               /\ rows'[x].pay = rows[x].pay
                               /\ rows'[x].review = rows[x].review
  BY <1>1, WriteRowShape
<1>3. PaidIsNeverTerminated'
  BY <1>2 DEF CartInv, PaidIsNeverTerminated
<1>4. \A x \in Carts : rows[x].review => rows'[x].review
  BY <1>2
<1>. QED  BY <1>2, <1>3, <1>4

\* Facts and reviews only accumulate, so old money stays announced or reviewed.
LEMMA LedgerStep ==
  ASSUME CartInv, NEW F, NEW p \in Ids,
         facts' = facts \cup F,
         \A f \in F : f[1] = "paid" => f[2] \in ledger',
         ledger' = ledger \/ ledger' = ledger \cup {p},
         p \in ledger' \ ledger => <<"paid", p>> \in facts' \/ rows'[CartOf(p)].review,
         \A x \in Carts : rows[x].review => rows'[x].review
  PROVE  LedgerBacksFacts'
<1>1. \A f \in facts' : f[1] = "paid" => f[2] \in ledger'
  BY DEF CartInv, LedgerBacksFacts
<1>2. ASSUME NEW q \in ledger'
      PROVE  <<"paid", q>> \in facts' \/ rows'[CartOf(q)].review
  <2>1. CASE q \in ledger
    <3>1. CartOf(q) \in Carts  BY <2>1, CartOfIds DEF CartInv, CartTypes
    <3>. QED  BY <2>1, <3>1 DEF CartInv, LedgerBacksFacts
  <2>2. CASE q \notin ledger
    BY <1>2, <2>2
  <2>. QED  BY <2>1, <2>2
<1>. QED  BY <1>1, <1>2 DEF LedgerBacksFacts

LEMMA RecordForReviewInv ==
  ASSUME CartInv, NEW p \in Charges, NEW c \in Carts, c = ChargedCart[p],
         RecordForReview(c, p)
  PROVE  CartInv'
<1>1. rows[c] \in Row  BY DEF CartInv, CartTypes
<1>2. ReviewRow(rows[c]) \in Row  BY <1>1, RowFacts
<1>3. ReviewRow(rows[c]).review /\ ReviewRow(rows[c]).pay = "pending"
  BY <1>1 DEF ReviewRow, Row
<1>4. /\ rows' = WriteRow(rows, c, ReviewRow(rows[c]))
      /\ ledger' = ledger \cup {p}
      /\ amount' = [amount EXCEPT ![c] = @ + 1]
      /\ UNCHANGED <<contents, current, facts>>
  BY DEF RecordForReview
<1>5. /\ rows' \in [Carts -> Row] /\ PaidIsNeverTerminated'
      /\ \A x \in Carts : rows[x].review => rows'[x].review
      /\ rows'[c] = ReviewRow(rows[c])
  BY <1>2, <1>3, <1>4, RowWriteInv
<1>6. p \in Ids /\ CartOf(p) = c  BY CartOfIds
<1>7. LedgerBacksFacts'
  <2>1. PICK none : none = {}  OBVIOUS
  <2>2. facts' = facts \cup none /\ \A f \in none : f[1] = "paid" => f[2] \in ledger'
    BY <1>4, <2>1
  <2>3. rows'[CartOf(p)].review  BY <1>3, <1>5, <1>6
  <2>. QED  BY <1>4, <1>5, <1>6, <2>2, <2>3, LedgerStep
<1>8. CartTypes'
  BY <1>4, <1>5, <1>6 DEF CartInv, CartTypes
<1>. QED  BY <1>5, <1>7, <1>8 DEF CartInv

\* The row a payment of status says writes on top of r.
LEMMA PayRowFacts ==
  ASSUME NEW r \in Row, NEW says \in Says
  PROVE  /\ PayRow(r, says) \in Row
         /\ PayRow(r, says).review = r.review
         /\ PayRow(r, says).status = r.status
         /\ PayRow(r, says).reason = r.reason
         /\ PayRow(r, says).pay = "paid" => says = "paid"
         /\ PayRow(r, says).pay = IF says \in {"paid", "refunded"} THEN says ELSE "pending"
<1>1. CASE says = "paid"
  <2>1. PayRow(r, says) = PaidRow(r)  BY <1>1 DEF PayRow
  <2>2. PaidRow(r) \in Row  BY RowFacts
  <2>3. PaidRow(r).review = r.review /\ PaidRow(r).status = r.status
        /\ PaidRow(r).reason = r.reason /\ PaidRow(r).pay = "paid"
    BY DEF PaidRow, Row
  <2>. QED  BY <1>1, <2>1, <2>2, <2>3
<1>2. CASE says = "refunded"
  <2>1. PayRow(r, says) = [r EXCEPT !.pay = "refunded"]  BY <1>2 DEF PayRow
  <2>2. [r EXCEPT !.pay = "refunded"] \in Row  BY RowFacts
  <2>. QED  BY <1>2, <2>1, <2>2 DEF Row
<1>3. CASE says \in {"pending", "cancelled"}
  <2>1. PayRow(r, says) = [r EXCEPT !.pay = "pending"]  BY <1>3 DEF PayRow
  <2>2. [r EXCEPT !.pay = "pending"] \in Row  BY RowFacts
  <2>. QED  BY <1>3, <2>1, <2>2 DEF Row
<1>. QED  BY <1>1, <1>2, <1>3 DEF Says

LEMMA WritePaymentInv ==
  ASSUME CartInv, NEW p \in Ids, NEW c \in Carts, NEW r \in Row, NEW says \in Says,
         rows[c].review => r.review,
         says = "paid" => r.status \notin Terminated,
         WritePayment(c, p, says, r)
  PROVE  CartInv'
<1>. DEFINE n == PayRow(r, says)
<1>1. n \in Row /\ (rows[c].review => n.review) /\ (n.pay = "paid" => n.status \notin Terminated)
  BY PayRowFacts
<1>2. /\ rows' = WriteRow(rows, c, n)
      /\ current' = [current EXCEPT ![c] = p]
      /\ facts' = facts \cup Fact(says, p)
  BY DEF WritePayment
<1>. HIDE DEF n
<1>3. /\ rows' \in [Carts -> Row] /\ PaidIsNeverTerminated'
      /\ \A x \in Carts : rows[x].review => rows'[x].review
  BY <1>1, <1>2, RowWriteInv
<1>4. \/ says = "paid" /\ p \notin ledger /\ ledger' = ledger \cup {p}
         /\ amount' = [amount EXCEPT ![c] = @ + 1]
         /\ contents' = [contents EXCEPT ![c] = Stamped(c)]
      \/ ~(says = "paid" /\ p \notin ledger) /\ UNCHANGED <<ledger, amount, contents>>
  BY DEF WritePayment, Recorded
<1>5. LedgerBacksFacts'
  <2>1. \A f \in Fact(says, p) : f[1] = "paid" => f[2] \in ledger'
    BY <1>4 DEF Fact
  <2>2. p \in ledger' \ ledger => <<"paid", p>> \in facts'
    BY <1>2, <1>4 DEF Fact
  <2>. QED  BY <1>2, <1>3, <1>4, <2>1, <2>2, LedgerStep
<1>6. CartTypes'
  <2>1. Stamped(c) \in Contents
    BY DEF CartInv, CartTypes, Stamped, Contents
  <2>2. contents' \in [Carts -> Contents] /\ amount' \in [Carts -> Nat] /\ ledger' \subseteq Ids
    BY <1>4, <2>1 DEF CartInv, CartTypes
  <2>3. facts' \subseteq {"paid", "cancelled", "refunded"} \X Ids
    BY <1>2 DEF CartInv, CartTypes, Fact, Says
  <2>. QED  BY <1>2, <1>3, <2>2, <2>3 DEF CartInv, CartTypes
<1>. QED  BY <1>3, <1>5, <1>6 DEF CartInv

----------------------------------------------------------------------------
(* The two transactions of the payment pipeline. *)

LEMMA UpdateInv ==
  ASSUME CartInv, NEW p \in Ids, NEW c \in Carts, c = CartOf(p), NEW says \in Says,
         UpdateCartPaymentStatus(c, p, says)
  PROVE  CartInv'
<1>1. CASE says = "paid" /\ Unfit(p)
  <2>1. p \in Charges  BY <1>1 DEF Unfit
  <2>2. c = ChargedCart[p]  BY <2>1, CartOfIds
  <2>3. RecordForReview(c, p)  BY <1>1 DEF UpdateCartPaymentStatus
  <2>. QED  BY <2>1, <2>2, <2>3, RecordForReviewInv
<1>2. CASE ~(says = "paid" /\ Unfit(p))
  <2>1. WritePayment(c, p, says, rows[c])  BY <1>2 DEF UpdateCartPaymentStatus
  <2>2. rows[c].status \notin Terminated
    BY <1>2 DEF UpdateCartPaymentStatus, CanWrite, Payable
  <2>3. rows[c] \in Row  BY DEF CartInv, CartTypes
  <2>. QED  BY <2>1, <2>2, <2>3, WritePaymentInv
<1>. QED  BY <1>1, <1>2

LEMMA RestoreInv ==
  ASSUME CartInv, NEW p \in Ids, NEW c \in Carts, c = CartOf(p),
         RestoreCancelledCartAsPaid(c, p)
  PROVE  CartInv'
<1>1. CASE UNCHANGED cartVars
  BY <1>1 DEF cartVars, CartInv, CartTypes, PaidIsNeverTerminated, LedgerBacksFacts
<1>2. CASE Unfit(p) /\ RecordForReview(c, p)
  <2>1. p \in Charges  BY <1>2 DEF Unfit
  <2>. QED  BY <1>2, <2>1, CartOfIds, RecordForReviewInv
<1>3. CASE WritePayment(c, p, "paid", RestoredRow(rows[c]))
  <2>1. rows[c] \in Row  BY DEF CartInv, CartTypes
  <2>2. RestoredRow(rows[c]) \in Row  BY <2>1, RowFacts
  <2>3. /\ RestoredRow(rows[c]).review = rows[c].review
        /\ RestoredRow(rows[c]).status \notin Terminated
    BY <2>1 DEF RestoredRow, PaidRow, Row, Terminated
  <2>4. "paid" \in Says  BY DEF Says
  <2>. QED  BY <1>3, <2>2, <2>3, <2>4, WritePaymentInv
<1>. QED  BY <1>1, <1>2, <1>3 DEF RestoreCancelledCartAsPaid

\* A step that only rewrites rows.
LEMMA OnlyRowsInv ==
  ASSUME CartInv, NEW c \in Carts, NEW r \in Row, rows' = WriteRow(rows, c, r),
         UNCHANGED <<contents, current, ledger, amount, facts>>,
         rows[c].review => r.review,
         r.pay = "paid" => r.status \notin Terminated
  PROVE  CartInv'
<1>1. /\ rows' \in [Carts -> Row] /\ PaidIsNeverTerminated'
      /\ \A x \in Carts : rows[x].review => rows'[x].review
  BY RowWriteInv
<1>2. \A p \in ledger : CartOf(p) \in Carts  BY CartOfIds DEF CartInv, CartTypes
<1>3. LedgerBacksFacts'
  BY <1>1, <1>2 DEF CartInv, LedgerBacksFacts
<1>. QED  BY <1>1, <1>3 DEF CartInv, CartTypes

LEMMA QuietCart == CartInv /\ UNCHANGED cartVars => CartInv'
BY DEF cartVars, CartInv, CartTypes, PaidIsNeverTerminated, LedgerBacksFacts

----------------------------------------------------------------------------
(* The steps: what each does to the cart side, and to the types of the rest. *)

\* What a worker is working on is a charge, and what it read a status.
LEMMA TaskFacts ==
  ASSUME WorkTypes, NEW t \in Tasks, tasks[t].step # "idle"
  PROVE  /\ tasks[t].charge \in Charges /\ tasks[t].says \in Says
         /\ tasks[t].charge \in Ids
         /\ CartOf(tasks[t].charge) = ChargedCart[tasks[t].charge]
         /\ ChargedCart[tasks[t].charge] \in Carts
<1>1. tasks[t].charge \in Charges /\ tasks[t].says \in Says  BY DEF WorkTypes
<1>. QED  BY <1>1, CartOfIds

LEMMA TaskTypes ==
  ASSUME WorkTypes, NEW t \in Tasks,
         \/ Finish(t)
         \/ \E s \in TaskStep, p \in Charges, w \in Says : Task(t, s, p, w)
  PROVE  /\ tasks' \in [Tasks -> [step : TaskStep, charge : Charges \cup {None}, says : Says]]
         /\ \A u \in Tasks : tasks'[u].step # "idle" => tasks'[u].charge \in Charges
<1>1. CASE Finish(t)
  BY <1>1 DEF Finish, Nothing, WorkTypes, TaskStep, Says
<1>2. ASSUME NEW s \in TaskStep, NEW p \in Charges, NEW w \in Says, Task(t, s, p, w)
      PROVE  /\ tasks' \in [Tasks -> [step : TaskStep, charge : Charges \cup {None}, says : Says]]
             /\ \A u \in Tasks : tasks'[u].step # "idle" => tasks'[u].charge \in Charges
  BY <1>2 DEF Task, WorkTypes
<1>. QED  BY <1>1, <1>2

LEMMA GatewayInv ==
  ASSUME CartInv, WorkTypes, NEW p \in Charges, GatewayNext(p)
  PROVE  CartInv' /\ WorkTypes'
<1>1. p \in Ids /\ ChargedCart[p] \in Carts  BY CartOfIds
<1>2. CASE CreatePaymentAttempt(p)
  <2>1. contents[ChargedCart[p]] \in Contents  BY <1>1 DEF CartInv, CartTypes
  <2>2. WorkTypes'  BY <1>2, <2>1 DEF CreatePaymentAttempt, WorkTypes
  <2>. QED  BY <1>2, <2>2, QuietCart DEF CreatePaymentAttempt
<1>3. CASE UpdateCheckoutInfo(p)
  <2>1. CartTypes'  BY <1>1, <1>3 DEF UpdateCheckoutInfo, CartInv, CartTypes
  <2>2. PaidIsNeverTerminated' /\ LedgerBacksFacts'
    BY <1>3 DEF UpdateCheckoutInfo, CartInv, PaidIsNeverTerminated, LedgerBacksFacts
  <2>3. WorkTypes'  BY <1>3 DEF UpdateCheckoutInfo, WorkTypes
  <2>. QED  BY <2>1, <2>2, <2>3 DEF CartInv
<1>4. CASE GatewayMoves(p)
  <2>1. WorkTypes'  BY <1>4 DEF GatewayMoves, Moves, WorkTypes
  <2>. QED  BY <1>4, <2>1, QuietCart DEF GatewayMoves
<1>. QED  BY <1>2, <1>3, <1>4 DEF GatewayNext

LEMMA DispatchInv ==
  ASSUME CartInv, WorkTypes, NEW t \in Tasks, NEW p \in Charges, DispatchPaymentProcess(t, p)
  PROVE  CartInv' /\ WorkTypes'
<1>1. "queued" \in TaskStep /\ "pending" \in Says /\ Task(t, "queued", p, "pending")
  BY DEF TaskStep, Says, DispatchPaymentProcess
<1>2. WorkTypes'  BY <1>1, TaskTypes DEF DispatchPaymentProcess, WorkTypes
<1>. QED  BY <1>2, QuietCart DEF DispatchPaymentProcess

LEMMA TaskInv ==
  ASSUME CartInv, WorkTypes, NEW t \in Tasks, TaskStepOf(t) \/ TaskDies(t)
  PROVE  CartInv' /\ WorkTypes'
<1>. DEFINE p == tasks[t].charge
            c == ChargedCart[p]
<1>1. tasks[t].step # "idle"
  BY DEF TaskStepOf, GetPaymentStatus, MapCancelled, Apply, AcknowledgeStale, NotPayable,
         Restore, TaskDies
<1>2. p \in Charges /\ tasks[t].says \in Says /\ p \in Ids /\ CartOf(p) = c /\ c \in Carts
  BY <1>1, TaskFacts
<1>3. /\ {"queued", "read", "mapped", "restore"} \subseteq TaskStep
      /\ {"paid", "pending", "cancelled", "refunded"} \subseteq Says
  BY DEF TaskStep, Says
<1>4. CASE GetPaymentStatus(t)
  <2>1. Report(p) \in Says  BY <1>3 DEF Report
  <2>2. \E s \in TaskStep, q \in Charges, w \in Says : Task(t, s, q, w)
    BY <1>2, <1>3, <1>4, <2>1 DEF GetPaymentStatus
  <2>3. UNCHANGED <<cartVars, payVars, panel, failures>>  BY <1>4 DEF GetPaymentStatus
  <2>4. WorkTypes'  BY <2>2, <2>3, TaskTypes DEF WorkTypes, payVars
  <2>. QED  BY <2>3, <2>4, QuietCart
<1>5. CASE MapCancelled(t)
  <2>1. \E s \in TaskStep, q \in Charges, w \in Says : Task(t, s, q, w)
    BY <1>2, <1>3, <1>5 DEF MapCancelled
  <2>2. UNCHANGED <<cartVars, payVars, panel, failures>>  BY <1>5 DEF MapCancelled
  <2>3. WorkTypes'  BY <2>1, <2>2, TaskTypes DEF WorkTypes, payVars
  <2>. QED  BY <2>2, <2>3, QuietCart
<1>6. CASE Apply(t)
  <2>1. Finish(t) /\ UNCHANGED <<payVars, panel, failures>>
        /\ UpdateCartPaymentStatus(c, p, tasks[t].says)
    BY <1>6 DEF Apply
  <2>2. WorkTypes'  BY <2>1, TaskTypes DEF WorkTypes, payVars
  <2>. QED  BY <1>2, <2>1, <2>2, UpdateInv
<1>7. CASE AcknowledgeStale(t)
  <2>1. Finish(t) /\ UNCHANGED <<cartVars, payVars, panel, failures>>
    BY <1>7 DEF AcknowledgeStale
  <2>2. WorkTypes'  BY <2>1, TaskTypes DEF WorkTypes, payVars
  <2>. QED  BY <2>1, <2>2, QuietCart
<1>8. CASE NotPayable(t)
  <2>1. \/ Finish(t)
        \/ \E s \in TaskStep, q \in Charges, w \in Says : Task(t, s, q, w)
    BY <1>2, <1>3, <1>8 DEF NotPayable
  <2>2. UNCHANGED <<cartVars, payVars, panel, failures>>  BY <1>8 DEF NotPayable
  <2>3. WorkTypes'  BY <2>1, <2>2, TaskTypes DEF WorkTypes, payVars
  <2>. QED  BY <2>2, <2>3, QuietCart
<1>9. CASE Restore(t)
  <2>1. Finish(t) /\ UNCHANGED <<payVars, panel, failures>> /\ RestoreCancelledCartAsPaid(c, p)
    BY <1>9 DEF Restore
  <2>2. WorkTypes'  BY <2>1, TaskTypes DEF WorkTypes, payVars
  <2>. QED  BY <1>2, <2>1, <2>2, RestoreInv
<1>10. CASE TaskDies(t)
  <2>1. \E s \in TaskStep, q \in Charges, w \in Says : Task(t, s, q, w)
    BY <1>2, <1>3, <1>10 DEF TaskDies
  <2>2. UNCHANGED <<cartVars, payVars, panel>> /\ failures' \in 0 .. MaxFailures
    BY <1>10, PaymentAssumption DEF TaskDies, WorkTypes
  <2>3. WorkTypes'  BY <2>1, <2>2, TaskTypes DEF WorkTypes, payVars
  <2>. QED  BY <2>2, <2>3, QuietCart
<1>. QED
  BY <1>4, <1>5, <1>6, <1>7, <1>8, <1>9, <1>10 DEF TaskStepOf

LEMMA PanelTypes ==
  ASSUME WorkTypes, NEW c \in Carts, NEW s \in {"idle", "checked", "restore", "marked"},
         panel' = [panel EXCEPT ![c] = s], UNCHANGED <<payVars, tasks>>,
         failures' \in 0 .. MaxFailures
  PROVE  WorkTypes'
BY DEF WorkTypes, payVars

LEMMA PanelInv ==
  ASSUME CartInv, WorkTypes, NEW c \in Carts, PanelNext(c)
  PROVE  CartInv' /\ WorkTypes'
<1>. DEFINE p == Manual(c)
<1>1. p \in Ids /\ CartOf(p) = c /\ rows[c] \in Row /\ failures \in 0 .. MaxFailures
  BY CartOfIds DEF CartInv, CartTypes, WorkTypes
<1>2. "paid" \in Says  BY DEF Says
<1>3. CASE ConfirmManualPayment(c)
  <2>1. WorkTypes'  BY <1>1, <1>3, PanelTypes DEF ConfirmManualPayment
  <2>. QED  BY <1>3, <2>1, QuietCart DEF ConfirmManualPayment
<1>4. CASE ManualWrite(c)
  <2>1. \E s \in {"idle", "restore"} : panel' = [panel EXCEPT ![c] = s]
    BY <1>4 DEF ManualWrite
  <2>2. UNCHANGED <<payVars, tasks, failures>>  BY <1>4 DEF ManualWrite
  <2>3. WorkTypes'  BY <1>1, <2>1, <2>2, PanelTypes
  <2>4. UNCHANGED cartVars \/ UpdateCartPaymentStatus(c, p, "paid")
    BY <1>4 DEF ManualWrite
  <2>. QED  BY <1>1, <1>2, <2>3, <2>4, QuietCart, UpdateInv
<1>5. CASE ManualRestore(c)
  <2>1. WorkTypes'  BY <1>1, <1>5, PanelTypes DEF ManualRestore
  <2>2. UNCHANGED cartVars \/ RestoreCancelledCartAsPaid(c, p)
    BY <1>5 DEF ManualRestore
  <2>. QED  BY <1>1, <2>1, <2>2, QuietCart, RestoreInv
<1>6. CASE MarkCartRefunded(c)
  <2>. DEFINE r == [rows[c] EXCEPT !.pay = "refunded"]
  <2>1. WorkTypes'  BY <1>1, <1>6, PanelTypes DEF MarkCartRefunded
  <2>2. r \in Row  BY <1>1, RowFacts
  <2>3. r.review = rows[c].review /\ r.pay = "refunded"  BY <1>1 DEF Row
  <2>4. rows' = WriteRow(rows, c, r) /\ UNCHANGED <<contents, current, ledger, amount, facts>>
    BY <1>6 DEF MarkCartRefunded
  <2>. HIDE DEF r
  <2>5. CartInv'  BY <2>2, <2>3, <2>4, OnlyRowsInv
  <2>. QED  BY <2>1, <2>5
<1>7. CASE EmitManualRefund(c)
  <2>. DEFINE f == <<"refunded", IF current[c] = None THEN Manual(c) ELSE current[c]>>
  <2>1. WorkTypes'  BY <1>1, <1>7, PanelTypes DEF EmitManualRefund
  <2>2. f \in {"paid", "cancelled", "refunded"} \X Ids /\ f[1] = "refunded"
    BY <1>1 DEF CartInv, CartTypes
  <2>3. facts' = facts \cup {f} /\ UNCHANGED <<rows, contents, current, ledger, amount>>
    BY <1>7 DEF EmitManualRefund
  <2>. HIDE DEF f
  <2>4. CartTypes'  BY <2>2, <2>3 DEF CartInv, CartTypes
  <2>5. PaidIsNeverTerminated' /\ LedgerBacksFacts'
    BY <2>2, <2>3 DEF CartInv, PaidIsNeverTerminated, LedgerBacksFacts
  <2>. QED  BY <2>1, <2>4, <2>5 DEF CartInv
<1>8. CASE PanelDies(c)
  <2>1. failures' \in 0 .. MaxFailures  BY <1>1, <1>8, PaymentAssumption DEF PanelDies
  <2>2. WorkTypes'  BY <1>8, <2>1, PanelTypes DEF PanelDies
  <2>. QED  BY <1>8, <2>2, QuietCart DEF PanelDies
<1>. QED  BY <1>3, <1>4, <1>5, <1>6, <1>7, <1>8 DEF PanelNext

\* The other writers of a row: none of them touches a paid cart's status, the
\* money or the facts.
LEMMA RowInv ==
  ASSUME CartInv, WorkTypes, NEW c \in Carts, RowNext(c)
  PROVE  CartInv' /\ WorkTypes'
<1>1. rows[c] \in Row /\ (rows[c].pay = "paid" => rows[c].status \notin Terminated)
  BY DEF CartInv, CartTypes, PaidIsNeverTerminated
<1>2. ASSUME NEW r \in Row, WritesRow(c, r), rows[c].review => r.review,
             r.pay = "paid" => r.status \notin Terminated
      PROVE  CartInv' /\ WorkTypes'
  <2>1. WorkTypes'  BY <1>2 DEF WritesRow, WorkTypes, payVars
  <2>2. rows' = WriteRow(rows, c, r) /\ UNCHANGED <<contents, current, ledger, amount, facts>>
    BY <1>2 DEF WritesRow
  <2>. QED  BY <1>2, <2>1, <2>2, OnlyRowsInv
<1>3. CASE AddItem(c)
  <2>1. WorkTypes'  BY <1>3 DEF AddItem, WorkTypes, payVars
  <2>2. CartTypes'  BY <1>3 DEF AddItem, CartInv, CartTypes, Contents
  <2>3. PaidIsNeverTerminated' /\ LedgerBacksFacts'
    BY <1>3 DEF AddItem, CartInv, PaidIsNeverTerminated, LedgerBacksFacts
  <2>. QED  BY <2>1, <2>2, <2>3 DEF CartInv
<1>4. CASE CancelCart(c)
  <2>. DEFINE r == CancelledRow(rows[c], "store_cancelled")
  <2>1. r \in Row  BY <1>1, RowFacts
  <2>2. r.review = rows[c].review /\ r.pay = rows[c].pay  BY <1>1 DEF CancelledRow, Row
  <2>3. rows[c].pay # "paid" /\ WritesRow(c, r)
    BY <1>4 DEF CancelCart, StoreCancellable, Unsettled, Settled
  <2>. QED  BY <1>2, <2>1, <2>2, <2>3
<1>5. CASE ExpireCart(c)
  <2>. DEFINE r == ExpiredRow(rows[c])
  <2>1. r \in Row  BY <1>1, RowFacts
  <2>2. r.review = rows[c].review /\ r.pay = rows[c].pay  BY <1>1 DEF ExpiredRow, Row
  <2>3. rows[c].pay # "paid" /\ WritesRow(c, r)
    BY <1>5 DEF ExpireCart, Expirable, Unsettled, Settled
  <2>. QED  BY <1>2, <2>1, <2>2, <2>3
<1>6. CASE DeadlinePasses(c)
  <2>. DEFINE r == [rows[c] EXCEPT !.deadline = "due"]
  <2>1. /\ r \in Row /\ r.review = rows[c].review
        /\ r.pay = rows[c].pay /\ r.status = rows[c].status
    BY <1>1 DEF Row
  <2>2. WritesRow(c, r)  BY <1>6 DEF DeadlinePasses
  <2>. QED  BY <1>1, <1>2, <2>1, <2>2
<1>7. CASE ReopenCancelledCartFromERP(c)
  <2>. DEFINE r == ReopenedRow(c, rows[c])
  <2>1. r \in Row  BY <1>1, RowFacts
  <2>2. r.review = rows[c].review /\ r.status = "checkout"  BY <1>1 DEF ReopenedRow, Row
  <2>3. WritesRow(c, r)  BY <1>7 DEF ReopenCancelledCartFromERP
  <2>. QED  BY <1>2, <2>1, <2>2, <2>3 DEF Terminated
<1>8. CASE CancelCartOnRefund(c)
  <2>. DEFINE r == CancelledRow(rows[c], "refunded")
  <2>1. r \in Row  BY <1>1, RowFacts
  <2>2. r.review = rows[c].review /\ r.pay = rows[c].pay  BY <1>1 DEF CancelledRow, Row
  <2>3. rows[c].pay = "refunded" /\ WritesRow(c, r)
    BY <1>8 DEF CancelCartOnRefund, RefundKills
  <2>. QED  BY <1>2, <2>1, <2>2, <2>3
<1>. QED  BY <1>3, <1>4, <1>5, <1>6, <1>7, <1>8 DEF RowNext

----------------------------------------------------------------------------
(* Theorems. *)

LEMMA InitInv == Init => CartInv /\ WorkTypes
<1>. SUFFICES ASSUME Init PROVE CartInv /\ WorkTypes  OBVIOUS
<1>1. \A c \in Carts : rows[c] \in Row /\ rows[c].pay = "pending"
  BY DEF Init, NewRow, Row, Open, Terminated, HumanCancel, Settled
<1>2. \A c \in Carts : contents[c] \in Contents
  BY PaymentAssumption DEF Init, Contents
<1>3. \A p \in Charges : ChargedCart[p] \in Carts  BY CartOfIds
<1>4. CartTypes  BY <1>1, <1>2 DEF Init, CartTypes
<1>5. PaidIsNeverTerminated /\ LedgerBacksFacts
  BY <1>1 DEF Init, PaidIsNeverTerminated, LedgerBacksFacts
<1>6. Nothing \in [step : TaskStep, charge : Charges \cup {None}, says : Says]
      /\ Nothing.step = "idle"
  BY DEF Nothing, TaskStep, Says
<1>7. WorkTypes
  <2>1. tasks \in [Tasks -> [step : TaskStep, charge : Charges \cup {None}, says : Says]]
        /\ \A t \in Tasks : tasks[t].step = "idle"
    BY <1>6 DEF Init
  <2>2. quote \in [Charges -> Contents]
    <3>1. quote = [p \in Charges |-> contents[ChargedCart[p]]]  BY DEF Init
    <3>. QED  BY <1>2, <1>3, <3>1
  <2>3. failures \in 0 .. MaxFailures
    <3>1. failures = 0 /\ MaxFailures \in Nat  BY PaymentAssumption DEF Init
    <3>. QED  BY <3>1
  <2>. QED  BY <2>1, <2>2, <2>3 DEF Init, WorkTypes
<1>. QED  BY <1>4, <1>5, <1>7 DEF CartInv

LEMMA NextInv == CartInv /\ WorkTypes /\ [Next]_vars => CartInv' /\ WorkTypes'
<1>. SUFFICES ASSUME CartInv, WorkTypes, [Next]_vars PROVE CartInv' /\ WorkTypes'
  OBVIOUS
<1>1. CASE UNCHANGED vars
  BY <1>1, QuietCart DEF vars, payVars, WorkTypes
<1>2. CASE \E p \in Charges : GatewayNext(p)
  BY <1>2, GatewayInv
<1>3. CASE \E t \in Tasks, p \in Charges : DispatchPaymentProcess(t, p)
  BY <1>3, DispatchInv
<1>4. CASE \E t \in Tasks : TaskStepOf(t) \/ TaskDies(t)
  BY <1>4, TaskInv
<1>5. CASE \E c \in Carts : PanelNext(c) \/ RowNext(c)
  BY <1>5, PanelInv, RowInv
<1>. QED  BY <1>1, <1>2, <1>3, <1>4, <1>5 DEF Next

\* The inductive invariant holds in every reachable state.
THEOREM PaymentInductive == Spec => [](CartInv /\ WorkTypes)
BY InitInv, NextInv, PTL DEF Spec

\* Whatever notifications arrive, in whatever order, and whoever else writes the
\* carts, every status, worker, ledger row and fact stays well formed; no count
\* of money goes below zero.
THEOREM PaymentTypeCorrect == Spec => []TypeOK
<1>1. CartInv /\ WorkTypes => TypeOK  BY TypeSplit DEF CartInv
<1>. QED  BY <1>1, PaymentInductive, PTL

\* A cart is never paid and expired or cancelled at once: the guard of the payment
\* write and the guards of expiry and cancellation exclude each other for any
\* number of charges, workers and crashes (cart.sql:365).
THEOREM PaidExcludesTerminated == Spec => []PaidIsNeverTerminated
<1>1. CartInv => PaidIsNeverTerminated  BY DEF CartInv
<1>. QED  BY <1>1, PaymentInductive, PTL

\* No cart.paid fact without its money in the ledger, and no money in the ledger
\* that is neither announced nor under review.
THEOREM FactsAreBacked == Spec => []LedgerBacksFacts
<1>1. CartInv => LedgerBacksFacts  BY DEF CartInv
<1>. QED  BY <1>1, PaymentInductive, PTL

----------------------------------------------------------------------------
(* Each charge is counted once.  The guarded write looks for the charge in  *)
(* the ledger; the restoration of a cancelled cart does not, and adds a     *)
(* charge under review to the coverage a second time.  That takes a         *)
(* cancellation by the store and two workers on one charge: without either  *)
(* of them the count is exact.                                              *)

NoStoreCancels == "store" \notin Actors
LoneWorker     == \A t, u \in Tasks : t = u

CountedOnce == NoStoreCancels \/ LoneWorker

NeverStoreCancelled == \A c \in Carts : rows[c].reason # "store_cancelled"
RestoresAreFresh ==
  \A t \in Tasks : tasks[t].step = "restore" => tasks[t].charge \notin ledger

CountInv ==
  /\ CartInv /\ WorkTypes
  /\ IsFiniteSet(ledger) /\ MoneyCountedOnce
  /\ NoStoreCancels => NeverStoreCancelled
  /\ LoneWorker => RestoresAreFresh

\* A new row of the ledger comes with one unit of coverage, and only then.
CountsNew(p) == /\ p \in Ids \ ledger
                /\ ledger' = ledger \cup {p}
                /\ amount' = [amount EXCEPT ![CartOf(p)] = @ + 1]
Counts == UNCHANGED <<ledger, amount>> \/ \E p \in Ids : CountsNew(p)

LEMMA CountsKeep ==
  ASSUME CartInv, IsFiniteSet(ledger), MoneyCountedOnce, Counts
  PROVE  IsFiniteSet(ledger') /\ MoneyCountedOnce'
<1>. DEFINE Of(c) == {p \in ledger : CartOf(p) = c}
<1>1. CASE UNCHANGED <<ledger, amount>>
  BY <1>1 DEF MoneyCountedOnce
<1>2. ASSUME NEW q \in Ids, CountsNew(q)
      PROVE  IsFiniteSet(ledger') /\ MoneyCountedOnce'
  <2>1. IsFiniteSet(ledger')  BY <1>2, FS_AddElement DEF CountsNew
  <2>2. ASSUME NEW c \in Carts
        PROVE  amount'[c] = Cardinality({p \in ledger' : CartOf(p) = c})
    <3>1. Of(c) \subseteq ledger  OBVIOUS
    <3>2. IsFiniteSet(Of(c))  BY <3>1, FS_Subset
    <3>3. amount[c] = Cardinality(Of(c)) /\ amount \in [Carts -> Nat]
      BY DEF MoneyCountedOnce, CartInv, CartTypes
    <3>4. CASE CartOf(q) = c
      <4>1. {p \in ledger' : CartOf(p) = c} = Of(c) \cup {q}
        BY <1>2, <3>4 DEF CountsNew
      <4>2. q \notin Of(c)  BY <1>2 DEF CountsNew
      <4>3. Cardinality(Of(c) \cup {q}) = Cardinality(Of(c)) + 1
        BY <3>2, <4>2, FS_AddElement
      <4>. QED  BY <1>2, <3>3, <3>4, <4>1, <4>3 DEF CountsNew
    <3>5. CASE CartOf(q) # c
      <4>1. {p \in ledger' : CartOf(p) = c} = Of(c)
        BY <1>2, <3>5 DEF CountsNew
      <4>. QED  BY <1>2, <3>3, <3>5, <4>1 DEF CountsNew
    <3>. QED  BY <3>4, <3>5
  <2>. QED  BY <2>1, <2>2 DEF MoneyCountedOnce
<1>. QED  BY <1>1, <1>2 DEF Counts

\* The guarded write counts a charge it did not know.
LEMMA UpdateCounts ==
  ASSUME NEW p \in Ids, NEW c \in Carts, c = CartOf(p), NEW says \in Says,
         UpdateCartPaymentStatus(c, p, says)
  PROVE  UNCHANGED <<ledger, amount>> \/ CountsNew(p)
<1>1. CASE says = "paid" /\ Unfit(p)
  BY <1>1 DEF UpdateCartPaymentStatus, RecordForReview, Stale, Recorded, CountsNew
<1>2. CASE ~(says = "paid" /\ Unfit(p))
  BY <1>2 DEF UpdateCartPaymentStatus, WritePayment, Recorded, CountsNew
<1>. QED  BY <1>1, <1>2

\* The restoration counts a charge that is not in the ledger, and does nothing to
\* a cart it cannot restore.
LEMMA RestoreCounts ==
  ASSUME NEW p \in Ids, NEW c \in Carts, c = CartOf(p),
         RestoreCancelledCartAsPaid(c, p),
         p \notin ledger \/ p \notin Charges \/ ~Restorable(rows[c])
  PROVE  UNCHANGED <<ledger, amount>> \/ CountsNew(p)
<1>1. CASE ~Restorable(rows[c])
  BY <1>1 DEF RestoreCancelledCartAsPaid, cartVars
<1>2. CASE Restorable(rows[c])
  BY <1>2 DEF RestoreCancelledCartAsPaid, Restorable, RecordForReview, WritePayment,
              Recorded, Unfit, CountsNew
<1>. QED  BY <1>1, <1>2

\* A row written without the store's reason leaves no row with it.
LEMMA ReasonKept ==
  ASSUME CartTypes, NeverStoreCancelled, NEW c \in Carts, NEW r \in Row,
         rows' = WriteRow(rows, c, r), r.reason # "store_cancelled"
  PROVE  NeverStoreCancelled'
<1>1. rows \in [Carts -> Row]  BY DEF CartTypes
<1>2. rows'[c] = r /\ \A x \in Carts \ {c} : rows'[x].reason = rows[x].reason
  BY <1>1, WriteRowShape
<1>. QED  BY <1>2 DEF NeverStoreCancelled

LEMMA UpdateReasons ==
  ASSUME CartTypes, NeverStoreCancelled, NEW c \in Carts, NEW p, NEW says \in Says,
         UpdateCartPaymentStatus(c, p, says)
  PROVE  NeverStoreCancelled'
<1>1. rows[c] \in Row /\ rows[c].reason # "store_cancelled"
  BY DEF CartTypes, NeverStoreCancelled
<1>2. CASE RecordForReview(c, p)
  <2>1. ReviewRow(rows[c]) \in Row  BY <1>1, RowFacts
  <2>2. ReviewRow(rows[c]).reason = rows[c].reason  BY <1>1 DEF ReviewRow, Row
  <2>. QED  BY <1>1, <1>2, <2>1, <2>2, ReasonKept DEF RecordForReview
<1>3. CASE WritePayment(c, p, says, rows[c])
  BY <1>1, <1>3, PayRowFacts, ReasonKept DEF WritePayment
<1>. QED  BY <1>2, <1>3 DEF UpdateCartPaymentStatus

LEMMA RestoreReasons ==
  ASSUME NeverStoreCancelled, NEW c \in Carts, NEW p, RestoreCancelledCartAsPaid(c, p)
  PROVE  NeverStoreCancelled'
BY DEF RestoreCancelledCartAsPaid, Restorable, cartVars, NeverStoreCancelled

\* The steps of the gateway and the news a worker takes up.
LEMMA GatewayCounts ==
  ASSUME CountInv, NEW p \in Charges,
         GatewayNext(p) \/ \E t \in Tasks : DispatchPaymentProcess(t, p)
  PROVE  CountInv'
<1>1. CartInv' /\ WorkTypes'  BY GatewayInv, DispatchInv DEF CountInv
<1>2. UNCHANGED <<rows, ledger, amount>>
  BY DEF GatewayNext, CreatePaymentAttempt, UpdateCheckoutInfo, GatewayMoves,
         DispatchPaymentProcess, cartVars
<1>3. IsFiniteSet(ledger') /\ MoneyCountedOnce'
  BY <1>2, CountsKeep DEF CountInv, Counts
<1>4. NoStoreCancels => NeverStoreCancelled'
  BY <1>2 DEF CountInv, NeverStoreCancelled
<1>5. \A t \in Tasks : tasks'[t].step = "restore" => tasks'[t] = tasks[t]
  BY DEF GatewayNext, CreatePaymentAttempt, UpdateCheckoutInfo, GatewayMoves,
         DispatchPaymentProcess, Task, CountInv, WorkTypes
<1>6. LoneWorker => RestoresAreFresh'
  BY <1>2, <1>5 DEF CountInv, RestoresAreFresh
<1>. QED  BY <1>1, <1>3, <1>4, <1>6 DEF CountInv

LEMMA TaskCounts ==
  ASSUME CountedOnce, CountInv, NEW t \in Tasks, TaskStepOf(t) \/ TaskDies(t)
  PROVE  CountInv'
<1>. DEFINE p == tasks[t].charge
            c == ChargedCart[p]
<1>1. CartInv' /\ WorkTypes' /\ CartInv /\ WorkTypes /\ CartTypes
  BY TaskInv DEF CountInv, CartInv
<1>2. tasks[t].step # "idle"
  BY DEF TaskStepOf, GetPaymentStatus, MapCancelled, Apply, AcknowledgeStale, NotPayable,
         Restore, TaskDies
<1>3. p \in Charges /\ tasks[t].says \in Says /\ p \in Ids /\ CartOf(p) = c /\ c \in Carts
  BY <1>1, <1>2, TaskFacts
<1>4. Counts /\ (NoStoreCancels => NeverStoreCancelled')
  <2>1. CASE Apply(t)
    <3>1. UpdateCartPaymentStatus(c, p, tasks[t].says)  BY <2>1 DEF Apply
    <3>. QED  BY <1>1, <1>3, <3>1, UpdateCounts, UpdateReasons DEF Counts, CountInv
  <2>2. CASE Restore(t)
    <3>1. RestoreCancelledCartAsPaid(c, p) /\ tasks[t].step = "restore"
      BY <2>2 DEF Restore
    <3>2. p \notin ledger \/ ~Restorable(rows[c])
      BY <1>3, <3>1
      DEF CountedOnce, CountInv, NeverStoreCancelled, RestoresAreFresh, Restorable
    <3>. QED  BY <1>3, <3>1, <3>2, RestoreCounts, RestoreReasons DEF Counts, CountInv
  <2>3. CASE UNCHANGED cartVars
    BY <2>3 DEF Counts, cartVars, CountInv, NeverStoreCancelled
  <2>. QED
    BY <2>1, <2>2, <2>3
    DEF TaskStepOf, GetPaymentStatus, MapCancelled, AcknowledgeStale, NotPayable, TaskDies
<1>5. LoneWorker => RestoresAreFresh'
  <2>1. SUFFICES ASSUME LoneWorker, tasks'[t].step = "restore"
                 PROVE  tasks'[t].charge \notin ledger'
    BY DEF LoneWorker, RestoresAreFresh
  <2>2. NotPayable(t) /\ tasks' = [tasks EXCEPT ![t] = [step |-> "restore", charge |-> p,
                                                       says |-> "paid"]]
    BY <1>1, <2>1
    DEF TaskStepOf, GetPaymentStatus, MapCancelled, Apply, AcknowledgeStale, NotPayable,
        Restore, TaskDies, Task, Finish, Nothing, WorkTypes
  <2>3. p \notin ledger /\ ledger' = ledger
    BY <1>1, <2>1, <2>2 DEF NotPayable, Stale, Recorded, Task, Finish, Nothing, WorkTypes, cartVars
  <2>4. tasks'[t].charge = p  BY <1>1, <2>2 DEF WorkTypes
  <2>. QED  BY <2>3, <2>4
<1>6. IsFiniteSet(ledger') /\ MoneyCountedOnce'
  BY <1>1, <1>4, CountsKeep DEF CountInv
<1>. QED  BY <1>1, <1>4, <1>5, <1>6 DEF CountInv

LEMMA PanelCounts ==
  ASSUME CountInv, NEW c \in Carts, PanelNext(c)
  PROVE  CountInv'
<1>. DEFINE p == Manual(c)
<1>1. CartInv' /\ WorkTypes' /\ CartInv /\ WorkTypes /\ CartTypes
  BY PanelInv DEF CountInv, CartInv
<1>2. p \in Ids /\ CartOf(p) = c /\ p \notin Charges /\ "paid" \in Says
  BY CartOfIds DEF Says
<1>3. /\ UNCHANGED <<ledger, amount>> \/ CountsNew(p)
      /\ NoStoreCancels => NeverStoreCancelled'
  <2>1. CASE UpdateCartPaymentStatus(c, p, "paid")
    BY <1>1, <1>2, <2>1, UpdateCounts, UpdateReasons DEF CountInv
  <2>2. CASE RestoreCancelledCartAsPaid(c, p)
    BY <1>2, <2>2, RestoreCounts, RestoreReasons DEF CountInv
  <2>3. CASE UNCHANGED <<rows, ledger, amount>>
    BY <2>3 DEF CountInv, NeverStoreCancelled
  <2>4. CASE MarkCartRefunded(c)
    <3>1. rows[c] \in Row /\ [rows[c] EXCEPT !.pay = "refunded"] \in Row
      BY <1>1, RowFacts DEF CartTypes
    <3>2. [rows[c] EXCEPT !.pay = "refunded"].reason = rows[c].reason  BY <3>1 DEF Row
    <3>. QED
      BY <1>1, <2>4, <3>1, <3>2, ReasonKept
      DEF MarkCartRefunded, CountInv, NeverStoreCancelled
  <2>. QED
    BY <2>1, <2>2, <2>3, <2>4
    DEF PanelNext, ConfirmManualPayment, ManualWrite, ManualRestore, EmitManualRefund,
        PanelDies, cartVars
<1>4. UNCHANGED tasks
  BY DEF PanelNext, ConfirmManualPayment, ManualWrite, ManualRestore, MarkCartRefunded,
         EmitManualRefund, PanelDies
<1>5. LoneWorker => RestoresAreFresh'
  BY <1>1, <1>2, <1>3, <1>4 DEF CountInv, RestoresAreFresh, CountsNew, WorkTypes
<1>6. IsFiniteSet(ledger') /\ MoneyCountedOnce'
  BY <1>1, <1>2, <1>3, CountsKeep DEF CountInv, Counts
<1>. QED  BY <1>1, <1>3, <1>5, <1>6 DEF CountInv

LEMMA RowCounts ==
  ASSUME CountInv, NEW c \in Carts, RowNext(c)
  PROVE  CountInv'
<1>1. CartInv' /\ WorkTypes' /\ CartInv /\ WorkTypes /\ CartTypes
      /\ rows[c] \in Row
  BY RowInv DEF CountInv, CartInv, CartTypes
<1>2. UNCHANGED <<ledger, amount, tasks>>
  BY DEF RowNext, AddItem, CancelCart, ExpireCart, DeadlinePasses,
         ReopenCancelledCartFromERP, CancelCartOnRefund, WritesRow
<1>3. ASSUME NoStoreCancels PROVE NeverStoreCancelled'
  <2>1. NeverStoreCancelled  BY <1>3 DEF CountInv
  <2>2. ASSUME NEW r \in {ExpiredRow(rows[c]), CancelledRow(rows[c], "refunded"),
                          [rows[c] EXCEPT !.deadline = "due"], ReopenedRow(c, rows[c])},
               WritesRow(c, r)
        PROVE  NeverStoreCancelled'
    <3>1. r \in Row
      <4>1. [rows[c] EXCEPT !.deadline = "due"] \in Row  BY <1>1 DEF Row
      <4>2. ReopenedRow(c, rows[c]) \in Row  BY <1>1, RowFacts
      <4>3. ExpiredRow(rows[c]) \in Row /\ CancelledRow(rows[c], "refunded") \in Row
        BY <1>1, RowFacts
      <4>. QED  BY <2>2, <4>1, <4>2, <4>3
    <3>2. r.reason # "store_cancelled"
      BY <1>1, <2>1 DEF ExpiredRow, CancelledRow, ReopenedRow, Row, NeverStoreCancelled
    <3>. QED  BY <1>1, <2>1, <2>2, <3>1, <3>2, ReasonKept DEF WritesRow
  <2>3. CASE UNCHANGED rows  BY <2>1, <2>3 DEF NeverStoreCancelled
  <2>. QED
    BY <1>3, <2>2, <2>3
    DEF RowNext, AddItem, CancelCart, ExpireCart, DeadlinePasses,
        ReopenCancelledCartFromERP, CancelCartOnRefund, NoStoreCancels
<1>4. LoneWorker => RestoresAreFresh'  BY <1>2 DEF CountInv, RestoresAreFresh
<1>5. IsFiniteSet(ledger') /\ MoneyCountedOnce'
  BY <1>1, <1>2, CountsKeep DEF CountInv, Counts
<1>. QED  BY <1>1, <1>3, <1>4, <1>5 DEF CountInv

\* However often and in whatever order the provider repeats itself, whatever is
\* edited, expires, dies half-way or is paid by hand, each payment enters the
\* coverage of its cart exactly once, unless the store cancels while more than one
\* worker is about (TwoWorkersCountOnce has two).
THEOREM EachChargeCountsOnce ==
  ASSUME CountedOnce
  PROVE  Spec => []MoneyCountedOnce
<1>1. Init => CountInv
  <2>1. SUFFICES ASSUME Init PROVE CountInv  OBVIOUS
  <2>2. CartInv /\ WorkTypes  BY <2>1, InitInv
  <2>3. IsFiniteSet(ledger) /\ MoneyCountedOnce
    <3>1. \A c \in Carts : {p \in ledger : CartOf(p) = c} = {} /\ amount[c] = 0
      BY <2>1 DEF Init
    <3>. QED  BY <2>1, <3>1, FS_EmptySet DEF Init, MoneyCountedOnce
  <2>4. NeverStoreCancelled
    BY <2>1 DEF Init, NewRow, NeverStoreCancelled
  <2>5. RestoresAreFresh  BY <2>1 DEF Init, Nothing, RestoresAreFresh
  <2>. QED  BY <2>2, <2>3, <2>4, <2>5 DEF CountInv
<1>2. CountInv /\ [Next]_vars => CountInv'
  <2>1. SUFFICES ASSUME CountInv, [Next]_vars PROVE CountInv'  OBVIOUS
  <2>2. CASE UNCHANGED vars
    <3>1. CartInv' /\ WorkTypes'  BY <2>1, NextInv DEF CountInv
    <3>. QED
      BY <2>1, <2>2, <3>1
      DEF vars, cartVars, CountInv, MoneyCountedOnce, NeverStoreCancelled, RestoresAreFresh
  <2>. QED
    BY <2>1, <2>2, GatewayCounts, TaskCounts, PanelCounts, RowCounts DEF Next
<1>3. CountInv => MoneyCountedOnce  BY DEF CountInv
<1>. QED  BY <1>1, <1>2, <1>3, PTL DEF Spec

----------------------------------------------------------------------------
(* The sale is paid once.  A charge opened before the cart was paid no      *)
(* longer fits it afterwards: the payment stamps the contents.  So a second *)
(* charge that is taken too was opened after the first payment, and the     *)
(* cart was open to a new charge only because a worker wrote "cancelled"    *)
(* over the payment: some charge of the cart had died.                      *)

Dead(x)   == gateway[x] \in {"cancelled", "voided"}
Killed(c) == \E x \in Charges : ChargedCart[x] = c /\ Dead(x)

CancelledIsDead ==
  \A t \in Tasks :
    tasks[t].step = "read" \/ (tasks[t].step = "mapped" /\ tasks[t].says = "cancelled")
      => Dead(tasks[t].charge)

StampedIsTaken ==
  \A c \in Carts : contents[c].stamped => ~Unsettled(rows[c]) \/ rows[c].review \/ Killed(c)

LedgerStamps ==
  \A p \in ledger : contents[CartOf(p)].stamped \/ (rows[CartOf(p)].review /\ Unfit(p))

FactsStamp == \A p \in Ids : <<"paid", p>> \in facts => contents[CartOf(p)].stamped

QuotesFollow == \A p \in Charges : quote[p].stamped => contents[ChargedCart[p]].stamped

LateQuotesFollowDeath ==
  \A q \in Charges : quote[q].stamped =>
    \E x \in Charges \ {q} : ChargedCart[x] = ChargedCart[q] /\ Dead(x)

SecondIsLate ==
  \A p, q \in Charges :
    p # q /\ ChargedCart[p] = ChargedCart[q] /\ {<<"paid", p>>, <<"paid", q>>} \subseteq facts
      => quote[p].stamped \/ quote[q].stamped

SecondInv ==
  /\ StampedIsTaken /\ LedgerStamps /\ FactsStamp
  /\ QuotesFollow /\ LateQuotesFollowDeath /\ SecondIsLate

\* What every step but the creation of a charge respects.
DeadStays == \A x \in Charges : Dead(x) => Dead(x)'
News      == {p \in Ids : <<"paid", p>> \in facts' \ facts}

Careful ==
  /\ DeadStays /\ quote' = quote
  /\ \A c \in Carts :
       /\ contents[c].stamped => contents'[c].stamped
       /\ rows[c].review => /\ rows'[c].review
                            /\ contents'[c] = contents[c] \/ contents'[c].stamped
       /\ \/ contents'[c].stamped => ~Unsettled(rows'[c]) \/ rows'[c].review \/ Killed(c)
          \/ contents[c].stamped /\ Unsettled(rows[c]) /\ ~rows[c].review
  /\ \A p \in ledger' \ ledger :
       contents'[CartOf(p)].stamped \/ (rows'[CartOf(p)].review /\ Unfit(p)')
  /\ \A p \in News : contents'[CartOf(p)].stamped /\ ~Unfit(p)
  /\ \A p, q \in News : p = q

LEMMA CarefulKeeps ==
  ASSUME CartInv, SecondInv, Careful, ledger' \subseteq Ids
  PROVE  SecondInv'
<1>. USE DEF Careful
<1>1. \A c \in Carts : Killed(c) => Killed(c)'
  BY DEF Killed, DeadStays
<1>2. StampedIsTaken'
  BY <1>1 DEF SecondInv, StampedIsTaken
<1>3. LedgerStamps'
  <2>1. SUFFICES ASSUME NEW p \in ledger'
                 PROVE  (contents[CartOf(p)].stamped \/ (rows[CartOf(p)].review /\ Unfit(p)))'
    BY DEF LedgerStamps
  <2>2. CartOf(p) \in Carts /\ (p \in Charges => CartOf(p) = ChargedCart[p])
    BY <2>1, CartOfIds
  <2>3. CASE p \notin ledger  BY <2>1, <2>3
  <2>4. CASE p \in ledger
    BY <2>2, <2>4 DEF SecondInv, LedgerStamps, Unfit
  <2>. QED  BY <2>3, <2>4
<1>4. FactsStamp'
  BY CartOfIds DEF SecondInv, FactsStamp, News
<1>5. QuotesFollow'
  BY CartOfIds DEF SecondInv, QuotesFollow
<1>6. LateQuotesFollowDeath'
  BY DEF SecondInv, LateQuotesFollowDeath, DeadStays
<1>7. SecondIsLate'
  <2>1. SUFFICES ASSUME NEW p \in Charges, NEW q \in Charges, p # q,
                        ChargedCart[p] = ChargedCart[q],
                        <<"paid", p>> \in facts', <<"paid", q>> \in facts'
                 PROVE  quote[p].stamped \/ quote[q].stamped
    BY DEF SecondIsLate
  <2>2. /\ p \in Ids /\ CartOf(p) = ChargedCart[p]
        /\ q \in Ids /\ CartOf(q) = ChargedCart[q]
    BY CartOfIds
  <2>3. CASE <<"paid", p>> \in facts /\ <<"paid", q>> \in facts
    BY <2>1, <2>3 DEF SecondInv, SecondIsLate
  <2>4. ASSUME NEW a \in {p, q}, NEW b \in {p, q}, a # b,
               <<"paid", a>> \in facts, <<"paid", b>> \notin facts
        PROVE  quote[b].stamped
    <3>1. b \in News /\ ChargedCart[a] = ChargedCart[b]  BY <2>1, <2>2, <2>4 DEF News
    <3>2. quote[b] = contents[ChargedCart[b]]  BY <2>1, <2>4, <3>1 DEF Unfit
    <3>3. contents[ChargedCart[a]].stamped
      BY <2>2, <2>4 DEF SecondInv, FactsStamp
    <3>. QED  BY <3>1, <3>2, <3>3
  <2>5. CASE <<"paid", p>> \notin facts /\ <<"paid", q>> \notin facts
    BY <2>1, <2>2, <2>5 DEF News
  <2>. QED  BY <2>1, <2>3, <2>4, <2>5
<1>. QED  BY <1>2, <1>3, <1>4, <1>5, <1>6, <1>7 DEF SecondInv

\* Steps that leave the cart, the money and the quotes alone.
LEMMA QuietCareful ==
  ASSUME DeadStays, UNCHANGED <<rows, contents, ledger, quote>>,
         \A p : <<"paid", p>> \in facts' => <<"paid", p>> \in facts
  PROVE  Careful
BY DEF Careful, News

\* Steps that only rewrite rows, and neither take a review back nor unsettle a cart.
LEMMA RowCareful ==
  ASSUME CartTypes, NEW c \in Carts, NEW r \in Row, rows' = WriteRow(rows, c, r),
         rows[c].review => r.review,
         Unsettled(r) => Unsettled(rows[c]),
         UNCHANGED <<contents, ledger, facts, gateway, quote>>
  PROVE  Careful
<1>1. rows \in [Carts -> Row]  BY DEF CartTypes
<1>2. rows'[c] = r /\ \A x \in Carts \ {c} : /\ rows'[x].pay = rows[x].pay
                                           /\ rows'[x].review = rows[x].review
  BY <1>1, WriteRowShape
<1>3. \A x \in Carts : /\ rows[x].review => rows'[x].review
                       /\ Unsettled(rows'[x]) => Unsettled(rows[x])
  BY <1>2 DEF Unsettled
<1>. QED  BY <1>3 DEF Careful, News, DeadStays, Dead

LEMMA ReviewCareful ==
  ASSUME CartTypes, NEW p \in Ids, NEW c \in Carts, c = CartOf(p),
         RecordForReview(c, p), Unfit(p), UNCHANGED <<gateway, quote>>
  PROVE  Careful
<1>1. rows \in [Carts -> Row] /\ rows[c] \in Row  BY DEF CartTypes
<1>2. ReviewRow(rows[c]) \in Row  BY <1>1, RowFacts
<1>3. ReviewRow(rows[c]).review  BY <1>1 DEF ReviewRow, Row
<1>4. /\ rows'[c] = ReviewRow(rows[c])
      /\ \A x \in Carts \ {c} : /\ rows'[x].pay = rows[x].pay
                               /\ rows'[x].review = rows[x].review
  BY <1>1, <1>2, WriteRowShape DEF RecordForReview
<1>5. UNCHANGED <<contents, facts>> /\ ledger' = ledger \cup {p} /\ Unfit(p)'
  BY DEF RecordForReview, Unfit
<1>. QED  BY <1>3, <1>4, <1>5 DEF Careful, News, DeadStays, Dead, Unsettled

LEMMA WriteCareful ==
  ASSUME CartTypes, LedgerStamps, NEW p \in Ids, NEW c \in Carts, c = CartOf(p),
         NEW r \in Row, r.review = rows[c].review, NEW says \in Says,
         says = "cancelled" => Killed(c),
         says = "pending" => Unsettled(rows[c]),
         says = "paid" => ~Unfit(p),
         WritePayment(c, p, says, r), UNCHANGED <<gateway, quote>>
  PROVE  Careful
<1>. DEFINE n == PayRow(r, says)
<1>1. /\ n \in Row /\ n.review = rows[c].review
      /\ n.pay = IF says \in {"paid", "refunded"} THEN says ELSE "pending"
  BY PayRowFacts
<1>2. rows \in [Carts -> Row] /\ rows' = WriteRow(rows, c, n)
  BY DEF CartTypes, WritePayment
<1>. HIDE DEF n
<1>3. rows'[c] = n /\ \A x \in Carts \ {c} : /\ rows'[x].pay = rows[x].pay
                                           /\ rows'[x].review = rows[x].review
  BY <1>1, <1>2, WriteRowShape
<1>4. \/ says = "paid" /\ p \notin ledger /\ ledger' = ledger \cup {p}
         /\ contents' = [contents EXCEPT ![c] = Stamped(c)]
      \/ ~(says = "paid" /\ p \notin ledger) /\ UNCHANGED <<ledger, contents>>
  BY DEF WritePayment, Recorded
<1>5. contents[c] \in Contents /\ Stamped(c).stamped
  BY DEF CartTypes, Contents, Stamped
<1>6. says = "paid" => contents'[c].stamped
  BY <1>4, <1>5 DEF LedgerStamps, CartTypes
<1>7. \A x \in Carts : /\ contents[x].stamped => contents'[x].stamped
                       /\ contents'[x] = contents[x] \/ contents'[x].stamped
                       /\ x # c => contents'[x] = contents[x]
  BY <1>4, <1>5 DEF CartTypes
<1>8. says \notin {"paid", "refunded"} => contents'[c] = contents[c]
  BY <1>4
<1>9. ASSUME NEW x \in Carts
      PROVE  /\ rows[x].review => rows'[x].review
             /\ \/ contents'[x].stamped => ~Unsettled(rows'[x]) \/ rows'[x].review \/ Killed(x)
                \/ contents[x].stamped /\ Unsettled(rows[x]) /\ ~rows[x].review
  <2>1. CASE x # c  BY <1>3, <1>7, <2>1 DEF Unsettled
  <2>2. CASE x = c /\ says \in {"paid", "refunded"}
    BY <1>1, <1>3, <2>2 DEF Unsettled, Settled
  <2>3. CASE x = c /\ says \in {"pending", "cancelled"}
    BY <1>1, <1>3, <1>8, <2>3 DEF Unsettled, Settled
  <2>. QED  BY <2>1, <2>2, <2>3 DEF Says
<1>10. \A q \in ledger' \ ledger : contents'[CartOf(q)].stamped
  BY <1>4, <1>6
<1>11. \A q \in News : q = p /\ says = "paid"
  BY DEF News, WritePayment, Fact
<1>12. DeadStays  BY DEF DeadStays, Dead
<1>. QED  BY <1>6, <1>7, <1>9, <1>10, <1>11, <1>12 DEF Careful

\* The two transactions: an unfit payment goes to review, a pending one never
\* unsettles a cart, and a cancellation is written for a dead charge only.
LEMMA UpdateCareful ==
  ASSUME CartInv, LedgerStamps, NEW p \in Ids, NEW c \in Carts, c = CartOf(p),
         NEW says \in Says, says = "cancelled" => Killed(c),
         UpdateCartPaymentStatus(c, p, says), UNCHANGED <<gateway, quote>>
  PROVE  Careful
<1>1. CartTypes /\ rows[c] \in Row  BY DEF CartInv, CartTypes
<1>2. CASE says = "paid" /\ Unfit(p)
  BY <1>1, <1>2, ReviewCareful DEF UpdateCartPaymentStatus
<1>3. CASE ~(says = "paid" /\ Unfit(p))
  <2>1. WritePayment(c, p, says, rows[c])  BY <1>3 DEF UpdateCartPaymentStatus
  <2>2. says = "pending" => Unsettled(rows[c])
    BY DEF UpdateCartPaymentStatus, Stale, Unsettled
  <2>. QED  BY <1>1, <1>3, <2>1, <2>2, WriteCareful
<1>. QED  BY <1>2, <1>3

LEMMA RestoreCareful ==
  ASSUME CartInv, LedgerStamps, NEW p \in Ids, NEW c \in Carts, c = CartOf(p),
         RestoreCancelledCartAsPaid(c, p), UNCHANGED <<gateway, quote>>
  PROVE  Careful
<1>1. CartTypes /\ rows[c] \in Row  BY DEF CartInv, CartTypes
<1>2. CASE UNCHANGED cartVars
  BY <1>2, QuietCareful DEF cartVars, DeadStays, Dead
<1>3. CASE Unfit(p) /\ RecordForReview(c, p)
  BY <1>1, <1>3, ReviewCareful
<1>4. CASE ~Unfit(p) /\ WritePayment(c, p, "paid", RestoredRow(rows[c]))
  <2>1. RestoredRow(rows[c]) \in Row  BY <1>1, RowFacts
  <2>2. RestoredRow(rows[c]).review = rows[c].review  BY <1>1 DEF RestoredRow, PaidRow, Row
  <2>3. "paid" \in Says  BY DEF Says
  <2>. QED  BY <1>1, <1>4, <2>1, <2>2, <2>3, WriteCareful
<1>. QED  BY <1>2, <1>3, <1>4 DEF RestoreCancelledCartAsPaid

SaleInv == CartInv /\ WorkTypes /\ CancelledIsDead /\ SecondInv

\* A dead charge stays dead, and what a worker takes for a cancellation is the
\* report of a dead charge.
LEMMA GatewayDead ==
  ASSUME SaleInv, NEW p \in Charges,
         GatewayNext(p) \/ \E t \in Tasks : DispatchPaymentProcess(t, p)
  PROVE  DeadStays /\ CancelledIsDead'
<1>1. DeadStays
  BY DEF GatewayNext, CreatePaymentAttempt, UpdateCheckoutInfo, GatewayMoves, Moves,
         DispatchPaymentProcess, DeadStays, Dead, SaleInv, WorkTypes
<1>2. \A t \in Tasks : tasks'[t] = tasks[t] \/ tasks'[t].step = "queued"
  BY DEF GatewayNext, CreatePaymentAttempt, UpdateCheckoutInfo, GatewayMoves,
         DispatchPaymentProcess, Task, SaleInv, WorkTypes
<1>3. \A t \in Tasks : tasks[t].step # "idle" => tasks[t].charge \in Charges
  BY DEF SaleInv, WorkTypes
<1>4. ASSUME NEW t \in Tasks,
             \/ tasks'[t].step = "read"
             \/ tasks'[t].step = "mapped" /\ tasks'[t].says = "cancelled"
      PROVE  Dead(tasks[t].charge)'
  <2>1. tasks'[t] = tasks[t]  BY <1>2, <1>4
  <2>2. Dead(tasks[t].charge)  BY <1>4, <2>1 DEF SaleInv, CancelledIsDead
  <2>3. tasks[t].charge \in Charges  BY <1>3, <1>4, <2>1
  <2>. QED  BY <1>1, <2>1, <2>2, <2>3 DEF DeadStays, Dead
<1>. QED  BY <1>1, <1>4 DEF CancelledIsDead

LEMMA TaskDead ==
  ASSUME SaleInv, NEW t \in Tasks, TaskStepOf(t) \/ TaskDies(t)
  PROVE  DeadStays /\ UNCHANGED <<gateway, quote>> /\ CancelledIsDead'
<1>1. UNCHANGED <<gateway, quote>>
  BY DEF TaskStepOf, GetPaymentStatus, MapCancelled, Apply, AcknowledgeStale, NotPayable,
         Restore, TaskDies, payVars
<1>2. DeadStays  BY <1>1 DEF DeadStays, Dead
<1>3. tasks \in [Tasks -> [step : TaskStep, charge : Charges \cup {None}, says : Says]]
  BY DEF SaleInv, WorkTypes
<1>4. \A u \in Tasks \ {t} : tasks'[u] = tasks[u]
  BY <1>3
  DEF TaskStepOf, GetPaymentStatus, MapCancelled, Apply, AcknowledgeStale, NotPayable,
      Restore, TaskDies, Task, Finish
<1>5. ASSUME \/ tasks'[t].step = "read"
             \/ tasks'[t].step = "mapped" /\ tasks'[t].says = "cancelled"
      PROVE  tasks'[t].charge = tasks[t].charge /\ Dead(tasks[t].charge)
  <2>1. CASE GetPaymentStatus(t)
    <3>1. tasks'[t].charge = tasks[t].charge /\ tasks'[t].says = Report(tasks[t].charge)
      BY <1>3, <2>1 DEF GetPaymentStatus, Task
    <3>2. Report(tasks[t].charge) = "cancelled"
      BY <1>3, <1>5, <2>1 DEF GetPaymentStatus, Task
    <3>. QED  BY <3>1, <3>2 DEF Report, Dead
  <2>2. CASE MapCancelled(t)
    BY <1>3, <2>2 DEF MapCancelled, Task, SaleInv, CancelledIsDead
  <2>3. CASE ~GetPaymentStatus(t) /\ ~MapCancelled(t)
    <3>1. tasks'[t].step \in {"idle", "restore", "queued"}
      BY <1>3, <2>3
      DEF TaskStepOf, Apply, AcknowledgeStale, NotPayable, Restore, TaskDies, Task, Finish,
          Nothing
    <3>. QED  BY <1>5, <3>1
  <2>. QED  BY <2>1, <2>2, <2>3
<1>. QED
  BY <1>1, <1>2, <1>4, <1>5 DEF CancelledIsDead, Dead, SaleInv

LEMMA TaskSecond ==
  ASSUME SaleInv, NEW t \in Tasks, TaskStepOf(t) \/ TaskDies(t)
  PROVE  SecondInv'
<1>. DEFINE p == tasks[t].charge
            c == ChargedCart[p]
<1>1. CartInv /\ WorkTypes /\ LedgerStamps /\ SecondInv  BY DEF SaleInv, SecondInv
<1>2. ledger' \subseteq Ids  BY <1>1, TaskInv DEF CartInv, CartTypes
<1>3. DeadStays /\ UNCHANGED <<gateway, quote>>  BY TaskDead
<1>4. tasks[t].step # "idle"
  BY DEF TaskStepOf, GetPaymentStatus, MapCancelled, Apply, AcknowledgeStale, NotPayable,
         Restore, TaskDies
<1>5. p \in Charges /\ tasks[t].says \in Says /\ p \in Ids /\ CartOf(p) = c /\ c \in Carts
  BY <1>1, <1>4, TaskFacts
<1>6. Careful
  <2>1. CASE Apply(t)
    <3>1. UpdateCartPaymentStatus(c, p, tasks[t].says)  BY <2>1 DEF Apply
    <3>2. tasks[t].says = "cancelled" => Killed(c)
      BY <1>5, <2>1 DEF Apply, SaleInv, CancelledIsDead, Killed
    <3>. QED  BY <1>1, <1>3, <1>5, <3>1, <3>2, UpdateCareful
  <2>2. CASE Restore(t)
    <3>1. RestoreCancelledCartAsPaid(c, p)  BY <2>2 DEF Restore
    <3>. QED  BY <1>1, <1>3, <1>5, <3>1, RestoreCareful
  <2>3. CASE UNCHANGED cartVars
    BY <1>3, <2>3, QuietCareful DEF cartVars
  <2>. QED
    BY <2>1, <2>2, <2>3
    DEF TaskStepOf, GetPaymentStatus, MapCancelled, AcknowledgeStale, NotPayable, TaskDies
<1>. QED  BY <1>1, <1>2, <1>6, CarefulKeeps

LEMMA PanelSecond ==
  ASSUME SaleInv, NEW c \in Carts, PanelNext(c)
  PROVE  CancelledIsDead' /\ SecondInv'
<1>1. CartInv /\ WorkTypes /\ LedgerStamps /\ SecondInv /\ CartTypes
  BY DEF SaleInv, SecondInv, CartInv
<1>2. UNCHANGED <<gateway, quote, tasks>>
  BY DEF PanelNext, ConfirmManualPayment, ManualWrite, ManualRestore, MarkCartRefunded,
         EmitManualRefund, PanelDies, payVars
<1>3. CancelledIsDead'  BY <1>2 DEF SaleInv, CancelledIsDead, Dead
<1>4. ledger' \subseteq Ids  BY <1>1, PanelInv DEF CartInv, CartTypes
<1>5. Manual(c) \in Ids /\ CartOf(Manual(c)) = c /\ rows[c] \in Row
  BY <1>1, CartOfIds DEF CartTypes
<1>6. Careful
  <2>1. CASE ConfirmManualPayment(c) \/ PanelDies(c) \/ UNCHANGED cartVars
    BY <1>2, <2>1, QuietCareful DEF ConfirmManualPayment, PanelDies, cartVars, DeadStays, Dead
  <2>2. CASE UpdateCartPaymentStatus(c, Manual(c), "paid")
    <3>1. "paid" \in Says  BY DEF Says
    <3>. QED  BY <1>1, <1>2, <1>5, <2>2, <3>1, UpdateCareful
  <2>3. CASE RestoreCancelledCartAsPaid(c, Manual(c))
    BY <1>1, <1>2, <1>5, <2>3, RestoreCareful
  <2>4. CASE MarkCartRefunded(c)
    <3>. DEFINE r == [rows[c] EXCEPT !.pay = "refunded"]
    <3>1. r \in Row  BY <1>5, RowFacts
    <3>2. r.review = rows[c].review /\ ~Unsettled(r)  BY <1>5 DEF Row, Unsettled, Settled
    <3>3. rows' = WriteRow(rows, c, r) /\ UNCHANGED <<contents, ledger, facts>>
      BY <2>4 DEF MarkCartRefunded
    <3>. HIDE DEF r
    <3>. QED  BY <1>1, <1>2, <3>1, <3>2, <3>3, RowCareful
  <2>5. CASE EmitManualRefund(c)
    <3>1. DeadStays  BY <1>2 DEF DeadStays, Dead
    <3>2. \A p : <<"paid", p>> \in facts' => <<"paid", p>> \in facts
      BY <2>5 DEF EmitManualRefund
    <3>. QED  BY <1>2, <2>5, <3>1, <3>2, QuietCareful DEF EmitManualRefund
  <2>. QED
    BY <2>1, <2>2, <2>3, <2>4, <2>5 DEF PanelNext, ManualWrite, ManualRestore
<1>. QED  BY <1>1, <1>3, <1>4, <1>6, CarefulKeeps

LEMMA RowSecond ==
  ASSUME SaleInv, NEW c \in Carts, RowNext(c)
  PROVE  CancelledIsDead' /\ SecondInv'
<1>1. CartInv /\ WorkTypes /\ SecondInv /\ CartTypes /\ rows[c] \in Row
  BY DEF SaleInv, SecondInv, CartInv, CartTypes
<1>2. UNCHANGED <<gateway, quote, tasks, ledger, facts>>
  BY DEF RowNext, AddItem, CancelCart, ExpireCart, DeadlinePasses,
         ReopenCancelledCartFromERP, CancelCartOnRefund, WritesRow, payVars
<1>3. CancelledIsDead'  BY <1>2 DEF SaleInv, CancelledIsDead, Dead
<1>4. ledger' \subseteq Ids  BY <1>1, <1>2 DEF CartTypes
<1>5. ASSUME NEW r \in {ExpiredRow(rows[c]), CancelledRow(rows[c], "store_cancelled"),
                        CancelledRow(rows[c], "refunded"),
                        [rows[c] EXCEPT !.deadline = "due"], ReopenedRow(c, rows[c])},
             WritesRow(c, r)
      PROVE  Careful
  <2>1. r \in Row
    <3>1. [rows[c] EXCEPT !.deadline = "due"] \in Row  BY <1>1 DEF Row
    <3>2. ReopenedRow(c, rows[c]) \in Row  BY <1>1, RowFacts
    <3>3. ExpiredRow(rows[c]) \in Row /\ CancelledRow(rows[c], "refunded") \in Row
          /\ CancelledRow(rows[c], "store_cancelled") \in Row
      BY <1>1, RowFacts
    <3>. QED  BY <1>5, <3>1, <3>2, <3>3
  <2>2. r.review = rows[c].review /\ r.pay = rows[c].pay
    BY <1>1, <1>5 DEF ExpiredRow, CancelledRow, ReopenedRow, Row
  <2>3. rows' = WriteRow(rows, c, r) /\ UNCHANGED contents  BY <1>5 DEF WritesRow
  <2>. QED  BY <1>1, <1>2, <2>1, <2>2, <2>3, RowCareful DEF Unsettled
<1>6. ASSUME AddItem(c) PROVE Careful
  <2>1. contents' \in [Carts -> Contents] /\ ~rows[c].review /\ UNCHANGED rows
    BY <1>1, <1>6, RowInv DEF AddItem, Admits, CartInv, CartTypes
  <2>2. \A x \in Carts : /\ contents'[x].stamped = contents[x].stamped
                         /\ x # c => contents'[x] = contents[x]
    BY <1>1, <1>6 DEF AddItem, CartTypes, Contents
  <2>3. StampedIsTaken  BY <1>1 DEF SecondInv
  <2>. QED  BY <1>2, <2>1, <2>2, <2>3 DEF Careful, News, DeadStays, Dead, StampedIsTaken
<1>7. Careful
  BY <1>5, <1>6
  DEF RowNext, CancelCart, ExpireCart, DeadlinePasses, ReopenCancelledCartFromERP,
      CancelCartOnRefund
<1>. QED  BY <1>1, <1>3, <1>4, <1>7, CarefulKeeps

\* A charge is opened on an open cart: if the cart was paid once, it was killed.
LEMMA GatewaySecond ==
  ASSUME SaleInv, NEW p \in Charges,
         GatewayNext(p) \/ \E t \in Tasks : DispatchPaymentProcess(t, p)
  PROVE  SecondInv'
<1>1. CartInv /\ WorkTypes /\ SecondInv /\ CartTypes
  BY DEF SaleInv, SecondInv, CartInv
<1>2. DeadStays  BY GatewayDead
<1>3. UNCHANGED <<rows, contents, ledger, facts>>
  BY DEF GatewayNext, CreatePaymentAttempt, UpdateCheckoutInfo, GatewayMoves,
         DispatchPaymentProcess, cartVars
<1>4. ledger' \subseteq Ids  BY <1>1, <1>3 DEF CartTypes
<1>5. CASE UNCHANGED quote
  <2>1. Careful  BY <1>2, <1>3, <1>5, QuietCareful
  <2>. QED  BY <1>1, <1>4, <2>1, CarefulKeeps
<1>6. CASE CreatePaymentAttempt(p)
  <2>. DEFINE c == ChargedCart[p]
  <2>1. c \in Carts  BY CartOfIds
  <2>2. quote' = [quote EXCEPT ![p] = contents[c]] /\ quote \in [Charges -> Contents]
    BY <1>1, <1>6 DEF CreatePaymentAttempt, WorkTypes
  <2>3. gateway[p] = "none" /\ Unsettled(rows[c]) /\ ~rows[c].review
    BY <1>6 DEF CreatePaymentAttempt, Chargeable
  <2>4. \A x \in Carts : Killed(x) => Killed(x)'  BY <1>2 DEF Killed, DeadStays
  <2>5. StampedIsTaken' /\ FactsStamp'
    BY <1>1, <1>3, <2>4 DEF SecondInv, StampedIsTaken, FactsStamp
  <2>6. LedgerStamps'
    <3>1. \A q \in ledger : CartOf(q) = c => contents[c].stamped
      BY <1>1, <2>3 DEF SecondInv, LedgerStamps
    <3>2. ASSUME NEW q \in ledger', ~contents'[CartOf(q)].stamped
          PROVE  rows'[CartOf(q)].review /\ Unfit(q)'
      <4>1. q \in ledger /\ rows[CartOf(q)].review /\ Unfit(q)
        BY <1>1, <1>3, <3>2 DEF SecondInv, LedgerStamps
      <4>2. q # p
        BY <1>3, <3>1, <3>2, <4>1, CartOfIds
      <4>. QED  BY <1>3, <2>2, <4>1, <4>2 DEF Unfit
    <3>. QED  BY <3>2 DEF LedgerStamps
  <2>7. \A q \in Charges : quote'[q] = IF q = p THEN contents[c] ELSE quote[q]
    BY <2>2
  <2>8. QuotesFollow'
    BY <1>1, <1>3, <2>7 DEF SecondInv, QuotesFollow
  <2>9. LateQuotesFollowDeath'
    <3>1. contents[c].stamped => Killed(c)
      BY <1>1, <2>1, <2>3 DEF SecondInv, StampedIsTaken
    <3>2. ~Dead(p)  BY <2>3 DEF Dead
    <3>3. contents[c].stamped => \E x \in Charges \ {p} : ChargedCart[x] = c /\ Dead(x)'
      BY <1>2, <3>1, <3>2 DEF Killed, DeadStays
    <3>4. \A q \in Charges : quote[q].stamped =>
            \E x \in Charges \ {q} : ChargedCart[x] = ChargedCart[q] /\ Dead(x)'
      BY <1>1, <1>2 DEF SecondInv, LateQuotesFollowDeath, DeadStays
    <3>. QED  BY <2>7, <3>3, <3>4 DEF LateQuotesFollowDeath
  <2>10. \A q \in Charges : quote[q].stamped => quote'[q].stamped
    BY <1>1, <2>7 DEF SecondInv, QuotesFollow
  <2>11. SecondIsLate'
    BY <1>1, <1>3, <2>10 DEF SecondInv, SecondIsLate
  <2>. QED  BY <2>5, <2>6, <2>8, <2>9, <2>11 DEF SecondInv
<1>. QED
  BY <1>5, <1>6 DEF GatewayNext, UpdateCheckoutInfo, GatewayMoves, DispatchPaymentProcess

LEMMA SaleInductive == Spec => []SaleInv
<1>1. Init => SaleInv
  <2>1. SUFFICES ASSUME Init PROVE SaleInv  OBVIOUS
  <2>2. CartInv /\ WorkTypes  BY <2>1, InitInv
  <2>3. \A t \in Tasks : tasks[t].step = "idle"  BY <2>1 DEF Init, Nothing
  <2>4. \A c \in Carts : ~contents[c].stamped  BY <2>1 DEF Init
  <2>5. \A p \in Charges : ~quote[p].stamped
    <3>1. quote = [p \in Charges |-> contents[ChargedCart[p]]]  BY <2>1 DEF Init
    <3>. QED  BY <2>4, <3>1, CartOfIds
  <2>6. ledger = {} /\ facts = {}  BY <2>1 DEF Init
  <2>. QED
    BY <2>2, <2>3, <2>4, <2>5, <2>6
    DEF SaleInv, CancelledIsDead, SecondInv, StampedIsTaken, LedgerStamps, FactsStamp,
        QuotesFollow, LateQuotesFollowDeath, SecondIsLate
<1>2. SaleInv /\ [Next]_vars => SaleInv'
  <2>1. SUFFICES ASSUME SaleInv, [Next]_vars PROVE SaleInv'  OBVIOUS
  <2>2. CartInv' /\ WorkTypes'  BY <2>1, NextInv DEF SaleInv
  <2>3. CancelledIsDead' /\ SecondInv'
    <3>1. CASE UNCHANGED vars
      <4>1. Careful  BY <3>1, QuietCareful DEF vars, cartVars, payVars, DeadStays, Dead
      <4>2. ledger' \subseteq Ids  BY <2>2 DEF CartInv, CartTypes
      <4>3. CancelledIsDead'
        BY <2>1, <3>1 DEF vars, payVars, SaleInv, CancelledIsDead, Dead
      <4>. QED  BY <2>1, <4>1, <4>2, <4>3, CarefulKeeps DEF SaleInv
    <3>2. CASE \E p \in Charges : GatewayNext(p) \/ \E t \in Tasks : DispatchPaymentProcess(t, p)
      BY <2>1, <3>2, GatewayDead, GatewaySecond
    <3>3. CASE \E t \in Tasks : TaskStepOf(t) \/ TaskDies(t)
      BY <2>1, <3>3, TaskDead, TaskSecond
    <3>4. CASE \E c \in Carts : PanelNext(c)
      BY <2>1, <3>4, PanelSecond
    <3>5. CASE \E c \in Carts : RowNext(c)
      BY <2>1, <3>5, RowSecond
    <3>. QED  BY <2>1, <3>1, <3>2, <3>3, <3>4, <3>5 DEF Next
  <2>. QED  BY <2>2, <2>3 DEF SaleInv
<1>. QED  BY <1>1, <1>2, PTL DEF Spec

\* A second charge of a cart is taken for its payment only after another charge of
\* the cart died.
SecondPaymentNeedsADeath ==
  \A p, q \in Charges :
    p # q /\ ChargedCart[p] = ChargedCart[q] /\ {<<"paid", p>>, <<"paid", q>>} \subseteq facts
      => Killed(ChargedCart[p])

\* Nothing but the death of a charge lets a second payment in, for any number of
\* charges, workers and crashes and whoever else writes the cart.
THEOREM NoSecondPaymentUnprovoked == Spec => []SecondPaymentNeedsADeath
<1>1. SaleInv => SecondPaymentNeedsADeath
  BY DEF SaleInv, SecondInv, SecondIsLate, LateQuotesFollowDeath, SecondPaymentNeedsADeath,
         Killed
<1>. QED  BY <1>1, SaleInductive, PTL

AtMostTwoCharges ==
  \A p, q, x \in Charges :
    ChargedCart[p] = ChargedCart[q] /\ ChargedCart[x] = ChargedCart[p]
      => p = q \/ x = p \/ x = q

\* With at most two charges to a cart, the one that died is one of the two: never
\* do both hold the money of one sale.  A third charge breaks it.
THEOREM TwoChargesPayOnce ==
  ASSUME AtMostTwoCharges
  PROVE  Spec => []SaleIsPaidOnce
<1>1. SecondPaymentNeedsADeath => SaleIsPaidOnce
  BY DEF SecondPaymentNeedsADeath, SaleIsPaidOnce, AtMostTwoCharges, Killed, Dead
<1>. QED  BY <1>1, NoSecondPaymentUnprovoked, PTL

----------------------------------------------------------------------------
(* No approved charge is forgotten.  From the approval on, its notification *)
(* is still to be sent, in the hands of a worker, or applied; and a worker  *)
(* that turned to the restoration finds a cart that can be restored or that *)
(* refuses the money for good.  Whoever takes the cart out of its           *)
(* cancellation in between - the ERP, the panel, a second charge in the     *)
(* hands of a second worker - makes the restoration do nothing.             *)

OneChargeEach == \A p, q \in Charges : ChargedCart[p] = ChargedCart[q] => p = q

NoRivals ==
  /\ "erp" \notin Actors /\ "manual" \notin Actors
  /\ LoneWorker \/ OneChargeEach

InHand(t, p) ==
  /\ tasks[t].charge = p
  /\ \/ tasks[t].step = "queued"
     \/ tasks[t].step \in {"mapped", "restore"} /\ tasks[t].says = "paid"

Handled(p) ==
  \/ p \in ledger \/ Refuses(rows[ChargedCart[p]]) \/ p \in news
  \/ \E t \in Tasks : InHand(t, p)

PanelIsIdle == \A c \in Carts : panel[c] = "idle"

TerminatedIsClear ==
  \A c \in Carts : rows[c].status \in Terminated => Restorable(rows[c]) \/ Refuses(rows[c])

RestoresAreOwed ==
  \A t \in Tasks : tasks[t].step = "restore" =>
    /\ tasks[t].says = "paid"
    /\ tasks[t].charge \in ledger \/ rows[ChargedCart[tasks[t].charge]].status \in Terminated

ApprovedIsHandled == \A p \in Charges : gateway[p] = "approved" => Handled(p)

LossInv ==
  /\ CartInv /\ WorkTypes
  /\ PanelIsIdle /\ TerminatedIsClear /\ RestoresAreOwed /\ ApprovedIsHandled

\* What every step keeps of the carts and the money.
CartsKeep ==
  /\ ledger \subseteq ledger'
  /\ \A c \in Carts : Refuses(rows[c]) => Refuses(rows'[c])
  /\ TerminatedIsClear'
StayTerminated(S) ==
  \A c \in S : rows[c].status \in Terminated => rows'[c].status \in Terminated

LEMMA QuietKeeps ==
  ASSUME TerminatedIsClear, UNCHANGED <<rows, ledger>>
  PROVE  CartsKeep /\ StayTerminated(Carts)
BY DEF CartsKeep, StayTerminated, TerminatedIsClear

LEMMA WriteKeeps ==
  ASSUME CartTypes, TerminatedIsClear, NEW c \in Carts, NEW r \in Row,
         rows' = WriteRow(rows, c, r), ledger \subseteq ledger',
         Refuses(rows[c]) => Refuses(r),
         r.status \in Terminated => Restorable(r) \/ Refuses(r)
  PROVE  /\ CartsKeep
         /\ StayTerminated(Carts \ {c})
         /\ (rows[c].status \in Terminated => r.status \in Terminated) => StayTerminated(Carts)
<1>1. rows \in [Carts -> Row]  BY DEF CartTypes
<1>2. /\ rows'[c] = r
      /\ \A x \in Carts \ {c} : /\ rows'[x].status = rows[x].status
                               /\ rows'[x].reason = rows[x].reason
                               /\ rows'[x].pay = rows[x].pay
  BY <1>1, WriteRowShape
<1>3. \A x \in Carts : Refuses(rows[x]) => Refuses(rows'[x])
  BY <1>2 DEF Refuses
<1>4. TerminatedIsClear'
  BY <1>2 DEF TerminatedIsClear, Refuses, Restorable, Unsettled
<1>. QED  BY <1>2, <1>3, <1>4 DEF CartsKeep, StayTerminated

LEMMA ReviewKeeps ==
  ASSUME CartTypes, TerminatedIsClear, NEW c \in Carts, NEW p, RecordForReview(c, p)
  PROVE  CartsKeep /\ StayTerminated(Carts)
<1>. DEFINE r == ReviewRow(rows[c])
<1>1. rows[c] \in Row  BY DEF CartTypes
<1>2. r \in Row  BY <1>1, RowFacts
<1>3. r.status = rows[c].status /\ r.reason = rows[c].reason /\ r.pay = "pending"
  BY <1>1 DEF ReviewRow, Row
<1>4. rows' = WriteRow(rows, c, r) /\ ledger \subseteq ledger'  BY DEF RecordForReview
<1>. HIDE DEF r
<1>5. Refuses(rows[c]) => Refuses(r)  BY <1>3 DEF Refuses
<1>6. r.status \in Terminated => Restorable(r) \/ Refuses(r)
  BY <1>3 DEF Refuses, Restorable, Unsettled, Settled, Terminated
<1>. QED  BY <1>2, <1>3, <1>4, <1>5, <1>6, WriteKeeps

LEMMA UpdateKeeps ==
  ASSUME CartTypes, TerminatedIsClear, NEW c \in Carts, NEW p, NEW says \in Says,
         UpdateCartPaymentStatus(c, p, says)
  PROVE  CartsKeep /\ StayTerminated(Carts)
<1>1. CASE RecordForReview(c, p)  BY <1>1, ReviewKeeps
<1>2. CASE ~(says = "paid" /\ Unfit(p)) /\ WritePayment(c, p, says, rows[c])
  <2>. DEFINE r == PayRow(rows[c], says)
  <2>1. rows[c] \in Row /\ rows[c].status \notin Terminated
    BY <1>2 DEF CartTypes, UpdateCartPaymentStatus, CanWrite, Payable
  <2>2. r \in Row /\ r.status = rows[c].status  BY <2>1, PayRowFacts
  <2>3. rows' = WriteRow(rows, c, r) /\ ledger \subseteq ledger'
    BY <1>2 DEF WritePayment
  <2>. HIDE DEF r
  <2>4. ~Refuses(rows[c])  BY <2>1 DEF Refuses, Terminated
  <2>. QED  BY <2>1, <2>2, <2>3, <2>4, WriteKeeps
<1>. QED  BY <1>1, <1>2 DEF UpdateCartPaymentStatus

\* The restoration takes a cart out of its cancellation, and then the charge is
\* in the ledger; or the cart refuses the charge.
LEMMA RestoreKeeps ==
  ASSUME CartTypes, TerminatedIsClear, NEW c \in Carts, NEW p,
         RestoreCancelledCartAsPaid(c, p)
  PROVE  /\ CartsKeep /\ StayTerminated(Carts \ {c})
         /\ p \in ledger' \/ StayTerminated({c})
         /\ rows[c].status \in Terminated => p \in ledger' \/ Refuses(rows[c])
<1>1. CASE ~Restorable(rows[c])
  <2>1. UNCHANGED cartVars  BY <1>1 DEF RestoreCancelledCartAsPaid
  <2>2. CartsKeep /\ StayTerminated(Carts)  BY <2>1, QuietKeeps DEF cartVars
  <2>. QED  BY <1>1, <2>2 DEF StayTerminated, TerminatedIsClear
<1>2. CASE Restorable(rows[c]) /\ RecordForReview(c, p)
  <2>1. CartsKeep /\ StayTerminated(Carts)  BY <1>2, ReviewKeeps
  <2>2. p \in ledger'  BY <1>2 DEF RecordForReview
  <2>. QED  BY <2>1, <2>2 DEF StayTerminated
<1>3. CASE Restorable(rows[c]) /\ WritePayment(c, p, "paid", RestoredRow(rows[c]))
  <2>. DEFINE r == PayRow(RestoredRow(rows[c]), "paid")
  <2>1. rows[c] \in Row  BY DEF CartTypes
  <2>2. RestoredRow(rows[c]) \in Row  BY <2>1, RowFacts
  <2>3. RestoredRow(rows[c]).status = "checkout"  BY <2>1 DEF RestoredRow, PaidRow, Row
  <2>4. "paid" \in Says  BY DEF Says
  <2>5. r \in Row /\ r.status = "checkout"  BY <2>2, <2>3, <2>4, PayRowFacts
  <2>6. rows' = WriteRow(rows, c, r) /\ ledger \subseteq ledger' /\ p \in ledger'
    BY <1>3 DEF WritePayment, Recorded
  <2>. HIDE DEF r
  <2>7. ~Refuses(rows[c])  BY <1>3 DEF Refuses, Restorable
  <2>8. r.status \notin Terminated  BY <2>5 DEF Terminated
  <2>. QED  BY <2>5, <2>6, <2>7, <2>8, WriteKeeps
<1>. QED  BY <1>1, <1>2, <1>3 DEF RestoreCancelledCartAsPaid

\* The rest of the invariant for a step that leaves the workers alone.
LEMMA IdleWorkersKeep ==
  ASSUME LossInv, CartsKeep, StayTerminated(Carts), UNCHANGED <<tasks, news>>,
         \A p \in Charges : gateway'[p] = "approved" => gateway[p] = "approved"
  PROVE  RestoresAreOwed' /\ ApprovedIsHandled'
<1>1. \A p \in Charges : ChargedCart[p] \in Carts  BY CartOfIds
<1>2. RestoresAreOwed'
  <2>1. \A t \in Tasks : tasks[t].step = "restore" => tasks[t].charge \in Charges
    BY DEF LossInv, WorkTypes
  <2>. QED  BY <1>1, <2>1 DEF LossInv, RestoresAreOwed, CartsKeep, StayTerminated
<1>3. ApprovedIsHandled'
  BY <1>1 DEF LossInv, ApprovedIsHandled, Handled, InHand, CartsKeep
<1>. QED  BY <1>2, <1>3

LEMMA RowKeeps ==
  ASSUME "erp" \notin Actors, CartTypes, TerminatedIsClear, NEW c \in Carts, RowNext(c)
  PROVE  CartsKeep /\ StayTerminated(Carts)
<1>1. CartTypes /\ TerminatedIsClear /\ rows[c] \in Row
  BY DEF CartTypes
<1>2. UNCHANGED ledger
  BY DEF RowNext, AddItem, CancelCart, ExpireCart, DeadlinePasses,
         ReopenCancelledCartFromERP, CancelCartOnRefund, WritesRow
<1>3. ASSUME NEW r \in Row, WritesRow(c, r), Refuses(rows[c]) => Refuses(r),
             r.status \in Terminated => Restorable(r) \/ Refuses(r),
             rows[c].status \in Terminated => r.status \in Terminated
      PROVE  CartsKeep /\ StayTerminated(Carts)
  <2>1. rows' = WriteRow(rows, c, r) /\ ledger \subseteq ledger'
    BY <1>2, <1>3 DEF WritesRow
  <2>. QED  BY <1>1, <1>3, <2>1, WriteKeeps
<1>4. ASSUME CancelCart(c) PROVE CartsKeep /\ StayTerminated(Carts)
  <2>. DEFINE r == CancelledRow(rows[c], "store_cancelled")
  <2>1. r \in Row  BY <1>1, RowFacts
  <2>2. r.status = "cancelled" /\ r.reason = "store_cancelled" /\ r.pay = rows[c].pay
    BY <1>1 DEF CancelledRow, Row
  <2>3. WritesRow(c, r) /\ Unsettled(rows[c]) /\ rows[c].status \in Open
    BY <1>4 DEF CancelCart, StoreCancellable
  <2>. HIDE DEF r
  <2>4. ~Refuses(rows[c])  BY <2>3 DEF Refuses, Open
  <2>5. Restorable(r)  BY <2>2, <2>3 DEF Restorable, Unsettled
  <2>. QED  BY <1>3, <2>1, <2>2, <2>3, <2>4, <2>5 DEF Terminated
<1>5. ASSUME ExpireCart(c) PROVE CartsKeep /\ StayTerminated(Carts)
  <2>. DEFINE r == ExpiredRow(rows[c])
  <2>1. r \in Row  BY <1>1, RowFacts
  <2>2. r.status = "expired"  BY <1>1 DEF ExpiredRow, Row
  <2>3. WritesRow(c, r)  BY <1>5 DEF ExpireCart
  <2>. HIDE DEF r
  <2>4. Refuses(r) /\ r.status \in Terminated  BY <2>2 DEF Refuses, Terminated
  <2>. QED  BY <1>3, <2>1, <2>3, <2>4
<1>6. ASSUME DeadlinePasses(c) PROVE CartsKeep /\ StayTerminated(Carts)
  <2>. DEFINE r == [rows[c] EXCEPT !.deadline = "due"]
  <2>1. /\ r \in Row /\ r.status = rows[c].status
        /\ r.reason = rows[c].reason /\ r.pay = rows[c].pay
    BY <1>1 DEF Row
  <2>2. WritesRow(c, r)  BY <1>6 DEF DeadlinePasses
  <2>. HIDE DEF r
  <2>3. /\ Refuses(rows[c]) <=> Refuses(r)
        /\ Restorable(rows[c]) <=> Restorable(r)
    BY <2>1 DEF Refuses, Restorable, Unsettled
  <2>. QED  BY <1>1, <1>3, <2>1, <2>2, <2>3 DEF TerminatedIsClear
<1>7. ASSUME CancelCartOnRefund(c) PROVE CartsKeep /\ StayTerminated(Carts)
  <2>. DEFINE r == CancelledRow(rows[c], "refunded")
  <2>1. r \in Row  BY <1>1, RowFacts
  <2>2. r.status = "cancelled" /\ r.reason = "refunded"  BY <1>1 DEF CancelledRow, Row
  <2>3. WritesRow(c, r)  BY <1>7 DEF CancelCartOnRefund
  <2>. HIDE DEF r
  <2>4. Refuses(r) /\ r.status \in Terminated  BY <2>2 DEF Refuses, Terminated
  <2>. QED  BY <1>3, <2>1, <2>3, <2>4
<1>8. ASSUME AddItem(c) PROVE CartsKeep /\ StayTerminated(Carts)
  BY <1>1, <1>2, <1>8, QuietKeeps DEF AddItem
<1>. QED
  BY <1>4, <1>5, <1>6, <1>7, <1>8 DEF RowNext, ReopenCancelledCartFromERP

LEMMA RowLoss ==
  ASSUME NoRivals, LossInv, NEW c \in Carts, RowNext(c)
  PROVE  PanelIsIdle' /\ TerminatedIsClear' /\ RestoresAreOwed' /\ ApprovedIsHandled'
<1>1. CartsKeep /\ StayTerminated(Carts)
  BY RowKeeps DEF NoRivals, LossInv, CartInv
<1>2. UNCHANGED <<gateway, news, tasks, ledger, panel>>
  BY DEF RowNext, AddItem, CancelCart, ExpireCart, DeadlinePasses,
         ReopenCancelledCartFromERP, CancelCartOnRefund, WritesRow, payVars
<1>3. RestoresAreOwed' /\ ApprovedIsHandled'  BY <1>1, <1>2, IdleWorkersKeep
<1>. QED  BY <1>1, <1>2, <1>3 DEF CartsKeep, LossInv, PanelIsIdle

\* With no manual confirmation the panel does nothing at all.
LEMMA PanelLoss ==
  ASSUME "manual" \notin Actors, PanelIsIdle, NEW c \in Carts
  PROVE  ~PanelNext(c)
BY DEF PanelIsIdle, PanelNext, ConfirmManualPayment, ManualWrite,
       ManualRestore, MarkCartRefunded, EmitManualRefund, PanelDies

LEMMA GatewayLoss ==
  ASSUME LossInv, NEW p \in Charges, GatewayNext(p)
  PROVE  PanelIsIdle' /\ TerminatedIsClear' /\ RestoresAreOwed' /\ ApprovedIsHandled'
<1>1. UNCHANGED <<rows, ledger, tasks, panel>>
  BY DEF GatewayNext, CreatePaymentAttempt, UpdateCheckoutInfo, GatewayMoves, cartVars
<1>2. TerminatedIsClear /\ gateway \in [Charges -> {"none", "open", "approved", "cancelled",
                                                  "voided", "refunded"}]
  BY DEF LossInv, WorkTypes
<1>3. news \subseteq news' /\ \A q \in Charges :
        gateway'[q] = "approved" => gateway[q] = "approved" \/ q \in news'
  BY <1>2 DEF GatewayNext, CreatePaymentAttempt, UpdateCheckoutInfo, GatewayMoves
<1>4. TerminatedIsClear' /\ RestoresAreOwed' /\ PanelIsIdle'
  BY <1>1 DEF LossInv, TerminatedIsClear, RestoresAreOwed, PanelIsIdle
<1>5. ApprovedIsHandled'
  BY <1>1, <1>3 DEF LossInv, ApprovedIsHandled, Handled, InHand
<1>. QED  BY <1>4, <1>5

LEMMA DispatchLoss ==
  ASSUME LossInv, NEW t \in Tasks, NEW p \in Charges, DispatchPaymentProcess(t, p)
  PROVE  PanelIsIdle' /\ TerminatedIsClear' /\ RestoresAreOwed' /\ ApprovedIsHandled'
<1>1. UNCHANGED <<rows, ledger, gateway, panel>> /\ news' = news \ {p}
      /\ tasks[t].step = "idle"
      /\ tasks' = [tasks EXCEPT ![t] = [step |-> "queued", charge |-> p, says |-> "pending"]]
  BY DEF DispatchPaymentProcess, Task, cartVars
<1>2. tasks \in [Tasks -> [step : TaskStep, charge : Charges \cup {None}, says : Says]]
  BY DEF LossInv, WorkTypes
<1>3. /\ \A u \in Tasks \ {t} : tasks'[u] = tasks[u]
      /\ tasks'[t].step = "queued" /\ tasks'[t].charge = p
  BY <1>1, <1>2
<1>4. RestoresAreOwed'  BY <1>1, <1>3 DEF LossInv, RestoresAreOwed
<1>5. ASSUME NEW q \in Charges, gateway'[q] = "approved" PROVE Handled(q)'
  <2>1. Handled(q)  BY <1>1, <1>5 DEF LossInv, ApprovedIsHandled
  <2>2. CASE q = p  BY <1>3, <2>2 DEF Handled, InHand
  <2>3. CASE q # p  BY <1>1, <1>3, <2>1, <2>3 DEF Handled, InHand
  <2>. QED  BY <2>2, <2>3
<1>. QED
  BY <1>1, <1>4, <1>5 DEF LossInv, TerminatedIsClear, PanelIsIdle, ApprovedIsHandled

\* A worker's step respects terminations, but for the cart it restores.
LEMMA TaskKeeps ==
  ASSUME CartInv, WorkTypes, TerminatedIsClear, NEW t \in Tasks, TaskStepOf(t) \/ TaskDies(t),
         NEW p \in Charges, p = tasks[t].charge, NEW c \in Carts, c = ChargedCart[p]
  PROVE  /\ CartsKeep /\ StayTerminated(Carts \ {c})
         /\ StayTerminated({c}) \/ (Restore(t) /\ p \in ledger')
<1>1. CartTypes  BY DEF CartInv
<1>2. tasks[t].says \in Says  BY DEF WorkTypes
<1>3. ASSUME UpdateCartPaymentStatus(c, p, tasks[t].says) \/ UNCHANGED cartVars
      PROVE  CartsKeep /\ StayTerminated(Carts)
  BY <1>1, <1>2, <1>3, UpdateKeeps, QuietKeeps DEF cartVars
<1>4. CASE Restore(t)
  <2>1. RestoreCancelledCartAsPaid(c, p)  BY <1>4 DEF Restore
  <2>. QED  BY <1>1, <1>4, <2>1, RestoreKeeps
<1>5. CASE ~Restore(t)
  <2>1. CartsKeep /\ StayTerminated(Carts)
    BY <1>3, <1>5
    DEF TaskStepOf, GetPaymentStatus, MapCancelled, Apply, AcknowledgeStale, NotPayable,
        TaskDies
  <2>. QED  BY <2>1 DEF StayTerminated
<1>. QED  BY <1>4, <1>5

LEMMA TaskLoss ==
  ASSUME NoRivals, LossInv, NEW t \in Tasks, TaskStepOf(t) \/ TaskDies(t)
  PROVE  PanelIsIdle' /\ TerminatedIsClear' /\ RestoresAreOwed' /\ ApprovedIsHandled'
<1>. DEFINE p == tasks[t].charge
            c == ChargedCart[p]
            says == tasks[t].says
<1>1. CartInv /\ WorkTypes /\ CartTypes /\ TerminatedIsClear
  BY DEF LossInv, CartInv
<1>2. tasks[t].step # "idle"
  BY DEF TaskStepOf, GetPaymentStatus, MapCancelled, Apply, AcknowledgeStale, NotPayable,
         Restore, TaskDies
<1>3. p \in Charges /\ says \in Says /\ c \in Carts
  BY <1>1, <1>2, TaskFacts
<1>4. tasks \in [Tasks -> [step : TaskStep, charge : Charges \cup {None}, says : Says]]
      /\ \A u \in Tasks : tasks[u].step # "idle" => tasks[u].charge \in Charges
  BY <1>1 DEF WorkTypes
<1>5. UNCHANGED <<gateway, news, panel>> /\ \A u \in Tasks \ {t} : tasks'[u] = tasks[u]
  BY <1>4
  DEF TaskStepOf, GetPaymentStatus, MapCancelled, Apply, AcknowledgeStale, NotPayable,
      Restore, TaskDies, Task, Finish, payVars
<1>6. /\ CartsKeep /\ StayTerminated(Carts \ {c})
      /\ StayTerminated({c}) \/ (Restore(t) /\ p \in ledger')
  BY <1>1, <1>3, TaskKeeps
<1>7. ASSUME NEW u \in Tasks, tasks'[u].step = "restore"
      PROVE  /\ tasks'[u].says = "paid"
             /\ \/ tasks'[u].charge \in ledger'
                \/ rows'[ChargedCart[tasks'[u].charge]].status \in Terminated
  <2>1. CASE u # t
    <3>. DEFINE q == tasks[u].charge
    <3>1. tasks'[u] = tasks[u] /\ q \in Charges /\ ChargedCart[q] \in Carts
      BY <1>4, <1>5, <1>7, <2>1, CartOfIds
    <3>2. tasks[u].says = "paid" /\ (q \in ledger \/ rows[ChargedCart[q]].status \in Terminated)
      BY <1>7, <3>1 DEF LossInv, RestoresAreOwed
    <3>3. ChargedCart[q] = c => q = p
      BY <1>3, <2>1, <3>1 DEF NoRivals, LoneWorker, OneChargeEach
    <3>. HIDE DEF q
    <3>4. q \in ledger' \/ rows'[ChargedCart[q]].status \in Terminated
      BY <1>3, <1>6, <3>1, <3>2, <3>3 DEF CartsKeep, StayTerminated
    <3>. QED  BY <3>1, <3>2, <3>4 DEF q
  <2>2. CASE u = t
    <3>1. /\ NotPayable(t) /\ says = "paid"
          /\ tasks' = [tasks EXCEPT ![t] = [step |-> "restore", charge |-> p, says |-> says]]
      BY <1>4, <1>7, <2>2
      DEF TaskStepOf, GetPaymentStatus, MapCancelled, Apply, AcknowledgeStale, NotPayable,
          Restore, TaskDies, Task, Finish, Nothing
    <3>2. rows[c].status \in Terminated /\ UNCHANGED rows
      BY <3>1 DEF NotPayable, CanWrite, Payable, cartVars
    <3>3. tasks'[t].says = "paid" /\ tasks'[t].charge = p  BY <1>4, <3>1
    <3>. QED  BY <2>2, <3>2, <3>3
  <2>. QED  BY <2>1, <2>2
<1>8. ASSUME NEW q \in Charges, InHand(t, q), gateway[q] = "approved"
      PROVE  q \in ledger' \/ Refuses(rows'[ChargedCart[q]]) \/ InHand(t, q)'
  <2>. USE <1>8
  <2>0. q = p  BY DEF InHand
  <2>1. CASE GetPaymentStatus(t)
    <3>1. Report(p) = "paid"  BY <2>0 DEF Report
    <3>2. tasks' = [tasks EXCEPT ![t] = [step |-> "mapped", charge |-> p, says |-> "paid"]]
      BY <2>1, <3>1 DEF GetPaymentStatus, Task
    <3>. QED  BY <1>4, <2>0, <3>2 DEF InHand
  <2>2. CASE MapCancelled(t)
    BY <2>2 DEF MapCancelled, InHand
  <2>3. CASE Apply(t)
    <3>1. UpdateCartPaymentStatus(c, p, says) /\ says = "paid"
      BY <2>3 DEF Apply, InHand
    <3>. QED
      BY <2>0, <3>1 DEF UpdateCartPaymentStatus, RecordForReview, WritePayment, Recorded
  <2>4. CASE AcknowledgeStale(t)
    <3>1. p \in ledger  BY <2>4 DEF AcknowledgeStale, InHand, Stale, Recorded
    <3>. QED  BY <1>6, <2>0, <3>1 DEF CartsKeep
  <2>5. CASE NotPayable(t)
    <3>1. tasks' = [tasks EXCEPT ![t] = [step |-> "restore", charge |-> p, says |-> "paid"]]
      BY <2>5 DEF NotPayable, InHand, Task
    <3>. QED  BY <1>4, <2>0, <3>1 DEF InHand
  <2>6. CASE Restore(t)
    <3>1. RestoreCancelledCartAsPaid(c, p) /\ tasks[t].step = "restore"
      BY <2>6 DEF Restore
    <3>2. rows[c].status \in Terminated => p \in ledger' \/ Refuses(rows[c])
      BY <1>1, <1>3, <3>1, RestoreKeeps
    <3>3. p \in ledger \/ rows[c].status \in Terminated
      BY <3>1 DEF LossInv, RestoresAreOwed
    <3>. QED  BY <1>3, <1>6, <2>0, <3>2, <3>3 DEF CartsKeep
  <2>7. CASE TaskDies(t)
    <3>1. tasks' = [tasks EXCEPT ![t] = [step |-> "queued", charge |-> p, says |-> "pending"]]
      BY <2>7 DEF TaskDies, Task
    <3>. QED  BY <1>4, <2>0, <3>1 DEF InHand
  <2>. QED  BY <2>1, <2>2, <2>3, <2>4, <2>5, <2>6, <2>7 DEF TaskStepOf
<1>9. ASSUME NEW q \in Charges, gateway'[q] = "approved"
      PROVE  Handled(q)'
  <2>1. ChargedCart[q] \in Carts /\ Handled(q) /\ gateway[q] = "approved"
    BY <1>5, <1>9, CartOfIds DEF LossInv, ApprovedIsHandled
  <2>2. CASE q \in ledger \/ Refuses(rows[ChargedCart[q]]) \/ q \in news
    BY <1>5, <1>6, <2>1, <2>2 DEF Handled, CartsKeep
  <2>3. ASSUME NEW u \in Tasks \ {t}, InHand(u, q) PROVE Handled(q)'
    BY <1>5, <2>3 DEF Handled, InHand
  <2>4. CASE InHand(t, q)
    BY <1>8, <2>1, <2>4 DEF Handled
  <2>. QED  BY <2>1, <2>2, <2>3, <2>4 DEF Handled
<1>10. RestoresAreOwed'  BY <1>7 DEF RestoresAreOwed
<1>11. ApprovedIsHandled'  BY <1>9 DEF ApprovedIsHandled
<1>12. PanelIsIdle' /\ TerminatedIsClear'
  BY <1>5, <1>6 DEF LossInv, PanelIsIdle, CartsKeep
<1>. QED  BY <1>10, <1>11, <1>12

\* Whatever dies half-way, is edited, expires or is cancelled by the store: once the
\* notifications are handled, an approved charge is in the ledger or its cart refuses
\* it.  The ERP's reopening, the panel, and two charges with two workers are out:
\* with each of them the runs show the money lost.
THEOREM NoApprovedChargeIsLost ==
  ASSUME NoRivals
  PROVE  Spec => []ApprovedIsNeverLost
<1>1. Init => LossInv
  <2>1. SUFFICES ASSUME Init PROVE LossInv  OBVIOUS
  <2>2. CartInv /\ WorkTypes  BY <2>1, InitInv
  <2>3. \A t \in Tasks : tasks[t].step = "idle"  BY <2>1 DEF Init, Nothing
  <2>4. \A c \in Carts : rows[c].status \notin Terminated /\ panel[c] = "idle"
    BY <2>1 DEF Init, NewRow, Terminated
  <2>5. \A p \in Charges : gateway[p] # "approved"  BY <2>1 DEF Init
  <2>. QED
    BY <2>2, <2>3, <2>4, <2>5
    DEF LossInv, PanelIsIdle, TerminatedIsClear, RestoresAreOwed, ApprovedIsHandled
<1>2. LossInv /\ [Next]_vars => LossInv'
  <2>1. SUFFICES ASSUME LossInv, [Next]_vars PROVE LossInv'  OBVIOUS
  <2>2. CartInv' /\ WorkTypes'  BY <2>1, NextInv DEF LossInv
  <2>3. PanelIsIdle' /\ TerminatedIsClear' /\ RestoresAreOwed' /\ ApprovedIsHandled'
    <3>1. CASE UNCHANGED vars
      BY <2>1, <3>1
      DEF vars, cartVars, payVars, LossInv, PanelIsIdle, TerminatedIsClear, RestoresAreOwed,
          ApprovedIsHandled, Handled, InHand
    <3>2. CASE \E p \in Charges : GatewayNext(p)
      BY <2>1, <3>2, GatewayLoss
    <3>3. CASE \E t \in Tasks, p \in Charges : DispatchPaymentProcess(t, p)
      BY <2>1, <3>3, DispatchLoss
    <3>4. CASE \E t \in Tasks : TaskStepOf(t) \/ TaskDies(t)
      BY <2>1, <3>4, TaskLoss
    <3>5. CASE \E c \in Carts : PanelNext(c) \/ RowNext(c)
      BY <2>1, <3>5, PanelLoss, RowLoss DEF NoRivals, LossInv
    <3>. QED  BY <2>1, <3>1, <3>2, <3>3, <3>4, <3>5 DEF Next
  <2>. QED  BY <2>2, <2>3 DEF LossInv
<1>3. LossInv => ApprovedIsNeverLost
  BY DEF LossInv, ApprovedIsHandled, Handled, InHand, ApprovedIsNeverLost, Quiet
<1>. QED  BY <1>1, <1>2, <1>3, PTL DEF Spec
----------------------------------------------------------------------------
(* Each charge is counted once by two workers as well, whatever the store   *)
(* cancels.  A worker that turned to the restoration has a charge that is   *)
(* not in the ledger and a cart that waits for it; when the other worker    *)
(* restores the cart first, there is nobody left who could have read        *)
(* "cancelled" before and still demote it, so the store cannot cancel it    *)
(* again under the first one's feet.  A third worker can (and so can the    *)
(* panel and the ERP, which restore and reopen carts too).                  *)

TwoWorkers == /\ \A t, u, v \in Tasks : t = u \/ t = v \/ u = v
              /\ "erp" \notin Actors /\ "manual" \notin Actors

Awaits(p) == Restorable(rows[ChargedCart[p]]) /\ p \notin ledger /\ ~Unfit(p)

\* Worker t is about to write that a charge of cart c was cancelled.
Demotes(t, c) ==
  /\ tasks[t].step = "mapped" /\ tasks[t].says = "cancelled"
  /\ ChargedCart[tasks[t].charge] = c

\* Cart c is beyond restoration by t, and will stay so.
Past(t, c) ==
  /\ rows[c].status \notin Terminated
  /\ \/ rows[c].review
     \/ ~Unsettled(rows[c]) /\ \A u \in Tasks \ {t} : ~Demotes(u, c)

Safe(t) ==
  \/ Awaits(tasks[t].charge) \/ Refuses(rows[ChargedCart[tasks[t].charge]])
  \/ Past(t, ChargedCart[tasks[t].charge])

RestoresAreSafe == \A t \in Tasks : tasks[t].step = "restore" => Safe(t)

PairInv ==
  /\ CartInv /\ WorkTypes /\ PanelIsIdle /\ TerminatedIsClear
  /\ IsFiniteSet(ledger) /\ MoneyCountedOnce /\ RestoresAreSafe

\* What a step leaves to the restorations of cart d.
Untouched(d) ==
  /\ rows'[d].status = rows[d].status /\ rows'[d].reason = rows[d].reason
  /\ rows'[d].pay = rows[d].pay /\ rows'[d].review = rows[d].review
  /\ contents'[d] = contents[d]

LEMMA UntouchedSafe ==
  ASSUME NEW v \in Tasks, NEW q \in Charges, q = tasks[v].charge, Safe(v),
         NEW d, d = ChargedCart[q],
         tasks'[v] = tasks[v], Untouched(d), q \in ledger' => q \in ledger,
         Restorable(rows[d]) => quote'[q] = quote[q],
         \A u \in Tasks \ {v} : Demotes(u, d)' => Demotes(u, d) \/ Unsettled(rows[d])
  PROVE  Safe(v)'
<1>1. CASE Awaits(q)
  <2>1. Awaits(q)'
    BY <1>1 DEF Awaits, Untouched, Restorable, Unsettled, Unfit
  <2>. QED  BY <2>1 DEF Safe
<1>2. CASE Refuses(rows[d])
  <2>1. Refuses(rows'[d])  BY <1>2 DEF Refuses, Untouched
  <2>. QED  BY <2>1 DEF Safe
<1>3. CASE Past(v, d)
  <2>1. Past(v, d)'  BY <1>3 DEF Past, Untouched, Unsettled
  <2>. QED  BY <2>1 DEF Safe
<1>. QED  BY <1>1, <1>2, <1>3 DEF Safe

\* The writes of a worker touch the cart of its charge, and record no other charge.
Touches(c, p) ==
  ledger' \subseteq ledger \cup {p} /\ \A d \in Carts \ {c} : Untouched(d)

LEMMA WriteTouches ==
  ASSUME CartTypes, NEW c \in Carts, NEW r \in Row, rows' = WriteRow(rows, c, r),
         NEW p, ledger' \subseteq ledger \cup {p},
         \A d \in Carts \ {c} : contents'[d] = contents[d]
  PROVE  Touches(c, p)
<1>1. rows \in [Carts -> Row]  BY DEF CartTypes
<1>2. \A d \in Carts \ {c} :
        /\ rows'[d].status = rows[d].status /\ rows'[d].reason = rows[d].reason
        /\ rows'[d].pay = rows[d].pay /\ rows'[d].review = rows[d].review
  BY <1>1, WriteRowShape
<1>. QED  BY <1>2 DEF Touches, Untouched

LEMMA ReviewTouches ==
  ASSUME CartTypes, NEW c \in Carts, NEW p, RecordForReview(c, p)
  PROVE  Touches(c, p)
<1>1. ReviewRow(rows[c]) \in Row  BY RowFacts DEF CartTypes
<1>. QED  BY <1>1, WriteTouches DEF RecordForReview

LEMMA PaymentTouches ==
  ASSUME CartTypes, NEW c \in Carts, NEW p, NEW says \in Says, NEW r \in Row,
         WritePayment(c, p, says, r)
  PROVE  Touches(c, p)
<1>1. PayRow(r, says) \in Row  BY PayRowFacts
<1>2. ledger' \subseteq ledger \cup {p} /\ \A d \in Carts \ {c} : contents'[d] = contents[d]
  BY DEF WritePayment, CartTypes
<1>. QED  BY <1>1, <1>2, WriteTouches DEF WritePayment

LEMMA UpdateTouches ==
  ASSUME CartTypes, NEW c \in Carts, NEW p, NEW says \in Says,
         UpdateCartPaymentStatus(c, p, says)
  PROVE  Touches(c, p)
BY ReviewTouches, PaymentTouches DEF UpdateCartPaymentStatus, CartTypes

LEMMA RestoreTouches ==
  ASSUME CartTypes, NEW c \in Carts, NEW p, RestoreCancelledCartAsPaid(c, p)
  PROVE  Touches(c, p)
<1>1. RestoredRow(rows[c]) \in Row  BY RowFacts DEF CartTypes
<1>2. CASE UNCHANGED cartVars  BY <1>2 DEF cartVars, Touches, Untouched
<1>3. "paid" \in Says  BY DEF Says
<1>. QED
  BY <1>1, <1>2, <1>3, ReviewTouches, PaymentTouches DEF RestoreCancelledCartAsPaid

\* Money that is recorded for review leaves the cart waiting for another charge.
LEMMA ReviewAwaits ==
  ASSUME CartTypes, NEW q \in Charges, Awaits(q), NEW c \in Carts, c = ChargedCart[q],
         NEW p, Unfit(p), RecordForReview(c, p), quote' = quote
  PROVE  Awaits(q)'
<1>1. rows \in [Carts -> Row] /\ rows[c] \in Row  BY DEF CartTypes
<1>. DEFINE r == ReviewRow(rows[c])
<1>2. r \in Row  BY <1>1, RowFacts
<1>3. r.status = rows[c].status /\ r.reason = rows[c].reason /\ r.pay = "pending"
  BY <1>1 DEF ReviewRow, Row
<1>4. rows'[c] = r  BY <1>1, <1>2, WriteRowShape DEF RecordForReview
<1>5. Restorable(rows'[c])
  BY <1>3, <1>4 DEF Awaits, Restorable, Unsettled, Settled
<1>6. q # p  BY DEF Awaits
<1>7. q \notin ledger' /\ ~Unfit(q)'
  BY <1>6 DEF RecordForReview, Awaits, Unfit
<1>. QED  BY <1>5, <1>7 DEF Awaits

\* The guarded write of a worker finds the cart waiting, or past the restoration.
LEMMA UpdateAwaits ==
  ASSUME CartTypes, NEW q \in Charges, Awaits(q), NEW c \in Carts, c = ChargedCart[q],
         NEW p, NEW says, UpdateCartPaymentStatus(c, p, says), quote' = quote
  PROVE  Awaits(q)'
<1>1. ~Payable(rows[c])
  BY DEF Awaits, Restorable, Payable, Terminated
<1>2. Unfit(p) /\ RecordForReview(c, p)
  BY <1>1 DEF UpdateCartPaymentStatus, CanWrite
<1>. QED  BY <1>2, ReviewAwaits

LEMMA UpdatePast ==
  ASSUME CartTypes, NEW c \in Carts, NEW p, NEW says \in Says,
         UpdateCartPaymentStatus(c, p, says), rows[c].status \notin Terminated,
         rows[c].review \/ (~Unsettled(rows[c]) /\ says # "cancelled")
  PROVE  /\ rows'[c].status \notin Terminated
         /\ rows'[c].review \/ (~rows[c].review /\ ~Unsettled(rows'[c]))
<1>1. rows \in [Carts -> Row] /\ rows[c] \in Row  BY DEF CartTypes
<1>2. CASE RecordForReview(c, p)
  <2>1. ReviewRow(rows[c]) \in Row  BY <1>1, RowFacts
  <2>2. rows'[c] = ReviewRow(rows[c])
    BY <1>1, <1>2, <2>1, WriteRowShape DEF RecordForReview
  <2>. QED  BY <1>1, <2>2 DEF ReviewRow, Row
<1>3. CASE WritePayment(c, p, says, rows[c])
  <2>1. rows'[c] = PayRow(rows[c], says)
    BY <1>1, <1>3, PayRowFacts, WriteRowShape DEF WritePayment
  <2>2. CASE rows[c].review  BY <1>1, <2>1, <2>2, PayRowFacts
  <2>3. CASE ~rows[c].review
    <3>1. says # "cancelled" /\ rows[c].pay \in Settled  BY <2>3 DEF Unsettled
    <3>2. ~Stale(c, p, says)  BY DEF UpdateCartPaymentStatus
    <3>3. says \in {"paid", "refunded"}  BY <3>1, <3>2 DEF Stale, Says
    <3>4. PayRow(rows[c], says).pay \in Settled  BY <1>1, <3>3, PayRowFacts DEF Settled
    <3>. QED  BY <1>1, <2>1, <2>3, <3>4, PayRowFacts DEF Unsettled
  <2>. QED  BY <2>2, <2>3
<1>. QED  BY <1>2, <1>3 DEF UpdateCartPaymentStatus

\* The restoration by one worker settles the cart the other one waits for.
LEMMA RestoreAwaits ==
  ASSUME CartTypes, NEW q \in Charges, Awaits(q), NEW c \in Carts, c = ChargedCart[q],
         NEW p, RestoreCancelledCartAsPaid(c, p), quote' = quote
  PROVE  Awaits(q)' \/ (rows'[c].status \notin Terminated /\ ~Unsettled(rows'[c]))
<1>1. rows \in [Carts -> Row] /\ rows[c] \in Row  BY DEF CartTypes
<1>2. CASE Unfit(p) /\ RecordForReview(c, p)  BY <1>2, ReviewAwaits
<1>3. CASE WritePayment(c, p, "paid", RestoredRow(rows[c]))
  <2>1. RestoredRow(rows[c]) \in Row /\ "paid" \in Says  BY <1>1, RowFacts DEF Says
  <2>2. RestoredRow(rows[c]).status = "checkout"  BY <1>1 DEF RestoredRow, PaidRow, Row
  <2>3. rows'[c] = PayRow(RestoredRow(rows[c]), "paid")
    BY <1>1, <1>3, <2>1, PayRowFacts, WriteRowShape DEF WritePayment
  <2>4. rows'[c].status = "checkout" /\ rows'[c].pay = "paid"
    BY <2>1, <2>2, <2>3, PayRowFacts
  <2>. QED  BY <2>4 DEF Terminated, Unsettled, Settled
<1>. QED  BY <1>2, <1>3 DEF RestoreCancelledCartAsPaid, Awaits

LEMMA NotRestorable ==
  ASSUME NEW r, Refuses(r) \/ r.status \notin Terminated
  PROVE  ~Restorable(r)
BY DEF Refuses, Restorable, Terminated

LEMMA RowPair ==
  ASSUME TwoWorkers, PairInv, NEW c \in Carts, RowNext(c)
  PROVE  PairInv'
<1>1. CartInv /\ WorkTypes /\ CartTypes /\ TerminatedIsClear /\ CartInv' /\ WorkTypes'
      /\ rows \in [Carts -> Row] /\ rows[c] \in Row
  BY RowInv DEF PairInv, CartInv, CartTypes
<1>2. UNCHANGED <<ledger, amount, tasks, quote, panel>>
  BY DEF RowNext, AddItem, CancelCart, ExpireCart, DeadlinePasses,
         ReopenCancelledCartFromERP, CancelCartOnRefund, WritesRow, payVars
<1>3. CartsKeep /\ StayTerminated(Carts)
  BY <1>1, RowKeeps DEF TwoWorkers
<1>4. \A d \in Carts \ {c} : Untouched(d)
  <2>1. ASSUME NEW r \in Row, WritesRow(c, r) PROVE \A d \in Carts \ {c} : Untouched(d)
    BY <1>1, <2>1, WriteTouches DEF WritesRow, Touches
  <2>2. /\ CancelledRow(rows[c], "store_cancelled") \in Row
        /\ CancelledRow(rows[c], "refunded") \in Row
        /\ ExpiredRow(rows[c]) \in Row /\ ReopenedRow(c, rows[c]) \in Row
    BY <1>1, RowFacts
  <2>3. [rows[c] EXCEPT !.deadline = "due"] \in Row  BY <1>1 DEF Row
  <2>4. CASE AddItem(c)  BY <1>1, <2>4 DEF AddItem, Untouched, CartTypes
  <2>. QED
    BY <2>1, <2>2, <2>3, <2>4
    DEF RowNext, CancelCart, ExpireCart, DeadlinePasses, ReopenCancelledCartFromERP,
        CancelCartOnRefund
<1>5. rows[c].status \notin Open => contents' = contents
  BY DEF RowNext, AddItem, CancelCart, ExpireCart, DeadlinePasses,
         ReopenCancelledCartFromERP, CancelCartOnRefund, WritesRow, Admits
<1>6. ASSUME rows[c].status \notin Terminated, rows[c].review \/ ~Unsettled(rows[c])
      PROVE  \/ Refuses(rows'[c])
             \/ /\ rows'[c].status = rows[c].status /\ rows'[c].pay = rows[c].pay
                /\ rows'[c].review = rows[c].review
  <2>1. CASE AddItem(c)  BY <2>1 DEF AddItem
  <2>2. CASE DeadlinePasses(c)
    <3>1. [rows[c] EXCEPT !.deadline = "due"] \in Row  BY <1>1 DEF Row
    <3>2. rows'[c] = [rows[c] EXCEPT !.deadline = "due"]
      BY <1>1, <2>2, <3>1, WriteRowShape DEF DeadlinePasses, WritesRow
    <3>. QED  BY <1>1, <3>2 DEF Row
  <2>3. CASE CancelCartOnRefund(c)
    <3>1. CancelledRow(rows[c], "refunded") \in Row  BY <1>1, RowFacts
    <3>2. rows'[c] = CancelledRow(rows[c], "refunded")
      BY <1>1, <2>3, <3>1, WriteRowShape DEF CancelCartOnRefund, WritesRow
    <3>. QED  BY <1>1, <3>2 DEF CancelledRow, Row, Refuses
  <2>. QED
    BY <1>6, <2>1, <2>2, <2>3
    DEF RowNext, CancelCart, StoreCancellable, ExpireCart, Expirable,
        ReopenCancelledCartFromERP, TwoWorkers
<1>7. ASSUME NEW v \in Tasks, tasks'[v].step = "restore"
      PROVE  Safe(v)'
  <2>0. PICK q \in Charges, d \in Carts : q = tasks[v].charge /\ d = ChargedCart[q]
    BY <1>1, <1>2, <1>7, CartOfIds DEF WorkTypes
  <2>1. Safe(v) /\ tasks' = tasks
    BY <1>2, <1>7 DEF PairInv, RestoresAreSafe
  <2>2. CASE d # c
    <3>1. Untouched(d)  BY <1>4, <2>1, <2>2
    <3>. QED
      BY <1>2, <2>0, <2>1, <3>1, UntouchedSafe DEF Demotes
  <2>3. CASE d = c /\ Awaits(q)
    <3>1. rows[c].status \in Terminated /\ rows[c].status \notin Open
      BY <2>0, <2>3 DEF Awaits, Restorable, Terminated, Open
    <3>2. Restorable(rows'[c]) \/ Refuses(rows'[c])
      BY <1>3, <3>1 DEF StayTerminated, CartsKeep, TerminatedIsClear
    <3>3. q \notin ledger' /\ ~Unfit(q)'
      BY <1>2, <1>5, <2>0, <2>3, <3>1 DEF Awaits, Unfit
    <3>. QED  BY <2>0, <2>1, <2>3, <3>2, <3>3 DEF Safe, Awaits
  <2>4. CASE d = c /\ Refuses(rows[c])
    <3>1. Refuses(rows'[c])  BY <1>3, <2>4 DEF CartsKeep
    <3>. QED  BY <2>0, <2>1, <2>4, <3>1 DEF Safe
  <2>5. CASE d = c /\ Past(v, c)
    <3>1. Refuses(rows'[c]) \/ Past(v, c)'
      BY <1>2, <1>6, <2>1, <2>5 DEF Past, Unsettled, Demotes
    <3>. QED  BY <2>0, <2>1, <2>5, <3>1 DEF Safe
  <2>. QED  BY <2>0, <2>1, <2>2, <2>3, <2>4, <2>5 DEF Safe
<1>8. IsFiniteSet(ledger') /\ MoneyCountedOnce'
  BY <1>1, <1>2, CountsKeep DEF PairInv, Counts
<1>. QED
  BY <1>1, <1>2, <1>3, <1>7, <1>8 DEF PairInv, PanelIsIdle, CartsKeep, RestoresAreSafe

LEMMA GatewayPair ==
  ASSUME PairInv, NEW p \in Charges,
         GatewayNext(p) \/ \E t \in Tasks : DispatchPaymentProcess(t, p)
  PROVE  PairInv'
<1>1. CartInv /\ WorkTypes /\ CartInv' /\ WorkTypes'
  BY GatewayInv, DispatchInv DEF PairInv
<1>2. UNCHANGED <<rows, contents, ledger, amount, panel>>
  BY DEF GatewayNext, CreatePaymentAttempt, UpdateCheckoutInfo, GatewayMoves,
         DispatchPaymentProcess, cartVars
<1>3. \A q \in Charges : quote'[q] = quote[q] \/ rows[ChargedCart[q]].status \in Open
  BY <1>1 DEF GatewayNext, CreatePaymentAttempt, UpdateCheckoutInfo, GatewayMoves,
              DispatchPaymentProcess, WorkTypes, Chargeable
<1>4. \A t \in Tasks : tasks'[t] = tasks[t] \/ tasks'[t].step = "queued"
  BY <1>1 DEF GatewayNext, CreatePaymentAttempt, UpdateCheckoutInfo, GatewayMoves,
              DispatchPaymentProcess, WorkTypes, Task
<1>5. ASSUME NEW v \in Tasks, tasks'[v].step = "restore"
      PROVE  Safe(v)'
  <2>0. tasks'[v] = tasks[v] /\ Safe(v) /\ tasks[v].charge \in Charges
    BY <1>1, <1>4, <1>5 DEF PairInv, WorkTypes, RestoresAreSafe
  <2>1. PICK q \in Charges, d \in Carts : q = tasks[v].charge /\ d = ChargedCart[q]
    BY <2>0, CartOfIds
  <2>2. Untouched(d)  BY <1>2 DEF Untouched
  <2>3. Restorable(rows[d]) => quote'[q] = quote[q]
    BY <1>3, <2>1 DEF Restorable, Open
  <2>4. \A u \in Tasks \ {v} : Demotes(u, d)' => Demotes(u, d)
    BY <1>4 DEF Demotes
  <2>. QED  BY <1>2, <2>0, <2>1, <2>2, <2>3, <2>4, UntouchedSafe
<1>6. IsFiniteSet(ledger') /\ MoneyCountedOnce'
  BY <1>1, <1>2, CountsKeep DEF PairInv, Counts
<1>. QED
  BY <1>1, <1>2, <1>5, <1>6 DEF PairInv, PanelIsIdle, TerminatedIsClear, RestoresAreSafe

\* A worker's step leaves the restoration of another worker safe.
LEMMA OtherSafe ==
  ASSUME TwoWorkers, PairInv, NEW t \in Tasks, TaskStepOf(t) \/ TaskDies(t),
         NEW v \in Tasks \ {t}, tasks[v].step = "restore"
  PROVE  Safe(v)'
<1>0. /\ CartInv /\ WorkTypes /\ CartTypes /\ TerminatedIsClear
      /\ tasks \in [Tasks -> [step : TaskStep, charge : Charges \cup {None}, says : Says]]
      /\ tasks[t].step # "idle"
  BY DEF PairInv, CartInv, WorkTypes, TaskStepOf, GetPaymentStatus, MapCancelled, Apply,
         AcknowledgeStale, NotPayable, Restore, TaskDies
<1>1. PICK p \in Charges, c \in Carts, says \in Says :
        p = tasks[t].charge /\ c = ChargedCart[p] /\ says = tasks[t].says
  BY <1>0, TaskFacts
<1>2. PICK q \in Charges, d \in Carts : q = tasks[v].charge /\ d = ChargedCart[q]
  BY <1>0, CartOfIds DEF WorkTypes
<1>3. /\ Safe(v) /\ quote' = quote
      /\ \A u \in Tasks \ {t} : tasks'[u] = tasks[u]
  BY <1>0
  DEF PairInv, RestoresAreSafe, TaskStepOf, GetPaymentStatus, MapCancelled, Apply,
      AcknowledgeStale, NotPayable, Restore, TaskDies, Task, Finish, payVars
<1>4. CartsKeep  BY <1>0, <1>1, TaskKeeps
<1>5. Touches(c, p)
  <2>1. CASE UNCHANGED cartVars  BY <2>1 DEF cartVars, Touches, Untouched
  <2>2. CASE Apply(t)  BY <1>0, <1>1, <2>2, UpdateTouches DEF Apply
  <2>3. CASE Restore(t)  BY <1>0, <1>1, <2>3, RestoreTouches DEF Restore
  <2>. QED
    BY <2>1, <2>2, <2>3
    DEF TaskStepOf, GetPaymentStatus, MapCancelled, AcknowledgeStale, NotPayable, TaskDies
<1>6. \A u \in Tasks : Demotes(u, d)' =>
        Demotes(u, d) \/ (u = t /\ c = d /\ Unsettled(rows[c]) /\ UNCHANGED cartVars)
  <2>1. ASSUME Demotes(t, d)'
        PROVE  c = d /\ Unsettled(rows[c]) /\ UNCHANGED cartVars
    <3>1. MapCancelled(t)
      BY <1>0, <1>1, <2>1
      DEF TaskStepOf, GetPaymentStatus, Apply, AcknowledgeStale, NotPayable, Restore,
          TaskDies, Task, Finish, Nothing, Demotes
    <3>2. /\ tasks'[t].charge = p
          /\ tasks'[t].says = IF Unsettled(rows[c]) THEN "cancelled" ELSE "refunded"
      BY <1>0, <1>1, <3>1 DEF MapCancelled, Task
    <3>. QED  BY <1>1, <2>1, <3>1, <3>2 DEF Demotes, MapCancelled
  <2>2. \A u \in Tasks \ {t} : Demotes(u, d)' => Demotes(u, d)
    BY <1>3 DEF Demotes
  <2>. QED  BY <2>1, <2>2
<1>7. CASE Untouched(d) /\ (q \in ledger' => q \in ledger)
  <2>1. \A u \in Tasks \ {v} : Demotes(u, d)' => Demotes(u, d) \/ Unsettled(rows[d])
    BY <1>6
  <2>. QED  BY <1>2, <1>3, <1>7, <2>1, UntouchedSafe
<1>8. CASE d # c
  <2>1. q # p  BY <1>1, <1>2, <1>8
  <2>. QED  BY <1>2, <1>5, <1>7, <1>8, <2>1 DEF Touches
<1>9. CASE UNCHANGED cartVars
  BY <1>7, <1>9 DEF cartVars, Untouched
<1>10. ASSUME d = c, Apply(t) \/ Restore(t) PROVE Safe(v)'
  <2>0. /\ tasks'[t].step = "idle" /\ tasks'[v] = tasks[v]
        /\ \/ tasks[t].step = "mapped" /\ UpdateCartPaymentStatus(c, p, says)
           \/ RestoreCancelledCartAsPaid(c, p)
    BY <1>0, <1>1, <1>3, <1>10 DEF Apply, Restore, Finish, Nothing
  <2>1. \A u \in Tasks \ {v} : ~Demotes(u, c)'
    BY <2>0 DEF TwoWorkers, Demotes
  <2>2. CASE Awaits(q)
    <3>1. Awaits(q)' \/ (rows'[c].status \notin Terminated /\ ~Unsettled(rows'[c]))
      BY <1>0, <1>2, <1>3, <1>10, <2>0, <2>2, UpdateAwaits, RestoreAwaits
    <3>. QED  BY <1>2, <1>10, <2>0, <2>1, <3>1 DEF Safe, Past
  <2>3. CASE Refuses(rows[c])
    <3>1. Refuses(rows'[c])  BY <1>4, <2>3 DEF CartsKeep
    <3>. QED  BY <1>2, <1>10, <2>0, <3>1 DEF Safe
  <2>4. CASE Past(v, c)
    <3>1. CASE RestoreCancelledCartAsPaid(c, p)
      <4>1. ~Restorable(rows[c])  BY <2>4, NotRestorable DEF Past
      <4>. QED  BY <1>9, <3>1, <4>1 DEF RestoreCancelledCartAsPaid
    <3>2. CASE tasks[t].step = "mapped" /\ UpdateCartPaymentStatus(c, p, says)
      <4>1. rows[c].review \/ (~Unsettled(rows[c]) /\ says # "cancelled")
        BY <1>1, <2>4, <3>2 DEF Past, Demotes
      <4>2. /\ rows'[c].status \notin Terminated
            /\ rows'[c].review \/ ~Unsettled(rows'[c])
        BY <1>0, <2>4, <3>2, <4>1, UpdatePast DEF Past
      <4>3. Past(v, c)'  BY <2>1, <4>2 DEF Past
      <4>. QED  BY <1>2, <1>10, <2>0, <4>3 DEF Safe
    <3>. QED  BY <2>0, <3>1, <3>2
  <2>. QED  BY <1>2, <1>3, <1>10, <2>2, <2>3, <2>4 DEF Safe
<1>. QED
  BY <1>8, <1>9, <1>10
  DEF TaskStepOf, GetPaymentStatus, MapCancelled, AcknowledgeStale, NotPayable, TaskDies

LEMMA TaskPair ==
  ASSUME TwoWorkers, PairInv, NEW t \in Tasks, TaskStepOf(t) \/ TaskDies(t)
  PROVE  PairInv'
<1>0. /\ CartInv /\ WorkTypes /\ CartTypes /\ TerminatedIsClear /\ CartInv' /\ WorkTypes'
      /\ tasks \in [Tasks -> [step : TaskStep, charge : Charges \cup {None}, says : Says]]
      /\ tasks[t].step # "idle" /\ UNCHANGED panel
      /\ \A u \in Tasks \ {t} : tasks'[u] = tasks[u]
  BY TaskInv
  DEF PairInv, CartInv, WorkTypes, TaskStepOf, GetPaymentStatus, MapCancelled, Apply,
      AcknowledgeStale, NotPayable, Restore, TaskDies, Task, Finish
<1>1. PICK p \in Charges, c \in Carts, says \in Says :
        /\ p = tasks[t].charge /\ c = ChargedCart[p] /\ says = tasks[t].says
        /\ p \in Ids /\ c = CartOf(p)
  BY <1>0, TaskFacts, CartOfIds
<1>2. CartsKeep  BY <1>0, <1>1, TaskKeeps
<1>3. Counts
  <2>1. CASE UNCHANGED cartVars  BY <2>1 DEF cartVars, Counts
  <2>2. CASE Apply(t)  BY <1>1, <2>2, UpdateCounts DEF Apply, Counts
  <2>3. CASE Restore(t)
    <3>1. RestoreCancelledCartAsPaid(c, p) /\ Safe(t)
      BY <1>1, <2>3 DEF Restore, PairInv, RestoresAreSafe
    <3>2. p \notin ledger \/ ~Restorable(rows[c])
      BY <1>1, <3>1, NotRestorable DEF Safe, Awaits, Past
    <3>. QED  BY <1>1, <3>1, <3>2, RestoreCounts DEF Counts
  <2>. QED
    BY <2>1, <2>2, <2>3
    DEF TaskStepOf, GetPaymentStatus, MapCancelled, AcknowledgeStale, NotPayable, TaskDies
<1>4. ASSUME NEW v \in Tasks, tasks'[v].step = "restore"
      PROVE  Safe(v)'
  <2>1. CASE v # t  BY <1>0, <1>4, <2>1, OtherSafe
  <2>2. CASE v = t
    <3>1. NotPayable(t) /\ says = "paid" /\ tasks'[t].charge = p
      BY <1>0, <1>1, <1>4, <2>2
      DEF TaskStepOf, GetPaymentStatus, MapCancelled, Apply, AcknowledgeStale, NotPayable,
          Restore, TaskDies, Task, Finish, Nothing
    <3>2. p \notin ledger /\ ~Unfit(p) /\ rows[c].status \in Terminated
      BY <1>1, <3>1 DEF NotPayable, Stale, Recorded, CanWrite, Payable
    <3>3. UNCHANGED <<rows, ledger, contents, quote>>
      BY <3>1 DEF NotPayable, cartVars, payVars
    <3>4. Restorable(rows[c]) \/ Refuses(rows[c])
      BY <1>0, <3>2 DEF TerminatedIsClear
    <3>. QED  BY <1>1, <2>2, <3>1, <3>2, <3>3, <3>4 DEF Safe, Awaits, Unfit
  <2>. QED  BY <2>1, <2>2
<1>5. IsFiniteSet(ledger') /\ MoneyCountedOnce'
  BY <1>0, <1>3, CountsKeep DEF PairInv
<1>. QED
  BY <1>0, <1>2, <1>4, <1>5 DEF PairInv, PanelIsIdle, CartsKeep, RestoresAreSafe

\* Two workers never count a charge twice, however the store cancels and the provider
\* repeats itself: the one that comes second to a restoration finds nothing to restore.
THEOREM TwoWorkersCountOnce ==
  ASSUME TwoWorkers
  PROVE  Spec => []MoneyCountedOnce
<1>1. Init => PairInv
  <2>1. SUFFICES ASSUME Init PROVE PairInv  OBVIOUS
  <2>2. CartInv /\ WorkTypes  BY <2>1, InitInv
  <2>3. IsFiniteSet(ledger) /\ MoneyCountedOnce
    <3>1. \A c \in Carts : {p \in ledger : CartOf(p) = c} = {} /\ amount[c] = 0
      BY <2>1 DEF Init
    <3>. QED  BY <2>1, <3>1, FS_EmptySet DEF Init, MoneyCountedOnce
  <2>4. \A t \in Tasks : tasks[t].step = "idle"  BY <2>1 DEF Init, Nothing
  <2>5. \A c \in Carts : rows[c].status \notin Terminated /\ panel[c] = "idle"
    BY <2>1 DEF Init, NewRow, Terminated
  <2>. QED
    BY <2>2, <2>3, <2>4, <2>5
    DEF PairInv, PanelIsIdle, TerminatedIsClear, RestoresAreSafe
<1>2. PairInv /\ [Next]_vars => PairInv'
  <2>1. SUFFICES ASSUME PairInv, [Next]_vars PROVE PairInv'  OBVIOUS
  <2>2. CASE UNCHANGED vars
    <3>1. CartInv' /\ WorkTypes'  BY <2>1, NextInv DEF PairInv
    <3>2. \A t \in Tasks : Safe(t) => Safe(t)'
      BY <2>2 DEF vars, cartVars, payVars, Safe, Awaits, Unfit, Past, Demotes
    <3>. QED
      BY <2>1, <2>2, <3>1, <3>2
      DEF vars, cartVars, PairInv, PanelIsIdle, TerminatedIsClear, MoneyCountedOnce,
          RestoresAreSafe
  <2>3. \A c \in Carts : ~PanelNext(c)
    BY <2>1, PanelLoss DEF TwoWorkers, PairInv
  <2>. QED
    BY <2>1, <2>2, <2>3, GatewayPair, TaskPair, RowPair DEF Next
<1>3. PairInv => MoneyCountedOnce  BY DEF PairInv
<1>. QED  BY <1>1, <1>2, <1>3, PTL DEF Spec
=============================================================================
