--------------------------- MODULE CartInventory ---------------------------
(***************************************************************************)
(* The units of one product and the carts that hold them or wait for them. *)
(* Every action is one committed transaction of the Go code (the explicit  *)
(* row locks and advisory locks make each of them atomic); the one flow    *)
(* that is NOT a single transaction, the panel's regenerate-link request,  *)
(* is two steps.                                                           *)
(*                                                                         *)
(*   stock       products.stock; negative when a payment retook units that *)
(*               another buyer already holds                               *)
(*   held[c]     cart_items.quantity - waitlisted_quantity                 *)
(*   waiting[c]  cart_items.waitlisted_quantity                            *)
(*   requests    the open rows of waitlist_items; `ahead' is the order by  *)
(*               (created_at, queue_sequence)                              *)
(*   money       the carts with a row in cart_payments                     *)
(*   ended       events with commercial_closed_at                          *)
(*                                                                         *)
(* Abstractions: one product with one price lot per cart line; the carts   *)
(* exist from the start and belong to different (event, buyer) pairs, so   *)
(* the partial unique index on open carts never refuses a write; every     *)
(* added quantity is taken from Quantities.                                *)
(***************************************************************************)
EXTENDS CartRow, FiniteSets

CONSTANTS
  Events,        \* live events, each the set of its carts
  Lots,          \* waitlist_items ids: bounds how many requests are open at once
  Nobody,        \* the cart of a closed request
  InitialStock,
  MaxUnits,      \* stores.cart_max_quantity_per_item, 0 = no limit
  Quantities,    \* quantities a comment may ask for
  PanelBound,    \* bound: the panel rewrites rows only while stock is at most this
  Writers        \* who else writes the rows: a subset of Parties

Parties == {"payment", "review", "store", "erp", "regenerate", "panel"}

\* The carts of one store and the waiting rows of one product are finitely many.
ASSUME CartInventoryAssumption ==
  /\ IsFiniteSet(Carts) /\ IsFiniteSet(Lots)
  /\ Events \subseteq SUBSET Carts
  /\ Nobody \notin Carts
  /\ InitialStock \in Nat
  /\ MaxUnits \in Nat
  /\ PanelBound \in Nat
  /\ Quantities \subseteq Nat \ {0}
  /\ Writers \subseteq Parties

VARIABLES rows, stock, held, waiting, requests, money, ended, regenerating

vars  == <<rows, stock, held, waiting, requests, money, ended, regenerating>>
items == <<stock, held, waiting, requests>>
flows == <<ended, regenerating>>

Closed  == [cart |-> Nobody, qty |-> 0, ahead |-> {}]
Request == [cart : Carts, qty : Nat \ {0}, ahead : SUBSET Lots]

TypeOK ==
  /\ rows \in [Carts -> Row]
  /\ stock \in Int
  /\ held \in [Carts -> Nat]
  /\ waiting \in [Carts -> Nat]
  /\ requests \in [Lots -> Request \cup {Closed}]
  /\ money \subseteq Carts
  /\ ended \subseteq Events
  /\ regenerating \subseteq Carts

Init ==
  /\ rows = [c \in Carts |-> NewRow]
  /\ stock = InitialStock
  /\ held = [c \in Carts |-> 0]
  /\ waiting = [c \in Carts |-> 0]
  /\ requests = [l \in Lots |-> Closed]
  /\ money = {}
  /\ ended = {}
  /\ regenerating = {}

----------------------------------------------------------------------------
(* The waiting list. *)

Least(a, b)   == IF a < b THEN a ELSE b
AtLeast0(n)   == IF n < 0 THEN 0 ELSE n
Waitlist      == {l \in Lots : requests[l].cart # Nobody}
RequestsOf(C) == {l \in Lots : requests[l].cart \in C}

\* waitlist_items without the rows in D, which their carts no longer want.
Without(D) ==
  [l \in Lots |-> IF l \in D THEN Closed
                  ELSE [requests[l] EXCEPT !.ahead = @ \ D]]

\* n units reach the request; it leaves the list once it is fulfilled.
ServeLeavesOpen(l, n) == [requests EXCEPT ![l].qty = @ - n]        \* mutant
Serve(l, n) ==
  IF n = requests[l].qty THEN Without({l})
  ELSE [requests EXCEPT ![l].qty = @ - n]

\* INSERT INTO waitlist_items: c queues n units behind every open request.
EnqueueLost(c, n) == UNCHANGED requests                            \* mutant
Enqueue(c, n) ==
  \E l \in Lots \ Waitlist :
    requests' = [requests EXCEPT ![l] = [cart |-> c, qty |-> n, ahead |-> Waitlist]]

\* The cart of a request and the cart that owns its purchase: both must qualify.
Sides(l) == {requests[l].cart, Owner[requests[l].cart]}

Buying(c)   == rows[c].status \in Open /\ Unsettled(rows[c])
EligibleInCheckout(c) ==                                           \* mutant
  rows[c].status = "checkout" /\ Unsettled(rows[c]) /\ Running(rows, c)
Eligible(c) == Buying(c) /\ ~rows[c].closed /\ rows[c].accepts /\ Running(rows, c)

\* The requests PromoteNextWaitlistEntry selects from.
Candidates == {l \in Waitlist : \A c \in Sides(l) : Eligible(c)}
Head(l)    == l \in Candidates /\ requests[l].ahead \cap Candidates = {}

\* applyCommentItem decides "someone older is waiting" with a predicate of its
\* own: closed, blocked and VIP carts are not told apart there.
InTimeForComment(c) == Buying(c) /\ (c \in Eternal \/ rows[c].deadline # "due")
NobodyIsOlder       == FALSE                                       \* mutant
OlderBlocksComment  == \E l \in Waitlist : \A c \in Sides(l) : InTimeForComment(c)

\* TakeStockForReopen has a third one.
InTimeForReopen(c)  == Buying(c) /\ Running(rows, c)
OlderBlocksReopen   == \E l \in Waitlist : \A c \in Sides(l) : InTimeForReopen(c)

----------------------------------------------------------------------------
(* Writing a row.  Two triggers run in the same transaction: the purchases *)
(* joined to c are closed (WriteRow) and, when c settled or terminated just *)
(* now, the waiting demand of c and of the carts joined to it is dropped.   *)

FlipsOnPaymentOnly(c, r) == r.pay \in Settled /\ rows[c].pay # r.pay   \* mutant
FlipsClosed(c, r) ==
  Closes(r) /\ <<rows[c].status, rows[c].pay>> # <<r.status, r.pay>>

WaitingAfterOwnClose(c) == [waiting EXCEPT ![c] = 0]                \* mutant
WaitingAfterClose(c)    == [x \in Carts |-> IF x \in Purchase(c) THEN 0 ELSE waiting[x]]

Write(c, r) ==
  /\ rows' = WriteRow(rows, c, r)
  /\ IF FlipsClosed(c, r)
     THEN /\ requests' = Without(RequestsOf(Purchase(c)))
          /\ waiting' = WaitingAfterClose(c)
     ELSE UNCHANGED <<requests, waiting>>

----------------------------------------------------------------------------
(* Buyers. *)

Accepted(c, q) ==
  IF MaxUnits = 0 THEN q ELSE Least(q, AtLeast0(MaxUnits - (held[c] + waiting[c])))

AddCommentItem(c, q) ==
  LET n   == Accepted(c, q)
      got == IF OlderBlocksComment THEN 0 ELSE Least(n, AtLeast0(stock))
  IN
  /\ Admits(rows[c]) /\ Admits(rows[Owner[c]])
  /\ n > 0
  /\ stock' = stock - got
  /\ held' = [held EXCEPT ![c] = @ + got]
  /\ waiting' = [waiting EXCEPT ![c] = @ + (n - got)]
  /\ IF n > got THEN Enqueue(c, n - got) ELSE UNCHANGED requests
  /\ UNCHANGED <<money, rows, flows>>

CancelWaitingRequest(l) ==
  LET c == requests[l].cart  n == requests[l].qty IN
  /\ l \in Waitlist
  /\ Buying(c)
  /\ waiting[c] >= n           \* else "waitlist/cart quantity mismatch"
  /\ requests' = Without({l})
  /\ waiting' = [waiting EXCEPT ![c] = @ - n]
  /\ UNCHANGED <<money, rows, stock, held, flows>>

\* The head request is locked, re-read (the review flag is looked at only here)
\* and served; a head that cannot be served defers everybody behind it.
PromoteNextWaitlistEntry(l) ==
  LET c == requests[l].cart
      n == Least(stock, requests[l].qty)
  IN
  /\ Head(l)
  /\ ~rows[c].review /\ ~rows[Owner[c]].review
  /\ stock > 0
  /\ waiting[c] >= requests[l].qty
  /\ stock' = stock - n
  /\ held' = [held EXCEPT ![c] = @ + n]
  /\ waiting' = [waiting EXCEPT ![c] = @ - n]
  /\ requests' = Serve(l, n)
  /\ UNCHANGED <<money, rows, flows>>

----------------------------------------------------------------------------
(* The end of a live event and the deadline it starts. *)

Arm(d) == IF d = "none" THEN "armed" ELSE d     \* GREATEST(expires_at, E + X)

\* commercial_closed_at is set; the trigger gives every open cart its deadline.
CloseEvent(e) ==
  /\ e \notin ended
  /\ ended' = ended \cup {e}
  /\ rows' = [c \in Carts |->
       IF c \in e /\ Buying(c) /\ ~Protected(c)
       THEN [rows[c] EXCEPT !.deadline = Arm(@)] ELSE rows[c]]
  /\ UNCHANGED <<money, items, regenerating>>

FinalizeCartsByEvent(e) ==
  /\ e \in ended
  /\ \E c \in e : rows[c].status = "active" /\ Unsettled(rows[c]) /\ ~Protected(c)
  /\ rows' = [c \in Carts |->
       IF c \in e /\ rows[c].status = "active" /\ Unsettled(rows[c]) /\ ~Protected(c)
       THEN [rows[c] EXCEPT !.status = "checkout", !.deadline = Arm(@)] ELSE rows[c]]
  /\ UNCHANGED <<money, items, flows>>

\* Time passes (external).
DeadlinePasses(c) ==
  /\ rows[c].deadline = "armed" /\ rows[c].status \in Open
  /\ rows' = [rows EXCEPT ![c].deadline = "due"]
  /\ UNCHANGED <<money, items, flows>>

ExpireCartAndReleaseStock(c) ==
  /\ Expirable(rows, c)
  /\ Write(c, ExpiredRow(rows[c]))
  /\ stock' = stock + held[c]
  /\ UNCHANGED <<money, held, flows>>

----------------------------------------------------------------------------
(* The store and the ERP. *)

CancelCart(c) ==
  /\ "store" \in Writers
  /\ StoreCancellable(rows, c)
  /\ Write(c, CancelledRow(rows[c], "store_cancelled"))
  /\ stock' = stock + held[c]
  /\ UNCHANGED <<money, held, flows>>

\* The ERP reports a status of the order: closed for new items, or alive again.
\* A joined cart has no ERP order of its own.
RecordERPOrderStatus(c) ==
  /\ "erp" \in Writers /\ ~Joined(c)
  /\ rows' = [rows EXCEPT ![c].accepts = ~@]
  /\ UNCHANGED <<money, items, flows>>

CancelCartFromERP(c) ==
  /\ "erp" \in Writers /\ ~Joined(c)
  /\ ~rows[c].accepts
  /\ ErpCancellable(rows, c)
  /\ Write(c, CancelledRow(rows[c], "erp_cancelled"))
  /\ stock' = stock + held[c]
  /\ UNCHANGED <<money, held, flows>>

\* Takes back what is still there and queues the rest: the units of the line
\* that could not be retaken become waiting units.
ReopenCancelledCartFromERP(c) ==
  LET got == IF OlderBlocksReopen THEN 0 ELSE Least(AtLeast0(stock), held[c]) IN
  /\ "erp" \in Writers /\ ~Joined(c)
  /\ rows[c].accepts
  /\ Reopenable(rows[c])
  /\ rows' = WriteRow(rows, c, ReopenedRow(c, rows[c]))
  /\ stock' = stock - got
  /\ held' = [held EXCEPT ![c] = got]
  /\ waiting' = [waiting EXCEPT ![c] = held[c] - got]
  /\ IF held[c] > got THEN Enqueue(c, held[c] - got) ELSE UNCHANGED requests
  /\ UNCHANGED <<money, flows>>

----------------------------------------------------------------------------
(* Payments: what the payment pipeline does to a row and to its units.     *)

UpdateCartPaymentPaid(c) ==
  /\ "payment" \in Writers
  /\ Payable(rows[c])
  /\ Write(c, PaidRow(rows[c]))
  /\ money' = money \cup {c}
  /\ UNCHANGED <<stock, held, flows>>

\* The charge does not match the quote it was created for.  No status guard:
\* the money arrived, whatever the cart is.
VerifyPaymentAttemptReview(c) ==
  /\ "review" \in Writers
  /\ Write(c, ReviewRow(rows[c]))
  /\ money' = money \cup {c}
  /\ UNCHANGED <<stock, held, flows>>

RetakeFloored(c) == stock - Least(AtLeast0(stock), held[c])          \* mutant
Retake(c)        == stock - held[c]     \* ForceDecrementProductStock: no floor at zero

\* Payment wins over the store's cancellation and takes the units back.
RestoreCancelledCartAsPaid(c) ==
  /\ "payment" \in Writers
  /\ Restorable(rows[c])
  /\ Write(c, RestoredRow(rows[c]))
  /\ stock' = Retake(c)
  /\ money' = money \cup {c}
  /\ UNCHANGED <<held, flows>>

MarkCartRefunded(c) ==
  /\ "payment" \in Writers
  /\ rows[c].pay = "paid"
  /\ Write(c, [rows[c] EXCEPT !.pay = "refunded"])
  /\ UNCHANGED <<money, stock, held, flows>>

\* The refund kills the cart; its units come back through the ERP's own stock.
CancelCartOnRefund(c) ==
  /\ "payment" \in Writers
  /\ RefundKills(rows[c])
  /\ Write(c, CancelledRow(rows[c], "refunded"))
  /\ UNCHANGED <<money, stock, held, flows>>

----------------------------------------------------------------------------
(* The panel. *)

\* Service.RegenerateCheckout reads the cart ...
RegenerateRead(c) ==
  /\ "regenerate" \in Writers /\ stock <= PanelBound
  /\ c \notin regenerating
  /\ rows[c].pay # "paid" /\ rows[c].status # "cancelled"
  /\ regenerating' = regenerating \cup {c}
  /\ UNCHANGED <<money, rows, items, ended>>

\* ... and Repository.RegenerateCheckout writes it, with no guard of its own.
RegenerateWrite(c) ==
  /\ c \in regenerating
  /\ Write(c, RegeneratedRow(rows[c]))
  /\ regenerating' = regenerating \ {c}
  /\ UNCHANGED <<money, stock, held, ended>>

\* The panel's status field is written as it comes.
UpdateStatus(c, s) ==
  /\ "panel" \in Writers /\ stock <= PanelBound
  /\ Write(c, [rows[c] EXCEPT !.status = s])
  /\ UNCHANGED <<money, stock, held, flows>>

UpdatePaymentStatus(c) ==
  /\ "panel" \in Writers /\ stock <= PanelBound
  /\ Write(c, [rows[c] EXCEPT !.pay = "pending"])
  /\ UNCHANGED <<money, stock, held, flows>>

----------------------------------------------------------------------------
CartStep(c) ==
  \/ \E q \in Quantities : AddCommentItem(c, q)
  \/ DeadlinePasses(c)
  \/ ExpireCartAndReleaseStock(c)
  \/ CancelCart(c)
  \/ RecordERPOrderStatus(c)
  \/ CancelCartFromERP(c)
  \/ ReopenCancelledCartFromERP(c)
  \/ UpdateCartPaymentPaid(c)
  \/ VerifyPaymentAttemptReview(c)
  \/ RestoreCancelledCartAsPaid(c)
  \/ MarkCartRefunded(c)
  \/ CancelCartOnRefund(c)
  \/ RegenerateRead(c)
  \/ RegenerateWrite(c)
  \/ \E s \in {"active", "checkout", "completed", "expired"} : UpdateStatus(c, s)
  \/ UpdatePaymentStatus(c)

LotStep(l)   == CancelWaitingRequest(l) \/ PromoteNextWaitlistEntry(l)
EventStep(e) == CloseEvent(e) \/ FinalizeCartsByEvent(e)

Next ==
  \/ \E c \in Carts : CartStep(c)
  \/ \E l \in Lots : LotStep(l)
  \/ \E e \in Events : EventStep(e)

Spec == Init /\ [][Next]_vars

\* stock.released, waitlist.queued and the expiry tasks are delivered at least
\* once and retried until they succeed, so promotion and expiry are never
\* postponed for ever while they stay possible.
Fairness ==
  /\ \A c \in Carts : WF_vars(ExpireCartAndReleaseStock(c))
  /\ WF_vars(\E l \in Lots : PromoteNextWaitlistEntry(l))

FairSpec == Spec /\ Fairness

----------------------------------------------------------------------------
(* Properties. *)

\* The units of these carts went back to products.stock.
Released(c) ==
  rows[c].status \in Terminated /\ rows[c].reason \in HumanCancel \cup {"expired"}

\* The sum of n over S, counted unit by unit.
Units(n, S) == Cardinality(UNION {{x} \X (1 .. n[x]) : x \in S})

Live      == {c \in Carts : ~Released(c)}
HeldUnits == Units(held, Live)

\* No unit is created or lost: what is on the shelf plus what live carts hold is
\* what the store started with, through any order of sale, promotion, expiry,
\* cancellation, payment, restore and reopen.
UnitsConserved == stock + HeldUnits = InitialStock

Asked == [l \in Lots |-> requests[l].qty]

\* cart_items.waitlisted_quantity and the open waitlist_items of the cart say the
\* same; the allocator refuses to work ("waitlist/cart quantity mismatch") when
\* they do not.
WaitingMatchesRequests ==
  \A c \in Carts : waiting[c] = Units(Asked, RequestsOf({c}))

\* A purchase that was paid, cancelled or expired, or whose owner was, waits for
\* nothing: otherwise a released unit is promised to a dead checkout.
NoDemandOnClosedPurchase ==
  \A l \in Waitlist :
    LET c == requests[l].cart IN
    ~Closes(rows[c]) /\ ~Closes(rows[Owner[c]]) /\ ~rows[c].closed

\* While a request can be served, units leave the shelf for nobody but the oldest
\* such request ("The same lock prevents a new buyer from overtaking an older
\* waiting lot").  A payment that wins over a cancellation is not a new buyer.
NobodyPays == \A c \in Carts : rows'[c].pay = rows[c].pay

NoOvertaking ==
  [][stock' < stock /\ Candidates # {} /\ NobodyPays
       => \E l \in Lots : Head(l) /\ requests'[l].qty < requests[l].qty]_vars

\* Once money was recorded for an open cart, nothing ends it but its refund.
MoneyIsNeverCancelled ==
  [][\A c \in money :
       rows[c].status \in Open /\ rows'[c].status \in Terminated
         => rows'[c].reason = "refunded"]_vars

\* An open cart whose deadline passed gives its units back ("The cart deadline
\* governs all units").
DueUnitsComeBack ==
  \A c \in Carts :
    Buying(c) /\ rows[c].deadline = "due" /\ held[c] > 0
    /\ ~Protected(c) /\ ~Protected(Owner[c])
      ~> Released(c)

\* Stock on the shelf finds the waiting list.
StockReachesQueue == (stock > 0 /\ Waitlist # {}) ~> (stock <= 0 \/ Waitlist = {})
=============================================================================
