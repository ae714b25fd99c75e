-------------------------- MODULE CouponRedemption --------------------------
(***************************************************************************)
(* Coupons of a live event (internal/coupon): a buyer applies a coupon to  *)
(* a cart and takes one of its uses; the payment confirms it; a removal,   *)
(* a refund, an expiry or a cancellation gives the use back.               *)
(*                                                                         *)
(*   max, used   coupons.max_uses (-1: the coupon was deleted), used_count *)
(*   lock        who holds the coupon's row (SELECT ... FOR UPDATE)        *)
(*   rows        coupon_redemptions by id, numbered as inserted; the id of *)
(*               a deleted row is not used again: a session may know it    *)
(*   coupon      carts.coupon_id                                           *)
(*   discount    whether carts.coupon_discount_cents is positive           *)
(*   cart, pay   carts.status and payment_status                           *)
(*   facts       cart.paid, cart.refunded, cart.expired or cart.cancelled  *)
(*               of the cart; EventOutbox delivers each late and repeatedly*)
(*   pc, job     the next step of each request or task, and what it read   *)
(*                                                                         *)
(* Abstractions: amounts, the coupon's window and minimum (an apply may be *)
(* refused for any reason), coupon.* facts, which only telemetry reads.    *)
(***************************************************************************)
EXTENDS Integers, FiniteSets

CONSTANTS Carts, Coupons, Sessions,
          BuyerOf,    \* carts.platform_user_id
          MaxUses,    \* bound: what the merchant may set max_uses to
          MaxRows,    \* bound: redemptions ever inserted
          None        \* no coupon, no session

ASSUME CouponAssumption ==
  /\ MaxUses \in Nat /\ MaxRows \in Nat /\ IsFiniteSet(Coupons)
  /\ None \notin Carts \cup Coupons \cup Sessions

VARIABLES max, used, lock, rows, coupon, discount, cart, pay, facts, pc, job

couponVars == <<max, used, lock>>
cartVars   == <<coupon, discount>>
lifeVars   == <<cart, pay, facts>>
vars       == <<couponVars, rows, cartVars, lifeVars, pc, job>>

LiveStatus  == {"reserved", "confirmed"}
EndedStatus == {"expired", "refunded"}
Ids  == 1 .. MaxRows
Row  == [cart : Carts, coupon : Coupons, status : LiveStatus \cup EndedStatus \cup {"deleted"}]
Unused == [cart |-> None, coupon |-> None, status |-> "deleted"]
Job  == [cart : Carts, coupon : Coupons \cup {None}, row : Ids \cup {0}]
Step == {"lock", "insert", "load", "price", "remove", "confirm", "refund", "expire"}

RowType ==
  /\ max \in [Coupons -> -1 .. MaxUses] /\ used \in [Coupons -> Nat]
  /\ lock \in [Coupons -> Sessions \cup {None}]
  /\ rows \in [Ids -> Row \cup {Unused}]
  /\ coupon \in [Carts -> Coupons \cup {None}] /\ discount \in [Carts -> BOOLEAN]
  /\ cart \in [Carts -> {"open", "expired", "cancelled"}]
  /\ pay \in [Carts -> {"pending", "paid", "refunded"}]
  /\ facts \in [Carts -> SUBSET {"paid", "refunded", "ended"}]

JobType ==
  /\ pc \in [Sessions -> Step \cup {"idle"}]
  /\ job \in [Sessions -> Job \cup {<<>>}]
  /\ \A s \in Sessions :
       /\ pc[s] # "idle" => job[s] \in Job
       /\ pc[s] \notin {"idle", "load"} => job[s].coupon \in Coupons
       /\ pc[s] \in {"confirm", "refund", "expire"} =>
            job[s].row \in Ids /\ rows[job[s].row] \in Row

TypeOK == RowType /\ JobType

Init ==
  /\ max \in [Coupons -> 0 .. MaxUses] /\ used = [k \in Coupons |-> 0]
  /\ lock = [k \in Coupons |-> None] /\ rows = [i \in Ids |-> Unused]
  /\ coupon = [c \in Carts |-> None] /\ discount = [c \in Carts |-> FALSE]
  /\ cart = [c \in Carts |-> "open"] /\ pay = [c \in Carts |-> "pending"]
  /\ facts = [c \in Carts |-> {}]
  /\ pc = [s \in Sessions |-> "idle"] /\ job = [s \in Sessions |-> <<>>]

----------------------------------------------------------------------------
RowOf(c)   == {i \in Ids : rows[i].cart = c /\ rows[i].status # "deleted"}
LiveOf(k)  == {i \in Ids : rows[i].coupon = k /\ rows[i].status \in LiveStatus}
NextId(i)  == rows[i] = Unused /\ \A j \in Ids : j < i => rows[j] # Unused
InsertableTwice(c, k) ==                                           \* mutant
  \A i \in LiveOf(k) : BuyerOf[rows[i].cart] # BuyerOf[c]
\* Unique indexes: one redemption per cart, one live one per coupon and buyer.
Insertable(c, k) ==
  /\ RowOf(c) = {}
  /\ \A i \in LiveOf(k) : BuyerOf[rows[i].cart] # BuyerOf[c]

\* GREATEST(used_count - 1, 0), whatever the redemption's update found.
NegativeUse(k) == [used EXCEPT ![k] = @ - 1]                       \* mutant
KeptUse(k)  == used                                                \* mutant
FreedUse(k) == [used EXCEPT ![k] = IF @ > 0 THEN @ - 1 ELSE 0]

Starts(s, step, c, k, i) ==
  /\ pc[s] = "idle"
  /\ pc' = [pc EXCEPT ![s] = step]
  /\ job' = [job EXCEPT ![s] = [cart |-> c, coupon |-> k, row |-> i]]
At(s, step) == pc[s] = step
Goto(s, step) == pc' = [pc EXCEPT ![s] = step] /\ UNCHANGED job
Done(s) == pc' = [pc EXCEPT ![s] = "idle"] /\ job' = [job EXCEPT ![s] = <<>>]
Locked(s) == lock' = [k \in Coupons |-> IF lock[k] = s THEN None ELSE lock[k]]

----------------------------------------------------------------------------
(* The life of the cart: PaymentReconciliation and CartInventory. *)

Emits(c, f) == facts' = [facts EXCEPT ![c] = @ \cup {f}]

\* A payment also restores a cart the store cancelled.
CartIsPaid(c) ==
  /\ pay[c] = "pending" /\ cart[c] # "expired"
  /\ pay' = [pay EXCEPT ![c] = "paid"] /\ cart' = [cart EXCEPT ![c] = "open"]
  /\ Emits(c, "paid")
  /\ UNCHANGED <<couponVars, rows, cartVars, pc, job>>

CartIsRefunded(c) ==
  /\ pay[c] = "paid"
  /\ pay' = [pay EXCEPT ![c] = "refunded"] /\ Emits(c, "refunded")
  /\ UNCHANGED <<couponVars, rows, cartVars, cart, pc, job>>

CartEnds(c) ==
  /\ pay[c] = "pending" /\ cart[c] = "open"
  /\ \E status \in {"expired", "cancelled"} : cart' = [cart EXCEPT ![c] = status]
  /\ Emits(c, "ended")
  /\ UNCHANGED <<couponVars, rows, cartVars, pay, pc, job>>

\* UPDATE coupons waits for the row's lock.
MerchantEdits(k) ==
  /\ lock[k] = None /\ max[k] >= 0
  /\ \E m \in 0 .. MaxUses : max' = [max EXCEPT ![k] = m]
  /\ UNCHANGED <<used, lock, rows, cartVars, lifeVars, pc, job>>

\* ON DELETE RESTRICT: not while a redemption refers to it.
MerchantDeletes(k) ==
  /\ lock[k] = None /\ max[k] >= 0
  /\ \A i \in Ids : rows[i].coupon = k => rows[i].status = "deleted"
  /\ max' = [max EXCEPT ![k] = -1] /\ used' = [used EXCEPT ![k] = 0]
  /\ UNCHANGED <<lock, rows, cartVars, lifeVars, pc, job>>

----------------------------------------------------------------------------
(* ApplyToCart: the cart is read without a lock, then the coupon is locked. *)

LoadsCart(s, c, k) ==
  /\ pay[c] # "paid" /\ cart[c] # "expired" /\ coupon[c] = None
  /\ Starts(s, "lock", c, k, 0)
  /\ UNCHANGED <<couponVars, rows, cartVars, lifeVars>>

ReadsCoupon(s) ==                                                  \* mutant
  /\ At(s, "lock") /\ used[job[s].coupon] < max[job[s].coupon]
  /\ Goto(s, "insert")
  /\ UNCHANGED <<couponVars, rows, cartVars, lifeVars>>

LocksCoupon(s) ==
  LET k == job[s].coupon IN
  /\ At(s, "lock") /\ lock[k] = None /\ used[k] < max[k]
  /\ lock' = [lock EXCEPT ![k] = s]
  /\ Goto(s, "insert")
  /\ UNCHANGED <<max, used, rows, cartVars, lifeVars>>

\* Not active, outside its window, fully redeemed, below the minimum purchase.
RefusesCoupon(s) ==
  /\ At(s, "lock") /\ lock[job[s].coupon] = None
  /\ Done(s) /\ UNCHANGED <<couponVars, rows, cartVars, lifeVars>>

Redeems(s) ==
  LET c == job[s].cart  k == job[s].coupon IN
  /\ At(s, "insert") /\ Insertable(c, k)
  /\ \E i \in Ids :
       NextId(i) /\ rows' = [rows EXCEPT ![i] = [cart |-> c, coupon |-> k, status |-> "reserved"]]
  /\ used' = [used EXCEPT ![k] = @ + 1]
  /\ coupon' = [coupon EXCEPT ![c] = k] /\ discount' = [discount EXCEPT ![c] = TRUE]
  /\ Locked(s) /\ Done(s)
  /\ UNCHANGED <<max, lifeVars>>

\* A unique violation, an error, or a process that dies: the transaction rolls back.
RollsBack(s) ==
  /\ pc[s] # "idle"
  /\ Locked(s) /\ Done(s)
  /\ UNCHANGED <<max, used, rows, cartVars, lifeVars>>

----------------------------------------------------------------------------
(* RemoveFromCart, and the removal a cart edit makes (OnCartMutated). *)

LoadsForRemoval(s, c) ==
  /\ pay[c] # "paid" /\ coupon[c] # None
  /\ Starts(s, "remove", c, coupon[c], 0)
  /\ UNCHANGED <<couponVars, rows, cartVars, lifeVars>>

\* The edit is committed; the reevaluation that follows it is a call of its own.
EditsCart(s, c) ==
  /\ pay[c] = "pending" /\ cart[c] = "open"
  /\ Starts(s, "load", c, None, 0)
  /\ UNCHANGED <<couponVars, rows, cartVars, lifeVars>>

\* No redemption: nothing to do.  Otherwise the subtotal decides: reprice, or remove.
Reevaluates(s) ==
  LET c == job[s].cart IN
  /\ At(s, "load")
  /\ \/ RowOf(c) = {} /\ Done(s)
     \/ \E i \in RowOf(c) :
          /\ \E step \in {"price", "remove"} : pc' = [pc EXCEPT ![s] = step]
          /\ job' = [job EXCEPT ![s] = [cart |-> c, coupon |-> rows[i].coupon, row |-> i]]
  /\ UNCHANGED <<couponVars, rows, cartVars, lifeVars>>

\* UpdateCartCouponDiscount: by cart id, outside any transaction.
Reprices(s) ==
  /\ At(s, "price")
  /\ \E positive \in BOOLEAN : discount' = [discount EXCEPT ![job[s].cart] = positive]
  /\ Done(s)
  /\ UNCHANGED <<couponVars, rows, coupon, lifeVars>>

\* The use of the coupon that was read goes back, the cart's redemption is deleted.
ClearedCart(c) == [coupon EXCEPT ![c] = None]
Removes(s) ==
  LET c == job[s].cart  k == job[s].coupon IN
  /\ At(s, "remove") /\ lock[k] = None
  /\ used' = FreedUse(k)
  /\ rows' = [i \in Ids |->
                IF i \in RowOf(c) THEN [rows[i] EXCEPT !.status = "deleted"] ELSE rows[i]]
  /\ coupon' = ClearedCart(c) /\ discount' = [discount EXCEPT ![c] = FALSE]
  /\ Done(s)
  /\ UNCHANGED <<max, lock, lifeVars>>

----------------------------------------------------------------------------
(* The handlers of the cart's facts: each reads the redemption, then writes. *)

LoadsRedemption(s, c, fact, step, statuses) ==
  /\ fact \in facts[c]
  /\ \E i \in RowOf(c) :
       rows[i].status \in statuses /\ Starts(s, step, c, rows[i].coupon, i)
  /\ UNCHANGED <<couponVars, rows, cartVars, lifeVars>>

Confirming(s, c) == LoadsRedemption(s, c, "paid", "confirm", {"reserved"})
Refunding(s, c)  == LoadsRedemption(s, c, "refunded", "refund",
                                    {"reserved", "confirmed", "expired"})
Expiring(s, c)   == LoadsRedemption(s, c, "ended", "expire", {"reserved"})

\* UPDATE ... WHERE id = ? AND status IN (from).
MarkedAnyway(i, from, to) == [rows EXCEPT ![i].status = to]        \* mutant
Marked(i, from, to) ==
  IF rows[i].status \in from THEN [rows EXCEPT ![i].status = to] ELSE rows

Confirms(s) ==
  /\ At(s, "confirm")
  /\ rows' = Marked(job[s].row, {"reserved"}, "confirmed")
  /\ Done(s)
  /\ UNCHANGED <<couponVars, cartVars, lifeVars>>

\* The coupon is locked, the redemption is not read again.
GivesBack(s, step, from, to) ==
  LET k == job[s].coupon IN
  /\ At(s, step) /\ lock[k] = None
  /\ rows' = Marked(job[s].row, from, to)
  /\ used' = FreedUse(k)
  /\ Done(s)
  /\ UNCHANGED <<max, lock, cartVars, lifeVars>>

Refunds(s) == GivesBack(s, "refund", {"reserved", "confirmed"}, "refunded")
Expires(s) == GivesBack(s, "expire", {"reserved"}, "expired")

----------------------------------------------------------------------------
Next ==
  \/ \E c \in Carts : CartIsPaid(c) \/ CartIsRefunded(c) \/ CartEnds(c)
  \/ \E k \in Coupons : MerchantEdits(k) \/ MerchantDeletes(k)
  \/ \E s \in Sessions, c \in Carts :
       \/ \E k \in Coupons : LoadsCart(s, c, k)
       \/ LoadsForRemoval(s, c) \/ EditsCart(s, c)
       \/ Confirming(s, c) \/ Refunding(s, c) \/ Expiring(s, c)
  \/ \E s \in Sessions :
       \/ LocksCoupon(s) \/ RefusesCoupon(s) \/ Redeems(s) \/ RollsBack(s)
       \/ Reevaluates(s) \/ Reprices(s) \/ Removes(s)
       \/ Confirms(s) \/ Refunds(s) \/ Expires(s)

Spec == Init /\ [][Next]_vars

----------------------------------------------------------------------------
(* Properties. *)

\* used_count never grows past max_uses, whatever applies, removals, edits of the
\* coupon and payments run at the same time: the row lock taken before the check is
\* held until the increment (service.go:224).
NeverPastMax == [][\A k \in Coupons : used'[k] > used[k] => used'[k] <= max'[k]]_vars

\* carts.coupon_id and coupon_redemptions agree: the cart shows a coupon exactly when
\* it has the redemption of that coupon, and never two, although every request reads
\* the cart before it holds anything (service.go:245, :375, :519).
CartShowsRedemption ==
  \A c \in Carts :
    /\ Cardinality(RowOf(c)) <= 1
    /\ coupon[c] = None <=> RowOf(c) = {}
    /\ \A i \in RowOf(c) : rows[i].coupon = coupon[c]

\* A redemption that was given back is never confirmed afterwards: a late or repeated
\* cart.paid finds it expired or refunded (repository.go:521).
EndedStaysEnded ==
  [][\A i \in Ids :
       rows[i].status \in EndedStatus => rows'[i].status \in {rows[i].status, "deleted"}]_vars

\* Where the event has one coupon no use is lost: used_count counts live redemptions
\* only.  (With two, a removal that read the old coupon deletes the redemption of the
\* new one, whose use is never given back.)
NoUseIsLost ==
  Cardinality(Coupons) = 1 => \A k \in Coupons : used[k] <= Cardinality(LiveOf(k))

\* An apply never makes more live redemptions than max_uses allows (service.go:224-226).
NeverOverRedeems ==
  [][\A k \in Coupons :
       Cardinality(LiveOf(k)') > Cardinality(LiveOf(k)) => Cardinality(LiveOf(k)') <= max'[k]]_vars

\* A cart without a coupon has no discount: what the gateway is asked for is trusted to
\* have been computed under a row lock (checkout/service.go:553-556).
NoPhantomDiscount == \A c \in Carts : discount[c] => coupon[c] # None
=============================================================================
