----------------------- MODULE CouponRedemptionProofs -----------------------
(***************************************************************************)
(* Proofs about CouponRedemption, for any carts, coupons and number of     *)
(* concurrent requests and tasks.                                          *)
(*                                                                         *)
(* The bound on used_count rests on the coupon's lock: whoever is about to *)
(* insert a redemption holds it, and the count it checked is still below   *)
(* the maximum (HolderChecked).  Only the holder, or a transaction that    *)
(* finds the coupon unlocked, writes the coupon's row.                     *)
(*                                                                         *)
(* A cart and its redemption agree because the unique keys decide and not  *)
(* what was read (Agrees).  With one coupon whatever gives a use back      *)
(* takes at most one live redemption away, so uses are no more than        *)
(* redemptions (UsesCounted).                                              *)
(***************************************************************************)
EXTENDS CouponRedemption, FiniteSetTheorems, TLAPS

\* What the holder of a coupon's lock knows.
HolderChecked ==
  \A s \in Sessions : pc[s] = "insert" =>
    /\ lock[job[s].coupon] = s
    /\ used[job[s].coupon] < max[job[s].coupon]

LEMMA MarkedRow ==
  ASSUME NEW r \in Row, NEW to \in LiveStatus \cup EndedStatus \cup {"deleted"}
  PROVE  [r EXCEPT !.status = to] \in Row
BY DEF Row

\* The redemption of a cart is a row that was inserted.
LEMMA RowOfCart ==
  ASSUME RowType, NEW c \in Carts, NEW i \in RowOf(c)
  PROVE  i \in Ids /\ rows[i] \in Row /\ rows[i].cart = c /\ rows[i].coupon \in Coupons
<1>1. i \in Ids /\ rows[i].cart = c /\ rows[i].status # "deleted"
  BY DEF RowOf
<1>2. rows[i] # Unused
  BY <1>1 DEF Unused
<1>3. rows[i] \in Row
  BY <1>1, <1>2 DEF RowType
<1> QED
  BY <1>1, <1>3 DEF Row

LEMMA StartsType ==
  ASSUME TypeOK, NEW s \in Sessions, NEW step \in Step \ {"confirm", "refund", "expire"},
         NEW c \in Carts, NEW k \in Coupons \cup {None},
         k = None => step = "load", Starts(s, step, c, k, 0),
         UNCHANGED <<couponVars, rows, cartVars, lifeVars>>
  PROVE  TypeOK'
BY DEF TypeOK, RowType, JobType, Starts, Step, Job, couponVars, cartVars, lifeVars

LEMMA DoneType ==
  ASSUME NEW s \in Sessions, Done(s),
         pc \in [Sessions -> Step \cup {"idle"}], job \in [Sessions -> Job \cup {<<>>}]
  PROVE  /\ pc' \in [Sessions -> Step \cup {"idle"}] /\ job' \in [Sessions -> Job \cup {<<>>}]
         /\ pc'[s] = "idle"
         /\ \A t \in Sessions \ {s} : pc'[t] = pc[t] /\ job'[t] = job[t]
BY DEF Done

\* Every step keeps the types of the state.
LEMMA TypeStep == TypeOK /\ [Next]_vars => TypeOK'
<1> USE CouponAssumption
<1> SUFFICES ASSUME TypeOK, [Next]_vars PROVE TypeOK'
  OBVIOUS
<1>1. ASSUME NEW c \in Carts, CartIsPaid(c) \/ CartIsRefunded(c) \/ CartEnds(c) PROVE TypeOK'
  <2>1. RowType'
    BY <1>1 DEF TypeOK, RowType, CartIsPaid, CartIsRefunded, CartEnds, Emits, couponVars, cartVars
  <2>2. UNCHANGED <<rows, pc, job>>
    BY <1>1 DEF CartIsPaid, CartIsRefunded, CartEnds
  <2> QED
    BY <2>1, <2>2 DEF TypeOK, JobType
<1>2. ASSUME NEW k \in Coupons, MerchantEdits(k) \/ MerchantDeletes(k) PROVE TypeOK'
  <2>1. RowType'
    BY <1>2 DEF TypeOK, RowType, MerchantEdits, MerchantDeletes, cartVars, lifeVars
  <2>2. UNCHANGED <<rows, pc, job>>
    BY <1>2 DEF MerchantEdits, MerchantDeletes
  <2> QED
    BY <2>1, <2>2 DEF TypeOK, JobType
<1>3. ASSUME NEW s \in Sessions, NEW c \in Carts, NEW k \in Coupons, LoadsCart(s, c, k)
      PROVE  TypeOK'
  BY <1>3, StartsType DEF LoadsCart, Step
<1>4. ASSUME NEW s \in Sessions, NEW c \in Carts, LoadsForRemoval(s, c) PROVE TypeOK'
  <2>1. coupon[c] \in Coupons
    BY <1>4 DEF LoadsForRemoval, TypeOK, RowType, JobType
  <2> QED
    BY <1>4, <2>1, StartsType DEF LoadsForRemoval, Step
<1>5. ASSUME NEW s \in Sessions, NEW c \in Carts, EditsCart(s, c) PROVE TypeOK'
  BY <1>5, StartsType DEF EditsCart, Step
<1>6. ASSUME NEW s \in Sessions, NEW c \in Carts,
             Confirming(s, c) \/ Refunding(s, c) \/ Expiring(s, c)
      PROVE  TypeOK'
  <2>1. PICK i \in RowOf(c), step \in {"confirm", "refund", "expire"} :
           /\ rows[i].status # "deleted"
           /\ Starts(s, step, c, rows[i].coupon, i)
           /\ UNCHANGED <<couponVars, rows, cartVars, lifeVars>>
    BY <1>6 DEF Confirming, Refunding, Expiring, LoadsRedemption, RowOf
  <2>2. i \in Ids /\ rows[i] \in Row
    BY <2>1, RowOfCart DEF TypeOK
  <2>3. rows[i].coupon \in Coupons
    BY <2>1, RowOfCart DEF TypeOK
  <2> QED
    BY <2>1, <2>2, <2>3 DEF TypeOK, RowType, JobType, Starts, Step, Job, couponVars, cartVars, lifeVars
<1>7. ASSUME NEW s \in Sessions, LocksCoupon(s) PROVE TypeOK'
  BY <1>7 DEF TypeOK, RowType, JobType, LocksCoupon, At, Goto, Step, cartVars, lifeVars
<1>8. ASSUME NEW s \in Sessions, RefusesCoupon(s) \/ RollsBack(s) PROVE TypeOK'
  <2>1. lock' \in [Coupons -> Sessions \cup {None}]
    BY <1>8 DEF RefusesCoupon, RollsBack, Locked, TypeOK, RowType, JobType, couponVars
  <2> QED
    BY <1>8, <2>1, DoneType
       DEF TypeOK, RowType, JobType, RefusesCoupon, RollsBack, couponVars, cartVars, lifeVars
<1>9. ASSUME NEW s \in Sessions, Redeems(s) PROVE TypeOK'
  <2>1. job[s].cart \in Carts /\ job[s].coupon \in Coupons
    BY <1>9 DEF TypeOK, RowType, JobType, Redeems, At, Job
  <2>2. PICK i \in Ids :
           rows' = [rows EXCEPT ![i] = [cart |-> job[s].cart, coupon |-> job[s].coupon,
                                        status |-> "reserved"]]
    BY <1>9 DEF Redeems
  <2>3. [cart |-> job[s].cart, coupon |-> job[s].coupon, status |-> "reserved"] \in Row
    BY <2>1 DEF Row, LiveStatus
  <2>4. /\ rows' \in [Ids -> Row \cup {Unused}]
        /\ \A j \in Ids : rows[j] \in Row => rows'[j] \in Row
    BY <2>2, <2>3 DEF TypeOK, RowType, JobType
  <2>5. /\ lock' \in [Coupons -> Sessions \cup {None}] /\ used' \in [Coupons -> Nat]
        /\ coupon' \in [Carts -> Coupons \cup {None}] /\ discount' \in [Carts -> BOOLEAN]
    BY <1>9, <2>1 DEF TypeOK, RowType, JobType, Redeems, Locked
  <2> QED
    BY <1>9, <2>4, <2>5, DoneType DEF TypeOK, RowType, JobType, Redeems, lifeVars
<1>10. ASSUME NEW s \in Sessions, Reevaluates(s) PROVE TypeOK'
  <2>1. CASE Done(s)
    BY <1>10, <2>1, DoneType DEF TypeOK, RowType, JobType, Reevaluates, couponVars, cartVars, lifeVars
  <2>2. CASE ~Done(s)
    <3>1. PICK i \in RowOf(job[s].cart), step \in {"price", "remove"} :
             /\ pc' = [pc EXCEPT ![s] = step]
             /\ job' = [job EXCEPT ![s] = [cart |-> job[s].cart,
                                           coupon |-> rows[i].coupon, row |-> i]]
      BY <1>10, <2>2 DEF Reevaluates
    <3>2. i \in Ids /\ rows[i].coupon \in Coupons /\ job[s] \in Job
      <4>1. job[s] \in Job /\ job[s].cart \in Carts
        BY <1>10 DEF TypeOK, JobType, Reevaluates, At, Job
      <4> QED
        BY <3>1, <4>1, RowOfCart DEF TypeOK
    <3>3. [cart |-> job[s].cart, coupon |-> rows[i].coupon, row |-> i] \in Job
      BY <3>2 DEF Job
    <3>4. JobType'
      BY <1>10, <3>1, <3>2, <3>3 DEF TypeOK, JobType, Reevaluates, Step
    <3> QED
      BY <1>10, <3>4 DEF TypeOK, RowType, Reevaluates, couponVars, cartVars, lifeVars
  <2> QED
    BY <2>1, <2>2
<1>11. ASSUME NEW s \in Sessions, Reprices(s) PROVE TypeOK'
  <2>1. job[s].cart \in Carts
    BY <1>11 DEF TypeOK, JobType, Reprices, At, Job
  <2>2. discount' \in [Carts -> BOOLEAN]
    BY <1>11, <2>1 DEF TypeOK, RowType, Reprices
  <2> QED
    BY <1>11, <2>2, DoneType DEF TypeOK, RowType, JobType, Reprices, couponVars, lifeVars
<1>12. ASSUME NEW s \in Sessions, Removes(s) PROVE TypeOK'
  <2>1. job[s].cart \in Carts /\ job[s].coupon \in Coupons
    BY <1>12 DEF TypeOK, RowType, JobType, Removes, At, Job
  <2>2. /\ rows' \in [Ids -> Row \cup {Unused}]
        /\ \A j \in Ids : rows[j] \in Row => rows'[j] \in Row
    <3>1. ASSUME NEW i \in Ids, i \in RowOf(job[s].cart)
          PROVE  [rows[i] EXCEPT !.status = "deleted"] \in Row
      BY <2>1, <3>1, RowOfCart, MarkedRow DEF TypeOK
    <3> QED
      BY <1>12, <3>1 DEF TypeOK, RowType, JobType, Removes
  <2>3. used' \in [Coupons -> Nat]
    BY <1>12, <2>1 DEF TypeOK, RowType, JobType, Removes, FreedUse
  <2>4. coupon' \in [Carts -> Coupons \cup {None}] /\ discount' \in [Carts -> BOOLEAN]
    BY <1>12, <2>1 DEF TypeOK, RowType, JobType, Removes, ClearedCart
  <2> QED
    BY <1>12, <2>2, <2>3, <2>4, DoneType DEF TypeOK, RowType, JobType, Removes, lifeVars
<1>13. ASSUME NEW s \in Sessions, Confirms(s) \/ Refunds(s) \/ Expires(s) PROVE TypeOK'
  <2> DEFINE i == job[s].row
  <2>1. i \in Ids /\ rows[i] \in Row /\ job[s].coupon \in Coupons
    BY <1>13 DEF TypeOK, RowType, JobType, Confirms, Refunds, Expires, GivesBack, At
  <2>2. PICK to \in LiveStatus \cup EndedStatus :
           rows' = rows \/ rows' = [rows EXCEPT ![i].status = to]
    BY <1>13 DEF Confirms, Refunds, Expires, GivesBack, Marked, LiveStatus, EndedStatus
  <2>3. /\ rows' \in [Ids -> Row \cup {Unused}]
        /\ \A j \in Ids : rows[j] \in Row => rows'[j] \in Row
    <3>1. [rows[i] EXCEPT !.status = to] \in Row
      BY <2>1, <2>2, MarkedRow
    <3>2. rows' = rows \/ rows' = [rows EXCEPT ![i] = [rows[i] EXCEPT !.status = to]]
      BY <2>2
    <3>3. rows \in [Ids -> Row \cup {Unused}] /\ i \in Ids
      BY <2>1 DEF TypeOK, RowType
    <3> HIDE DEF i
    <3>4. CASE rows' = rows
      BY <3>3, <3>4
    <3>5. CASE rows' = [rows EXCEPT ![i] = [rows[i] EXCEPT !.status = to]]
      BY <3>1, <3>3, <3>5
    <3> QED
      BY <3>2, <3>4, <3>5
  <2>4. used' \in [Coupons -> Nat]
    BY <1>13, <2>1 DEF TypeOK, RowType, JobType, Confirms, Refunds, Expires, GivesBack, FreedUse, couponVars
  <2>5. /\ UNCHANGED <<max, lock, coupon, discount, cart, pay, facts>> /\ Done(s)
    BY <1>13 DEF Confirms, Refunds, Expires, GivesBack, couponVars, cartVars, lifeVars
  <2> QED
    BY <2>3, <2>4, <2>5, DoneType DEF TypeOK, RowType, JobType
<1>14. CASE UNCHANGED vars
  BY <1>14 DEF TypeOK, RowType, JobType, vars, couponVars, cartVars, lifeVars
<1> QED
  BY <1>1, <1>2, <1>3, <1>4, <1>5, <1>6, <1>7, <1>8, <1>9, <1>10, <1>11, <1>12, <1>13, <1>14
     DEF Next

\* Type correctness: in particular a handler never marks a redemption that is no row.
THEOREM CouponTypeCorrect == Spec => []TypeOK
<1>1. Init => TypeOK
  BY CouponAssumption DEF Init, TypeOK, RowType, JobType
<1> QED
  BY <1>1, TypeStep, PTL DEF Spec

----------------------------------------------------------------------------
(* used_count stays below max_uses. *)

\* Whoever holds the lock of a coupon is the only one about to insert for it.
LEMMA HolderStep == TypeOK /\ HolderChecked /\ [Next]_vars => HolderChecked'
<1> USE CouponAssumption
<1> SUFFICES ASSUME TypeOK, HolderChecked, [Next]_vars,
                    NEW t \in Sessions, pc'[t] = "insert"
             PROVE  lock'[job'[t].coupon] = t /\ used'[job'[t].coupon] < max'[job'[t].coupon]
  BY DEF HolderChecked
<1> DEFINE k == job[t].coupon
<1>k. pc[t] = "insert" => k \in Coupons /\ lock[k] = t /\ t # None
  BY DEF TypeOK, JobType, HolderChecked
<1>1. CASE UNCHANGED <<couponVars, pc, job>>
  BY <1>1 DEF HolderChecked, couponVars
<1>2. ASSUME NEW q \in Coupons, MerchantEdits(q) \/ MerchantDeletes(q)
      PROVE  lock'[job'[t].coupon] = t /\ used'[job'[t].coupon] < max'[job'[t].coupon]
  <2>1. pc[t] = "insert" /\ job'[t] = job[t] /\ lock[q] = None /\ lock' = lock
    BY <1>2 DEF MerchantEdits, MerchantDeletes
  <2>2. k # q
    BY <1>k, <2>1
  <2>3. used'[k] = used[k] /\ max'[k] = max[k]
    BY <1>2, <1>k, <2>1, <2>2 DEF MerchantEdits, MerchantDeletes, TypeOK, RowType
  <2> QED
    BY <1>k, <2>1, <2>3 DEF HolderChecked
<1>3. ASSUME NEW s \in Sessions, NEW step \in Step \ {"insert"}, NEW c, NEW q, NEW i,
             Starts(s, step, c, q, i), UNCHANGED couponVars
      PROVE  lock'[job'[t].coupon] = t /\ used'[job'[t].coupon] < max'[job'[t].coupon]
  <2>1. t # s
    BY <1>3 DEF Starts, TypeOK, JobType
  <2> QED
    BY <1>3, <2>1 DEF Starts, TypeOK, JobType, HolderChecked, couponVars
<1>4. ASSUME NEW s \in Sessions, LocksCoupon(s)
      PROVE  lock'[job'[t].coupon] = t /\ used'[job'[t].coupon] < max'[job'[t].coupon]
  <2>1. job' = job /\ used' = used /\ max' = max /\ job[s].coupon \in Coupons
    BY <1>4 DEF LocksCoupon, Goto, At, TypeOK, JobType
  <2>2. CASE t = s
    BY <1>4, <2>1, <2>2 DEF LocksCoupon, TypeOK, RowType
  <2>3. CASE t # s
    <3>1. pc[t] = "insert"
      BY <1>4, <2>3 DEF LocksCoupon, Goto, TypeOK, JobType
    <3>2. k # job[s].coupon
      BY <1>4, <1>k, <3>1 DEF LocksCoupon
    <3> QED
      BY <1>4, <1>k, <2>1, <3>1, <3>2 DEF LocksCoupon, HolderChecked, TypeOK, RowType
  <2> QED
    BY <2>2, <2>3
<1>5. ASSUME NEW s \in Sessions, Done(s), NEW q \in Coupons,
             max' = max, lock' = lock \/ Locked(s),
             \A r \in Coupons \ {q} : used'[r] = used[r],
             used' = used \/ lock[q] \in {s, None}
      PROVE  lock'[job'[t].coupon] = t /\ used'[job'[t].coupon] < max'[job'[t].coupon]
  <2>1. t # s /\ pc[t] = "insert" /\ job'[t] = job[t]
    BY <1>5 DEF Done, TypeOK, JobType
  <2>2. lock'[k] = t
    BY <1>5, <1>k, <2>1 DEF Locked
  <2>3. used'[k] = used[k]
    BY <1>5, <1>k, <2>1
  <2> QED
    BY <1>5, <2>1, <2>2, <2>3 DEF HolderChecked
<1>6. ASSUME NEW s \in Sessions, Reevaluates(s), ~Done(s)
      PROVE  lock'[job'[t].coupon] = t /\ used'[job'[t].coupon] < max'[job'[t].coupon]
  <2>1. PICK step \in {"price", "remove"} : pc' = [pc EXCEPT ![s] = step]
    BY <1>6 DEF Reevaluates
  <2>2. t # s
    BY <2>1 DEF TypeOK, JobType
  <2>3. job'[t] = job[t]
    BY <1>6, <2>2 DEF Reevaluates, TypeOK, JobType
  <2> QED
    BY <1>6, <2>1, <2>2, <2>3 DEF Reevaluates, HolderChecked, couponVars, TypeOK, JobType
<1>7. ASSUME NEW s \in Sessions, Redeems(s) \/ Removes(s) \/ Refunds(s) \/ Expires(s)
      PROVE  lock'[job'[t].coupon] = t /\ used'[job'[t].coupon] < max'[job'[t].coupon]
  <2> DEFINE q == job[s].coupon
  <2>1. q \in Coupons
    BY <1>7 DEF Redeems, Removes, Refunds, Expires, GivesBack, At, TypeOK, JobType
  <2>2. lock[q] \in {s, None}
    BY <1>7 DEF Redeems, Removes, Refunds, Expires, GivesBack, At, HolderChecked
  <2>3. \A r \in Coupons \ {q} : used'[r] = used[r]
    BY <1>7 DEF Redeems, Removes, Refunds, Expires, GivesBack, FreedUse, TypeOK, RowType
  <2>4. Done(s) /\ max' = max /\ (lock' = lock \/ Locked(s))
    BY <1>7 DEF Redeems, Removes, Refunds, Expires, GivesBack
  <2> HIDE DEF q
  <2> QED
    BY <1>5, <2>1, <2>2, <2>3, <2>4
<1>8. ASSUME NEW s \in Sessions,
             RefusesCoupon(s) \/ RollsBack(s) \/ Reprices(s) \/ Confirms(s)
      PROVE  lock'[job'[t].coupon] = t /\ used'[job'[t].coupon] < max'[job'[t].coupon]
  <2>1. Done(s) /\ max' = max /\ used' = used /\ (lock' = lock \/ Locked(s))
    BY <1>8 DEF RefusesCoupon, RollsBack, Reprices, Confirms, couponVars
  <2>2. t # s
    BY <2>1 DEF Done, TypeOK, JobType
  <2>3. pc[t] = "insert" /\ job'[t] = job[t]
    BY <2>1, <2>2 DEF Done, TypeOK, JobType
  <2> QED
    BY <1>5, <1>k, <2>1, <2>3
<1>9. ASSUME NEW s \in Sessions, NEW c \in Carts,
             \/ \E q \in Coupons : LoadsCart(s, c, q)
             \/ LoadsForRemoval(s, c) \/ EditsCart(s, c)
             \/ Confirming(s, c) \/ Refunding(s, c) \/ Expiring(s, c)
      PROVE  lock'[job'[t].coupon] = t /\ used'[job'[t].coupon] < max'[job'[t].coupon]
  <2>1. /\ UNCHANGED couponVars
        /\ \E step \in Step \ {"insert"} : \E q, i : Starts(s, step, c, q, i)
    BY <1>9 DEF LoadsCart, LoadsForRemoval, EditsCart, Confirming, Refunding, Expiring,
                LoadsRedemption, Step
  <2> QED
    BY <1>3, <2>1
<1>10. ASSUME NEW s \in Sessions, Reevaluates(s), Done(s)
       PROVE  lock'[job'[t].coupon] = t /\ used'[job'[t].coupon] < max'[job'[t].coupon]
  <2>1. t # s
    BY <1>10 DEF Done, TypeOK, JobType
  <2>2. pc[t] = "insert" /\ job'[t] = job[t]
    BY <1>10, <2>1 DEF Done, TypeOK, JobType
  <2> QED
    BY <1>10, <2>2 DEF Reevaluates, couponVars, HolderChecked
<1>11. ASSUME NEW c \in Carts, CartIsPaid(c) \/ CartIsRefunded(c) \/ CartEnds(c)
       PROVE  lock'[job'[t].coupon] = t /\ used'[job'[t].coupon] < max'[job'[t].coupon]
  BY <1>1, <1>11 DEF CartIsPaid, CartIsRefunded, CartEnds
<1>12. CASE UNCHANGED vars
  BY <1>1, <1>12 DEF vars
<1> QED
  BY <1>2, <1>4, <1>6, <1>7, <1>8, <1>9, <1>10, <1>11, <1>12 DEF Next

\* used_count never grows past max_uses, for any number of concurrent requests.
THEOREM ApplyIsBounded == Spec => NeverPastMax
<1>1. Init => TypeOK /\ HolderChecked
  BY CouponAssumption DEF Init, TypeOK, RowType, JobType, HolderChecked
<1>2. TypeOK /\ HolderChecked /\ [Next]_vars =>
        [\A k \in Coupons : used'[k] > used[k] => used'[k] <= max'[k]]_vars
  <2> SUFFICES ASSUME TypeOK, HolderChecked, Next, NEW k \in Coupons, used'[k] > used[k]
               PROVE  used'[k] <= max'[k]
    OBVIOUS
  <2>1. used[k] \in Nat /\ max[k] \in Int
    BY CouponAssumption DEF TypeOK, RowType
  <2>2. ASSUME NEW s \in Sessions, Redeems(s) PROVE used'[k] <= max'[k]
    <3>1. pc[s] = "insert" /\ job[s].coupon \in Coupons
      BY <2>2 DEF Redeems, At, TypeOK, JobType
    <3>2. used[job[s].coupon] < max[job[s].coupon]
      BY <3>1 DEF HolderChecked
    <3>3. k = job[s].coupon /\ used'[k] = used[k] + 1 /\ max' = max
      BY <2>2, <3>1 DEF Redeems, TypeOK, RowType
    <3> QED
      BY <2>1, <3>2, <3>3
  <2>3. ASSUME NEW s \in Sessions, Removes(s) \/ Refunds(s) \/ Expires(s) PROVE FALSE
    BY <2>1, <2>3 DEF Removes, Refunds, Expires, GivesBack, FreedUse, TypeOK, RowType
  <2>4. ASSUME NEW q \in Coupons, MerchantDeletes(q) PROVE FALSE
    BY <2>1, <2>4 DEF MerchantDeletes, TypeOK, RowType
  <2>5. used' # used
    BY <2>1
  <2> QED
    BY <2>2, <2>3, <2>4, <2>5
       DEF Next, CartIsPaid, CartIsRefunded, CartEnds, MerchantEdits, LoadsCart, LoadsForRemoval,
           EditsCart, Confirming, Refunding, Expiring, LoadsRedemption, LocksCoupon,
           RefusesCoupon, RollsBack, Reevaluates, Reprices, Confirms, couponVars
<1> QED
  BY <1>1, <1>2, TypeStep, HolderStep, PTL DEF Spec, NeverPastMax

----------------------------------------------------------------------------
(* The cart and its redemption. *)

\* A cart has at most one redemption, and shows its coupon.
Agrees ==
  \A c \in Carts :
    /\ \A i, j \in RowOf(c) : i = j
    /\ coupon[c] = None <=> RowOf(c) = {}
    /\ \A i \in RowOf(c) : rows[i].coupon = coupon[c]

\* Confirming or giving back changes the status of a redemption, and nothing else.
LEMMA MarkingKeepsRows ==
  ASSUME RowType, NEW i \in Ids, rows[i] \in Row, NEW from \in SUBSET (LiveStatus \cup EndedStatus),
         NEW to \in LiveStatus \cup EndedStatus, rows' = Marked(i, from, to)
  PROVE  /\ \A c \in Carts : RowOf(c)' = RowOf(c)
         /\ \A j \in Ids : rows'[j].coupon = rows[j].coupon
         /\ \A j \in Ids : rows'[j] = rows[j] \/ (rows[j].status \in from /\ rows'[j].status = to)
<1>1. CASE rows' = rows
  BY <1>1 DEF RowOf
<1>2. CASE rows[i].status \in from /\ rows' = [rows EXCEPT ![i].status = to]
  <2>1. rows'[i] = [rows[i] EXCEPT !.status = to] /\ \A j \in Ids \ {i} : rows'[j] = rows[j]
    BY <1>2 DEF RowType
  <2>2. /\ rows'[i].cart = rows[i].cart /\ rows'[i].coupon = rows[i].coupon
        /\ rows'[i].status = to
    BY <2>1 DEF Row
  <2>3. rows[i].status # "deleted" /\ to # "deleted"
    BY <1>2 DEF LiveStatus, EndedStatus
  <2> QED
    BY <1>2, <2>1, <2>2, <2>3 DEF RowOf
<1> QED
  BY <1>1, <1>2 DEF Marked

LEMMA AgreeStep == TypeOK /\ Agrees /\ [Next]_vars => Agrees'
<1> USE CouponAssumption
<1> SUFFICES ASSUME TypeOK, Agrees, [Next]_vars PROVE Agrees'
  OBVIOUS
<1>1. CASE UNCHANGED <<rows, coupon>>
  BY <1>1 DEF Agrees, RowOf
<1>2. ASSUME NEW s \in Sessions, Redeems(s) PROVE Agrees'
  <2>1. PICK c \in Carts, k \in Coupons : c = job[s].cart /\ k = job[s].coupon /\ k # None
    BY <1>2 DEF Redeems, At, TypeOK, JobType, Job
  <2>2. PICK i \in Ids :
           /\ rows[i] = Unused
           /\ rows' = [rows EXCEPT ![i] = [cart |-> c, coupon |-> k, status |-> "reserved"]]
    BY <1>2, <2>1 DEF Redeems, NextId
  <2>3. RowOf(c) = {} /\ coupon' = [coupon EXCEPT ![c] = k]
    BY <1>2, <2>1 DEF Redeems, Insertable
  <2>4. /\ rows'[i] = [cart |-> c, coupon |-> k, status |-> "reserved"]
        /\ \A j \in Ids \ {i} : rows'[j] = rows[j]
    BY <2>2 DEF TypeOK, RowType
  <2>5. RowOf(c)' = {i}
    BY <2>3, <2>4 DEF RowOf
  <2>6. ASSUME NEW d \in Carts, d # c PROVE RowOf(d)' = RowOf(d) /\ i \notin RowOf(d)
    <3>1. rows[i].status = "deleted" /\ rows'[i].cart = c
      BY <2>2, <2>4 DEF Unused
    <3> QED
      BY <2>4, <2>6, <3>1 DEF RowOf
  <2>7. coupon'[c] = k /\ rows'[i].coupon = k
    BY <2>1, <2>3, <2>4 DEF TypeOK, RowType
  <2>8. ASSUME NEW d \in Carts
        PROVE  /\ \A x, y \in RowOf(d)' : x = y
               /\ coupon'[d] = None <=> RowOf(d)' = {}
               /\ \A x \in RowOf(d)' : rows'[x].coupon = coupon'[d]
    <3>1. CASE d = c
      BY <2>1, <2>5, <2>7, <3>1
    <3>2. CASE d # c
      <4>1. coupon'[d] = coupon[d] /\ RowOf(d)' = RowOf(d)
        BY <2>3, <2>6, <3>2 DEF TypeOK, RowType
      <4>2. \A x \in RowOf(d) : rows'[x] = rows[x]
        BY <2>4, <2>6, <3>2 DEF RowOf
      <4> QED
        BY <4>1, <4>2 DEF Agrees
    <3> QED
      BY <3>1, <3>2
  <2> QED
    BY <2>8 DEF Agrees
<1>3. ASSUME NEW s \in Sessions, Removes(s) PROVE Agrees'
  <2>1. PICK c \in Carts : c = job[s].cart
    BY <1>3 DEF Removes, At, TypeOK, JobType, Job
  <2>2. \A i \in Ids : rows'[i] = IF i \in RowOf(c) THEN [rows[i] EXCEPT !.status = "deleted"]
                                                 ELSE rows[i]
    BY <1>3, <2>1 DEF Removes
  <2>3. \A i \in RowOf(c) : rows'[i].cart = c /\ rows'[i].status = "deleted"
    <3> SUFFICES ASSUME NEW i \in RowOf(c)
                 PROVE  rows'[i].cart = c /\ rows'[i].status = "deleted"
      OBVIOUS
    <3>1. i \in Ids /\ rows[i] \in Row /\ rows[i].cart = c
      BY RowOfCart DEF TypeOK
    <3>2. rows'[i] = [rows[i] EXCEPT !.status = "deleted"]
      BY <2>2, <3>1
    <3> QED
      BY <3>1, <3>2 DEF Row
  <2>4. coupon' = [coupon EXCEPT ![c] = None]
    BY <1>3, <2>1 DEF Removes, ClearedCart
  <2>5. RowOf(c)' = {} /\ coupon'[c] = None
    <3>1. coupon'[c] = None
      BY <2>4 DEF TypeOK, RowType
    <3>2. \A i \in Ids : i \notin RowOf(c) => rows'[i] = rows[i]
      BY <2>2
    <3>3. \A i \in Ids : ~(rows'[i].cart = c /\ rows'[i].status # "deleted")
      BY <2>3, <3>2 DEF RowOf
    <3> QED
      BY <3>1, <3>3 DEF RowOf
  <2>6. ASSUME NEW d \in Carts, d # c
        PROVE  RowOf(d)' = RowOf(d) /\ coupon'[d] = coupon[d]
               /\ \A x \in RowOf(d) : rows'[x] = rows[x]
    <3>1. \A i \in Ids : rows[i].cart = d => rows'[i] = rows[i]
      BY <2>2, <2>6 DEF RowOf
    <3>2. \A i \in Ids : rows'[i].cart = d /\ rows'[i].status # "deleted" => rows'[i] = rows[i]
      BY <2>2, <2>3
    <3> QED
      BY <2>4, <2>6, <3>1, <3>2 DEF RowOf, TypeOK, RowType
  <2> QED
    BY <2>5, <2>6 DEF Agrees
<1>4. ASSUME NEW s \in Sessions, Confirms(s) \/ Refunds(s) \/ Expires(s) PROVE Agrees'
  <2>1. job[s].row \in Ids /\ rows[job[s].row] \in Row
    BY <1>4 DEF Confirms, Refunds, Expires, GivesBack, At, TypeOK, JobType
  <2>2. PICK from \in SUBSET (LiveStatus \cup EndedStatus), to \in LiveStatus \cup EndedStatus :
           rows' = Marked(job[s].row, from, to)
    BY <1>4 DEF Confirms, Refunds, Expires, GivesBack, LiveStatus, EndedStatus
  <2>3. coupon' = coupon
    BY <1>4 DEF Confirms, Refunds, Expires, GivesBack, cartVars
  <2>4. /\ \A c \in Carts : RowOf(c)' = RowOf(c)
        /\ \A j \in Ids : rows'[j].coupon = rows[j].coupon
    BY <2>1, <2>2, MarkingKeepsRows DEF TypeOK
  <2> QED
    BY <2>3, <2>4 DEF Agrees, RowOf
<1> QED
  BY <1>1, <1>2, <1>3, <1>4
     DEF Next, vars, CartIsPaid, CartIsRefunded, CartEnds, MerchantEdits, MerchantDeletes,
         LoadsCart, LoadsForRemoval, EditsCart, Confirming, Refunding, Expiring, LoadsRedemption,
         LocksCoupon, RefusesCoupon, RollsBack, Reevaluates, Reprices, cartVars

\* carts.coupon_id and coupon_redemptions always agree.
THEOREM CartAndRedemptionAgree == Spec => []CartShowsRedemption
<1>1. Init => TypeOK /\ Agrees
  BY CouponAssumption
     DEF Init, TypeOK, RowType, JobType, Agrees, RowOf, Unused
<1>2. TypeOK /\ Agrees => CartShowsRedemption
  <2> SUFFICES ASSUME Agrees, NEW c \in Carts PROVE Cardinality(RowOf(c)) <= 1
    BY DEF Agrees, CartShowsRedemption
  <2>1. CASE RowOf(c) = {}
    BY <2>1, FS_EmptySet
  <2>2. CASE RowOf(c) # {}
    <3>1. PICK i : RowOf(c) = {i}
      BY <2>2 DEF Agrees
    <3>2. Cardinality({i}) = 1
      BY FS_Singleton, Zenon
    <3> QED
      BY <3>1, <3>2
  <2> QED
    BY <2>1, <2>2
<1> QED
  BY <1>1, <1>2, TypeStep, AgreeStep, PTL DEF Spec

\* A redemption that was given back is never confirmed afterwards.
THEOREM GivenBackForGood == Spec => EndedStaysEnded
<1>1. Init => TypeOK
  BY CouponAssumption DEF Init, TypeOK, RowType, JobType
<1>2. TypeOK /\ [Next]_vars =>
        [\A i \in Ids : rows[i].status \in EndedStatus
            => rows'[i].status \in {rows[i].status, "deleted"}]_vars
  <2> SUFFICES ASSUME TypeOK, Next, NEW j \in Ids, rows[j].status \in EndedStatus
               PROVE  rows'[j].status \in {rows[j].status, "deleted"}
    OBVIOUS
  <2>1. CASE rows' = rows
    BY <2>1
  <2>2. ASSUME NEW s \in Sessions, Redeems(s) PROVE rows'[j] = rows[j]
    <3>1. rows[j] # Unused
      BY DEF Unused, EndedStatus
    <3> QED
      BY <2>2, <3>1 DEF Redeems, NextId, TypeOK, RowType
  <2>3. ASSUME NEW s \in Sessions, Removes(s)
        PROVE  rows'[j].status \in {rows[j].status, "deleted"}
    <3>1. job[s].cart \in Carts
      BY <2>3 DEF Removes, At, TypeOK, JobType, Job
    <3>2. CASE j \in RowOf(job[s].cart)
      <4>1. rows[j] \in Row /\ rows'[j] = [rows[j] EXCEPT !.status = "deleted"]
        BY <2>3, <3>1, <3>2, RowOfCart DEF Removes, TypeOK
      <4> QED
        BY <4>1 DEF Row
    <3>3. CASE j \notin RowOf(job[s].cart)
      BY <2>3, <3>3 DEF Removes
    <3> QED
      BY <3>2, <3>3
  <2>4. ASSUME NEW s \in Sessions, Confirms(s) \/ Refunds(s) \/ Expires(s) PROVE rows'[j] = rows[j]
    <3>1. job[s].row \in Ids /\ rows[job[s].row] \in Row
      BY <2>4 DEF Confirms, Refunds, Expires, GivesBack, At, TypeOK, JobType
    <3>2. PICK from \in SUBSET LiveStatus, to \in LiveStatus \cup EndedStatus :
             rows' = Marked(job[s].row, from, to)
      BY <2>4 DEF Confirms, Refunds, Expires, GivesBack, LiveStatus, EndedStatus
    <3>3. rows[j].status \notin from
      BY <3>2 DEF LiveStatus, EndedStatus
    <3> QED
      BY <3>1, <3>2, <3>3, MarkingKeepsRows DEF TypeOK
  <2> QED
    BY <2>1, <2>2, <2>3, <2>4
       DEF Next, CartIsPaid, CartIsRefunded, CartEnds, MerchantEdits, MerchantDeletes,
           LoadsCart, LoadsForRemoval, EditsCart, Confirming, Refunding, Expiring,
           LoadsRedemption, LocksCoupon, RefusesCoupon, RollsBack, Reevaluates, Reprices
<1> QED
  BY <1>1, <1>2, TypeStep, PTL DEF Spec, EndedStaysEnded

----------------------------------------------------------------------------
(* No use is lost where the event has one coupon: whatever gives a use back *)
(* takes at most one live redemption of that coupon away.                   *)

OneCoupon   == \A k, q \in Coupons : k = q
UsesCounted == \A k \in Coupons : used[k] <= Cardinality(LiveOf(k))

LEMMA LiveFinite ==
  ASSUME NEW k
  PROVE  IsFiniteSet(LiveOf(k)) /\ Cardinality(LiveOf(k)) \in Nat
<1>1. IsFiniteSet(Ids)
  BY CouponAssumption, FS_Interval DEF Ids
<1>2. LiveOf(k) \in SUBSET Ids
  BY DEF LiveOf
<1> QED
  BY <1>1, <1>2, FS_Subset, FS_CardinalityType

\* A use that goes back with one live redemption at most.
LEMMA OneUseOneRow ==
  ASSUME TypeOK, NEW k \in Coupons, used[k] <= Cardinality(LiveOf(k)), used' = FreedUse(k),
         NEW x, LiveOf(k) \ {x} \subseteq LiveOf(k)', rows' \in [Ids -> Row \cup {Unused}]
  PROVE  used'[k] <= Cardinality(LiveOf(k)')
<1> DEFINE L == LiveOf(k)
           M == LiveOf(k)'
<1>1. IsFiniteSet(L) /\ Cardinality(L) \in Nat
  BY LiveFinite
<1>2. IsFiniteSet(M) /\ Cardinality(M) \in Nat
  <2>1. IsFiniteSet(Ids) /\ M \in SUBSET Ids
    BY CouponAssumption, FS_Interval DEF LiveOf, Ids
  <2> QED
    BY <2>1, FS_Subset, FS_CardinalityType
<1>3. L \ {x} \in SUBSET M
  OBVIOUS
<1>4. used[k] \in Nat /\ used'[k] = IF used[k] > 0 THEN used[k] - 1 ELSE 0
  BY DEF TypeOK, RowType, FreedUse
<1>5. used[k] <= Cardinality(L)
  OBVIOUS
<1> HIDE DEF L, M
<1>6. Cardinality(L \ {x}) <= Cardinality(M)
  BY <1>2, <1>3, FS_Subset
<1>7. Cardinality(L \ {x}) >= Cardinality(L) - 1
  <2>1. Cardinality(L \ {x}) = IF x \in L THEN Cardinality(L) - 1 ELSE Cardinality(L)
    BY <1>1, FS_RemoveElement
  <2> QED
    BY <1>1, <2>1
<1>8. Cardinality(L \ {x}) \in Nat
  BY <1>1, FS_RemoveElement, FS_CardinalityType
<1>9. used'[k] <= Cardinality(M)
  BY <1>1, <1>2, <1>4, <1>5, <1>6, <1>7, <1>8
<1> QED
  BY <1>9 DEF M

LEMMA UsesStep ==
  ASSUME OneCoupon, TypeOK, Agrees, UsesCounted, [Next]_vars
  PROVE  UsesCounted'
<1> USE CouponAssumption
<1>0. TypeOK' /\ rows' \in [Ids -> Row \cup {Unused}]
  BY TypeStep DEF TypeOK, RowType
<1>1. ASSUME rows' = rows, \A k \in Coupons : used'[k] <= used[k] PROVE UsesCounted'
  <2> SUFFICES ASSUME NEW k \in Coupons PROVE used'[k] <= Cardinality(LiveOf(k)')
    BY DEF UsesCounted
  <2>1. LiveOf(k)' = LiveOf(k)
    BY <1>1 DEF LiveOf
  <2>2. used[k] \in Nat /\ used'[k] \in Nat /\ Cardinality(LiveOf(k)) \in Nat
    BY <1>0, LiveFinite DEF TypeOK, RowType
  <2>3. used'[k] <= used[k] /\ used[k] <= Cardinality(LiveOf(k))
    BY <1>1 DEF UsesCounted
  <2>4. used'[k] <= Cardinality(LiveOf(k))
    BY <2>2, <2>3
  <2> QED
    BY <2>1, <2>4
<1>2. ASSUME NEW k \in Coupons, MerchantDeletes(k) PROVE UsesCounted'
  <2>1. rows' = rows /\ used' = [used EXCEPT ![k] = 0]
    BY <1>2 DEF MerchantDeletes
  <2>2. \A q \in Coupons : used'[q] <= used[q]
    BY <2>1 DEF TypeOK, RowType
  <2> QED
    BY <1>1, <2>1, <2>2
<1>3. ASSUME NEW s \in Sessions, Redeems(s) PROVE UsesCounted'
  <2>1. PICK c \in Carts, k \in Coupons : c = job[s].cart /\ k = job[s].coupon
    BY <1>3 DEF Redeems, At, TypeOK, JobType, Job
  <2>2. PICK i \in Ids :
           /\ rows[i] = Unused
           /\ rows' = [rows EXCEPT ![i] = [cart |-> c, coupon |-> k, status |-> "reserved"]]
    BY <1>3, <2>1 DEF Redeems, NextId
  <2>3. /\ rows'[i] = [cart |-> c, coupon |-> k, status |-> "reserved"]
        /\ \A j \in Ids \ {i} : rows'[j] = rows[j]
    BY <2>2 DEF TypeOK, RowType
  <2>4. rows[i].status = "deleted"
    BY <2>2 DEF Unused
  <2>5. LiveOf(k)' = LiveOf(k) \cup {i} /\ i \notin LiveOf(k)
    BY <2>3, <2>4 DEF LiveOf, LiveStatus
  <2>6. IsFiniteSet(LiveOf(k)) /\ Cardinality(LiveOf(k)) \in Nat
    BY LiveFinite
  <2>7. Cardinality(LiveOf(k) \cup {i}) = Cardinality(LiveOf(k)) + 1
    BY <2>5, <2>6, FS_AddElement
  <2>8. used'[k] = used[k] + 1 /\ used[k] \in Nat /\ used[k] <= Cardinality(LiveOf(k))
    BY <1>3, <2>1 DEF Redeems, TypeOK, RowType, UsesCounted
  <2>9. used'[k] <= Cardinality(LiveOf(k)')
    BY <2>5, <2>6, <2>7, <2>8
  <2> QED
    BY <2>9 DEF UsesCounted, OneCoupon
<1>4. ASSUME NEW s \in Sessions, Removes(s) PROVE UsesCounted'
  <2>1. PICK c \in Carts, k \in Coupons : c = job[s].cart /\ k = job[s].coupon
    BY <1>4 DEF Removes, At, TypeOK, JobType, Job
  <2>2. PICK x : RowOf(c) \subseteq {x}
    BY DEF Agrees
  <2>3. \A i \in Ids : rows'[i] = IF i \in RowOf(c) THEN [rows[i] EXCEPT !.status = "deleted"]
                                                 ELSE rows[i]
    BY <1>4, <2>1 DEF Removes
  <2>4. LiveOf(k) \ {x} \subseteq LiveOf(k)'
    BY <2>2, <2>3 DEF LiveOf
  <2>5. used' = FreedUse(k) /\ used[k] <= Cardinality(LiveOf(k))
    BY <1>4, <2>1 DEF Removes, UsesCounted
  <2>6. used'[k] <= Cardinality(LiveOf(k)')
    BY <1>0, <2>4, <2>5, OneUseOneRow
  <2> QED
    BY <2>6 DEF UsesCounted, OneCoupon
<1>5. ASSUME NEW s \in Sessions, Refunds(s) \/ Expires(s) PROVE UsesCounted'
  <2>1. PICK k \in Coupons : k = job[s].coupon
    BY <1>5 DEF Refunds, Expires, GivesBack, At, TypeOK, JobType
  <2>2. used' = FreedUse(k) /\ used[k] <= Cardinality(LiveOf(k))
    BY <1>5, <2>1 DEF Refunds, Expires, GivesBack, UsesCounted
  <2>3. PICK i, from, to : i = job[s].row /\ rows' = Marked(i, from, to)
    BY <1>5 DEF Refunds, Expires, GivesBack
  <2>4. \A j \in Ids \ {i} : rows'[j] = rows[j]
    BY <2>3 DEF Marked, TypeOK, RowType
  <2>5. LiveOf(k) \ {i} \subseteq LiveOf(k)'
    BY <2>4 DEF LiveOf
  <2>6. used'[k] <= Cardinality(LiveOf(k)')
    BY <1>0, <2>2, <2>5, OneUseOneRow
  <2> QED
    BY <2>6 DEF UsesCounted, OneCoupon
<1>6. ASSUME NEW s \in Sessions, Confirms(s) PROVE UsesCounted'
  <2>1. job[s].row \in Ids /\ rows[job[s].row] \in Row
    BY <1>6 DEF Confirms, At, TypeOK, JobType
  <2>2. rows' = Marked(job[s].row, {"reserved"}, "confirmed") /\ used' = used
    BY <1>6 DEF Confirms, couponVars
  <2>3. /\ \A j \in Ids : rows'[j].coupon = rows[j].coupon
        /\ \A j \in Ids : \/ rows'[j] = rows[j]
                          \/ rows[j].status \in {"reserved"} /\ rows'[j].status = "confirmed"
    BY <2>1, <2>2, MarkingKeepsRows DEF TypeOK, LiveStatus, EndedStatus
  <2>4. \A k \in Coupons : LiveOf(k)' = LiveOf(k)
    BY <2>3 DEF LiveOf, LiveStatus
  <2> QED
    BY <2>2, <2>4 DEF UsesCounted
<1>7. CASE UNCHANGED <<rows, used>>
  BY <1>7 DEF UsesCounted, LiveOf
<1> QED
  BY <1>2, <1>3, <1>4, <1>5, <1>6, <1>7
     DEF Next, vars, CartIsPaid, CartIsRefunded, CartEnds, MerchantEdits, LoadsCart,
         LoadsForRemoval, EditsCart, Confirming, Refunding, Expiring, LoadsRedemption,
         LocksCoupon, RefusesCoupon, RollsBack, Reevaluates, Reprices, couponVars

\* used_count counts live redemptions only where the event has one coupon, for any
\* number of carts, buyers, requests, tasks and redemptions.
THEOREM EveryUseHasItsRedemption == Spec => []NoUseIsLost
<1>1. CASE ~OneCoupon
  <2>1. Cardinality(Coupons) # 1
    <3>1. IsFiniteSet(Coupons) /\ ~\E k : Coupons = {k}
      BY <1>1, CouponAssumption DEF OneCoupon
    <3> QED
      BY <3>1, FS_Singleton
  <2>2. NoUseIsLost
    BY <2>1 DEF NoUseIsLost
  <2> QED
    BY <2>2, PTL
<1>2. CASE OneCoupon
  <2>1. Init => TypeOK /\ Agrees /\ UsesCounted
    <3> SUFFICES ASSUME Init PROVE TypeOK /\ Agrees /\ UsesCounted
      OBVIOUS
    <3>1. TypeOK /\ Agrees
      BY CouponAssumption DEF Init, TypeOK, RowType, JobType, Agrees, RowOf, Unused
    <3>2. \A k \in Coupons : used[k] = 0 /\ Cardinality(LiveOf(k)) \in Nat
      BY LiveFinite DEF Init
    <3>3. \A k \in Coupons : used[k] <= Cardinality(LiveOf(k))
      BY <3>2
    <3> QED
      BY <3>1, <3>3 DEF UsesCounted
  <2>2. TypeOK /\ Agrees /\ UsesCounted /\ [Next]_vars => UsesCounted'
    BY <1>2, UsesStep
  <2>3. UsesCounted => NoUseIsLost
    BY DEF UsesCounted, NoUseIsLost
  <2> QED
    BY <2>1, <2>2, <2>3, TypeStep, AgreeStep, PTL DEF Spec
<1> QED
  BY <1>1, <1>2
=============================================================================
