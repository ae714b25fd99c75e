# LiveCart in TLA+

A verification development of the LiveCart API (`src/apps/api`, Go): comments of
a live sale become carts, carts become payments, payments become orders and ERP
documents. The modules model the parts where several writers meet one row, one
queue, one pool or one charge. Every definition names the code it stands for in
`PROJECT.json` (`map`); paths below are relative to `src/apps/api`.

## 1. Inventory

The API is one Go process (HTTP server, asynq workers and an outbox relay) over
Postgres and Redis. State that matters lives in Postgres; a step is a
transaction. Components talk through shared rows, and through facts: a fact is a
row of `event_outbox` written in the transaction of the change it reports, a
relay moves it to a Redis queue (asynq), handlers run at least once and are
retried. `apps/bling-lab`, `apps/instagram-emulator` and `infra` are test
doubles and deployment, `db/sqlc` and `docs` are generated.

| component | state | operations | talks to | what is hard | what makes it correct |
|---|---|---|---|---|---|
| live (`internal/live`) | live events, comments, cart lines | a comment adds a unit or queues it; an event closes and its carts get a deadline | carts, stock, waiting list | comment against promotion; deadline frozen at close | no overtaking, no unit sold twice |
| inventory and waiting list (`internal/inventory`, `internal/integration/waitlist_allocation.go`, triggers 165, 168, 170) | `products.stock`, `cart_items`, `waitlist_items` | promote, cancel a request, expire, release, retake | every writer of a cart row | five ways to end a cart, three ways to bring it back, joined carts closed by triggers | units are conserved; queue and cart agree; a dead purchase waits for nothing |
| checkout (`internal/checkout`, `internal/cart`) | quotes (`payment_attempts`), `checkout_id` | quote, card, PIX, line edits | gateway, coupon, cart | contents change under an open charge | a charge pays what it was quoted for |
| payment (`internal/payment`, `internal/integration/payment_attempt.go`) | `payment_status`, `cart_payments`, `paid_amount_cents`, review flag | webhook, review, restoration, manual payment and refund | gateway, outbox, panel | repeated, reordered, stale notifications; read then write | money counted once, never lost, refund is final and announced |
| finalisation lock (`AcquireCartFinalisationLock`) | slot semaphore, advisory lock, pool | acquire, give up, release | pgx pool | hold-and-wait on the pool, early returns | no leak, no deadlock |
| order, billing, post checkout (`internal/order`, `internal/billing`, `internal/postcheckout`) | `orders`, the GMV ledger, mail markers | materialise on paid, terminal status, credit, mails | facts | facts in any order, twice, in parallel | one order per sale, announced with it, never sold again |
| events (`internal/events`) | `event_outbox`, Redis tasks | emit, sweep, schedule, reschedule | all | crash between enqueue and commit, dead letters | each fact is acted on, effectively once |
| ERP (`internal/erp`, `internal/integration`) | `erp_order_state`, `external_order_id`, pending lines; the orders in the ERP | create, mutate the grid, approve, cancel, recover, reflect, stock sync | Tiny, Bling | calls whose answer is lost, claims left by a crash, recovery next to a slow original | one order per cart, holding what the cart holds; a cancelled order holds nothing |
| coupons (`internal/coupon`) | `used_count`, `coupon_redemptions`, the cart's coupon | apply, remove, reprice, confirm, refund, expire | checkout, facts | read before the lock, redelivered and reordered facts | no use lost or taken twice, cart and redemption agree |
| merchant edits, idempotency, pricing, rate limits | small tables and pure code | | | limits under concurrency, numeric edges | limits hold, totals add up |
| notification, dashboard, catalogue, customers, stores, members, ideas, telemetry | CRUD | | | little | |

`PROJECT.json` lists every component with its status, and the hazards with
the line where each bites and the property that covers it, or the reason none
does yet.

## 2. Modules

| module | what it is |
|---|---|
| `CartRow` | one row of `carts`: its fields, the guard of every UPDATE statement (`db/queries/cart.sql`), the rows they write, and the trigger that closes joined purchases. No variables; the two models of cart rows share it so that a guard is written once, as in the source. |
| `CartInventory` | stock, cart lines and waiting list of one product under every writer of a cart row. One action per committed transaction; the regenerated link, which the code does in a read and an unguarded write, is two actions. |
| `LockSlots` | the finalisation lock: slot, connection, advisory lock, second connection, every early return, and plain handlers on the same pool. |
| `PaymentReconciliation` | charges at the gateway, webhook workers (read the gateway, interpret, write), reviews, restoration, the panel's two-step requests, crashes, and the other writers of the row. |
| `FactDelivery` | what the outbox promises: a recorded fact is handled, possibly more than once, or given up where an operator finds it. Abstract. |
| `EventOutbox` | `event_outbox`, the relay's sweeps (lock, enqueue, commit) on any number of replicas, asynq's tasks with retries, lost commits, dead letters. Implements `FactDelivery`. |
| `OrderPipeline` | EXTENDS `EventOutbox`: the facts about one cart's payment and what their handlers do, one read or transaction at a time: order, GMV ledger, mail markers, mails. |
| `CouponRedemption` | coupons, redemptions and the cart's coupon under requests and tasks that read, lock and write. |
| `ErpOrder` | the cart's order in the ERP: creation with its anchor, mutation of the grid, approval, cancellation, refund, recovery, failed calls, crashes. |
| `MC*` | constants for TLC. |
| `*Proofs` | lemmas and theorems, one module per component (`OrderPipelineProofs` EXTENDS `EventOutboxProofs`). |

`CartInventory` and `PaymentReconciliation` both EXTEND `CartRow`: they are two
views of the same rows, one with the units and one with the money.
`CartInventory` has the payment pipeline as single guarded writes
(`UpdateCartPaymentPaid`, `VerifyPaymentAttemptReview`,
`RestoreCancelledCartAsPaid`), `PaymentReconciliation` opens those writes up and
has the other writers without their stock side. `OrderPipeline` composes the
producers of facts, the outbox that carries them and the handlers that consume
them: a handler's step is also a step of its task, and the theorem
`PipelineIsOutbox` says so. Its facts `order.paid` and `order.refunded` are
where `ErpOrder` starts, whose `done` is the set of facts asynq has forgotten.
`ErpOrder` uses the finalisation lock as exclusive, `LockSlots` shows how it is
given.

### How the state corresponds to the code

* `CartRow.Row`: `pay` keeps what the guards tell apart ("pending" is NULL,
  pending, failed and cancelled); `deadline` is `expires_at` as none, in the
  future, passed; `accepts` is `erp_order_accepts_items()`; `review`, `closed`
  are the columns of those meanings; `Owner` is `COALESCE(joined_to_cart_id, id)`.
* `CartInventory`: `held` = `quantity - waitlisted_quantity`, `waiting` =
  `waitlisted_quantity`, `requests` = open `waitlist_items`, whose `ahead` set is
  the order by `(created_at, queue_sequence)`; `money` = carts with a row in
  `cart_payments`. One product, one price lot per line; carts belong to different
  (event, buyer) pairs, so the partial unique index refuses nothing. Quantities
  are summed as the cardinality of a set of units (`Units`), and `Carts` and
  `Lots` are assumed finite, which any database is. Left out: the ERP's own stock
  sync, merchant quantity edits and the joining itself.
* `LockSlots`: `pc` is the place in `AcquireCartFinalisationLock` and in the work
  done under the lock, reduced to its use of the pool. The pool has at least two
  connections (`LockSlotsAssumption`): with one, a holder could never get its
  second, whatever the code does.
* `PaymentReconciliation`: a worker's register is what it read (`says`);
  `ledger` = `cart_payments`, `facts` = outbox rows by dedup key, `quote` and
  `contents` = the fingerprint frozen by `payment_attempts` and the cart's
  current one (a version and whether `paid_quantity` was stamped), `unbound` =
  PIX charges whose `checkout_id` is not written yet. A charge is one unit of
  money. A rejected charge behaves as a pending one. Left out: payments recorded
  in the ERP, the recovery of reviews, the cancellation of a PIX before an edit.
* `EventOutbox`: `row` and `attempts` are the columns of `event_outbox`; a sweep
  holds a `batch` (`FOR UPDATE SKIP LOCKED`) and `marks` what it will write;
  `task` is the asynq task whose id is the row's, so enqueueing an existing id
  does nothing and a finished task frees its id. `handled` is history. Left out:
  the timers (`Schedule`, `Reschedule`, `Cancel`) and `event_consumed`.
* `OrderPipeline`: `order` = `orders.status`; `emitted` = the rows written with
  it; `markers` = `order_events` that claim a mail, `unbound` those written
  without an order. A payment is approved at most once per id and not after the
  refund. Left out: items and totals, the coupon and waiting-list steps of the
  handlers (calls that may fail).
* `CouponRedemption`: `job` is what a request or a task read before it locked
  anything; `lock` is the row lock on the coupon; a row's id is not used again.
  Amounts, window and minimum purchase are reduced to whether an apply or a
  repricing goes through.
* `ErpOrder`: `row` = the columns of `TransitionCartERPOrderState`, with the age
  of `erp_op_started_at` as old or not; `cart.grid` is the number of the buyer's
  last change and stands for the whole grid, `orders[o].held` the grid whose
  units an order reserves; `call` = where a handler is and what it read (`ext`,
  `sent`, `grid`, `home` are the locals of those functions); `turn` = who creates
  in the cart's turn of `erpwrite.Queue`; `raced` stands for no code: it is the
  history of the three orders of events some properties name (§3). An ERP call
  takes effect or not, and
  may report a failure in either case. One API process; a store on Bling that
  reserves by the order. The approval's three calls are one, the search for the
  anchor sees every order made before it. Left out: Tiny's replacement order and
  its 404 on cancellation, joined carts, the reflection of the merchant's edits,
  deleted orders, invoices, instalments, the local reservation mode, an order the
  ERP itself cancelled. The pass limits (three and four) are not reached with a
  buyer who changes the cart twice.

## 3. Runs

Deadlock checking is off where the system may really stop: when every cart ended,
when nobody opens a charge, when every fact was handled. `LockSlots` never stops
and is checked.

| run | instance | what it shows |
|---|---|---|
| `inventory_sales` | three carts (a joined pair and a rival), two units, two open requests, store and ERP cancel, ERP reopens | well-formed; units conserved; queue and cart agree; nobody overtakes |
| `inventory_money` | a joined pair, two units; payments, reviews, refunds, store | recorded money is ended by a refund or not at all; a payment that wins retakes exactly what was released |
| `inventory_everyone` | a joined pair; every writer that can close a row, with the panel's unguarded writes | no demand on closed purchases, queue and cart agree, even so |
| `inventory_live` | three carts, one VIP, three requests, fairness, store | due units come back; stock reaches the queue |
| `lockslots` | five holders (two on one purchase) and a handler, four connections, fairness | no leak on any path; holders never all wait on each other; holders finish; the pool comes back |
| `payment_race` | two charges, two workers, unbounded redelivery, items added, store | money counted once; one sale is not paid twice unseen |
| `payment_panel` | one PIX charge, two workers, one crash, everybody else | well-formed; ledger backs facts; paid excludes terminated |
| `payment_live` | one charge, two workers, one crash, items, store, deadline, fairness | an approved charge is recorded, or its cart refuses it |
| `order_pipeline` | three facts about one cart (a payment under two ids, a refund, a cancellation), one relay, one retry, one fault, fairness | no fact slips away; every mail has its marker; the order is announced with its status; an ended order is not sold again; a payment becomes an order unless its facts were given up; the outbox implements `FactDelivery` |
| `coupon` | one coupon with at most one use, two buyers, two requests or tasks | the maximum holds; cart and redemption agree; no use is lost; what was given back stays so |
| `erp_order` | one cart, two handlers, two changes by the buyer, a failed call, a crash, fairness | never two orders; every line reaches the order; what is acknowledged is in the order unless two handlers created it or a claim was broken; until a claim is broken a cancelled order gets no units back; only the release that breaks one demotes a confirmed order |

One run exhibits a counterexample to what the code's comments say:

| run | statement | what happens |
|---|---|---|
| `payment_refundfact` | a refund is a fact, not a field (`manual.go:180`) | the request dies between row and fact; the retry is refused |

Further counterexamples are kept as configurations, run by hand with
`tlc -config <file>.cfg <MC module>`; each names the property it violates.

| configuration | what happens |
|---|---|
| `CartInventory_child` | "The cart deadline governs all units" (`cart.sql:269`): the host expires first, its joined cart can no longer expire, its units stay taken |
| `CartInventory_regenerate` | the regenerated link revives an expired cart without retaking stock; the next expiry releases again |
| `CartInventory_erp` | the ERP cancels a cart under review |
| `CartInventory_vip` | a comment overtakes a VIP's request |
| `PaymentReconciliation_terminal` | "refunded" is terminal (`webhook.go:231`): a worker that read "approved" before the refund writes paid over refunded |
| `PaymentReconciliation_voided` | a stale interpretation of "cancelled" demotes a paid cart |
| `PaymentReconciliation_reopened`, `_tworestores` | an approved charge acknowledged and never recorded |
| `PaymentReconciliation_doublecount` | one charge reviewed twice |
| `PaymentReconciliation_oldcharge`, `_twocharges`, `_manual` | a late `checkout_id`; giving a duplicate back refunds the whole cart; a manual payment over a charge approved meanwhile |
| `OrderPipeline_cancelled` | a cancellation delivered after the payment that won over it marks the paid order cancelled |
| `OrderPipeline_uncredited` | a refund handled before the sale is billed credits nothing; the sale is billed afterwards and stays |
| `CouponRedemption_overredeemed` | a redelivered refund or an expiry next to a removal gives one use back twice: the coupon is redeemed more often than its maximum |
| `CouponRedemption_phantom` | a reevaluation that read before a removal leaves a discount on a cart without a coupon |
| `ErpOrder_adopted` | `CreateOrder` adopts an earlier order and reports it as created with the grid just read (`integration/service.go:5366`): lines are acknowledged that the order does not hold. The second creator is a comment, once the first POST takes longer than 45 seconds (`order_lifecycle.go:271`) and its answer is lost, or a payment handled meanwhile |
| `ErpOrder_demoted` | "nunca rebaixando um pedido pago a 'open'" (`order_lifecycle.go:583`): a mutation that polls a busy order claims it between the success of a confirmation (line 1106) and its deferred release (line 997), which moves it to `open`. In the same way a cancelled order can get units back: put `PROPERTY CancelledNeverWritten` |
| `ErpOrder_withdrawn` | the creation's answer is lost or its worker dies, the expiry finds no id and cancels only the row (`order_lifecycle.go:1206`): the order stays live |
| `ErpOrder_skipped` | `order.paid` finds the lock taken, returns nil, and is not delivered again (`order_lifecycle.go:887`) |
| `ErpOrder_refund` | `order.refunded` runs before the order is confirmed and has nothing to do (`order_lifecycle.go:1355`); the confirmation comes afterwards |

`MCEventOutbox` with `EventOutbox.cfg` checks the outbox alone, with two
replicas and three faults (also by hand: two facts and no handlers' detail).

### Bounds

Two units and quantities of one or two make a line split between held and
waiting; two or three requests give a head and somebody behind it; a joined pair
gives every trigger something to close, and a third cart a rival. `Lots` bounds
the requests open at once, `MaxUnits` is the store's own limit per item,
`PanelBound` stops the panel from reviving carts once stock grew past it, since
each revival may release units again. Two workers and two charges are what the
code's comments speak of (the queue runs with two workers); redelivery is
unbounded. `MaxFailures` bounds crashes. `Versions` has two values, so contents
can change and change back.

Those two are sharp: the properties of `payment_race` are false beyond them, and
the theorems say so in their hypotheses. With three charges of one cart
`SaleIsPaidOnce` is false (a "cancelled" read for a dead first charge demotes the
paid cart, a third charge is opened and taken as well; in
`PaymentReconciliation_race.cfg` put `Charges <- ThreeCharges`, `Actors <- Nobody`
and keep that invariant only). With three workers `MoneyCountedOnce` is false
(two workers about to restore the same charge and a third whose "cancelled"
demotes the restored cart, which the store cancels again:
`Charges <- OneCharge`, `Tasks <- ThreeTasks`, `Actors <- Store`); with two
workers it is false once the panel confirms payments next to PIX charges
(`"store"`, `"manual"` and `"pix"` among the `Actors`) or the ERP reopens carts
(`PaymentReconciliation_doublecount.cfg`). The counts need that the review path
of `RestoreCancelledCartAsPaid` adds to the coverage without looking for the
charge in the ledger (`payment_attempt.go:82`); the guarded write looks first.

In the outbox `MaxAttempts` and `MaxRetry` are ten and the queue's limit in the
code; one or two reach the dead letter and the archive just as well. `MaxFaults`
bounds what goes wrong in a behaviour, `MaxUnbound` the markers written without
an order. `NoUseIsLost` is stated for one coupon: with two it is false, a removal
that read the old coupon deletes the redemption of the new one. In `ErpOrder` a
lost answer and its retry need two orders, a lost line needs two changes, and
a failed call with a crash reaches every recovery; `MaxOrders = 2` lets
`OneOrder` be violated. With two failed calls the run passes too (756,005 states,
twice the time); for any number of them the safety properties are theorems. The run
has two handlers and excludes no schedule of theirs. Symmetry is used for the workers only, and never in a run with a
liveness property.

`raced` in `ErpOrder` is a history variable: actions write it, no guard reads it.
It records three schedules that the code allows and that its claims do not
survive: a creation older than 45 seconds whose handler is still at work
(handlers may run 90 seconds, `events/types.go:270`, so this is an ordinary
schedule, and the next comment takes the creation over), a payment handled while
a comment creates the order, and a confirmation's deferred release that ends the
claim of another handler. `OneOrder` and `LinesReachOrder` hold whatever `raced`
says; `CancelledIsFinal`, `PaidStaysConfirmed` and `OneWriter` say what holds
until the third has happened, `AckIsTrue` until any has. Without these conditions
they are false: the counterexamples `ErpOrder_adopted` and `ErpOrder_demoted`.
One schedule is left out because of its times: nobody takes a mutation over
within two minutes, and its handler has ended by then (90 seconds and 20 for its
release). A call to the ERP that lands after its time-out was reported as a
failure is left out too.

### Fairness

Weak fairness of `ExpireCartAndReleaseStock` and of "some request is promoted":
the expiry task of a cart and the reactions to `stock.released` and
`waitlist.queued` are delivered at least once and retried, so a step that stays
possible is taken. Request ids are reused,
hence fairness of the promotion as a whole. In `LockSlots` queries end and pgx
serves waiters in order: strong fairness of the second connection, weak of the
rest. In `PaymentReconciliation` a worker finishes what it took (weak), and the
provider's pending news is delivered if there is again and again a worker free
(strong). The outbox assumes that a replica sweeps again and again and that
tasks are started, finished or failed (weak, per replica and task in
`EventOutbox`; as one weak fairness of `Work` in `OrderPipeline`, where work runs
out). In `ErpOrder` a handler runs on and time passes (weak); the sweeps for old
claims and for pending lines run on a ticker, so they are taken if they are
possible again and again (strong). No fairness is assumed of buyers, the store,
the panel, the ERP, the gateway, payments, failures or crashes. The retry limit
of the queue is in `EventOutbox` and `OrderPipeline`, not in
`PaymentReconciliation`.

## 4. Proofs

TLAPS proves the following for every value of the constants.

* `CartInventoryProofs`: `TypeCorrect` and `ClosedPurchasesWaitForNothing`, for
  all writers including the panel. `NoDemandOnClosedPurchase` is not inductive:
  a trigger that finds a purchase already closed drops nothing, so the argument
  needs that `purchase_closed` is only ever set on a joined cart
  (`ClosedOnlyJoined`) and that rows are well formed. `IInv` is the conjunction;
  `WriteFacts` covers every action that writes a row with its triggers, the
  others leave rows or requests alone (`QuietRows`, `QuietRequests`).
  `MoneyIsSafe` proves `MoneyIsNeverCancelled` under the hypothesis that only
  payments, reviews and the store write rows: the strengthening `MoneyCovered`
  says that an open cart with money is settled or under review, the two flags
  the guards read. The hypothesis is needed: with the ERP it is false
  (`CartInventory_erp.cfg`). Three more theorems have invariants of their own:
  - `NoUnitIsLost` (`UnitsConserved`, for all writers but the panel and its
    regenerated links, which write without a guard: `CartInventory_regenerate.cfg`
    violates it with either of them as the only writer).
    Every action either moves units of one cart between the cart and the shelf
    (`MoveUnits`, from `UnitsMove`) or leaves them where they are (`QuietUnits`);
    a cart stops being live exactly when its units are released.
  - `QueueAgrees` (`WaitingMatchesRequests`, for all writers). A cart that closes
    loses its demand and its requests in one step; one that is closed again has
    none, by `NoDemandOnClosedPurchase`.
  - `QueueIsFair` (`NoOvertaking`, without regenerated links). The three ways in
    which the code asks "is an older request waiting" agree when no VIP or eternal
    cart can be due (`ProtectedNeverDue`); a link arms the deadline of whatever
    cart it writes (`CartInventory_vip.cfg`). A step that settles a payment may
    retake units past the queue, as the property says.
* `LockSlotsProofs`: `NoLeak`, `CountersStayInRange` and `DeadlockFree` for every
  number of holders and handlers and every pool of two or more connections. The
  counters equal the cardinalities of the sets of tasks that hold them; since
  holders with two connections plus waiting ones fit in half of the pool,
  somebody who is not waiting has the rest, or a connection is free.
* `PaymentReconciliationProofs`: `PaymentTypeCorrect`, `PaidExcludesTerminated`
  and `FactsAreBacked` for every number of carts, charges, workers and crashes
  and every choice of the other writers. The invariant is `CartInv` (types, the
  two properties) with `WorkTypes`; it is inductive because the two transactions
  of the pipeline (`UpdateInv`, `RestoreInv`) and every row write preserve it
  from any state of the workers' registers: no stale register can break it.
  `PaymentAssumption` says that a manual payment's id is not a gateway id. The
  registers do matter for the others:
  - `EachChargeCountsOnce` (`MoneyCountedOnce`) when the store does not cancel or
    one worker is about, and `TwoWorkersCountOnce` for two workers and a store
    that cancels, which is the queue's configuration. Without cancellations
    nothing is restored; a lone worker restores what is not in the ledger
    (`RestoresAreFresh`). With two (`PairInv`), a worker about to restore has a
    charge outside the ledger and a cart waiting for it (`Awaits`), or the cart
    is past restoration and nobody else holds a "cancelled" that could demote it
    (`Past`). That needs the two workers to be the only ones that restore or
    reopen: no panel, no ERP.
  - `NoSecondPaymentUnprovoked`: a payment stamps the contents, so a charge that
    still fits them was created after it, and a charge is only created for a paid
    cart once a dead one demoted it (`SecondInv`). For at most two charges to a
    cart this is `SaleIsPaidOnce` (`TwoChargesPayOnce`).
  - `NoApprovedChargeIsLost` (`ApprovedIsNeverLost`) under `NoRivals`: the
    notification of an approved charge is still to be sent, in a worker's hands,
    or applied (`Handled`), and whoever turned to the restoration finds a cart
    that it can restore or that refuses (`RestoresAreOwed`, `TerminatedIsClear`).
    Each rival loses money in a run: the ERP (`_reopened`), two charges with two
    workers (`_tworestores`), a manual restoration between the failed write and
    the restoration (`ApprovedIsNeverLost` with
    `Actors <- WithManual` and one charge).
* `EventOutboxProofs`: `BoxInv` says what a sweep in progress knows (the rows it
  holds are pending and nobody else's, a row marked published is a task or was
  handled, a row marked dead has used up its attempts). From it `BoxTypeCorrect`,
  `NothingIsLost`, `SweepsStayApart` and the refinement `OutboxDelivers`: every
  step of the outbox is a step of `FactDelivery` or a stutter.
* `OrderPipelineProofs`: `PipelineIsOutbox` (every handler step is a step of its
  task, so the outbox's theorems hold of the pipeline), then `PipelineTypeCorrect`,
  `OrderIsAnnounced`, `EndedOrdersStayEnded` and `MailsHaveMarkers`. The last
  counts: the tasks that have claimed a mail and not sent it (`Sending`),
  together with the mails sent, are no more than the markers.
* `CouponRedemptionProofs`: `ApplyIsBounded` from `HolderChecked` (whoever is
  about to insert holds the lock and its check is still true), `CartAndRedemptionAgree`
  from `Agrees`, in which the unique keys and not the reads decide,
  `GivenBackForGood` and `CouponTypeCorrect`. `EveryUseHasItsRedemption`
  (`NoUseIsLost`) counts: with one coupon, no step takes two live redemptions away
  for the one use it gives back (`UsesCounted`).
* `ErpOrderProofs`: `TypeCorrect` and `OneOrderPerCart` for any handlers, failures,
  crashes and schedules. `OneOrder` is strengthened to `SingleOrder`: at
  most one order was ever made (`OneMade`); a handler about to POST has the turn
  and there is no order yet (`InTurn`), so nobody else can be there; ids that
  the row and the handlers remember are orders that were made (`Named`). The age
  of a claim plays no part: a resumed creation next to a slow original is
  stopped by the turn and the anchor. While no confirmation's release has ended
  another's claim (`Unbroken`), `ClaimInv` adds that at most one handler writes
  the order's grid, under a row that says so, and only the sweep under an old
  claim (`Claimed`), and that terminal operations hold the lock (`Locked`);
  from it `OneWriterAtATime`, `CancelledStaysFinal` and `ConfirmedStaysConfirmed`:
  of all steps of the system only that release demotes a confirmed order.
  `AcknowledgedIsReserved` (`AckIsTrue`) needs all of it and one creator
  (`OrderInv`): one at a time (`CreatorInv`), and, in `AckInv`, that
  nobody has sent or is about to send a grid newer than the cart's, that a handler
  which sent the cart's present grid left it in the order, and that an order
  without pending lines holds the cart's grid. Each of the three schedules in
  `raced` makes it false.

Every invariant and every action property of the passing runs is stated by a
theorem, and the run's instance satisfies the theorem's hypotheses. Where a
counterexample shows that a hypothesis is needed, it is named above. Only
model-checked are the properties under fairness, which the prover does not
reach: `DueUnitsComeBack`, `StockReachesQueue`, `HoldersFinish`, `PoolComesBack`,
`ApprovedIsSettled`, `SaleMaterialises`, `LinesReachOrder`. `RefundIsAFact` is
false, as its run shows.

## 5. Plan

Done: the outbox with its abstract specification, the order pipeline, coupons,
the ERP order. Next:

1. Proofs: a small abstract life of one
   charge (open, approved, recorded or refused) implemented by
   `PaymentReconciliation`; what the modules below add.
2. `ExpiryTimer`: scheduled tasks, re-arming, the sweep behind them.
3. `CheckoutMutation`: line edits, PIX invalidation, leases of a charge in
   creation. Proof: a charge is never paid for other contents.
4. `ErpOrder` for Tiny's replacement order and the reflection of the merchant's
   edits; `StockSync`: the compare-and-set of the ERP's balance.
5. Pure algorithms against reference definitions: pricing, rate limiter, backoff;
   idempotency keys.

## 6. Not modelled

Components that only read, or only create and update rows of their own
(notification, inbox, dashboards, catalogue, groups, customers, stores, members,
ideas, telemetry), have no protocol to check. The wire formats of the ERP,
gateway, Instagram and freight clients are I/O; what matters of them, that a call
may take effect and still fail, is in `PaymentReconciliation` and `ErpOrder`.
`db/sqlc` and `docs` are generated. The modules map the code that decides the
order of writes to shared rows, a small part of a repository most of whose lines
are queries, mappings, formats and generated text. `PROJECT.json` gives the
reason for each component.
