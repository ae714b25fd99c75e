------------------------------ MODULE ErpOrder ------------------------------
(***************************************************************************)
(* The sales order of one cart in the store's ERP (internal/erp): the      *)
(* first comment creates it, later ones replace its grid, the payment      *)
(* approves it, an expiry or a refund cancels it.  The order IS the stock  *)
(* reservation, so two orders hold the units twice.                        *)
(*                                                                         *)
(*   row     carts.erp_order_state, external_order_id (0: none),           *)
(*           erp_op_resting_state, and whether erp_op_started_at is old    *)
(*   cart    the cart's grid as a version number, whether its lines are    *)
(*           pending (erp_pending_since), payment_status, and whether it   *)
(*           expired                                                       *)
(*   orders  the orders the ERP holds for this cart, with the grid whose   *)
(*           units each one reserves                                       *)
(*   lock    who has the cart's finalisation lock (LockSlots)              *)
(*   turn    who creates, in the cart's turn of erpwrite.Queue; the other  *)
(*           writes are one call and wait for it to be free                *)
(*   call    each handler's next step and what it read before              *)
(*   done    the facts whose reactor returned nil: asynq forgets them      *)
(*   left    bounds on failed ERP calls and on crashes                     *)
(*   raced   history: see below                                            *)
(*                                                                         *)
(* An ERP call takes effect or not before it returns, and may fail either  *)
(* way; one that lands after its time-out was reported is left out.  One   *)
(* process, and the flow of a store on Bling that reserves by the order.   *)
(* Left out: Tiny's replacement order, joined carts, the ERP's own edits   *)
(* and their reflection, an order deleted in the ERP, invoices, unlinked   *)
(* products.                                                               *)
(*                                                                         *)
(* raced is a history variable, read by no guard: which of the schedules   *)
(* has happened that the claim of an order does not exclude.               *)
(*   "slow"  a creation passed the age at which a comment takes it over    *)
(*           while its own handler was still at it                         *)
(*   "paid"  a payment was handled while a comment created the order       *)
(*   "late"  the deferred release of a confirmation ended another's claim  *)
(***************************************************************************)
EXTENDS Integers, FiniteSets

CONSTANTS Tasks,      \* goroutines: comments, reactors, the sweeps
          MaxOrders,  \* bound: orders created in the ERP
          MaxGrid,    \* bound: times the buyer changes the cart
          MaxFaults,  \* bound: ERP calls that fail
          MaxCrashes, \* bound: crashes of the process
          None

ASSUME ErpAssumption ==
  /\ MaxOrders \in Nat /\ MaxGrid \in Nat /\ MaxFaults \in Nat /\ MaxCrashes \in Nat
  /\ None \notin Tasks

VARIABLES row, cart, orders, lock, turn, call, done, left, raced

vars == <<row, cart, orders, lock, turn, call, done, left, raced>>

Ids     == 1 .. MaxOrders
Grids   == 0 .. MaxGrid
Resting == {"open", "confirmed"}
Busy    == {"converting", "mutating"}
State   == {"none", "cancelled"} \cup Resting \cup Busy
Op      == {"none", "comment", "confirm", "approve", "expire", "refund", "sweep",
            "resume"}
Step    == {"idle", "route", "claim", "resume", "adopt", "compose", "lookup", "post", "bind",
            "open", "mutate", "grid", "put", "release", "recheck", "take", "approve", "settle",
            "leave", "drop", "withdraw", "undo"}

Call == [op : Op, pc : Step, ext : Ids \cup {0}, sent : Grids, grid : Grids,
         home : State, failed : BOOLEAN]
Idle == [op |-> "none", pc |-> "idle", ext |-> 0, sent |-> 0, grid |-> 0,
         home |-> "none", failed |-> FALSE]

\* Every variable stays well formed.
TypeOK ==
  /\ row \in [state : State, ext : Ids \cup {0}, rest : State, aged : BOOLEAN]
  /\ cart \in [grid : Grids, pending : BOOLEAN, pay : {"pending", "paid", "refunded"},
               expired : BOOLEAN]
  /\ orders \in [Ids -> [status : {"none", "open", "approved", "cancelled"}, held : Grids]]
  /\ lock \in Tasks \cup {None} /\ turn \in Tasks \cup {None}
  /\ call \in [Tasks -> Call]
  /\ done \subseteq {"paid", "expired", "refunded"}
  /\ left \in [faults : 0 .. MaxFaults, crashes : 0 .. MaxCrashes]
  /\ raced \subseteq {"slow", "paid", "late"}

Init ==
  /\ row = [state |-> "none", ext |-> 0, rest |-> "none", aged |-> FALSE]
  /\ cart = [grid |-> 0, pending |-> FALSE, pay |-> "pending", expired |-> FALSE]
  /\ orders = [o \in Ids |-> [status |-> "none", held |-> 0]]
  /\ lock = None /\ turn = None /\ done = {} /\ raced = {}
  /\ call = [w \in Tasks |-> Idle]
  /\ left = [faults |-> MaxFaults, crashes |-> MaxCrashes]

----------------------------------------------------------------------------
(* TransitionCartERPOrderState: compare-and-set, no trace of who claimed.  *)

Moved(from, to) ==
  IF row.state # from THEN row
  ELSE [row EXCEPT !.state = to, !.aged = FALSE,
                   !.rest = IF to = "mutating" THEN from ELSE "none"]

At(w, pc)   == call[w].pc = pc
Turns(w, c) == call' = [call EXCEPT ![w] = c]
Goes(w, pc) == Turns(w, [call[w] EXCEPT !.pc = pc]) /\ UNCHANGED <<lock, turn, done>>
Lets(held, w) == IF held = w THEN None ELSE held
\* The handler returns nil, and with it the fact is handled, or an error;
\* its deferred unlocks run.
Handled(w, facts) ==
  /\ Turns(w, Idle) /\ lock' = Lets(lock, w) /\ turn' = Lets(turn, w)
  /\ done' = done \cup facts
Fails(w) == Handled(w, {})

\* An ERP call: it works, or it fails before or after taking effect.
Faults == left.faults > 0 /\ left' = [left EXCEPT !.faults = @ - 1]
Works  == UNCHANGED left
Steady == UNCHANGED <<cart, orders, left, raced>>

Made  == {o \in Ids : orders[o].status # "none"}
Live  == {o \in Ids : orders[o].status \in {"open", "approved"}}
\* The steps of a handler that believes the claim is its own.
Creating == {"compose", "lookup", "post", "bind", "open"}
Writing  == {"grid", "put", "release", "approve", "settle"}
Writers  == {w \in Tasks : call[w].pc \in Writing}
Creators == {w \in Tasks : call[w].pc \in Creating}

----------------------------------------------------------------------------
(* The cart and its clock. *)

Starts(w, op, pc) ==
  /\ call[w] = Idle /\ Turns(w, [Idle EXCEPT !.op = op, !.pc = pc])

\* A comment writes the item, marked pending, before it turns to the ERP.
BuyerAdds(w) ==
  /\ cart.grid < MaxGrid /\ ~cart.expired
  /\ Starts(w, "comment", "route")
  /\ cart' = [cart EXCEPT !.grid = @ + 1, !.pending = TRUE]
  /\ UNCHANGED <<row, orders, lock, turn, done, left, raced>>

\* RecoverPendingERPItems: unpaid, open carts only.
Recovers(w) ==
  /\ cart.pending /\ ~cart.expired /\ cart.pay = "pending"
  /\ Starts(w, "comment", "route")
  /\ UNCHANGED <<row, cart, orders, lock, turn, done, left, raced>>

\* A payment that finds the cart ended is PaymentReconciliation's subject.
CartIsPaid ==
  /\ cart.pay = "pending" /\ ~cart.expired /\ cart.grid > 0
  /\ cart' = [cart EXCEPT !.pay = "paid"]
  /\ UNCHANGED <<row, orders, lock, turn, call, done, left, raced>>

CartIsRefunded ==
  /\ cart.pay = "paid" /\ cart' = [cart EXCEPT !.pay = "refunded"]
  /\ UNCHANGED <<row, orders, lock, turn, call, done, left, raced>>

CartExpires ==
  /\ cart.pay = "pending" /\ ~cart.expired /\ cart.grid > 0
  /\ cart' = [cart EXCEPT !.expired = TRUE]
  /\ UNCHANGED <<row, orders, lock, turn, call, done, left, raced>>

Notes(schedule, happens) ==
  raced' = IF happens THEN raced \cup {schedule} ELSE raced

\* erp_op_started_at passes 45 seconds for a creation, and whoever comes next
\* takes it over, at work or not.  A mutation is left alone for two minutes,
\* and its handler ends before that (90 seconds and 20 for the release).
Ages ==
  /\ row.state \in Busy /\ ~row.aged /\ Writers = {}
  /\ row' = [row EXCEPT !.aged = TRUE]
  /\ Notes("slow", Creators # {})
  /\ UNCHANGED <<cart, orders, lock, turn, call, done, left>>

\* The process dies: no deferred call runs, the session's lock is dropped.
Crashes ==
  /\ left.crashes > 0 /\ \E w \in Tasks : call[w] # Idle
  /\ left' = [left EXCEPT !.crashes = @ - 1]
  /\ call' = [w \in Tasks |-> Idle] /\ lock' = None /\ turn' = None
  /\ UNCHANGED <<row, cart, orders, done, raced>>

----------------------------------------------------------------------------
(* ReserveStockInERP and the creation of the order. *)

Routes(w) ==
  /\ At(w, "route") /\ Steady /\ UNCHANGED row
  /\ \/ row.state = "none" /\ Goes(w, "claim")
     \/ row.state = "cancelled" /\ Fails(w)
     \/ /\ row.state = "converting" /\ row.ext # 0
        /\ Turns(w, [call[w] EXCEPT !.pc = "open", !.ext = row.ext])
        /\ UNCHANGED <<lock, turn, done>>
     \* Without an order: in flight, until it is old and the lock is free;
     \* the comment looks once more whether it ended meanwhile.
     \/ /\ row.state = "converting" /\ row.ext = 0 /\ row.aged /\ lock = None
        /\ lock' = w /\ Turns(w, [call[w] EXCEPT !.pc = "resume"]) /\ UNCHANGED <<turn, done>>
     \/ row.state = "converting" /\ row.ext = 0 /\ ~(row.aged /\ lock = None) /\ Goes(w, "mutate")
     \/ row.state \in Resting \cup {"mutating"} /\ Goes(w, "mutate")

\* CAS none -> converting; the loser's item is in the grid of the winner.
Claims(w) ==
  /\ At(w, "claim") /\ row' = Moved("none", "converting") /\ Steady
  /\ \/ row.state = "none" /\ Goes(w, "compose")
     \/ row.state # "none" /\ call[w].op = "confirm" /\ Goes(w, "take")
     \/ row.state # "none" /\ call[w].op # "confirm" /\ Fails(w)

\* retomarCriacaoPresa looks again under the lock, then for the anchor.  A
\* comment turns to the mutation afterwards, the sweep is through.
AfterResume(w) ==
  IF call[w].op = "comment"
  THEN /\ Turns(w, [call[w] EXCEPT !.pc = "mutate", !.sent = 0])
       /\ lock' = Lets(lock, w) /\ UNCHANGED <<turn, done>>
  ELSE Handled(w, {})

Resumes(w) ==
  /\ At(w, "resume") /\ Steady /\ UNCHANGED row
  /\ \/ row.state # "converting" /\ AfterResume(w)
     \/ /\ row.state = "converting"
        /\ Turns(w, [call[w] EXCEPT !.pc = IF row.ext # 0 THEN "open" ELSE "adopt",
                                    !.ext = row.ext])
        /\ UNCHANGED <<lock, turn, done>>

\* FindOrderIDByMarker; a search that fails ends the handler.
Unanchored == {}                                                     \* mutant
Anchored   == Made

\* adoptOrderByMarker.
Adopts(w) ==
  /\ At(w, "adopt") /\ UNCHANGED <<cart, orders, raced>>
  /\ \/ Anchored = {} /\ Goes(w, "compose") /\ Works /\ UNCHANGED row
     \/ /\ Works /\ UNCHANGED <<lock, turn, done>>
        /\ \E o \in Anchored : /\ row' = [row EXCEPT !.ext = o]
                               /\ Turns(w, [call[w] EXCEPT !.pc = "open", !.ext = o])
     \/ Faults /\ Fails(w) /\ UNCHANGED row

\* createERPOrderForCart, in the cart's turn from the grid it reads to the
\* id it writes.
Composes(w) ==
  /\ At(w, "compose") /\ turn = None /\ turn' = w /\ Steady /\ UNCHANGED <<row, lock, done>>
  /\ Turns(w, [call[w] EXCEPT !.pc = "lookup", !.sent = cart.grid])

\* Bling's CreateOrder looks for the anchor before the POST.  What it adopts
\* is reported as created, with the grid just read.
LooksUp(w) ==
  /\ At(w, "lookup") /\ UNCHANGED <<row, cart, orders, raced>>
  /\ \/ /\ Works /\ UNCHANGED <<lock, turn, done>>
        /\ \E o \in IF Anchored = {} THEN {0} ELSE Anchored :
              Turns(w, [call[w] EXCEPT !.pc = IF o = 0 THEN "post" ELSE "bind", !.ext = o])
     \/ Faults /\ Fails(w)

\* An error leaves 'converting' behind on purpose.
Posts(w) ==
  /\ At(w, "post") /\ UNCHANGED <<row, cart, raced>>
  /\ \/ \E o \in Ids \ Made :
          /\ \A p \in Ids \ Made : o <= p
          /\ orders' = [orders EXCEPT ![o] = [status |-> "open", held |-> call[w].sent]]
          /\ \/ /\ Works /\ UNCHANGED <<lock, turn, done>>
                /\ Turns(w, [call[w] EXCEPT !.pc = "bind", !.ext = o])
             \/ Faults /\ Fails(w)
     \/ Faults /\ Fails(w) /\ UNCHANGED orders

Binds(w) ==
  /\ At(w, "bind") /\ row' = [row EXCEPT !.ext = call[w].ext] /\ Steady
  /\ Turns(w, [call[w] EXCEPT !.pc = "open"]) /\ turn' = Lets(turn, w)
  /\ UNCHANGED <<lock, done>>

\* openCartOrder, whether or not the CAS is won; what follows depends on who
\* asked and on whether this handler composed the order.
Opens(w) ==
  /\ At(w, "open") /\ row' = Moved("converting", "open") /\ Steady
  /\ \/ call[w].sent # 0 /\ Goes(w, "mutate")
     \/ call[w].sent = 0 /\ call[w].op = "confirm" /\ Goes(w, "take")
     \/ call[w].sent = 0 /\ call[w].op # "confirm" /\ AfterResume(w)

----------------------------------------------------------------------------
(* mutarGrade: a claimed pass, then a look at whether the cart moved on.   *)

\* umaPassadaDeMutacao; a busy order is waited for until the deadline.
Mutates(w) ==
  /\ At(w, "mutate") /\ Steady
  /\ \/ /\ row.state \in Resting /\ row.ext # 0
        /\ row' = Moved(row.state, "mutating")
        /\ Turns(w, [call[w] EXCEPT !.pc = "grid", !.ext = row.ext, !.home = row.state])
        /\ UNCHANGED <<lock, turn, done>>
     \/ ~(row.state \in Resting /\ row.ext # 0) /\ Fails(w) /\ UNCHANGED row

\* applyCartGridToOrder reads the cart's grid.  When it was sent already, or
\* by the creation, its lines are acknowledged (ConfirmERPGrid).  Four passes
\* are allowed; the buyer does not change the cart that often here.
ReadsGrid(w) ==
  /\ At(w, "grid") /\ UNCHANGED <<row, orders, left, raced>>
  /\ \/ /\ cart.grid = call[w].sent /\ cart' = [cart EXCEPT !.pending = FALSE]
        /\ Goes(w, IF call[w].op = "approve" THEN "approve" ELSE "release")
     \/ /\ cart.grid # call[w].sent /\ UNCHANGED <<cart, lock, turn, done>>
        /\ Turns(w, [call[w] EXCEPT !.pc = "put", !.grid = cart.grid])

\* The PUT gives a cancelled order its units again.  With it its
\* acknowledgement, which leaves pending what changed since it was read; a
\* change between the two is pending either way.
AlwaysAcknowledged(w) == FALSE                                       \* mutant
Acknowledged(w) == IF cart.grid = call[w].grid THEN FALSE ELSE cart.pending
GivesUp(w) ==
  IF call[w].op = "sweep" THEN Fails(w)
  ELSE /\ Turns(w, [call[w] EXCEPT !.pc = "release", !.failed = TRUE])
       /\ UNCHANGED <<lock, turn, done>>
PutsGrid(w) ==
  /\ At(w, "put") /\ turn = None /\ UNCHANGED <<row, raced>>
  /\ \/ /\ Works /\ orders' = [orders EXCEPT ![call[w].ext].held = call[w].grid]
        /\ cart' = [cart EXCEPT !.pending = Acknowledged(w)]
        /\ Turns(w, [call[w] EXCEPT !.pc = "grid", !.sent = call[w].grid])
        /\ UNCHANGED <<lock, turn, done>>
     \/ /\ Faults /\ GivesUp(w) /\ UNCHANGED cart
        /\ orders' \in {orders, [orders EXCEPT ![call[w].ext].held = call[w].grid]}

\* The deferred compare-and-set back to the state the claim came from.
ReleasesOpen(w) ==                                                   \* mutant
  /\ At(w, "release") /\ row' = Moved("mutating", "open") /\ Steady
  /\ IF call[w].failed THEN Fails(w) ELSE Goes(w, "recheck")
Releases(w) ==
  /\ At(w, "release") /\ row' = Moved("mutating", call[w].home) /\ Steady
  /\ \/ call[w].failed /\ Fails(w)
     \/ ~call[w].failed /\ call[w].op = "sweep" /\ Fails(w)
     \/ ~call[w].failed /\ call[w].op # "sweep" /\ Goes(w, "recheck")

Converged(w) == cart.grid = call[w].sent
Rechecks(w) ==
  /\ At(w, "recheck") /\ Steady /\ UNCHANGED row
  /\ \/ ~Converged(w) /\ Goes(w, "mutate")
     \/ Converged(w) /\ call[w].op = "confirm" /\ Goes(w, "take")
     \/ Converged(w) /\ call[w].op # "confirm" /\ lock = w /\ AfterResume(w)
     \/ Converged(w) /\ call[w].op # "confirm" /\ lock # w /\ Handled(w, {})

----------------------------------------------------------------------------
(* ConfirmERPOrderPayment, on order.paid. *)

ConfirmStarts(w) ==
  /\ call[w] = Idle /\ cart.pay # "pending" /\ "paid" \notin done /\ lock = None
  /\ UNCHANGED <<row, cart, orders, left>>
  /\ \/ row.state = "confirmed" /\ Handled(w, {"paid"}) /\ UNCHANGED raced
     \/ /\ row.state \in {"none", "converting", "open"}
        /\ Notes("paid", Creators # {})
        /\ LET pc == CASE row.state = "none" -> "claim"
                       [] row.state = "converting" -> IF row.ext # 0 THEN "open" ELSE "adopt"
                       [] row.state = "open" -> "take"
           IN Turns(w, [Idle EXCEPT !.op = "confirm", !.pc = pc, !.ext = row.ext])
        /\ lock' = w /\ UNCHANGED <<turn, done>>

\* Whoever finds the lock taken returns nil: order.paid counts as handled.
ConfirmSkips ==
  /\ \E w \in Tasks : call[w] = Idle
  /\ cart.pay # "pending" /\ "paid" \notin done /\ lock # None
  /\ done' = done \cup {"paid"}
  /\ UNCHANGED <<row, cart, orders, lock, turn, call, left, raced>>

Takes(w) ==
  /\ At(w, "take") /\ Steady
  /\ \/ /\ ~(row.state = "open" /\ row.ext # 0) /\ UNCHANGED row
        /\ Handled(w, IF row.state = "confirmed" THEN {"paid"} ELSE {})
     \/ /\ row.state = "open" /\ row.ext # 0 /\ row' = Moved("open", "mutating")
        /\ Turns(w, [call[w] EXCEPT !.op = "approve", !.pc = "grid", !.ext = row.ext,
                                    !.sent = 0, !.home = "open"])
        /\ UNCHANGED <<lock, turn, done>>

\* The checkout's values, the instalments and the situation, as one call.
Approves(w) ==
  /\ At(w, "approve") /\ turn = None /\ UNCHANGED <<row, cart, raced>>
  /\ LET approved == [orders EXCEPT ![call[w].ext].status = "approved"]
     IN \/ Works /\ orders' = approved /\ Goes(w, "settle")
        \/ Faults /\ orders' \in {orders, approved} /\ GivesUp(w)

Settles(w) ==
  /\ At(w, "settle") /\ row' = Moved("mutating", "confirmed") /\ Steady
  /\ Turns(w, [call[w] EXCEPT !.pc = "leave", !.failed = row.state # "mutating"])
  /\ UNCHANGED <<lock, turn, done>>

\* The deferred release runs after the success, too: a claim it finds then
\* is that of a mutation that waited for this one to end.
Leaves(w) ==
  /\ At(w, "leave") /\ row' = Moved("mutating", "open")
  /\ Notes("late", row.state = "mutating")
  /\ UNCHANGED <<cart, orders, left>>
  /\ Handled(w, IF call[w].failed THEN {} ELSE {"paid"})

----------------------------------------------------------------------------
(* Cancellation: cancelERPOrderForCart on cart.expired, and                *)
(* soltarPedidoConfirmado on order.refunded.                               *)

Withdraws(w, op) ==
  /\ row' = Moved(row.state, "cancelled")
  /\ Turns(w, [Idle EXCEPT !.op = op, !.pc = "withdraw", !.ext = row.ext, !.home = row.state])
  /\ lock' = w /\ UNCHANGED <<turn, done>>

\* A cart that is confirmed, or has a mutation in flight, is an error.
ExpiresOverMutations(w) ==                                           \* mutant
  /\ call[w] = Idle /\ cart.expired /\ "expired" \notin done /\ lock = None /\ Steady
  /\ cart.pay = "pending" /\ row.ext # 0 /\ Withdraws(w, "expire")
ExpireStarts(w) ==
  /\ call[w] = Idle /\ cart.expired /\ "expired" \notin done /\ lock = None /\ Steady
  /\ \/ (cart.pay # "pending" \/ row.state \in {"none", "cancelled"})
        /\ Handled(w, {"expired"}) /\ UNCHANGED row
     \/ /\ cart.pay = "pending" /\ row.state = "converting" /\ row.ext = 0
        /\ Turns(w, [Idle EXCEPT !.op = "expire", !.pc = "drop"]) /\ lock' = w
        /\ UNCHANGED <<row, turn, done>>
     \/ /\ cart.pay = "pending" /\ row.state \in {"converting", "open"} /\ row.ext # 0
        /\ Withdraws(w, "expire")

\* "Nothing to cancel in the ERP": nil, whether or not the CAS is won.
Drops(w) ==
  /\ At(w, "drop") /\ row' = Moved("converting", "cancelled") /\ Steady
  /\ Handled(w, {"expired"})

\* A refund that does not find the order confirmed has nothing to do.
RefundStarts(w) ==
  /\ call[w] = Idle /\ cart.pay = "refunded" /\ "refunded" \notin done /\ lock = None /\ Steady
  /\ \/ ~(row.state = "confirmed" /\ row.ext # 0) /\ Handled(w, {"refunded"}) /\ UNCHANGED row
     \/ row.state = "confirmed" /\ row.ext # 0 /\ Withdraws(w, "refund")

SubjectByName(w) == {call[w].op}                                     \* mutant
Subject(w) == IF call[w].op = "expire" THEN {"expired"} ELSE {"refunded"}

\* Under the turn the claim is checked again.  After a failure the expiry
\* asks the ERP; unless it says "cancelled", the claim is undone.
Cancels(w) ==
  /\ At(w, "withdraw") /\ turn = None /\ UNCHANGED <<row, cart, raced>>
  /\ LET withdrawn == [orders EXCEPT ![call[w].ext] = [status |-> "cancelled", held |-> 0]]
     IN \/ Works /\ orders' = withdrawn /\ Handled(w, Subject(w))
        \/ Faults /\ orders' = withdrawn /\ call[w].op = "expire" /\ Handled(w, {"expired"})
        \/ Faults /\ orders' \in {orders, withdrawn} /\ Goes(w, "undo")

Undoes(w) ==
  /\ At(w, "undo") /\ row' = Moved("cancelled", call[w].home) /\ Steady /\ Fails(w)

----------------------------------------------------------------------------
(* RunERPOrderOpsSweep: one goroutine, for claims two minutes old.         *)

SweepsCreations(w) ==                                                \* mutant
  /\ call[w] = Idle /\ row.state = "converting" /\ row.aged /\ lock = None /\ Steady
  /\ Turns(w, [Idle EXCEPT !.op = "resume", !.pc = "resume", !.home = row.rest])
  /\ lock' = w /\ UNCHANGED <<row, turn, done>>
Sweeps(w) ==
  /\ call[w] = Idle /\ row.state \in Busy /\ row.aged /\ Steady /\ UNCHANGED row
  /\ \A v \in Tasks : call[v].op \notin {"sweep", "resume"}
  /\ LET works(op, c) == Turns(w, [Idle EXCEPT !.op = op, !.pc = c, !.ext = row.ext,
                                               !.home = row.rest])
     IN \/ row.state = "mutating" /\ row.ext # 0 /\ works("sweep", "grid") /\ UNCHANGED lock
        \/ row.state = "converting" /\ row.ext # 0 /\ works("resume", "open") /\ UNCHANGED lock
        \/ /\ row.state = "converting" /\ row.ext = 0 /\ lock = None
           /\ works("resume", "resume") /\ lock' = w
  /\ UNCHANGED <<turn, done>>

----------------------------------------------------------------------------

Proceeds(w) ==
  \/ Routes(w) \/ Claims(w) \/ Resumes(w) \/ Adopts(w) \/ Composes(w) \/ LooksUp(w)
  \/ Posts(w) \/ Binds(w) \/ Opens(w) \/ Mutates(w) \/ ReadsGrid(w) \/ PutsGrid(w)
  \/ Releases(w) \/ Rechecks(w) \/ Takes(w) \/ Approves(w) \/ Settles(w) \/ Leaves(w)
  \/ Drops(w) \/ Cancels(w) \/ Undoes(w)

Reactors(w) == ConfirmStarts(w) \/ ExpireStarts(w) \/ RefundStarts(w)

Next ==
  \/ \E w \in Tasks : BuyerAdds(w) \/ Recovers(w) \/ Reactors(w) \/ Sweeps(w) \/ Proceeds(w)
  \/ CartIsPaid \/ CartIsRefunded \/ CartExpires \/ ConfirmSkips \/ Ages \/ Crashes

\* Handlers run on, time passes, the sweeps come round again.  Nothing makes
\* a buyer, a payment, a fault or a crash happen.
Fairness ==
  /\ \A w \in Tasks : WF_vars(Proceeds(w))
  /\ WF_vars(Ages)
  /\ SF_vars(\E w \in Tasks : Sweeps(w))
  /\ SF_vars(\E w \in Tasks : Recovers(w))

Spec     == Init /\ [][Next]_vars
FairSpec == Spec /\ Fairness

----------------------------------------------------------------------------
(* Properties. *)

\* One cart holds its units in the ERP once: a retried, resumed or doubled
\* creation never leaves two live orders.
OneOrder == \A o, p \in Live : o = p

\* Until the release of a confirmation has ended another's claim: once the
\* order is claimed for cancellation no write reaches it any more (measured
\* in the source: "um pedido cancelado segurando 3 unidades").
CancelledIsFinal ==
  [][row.state = "cancelled" =>
       \/ \A o \in Made : orders'[o].held \in {orders[o].held, 0}
       \/ "late" \in raced]_vars

\* A line that is not pending is in the order, unless two handlers created it
\* or a claim was ended from outside: at rest, the order of a cart without
\* pending lines holds exactly its grid, before the payment and once it is
\* confirmed.
AckIsTrue ==
  /\ ~cart.pending /\ row.state \in Resting /\ orders[row.ext].status # "cancelled"
  /\ cart.pay = "pending" \/ row.state = "confirmed"
  /\ raced = {}
  => orders[row.ext].held = cart.grid

\* A claim has one owner: never two handlers write the grid of one order, and
\* while one does the row says so, unless a confirmation's release ended a
\* claim it did not own.
OneWriter ==
  "late" \notin raced => /\ \A v, w \in Writers : v = w
                         /\ Writers # {} => row.state = "mutating"

\* A confirmed order is demoted by one thing only, the deferred release of a
\* confirmation over the claim of a mutation that waited: it stays confirmed
\* through mutations, failures, crashes and sweeps, or is cancelled.
Home == IF row.state = "mutating" THEN row.rest ELSE row.state
PaidStaysConfirmed ==
  [][Home = "confirmed" => Home' \in {"confirmed", "cancelled"} \/ "late" \in raced']_vars

\* A line of an open, unpaid cart is acknowledged in the end, whatever
\* failed on the way, unless the order was cancelled.
LinesReachOrder ==
  (cart.pending /\ cart.grid > 0) ~>
     (~cart.pending \/ cart.expired \/ cart.pay # "pending")

(* False of the code: see the configurations run by hand. *)

\* "nunca rebaixando um pedido pago a 'open'": whoever mutates.
PaidNeverDemoted == [][Home = "confirmed" => Home' \in {"confirmed", "cancelled"}]_vars
\* No write reaches a cancelled order, whoever lost its claim.
CancelledNeverWritten ==
  [][row.state = "cancelled" =>
       \A o \in Made : orders'[o].held \in {orders[o].held, 0}]_vars
\* An acknowledged line of an unpaid cart is in its order, whoever created it.
AckIsAlwaysTrue ==
  ~cart.pending /\ row.state = "open" /\ orders[row.ext].status # "cancelled"
    /\ cart.pay = "pending"
  => orders[row.ext].held = cart.grid

Quiet == \A w \in Tasks : call[w] = Idle
\* "idempotente pelo erp_order_state": the expiry gave the units back.
ExpiredIsWithdrawn == (Quiet /\ "expired" \in done /\ cart.pay = "pending") => Live = {}
\* A handled order.paid has confirmed the order.
PaidIsConfirmed == (Quiet /\ done = {"paid"}) => row.state \in {"confirmed", "mutating"}
\* A handled order.refunded has cancelled the order.
RefundIsWithdrawn == (Quiet /\ "refunded" \in done) => Live = {}
=============================================================================
