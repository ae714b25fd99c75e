------------------------- MODULE CartInventoryProofs -------------------------
(***************************************************************************)
(* What holds of CartInventory for every set of carts, every joining of    *)
(* them, every stock and every choice of writers.  TypeOK and              *)
(* NoDemandOnClosedPurchase are proved together: the second needs that     *)
(* only a joined cart is ever closed by somebody else's payment.           *)
(*                                                                         *)
(* Each later part adds to IInv what its property rests on: MoneyCovered   *)
(* for recorded money, UInv for the units on the shelf and in carts, WInv  *)
(* for the waiting units and their requests, QInv for the order in which   *)
(* requests are served.  Units are counted as the cardinality of a set, so *)
(* a step that moves n units moves n elements (UnitsMove, MoveUnits).      *)
(***************************************************************************)
EXTENDS CartInventory, CartRowProofs, FiniteSetTheorems, FunctionTheorems

\* purchase_closed is written by the trigger of the owner only.
ClosedOnlyJoined == \A c \in Carts : rows[c].closed => Joined(c)

IInv == TypeOK /\ ClosedOnlyJoined /\ NoDemandOnClosedPurchase

----------------------------------------------------------------------------
(* The waiting list. *)

\* Removing requests leaves a well-formed list: what is left keeps its cart and
\* its quantity.
LEMMA WithoutFacts ==
  ASSUME TypeOK, NEW D, NEW Q, Q = Without(D)
  PROVE  /\ Q \in [Lots -> Request \cup {Closed}]
         /\ \A l \in Lots : Q[l].cart # Nobody
              => l \notin D /\ Q[l].cart = requests[l].cart
<1>1. \A l \in Lots : Q[l] = IF l \in D THEN Closed
                             ELSE [requests[l] EXCEPT !.ahead = @ \ D]
  BY DEF Without
<1>2. ASSUME NEW l \in Lots, l \notin D
      PROVE  /\ Q[l] \in Request \cup {Closed}
             /\ Q[l].cart = requests[l].cart
  <2>1. requests[l] \in Request \cup {Closed}  BY DEF TypeOK
  <2>2. Q[l] = [requests[l] EXCEPT !.ahead = @ \ D]  BY <1>1, <1>2
  <2>3. CASE requests[l] = Closed
    BY <2>2, <2>3 DEF Closed
  <2>4. CASE requests[l] \in Request
    BY <2>2, <2>4 DEF Request
  <2>. QED  BY <2>1, <2>3, <2>4
<1>3. \A l \in D \cap Lots : Q[l] = Closed  BY <1>1
<1>. QED  BY <1>1, <1>2, <1>3 DEF Without, Closed

\* A new request is well formed and belongs to the cart that asked.
LEMMA EnqueueFacts ==
  ASSUME TypeOK, NEW c \in Carts, NEW n \in Nat \ {0}, Enqueue(c, n)
  PROVE  /\ requests' \in [Lots -> Request \cup {Closed}]
         /\ \A l \in Lots : requests'[l].cart # Nobody
              => requests'[l].cart \in {c, requests[l].cart}
<1>1. PICK k \in Lots \ Waitlist :
        requests' = [requests EXCEPT ![k] = [cart |-> c, qty |-> n, ahead |-> Waitlist]]
  BY DEF Enqueue
<1>2. [cart |-> c, qty |-> n, ahead |-> Waitlist] \in Request
  BY DEF Request, Waitlist
<1>. QED  BY <1>1, <1>2 DEF TypeOK

\* Serving part of a request leaves the rest open for the same cart.
LEMMA ServeFacts ==
  ASSUME TypeOK, NEW l \in Waitlist, NEW n \in Nat, n <= requests[l].qty,
         NEW Q, Q = Serve(l, n)
  PROVE  /\ Q \in [Lots -> Request \cup {Closed}]
         /\ \A k \in Lots : Q[k].cart # Nobody => Q[k].cart = requests[k].cart
<1>1. CASE n = requests[l].qty
  BY <1>1, WithoutFacts DEF Serve
<1>2. CASE n # requests[l].qty
  <2>1. l \in Lots /\ requests[l] \in Request
    BY DEF Waitlist, TypeOK, Closed
  <2>2. Q = [requests EXCEPT ![l].qty = @ - n]
    BY <1>2 DEF Serve
  <2>3. [requests[l] EXCEPT !.qty = @ - n] \in Request
    BY <1>2, <2>1 DEF Request
  <2>. QED  BY <2>1, <2>2, <2>3 DEF TypeOK
<1>. QED  BY <1>1, <1>2

----------------------------------------------------------------------------
(* Writing a row. *)

\* A row write keeps the rows well formed, and only a joined cart is closed by it.
LEMMA WriteRowFacts ==
  ASSUME TypeOK, ClosedOnlyJoined,
         NEW c \in Carts, NEW r \in Row, r.closed = rows[c].closed,
         rows' = WriteRow(rows, c, r)
  PROVE  /\ rows' \in [Carts -> Row]
         /\ ClosedOnlyJoined'
         /\ rows'[c] = r
         /\ \A x \in Carts \ Purchase(c) : rows'[x] = rows[x]
         /\ \A x \in Carts \ {c} : rows'[x].status = rows[x].status
                                   /\ rows'[x].reason = rows[x].reason
                                   /\ rows'[x].pay = rows[x].pay
                                   /\ rows'[x].review = rows[x].review
         /\ ~Closes(r) => \A x \in Carts \ {c} : rows'[x] = rows[x]
<1>1. \A x \in Carts : rows[x] \in Row  BY DEF TypeOK
<1>2. \A x \in Carts : [rows[x] EXCEPT !.closed = TRUE] \in Row  BY <1>1 DEF Row
<1>3. \A x \in Carts : rows'[x] = IF x = c THEN r
                                  ELSE IF Owner[x] = c /\ Closes(r)
                                  THEN [rows[x] EXCEPT !.closed = TRUE] ELSE rows[x]
  BY DEF WriteRow
<1>4. rows' \in [Carts -> Row]  BY <1>1, <1>2 DEF WriteRow
<1>5. ClosedOnlyJoined'
  BY <1>3 DEF ClosedOnlyJoined, Joined
<1>6. \A x \in Carts \ {c} : /\ rows'[x].status = rows[x].status
                             /\ rows'[x].reason = rows[x].reason
                             /\ rows'[x].pay = rows[x].pay
                             /\ rows'[x].review = rows[x].review
  <2>1. rows \in [Carts -> Row]  BY DEF TypeOK
  <2>. QED  BY <2>1, WriteRowShape
<1>7. \A x \in Carts \ Purchase(c) : rows'[x] = rows[x]
  BY <1>3 DEF Purchase
<1>. QED  BY <1>3, <1>4, <1>5, <1>6, <1>7

\* Writing a row together with its triggers keeps the invariant: when the row
\* closes now, its demand goes with it; when it was closed before, there was none.
LEMMA WriteFacts ==
  ASSUME IInv, NEW c \in Carts, NEW r \in Row, r.closed = rows[c].closed,
         Write(c, r)
  PROVE  /\ rows' \in [Carts -> Row]
         /\ waiting' \in [Carts -> Nat]
         /\ requests' \in [Lots -> Request \cup {Closed}]
         /\ ClosedOnlyJoined'
         /\ NoDemandOnClosedPurchase'
<1>. USE DEF IInv
<1>1. rows' = WriteRow(rows, c, r)  BY DEF Write
<1>2. waiting' \in [Carts -> Nat]
  BY DEF Write, WaitingAfterClose, TypeOK
<1>3. SUFFICES ASSUME NEW l \in Lots, requests'[l].cart # Nobody
               PROVE  LET d == requests'[l].cart IN
                      ~Closes(rows'[d]) /\ ~Closes(rows'[Owner[d]]) /\ ~rows'[d].closed
  <2>1. requests' \in [Lots -> Request \cup {Closed}]
    BY WithoutFacts DEF Write, TypeOK
  <2>. QED
    BY <1>1, <1>2, <1>3, <2>1, WriteRowFacts DEF NoDemandOnClosedPurchase, Waitlist, Closes
<1>. DEFINE d == requests[l].cart
<1>4. /\ requests'[l].cart = d
      /\ d \in Carts /\ Owner[d] \in Carts /\ Owner[Owner[d]] = Owner[d]
      /\ FlipsClosed(c, r) => d \notin Purchase(c)
  <2>1. requests'[l].cart = requests[l].cart
        /\ (FlipsClosed(c, r) => l \notin RequestsOf(Purchase(c)))
    BY <1>3, WithoutFacts DEF Write
  <2>2. requests[l] \in Request  BY <1>3, <2>1 DEF TypeOK, Closed
  <2>. QED  BY <2>1, <2>2, CartRowAssumption DEF Request, RequestsOf
<1>5. ~Closes(rows[d]) /\ ~Closes(rows[Owner[d]]) /\ ~rows[d].closed
  BY <1>3, <1>4 DEF NoDemandOnClosedPurchase, Waitlist
<1>6. CASE d \notin Purchase(c)
  <2>1. Owner[d] \notin Purchase(c)  BY <1>4, <1>6 DEF Purchase
  <2>. QED  BY <1>1, <1>4, <1>5, <1>6, <2>1, WriteRowFacts
<1>7. CASE d \in Purchase(c)
  <2>1. ~FlipsClosed(c, r)  BY <1>4, <1>7
  <2>2. ~Closes(rows[c])
    BY <1>4, <1>5, <1>7 DEF Purchase
  <2>3. ~Closes(r)  BY <2>1, <2>2 DEF FlipsClosed, Closes
  <2>4. rows'[c] = r /\ \A x \in Carts \ {c} : rows'[x] = rows[x]
    BY <1>1, <2>3, WriteRowFacts
  <2>. QED  BY <1>4, <1>5, <2>3, <2>4
<1>. QED  BY <1>6, <1>7
----------------------------------------------------------------------------
\* An action that rewrites rows without closing any keeps the demand invariant.
LEMMA QuietRows ==
  ASSUME IInv, UNCHANGED requests, rows' \in [Carts -> Row],
         \A x \in Carts : /\ Closes(rows'[x]) => Closes(rows[x])
                          /\ rows'[x].closed = rows[x].closed
  PROVE  ClosedOnlyJoined' /\ NoDemandOnClosedPurchase'
<1>1. ClosedOnlyJoined'  BY DEF IInv, ClosedOnlyJoined, Joined
<1>2. ASSUME NEW l \in Lots, requests[l].cart # Nobody
      PROVE  requests[l].cart \in Carts /\ Owner[requests[l].cart] \in Carts
  BY <1>2, CartRowAssumption DEF IInv, TypeOK, Request, Closed
<1>. QED  BY <1>1, <1>2 DEF IInv, NoDemandOnClosedPurchase, Waitlist

\* An action that leaves the rows alone may only open requests for carts that
\* are not closed.
LEMMA QuietRequests ==
  ASSUME IInv, UNCHANGED rows, NEW c \in Carts,
         ~Closes(rows[c]), ~Closes(rows[Owner[c]]), ~rows[c].closed,
         \A l \in Lots : requests'[l].cart # Nobody
            => requests'[l].cart \in {c, requests[l].cart}
  PROVE  ClosedOnlyJoined' /\ NoDemandOnClosedPurchase'
BY DEF IInv, NoDemandOnClosedPurchase, ClosedOnlyJoined, Waitlist, Joined

----------------------------------------------------------------------------
(* One step per action. *)

LEMMA InitIInv == Init => IInv
<1>1. NewRow \in Row /\ ~NewRow.closed
  BY DEF NewRow, Row, Open, Terminated, HumanCancel, Settled
<1>. QED
  BY <1>1, CartInventoryAssumption
  DEF Init, IInv, TypeOK, ClosedOnlyJoined, NoDemandOnClosedPurchase, Waitlist, Closed

\* A sale, and the queueing of what could not be sold.
LEMMA AddCommentItemIInv ==
  ASSUME IInv, NEW c \in Carts, NEW q \in Quantities, AddCommentItem(c, q)
  PROVE  IInv'
<1>. DEFINE n == Accepted(c, q)
            got == IF OlderBlocksComment THEN 0 ELSE Least(n, AtLeast0(stock))
<1>1. n \in Nat \ {0}
  BY CartInventoryAssumption DEF AddCommentItem, Accepted, Least, AtLeast0, IInv, TypeOK
<1>2. got \in Nat /\ got <= n
  BY <1>1 DEF Least, AtLeast0, IInv, TypeOK
<1>. HIDE DEF n, got
<1>3. /\ stock' = stock - got
      /\ held' = [held EXCEPT ![c] = @ + got]
      /\ waiting' = [waiting EXCEPT ![c] = @ + (n - got)]
      /\ IF n > got THEN Enqueue(c, n - got) ELSE UNCHANGED requests
      /\ UNCHANGED <<money, rows, flows>>
  BY DEF AddCommentItem, n, got
<1>4. ~Closes(rows[c]) /\ ~Closes(rows[Owner[c]]) /\ ~rows[c].closed
  BY DEF AddCommentItem, Admits, Closes, Open, Terminated, Unsettled
<1>5. /\ requests' \in [Lots -> Request \cup {Closed}]
      /\ \A l \in Lots : requests'[l].cart # Nobody
           => requests'[l].cart \in {c, requests[l].cart}
  <2>1. CASE n > got
    <3>1. n - got \in Nat \ {0}  BY <1>1, <1>2, <2>1
    <3>2. Enqueue(c, n - got)  BY <1>3, <2>1
    <3>. QED  BY <3>1, <3>2, EnqueueFacts DEF IInv
  <2>2. CASE ~(n > got)  BY <1>3, <2>2 DEF IInv, TypeOK
  <2>. QED  BY <2>1, <2>2
<1>6. ClosedOnlyJoined' /\ NoDemandOnClosedPurchase'
  BY <1>3, <1>4, <1>5, QuietRequests
<1>7. TypeOK'
  BY <1>1, <1>2, <1>3, <1>5 DEF IInv, TypeOK, flows
<1>. QED  BY <1>6, <1>7 DEF IInv

\* The two actions on one open request.
LEMMA LotStepIInv ==
  ASSUME IInv, NEW l \in Lots, LotStep(l)
  PROVE  IInv'
<1>. DEFINE c == requests[l].cart
<1>1. l \in Waitlist  BY DEF LotStep, CancelWaitingRequest, PromoteNextWaitlistEntry, Head, Candidates
<1>2. requests[l] \in Request /\ c \in Carts /\ requests[l].qty \in Nat \ {0}
  BY <1>1 DEF IInv, TypeOK, Waitlist, Request, Closed
<1>3. ~Closes(rows[c]) /\ ~Closes(rows[Owner[c]]) /\ ~rows[c].closed
  BY <1>1 DEF IInv, NoDemandOnClosedPurchase
<1>4. CASE CancelWaitingRequest(l)
  <2>1. /\ requests' \in [Lots -> Request \cup {Closed}]
        /\ \A k \in Lots : requests'[k].cart # Nobody => requests'[k].cart = requests[k].cart
    BY <1>4, WithoutFacts DEF CancelWaitingRequest, IInv
  <2>2. ClosedOnlyJoined' /\ NoDemandOnClosedPurchase'
    BY <1>2, <1>3, <1>4, <2>1, QuietRequests DEF CancelWaitingRequest
  <2>3. waiting' \in [Carts -> Nat]
    BY <1>2, <1>4 DEF IInv, TypeOK, CancelWaitingRequest
  <2>4. UNCHANGED <<money, rows, stock, held, ended, regenerating>>
    BY <1>4 DEF CancelWaitingRequest, flows
  <2>. QED  BY <2>1, <2>2, <2>3, <2>4 DEF IInv, TypeOK
<1>5. CASE PromoteNextWaitlistEntry(l)
  <2>. DEFINE n == Least(stock, requests[l].qty)
  <2>1. n \in Nat /\ n <= requests[l].qty
    BY <1>2, <1>5 DEF PromoteNextWaitlistEntry, Least, IInv, TypeOK
  <2>. HIDE DEF n
  <2>2. /\ stock' = stock - n
        /\ held' = [held EXCEPT ![c] = @ + n]
        /\ waiting' = [waiting EXCEPT ![c] = @ - n]
        /\ waiting[c] >= requests[l].qty
        /\ requests' = Serve(l, n)
        /\ UNCHANGED <<money, rows, flows>>
    BY <1>5 DEF PromoteNextWaitlistEntry, n
  <2>3. /\ requests' \in [Lots -> Request \cup {Closed}]
        /\ \A k \in Lots : requests'[k].cart # Nobody => requests'[k].cart = requests[k].cart
    BY <1>1, <2>1, <2>2, ServeFacts DEF IInv
  <2>4. ClosedOnlyJoined' /\ NoDemandOnClosedPurchase'
    BY <1>2, <1>3, <2>2, <2>3, QuietRequests
  <2>5. TypeOK'
    BY <1>2, <2>1, <2>2, <2>3 DEF IInv, TypeOK, flows
  <2>. QED  BY <2>4, <2>5 DEF IInv
<1>. QED  BY <1>4, <1>5 DEF LotStep
\* The two actions on an event only move carts that stay open.
LEMMA EventStepIInv ==
  ASSUME IInv, NEW e \in Events, EventStep(e)
  PROVE  IInv'
<1>1. rows' \in [Carts -> Row]
      /\ \A x \in Carts : /\ Closes(rows'[x]) => Closes(rows[x])
                          /\ rows'[x].closed = rows[x].closed
  <2>1. \A x \in Carts : rows[x] \in Row  BY DEF IInv, TypeOK
  <2>2. \A x \in Carts : Arm(rows[x].deadline) \in {"none", "armed", "due"}
    BY <2>1 DEF Arm, Row
  <2>3. ASSUME NEW x \in Carts
        PROVE  LET a == [rows[x] EXCEPT !.deadline = Arm(@)]
                   f == [rows[x] EXCEPT !.status = "checkout", !.deadline = Arm(@)]
               IN /\ a \in Row /\ a.closed = rows[x].closed
                  /\ Closes(a) => Closes(rows[x])
                  /\ f \in Row /\ f.closed = rows[x].closed
                  /\ Closes(f) => Closes(rows[x])
    BY <2>1, <2>2 DEF Row, Open, Closes, Terminated
  <2>4. CASE CloseEvent(e)
    BY <2>1, <2>3, <2>4 DEF CloseEvent
  <2>5. CASE FinalizeCartsByEvent(e)
    BY <2>1, <2>3, <2>5 DEF FinalizeCartsByEvent
  <2>. QED  BY <2>4, <2>5 DEF EventStep
<1>2. UNCHANGED items /\ UNCHANGED money /\ UNCHANGED regenerating /\ ended' \subseteq Events
  BY DEF EventStep, CloseEvent, FinalizeCartsByEvent, flows, IInv, TypeOK
<1>3. ClosedOnlyJoined' /\ NoDemandOnClosedPurchase'
  BY <1>1, <1>2, QuietRows DEF items
<1>. QED  BY <1>1, <1>2, <1>3 DEF IInv, TypeOK, items

\* The actions that write one row through Write and touch nothing of the queue.
WritesRow(c, r) ==
  /\ Write(c, r)
  /\ UNCHANGED held /\ stock' \in Int
  /\ money' \subseteq Carts /\ ended' \subseteq Events /\ regenerating' \subseteq Carts

\* One row write, whatever it is for, keeps the invariant.
LEMMA WritesRowIInv ==
  ASSUME IInv, NEW c \in Carts, NEW r \in Row, r.closed = rows[c].closed,
         WritesRow(c, r)
  PROVE  IInv'
BY WriteFacts DEF WritesRow, IInv, TypeOK

\* The actions that neither open nor close a purchase, and the reopening.
LEMMA ReopenIInv ==
  ASSUME IInv, NEW c \in Carts, ReopenCancelledCartFromERP(c)
  PROVE  IInv'
<1>. DEFINE got == IF OlderBlocksReopen THEN 0 ELSE Least(AtLeast0(stock), held[c])
            r == ReopenedRow(c, rows[c])
<1>1. got \in Nat /\ got <= held[c] /\ held[c] \in Nat
  BY DEF Least, AtLeast0, IInv, TypeOK
<1>2. rows[c] \in Row  BY DEF IInv, TypeOK
<1>3. r \in Row /\ r.closed = rows[c].closed
  BY <1>2, RowFacts
<1>4. ~Closes(r)
  BY <1>2 DEF ReopenedRow, ReopenCancelledCartFromERP, Reopenable, Closes, Terminated, Unsettled, Row
<1>5. Owner[c] = c /\ ~rows[c].closed
  BY DEF ReopenCancelledCartFromERP, Joined, IInv, ClosedOnlyJoined
<1>. HIDE DEF got, r
<1>6. /\ rows' = WriteRow(rows, c, r)
      /\ stock' = stock - got
      /\ held' = [held EXCEPT ![c] = got]
      /\ waiting' = [waiting EXCEPT ![c] = held[c] - got]
      /\ IF held[c] > got THEN Enqueue(c, held[c] - got) ELSE UNCHANGED requests
      /\ UNCHANGED <<money, ended, regenerating>>
  BY DEF ReopenCancelledCartFromERP, flows, got, r
<1>7. /\ rows' \in [Carts -> Row] /\ ClosedOnlyJoined'
      /\ rows'[c] = r
      /\ \A x \in Carts \ {c} : rows'[x] = rows[x]
  BY <1>3, <1>4, <1>6, WriteRowFacts DEF IInv
<1>8. /\ requests' \in [Lots -> Request \cup {Closed}]
      /\ \A l \in Lots : requests'[l].cart # Nobody
           => requests'[l].cart \in {c, requests[l].cart}
  <2>1. CASE held[c] > got
    BY <1>1, <1>6, <2>1, EnqueueFacts DEF IInv
  <2>2. CASE ~(held[c] > got)  BY <1>6, <2>2 DEF IInv, TypeOK
  <2>. QED  BY <2>1, <2>2
<1>9. NoDemandOnClosedPurchase'
  <2>1. SUFFICES ASSUME NEW l \in Lots, requests'[l].cart # Nobody
                 PROVE  LET d == requests'[l].cart IN
                        ~Closes(rows'[d]) /\ ~Closes(rows'[Owner[d]]) /\ ~rows'[d].closed
    BY DEF NoDemandOnClosedPurchase, Waitlist
  <2>2. CASE requests'[l].cart = c
    BY <1>3, <1>4, <1>5, <1>7, <2>2
  <2>3. CASE requests'[l].cart # c
    <3>. DEFINE d == requests[l].cart
    <3>1. requests'[l].cart = d /\ d # c  BY <1>8, <2>1, <2>3
    <3>2. d \in Carts /\ Owner[d] \in Carts
      BY <2>1, <3>1, CartRowAssumption DEF IInv, TypeOK, Request, Closed
    <3>3. ~Closes(rows[d]) /\ ~Closes(rows[Owner[d]]) /\ ~rows[d].closed
      BY <2>1, <3>1 DEF IInv, NoDemandOnClosedPurchase, Waitlist
    <3>. QED  BY <1>4, <1>7, <3>1, <3>2, <3>3
  <2>. QED  BY <2>2, <2>3
<1>10. held' \in [Carts -> Nat] /\ waiting' \in [Carts -> Nat]
  BY <1>1, <1>6 DEF IInv, TypeOK
<1>11. stock' \in Int  BY <1>1, <1>6 DEF IInv, TypeOK
<1>. QED
  BY <1>6, <1>7, <1>8, <1>9, <1>10, <1>11 DEF IInv, TypeOK
\* One step of one cart.
LEMMA CartStepIInv ==
  ASSUME IInv, NEW c \in Carts, CartStep(c)
  PROVE  IInv'
<1>. USE DEF IInv
<1>1. /\ rows[c] \in Row /\ held[c] \in Nat /\ stock \in Int
      /\ money \subseteq Carts /\ ended \subseteq Events /\ regenerating \subseteq Carts
  BY DEF TypeOK
<1>. DEFINE Shape(r) == r \in Row /\ r.closed = rows[c].closed
<1>2. CASE \E q \in Quantities : AddCommentItem(c, q)
  BY <1>2, AddCommentItemIInv
<1>3. CASE DeadlinePasses(c)
  <2>1. rows' \in [Carts -> Row]
        /\ \A x \in Carts : /\ Closes(rows'[x]) => Closes(rows[x])
                            /\ rows'[x].closed = rows[x].closed
    BY <1>1, <1>3 DEF DeadlinePasses, TypeOK, Row, Closes
  <2>2. ClosedOnlyJoined' /\ NoDemandOnClosedPurchase'
    BY <1>3, <2>1, QuietRows DEF DeadlinePasses, items
  <2>. QED  BY <1>3, <2>1, <2>2 DEF DeadlinePasses, TypeOK, items, flows
<1>4. CASE ExpireCartAndReleaseStock(c)
  <2>1. Shape(ExpiredRow(rows[c]))  BY <1>1, RowFacts
  <2>2. WritesRow(c, ExpiredRow(rows[c]))
    BY <1>1, <1>4 DEF ExpireCartAndReleaseStock, WritesRow, flows
  <2>. QED  BY <2>1, <2>2, WritesRowIInv
<1>5. CASE CancelCart(c)
  <2>1. Shape(CancelledRow(rows[c], "store_cancelled"))  BY <1>1, RowFacts
  <2>2. WritesRow(c, CancelledRow(rows[c], "store_cancelled"))
    BY <1>1, <1>5 DEF CancelCart, WritesRow, flows
  <2>. QED  BY <2>1, <2>2, WritesRowIInv
<1>6. CASE RecordERPOrderStatus(c)
  <2>1. rows' \in [Carts -> Row]
        /\ \A x \in Carts : /\ Closes(rows'[x]) => Closes(rows[x])
                            /\ rows'[x].closed = rows[x].closed
    BY <1>1, <1>6 DEF RecordERPOrderStatus, TypeOK, Row, Closes
  <2>2. ClosedOnlyJoined' /\ NoDemandOnClosedPurchase'
    BY <1>6, <2>1, QuietRows DEF RecordERPOrderStatus, items
  <2>. QED  BY <1>6, <2>1, <2>2 DEF RecordERPOrderStatus, TypeOK, items, flows
<1>7. CASE CancelCartFromERP(c)
  <2>1. Shape(CancelledRow(rows[c], "erp_cancelled"))  BY <1>1, RowFacts
  <2>2. WritesRow(c, CancelledRow(rows[c], "erp_cancelled"))
    BY <1>1, <1>7 DEF CancelCartFromERP, WritesRow, flows
  <2>. QED  BY <2>1, <2>2, WritesRowIInv
<1>8. CASE ReopenCancelledCartFromERP(c)
  BY <1>8, ReopenIInv
<1>9. CASE UpdateCartPaymentPaid(c)
  <2>1. Shape(PaidRow(rows[c]))  BY <1>1, RowFacts
  <2>2. WritesRow(c, PaidRow(rows[c]))
    BY <1>1, <1>9 DEF UpdateCartPaymentPaid, WritesRow, flows
  <2>. QED  BY <2>1, <2>2, WritesRowIInv
<1>10. CASE VerifyPaymentAttemptReview(c)
  <2>1. Shape(ReviewRow(rows[c]))  BY <1>1, RowFacts
  <2>2. WritesRow(c, ReviewRow(rows[c]))
    BY <1>1, <1>10 DEF VerifyPaymentAttemptReview, WritesRow, flows
  <2>. QED  BY <2>1, <2>2, WritesRowIInv
<1>11. CASE RestoreCancelledCartAsPaid(c)
  <2>1. Shape(RestoredRow(rows[c]))  BY <1>1, RowFacts
  <2>2. WritesRow(c, RestoredRow(rows[c]))
    BY <1>1, <1>11 DEF RestoreCancelledCartAsPaid, Retake, WritesRow, flows
  <2>. QED  BY <2>1, <2>2, WritesRowIInv
<1>12. CASE MarkCartRefunded(c)
  <2>1. Shape([rows[c] EXCEPT !.pay = "refunded"])  BY <1>1, RowFacts
  <2>2. WritesRow(c, [rows[c] EXCEPT !.pay = "refunded"])
    BY <1>1, <1>12 DEF MarkCartRefunded, WritesRow, flows
  <2>. QED  BY <2>1, <2>2, WritesRowIInv
<1>13. CASE CancelCartOnRefund(c)
  <2>1. Shape(CancelledRow(rows[c], "refunded"))  BY <1>1, RowFacts
  <2>2. WritesRow(c, CancelledRow(rows[c], "refunded"))
    BY <1>1, <1>13 DEF CancelCartOnRefund, WritesRow, flows
  <2>. QED  BY <2>1, <2>2, WritesRowIInv
<1>14. CASE RegenerateRead(c)
  BY <1>1, <1>14, QuietRows DEF RegenerateRead, items, TypeOK
<1>15. CASE RegenerateWrite(c)
  <2>1. Shape(RegeneratedRow(rows[c]))  BY <1>1, RowFacts
  <2>2. WritesRow(c, RegeneratedRow(rows[c]))
    BY <1>1, <1>15 DEF RegenerateWrite, WritesRow
  <2>. QED  BY <2>1, <2>2, WritesRowIInv
<1>16. ASSUME NEW s \in {"active", "checkout", "completed", "expired"}, UpdateStatus(c, s)
       PROVE  IInv'
  <2>1. Shape([rows[c] EXCEPT !.status = s])
    BY <1>1 DEF Row, Open, Terminated
  <2>2. WritesRow(c, [rows[c] EXCEPT !.status = s])
    BY <1>1, <1>16 DEF UpdateStatus, WritesRow, flows
  <2>. QED  BY <2>1, <2>2, WritesRowIInv
<1>17. CASE UpdatePaymentStatus(c)
  <2>1. Shape([rows[c] EXCEPT !.pay = "pending"])  BY <1>1, RowFacts
  <2>2. WritesRow(c, [rows[c] EXCEPT !.pay = "pending"])
    BY <1>1, <1>17 DEF UpdatePaymentStatus, WritesRow, flows
  <2>. QED  BY <2>1, <2>2, WritesRowIInv
<1>. QED
  BY <1>2, <1>3, <1>4, <1>5, <1>6, <1>7, <1>8, <1>9, <1>10, <1>11, <1>12, <1>13,
     <1>14, <1>15, <1>16, <1>17
  DEF CartStep

----------------------------------------------------------------------------
(* Theorems. *)

LEMMA StutterIInv == IInv /\ UNCHANGED vars => IInv'
BY DEF IInv, vars, TypeOK, ClosedOnlyJoined, NoDemandOnClosedPurchase, Waitlist, Joined

LEMMA NextIInv == IInv /\ [Next]_vars => IInv'
BY CartStepIInv, LotStepIInv, EventStepIInv, StutterIInv DEF Next

\* The inductive invariant holds in every reachable state.
THEOREM Inductive == Spec => []IInv
<1>1. Init => IInv  BY InitIInv
<1>2. IInv /\ [Next]_vars => IInv'  BY NextIInv
<1>. QED  BY <1>1, <1>2, PTL DEF Spec

\* Rows, quantities and the waiting list stay well formed: waiting and held never
\* go below zero and an open request always asks for at least one unit, whoever
\* writes the rows.
THEOREM TypeCorrect == Spec => []TypeOK
<1>1. IInv => TypeOK  BY DEF IInv
<1>. QED  BY <1>1, Inductive, PTL

\* A purchase that was paid, cancelled or expired, directly or through the cart it
\* was joined to, never waits for stock, whoever writes the rows.
THEOREM ClosedPurchasesWaitForNothing == Spec => []NoDemandOnClosedPurchase
<1>1. IInv => NoDemandOnClosedPurchase  BY DEF IInv
<1>. QED  BY <1>1, Inductive, PTL
----------------------------------------------------------------------------
(* Recorded money.  Nobody but the payment pipeline, the reviews and the    *)
(* store writes the rows: with the ERP or the panel the property is false,  *)
(* as the runs of CartInventory show.                                       *)

OnlyGuardedWriters == Writers \cap {"erp", "regenerate", "panel"} = {}

\* An open cart with recorded money is settled or under review: the two flags
\* the guards of expiry and cancellation read.
MoneyCovered ==
  /\ regenerating = {}
  /\ \A c \in money :
       rows[c].status \in Open => rows[c].pay \in Settled \/ rows[c].review

NeverCancelled ==
  \A c \in money :
    rows[c].status \in Open /\ rows'[c].status \in Terminated
      => rows'[c].reason = "refunded"

\* A row write keeps the money covered when the written row does and when it
\* does not end a cart whose money is covered, except for a refund.
LEMMA WriteMoney ==
  ASSUME IInv, MoneyCovered, NEW c \in Carts, NEW r \in Row, r.closed = rows[c].closed,
         Write(c, r), regenerating' = {},
         money' \subseteq money \cup {c},
         c \in money' /\ r.status \in Open => r.pay \in Settled \/ r.review,
         c \in money /\ rows[c].status \in Open /\ r.status \in Terminated
           => r.reason = "refunded"
  PROVE  MoneyCovered' /\ NeverCancelled
<1>1. /\ rows'[c] = r
      /\ \A x \in Carts \ {c} : /\ rows'[x].status = rows[x].status
                               /\ rows'[x].pay = rows[x].pay
                               /\ rows'[x].review = rows[x].review
  BY WriteRowFacts DEF Write, IInv
<1>2. money \subseteq Carts  BY DEF IInv, TypeOK
<1>3. MoneyCovered'  BY <1>1, <1>2 DEF MoneyCovered
<1>4. NeverCancelled
  BY <1>1, <1>2 DEF NeverCancelled, Open, Terminated
<1>. QED  BY <1>3, <1>4

\* An action that ends nobody and leaves payments and reviews alone.
LEMMA QuietMoney ==
  ASSUME IInv, MoneyCovered, UNCHANGED <<money, regenerating>>,
         \A x \in Carts : /\ rows'[x].status \in Open <=> rows[x].status \in Open
                          /\ rows[x].status \in Open => rows'[x].status \notin Terminated
                          /\ rows'[x].pay = rows[x].pay
                          /\ rows'[x].review = rows[x].review
  PROVE  MoneyCovered' /\ NeverCancelled
BY DEF IInv, TypeOK, MoneyCovered, NeverCancelled

LEMMA CartStepMoney ==
  ASSUME OnlyGuardedWriters, IInv, MoneyCovered, NEW c \in Carts, CartStep(c)
  PROVE  MoneyCovered' /\ NeverCancelled
<1>. USE DEF OnlyGuardedWriters
<1>1. /\ rows \in [Carts -> Row] /\ rows[c] \in Row /\ regenerating = {}
      /\ c \in money /\ rows[c].status \in Open => rows[c].pay \in Settled \/ rows[c].review
  BY DEF IInv, TypeOK, MoneyCovered
<1>. DEFINE Shape(r) == r \in Row /\ r.closed = rows[c].closed
<1>2. CASE \E q \in Quantities : AddCommentItem(c, q)
  BY <1>2, QuietMoney DEF AddCommentItem, flows, Open, Terminated
<1>3. CASE DeadlinePasses(c)
  <2>1. \A x \in Carts : /\ rows'[x].status = rows[x].status
                         /\ rows'[x].pay = rows[x].pay
                         /\ rows'[x].review = rows[x].review
    BY <1>1, <1>3 DEF DeadlinePasses, Row
  <2>. QED  BY <1>3, <2>1, QuietMoney DEF DeadlinePasses, flows, Open, Terminated
<1>4. CASE ExpireCartAndReleaseStock(c)
  <2>1. Shape(ExpiredRow(rows[c]))  BY <1>1, RowFacts
  <2>2. ExpiredRow(rows[c]).status = "expired"  BY <1>1 DEF ExpiredRow, Row
  <2>3. ~(c \in money /\ rows[c].status \in Open)
    BY <1>1, <1>4 DEF ExpireCartAndReleaseStock, Expirable, Unsettled
  <2>. QED
    BY <1>1, <1>4, <2>1, <2>2, <2>3, WriteMoney DEF ExpireCartAndReleaseStock, flows, Open
<1>5. CASE CancelCart(c)
  <2>. DEFINE r == CancelledRow(rows[c], "store_cancelled")
  <2>1. Shape(r)  BY <1>1, RowFacts
  <2>2. r.status = "cancelled"  BY <1>1 DEF CancelledRow, Row
  <2>3. ~(c \in money /\ rows[c].status \in Open)
    BY <1>1, <1>5 DEF CancelCart, StoreCancellable, Unsettled
  <2>. QED
    BY <1>1, <1>5, <2>1, <2>2, <2>3, WriteMoney DEF CancelCart, flows, Open
<1>6. CASE UpdateCartPaymentPaid(c)
  <2>1. Shape(PaidRow(rows[c]))  BY <1>1, RowFacts
  <2>2. PaidRow(rows[c]).pay \in Settled /\ PaidRow(rows[c]).status = rows[c].status
    BY <1>1 DEF PaidRow, Row, Settled
  <2>. QED
    BY <1>1, <1>6, <2>1, <2>2, WriteMoney
    DEF UpdateCartPaymentPaid, flows, Open, Terminated
<1>7. CASE VerifyPaymentAttemptReview(c)
  <2>1. Shape(ReviewRow(rows[c]))  BY <1>1, RowFacts
  <2>2. ReviewRow(rows[c]).review /\ ReviewRow(rows[c]).status = rows[c].status
    BY <1>1 DEF ReviewRow, Row
  <2>. QED
    BY <1>1, <1>7, <2>1, <2>2, WriteMoney
    DEF VerifyPaymentAttemptReview, flows, Open, Terminated
<1>8. CASE RestoreCancelledCartAsPaid(c)
  <2>1. Shape(RestoredRow(rows[c]))  BY <1>1, RowFacts
  <2>2. RestoredRow(rows[c]).pay \in Settled /\ RestoredRow(rows[c]).status = "checkout"
    BY <1>1 DEF RestoredRow, PaidRow, Row, Settled
  <2>. QED
    BY <1>1, <1>8, <2>1, <2>2, WriteMoney
    DEF RestoreCancelledCartAsPaid, flows, Open, Terminated
<1>9. CASE MarkCartRefunded(c)
  <2>. DEFINE r == [rows[c] EXCEPT !.pay = "refunded"]
  <2>1. Shape(r)  BY <1>1, RowFacts
  <2>2. r.pay \in Settled /\ r.status = rows[c].status  BY <1>1 DEF Row, Settled
  <2>. QED
    BY <1>1, <1>9, <2>1, <2>2, WriteMoney DEF MarkCartRefunded, flows, Open, Terminated
<1>10. CASE CancelCartOnRefund(c)
  <2>. DEFINE r == CancelledRow(rows[c], "refunded")
  <2>1. Shape(r)  BY <1>1, RowFacts
  <2>2. r.status = "cancelled" /\ r.reason = "refunded"
    BY <1>1 DEF CancelledRow, Row
  <2>. QED
    BY <1>1, <1>10, <2>1, <2>2, WriteMoney DEF CancelCartOnRefund, flows, Open
<1>. QED
  BY <1>1, <1>2, <1>3, <1>4, <1>5, <1>6, <1>7, <1>8, <1>9, <1>10
  DEF CartStep, RecordERPOrderStatus, CancelCartFromERP, ReopenCancelledCartFromERP,
      RegenerateRead, RegenerateWrite, UpdateStatus, UpdatePaymentStatus

LEMMA NextMoney ==
  ASSUME OnlyGuardedWriters, IInv, MoneyCovered, [Next]_vars
  PROVE  MoneyCovered' /\ (UNCHANGED vars \/ NeverCancelled)
<1>1. CASE \E c \in Carts : CartStep(c)
  BY <1>1, CartStepMoney
<1>2. CASE \E l \in Lots : LotStep(l)
  BY <1>2, QuietMoney
  DEF LotStep, CancelWaitingRequest, PromoteNextWaitlistEntry, flows, Open, Terminated
<1>3. ASSUME NEW e \in Events, EventStep(e)
      PROVE  MoneyCovered' /\ NeverCancelled
  <2>1. \A x \in Carts : rows[x] \in Row  BY DEF IInv, TypeOK
  <2>2. CASE CloseEvent(e)
    <3>1. \A x \in Carts : /\ rows'[x].status = rows[x].status
                           /\ rows'[x].pay = rows[x].pay
                           /\ rows'[x].review = rows[x].review
      BY <2>1, <2>2 DEF CloseEvent, Row
    <3>. QED  BY <2>2, <3>1, QuietMoney DEF CloseEvent, Open, Terminated
  <2>3. CASE FinalizeCartsByEvent(e)
    <3>1. \A x \in Carts : /\ \/ rows'[x].status = rows[x].status
                              \/ rows[x].status = "active" /\ rows'[x].status = "checkout"
                           /\ rows'[x].pay = rows[x].pay
                           /\ rows'[x].review = rows[x].review
      BY <2>1, <2>3 DEF FinalizeCartsByEvent, Row
    <3>. QED  BY <2>3, <3>1, QuietMoney DEF FinalizeCartsByEvent, flows, Open, Terminated
  <2>. QED  BY <1>3, <2>2, <2>3 DEF EventStep
<1>4. CASE UNCHANGED vars
  BY <1>4 DEF MoneyCovered, vars
<1>. QED  BY <1>1, <1>2, <1>3, <1>4 DEF Next

\* While rows are written only through the guarded paths (payments, reviews, the
\* store), an open cart with recorded money ends by its refund or not at all.
THEOREM MoneyIsSafe ==
  ASSUME OnlyGuardedWriters
  PROVE  Spec => MoneyIsNeverCancelled
<1>1. Init => MoneyCovered  BY DEF Init, MoneyCovered
<1>2. IInv /\ MoneyCovered /\ [Next]_vars => MoneyCovered'  BY NextMoney
<1>3. IInv /\ MoneyCovered /\ [Next]_vars => [NeverCancelled]_vars  BY NextMoney
<1>4. Spec => [][NeverCancelled]_vars
  BY <1>1, <1>2, <1>3, Inductive, PTL DEF Spec
<1>. QED  BY <1>4 DEF MoneyIsNeverCancelled, NeverCancelled

----------------------------------------------------------------------------
(* Counting units.  A sum over carts is the cardinality of a set of units,  *)
(* so a change of one cart's term changes the sum by as much.               *)

UnitSet(n, S) == UNION {{x} \X (1 .. n[x]) : x \in S}

LEMMA UnitSetFinite ==
  ASSUME NEW S, IsFiniteSet(S), NEW n, \A x \in S : n[x] \in Nat
  PROVE  IsFiniteSet(UnitSet(n, S))
<1>. DEFINE F == [x \in S |-> {x} \X (1 .. n[x])]
            T == {{x} \X (1 .. n[x]) : x \in S}
<1>1. F \in Surjection(S, T)
  <2>1. F \in [S -> T]  OBVIOUS
  <2>2. \A U \in T : \E x \in S : F[x] = U  OBVIOUS
  <2>. QED  BY <2>1, <2>2, Fun_IsSurj
<1>2. IsFiniteSet(T)
  BY <1>1, FS_Surjection
<1>3. \A U \in T : IsFiniteSet(U)
  <2>1. SUFFICES ASSUME NEW x \in S PROVE IsFiniteSet({x} \X (1 .. n[x]))
    OBVIOUS
  <2>2. IsFiniteSet({x}) /\ IsFiniteSet(1 .. n[x])
    <3>1. n[x] \in Int  OBVIOUS
    <3>2. IsFiniteSet({x})  BY FS_Singleton
    <3>3. IsFiniteSet(1 .. n[x])  BY <3>1, FS_Interval
    <3>. QED  BY <3>2, <3>3
  <2>. QED  BY <2>2, FS_Product
<1>. QED  BY <1>2, <1>3, FS_UNION DEF UnitSet

\* One term taken out of the sum.
LEMMA UnitsSplit ==
  ASSUME NEW S, IsFiniteSet(S), NEW n, \A x \in S : n[x] \in Nat, NEW c \in S
  PROVE  /\ Units(n, S) \in Nat
         /\ Units(n, S \ {c}) \in Nat
         /\ Units(n, S) = Units(n, S \ {c}) + n[c]
<1>. DEFINE A == UnitSet(n, S \ {c})
            B == {c} \X (1 .. n[c])
<1>1. IsFiniteSet(S \ {c})  BY FS_Subset
<1>2. IsFiniteSet(A) /\ IsFiniteSet(UnitSet(n, S))  BY <1>1, UnitSetFinite
<1>3. IsFiniteSet(B) /\ Cardinality(B) = n[c]
  <2>1. IsFiniteSet({c}) /\ Cardinality({c}) = 1  BY FS_Singleton
  <2>2. IsFiniteSet(1 .. n[c]) /\ Cardinality(1 .. n[c]) = n[c]  BY FS_Interval
  <2>. QED  BY <2>1, <2>2, FS_Product
<1>4. UnitSet(n, S) = A \cup B  BY DEF UnitSet
<1>5. A \cap B = {}  BY DEF UnitSet
<1>6. Cardinality(A \cup B) = Cardinality(A) + Cardinality(B) - Cardinality(A \cap B)
  BY <1>2, <1>3, FS_Union
<1>7. Cardinality(A) \in Nat /\ Cardinality(A \cap B) = 0
  BY <1>2, <1>5, FS_CardinalityType, FS_EmptySet
<1>8. Units(n, S) = Cardinality(A \cup B) /\ Units(n, S \ {c}) = Cardinality(A)
  BY <1>4 DEF Units, UnitSet
<1>. QED  BY <1>3, <1>6, <1>7, <1>8

\* Two sums with the same terms.
LEMMA UnitsSame ==
  ASSUME NEW S, NEW m, NEW n, \A x \in S : m[x] = n[x]
  PROVE  Units(m, S) = Units(n, S)
<1>1. {{x} \X (1 .. m[x]) : x \in S} = {{x} \X (1 .. n[x]) : x \in S}
  OBVIOUS
<1>. QED  BY <1>1 DEF Units

LEMMA UnitsEmpty == ASSUME NEW n PROVE Units(n, {}) = 0
BY FS_EmptySet DEF Units

\* What c contributes to the sum over S.
Term(n, S, c) == IF c \in S THEN n[c] ELSE 0

\* Two sums that differ in the term of c only.
LEMMA UnitsMove ==
  ASSUME NEW S, IsFiniteSet(S), NEW m, \A x \in S : m[x] \in Nat,
         NEW T, IsFiniteSet(T), NEW n, \A x \in T : n[x] \in Nat,
         NEW c, S \ {c} = T \ {c}, \A x \in S \ {c} : m[x] = n[x]
  PROVE  /\ Units(m, S) \in Nat /\ Units(n, T) \in Nat
         /\ Units(n, T) - Term(n, T, c) = Units(m, S) - Term(m, S, c)
<1>1. ASSUME NEW U, IsFiniteSet(U), NEW k, \A x \in U : k[x] \in Nat
      PROVE  /\ Units(k, U) \in Nat
             /\ Units(k, U) - Term(k, U, c) = Units(k, U \ {c})
  <2>1. CASE c \in U  BY <1>1, <2>1, UnitsSplit DEF Term
  <2>2. CASE c \notin U
    <3>1. U \ {c} = U  BY <2>2
    <3>2. Units(k, U) \in Nat
      <4>1. IsFiniteSet(UnitSet(k, U))  BY <1>1, UnitSetFinite
      <4>2. Units(k, U) = Cardinality(UnitSet(k, U))  BY DEF Units, UnitSet
      <4>. QED  BY <4>1, <4>2, FS_CardinalityType
    <3>3. Units(k, U \ {c}) = Units(k, U)  BY <3>1
    <3>4. Term(k, U, c) = 0  BY <2>2 DEF Term
    <3>. QED  BY <3>2, <3>3, <3>4
  <2>. QED  BY <2>1, <2>2
<1>2. Units(m, S \ {c}) = Units(n, T \ {c})  BY UnitsSame
<1>. QED  BY <1>1, <1>2

----------------------------------------------------------------------------
(* The units of the product.  Without the panel and its links, which write  *)
(* a row with no guard and leave the stock alone: with them the property is *)
(* false, as the counterexample of CartInventory_regenerate.cfg shows.      *)

NoUnguardedWriters == Writers \cap {"regenerate", "panel"} = {}

UInv == IInv /\ regenerating = {} /\ UnitsConserved

\* Live is a finite set and held counts units there.
LEMMA LiveFinite ==
  ASSUME TypeOK
  PROVE  IsFiniteSet(Live) /\ Live \subseteq Carts /\ \A x \in Live : held[x] \in Nat
<1>1. Live \subseteq Carts  BY DEF Live
<1>2. IsFiniteSet(Live)  BY <1>1, CartInventoryAssumption, FS_Subset
<1>. QED  BY <1>1, <1>2 DEF TypeOK

\* A step that moves the units of one cart between the cart and the shelf.
LEMMA MoveUnits ==
  ASSUME UInv, IInv', NEW c \in Carts,
         \A x \in Carts \ {c} : /\ rows'[x].status = rows[x].status
                                /\ rows'[x].reason = rows[x].reason
                                /\ held'[x] = held[x],
         stock' + Term(held', Live', c) = stock + Term(held, Live, c)
  PROVE  UnitsConserved'
<1>1. /\ IsFiniteSet(Live) /\ \A x \in Live : held[x] \in Nat
      /\ IsFiniteSet(Live') /\ \A x \in Live' : held'[x] \in Nat
  <2>1. Live' \subseteq Carts  BY DEF Live
  <2>2. IsFiniteSet(Live')  BY <2>1, CartInventoryAssumption, FS_Subset
  <2>. QED  BY <2>1, <2>2, LiveFinite DEF UInv, IInv, TypeOK
<1>2. Live \ {c} = Live' \ {c}  BY DEF Live, Released
<1>3. \A x \in Live \ {c} : held[x] = held'[x]  BY DEF Live
<1>4. /\ HeldUnits \in Nat /\ HeldUnits' \in Nat
      /\ HeldUnits' - Term(held', Live', c) = HeldUnits - Term(held, Live, c)
  BY <1>1, <1>2, <1>3, UnitsMove DEF HeldUnits
<1>5. Term(held, Live, c) \in Nat /\ Term(held', Live', c) \in Nat
  BY DEF Term, UInv, IInv, TypeOK
<1>6. stock \in Int /\ stock' \in Int /\ InitialStock \in Nat
  BY CartInventoryAssumption DEF UInv, IInv, TypeOK
<1>7. stock + HeldUnits = InitialStock  BY DEF UInv, UnitsConserved
<1>8. stock' + HeldUnits' = InitialStock
  <2>1. PICK s \in Int, t \in Int, h \in Nat, g \in Nat, x \in Nat, y \in Nat :
          /\ s = stock /\ t = stock' /\ h = HeldUnits /\ g = HeldUnits'
          /\ x = Term(held, Live, c) /\ y = Term(held', Live', c)
    BY <1>4, <1>5, <1>6
  <2>2. g - y = h - x /\ t + y = s + x  BY <1>4, <2>1
  <2>3. t + g = s + h  BY <2>2
  <2>. QED  BY <1>7, <2>1, <2>3
<1>. QED  BY <1>8 DEF UnitsConserved

\* A step that releases nobody, takes nobody back and moves no unit.
LEMMA QuietUnits ==
  ASSUME UInv, UNCHANGED <<stock, held>>,
         \A x \in Carts : (Released(x))' <=> Released(x)
  PROVE  UnitsConserved'
<1>1. Live' = Live  BY DEF Live
<1>2. HeldUnits' = HeldUnits  BY <1>1 DEF HeldUnits
<1>. QED  BY <1>2 DEF UInv, UnitsConserved

\* The row of a cart whose units went back to the shelf.
Gone(r) == r.status \in Terminated /\ r.reason \in HumanCancel \cup {"expired"}
Kept(r, n) == IF Gone(r) THEN 0 ELSE n

\* Writing a row conserves the units when the stock moves by what the row change
\* releases or takes back.
LEMMA WriteUnits ==
  ASSUME UInv, IInv', NEW c \in Carts, NEW r \in Row, r.closed = rows[c].closed,
         Write(c, r), held' = held,
         stock' + Kept(r, held[c]) = stock + Kept(rows[c], held[c])
  PROVE  UnitsConserved'
<1>1. /\ rows'[c] = r
      /\ \A x \in Carts \ {c} : /\ rows'[x].status = rows[x].status
                               /\ rows'[x].reason = rows[x].reason
  BY WriteRowFacts DEF Write, UInv, IInv
<1>2. Term(held, Live, c) = Kept(rows[c], held[c])
  BY DEF Term, Live, Released, Kept, Gone
<1>3. Term(held', Live', c) = Kept(r, held[c])
  BY <1>1 DEF Term, Live, Released, Kept, Gone
<1>. QED  BY <1>1, <1>2, <1>3, MoveUnits

LEMMA CartStepUnits ==
  ASSUME NoUnguardedWriters, UInv, NEW c \in Carts, CartStep(c)
  PROVE  UInv'
<1>. USE DEF NoUnguardedWriters
<1>1. IInv' /\ IInv /\ regenerating = {} /\ rows \in [Carts -> Row] /\ rows[c] \in Row
      /\ held[c] \in Nat /\ stock \in Int /\ held \in [Carts -> Nat]
  BY CartStepIInv DEF UInv, IInv, TypeOK
<1>2. regenerating' = {}
  BY <1>1
  DEF CartStep, AddCommentItem, DeadlinePasses, ExpireCartAndReleaseStock, CancelCart,
      RecordERPOrderStatus, CancelCartFromERP, ReopenCancelledCartFromERP,
      UpdateCartPaymentPaid, VerifyPaymentAttemptReview, RestoreCancelledCartAsPaid,
      MarkCartRefunded, CancelCartOnRefund, RegenerateRead, RegenerateWrite, UpdateStatus,
      UpdatePaymentStatus, flows
<1>. DEFINE Shape(r) == r \in Row /\ r.closed = rows[c].closed
<1>3. ASSUME NEW q \in Quantities, AddCommentItem(c, q)
      PROVE  UnitsConserved'
  <2>. DEFINE n   == Accepted(c, q)
              got == IF OlderBlocksComment THEN 0 ELSE Least(n, AtLeast0(stock))
  <2>1. got \in Int
    BY <1>1, <1>3, CartInventoryAssumption
    DEF AddCommentItem, Accepted, Least, AtLeast0, UInv, IInv, TypeOK
  <2>. HIDE DEF n, got
  <2>2. stock' = stock - got /\ held' = [held EXCEPT ![c] = @ + got] /\ rows' = rows
    BY <1>3 DEF AddCommentItem, n, got
  <2>3. ~Released(c)
    BY <1>3 DEF AddCommentItem, Admits, Released, Open, Terminated
  <2>4. Term(held, Live, c) = held[c] /\ Term(held', Live', c) = held[c] + got
    BY <1>1, <2>2, <2>3 DEF Term, Live, Released
  <2>5. \A x \in Carts \ {c} : held'[x] = held[x]  BY <1>1, <2>2
  <2>6. stock' + Term(held', Live', c) = stock + Term(held, Live, c)
    BY <1>1, <2>1, <2>2, <2>4
  <2>. QED  BY <1>1, <2>2, <2>5, <2>6, MoveUnits
<1>4. CASE DeadlinePasses(c)
  <2>1. \A x \in Carts : rows'[x].status = rows[x].status /\ rows'[x].reason = rows[x].reason
    BY <1>1, <1>4 DEF DeadlinePasses, Row
  <2>. QED  BY <1>2, <1>1, <1>4, <2>1, QuietUnits DEF DeadlinePasses, items, Released, UInv
<1>5. CASE ExpireCartAndReleaseStock(c)
  <2>1. Shape(ExpiredRow(rows[c]))  BY <1>1, RowFacts
  <2>2. Gone(ExpiredRow(rows[c])) /\ ~Gone(rows[c])
    BY <1>1, <1>5
    DEF ExpireCartAndReleaseStock, Expirable, Gone, ExpiredRow, Row, Open, Terminated
  <2>. QED
    BY <1>1, <1>2, <1>5, <2>1, <2>2, WriteUnits
    DEF ExpireCartAndReleaseStock, Kept, UInv
<1>6. CASE CancelCart(c)
  <2>1. Shape(CancelledRow(rows[c], "store_cancelled"))  BY <1>1, RowFacts
  <2>2. Gone(CancelledRow(rows[c], "store_cancelled")) /\ ~Gone(rows[c])
    BY <1>1, <1>6
    DEF CancelCart, StoreCancellable, Gone, CancelledRow, Row, Open, Terminated, HumanCancel
  <2>. QED
    BY <1>1, <1>2, <1>6, <2>1, <2>2, WriteUnits DEF CancelCart, Kept, UInv
<1>7. CASE RecordERPOrderStatus(c)
  <2>1. \A x \in Carts : rows'[x].status = rows[x].status /\ rows'[x].reason = rows[x].reason
    BY <1>1, <1>7 DEF RecordERPOrderStatus, Row
  <2>. QED  BY <1>1, <1>2, <1>7, <2>1, QuietUnits DEF RecordERPOrderStatus, items, Released, UInv
<1>8. CASE CancelCartFromERP(c)
  <2>1. Shape(CancelledRow(rows[c], "erp_cancelled"))  BY <1>1, RowFacts
  <2>2. Gone(CancelledRow(rows[c], "erp_cancelled")) /\ ~Gone(rows[c])
    BY <1>1, <1>8
    DEF CancelCartFromERP, ErpCancellable, Gone, CancelledRow, Row, Open, Terminated,
        HumanCancel
  <2>. QED
    BY <1>1, <1>2, <1>8, <2>1, <2>2, WriteUnits DEF CancelCartFromERP, Kept, UInv
<1>9. CASE ReopenCancelledCartFromERP(c)
  <2>. DEFINE got == IF OlderBlocksReopen THEN 0 ELSE Least(AtLeast0(stock), held[c])
  <2>1. got \in Nat
    BY <1>1 DEF Least, AtLeast0
  <2>. HIDE DEF got
  <2>2. /\ stock' = stock - got /\ held' = [held EXCEPT ![c] = got]
        /\ rows' = WriteRow(rows, c, ReopenedRow(c, rows[c]))
    BY <1>9 DEF ReopenCancelledCartFromERP, got
  <2>3. Released(c)
    BY <1>9 DEF ReopenCancelledCartFromERP, Reopenable, Released, Terminated
  <2>4. ReopenedRow(c, rows[c]).status = "checkout"  BY <1>1 DEF ReopenedRow, Row
  <2>5. /\ rows'[c] = ReopenedRow(c, rows[c])
        /\ \A x \in Carts \ {c} : /\ rows'[x].status = rows[x].status
                                 /\ rows'[x].reason = rows[x].reason
    BY <1>1, <2>2, RowFacts, WriteRowFacts DEF IInv
  <2>6. Term(held, Live, c) = 0 /\ Term(held', Live', c) = got
    BY <1>1, <2>2, <2>3, <2>4, <2>5 DEF Term, Live, Released, Terminated
  <2>7. \A x \in Carts \ {c} : held'[x] = held[x]  BY <1>1, <2>2
  <2>8. stock' + Term(held', Live', c) = stock + Term(held, Live, c)
    BY <1>1, <2>1, <2>2, <2>6
  <2>9. UnitsConserved'  BY <1>1, <2>5, <2>7, <2>8, MoveUnits
  <2>. QED  BY <1>1, <1>2, <2>9 DEF UInv
<1>10. ASSUME NEW r, Shape(r), Write(c, r), UNCHANGED <<stock, held>>, Gone(r) <=> Gone(rows[c])
       PROVE  UInv'
  BY <1>1, <1>2, <1>10, WriteUnits DEF Kept, UInv
<1>11. CASE UpdateCartPaymentPaid(c)
  <2>1. Shape(PaidRow(rows[c]))  BY <1>1, RowFacts
  <2>2. Gone(PaidRow(rows[c])) <=> Gone(rows[c])  BY <1>1 DEF Gone, PaidRow, Row
  <2>. QED  BY <1>10, <1>11, <2>1, <2>2 DEF UpdateCartPaymentPaid
<1>12. CASE VerifyPaymentAttemptReview(c)
  <2>1. Shape(ReviewRow(rows[c]))  BY <1>1, RowFacts
  <2>2. Gone(ReviewRow(rows[c])) <=> Gone(rows[c])  BY <1>1 DEF Gone, ReviewRow, Row
  <2>. QED  BY <1>10, <1>12, <2>1, <2>2 DEF VerifyPaymentAttemptReview
<1>13. CASE RestoreCancelledCartAsPaid(c)
  <2>1. Shape(RestoredRow(rows[c]))  BY <1>1, RowFacts
  <2>2. Gone(rows[c]) /\ ~Gone(RestoredRow(rows[c]))
    BY <1>1, <1>13
    DEF RestoreCancelledCartAsPaid, Restorable, Gone, RestoredRow, PaidRow, Row, Terminated,
        HumanCancel
  <2>. QED
    BY <1>1, <1>2, <1>13, <2>1, <2>2, WriteUnits
    DEF RestoreCancelledCartAsPaid, Retake, Kept, UInv
<1>14. CASE MarkCartRefunded(c)
  <2>1. Shape([rows[c] EXCEPT !.pay = "refunded"])  BY <1>1, RowFacts
  <2>2. Gone([rows[c] EXCEPT !.pay = "refunded"]) <=> Gone(rows[c])  BY <1>1 DEF Gone, Row
  <2>. QED  BY <1>10, <1>14, <2>1, <2>2 DEF MarkCartRefunded
<1>15. CASE CancelCartOnRefund(c)
  <2>1. Shape(CancelledRow(rows[c], "refunded"))  BY <1>1, RowFacts
  <2>2. ~Gone(rows[c]) /\ ~Gone(CancelledRow(rows[c], "refunded"))
    BY <1>1, <1>15 DEF CancelCartOnRefund, RefundKills, Gone, CancelledRow, Row, HumanCancel
  <2>. QED  BY <1>10, <1>15, <2>1, <2>2 DEF CancelCartOnRefund
<1>. QED
  BY <1>1, <1>2, <1>3, <1>4, <1>5, <1>6, <1>7, <1>8, <1>9, <1>11, <1>12, <1>13, <1>14, <1>15
  DEF CartStep, RegenerateRead, RegenerateWrite, UpdateStatus, UpdatePaymentStatus, UInv

LEMMA NextUnits ==
  ASSUME NoUnguardedWriters, UInv, [Next]_vars
  PROVE  UInv'
<1>1. CASE \E c \in Carts : CartStep(c)
  BY <1>1, CartStepUnits
<1>2. ASSUME NEW l \in Lots, LotStep(l)
      PROVE  UInv'
  <2>1. IInv' /\ regenerating' = {}
    BY <1>2, LotStepIInv
    DEF LotStep, CancelWaitingRequest, PromoteNextWaitlistEntry, flows, UInv
  <2>2. CASE CancelWaitingRequest(l)
    BY <2>1, <2>2, QuietUnits DEF CancelWaitingRequest, Released, UInv
  <2>3. CASE PromoteNextWaitlistEntry(l)
    <3>. DEFINE c == requests[l].cart
                n == Least(stock, requests[l].qty)
    <3>1. l \in Waitlist /\ ~Released(c)
      BY <2>3
      DEF PromoteNextWaitlistEntry, Head, Candidates, Sides, Eligible, Buying, Released,
          Open, Terminated
    <3>2. c \in Carts /\ requests[l].qty \in Nat /\ held \in [Carts -> Nat] /\ stock \in Int
      BY <3>1 DEF UInv, IInv, TypeOK, Waitlist, Request, Closed
    <3>3. n \in Int  BY <3>2 DEF Least
    <3>. HIDE DEF n
    <3>4. stock' = stock - n /\ held' = [held EXCEPT ![c] = @ + n] /\ rows' = rows
      BY <2>3 DEF PromoteNextWaitlistEntry, n
    <3>5. Term(held, Live, c) = held[c] /\ Term(held', Live', c) = held[c] + n
      BY <3>1, <3>2, <3>4 DEF Term, Live, Released
    <3>6. \A x \in Carts \ {c} : held'[x] = held[x]  BY <3>2, <3>4
    <3>7. stock' + Term(held', Live', c) = stock + Term(held, Live, c)
      BY <3>2, <3>3, <3>4, <3>5
    <3>8. UnitsConserved'
      BY <2>1, <3>2, <3>4, <3>6, <3>7, MoveUnits
    <3>. QED  BY <2>1, <3>8 DEF UInv
  <2>. QED  BY <1>2, <2>2, <2>3 DEF LotStep
<1>3. ASSUME NEW e \in Events, EventStep(e)
      PROVE  UInv'
  <2>1. IInv' /\ regenerating' = {} /\ UNCHANGED <<stock, held>>
    BY <1>3, EventStepIInv DEF EventStep, CloseEvent, FinalizeCartsByEvent, items, flows, UInv
  <2>2. \A x \in Carts : rows[x] \in Row  BY DEF UInv, IInv, TypeOK
  <2>3. \A x \in Carts : /\ \/ rows'[x].status = rows[x].status
                            \/ rows[x].status = "active" /\ rows'[x].status = "checkout"
                         /\ rows'[x].reason = rows[x].reason
    <3>1. CASE CloseEvent(e)  BY <2>2, <3>1 DEF CloseEvent, Row
    <3>2. CASE FinalizeCartsByEvent(e)  BY <2>2, <3>2 DEF FinalizeCartsByEvent, Row
    <3>. QED  BY <1>3, <3>1, <3>2 DEF EventStep
  <2>4. UnitsConserved'
    BY <2>1, <2>3, QuietUnits DEF Released, Terminated
  <2>. QED  BY <2>1, <2>4 DEF UInv
<1>4. CASE UNCHANGED vars
  <2>1. IInv'  BY <1>4, StutterIInv DEF UInv
  <2>. QED  BY <1>4, <2>1, QuietUnits DEF UInv, vars, Released
<1>. QED  BY <1>1, <1>2, <1>3, <1>4 DEF Next

\* Through every order of sale, promotion, expiry, cancellation by the store or the
\* ERP, payment, restore, reopen and refund, what is on the shelf plus what the live
\* carts hold is what the store started with.
THEOREM NoUnitIsLost ==
  ASSUME NoUnguardedWriters
  PROVE  Spec => []UnitsConserved
<1>1. Init => UInv
  <2>1. SUFFICES ASSUME Init PROVE UnitsConserved
    BY InitIInv DEF UInv, Init
  <2>2. \A x \in Live : held[x] = 0  BY <2>1 DEF Init, Live
  <2>3. {{x} \X (1 .. held[x]) : x \in Live} \subseteq {{}}
    BY <2>2
  <2>4. UNION {{x} \X (1 .. held[x]) : x \in Live} = {}  BY <2>3
  <2>5. HeldUnits = 0  BY <2>4, FS_EmptySet DEF HeldUnits, Units
  <2>. QED  BY <2>1, <2>5, CartInventoryAssumption DEF Init, UnitsConserved
<1>2. UInv /\ [Next]_vars => UInv'  BY NextUnits
<1>3. UInv => UnitsConserved  BY DEF UInv
<1>. QED  BY <1>1, <1>2, <1>3, PTL DEF Spec

----------------------------------------------------------------------------
(* The waiting units of a cart and its open requests.  Whoever writes the   *)
(* rows, the panel and its links included: a cart that closes loses both,   *)
(* and a closed cart has none to lose (NoDemandOnClosedPurchase).           *)

WInv == IInv /\ WaitingMatchesRequests

\* The rows outside D keep their cart and their quantity; those in D are closed.
LEMMA WithoutKeeps ==
  ASSUME TypeOK, NEW D, NEW Q, Q = Without(D), NEW l \in Lots
  PROVE  /\ l \in D => Q[l].cart = Nobody /\ Q[l].qty = 0
         /\ l \notin D => Q[l].cart = requests[l].cart /\ Q[l].qty = requests[l].qty
<1>1. Q[l] = IF l \in D THEN Closed ELSE [requests[l] EXCEPT !.ahead = @ \ D]
  BY DEF Without
<1>2. CASE l \in D  BY <1>1, <1>2 DEF Closed
<1>3. CASE l \notin D
  <2>1. requests[l] \in Request \cup {Closed}  BY DEF TypeOK
  <2>. QED  BY <1>1, <1>3, <2>1 DEF Request, Closed
<1>. QED  BY <1>2, <1>3

\* The requests of a cart can be counted.
LEMMA QueueFinite ==
  ASSUME TypeOK, NEW c \in Carts
  PROVE  /\ IsFiniteSet(RequestsOf({c})) /\ RequestsOf({c}) \subseteq Lots
         /\ \A l \in Lots : Asked[l] = requests[l].qty /\ Asked[l] \in Nat
<1>1. RequestsOf({c}) \subseteq Lots  BY DEF RequestsOf
<1>2. IsFiniteSet(RequestsOf({c}))  BY <1>1, CartInventoryAssumption, FS_Subset
<1>3. \A l \in Lots : requests[l].qty \in Nat
  <2>1. \A l \in Lots : requests[l] \in Request \cup {Closed}  BY DEF TypeOK
  <2>. QED  BY <2>1 DEF Request, Closed
<1>. QED  BY <1>1, <1>2, <1>3 DEF Asked

\* A step that changes one row of the waiting list changes what a cart waits for
\* by that row's quantity.
LEMMA QueueMove ==
  ASSUME TypeOK, TypeOK', NEW k \in Lots, NEW c \in Carts,
         \A l \in Lots \ {k} : /\ requests'[l].cart = requests[l].cart
                               /\ requests'[l].qty = requests[l].qty
  PROVE  LET before == IF requests[k].cart = c THEN requests[k].qty ELSE 0
             after  == IF requests'[k].cart = c THEN requests'[k].qty ELSE 0
         IN  /\ Units(Asked, RequestsOf({c})) \in Nat
             /\ Units(Asked, RequestsOf({c}))' = Units(Asked, RequestsOf({c})) - before + after
<1>. DEFINE S == RequestsOf({c})
            T == RequestsOf({c})'
<1>1. /\ IsFiniteSet(S) /\ S \subseteq Lots
      /\ \A l \in Lots : Asked[l] = requests[l].qty /\ Asked[l] \in Nat
  BY QueueFinite
<1>2. /\ IsFiniteSet(T) /\ T \subseteq Lots
      /\ \A l \in Lots : Asked'[l] = requests'[l].qty /\ Asked'[l] \in Nat
  <2>1. T \subseteq Lots  BY DEF RequestsOf
  <2>2. IsFiniteSet(T)  BY <2>1, CartInventoryAssumption, FS_Subset
  <2>3. \A l \in Lots : requests'[l].qty \in Nat
    <3>1. \A l \in Lots : requests'[l] \in Request \cup {Closed}  BY DEF TypeOK
    <3>. QED  BY <3>1 DEF Request, Closed
  <2>. QED  BY <2>1, <2>2, <2>3 DEF Asked
<1>3. S \ {k} = T \ {k}  BY DEF RequestsOf
<1>4. /\ \A l \in S : Asked[l] \in Nat
      /\ \A l \in T : Asked'[l] \in Nat
      /\ \A l \in S \ {k} : Asked[l] = Asked'[l]
  BY <1>1, <1>2
<1>. HIDE DEF S, T
<1>5. /\ Units(Asked, S) \in Nat /\ Units(Asked', T) \in Nat
      /\ Units(Asked', T) - Term(Asked', T, k) = Units(Asked, S) - Term(Asked, S, k)
  BY <1>1, <1>2, <1>3, <1>4, UnitsMove
<1>. USE DEF S, T
<1>6. Term(Asked, S, k) = IF requests[k].cart = c THEN requests[k].qty ELSE 0
  BY <1>1 DEF Term, RequestsOf
<1>7. Term(Asked', T, k) = IF requests'[k].cart = c THEN requests'[k].qty ELSE 0
  BY <1>2 DEF Term, RequestsOf
<1>8. requests[k].qty \in Nat /\ requests'[k].qty \in Nat  BY <1>1, <1>2
<1>9. Units(Asked, RequestsOf({c}))' = Units(Asked', T)  OBVIOUS
<1>. HIDE DEF S, T
<1>10. Units(Asked', T) = Units(Asked, S) - (IF requests[k].cart = c THEN requests[k].qty ELSE 0)
                          + (IF requests'[k].cart = c THEN requests'[k].qty ELSE 0)
  BY <1>5, <1>6, <1>7, <1>8
<1>. QED  BY <1>5, <1>9, <1>10 DEF S, T

\* A cart whose requests a step leaves alone waits for as much as before.
LEMMA QueueSame ==
  ASSUME TypeOK, NEW c \in Carts,
         \A l \in Lots : /\ requests'[l].cart = c <=> requests[l].cart = c
                         /\ requests[l].cart = c => requests'[l].qty = requests[l].qty
  PROVE  Units(Asked, RequestsOf({c}))' = Units(Asked, RequestsOf({c}))
<1>1. RequestsOf({c})' = RequestsOf({c})  BY DEF RequestsOf
<1>2. \A l \in RequestsOf({c}) : Asked'[l] = Asked[l]  BY DEF RequestsOf, Asked
<1>. QED  BY <1>1, <1>2, UnitsSame

LEMMA QueueNone ==
  ASSUME NEW c, \A l \in Lots : requests[l].cart # c
  PROVE  Units(Asked, RequestsOf({c})) = 0
<1>1. RequestsOf({c}) = {}  BY DEF RequestsOf
<1>. QED  BY <1>1, UnitsEmpty

\* c queues n more units, nobody else's request changes.
LEMMA EnqueueWaiting ==
  ASSUME TypeOK, TypeOK', NEW c \in Carts, NEW n \in Nat \ {0}, Enqueue(c, n),
         NEW x \in Carts
  PROVE  Units(Asked, RequestsOf({x}))' =
           Units(Asked, RequestsOf({x})) + (IF x = c THEN n ELSE 0)
<1>1. PICK k \in Lots \ Waitlist :
        requests' = [requests EXCEPT ![k] = [cart |-> c, qty |-> n, ahead |-> Waitlist]]
  BY DEF Enqueue
<1>2. requests[k].cart = Nobody /\ requests[k].cart # x
  BY CartInventoryAssumption DEF Waitlist
<1>3. /\ \A l \in Lots \ {k} : requests'[l] = requests[l]
      /\ requests'[k].cart = c /\ requests'[k].qty = n
  BY <1>1 DEF TypeOK
<1>4. CASE x = c
  BY <1>2, <1>3, <1>4, QueueMove
<1>5. CASE x # c
  BY <1>2, <1>3, <1>5, QueueMove
<1>. QED  BY <1>4, <1>5

\* The row k leaves the list, or some of its units are served.
LEMMA ServeWaiting ==
  ASSUME TypeOK, TypeOK', NEW k \in Waitlist, NEW n \in Nat, n <= requests[k].qty,
         requests' = Serve(k, n), NEW x \in Carts
  PROVE  Units(Asked, RequestsOf({x}))' =
           Units(Asked, RequestsOf({x})) - (IF x = requests[k].cart THEN n ELSE 0)
<1>1. k \in Lots /\ requests[k] \in Request /\ requests[k].qty \in Nat \ {0}
  BY DEF Waitlist, TypeOK, Request, Closed
<1>2. CASE n = requests[k].qty
  <2>1. requests' = Without({k})  BY <1>2 DEF Serve
  <2>2. \A l \in Lots \ {k} : /\ requests'[l].cart = requests[l].cart
                              /\ requests'[l].qty = requests[l].qty
    BY <2>1, WithoutKeeps
  <2>3. requests'[k].cart # x
    BY <1>1, <2>1, WithoutKeeps, CartInventoryAssumption
  <2>4. CASE x = requests[k].cart
    BY <1>1, <1>2, <2>2, <2>3, <2>4, QueueMove
  <2>5. CASE x # requests[k].cart
    BY <1>1, <1>2, <2>2, <2>3, <2>5, QueueMove
  <2>. QED  BY <2>4, <2>5
<1>3. CASE n # requests[k].qty
  <2>1. requests' = [requests EXCEPT ![k].qty = @ - n]  BY <1>3 DEF Serve
  <2>2. /\ \A l \in Lots \ {k} : requests'[l] = requests[l]
        /\ requests'[k] = [requests[k] EXCEPT !.qty = @ - n]
    BY <1>1, <2>1 DEF TypeOK
  <2>3. requests'[k].cart = requests[k].cart /\ requests'[k].qty = requests[k].qty - n
    BY <1>1, <2>2 DEF Request
  <2>4. \A l \in Lots \ {k} : /\ requests'[l].cart = requests[l].cart
                              /\ requests'[l].qty = requests[l].qty
    BY <2>2
  <2>5. CASE x = requests[k].cart
    <3>1. /\ Units(Asked, RequestsOf({x})) \in Nat
          /\ Units(Asked, RequestsOf({x}))' =
               Units(Asked, RequestsOf({x})) - requests[k].qty + requests'[k].qty
      BY <1>1, <2>3, <2>4, <2>5, QueueMove
    <3>. QED  BY <1>1, <2>3, <2>5, <3>1
  <2>6. CASE x # requests[k].cart
    <3>1. /\ Units(Asked, RequestsOf({x})) \in Nat
          /\ Units(Asked, RequestsOf({x}))' = Units(Asked, RequestsOf({x})) - 0 + 0
      BY <1>1, <2>3, <2>4, <2>6, QueueMove
    <3>. QED  BY <2>6, <3>1
  <2>. QED  BY <2>5, <2>6
<1>. QED  BY <1>2, <1>3

\* A cart that closes waits for nothing and has no open request left; the rest of
\* the list is as it was.
LEMMA WriteWaiting ==
  ASSUME WInv, NEW c \in Carts, NEW r, Write(c, r)
  PROVE  WaitingMatchesRequests'
<1>. USE DEF WInv, IInv
<1>1. CASE ~FlipsClosed(c, r)
  BY <1>1 DEF Write, WaitingMatchesRequests, Asked, RequestsOf
<1>2. CASE FlipsClosed(c, r)
  <2>. DEFINE D == RequestsOf(Purchase(c))
  <2>1. /\ requests' = Without(D)
        /\ \A x \in Carts : waiting'[x] = IF x \in Purchase(c) THEN 0 ELSE waiting[x]
    BY <1>2 DEF Write, WaitingAfterClose
  <2>2. ASSUME NEW x \in Carts, x \in Purchase(c)
        PROVE  Units(Asked, RequestsOf({x}))' = 0
    <3>1. \A l \in Lots : requests'[l].cart # x
      BY <2>1, <2>2, WithoutKeeps, CartInventoryAssumption DEF RequestsOf
    <3>2. RequestsOf({x})' = {}  BY <3>1 DEF RequestsOf
    <3>. QED  BY <3>2, UnitsEmpty
  <2>3. ASSUME NEW x \in Carts, x \notin Purchase(c)
        PROVE  Units(Asked, RequestsOf({x}))' = Units(Asked, RequestsOf({x}))
    <3>1. \A l \in Lots : /\ requests'[l].cart = x <=> requests[l].cart = x
                          /\ requests[l].cart = x => requests'[l].qty = requests[l].qty
      BY <2>1, <2>3, WithoutKeeps, CartInventoryAssumption DEF RequestsOf
    <3>. QED  BY <3>1, QueueSame
  <2>. QED  BY <2>1, <2>2, <2>3 DEF WaitingMatchesRequests
<1>. QED  BY <1>1, <1>2

\* A step that leaves the list and the waiting units alone.
LEMMA QuietWaiting ==
  ASSUME WaitingMatchesRequests, UNCHANGED <<requests, waiting>>
  PROVE  WaitingMatchesRequests'
BY DEF WaitingMatchesRequests, Asked, RequestsOf

LEMMA CartStepWaiting ==
  ASSUME WInv, NEW c \in Carts, CartStep(c)
  PROVE  WInv'
<1>1. IInv /\ IInv' /\ TypeOK /\ TypeOK' /\ WaitingMatchesRequests
  BY CartStepIInv DEF WInv, IInv
<1>2. stock \in Int /\ held[c] \in Nat /\ waiting \in [Carts -> Nat]
  BY <1>1 DEF TypeOK
<1>3. ASSUME NEW q \in Quantities, AddCommentItem(c, q)
      PROVE  WaitingMatchesRequests'
  <2>. DEFINE n   == Accepted(c, q)
              got == IF OlderBlocksComment THEN 0 ELSE Least(n, AtLeast0(stock))
  <2>1. n \in Nat \ {0} /\ got \in Nat /\ got <= n
    BY <1>1, <1>3, CartInventoryAssumption
    DEF AddCommentItem, Accepted, Least, AtLeast0, TypeOK
  <2>. HIDE DEF n, got
  <2>2. /\ waiting' = [waiting EXCEPT ![c] = @ + (n - got)]
        /\ IF n > got THEN Enqueue(c, n - got) ELSE UNCHANGED requests
    BY <1>3 DEF AddCommentItem, n, got
  <2>3. CASE n > got
    <3>1. n - got \in Nat \ {0} /\ Enqueue(c, n - got)  BY <2>1, <2>2, <2>3
    <3>2. ASSUME NEW x \in Carts
          PROVE  waiting'[x] = Units(Asked, RequestsOf({x}))'
      <4>1. Units(Asked, RequestsOf({x}))' =
              Units(Asked, RequestsOf({x})) + (IF x = c THEN n - got ELSE 0)
        BY <1>1, <3>1, EnqueueWaiting
      <4>2. waiting[x] = Units(Asked, RequestsOf({x}))
        BY <1>1 DEF WaitingMatchesRequests
      <4>. QED  BY <1>2, <2>1, <2>2, <4>1, <4>2
    <3>. QED  BY <3>2 DEF WaitingMatchesRequests
  <2>4. CASE ~(n > got)
    <3>1. UNCHANGED <<requests, waiting>>  BY <1>2, <2>1, <2>2, <2>4
    <3>. QED  BY <1>1, <3>1, QuietWaiting
  <2>. QED  BY <2>3, <2>4
<1>4. ASSUME ReopenCancelledCartFromERP(c)
      PROVE  WaitingMatchesRequests'
  <2>. DEFINE got == IF OlderBlocksReopen THEN 0 ELSE Least(AtLeast0(stock), held[c])
  <2>1. got \in Nat /\ got <= held[c]
    BY <1>2 DEF Least, AtLeast0
  <2>. HIDE DEF got
  <2>2. /\ waiting' = [waiting EXCEPT ![c] = held[c] - got]
        /\ IF held[c] > got THEN Enqueue(c, held[c] - got) ELSE UNCHANGED requests
    BY <1>4 DEF ReopenCancelledCartFromERP, got
  <2>3. Units(Asked, RequestsOf({c})) = 0
    <3>1. Closes(rows[c])
      BY <1>4 DEF ReopenCancelledCartFromERP, Reopenable, Closes, Terminated
    <3>2. \A l \in Lots : requests[l].cart # c
      BY <1>1, <3>1, CartInventoryAssumption DEF IInv, NoDemandOnClosedPurchase, Waitlist
    <3>. QED  BY <3>2, QueueNone
  <2>4. CASE held[c] > got
    <3>1. held[c] - got \in Nat \ {0} /\ Enqueue(c, held[c] - got)
      BY <1>2, <2>1, <2>2, <2>4
    <3>2. ASSUME NEW x \in Carts
          PROVE  waiting'[x] = Units(Asked, RequestsOf({x}))'
      <4>1. Units(Asked, RequestsOf({x}))' =
              Units(Asked, RequestsOf({x})) + (IF x = c THEN held[c] - got ELSE 0)
        BY <1>1, <3>1, EnqueueWaiting
      <4>2. waiting[x] = Units(Asked, RequestsOf({x}))
        BY <1>1 DEF WaitingMatchesRequests
      <4>. QED  BY <1>2, <2>1, <2>2, <2>3, <4>1, <4>2
    <3>. QED  BY <3>2 DEF WaitingMatchesRequests
  <2>5. CASE ~(held[c] > got)
    <3>1. UNCHANGED requests /\ held[c] - got = 0  BY <1>2, <2>1, <2>2, <2>5
    <3>2. waiting[c] = 0  BY <1>1, <2>3 DEF WaitingMatchesRequests
    <3>3. UNCHANGED waiting  BY <1>2, <2>2, <3>1, <3>2
    <3>. QED  BY <1>1, <3>1, <3>3, QuietWaiting
  <2>. QED  BY <2>4, <2>5
<1>5. ASSUME NEW r, Write(c, r)
      PROVE  WaitingMatchesRequests'
  BY <1>5, WriteWaiting
<1>6. ASSUME UNCHANGED <<requests, waiting>>
      PROVE  WaitingMatchesRequests'
  BY <1>1, <1>6, QuietWaiting
<1>7. \/ \E q \in Quantities : AddCommentItem(c, q)
      \/ ReopenCancelledCartFromERP(c)
      \/ \E r : Write(c, r)
      \/ UNCHANGED <<requests, waiting>>
  BY DEF CartStep, DeadlinePasses, ExpireCartAndReleaseStock, CancelCart,
      RecordERPOrderStatus, CancelCartFromERP, UpdateCartPaymentPaid,
      VerifyPaymentAttemptReview, RestoreCancelledCartAsPaid, MarkCartRefunded,
      CancelCartOnRefund, RegenerateRead, RegenerateWrite, UpdateStatus,
      UpdatePaymentStatus, items
<1>8. WaitingMatchesRequests'  BY <1>3, <1>4, <1>5, <1>6, <1>7
<1>. QED  BY <1>1, <1>8 DEF WInv

LEMMA LotStepWaiting ==
  ASSUME WInv, NEW l \in Lots, LotStep(l)
  PROVE  WInv'
<1>. DEFINE c == requests[l].cart
<1>1. IInv /\ IInv' /\ TypeOK /\ TypeOK' /\ WaitingMatchesRequests
  BY LotStepIInv DEF WInv, IInv
<1>2. l \in Waitlist
  BY DEF LotStep, CancelWaitingRequest, PromoteNextWaitlistEntry, Head, Candidates
<1>3. c \in Carts /\ requests[l].qty \in Nat \ {0} /\ waiting \in [Carts -> Nat] /\ stock \in Int
  BY <1>1, <1>2 DEF TypeOK, Waitlist, Request, Closed
<1>4. \E n \in Nat : /\ n <= requests[l].qty
                     /\ requests' = Serve(l, n)
                     /\ waiting' = [waiting EXCEPT ![c] = @ - n]
  <2>1. CASE CancelWaitingRequest(l)
    <3>. DEFINE n == requests[l].qty
    <3>1. n \in Nat /\ n <= requests[l].qty  BY <1>3
    <3>2. Serve(l, n) = Without({l})  BY DEF Serve
    <3>3. requests' = Serve(l, n) /\ waiting' = [waiting EXCEPT ![c] = @ - n]
      BY <2>1, <3>2 DEF CancelWaitingRequest
    <3>. QED  BY <3>1, <3>3
  <2>2. CASE PromoteNextWaitlistEntry(l)
    <3>1. Least(stock, requests[l].qty) \in Nat /\ Least(stock, requests[l].qty) <= requests[l].qty
      BY <1>3, <2>2 DEF PromoteNextWaitlistEntry, Least
    <3>. QED  BY <2>2, <3>1 DEF PromoteNextWaitlistEntry
  <2>. QED  BY <2>1, <2>2 DEF LotStep
<1>5. PICK n \in Nat : /\ n <= requests[l].qty
                       /\ requests' = Serve(l, n)
                       /\ waiting' = [waiting EXCEPT ![c] = @ - n]
  BY <1>4
<1>6. ASSUME NEW x \in Carts
      PROVE  waiting'[x] = Units(Asked, RequestsOf({x}))'
  <2>1. Units(Asked, RequestsOf({x}))' =
          Units(Asked, RequestsOf({x})) - (IF x = c THEN n ELSE 0)
    BY <1>1, <1>2, <1>5, ServeWaiting
  <2>2. waiting[x] = Units(Asked, RequestsOf({x}))
    BY <1>1 DEF WaitingMatchesRequests
  <2>. QED  BY <1>3, <1>5, <2>1, <2>2
<1>. QED  BY <1>1, <1>6 DEF WInv, WaitingMatchesRequests

LEMMA NextWaiting ==
  ASSUME WInv, [Next]_vars
  PROVE  WInv'
<1>1. CASE \E e \in Events : EventStep(e)
  BY <1>1, EventStepIInv, QuietWaiting
  DEF EventStep, CloseEvent, FinalizeCartsByEvent, items, WInv
<1>2. CASE UNCHANGED vars
  BY <1>2, StutterIInv, QuietWaiting DEF vars, WInv
<1>. QED  BY <1>1, <1>2, CartStepWaiting, LotStepWaiting DEF Next

\* Whoever writes the rows, the units a cart waits for are the units its open
\* requests ask for: the allocator never meets a "waitlist/cart quantity mismatch".
THEOREM QueueAgrees == Spec => []WaitingMatchesRequests
<1>1. Init => WInv
  <2>1. SUFFICES ASSUME Init PROVE WaitingMatchesRequests
    BY InitIInv DEF WInv
  <2>2. \A c \in Carts : \A l \in Lots : requests[l].cart # c
    BY <2>1, CartInventoryAssumption DEF Init, Closed
  <2>3. \A c \in Carts : Units(Asked, RequestsOf({c})) = 0
    BY <2>2, QueueNone
  <2>. QED  BY <2>1, <2>3 DEF Init, WaitingMatchesRequests
<1>2. WInv /\ [Next]_vars => WInv'  BY NextWaiting
<1>3. WInv => WaitingMatchesRequests  BY DEF WInv
<1>. QED  BY <1>1, <1>2, <1>3, PTL DEF Spec

----------------------------------------------------------------------------
(* Nobody overtakes the waiting list.  The three predicates for "an older   *)
(* request is waiting" agree once a VIP cart cannot run out of time, which  *)
(* only the regenerated link makes possible: it arms the deadline of        *)
(* whatever cart it writes (the counterexample of CartInventory_vip.cfg).   *)

NoLinks == "regenerate" \notin Writers

ProtectedNeverDue == \A c \in Carts : Protected(c) => rows[c].deadline = "none"

QInv == IInv /\ regenerating = {} /\ ProtectedNeverDue

\* Writing a row keeps the deadlines of the others.
LEMMA WriteDeadlines ==
  ASSUME QInv, NEW c \in Carts, NEW r \in Row, rows' = WriteRow(rows, c, r),
         Protected(c) => r.deadline = "none"
  PROVE  ProtectedNeverDue'
<1>1. rows \in [Carts -> Row]  BY DEF QInv, IInv, TypeOK
<1>2. /\ rows'[c] = r
      /\ \A x \in Carts \ {c} : rows'[x].deadline = rows[x].deadline
  BY <1>1, WriteRowShape
<1>. QED  BY <1>2 DEF QInv, ProtectedNeverDue, Protected

LEMMA CartStepDeadlines ==
  ASSUME NoLinks, QInv, NEW c \in Carts, CartStep(c)
  PROVE  QInv'
<1>. USE DEF NoLinks
<1>1. /\ IInv' /\ IInv /\ regenerating = {} /\ rows \in [Carts -> Row] /\ rows[c] \in Row
      /\ Protected(c) => rows[c].deadline = "none"
  BY CartStepIInv DEF QInv, IInv, TypeOK, ProtectedNeverDue
<1>2. regenerating' = {}
  BY <1>1
  DEF CartStep, AddCommentItem, DeadlinePasses, ExpireCartAndReleaseStock, CancelCart,
      RecordERPOrderStatus, CancelCartFromERP, ReopenCancelledCartFromERP,
      UpdateCartPaymentPaid, VerifyPaymentAttemptReview, RestoreCancelledCartAsPaid,
      MarkCartRefunded, CancelCartOnRefund, RegenerateRead, RegenerateWrite, UpdateStatus,
      UpdatePaymentStatus, flows
<1>. DEFINE Safe(r) == r \in Row /\ (Protected(c) => r.deadline = "none")
<1>3. ASSUME NEW r, Safe(r), Write(c, r)
      PROVE  ProtectedNeverDue'
  BY <1>3, WriteDeadlines DEF Write
<1>4. ASSUME UNCHANGED rows
      PROVE  ProtectedNeverDue'
  BY <1>4 DEF QInv, ProtectedNeverDue, Protected
<1>5. ASSUME DeadlinePasses(c)
      PROVE  ProtectedNeverDue'
  <2>1. ~Protected(c)  BY <1>1, <1>5 DEF DeadlinePasses
  <2>2. \A x \in Carts \ {c} : rows'[x] = rows[x]  BY <1>1, <1>5 DEF DeadlinePasses
  <2>. QED  BY <2>1, <2>2 DEF QInv, ProtectedNeverDue, Protected
<1>6. ASSUME RecordERPOrderStatus(c)
      PROVE  ProtectedNeverDue'
  <2>1. \A x \in Carts : rows'[x].deadline = rows[x].deadline
    BY <1>1, <1>6 DEF RecordERPOrderStatus, Row
  <2>. QED  BY <2>1 DEF QInv, ProtectedNeverDue, Protected
<1>7. Safe(ExpiredRow(rows[c]))
  <2>1. ExpiredRow(rows[c]) \in Row  BY <1>1, RowFacts
  <2>2. ExpiredRow(rows[c]).deadline \in {"none", rows[c].deadline}  BY <1>1 DEF ExpiredRow, Row
  <2>. QED  BY <1>1, <2>1, <2>2
<1>8. ASSUME NEW why \in {"store_cancelled", "erp_cancelled", "refunded"}
      PROVE  Safe(CancelledRow(rows[c], why))
  <2>1. CancelledRow(rows[c], why) \in Row  BY <1>1, <1>8, RowFacts
  <2>2. CancelledRow(rows[c], why).deadline = rows[c].deadline
    BY <1>1 DEF CancelledRow, Row
  <2>. QED  BY <1>1, <2>1, <2>2
<1>9. Safe(PaidRow(rows[c]))
  <2>1. PaidRow(rows[c]) \in Row  BY <1>1, RowFacts
  <2>2. PaidRow(rows[c]).deadline \in {"none", rows[c].deadline}  BY <1>1 DEF PaidRow, Row
  <2>. QED  BY <1>1, <2>1, <2>2
<1>10. Safe(RestoredRow(rows[c]))
  <2>1. RestoredRow(rows[c]) \in Row  BY <1>1, RowFacts
  <2>2. RestoredRow(rows[c]).deadline = "none"  BY <1>1 DEF RestoredRow, PaidRow, Row
  <2>. QED  BY <2>1, <2>2
<1>11. Safe(ReviewRow(rows[c]))
  <2>1. ReviewRow(rows[c]) \in Row  BY <1>1, RowFacts
  <2>2. ReviewRow(rows[c]).deadline \in {"none", rows[c].deadline}  BY <1>1 DEF ReviewRow, Row
  <2>. QED  BY <1>1, <2>1, <2>2
<1>12. Safe(ReopenedRow(c, rows[c]))
  <2>1. ReopenedRow(c, rows[c]) \in Row  BY <1>1, RowFacts
  <2>2. Protected(c) => ReopenedRow(c, rows[c]).deadline = "none"
    BY <1>1 DEF ReopenedRow, Row
  <2>. QED  BY <2>1, <2>2
<1>13. ASSUME NEW p \in {"refunded", "pending"}
       PROVE  Safe([rows[c] EXCEPT !.pay = p])
  BY <1>1, RowFacts DEF Row
<1>14. ASSUME NEW s \in {"active", "checkout", "completed", "expired"}
       PROVE  Safe([rows[c] EXCEPT !.status = s])
  BY <1>1 DEF Row, Open, Terminated
<1>15. ASSUME ReopenCancelledCartFromERP(c)
       PROVE  ProtectedNeverDue'
  BY <1>12, <1>15, WriteDeadlines DEF ReopenCancelledCartFromERP
<1>. HIDE DEF Safe
<1>16. \/ \E r : Safe(r) /\ Write(c, r)
       \/ UNCHANGED rows
       \/ DeadlinePasses(c) \/ RecordERPOrderStatus(c) \/ ReopenCancelledCartFromERP(c)
  BY <1>1, <1>7, <1>8, <1>9, <1>10, <1>11, <1>13, <1>14
  DEF CartStep, AddCommentItem, ExpireCartAndReleaseStock, CancelCart,
      CancelCartFromERP, UpdateCartPaymentPaid, VerifyPaymentAttemptReview,
      RestoreCancelledCartAsPaid, MarkCartRefunded, CancelCartOnRefund, RegenerateRead,
      RegenerateWrite, UpdateStatus, UpdatePaymentStatus
<1>17. ProtectedNeverDue'  BY <1>3, <1>4, <1>5, <1>6, <1>15, <1>16
<1>. QED  BY <1>1, <1>2, <1>17 DEF QInv

LEMMA NextDeadlines ==
  ASSUME NoLinks, QInv, [Next]_vars
  PROVE  QInv'
<1>1. ASSUME NEW l \in Lots, LotStep(l)
      PROVE  QInv'
  BY <1>1, LotStepIInv
  DEF LotStep, CancelWaitingRequest, PromoteNextWaitlistEntry, flows, QInv,
      ProtectedNeverDue, Protected
<1>2. ASSUME NEW e \in Events, EventStep(e)
      PROVE  QInv'
  <2>1. IInv' /\ regenerating' = {}
    BY <1>2, EventStepIInv DEF EventStep, CloseEvent, FinalizeCartsByEvent, flows, QInv
  <2>2. \A x \in Carts : Protected(x) => rows'[x] = rows[x]
    <3>1. CASE CloseEvent(e)  BY <3>1 DEF CloseEvent
    <3>2. CASE FinalizeCartsByEvent(e)  BY <3>2 DEF FinalizeCartsByEvent
    <3>. QED  BY <1>2, <3>1, <3>2 DEF EventStep
  <2>. QED  BY <2>1, <2>2 DEF QInv, ProtectedNeverDue, Protected
<1>3. CASE UNCHANGED vars
  BY <1>3, StutterIInv DEF vars, QInv, ProtectedNeverDue, Protected
<1>. QED  BY <1>1, <1>2, <1>3, CartStepDeadlines DEF Next

\* A request that can be served blocks both kinds of newcomers.
LEMMA CandidatesBlock ==
  ASSUME QInv, Candidates # {}
  PROVE  OlderBlocksComment /\ OlderBlocksReopen
<1>1. PICK l \in Waitlist : \A c \in Sides(l) : Eligible(c)  BY DEF Candidates
<1>2. Sides(l) \subseteq Carts
  BY <1>1, CartRowAssumption
  DEF QInv, IInv, TypeOK, Waitlist, Sides, Request, Closed
<1>3. \A c \in Sides(l) : InTimeForReopen(c)
  BY <1>1 DEF Eligible, InTimeForReopen
<1>4. \A c \in Sides(l) : InTimeForComment(c)
  <2>1. SUFFICES ASSUME NEW c \in Sides(l) PROVE InTimeForComment(c)
    OBVIOUS
  <2>2. Buying(c) /\ Running(rows, c) /\ c \in Carts  BY <1>1, <1>2 DEF Eligible
  <2>3. rows[c].deadline # "due"
    BY <2>2 DEF Running, QInv, ProtectedNeverDue
  <2>. QED  BY <2>2, <2>3 DEF InTimeForComment
<1>. QED  BY <1>3, <1>4 DEF OlderBlocksComment, OlderBlocksReopen

Served == stock' < stock /\ Candidates # {} /\ NobodyPays
            => \E l \in Lots : Head(l) /\ requests'[l].qty < requests[l].qty

LEMMA StepServes ==
  ASSUME NoLinks, QInv, [Next]_vars
  PROVE  UNCHANGED vars \/ Served
<1>1. SUFFICES ASSUME stock' < stock, Candidates # {}, NobodyPays, Next
               PROVE  \E l \in Lots : Head(l) /\ requests'[l].qty < requests[l].qty
  BY DEF Served
<1>2. stock \in Int /\ held \in [Carts -> Nat] /\ rows \in [Carts -> Row]
      /\ OlderBlocksComment /\ OlderBlocksReopen
  BY <1>1, CandidatesBlock DEF QInv, IInv, TypeOK
<1>3. ASSUME NEW c \in Carts, CartStep(c)
      PROVE  FALSE
  <2>1. CASE RestoreCancelledCartAsPaid(c)
    <3>1. RestoredRow(rows[c]) \in Row  BY <1>2, RowFacts
    <3>2. rows'[c] = RestoredRow(rows[c])
      BY <1>2, <2>1, <3>1, WriteRowShape DEF RestoreCancelledCartAsPaid, Write
    <3>3. rows'[c].pay = "paid"  BY <1>2, <3>2 DEF RestoredRow, PaidRow, Row
    <3>4. rows[c].pay # "paid"
      BY <2>1 DEF RestoreCancelledCartAsPaid, Restorable, Unsettled, Settled
    <3>. QED  BY <1>1, <3>3, <3>4 DEF NobodyPays
  <2>2. CASE ~RestoreCancelledCartAsPaid(c)
    <3>1. stock' = stock \/ stock' = stock + held[c] \/ stock' = stock - 0
      BY <1>2, <1>3, <2>2
      DEF CartStep, AddCommentItem, DeadlinePasses, ExpireCartAndReleaseStock, CancelCart,
          RecordERPOrderStatus, CancelCartFromERP, ReopenCancelledCartFromERP,
          UpdateCartPaymentPaid, VerifyPaymentAttemptReview, MarkCartRefunded,
          CancelCartOnRefund, RegenerateRead, RegenerateWrite, UpdateStatus,
          UpdatePaymentStatus, items
    <3>2. held[c] \in Nat  BY <1>2
    <3>. QED  BY <1>1, <1>2, <3>1, <3>2
  <2>. QED  BY <2>1, <2>2
<1>4. ASSUME NEW l \in Lots, LotStep(l)
      PROVE  Head(l) /\ requests'[l].qty < requests[l].qty
  <2>1. PromoteNextWaitlistEntry(l)
    BY <1>1, <1>2, <1>4 DEF LotStep, CancelWaitingRequest
  <2>2. Head(l) /\ l \in Waitlist /\ stock > 0
    BY <2>1 DEF PromoteNextWaitlistEntry, Head, Candidates
  <2>3. requests[l] \in Request /\ requests[l].qty \in Nat \ {0}
    BY <2>2 DEF QInv, IInv, TypeOK, Waitlist, Request, Closed
  <2>. DEFINE n == Least(stock, requests[l].qty)
  <2>4. n \in Nat \ {0} /\ n <= requests[l].qty  BY <1>2, <2>2, <2>3 DEF Least
  <2>. HIDE DEF n
  <2>5. requests' = Serve(l, n)  BY <2>1 DEF PromoteNextWaitlistEntry, n
  <2>6. CASE n = requests[l].qty
    <3>1. requests'[l].qty = 0
      BY <2>5, <2>6, WithoutKeeps DEF Serve, QInv, IInv
    <3>. QED  BY <2>2, <2>3, <3>1
  <2>7. CASE n # requests[l].qty
    <3>1. requests'[l].qty = requests[l].qty - n
      BY <2>3, <2>5, <2>7 DEF Serve, QInv, IInv, TypeOK, Request
    <3>. QED  BY <2>2, <2>3, <2>4, <3>1
  <2>. QED  BY <2>6, <2>7
<1>5. ASSUME NEW e \in Events, EventStep(e)
      PROVE  FALSE
  <2>1. stock' = stock  BY <1>5 DEF EventStep, CloseEvent, FinalizeCartsByEvent, items
  <2>. QED  BY <1>1, <1>2, <2>1
<1>. QED  BY <1>1, <1>3, <1>4, <1>5 DEF Next

\* As long as no link is regenerated, units leave the shelf for nobody but the
\* oldest request that can be served, VIP carts and carts that never expire included.
THEOREM QueueIsFair ==
  ASSUME NoLinks
  PROVE  Spec => NoOvertaking
<1>1. Init => QInv
  BY InitIInv DEF Init, QInv, ProtectedNeverDue, NewRow
<1>2. QInv /\ [Next]_vars => QInv'  BY NextDeadlines
<1>3. QInv /\ [Next]_vars => [Served]_vars  BY StepServes
<1>4. Spec => [][Served]_vars  BY <1>1, <1>2, <1>3, PTL DEF Spec
<1>. QED  BY <1>4 DEF NoOvertaking, Served
=============================================================================
