--------------------------- MODULE ErpOrderProofs ---------------------------
(***************************************************************************)
(* Proofs about ErpOrder, for any number of handlers, changes of the cart, *)
(* failed calls and crashes.                                               *)
(*                                                                         *)
(* That the ERP never holds two orders of a cart holds in every schedule:  *)
(* the one POST is made in the cart's turn, after a search for the anchor  *)
(* in the same turn (InTurn).  That a claim has one owner holds until the  *)
(* deferred release of a confirmation ends a claim it does not own         *)
(* (Claimed, while "late" is not in raced).  The truth of an               *)
(* acknowledgement takes that and more: one creator, and what each handler *)
(* has read or sent against the cart's grid (OrderInv, while raced = {}).  *)
(***************************************************************************)
EXTENDS ErpOrder, TLAPS

(* The parts of TypeOK. *)
RowOK    == row \in [state : State, ext : Ids \cup {0}, rest : State, aged : BOOLEAN]
CartOK   == cart \in [grid : Grids, pending : BOOLEAN, pay : {"pending", "paid", "refunded"},
                      expired : BOOLEAN]
OrdersOK == orders \in [Ids -> [status : {"none", "open", "approved", "cancelled"}, held : Grids]]
WhoOK    == /\ lock \in Tasks \cup {None} /\ turn \in Tasks \cup {None}
            /\ done \subseteq {"paid", "expired", "refunded"}
CallOK   == call \in [Tasks -> Call]
LeftOK   == left \in [faults : 0 .. MaxFaults, crashes : 0 .. MaxCrashes]
RacedOK  == raced \subseteq {"slow", "paid", "late"}

LEMMA Parts == TypeOK <=> RowOK /\ CartOK /\ OrdersOK /\ WhoOK /\ CallOK /\ LeftOK /\ RacedOK
BY DEF TypeOK, RowOK, CartOK, OrdersOK, WhoOK, CallOK, LeftOK, RacedOK

LEMMA PartsNext ==
  TypeOK' <=> RowOK' /\ CartOK' /\ OrdersOK' /\ WhoOK' /\ CallOK' /\ LeftOK' /\ RacedOK'
BY DEF TypeOK, RowOK, CartOK, OrdersOK, WhoOK, CallOK, LeftOK, RacedOK

----------------------------------------------------------------------------
(* The records a handler goes through are calls. *)

LEMMA CallFields ==
  ASSUME NEW c \in Call
  PROVE  /\ c.op \in Op /\ c.pc \in Step /\ c.ext \in Ids \cup {0} /\ c.sent \in Grids
         /\ c.grid \in Grids /\ c.home \in State /\ c.failed \in BOOLEAN
BY DEF Call

LEMMA RowFields ==
  ASSUME RowOK
  PROVE  row.state \in State /\ row.ext \in Ids \cup {0} /\ row.rest \in State
BY DEF RowOK

LEMMA IdleOK == Idle \in Call
BY ErpAssumption DEF Idle, Call, Op, Step, State, Grids

LEMMA SetPc ==
  ASSUME NEW c \in Call, NEW pc \in Step PROVE [c EXCEPT !.pc = pc] \in Call
BY DEF Call

LEMMA SetExt ==
  ASSUME NEW c \in Call, NEW pc \in Step, NEW ext \in Ids \cup {0}
  PROVE  [c EXCEPT !.pc = pc, !.ext = ext] \in Call
BY DEF Call

LEMMA SetSent ==
  ASSUME NEW c \in Call, NEW pc \in Step, NEW g \in Grids
  PROVE  [c EXCEPT !.pc = pc, !.sent = g] \in Call
BY DEF Call

LEMMA SetGrid ==
  ASSUME NEW c \in Call, NEW pc \in Step, NEW g \in Grids
  PROVE  [c EXCEPT !.pc = pc, !.grid = g] \in Call
BY DEF Call

LEMMA SetFailed ==
  ASSUME NEW c \in Call, NEW pc \in Step, NEW b \in BOOLEAN
  PROVE  [c EXCEPT !.pc = pc, !.failed = b] \in Call
BY DEF Call

LEMMA SetHome ==
  ASSUME NEW c \in Call, NEW pc \in Step, NEW ext \in Ids \cup {0}, NEW home \in State
  PROVE  [c EXCEPT !.pc = pc, !.ext = ext, !.home = home] \in Call
BY DEF Call

LEMMA SetApprove ==
  ASSUME NEW c \in Call, NEW op \in Op, NEW pc \in Step, NEW ext \in Ids \cup {0}, NEW g \in Grids,
         NEW home \in State
  PROVE  [c EXCEPT !.op = op, !.pc = pc, !.ext = ext, !.sent = g, !.home = home] \in Call
BY DEF Call

\* A handler that starts.
LEMMA New ==
  ASSUME NEW op \in Op, NEW pc \in Step
  PROVE  [Idle EXCEPT !.op = op, !.pc = pc] \in Call
BY IdleOK DEF Call

LEMMA NewExt ==
  ASSUME NEW op \in Op, NEW pc \in Step, NEW ext \in Ids \cup {0}
  PROVE  [Idle EXCEPT !.op = op, !.pc = pc, !.ext = ext] \in Call
BY IdleOK DEF Call

LEMMA NewHome ==
  ASSUME NEW op \in Op, NEW pc \in Step, NEW ext \in Ids \cup {0}, NEW home \in State
  PROVE  [Idle EXCEPT !.op = op, !.pc = pc, !.ext = ext, !.home = home] \in Call
BY IdleOK DEF Call

LEMMA Values == /\ 0 \in Grids /\ 0 \in Ids \cup {0}
                /\ {"none", "cancelled", "open", "confirmed", "converting", "mutating"} = State
BY ErpAssumption DEF Grids, State, Resting, Busy

----------------------------------------------------------------------------
(* How the helpers keep the types. *)

LEMMA TurnsOK ==
  ASSUME CallOK, NEW w \in Tasks, NEW c \in Call, Turns(w, c)
  PROVE  CallOK'
BY DEF CallOK, Turns

LEMMA GoesOK ==
  ASSUME CallOK, WhoOK, NEW w \in Tasks, NEW pc \in Step, Goes(w, pc)
  PROVE  CallOK' /\ WhoOK'
<1>1. call[w] \in Call
  BY DEF CallOK
<1> QED
  BY <1>1, SetPc, TurnsOK DEF Goes, WhoOK

LEMMA HandledOK ==
  ASSUME CallOK, WhoOK, NEW w \in Tasks, NEW facts \in SUBSET {"paid", "expired", "refunded"},
         Handled(w, facts)
  PROVE  CallOK' /\ WhoOK'
BY IdleOK, TurnsOK DEF WhoOK, Handled, Lets

LEMMA FailsOK ==
  ASSUME CallOK, WhoOK, NEW w \in Tasks, Fails(w)
  PROVE  CallOK' /\ WhoOK'
BY HandledOK DEF Fails

LEMMA AfterResumeOK ==
  ASSUME CallOK, WhoOK, NEW w \in Tasks, AfterResume(w)
  PROVE  CallOK' /\ WhoOK'
<1>1. [call[w] EXCEPT !.pc = "mutate", !.sent = 0] \in Call
  BY SetSent, Values DEF CallOK, Step
<1>2. CASE call[w].op = "comment"
  BY <1>1, <1>2, TurnsOK DEF AfterResume, WhoOK, Lets
<1>3. CASE call[w].op # "comment"
  BY <1>3, HandledOK DEF AfterResume
<1> QED
  BY <1>2, <1>3

LEMMA GivesUpOK ==
  ASSUME CallOK, WhoOK, NEW w \in Tasks, GivesUp(w)
  PROVE  CallOK' /\ WhoOK'
<1>1. [call[w] EXCEPT !.pc = "release", !.failed = TRUE] \in Call
  BY SetFailed DEF CallOK, Step
<1>2. CASE call[w].op = "sweep"
  BY <1>2, FailsOK DEF GivesUp
<1>3. CASE call[w].op # "sweep"
  BY <1>1, <1>3, TurnsOK DEF GivesUp, WhoOK
<1> QED
  BY <1>2, <1>3

LEMMA MovedOK ==
  ASSUME RowOK, NEW from \in State, NEW to \in State, row' = Moved(from, to)
  PROVE  RowOK'
BY DEF RowOK, Moved, State

LEMMA FaultsOK ==
  ASSUME LeftOK, Works \/ Faults
  PROVE  LeftOK'
BY ErpAssumption DEF LeftOK, Works, Faults

LEMMA SteadyOK ==
  ASSUME CartOK, OrdersOK, LeftOK, Steady
  PROVE  CartOK' /\ OrdersOK' /\ LeftOK'
BY DEF Steady, CartOK, OrdersOK, LeftOK

LEMMA Kept ==
  /\ UNCHANGED row => (RowOK => RowOK')
  /\ UNCHANGED cart => (CartOK => CartOK')
  /\ UNCHANGED orders => (OrdersOK => OrdersOK')
  /\ UNCHANGED left => (LeftOK => LeftOK')
  /\ UNCHANGED <<lock, turn, done>> => (WhoOK => WhoOK')
  /\ UNCHANGED call => (CallOK => CallOK')
BY DEF RowOK, CartOK, OrdersOK, LeftOK, WhoOK, CallOK

----------------------------------------------------------------------------
(* The history only grows. *)

LEMMA RacedStep ==
  ASSUME [Next]_vars
  PROVE  raced \subseteq raced' /\ (RacedOK => RacedOK')
<1>1. \/ raced' = raced
      \/ \E s \in {"slow", "paid", "late"} : raced' = raced \cup {s}
  <2>1. CASE UNCHANGED vars
    BY <2>1 DEF vars
  <2>2. CASE CartIsPaid \/ CartIsRefunded \/ CartExpires \/ Ages \/ Crashes \/ ConfirmSkips
    BY <2>2 DEF CartIsPaid, CartIsRefunded, CartExpires, Ages, Crashes, ConfirmSkips, Notes
  <2>3. ASSUME NEW w \in Tasks, BuyerAdds(w) \/ Recovers(w) \/ Reactors(w) \/ Sweeps(w)
        PROVE  raced' = raced \/ raced' = raced \cup {"paid"}
    BY <2>3 DEF BuyerAdds, Recovers, Reactors, ConfirmStarts, ExpireStarts, RefundStarts, Sweeps,
                Notes, Steady
  <2>4. ASSUME NEW w \in Tasks, Proceeds(w)
        PROVE  raced' = raced \/ raced' = raced \cup {"late"}
    BY <2>4 DEF Proceeds, Routes, Claims, Resumes, Adopts, Composes, LooksUp, Posts, Binds, Opens,
                Mutates, ReadsGrid, PutsGrid, Releases, Rechecks, Takes, Approves, Settles, Leaves,
                Drops, Cancels, Undoes, Notes, Steady
  <2> QED
    BY <2>1, <2>2, <2>3, <2>4 DEF Next
<1> QED
  BY <1>1 DEF RacedOK

(* Types. *)

LEMMA CartTypeStep ==
  ASSUME TypeOK, RacedOK',
         \/ CartIsPaid \/ CartIsRefunded \/ CartExpires \/ Ages \/ Crashes \/ ConfirmSkips
  PROVE  TypeOK'
<1>1. ASSUME CartIsPaid \/ CartIsRefunded \/ CartExpires PROVE TypeOK'
  <2>1. CartOK'
    BY <1>1, Parts DEF CartIsPaid, CartIsRefunded, CartExpires, CartOK
  <2> QED
    BY <1>1, <2>1, Parts, PartsNext, Kept DEF CartIsPaid, CartIsRefunded, CartExpires
<1>2. ASSUME Ages PROVE TypeOK'
  <2>1. RowOK'
    BY <1>2, Parts DEF Ages, RowOK
  <2> QED
    BY <1>2, <2>1, Parts, PartsNext, Kept DEF Ages
<1>3. ASSUME ConfirmSkips PROVE TypeOK'
  <2>1. WhoOK'
    BY <1>3, Parts DEF ConfirmSkips, WhoOK
  <2> QED
    BY <1>3, <2>1, Parts, PartsNext, Kept DEF ConfirmSkips
<1>4. ASSUME Crashes PROVE TypeOK'
  <2>1. CallOK'
    BY <1>4, IdleOK DEF Crashes, CallOK
  <2>2. WhoOK'
    BY <1>4, Parts DEF Crashes, WhoOK
  <2>3. LeftOK'
    BY <1>4, Parts, ErpAssumption DEF Crashes, LeftOK
  <2> QED
    BY <1>4, <2>1, <2>2, <2>3, Parts, PartsNext, Kept DEF Crashes
<1> QED
  BY <1>1, <1>2, <1>3, <1>4

LEMMA CommentTypeStep ==
  ASSUME TypeOK, RacedOK', NEW w \in Tasks, BuyerAdds(w) \/ Recovers(w)
  PROVE  TypeOK'
<1>1. ASSUME BuyerAdds(w) PROVE TypeOK'
  <2>1. [Idle EXCEPT !.op = "comment", !.pc = "route"] \in Call
    BY New, Values DEF Op, Step
  <2>2. CallOK'
    BY <1>1, <2>1, TurnsOK, Parts DEF BuyerAdds, Starts
  <2>3. CartOK'
    <3>1. cart.grid + 1 \in Grids
      BY <1>1, Parts, ErpAssumption DEF BuyerAdds, CartOK, Grids
    <3> QED
      BY <1>1, <3>1, Parts DEF BuyerAdds, CartOK
  <2> QED
    BY <1>1, <2>2, <2>3, Parts, PartsNext, Kept DEF BuyerAdds
<1>2. ASSUME Recovers(w) PROVE TypeOK'
  <2>1. [Idle EXCEPT !.op = "comment", !.pc = "route"] \in Call
    BY New, Values DEF Op, Step
  <2>2. CallOK'
    BY <1>2, <2>1, TurnsOK, Parts DEF Recovers, Starts
  <2> QED
    BY <1>2, <2>2, Parts, PartsNext, Kept DEF Recovers
<1> QED
  BY <1>1, <1>2

LEMMA CreationTypeStep ==
  ASSUME TypeOK, RacedOK', NEW w \in Tasks,
         \/ Routes(w) \/ Claims(w) \/ Resumes(w) \/ Adopts(w) \/ Composes(w) \/ LooksUp(w)
         \/ Posts(w) \/ Binds(w) \/ Opens(w)
  PROVE  TypeOK'
<1>0. /\ RowOK /\ CartOK /\ OrdersOK /\ WhoOK /\ CallOK /\ LeftOK
      /\ call[w] \in Call /\ row.ext \in Ids \cup {0} /\ cart.grid \in Grids
  BY Parts, RowFields DEF CallOK, CartOK
<1>1. ASSUME Routes(w) PROVE TypeOK'
  <2>1. CASE \E pc \in {"claim", "mutate"} : Goes(w, pc)
    BY <1>0, <1>1, <2>1, GoesOK, SteadyOK, Kept, PartsNext DEF Routes, Step
  <2>2. CASE Fails(w)
    BY <1>0, <1>1, <2>2, FailsOK, SteadyOK, Kept, PartsNext DEF Routes
  <2>3. CASE Turns(w, [call[w] EXCEPT !.pc = "open", !.ext = row.ext])
             /\ UNCHANGED <<lock, turn, done>>
    <3>1. CallOK' /\ WhoOK'
      BY <1>0, <2>3, SetExt, TurnsOK, Kept DEF Step
    <3> QED
      BY <1>0, <1>1, <3>1, SteadyOK, Kept, PartsNext DEF Routes
  <2>4. CASE lock' = w /\ Turns(w, [call[w] EXCEPT !.pc = "resume"]) /\ UNCHANGED <<turn, done>>
    <3>1. CallOK' /\ WhoOK'
      BY <1>0, <2>4, SetPc, TurnsOK DEF Step, WhoOK
    <3> QED
      BY <1>0, <1>1, <3>1, SteadyOK, Kept, PartsNext DEF Routes
  <2> QED
    BY <1>1, <2>1, <2>2, <2>3, <2>4 DEF Routes
<1>2. ASSUME Claims(w) PROVE TypeOK'
  <2>1. RowOK'
    BY <1>0, <1>2, MovedOK, Values DEF Claims
  <2>2. CallOK' /\ WhoOK'
    BY <1>0, <1>2, GoesOK, FailsOK DEF Claims, Step
  <2> QED
    BY <1>0, <1>2, <2>1, <2>2, SteadyOK, PartsNext DEF Claims
<1>3. ASSUME Resumes(w) PROVE TypeOK'
  <2>1. \A pc \in {"open", "adopt"} : [call[w] EXCEPT !.pc = pc, !.ext = row.ext] \in Call
    BY <1>0, SetExt DEF Step
  <2>2. CallOK' /\ WhoOK'
    BY <1>0, <1>3, <2>1, TurnsOK, AfterResumeOK, Kept DEF Resumes
  <2> QED
    BY <1>0, <1>3, <2>2, SteadyOK, Kept, PartsNext DEF Resumes
<1>4. ASSUME Adopts(w) PROVE TypeOK'
  <2>1. \A o \in Anchored : [call[w] EXCEPT !.pc = "open", !.ext = o] \in Call
    BY <1>0, SetExt DEF Step, Anchored, Made
  <2>2. RowOK'
    BY <1>0, <1>4 DEF Adopts, RowOK, Anchored, Made
  <2>3. CallOK' /\ WhoOK'
    BY <1>0, <1>4, <2>1, TurnsOK, GoesOK, FailsOK, Kept DEF Adopts, Step
  <2>4. LeftOK'
    BY <1>0, <1>4, FaultsOK DEF Adopts
  <2> QED
    BY <1>0, <1>4, <2>2, <2>3, <2>4, Kept, PartsNext DEF Adopts
<1>5. ASSUME Composes(w) PROVE TypeOK'
  <2>1. [call[w] EXCEPT !.pc = "lookup", !.sent = cart.grid] \in Call
    BY <1>0, SetSent DEF Step
  <2>2. CallOK' /\ WhoOK'
    BY <1>0, <1>5, <2>1, TurnsOK DEF Composes, WhoOK
  <2> QED
    BY <1>0, <1>5, <2>2, SteadyOK, Kept, PartsNext DEF Composes
<1>6. ASSUME LooksUp(w) PROVE TypeOK'
  <2>1. \A o \in Ids \cup {0}, pc \in {"post", "bind"} :
           [call[w] EXCEPT !.pc = pc, !.ext = o] \in Call
    BY <1>0, SetExt DEF Step
  <2>2. (IF Anchored = {} THEN {0} ELSE Anchored) \subseteq Ids \cup {0}
    BY DEF Anchored, Made
  <2>3. CallOK' /\ WhoOK'
    <3>1. CASE Fails(w)
      BY <1>0, <3>1, FailsOK
    <3>2. CASE UNCHANGED <<lock, turn, done>> /\ \E o \in Ids \cup {0} :
                 Turns(w, [call[w] EXCEPT !.pc = IF o = 0 THEN "post" ELSE "bind", !.ext = o])
      <4>1. PICK o \in Ids \cup {0} :
               Turns(w, [call[w] EXCEPT !.pc = IF o = 0 THEN "post" ELSE "bind", !.ext = o])
        BY <3>2
      <4>2. [call[w] EXCEPT !.pc = IF o = 0 THEN "post" ELSE "bind", !.ext = o] \in Call
        BY <2>1
      <4> QED
        BY <1>0, <3>2, <4>1, <4>2, TurnsOK, Kept
    <3> QED
      BY <1>6, <2>2, <3>1, <3>2 DEF LooksUp
  <2>4. LeftOK'
    BY <1>0, <1>6, FaultsOK DEF LooksUp
  <2> QED
    BY <1>0, <1>6, <2>3, <2>4, Kept, PartsNext DEF LooksUp
<1>7. ASSUME Posts(w) PROVE TypeOK'
  <2>1. \A o \in Ids : [call[w] EXCEPT !.pc = "bind", !.ext = o] \in Call
    BY <1>0, SetExt DEF Step
  <2>2. OrdersOK'
    <3>1. call[w].sent \in Grids
      BY <1>0, CallFields
    <3>2. \A o \in Ids : [orders EXCEPT ![o] = [status |-> "open", held |-> call[w].sent]]
                 \in [Ids -> [status : {"none", "open", "approved", "cancelled"}, held : Grids]]
      BY <1>0, <3>1 DEF OrdersOK
    <3>3. UNCHANGED orders \/ \E o \in Ids :
             orders' = [orders EXCEPT ![o] = [status |-> "open", held |-> call[w].sent]]
      BY <1>7 DEF Posts
    <3> QED
      BY <1>0, <3>2, <3>3 DEF OrdersOK
  <2>3. CallOK' /\ WhoOK'
    BY <1>0, <1>7, <2>1, TurnsOK, FailsOK, Kept DEF Posts
  <2>4. LeftOK'
    BY <1>0, <1>7, FaultsOK DEF Posts
  <2> QED
    BY <1>0, <1>7, <2>2, <2>3, <2>4, Kept, PartsNext DEF Posts
<1>8. ASSUME Binds(w) PROVE TypeOK'
  <2>1. RowOK'
    <3>1. call[w].ext \in Ids \cup {0}
      BY <1>0, CallFields
    <3> QED
      BY <1>0, <1>8, <3>1 DEF Binds, RowOK
  <2>2. CallOK' /\ WhoOK'
    BY <1>0, <1>8, SetPc, TurnsOK DEF Binds, Step, WhoOK, Lets
  <2> QED
    BY <1>0, <1>8, <2>1, <2>2, SteadyOK, PartsNext DEF Binds
<1>9. ASSUME Opens(w) PROVE TypeOK'
  <2>1. RowOK'
    BY <1>0, <1>9, MovedOK, Values DEF Opens
  <2>2. CallOK' /\ WhoOK'
    BY <1>0, <1>9, GoesOK, AfterResumeOK DEF Opens, Step
  <2> QED
    BY <1>0, <1>9, <2>1, <2>2, SteadyOK, PartsNext DEF Opens
<1> QED
  BY <1>1, <1>2, <1>3, <1>4, <1>5, <1>6, <1>7, <1>8, <1>9

LEMMA MutationTypeStep ==
  ASSUME TypeOK, RacedOK', NEW w \in Tasks,
         Mutates(w) \/ ReadsGrid(w) \/ PutsGrid(w) \/ Releases(w) \/ Rechecks(w)
  PROVE  TypeOK'
<1>0. /\ RowOK /\ CartOK /\ OrdersOK /\ WhoOK /\ CallOK /\ LeftOK
      /\ call[w] \in Call /\ row.ext \in Ids \cup {0} /\ row.state \in State
      /\ cart.grid \in Grids /\ call[w].grid \in Grids /\ call[w].home \in State
  BY Parts, RowFields, CallFields DEF CallOK, CartOK
<1>1. ASSUME Mutates(w) PROVE TypeOK'
  <2>1. [call[w] EXCEPT !.pc = "grid", !.ext = row.ext, !.home = row.state] \in Call
    BY <1>0, SetHome DEF Step
  <2>2. CallOK' /\ WhoOK'
    BY <1>0, <1>1, <2>1, TurnsOK, FailsOK, Kept DEF Mutates
  <2>3. RowOK'
    BY <1>0, <1>1, MovedOK, Values, Kept DEF Mutates
  <2> QED
    BY <1>0, <1>1, <2>2, <2>3, SteadyOK, PartsNext DEF Mutates
<1>2. ASSUME ReadsGrid(w) PROVE TypeOK'
  <2>1. [call[w] EXCEPT !.pc = "put", !.grid = cart.grid] \in Call
    BY <1>0, SetGrid DEF Step
  <2>2. CallOK' /\ WhoOK'
    BY <1>0, <1>2, <2>1, TurnsOK, GoesOK, Kept DEF ReadsGrid, Step
  <2>3. CartOK'
    BY <1>0, <1>2 DEF ReadsGrid, CartOK
  <2> QED
    BY <1>0, <1>2, <2>2, <2>3, Kept, PartsNext DEF ReadsGrid
<1>3. ASSUME PutsGrid(w) PROVE TypeOK'
  <2>1. [call[w] EXCEPT !.pc = "grid", !.sent = call[w].grid] \in Call
    BY <1>0, SetSent DEF Step
  <2>2. CallOK' /\ WhoOK'
    BY <1>0, <1>3, <2>1, TurnsOK, GivesUpOK, Kept DEF PutsGrid
  <2>3. OrdersOK'
    BY <1>0, <1>3 DEF PutsGrid, OrdersOK
  <2>4. CartOK'
    BY <1>0, <1>3 DEF PutsGrid, Acknowledged, CartOK
  <2>5. LeftOK'
    BY <1>0, <1>3, FaultsOK DEF PutsGrid
  <2> QED
    BY <1>0, <1>3, <2>2, <2>3, <2>4, <2>5, Kept, PartsNext DEF PutsGrid
<1>4. ASSUME Releases(w) PROVE TypeOK'
  <2>1. RowOK'
    BY <1>0, <1>4, MovedOK, Values DEF Releases
  <2>2. CallOK' /\ WhoOK'
    BY <1>0, <1>4, GoesOK, FailsOK DEF Releases, Step
  <2> QED
    BY <1>0, <1>4, <2>1, <2>2, SteadyOK, PartsNext DEF Releases
<1>5. ASSUME Rechecks(w) PROVE TypeOK'
  <2>1. CallOK' /\ WhoOK'
    BY <1>0, <1>5, GoesOK, HandledOK, AfterResumeOK DEF Rechecks, Step
  <2> QED
    BY <1>0, <1>5, <2>1, SteadyOK, Kept, PartsNext DEF Rechecks
<1> QED
  BY <1>1, <1>2, <1>3, <1>4, <1>5

LEMMA ConfirmTypeStep ==
  ASSUME TypeOK, RacedOK', NEW w \in Tasks,
         ConfirmStarts(w) \/ Takes(w) \/ Approves(w) \/ Settles(w) \/ Leaves(w)
  PROVE  TypeOK'
<1>0. /\ RowOK /\ CartOK /\ OrdersOK /\ WhoOK /\ CallOK /\ LeftOK
      /\ call[w] \in Call /\ row.ext \in Ids \cup {0}
  BY Parts, RowFields DEF CallOK
<1>1. ASSUME ConfirmStarts(w) PROVE TypeOK'
  <2>1. \A pc \in {"claim", "open", "adopt", "take"} :
           [Idle EXCEPT !.op = "confirm", !.pc = pc, !.ext = row.ext] \in Call
    <3>1. "confirm" \in Op /\ {"claim", "open", "adopt", "take"} \subseteq Step
      BY DEF Op, Step
    <3> QED
      BY <1>0, <3>1, NewExt
  <2>2. CallOK' /\ WhoOK'
    <3>1. CASE Handled(w, {"paid"})
      BY <1>0, <3>1, HandledOK
    <3>2. CASE ~Handled(w, {"paid"})
      <4>1. PICK pc \in {"claim", "open", "adopt", "take"} :
               Turns(w, [Idle EXCEPT !.op = "confirm", !.pc = pc, !.ext = row.ext])
        BY <1>1, <3>2 DEF ConfirmStarts
      <4>2. lock' = w /\ UNCHANGED <<turn, done>>
        BY <1>1, <3>2 DEF ConfirmStarts
      <4> QED
        BY <1>0, <2>1, <4>1, <4>2, TurnsOK DEF WhoOK
    <3> QED
      BY <3>1, <3>2
  <2> QED
    BY <1>0, <1>1, <2>2, SteadyOK, Kept, PartsNext DEF ConfirmStarts
<1>2. ASSUME Takes(w) PROVE TypeOK'
  <2>1. [call[w] EXCEPT !.op = "approve", !.pc = "grid", !.ext = row.ext, !.sent = 0,
                        !.home = "open"] \in Call
    <3>1. "approve" \in Op /\ "grid" \in Step
      BY DEF Op, Step
    <3> QED
      BY <1>0, <3>1, SetApprove, Values
  <2>2. CallOK' /\ WhoOK'
    BY <1>0, <1>2, <2>1, TurnsOK, HandledOK, Kept DEF Takes
  <2>3. RowOK'
    BY <1>0, <1>2, MovedOK, Values, Kept DEF Takes
  <2> QED
    BY <1>0, <1>2, <2>2, <2>3, SteadyOK, PartsNext DEF Takes
<1>3. ASSUME Approves(w) PROVE TypeOK'
  <2>1. CallOK' /\ WhoOK'
    BY <1>0, <1>3, GoesOK, GivesUpOK DEF Approves, Step
  <2>2. OrdersOK'
    BY <1>0, <1>3 DEF Approves, OrdersOK
  <2>3. LeftOK'
    BY <1>0, <1>3, FaultsOK DEF Approves
  <2> QED
    BY <1>0, <1>3, <2>1, <2>2, <2>3, Kept, PartsNext DEF Approves
<1>4. ASSUME Settles(w) PROVE TypeOK'
  <2>1. CallOK' /\ WhoOK'
    BY <1>0, <1>4, SetFailed, TurnsOK, Kept DEF Settles, Step
  <2>2. RowOK'
    BY <1>0, <1>4, MovedOK, Values DEF Settles
  <2> QED
    BY <1>0, <1>4, <2>1, <2>2, SteadyOK, PartsNext DEF Settles
<1>5. ASSUME Leaves(w) PROVE TypeOK'
  <2>1. CallOK' /\ WhoOK'
    BY <1>0, <1>5, HandledOK DEF Leaves
  <2>2. RowOK'
    BY <1>0, <1>5, MovedOK, Values DEF Leaves
  <2> QED
    BY <1>0, <1>5, <2>1, <2>2, Kept, PartsNext DEF Leaves
<1> QED
  BY <1>1, <1>2, <1>3, <1>4, <1>5

LEMMA CancelTypeStep ==
  ASSUME TypeOK, RacedOK', NEW w \in Tasks,
         \/ ExpireStarts(w) \/ Drops(w) \/ RefundStarts(w) \/ Cancels(w) \/ Undoes(w) \/ Sweeps(w)
  PROVE  TypeOK'
<1>0. /\ RowOK /\ CartOK /\ OrdersOK /\ WhoOK /\ CallOK /\ LeftOK
      /\ call[w] \in Call /\ row.ext \in Ids \cup {0} /\ row.state \in State
      /\ row.rest \in State /\ call[w].home \in State
  BY Parts, RowFields, CallFields DEF CallOK
<1>1. ASSUME NEW op \in {"expire", "refund"}, Withdraws(w, op) PROVE CallOK' /\ WhoOK' /\ RowOK'
  <2>1. [Idle EXCEPT !.op = op, !.pc = "withdraw", !.ext = row.ext, !.home = row.state] \in Call
    <3>1. op \in Op /\ "withdraw" \in Step
      BY DEF Op, Step
    <3> QED
      BY <1>0, <3>1, NewHome
  <2> QED
    BY <1>0, <1>1, <2>1, TurnsOK, MovedOK, Values DEF Withdraws, WhoOK
<1>2. ASSUME ExpireStarts(w) PROVE TypeOK'
  <2>1. [Idle EXCEPT !.op = "expire", !.pc = "drop"] \in Call
    BY New, Values DEF Op, Step
  <2>2. CallOK' /\ WhoOK' /\ RowOK'
    <3>1. CASE Handled(w, {"expired"}) /\ UNCHANGED row
      BY <1>0, <3>1, HandledOK, Kept
    <3>2. CASE Turns(w, [Idle EXCEPT !.op = "expire", !.pc = "drop"]) /\ lock' = w
               /\ UNCHANGED <<row, turn, done>>
      BY <1>0, <2>1, <3>2, TurnsOK, Kept DEF WhoOK
    <3> QED
      BY <1>1, <1>2, <3>1, <3>2 DEF ExpireStarts
  <2> QED
    BY <1>0, <1>2, <2>2, SteadyOK, PartsNext DEF ExpireStarts
<1>3. ASSUME RefundStarts(w) PROVE TypeOK'
  <2>1. CallOK' /\ WhoOK' /\ RowOK'
    BY <1>0, <1>1, <1>3, HandledOK, Kept DEF RefundStarts
  <2> QED
    BY <1>0, <1>3, <2>1, SteadyOK, PartsNext DEF RefundStarts
<1>4. ASSUME Drops(w) PROVE TypeOK'
  <2>1. CallOK' /\ WhoOK' /\ RowOK'
    BY <1>0, <1>4, HandledOK, MovedOK, Values DEF Drops
  <2> QED
    BY <1>0, <1>4, <2>1, SteadyOK, PartsNext DEF Drops
<1>5. ASSUME Cancels(w) PROVE TypeOK'
  <2>1. Subject(w) \in SUBSET {"paid", "expired", "refunded"}
    BY DEF Subject
  <2>2. CallOK' /\ WhoOK'
    BY <1>0, <1>5, <2>1, HandledOK, GoesOK DEF Cancels, Step
  <2>3. OrdersOK'
    BY <1>0, <1>5, Values DEF Cancels, OrdersOK
  <2>4. LeftOK'
    BY <1>0, <1>5, FaultsOK DEF Cancels
  <2> QED
    BY <1>0, <1>5, <2>2, <2>3, <2>4, Kept, PartsNext DEF Cancels
<1>6. ASSUME Undoes(w) PROVE TypeOK'
  <2>1. CallOK' /\ WhoOK' /\ RowOK'
    BY <1>0, <1>6, FailsOK, MovedOK, Values DEF Undoes
  <2> QED
    BY <1>0, <1>6, <2>1, SteadyOK, PartsNext DEF Undoes
<1>7. ASSUME Sweeps(w) PROVE TypeOK'
  <2>1. \A op \in {"sweep", "resume"}, pc \in {"grid", "open", "resume"} :
           [Idle EXCEPT !.op = op, !.pc = pc, !.ext = row.ext, !.home = row.rest] \in Call
    <3>1. {"sweep", "resume"} \subseteq Op /\ {"grid", "open", "resume"} \subseteq Step
      BY DEF Op, Step
    <3> QED
      BY <1>0, <3>1, NewHome
  <2>2. CallOK' /\ WhoOK'
    BY <1>0, <1>7, <2>1, TurnsOK DEF Sweeps, WhoOK
  <2> QED
    BY <1>0, <1>7, <2>2, SteadyOK, Kept, PartsNext DEF Sweeps
<1> QED
  BY <1>2, <1>3, <1>4, <1>5, <1>6, <1>7

LEMMA TypeStep == TypeOK /\ [Next]_vars => TypeOK'
<1> SUFFICES ASSUME TypeOK, [Next]_vars PROVE TypeOK'
  OBVIOUS
<1>1. CASE UNCHANGED vars
  BY <1>1 DEF vars, TypeOK
<1>2. CASE Next
  <2>1. RacedOK'
    BY RacedStep, Parts
  <2> QED
    BY <1>2, <2>1, CartTypeStep, CommentTypeStep, CreationTypeStep, MutationTypeStep,
       ConfirmTypeStep, CancelTypeStep DEF Next, Proceeds, Reactors
<1> QED
  BY <1>1, <1>2

\* Every variable keeps its type in every behaviour.
THEOREM TypeCorrect == Spec => []TypeOK
<1>1. Init => TypeOK
  <2> SUFFICES ASSUME Init PROVE TypeOK
    OBVIOUS
  <2>1. RowOK /\ CartOK /\ OrdersOK
    BY Values DEF Init, RowOK, CartOK, OrdersOK
  <2>2. WhoOK /\ CallOK /\ LeftOK /\ RacedOK
    BY IdleOK, ErpAssumption DEF Init, WhoOK, CallOK, LeftOK, RacedOK
  <2> QED
    BY <2>1, <2>2, Parts
<1> QED
  BY <1>1, TypeStep, PTL DEF Spec

----------------------------------------------------------------------------
(* One order for a cart. *)

OneMade == \A o, p \in Made : o = p

\* The search and the POST are in the cart's turn, and the POST follows a
\* search that found nothing.
InTurn == \A w \in Tasks :
  /\ call[w].pc \in {"lookup", "post"} => turn = w
  /\ call[w].pc = "post" => Made = {}

\* Whoever names an order names one that was made.
Named == /\ row.ext \in Made \cup {0}
         /\ \A w \in Tasks : call[w].ext \in Made \cup {0}

SingleOrder == OneMade /\ InTurn /\ Named

\* What a handler's step outside the creation does to its call and the turn.
Ordinary(w) == \E c \in Call :
  /\ Turns(w, c)
  /\ c.pc \notin {"lookup", "post"} /\ c.ext \in Made \cup {0}
  /\ turn' = turn \/ turn' = Lets(turn, w)

LEMMA OrdinaryStep ==
  ASSUME TypeOK, SingleOrder, NEW w \in Tasks, Ordinary(w), Made' = Made,
         row'.ext \in Made \cup {0}
  PROVE  SingleOrder'
<1>1. PICK c \in Call : /\ Turns(w, c)
                        /\ c.pc \notin {"lookup", "post"} /\ c.ext \in Made \cup {0}
                        /\ turn' = turn \/ turn' = Lets(turn, w)
  BY DEF Ordinary
<1>2. /\ call'[w] = c /\ \A v \in Tasks \ {w} : call'[v] = call[v]
  BY <1>1, Parts DEF Turns, CallOK
<1>3. \A v \in Tasks \ {w} : turn = v => turn' = v
  BY <1>1 DEF Lets
<1>4. OneMade'
  BY DEF SingleOrder, OneMade
<1>5. InTurn'
  BY <1>1, <1>2, <1>3 DEF SingleOrder, InTurn
<1>6. Named'
  BY <1>1, <1>2 DEF SingleOrder, Named
<1> QED
  BY <1>4, <1>5, <1>6 DEF SingleOrder

LEMMA GoesOrdinary ==
  ASSUME TypeOK, SingleOrder, NEW w \in Tasks, NEW pc \in Step \ {"lookup", "post"}, Goes(w, pc)
  PROVE  Ordinary(w)
<1>1. call[w] \in Call /\ call[w].ext \in Made \cup {0}
  BY Parts DEF CallOK, SingleOrder, Named
<1>2. /\ [call[w] EXCEPT !.pc = pc] \in Call
      /\ [call[w] EXCEPT !.pc = pc].pc = pc
      /\ [call[w] EXCEPT !.pc = pc].ext = call[w].ext
  BY <1>1, SetPc DEF Call
<1> QED
  BY <1>1, <1>2 DEF Goes, Ordinary

LEMMA HandledOrdinary ==
  ASSUME NEW w \in Tasks, NEW facts, Handled(w, facts)
  PROVE  Ordinary(w)
<1>1. Idle \in Call /\ Idle.pc = "idle" /\ Idle.ext = 0
  BY IdleOK DEF Idle
<1> QED
  BY <1>1 DEF Handled, Ordinary

LEMMA FailsOrdinary ==
  ASSUME NEW w \in Tasks, Fails(w)
  PROVE  Ordinary(w)
BY HandledOrdinary DEF Fails

LEMMA AfterResumeOrdinary ==
  ASSUME TypeOK, SingleOrder, NEW w \in Tasks, AfterResume(w)
  PROVE  Ordinary(w)
<1>1. call[w] \in Call /\ call[w].ext \in Made \cup {0}
  BY Parts DEF CallOK, SingleOrder, Named
<1>2. CASE call[w].op = "comment"
  <2> DEFINE c == [call[w] EXCEPT !.pc = "mutate", !.sent = 0]
  <2>1. c \in Call /\ c.pc = "mutate" /\ c.ext = call[w].ext
    <3>1. "mutate" \in Step
      BY DEF Step
    <3>2. c \in Call
      BY <1>1, <3>1, SetSent, Values
    <3> QED
      BY <1>1, <3>2 DEF Call
  <2>2. Turns(w, c) /\ turn' = turn
    BY <1>2 DEF AfterResume
  <2> QED
    BY <1>1, <2>1, <2>2 DEF Ordinary
<1>3. CASE call[w].op # "comment"
  BY <1>3, HandledOrdinary DEF AfterResume
<1> QED
  BY <1>2, <1>3

LEMMA GivesUpOrdinary ==
  ASSUME TypeOK, SingleOrder, NEW w \in Tasks, GivesUp(w)
  PROVE  Ordinary(w)
<1>1. call[w] \in Call /\ call[w].ext \in Made \cup {0}
  BY Parts DEF CallOK, SingleOrder, Named
<1>2. CASE call[w].op = "sweep"
  BY <1>2, FailsOrdinary DEF GivesUp
<1>3. CASE call[w].op # "sweep"
  <2> DEFINE c == [call[w] EXCEPT !.pc = "release", !.failed = TRUE]
  <2>1. c \in Call /\ c.pc = "release" /\ c.ext = call[w].ext
    <3>1. "release" \in Step
      BY DEF Step
    <3>2. c \in Call
      BY <1>1, <3>1, SetFailed
    <3> QED
      BY <1>1, <3>2 DEF Call
  <2>2. Turns(w, c) /\ turn' = turn
    BY <1>3 DEF GivesUp
  <2> QED
    BY <1>1, <2>1, <2>2 DEF Ordinary
<1> QED
  BY <1>2, <1>3

\* A handler that starts, or takes up the order of the row.
LEMMA TurnsOrdinary ==
  ASSUME NEW w \in Tasks, NEW c \in Call, Turns(w, c), turn' = turn,
         c.pc \notin {"lookup", "post"}, c.ext \in Made \cup {0}
  PROVE  Ordinary(w)
BY DEF Ordinary

LEMMA MovedExt ==
  ASSUME RowOK, NEW from, NEW to, row' = Moved(from, to)
  PROVE  row'.ext = row.ext
BY DEF Moved, RowOK

LEMMA SameMade == UNCHANGED orders => Made' = Made
BY DEF Made

LEMMA CartSingle ==
  ASSUME TypeOK, SingleOrder,
         \/ CartIsPaid \/ CartIsRefunded \/ CartExpires \/ Ages \/ Crashes \/ ConfirmSkips
  PROVE  SingleOrder'
<1>1. ASSUME CartIsPaid \/ CartIsRefunded \/ CartExpires \/ ConfirmSkips PROVE SingleOrder'
  BY <1>1 DEF CartIsPaid, CartIsRefunded, CartExpires, ConfirmSkips, SingleOrder, OneMade, InTurn,
              Named, Made
<1>2. ASSUME Ages PROVE SingleOrder'
  <2>1. row'.ext = row.ext /\ UNCHANGED <<orders, turn, call>>
    BY <1>2, Parts DEF Ages, RowOK
  <2> QED
    BY <2>1 DEF SingleOrder, OneMade, InTurn, Named, Made
<1>3. ASSUME Crashes PROVE SingleOrder'
  <2>1. \A w \in Tasks : call'[w].pc = "idle" /\ call'[w].ext = 0
    BY <1>3 DEF Crashes, Idle
  <2>2. UNCHANGED <<orders, row>>
    BY <1>3 DEF Crashes
  <2> QED
    BY <2>1, <2>2 DEF SingleOrder, OneMade, InTurn, Named, Made
<1> QED
  BY <1>1, <1>2, <1>3

LEMMA StartSingle ==
  ASSUME TypeOK, SingleOrder, NEW w \in Tasks,
         \/ BuyerAdds(w) \/ Recovers(w) \/ Sweeps(w) \/ ConfirmStarts(w)
  PROVE  SingleOrder'
<1>0. RowOK /\ row.ext \in Made \cup {0} /\ row.ext \in Ids \cup {0} /\ row.rest \in State
  BY Parts, RowFields DEF SingleOrder, Named
<1>1. UNCHANGED <<row, orders>>
  BY DEF BuyerAdds, Recovers, Sweeps, ConfirmStarts, Steady
<1>2. SUFFICES Ordinary(w)
  BY <1>0, <1>1, <1>2, SameMade, OrdinaryStep
<1>3. ASSUME BuyerAdds(w) \/ Recovers(w) PROVE Ordinary(w)
  <2> DEFINE c == [Idle EXCEPT !.op = "comment", !.pc = "route"]
  <2>1. c \in Call /\ c.pc = "route" /\ c.ext = 0
    <3>1. "comment" \in Op /\ "route" \in Step
      BY DEF Op, Step
    <3> QED
      BY <3>1, New DEF Idle
  <2>2. Turns(w, c) /\ turn' = turn
    BY <1>3 DEF BuyerAdds, Recovers, Starts
  <2> QED
    BY <2>1, <2>2, TurnsOrdinary
<1>4. ASSUME Sweeps(w) PROVE Ordinary(w)
  <2>1. PICK op \in {"sweep", "resume"}, pc \in {"grid", "open", "resume"} :
           Turns(w, [Idle EXCEPT !.op = op, !.pc = pc, !.ext = row.ext, !.home = row.rest])
    BY <1>4 DEF Sweeps
  <2> DEFINE c == [Idle EXCEPT !.op = op, !.pc = pc, !.ext = row.ext, !.home = row.rest]
  <2>2. c \in Call /\ c.pc = pc /\ c.ext = row.ext
    <3>1. op \in Op /\ pc \in Step
      BY DEF Op, Step
    <3> QED
      BY <1>0, <3>1, NewHome DEF Idle
  <2>3. turn' = turn
    BY <1>4 DEF Sweeps
  <2> QED
    BY <1>0, <2>1, <2>2, <2>3, TurnsOrdinary
<1>5. ASSUME ConfirmStarts(w) PROVE Ordinary(w)
  <2>1. CASE Handled(w, {"paid"})
    BY <2>1, HandledOrdinary
  <2>2. CASE ~Handled(w, {"paid"})
    <3>1. PICK pc \in {"claim", "open", "adopt", "take"} :
             Turns(w, [Idle EXCEPT !.op = "confirm", !.pc = pc, !.ext = row.ext])
      BY <1>5, <2>2 DEF ConfirmStarts
    <3> DEFINE c == [Idle EXCEPT !.op = "confirm", !.pc = pc, !.ext = row.ext]
    <3>2. c \in Call /\ c.pc = pc /\ c.ext = row.ext
      <4>1. "confirm" \in Op /\ pc \in Step
        BY DEF Op, Step
      <4> QED
        BY <1>0, <4>1, NewExt DEF Idle
    <3>3. turn' = turn
      BY <1>5, <2>2 DEF ConfirmStarts
    <3> QED
      BY <1>0, <3>1, <3>2, <3>3, TurnsOrdinary
  <2> QED
    BY <2>1, <2>2
<1> QED
  BY <1>3, <1>4, <1>5

LEMMA CreationSingle ==
  ASSUME TypeOK, SingleOrder, NEW w \in Tasks,
         \/ Routes(w) \/ Claims(w) \/ Resumes(w) \/ Adopts(w) \/ Composes(w) \/ LooksUp(w)
         \/ Posts(w) \/ Binds(w) \/ Opens(w)
  PROVE  SingleOrder'
<1>0. /\ RowOK /\ CallOK /\ call[w] \in Call /\ row.ext \in Made \cup {0}
      /\ row.ext \in Ids \cup {0} /\ call[w].ext \in Made \cup {0} /\ cart.grid \in Grids
  BY Parts, RowFields DEF CallOK, CartOK, SingleOrder, Named
<1>a. \A pc \in Step, o \in Ids \cup {0} :
         LET c == [call[w] EXCEPT !.pc = pc, !.ext = o]
         IN c \in Call /\ c.pc = pc /\ c.ext = o
  BY <1>0, SetExt DEF Call
<1>b. \A pc \in Step : LET c == [call[w] EXCEPT !.pc = pc]
                       IN c \in Call /\ c.pc = pc /\ c.ext = call[w].ext
  BY <1>0, SetPc DEF Call
<1>1. ASSUME Routes(w) PROVE SingleOrder'
  <2>1. UNCHANGED <<row, orders>>
    BY <1>1 DEF Routes, Steady
  <2>2. CASE \E pc \in {"claim", "mutate"} : Goes(w, pc)
    BY <1>0, <2>1, <2>2, GoesOrdinary, SameMade, OrdinaryStep DEF Step
  <2>3. CASE Fails(w)
    BY <1>0, <2>1, <2>3, FailsOrdinary, SameMade, OrdinaryStep
  <2>4. CASE Turns(w, [call[w] EXCEPT !.pc = "open", !.ext = row.ext]) /\ UNCHANGED turn
    <3> DEFINE c == [call[w] EXCEPT !.pc = "open", !.ext = row.ext]
    <3>1. Ordinary(w)
      <4>1. c \in Call /\ c.pc = "open" /\ c.ext = row.ext
        BY <1>0, <1>a DEF Step
      <4>2. Turns(w, c) /\ turn' = turn
        BY <2>4
      <4> HIDE DEF c
      <4> QED
        BY <1>0, <4>1, <4>2, TurnsOrdinary
    <3> QED
      BY <1>0, <2>1, <3>1, SameMade, OrdinaryStep
  <2>5. CASE Turns(w, [call[w] EXCEPT !.pc = "resume"]) /\ UNCHANGED turn
    <3> DEFINE c == [call[w] EXCEPT !.pc = "resume"]
    <3>1. Ordinary(w)
      <4>1. c \in Call /\ c.pc = "resume" /\ c.ext = call[w].ext
        BY <1>b DEF Step
      <4>2. Turns(w, c) /\ turn' = turn
        BY <2>5
      <4> HIDE DEF c
      <4> QED
        BY <1>0, <4>1, <4>2, TurnsOrdinary
    <3> QED
      BY <1>0, <2>1, <3>1, SameMade, OrdinaryStep
  <2> QED
    BY <1>1, <2>2, <2>3, <2>4, <2>5 DEF Routes
<1>2. ASSUME Claims(w) PROVE SingleOrder'
  <2>1. Ordinary(w)
    BY <1>2, GoesOrdinary, FailsOrdinary DEF Claims, Step
  <2>2. row'.ext = row.ext
    BY <1>0, <1>2, MovedExt DEF Claims
  <2> QED
    BY <1>0, <1>2, <2>1, <2>2, SameMade, OrdinaryStep DEF Claims, Steady
<1>3. ASSUME Resumes(w) PROVE SingleOrder'
  <2>1. Ordinary(w)
    <3>1. CASE AfterResume(w)
      BY <3>1, AfterResumeOrdinary
    <3>2. CASE ~AfterResume(w)
      <4>1. PICK pc \in {"open", "adopt"} : Turns(w, [call[w] EXCEPT !.pc = pc, !.ext = row.ext])
        BY <1>3, <3>2 DEF Resumes
      <4>2. pc \in Step /\ turn' = turn
        BY <1>3, <3>2 DEF Resumes, Step
      <4> QED
        BY <1>0, <1>a, <4>1, <4>2, TurnsOrdinary
    <3> QED
      BY <3>1, <3>2
  <2> QED
    BY <1>0, <1>3, <2>1, SameMade, OrdinaryStep DEF Resumes, Steady
<1>4. ASSUME Adopts(w) PROVE SingleOrder'
  <2>1. Ordinary(w)
    <3>1. CASE \E o \in Anchored : Turns(w, [call[w] EXCEPT !.pc = "open", !.ext = o])
               /\ turn' = turn
      <4>1. PICK o \in Made : Turns(w, [call[w] EXCEPT !.pc = "open", !.ext = o])
        BY <3>1 DEF Anchored
      <4>2. "open" \in Step /\ o \in Ids
        BY DEF Step, Made
      <4> DEFINE c == [call[w] EXCEPT !.pc = "open", !.ext = o]
      <4>3. c \in Call /\ c.pc = "open" /\ c.ext = o
        BY <1>a, <4>2
      <4> HIDE DEF c
      <4>4. Turns(w, c)
        BY <4>1 DEF c
      <4> QED
        BY <3>1, <4>3, <4>4, TurnsOrdinary
    <3> QED
      BY <1>4, <3>1, GoesOrdinary, FailsOrdinary DEF Adopts, Step
  <2>2. row'.ext \in Made \cup {0}
    BY <1>0, <1>4 DEF Adopts, Anchored, RowOK
  <2> QED
    BY <1>4, <2>1, <2>2, SameMade, OrdinaryStep DEF Adopts
<1>5. ASSUME Composes(w) PROVE SingleOrder'
  <2> DEFINE c == [call[w] EXCEPT !.pc = "lookup", !.sent = cart.grid]
  <2>1. call'[w] = c /\ c.pc = "lookup" /\ c.ext = call[w].ext
        /\ \A v \in Tasks \ {w} : call'[v] = call[v]
    BY <1>0, <1>5 DEF Composes, Turns, CallOK, Call
  <2>2. turn = None /\ turn' = w /\ UNCHANGED <<row, orders>>
    BY <1>5 DEF Composes, Steady
  <2>3. InTurn'
    BY <2>1, <2>2, ErpAssumption DEF SingleOrder, InTurn, Made
  <2>4. OneMade' /\ Named'
    BY <1>0, <2>1, <2>2 DEF SingleOrder, OneMade, Named, Made
  <2> QED
    BY <2>3, <2>4 DEF SingleOrder
<1>6. ASSUME LooksUp(w) PROVE SingleOrder'
  <2>1. UNCHANGED <<row, orders>> /\ At(w, "lookup")
    BY <1>6 DEF LooksUp
  <2>2. CASE Fails(w)
    BY <1>0, <2>1, <2>2, FailsOrdinary, SameMade, OrdinaryStep
  <2>3. ASSUME Made = {}, Turns(w, [call[w] EXCEPT !.pc = "post", !.ext = 0]), turn' = turn
        PROVE  SingleOrder'
    <3>1. /\ call'[w].pc = "post" /\ call'[w].ext = 0
          /\ \A v \in Tasks \ {w} : call'[v] = call[v]
      BY <1>0, <2>3 DEF Turns, CallOK, Call
    <3>2. InTurn'
      BY <2>1, <2>3, <3>1 DEF SingleOrder, InTurn, Made, At
    <3>3. OneMade' /\ Named'
      BY <1>0, <2>1, <3>1 DEF SingleOrder, OneMade, Named, Made
    <3> QED
      BY <3>2, <3>3 DEF SingleOrder
  <2>4. ASSUME NEW o \in Made, Turns(w, [call[w] EXCEPT !.pc = "bind", !.ext = o]), turn' = turn
        PROVE  SingleOrder'
    <3>1. "bind" \in Step /\ o \in Ids
      BY DEF Step, Made
    <3> DEFINE c == [call[w] EXCEPT !.pc = "bind", !.ext = o]
    <3>2. Ordinary(w)
      <4>1. c \in Call /\ c.pc = "bind" /\ c.ext = o
        BY <1>a, <3>1
      <4> HIDE DEF c
      <4>2. Turns(w, c)
        BY <2>4 DEF c
      <4> QED
        BY <2>4, <4>1, <4>2, TurnsOrdinary
    <3> QED
      BY <1>0, <2>1, <3>2, SameMade, OrdinaryStep
  <2>5. 0 \notin Made
    BY DEF Made, Ids
  <2> QED
    BY <1>6, <2>2, <2>3, <2>4, <2>5 DEF LooksUp, Anchored
<1>7. ASSUME Posts(w) PROVE SingleOrder'
  <2>1. Made = {} /\ \A v \in Tasks \ {w} : call[v].pc \notin {"lookup", "post"}
    BY <1>7 DEF Posts, At, SingleOrder, InTurn
  <2>2. UNCHANGED row
    BY <1>7 DEF Posts
  <2>3. CASE UNCHANGED orders /\ Fails(w)
    BY <1>0, <2>2, <2>3, FailsOrdinary, SameMade, OrdinaryStep
  <2>4. ASSUME NEW o \in Ids,
               orders' = [orders EXCEPT ![o] = [status |-> "open", held |-> call[w].sent]],
               Fails(w) \/ Turns(w, [call[w] EXCEPT !.pc = "bind", !.ext = o])
        PROVE  SingleOrder'
    <3>1. Made' = {o}
      <4>1. \A p \in Ids : orders[p].status = "none"
        BY <2>1 DEF Made
      <4>2. orders'[o].status = "open" /\ \A p \in Ids \ {o} : orders'[p] = orders[p]
        BY <2>4, Parts DEF OrdersOK
      <4> QED
        BY <4>1, <4>2 DEF Made
    <3>2. /\ call'[w].pc \notin {"lookup", "post"} /\ call'[w].ext \in {o, 0}
          /\ \A v \in Tasks \ {w} : call'[v] = call[v]
      <4>1. CASE Fails(w)
        BY <1>0, <4>1 DEF Fails, Handled, Turns, CallOK, Idle
      <4>2. CASE Turns(w, [call[w] EXCEPT !.pc = "bind", !.ext = o])
        BY <1>0, <4>2 DEF Turns, CallOK, Call
      <4> QED
        BY <2>4, <4>1, <4>2
    <3>3. InTurn'
      BY <2>1, <3>2 DEF InTurn
    <3>4. OneMade' /\ Named'
      BY <1>0, <2>1, <2>2, <3>1, <3>2 DEF SingleOrder, OneMade, Named
    <3> QED
      BY <3>3, <3>4 DEF SingleOrder
  <2> QED
    BY <1>7, <2>3, <2>4 DEF Posts
<1>8. ASSUME Binds(w) PROVE SingleOrder'
  <2>1. Ordinary(w)
    <3> DEFINE c == [call[w] EXCEPT !.pc = "open"]
    <3>1. c \in Call /\ c.pc = "open" /\ c.ext = call[w].ext
      BY <1>b DEF Step
    <3>2. Turns(w, c) /\ turn' = Lets(turn, w)
      BY <1>8 DEF Binds
    <3> QED
      BY <1>0, <3>1, <3>2 DEF Ordinary
  <2>2. row'.ext \in Made \cup {0}
    BY <1>0, <1>8 DEF Binds, RowOK
  <2> QED
    BY <1>8, <2>1, <2>2, SameMade, OrdinaryStep DEF Binds, Steady
<1>9. ASSUME Opens(w) PROVE SingleOrder'
  <2>1. Ordinary(w)
    BY <1>9, GoesOrdinary, AfterResumeOrdinary DEF Opens, Step
  <2>2. row'.ext = row.ext
    BY <1>0, <1>9, MovedExt DEF Opens
  <2> QED
    BY <1>0, <1>9, <2>1, <2>2, SameMade, OrdinaryStep DEF Opens, Steady
<1> QED
  BY <1>1, <1>2, <1>3, <1>4, <1>5, <1>6, <1>7, <1>8, <1>9

LEMMA MutationSingle ==
  ASSUME TypeOK, SingleOrder, NEW w \in Tasks,
         \/ Mutates(w) \/ ReadsGrid(w) \/ PutsGrid(w) \/ Releases(w) \/ Rechecks(w)
         \/ Takes(w) \/ Approves(w) \/ Settles(w) \/ Leaves(w)
  PROVE  SingleOrder'
<1>0. /\ RowOK /\ CallOK /\ OrdersOK /\ call[w] \in Call /\ row.ext \in Made \cup {0}
      /\ row.ext \in Ids \cup {0} /\ call[w].ext \in Made \cup {0} /\ cart.grid \in Grids
      /\ row.state \in State /\ call[w].grid \in Grids /\ call[w].ext \in Ids \cup {0}
  BY Parts, RowFields, CallFields DEF CallOK, CartOK, SingleOrder, Named
<1>1. ASSUME Mutates(w) PROVE SingleOrder'
  <2>1. Ordinary(w)
    <3> DEFINE c == [call[w] EXCEPT !.pc = "grid", !.ext = row.ext, !.home = row.state]
    <3>1. c \in Call /\ c.pc = "grid" /\ c.ext = row.ext
      <4>1. "grid" \in Step
        BY DEF Step
      <4> QED
        BY <1>0, <4>1, SetHome DEF Call
    <3> HIDE DEF c
    <3>2. CASE Turns(w, c) /\ turn' = turn
      BY <1>0, <3>1, <3>2, TurnsOrdinary
    <3> QED
      BY <1>1, <3>2, FailsOrdinary DEF Mutates, c
  <2>2. row'.ext = row.ext
    BY <1>0, <1>1, MovedExt DEF Mutates
  <2> QED
    BY <1>0, <1>1, <2>1, <2>2, SameMade, OrdinaryStep DEF Mutates, Steady
<1>2. ASSUME ReadsGrid(w) PROVE SingleOrder'
  <2>1. Ordinary(w)
    <3> DEFINE c == [call[w] EXCEPT !.pc = "put", !.grid = cart.grid]
    <3>1. c \in Call /\ c.pc = "put" /\ c.ext = call[w].ext
      <4>1. "put" \in Step
        BY DEF Step
      <4> QED
        BY <1>0, <4>1, SetGrid DEF Call
    <3> HIDE DEF c
    <3>2. CASE Turns(w, c) /\ turn' = turn
      BY <1>0, <3>1, <3>2, TurnsOrdinary
    <3>3. {"approve", "release"} \subseteq Step \ {"lookup", "post"}
      BY DEF Step
    <3> QED
      BY <1>2, <3>2, <3>3, GoesOrdinary DEF ReadsGrid, c
  <2> QED
    BY <1>0, <1>2, <2>1, SameMade, OrdinaryStep DEF ReadsGrid
<1>3. ASSUME PutsGrid(w) PROVE SingleOrder'
  <2>1. Ordinary(w)
    <3> DEFINE c == [call[w] EXCEPT !.pc = "grid", !.sent = call[w].grid]
    <3>1. c \in Call /\ c.pc = "grid" /\ c.ext = call[w].ext
      <4>1. "grid" \in Step
        BY DEF Step
      <4> QED
        BY <1>0, <4>1, SetSent DEF Call
    <3> HIDE DEF c
    <3>2. CASE Turns(w, c) /\ turn' = turn
      BY <1>0, <3>1, <3>2, TurnsOrdinary
    <3> QED
      BY <1>3, <3>2, GivesUpOrdinary DEF PutsGrid, c
  <2>2. Made' = Made
    BY <1>0, <1>3 DEF PutsGrid, Made, OrdersOK
  <2> QED
    BY <1>0, <1>3, <2>1, <2>2, OrdinaryStep DEF PutsGrid
<1>4. ASSUME Releases(w) PROVE SingleOrder'
  <2>1. Ordinary(w)
    BY <1>4, GoesOrdinary, FailsOrdinary DEF Releases, Step
  <2>2. row'.ext = row.ext
    BY <1>0, <1>4, MovedExt DEF Releases
  <2> QED
    BY <1>0, <1>4, <2>1, <2>2, SameMade, OrdinaryStep DEF Releases, Steady
<1>5. ASSUME Rechecks(w) PROVE SingleOrder'
  <2>1. Ordinary(w)
    BY <1>5, GoesOrdinary, AfterResumeOrdinary, HandledOrdinary DEF Rechecks, Step
  <2> QED
    BY <1>0, <1>5, <2>1, SameMade, OrdinaryStep DEF Rechecks, Steady
<1>6. ASSUME Takes(w) PROVE SingleOrder'
  <2>1. Ordinary(w)
    <3> DEFINE c == [call[w] EXCEPT !.op = "approve", !.pc = "grid", !.ext = row.ext, !.sent = 0,
                                    !.home = "open"]
    <3>1. c \in Call /\ c.pc = "grid" /\ c.ext = row.ext
      <4>1. "grid" \in Step /\ "approve" \in Op
        BY DEF Step, Op
      <4> QED
        <5>1. c \in Call
          BY <1>0, <4>1, SetApprove, Values
        <5> QED
          BY <1>0, <5>1 DEF Call
    <3> HIDE DEF c
    <3>2. CASE Turns(w, c) /\ turn' = turn
      BY <1>0, <3>1, <3>2, TurnsOrdinary
    <3> QED
      BY <1>6, <3>2, HandledOrdinary DEF Takes, c
  <2>2. row'.ext = row.ext
    BY <1>0, <1>6, MovedExt DEF Takes
  <2> QED
    BY <1>0, <1>6, <2>1, <2>2, SameMade, OrdinaryStep DEF Takes, Steady
<1>7. ASSUME Approves(w) PROVE SingleOrder'
  <2>1. Ordinary(w)
    BY <1>7, GoesOrdinary, GivesUpOrdinary DEF Approves, Step
  <2>2. Made' = Made
    <3>1. \A o \in Ids : orders'[o].status \in {orders[o].status, "approved"}
                          /\ (o # call[w].ext => orders'[o] = orders[o])
      BY <1>0, <1>7 DEF Approves, OrdersOK
    <3>2. \A o \in Ids : o = call[w].ext => orders[o].status # "none"
      BY <1>0 DEF Made, Ids
    <3> QED
      BY <3>1, <3>2 DEF Made
  <2> QED
    BY <1>0, <1>7, <2>1, <2>2, OrdinaryStep DEF Approves
<1>8. ASSUME Settles(w) PROVE SingleOrder'
  <2>1. Ordinary(w)
    <3> DEFINE c == [call[w] EXCEPT !.pc = "leave", !.failed = row.state # "mutating"]
    <3>1. c \in Call /\ c.pc = "leave" /\ c.ext = call[w].ext
      <4>1. "leave" \in Step
        BY DEF Step
      <4> QED
        BY <1>0, <4>1, SetFailed DEF Call
    <3> HIDE DEF c
    <3> QED
      BY <1>0, <1>8, <3>1, TurnsOrdinary DEF Settles, c
  <2>2. row'.ext = row.ext
    BY <1>0, <1>8, MovedExt DEF Settles
  <2> QED
    BY <1>0, <1>8, <2>1, <2>2, SameMade, OrdinaryStep DEF Settles, Steady
<1>9. ASSUME Leaves(w) PROVE SingleOrder'
  <2>1. row'.ext = row.ext
    BY <1>0, <1>9, MovedExt DEF Leaves
  <2> QED
    BY <1>0, <1>9, <2>1, HandledOrdinary, SameMade, OrdinaryStep DEF Leaves, Steady
<1> QED
  BY <1>1, <1>2, <1>3, <1>4, <1>5, <1>6, <1>7, <1>8, <1>9

LEMMA CancelSingle ==
  ASSUME TypeOK, SingleOrder, NEW w \in Tasks,
         ExpireStarts(w) \/ Drops(w) \/ RefundStarts(w) \/ Cancels(w) \/ Undoes(w)
  PROVE  SingleOrder'
<1>0. /\ RowOK /\ OrdersOK /\ row.ext \in Made \cup {0} /\ row.ext \in Ids \cup {0}
      /\ row.state \in State /\ call[w].ext \in Made \cup {0}
  BY Parts, RowFields DEF SingleOrder, Named
<1>1. ASSUME NEW op \in {"expire", "refund"}, Withdraws(w, op)
      PROVE  Ordinary(w) /\ row'.ext = row.ext
  <2> DEFINE c == [Idle EXCEPT !.op = op, !.pc = "withdraw", !.ext = row.ext, !.home = row.state]
  <2>1. c \in Call /\ c.pc = "withdraw" /\ c.ext = row.ext
    <3>1. op \in Op /\ "withdraw" \in Step
      BY DEF Op, Step
    <3> QED
      BY <1>0, <3>1, NewHome DEF Idle
  <2>2. Turns(w, c) /\ turn' = turn /\ row'.ext = row.ext
    BY <1>0, <1>1, MovedExt DEF Withdraws
  <2> HIDE DEF c
  <2> QED
    BY <1>0, <2>1, <2>2, TurnsOrdinary
<1>2. ASSUME ExpireStarts(w) PROVE SingleOrder'
  <2>1. Ordinary(w) /\ row'.ext = row.ext
    <3> DEFINE c == [Idle EXCEPT !.op = "expire", !.pc = "drop"]
    <3>1. c \in Call /\ c.pc = "drop" /\ c.ext = 0
      <4>1. "expire" \in Op /\ "drop" \in Step
        BY DEF Op, Step
      <4> QED
        BY <4>1, New DEF Idle
    <3> HIDE DEF c
    <3>2. CASE Turns(w, c) /\ turn' = turn /\ row' = row
      BY <3>1, <3>2, TurnsOrdinary
    <3>3. CASE Handled(w, {"expired"}) /\ row' = row
      BY <3>3, HandledOrdinary
    <3> QED
      BY <1>1, <1>2, <3>2, <3>3 DEF ExpireStarts, c
  <2> QED
    BY <1>0, <1>2, <2>1, SameMade, OrdinaryStep DEF ExpireStarts, Steady
<1>3. ASSUME RefundStarts(w) PROVE SingleOrder'
  <2>1. Ordinary(w) /\ row'.ext = row.ext
    BY <1>1, <1>3, HandledOrdinary DEF RefundStarts
  <2> QED
    BY <1>0, <1>3, <2>1, SameMade, OrdinaryStep DEF RefundStarts, Steady
<1>4. ASSUME Drops(w) PROVE SingleOrder'
  <2>1. row'.ext = row.ext
    BY <1>0, <1>4, MovedExt DEF Drops
  <2> QED
    BY <1>0, <1>4, <2>1, HandledOrdinary, SameMade, OrdinaryStep DEF Drops, Steady
<1>5. ASSUME Cancels(w) PROVE SingleOrder'
  <2>1. Ordinary(w)
    BY <1>5, HandledOrdinary, GoesOrdinary DEF Cancels, Step
  <2>2. Made' = Made
    <3>1. \A o \in Ids : orders'[o].status \in {orders[o].status, "cancelled"}
                          /\ (o # call[w].ext => orders'[o] = orders[o])
      BY <1>0, <1>5 DEF Cancels, OrdersOK
    <3>2. \A o \in Ids : o = call[w].ext => orders[o].status # "none"
      BY <1>0 DEF Made, Ids
    <3> QED
      BY <3>1, <3>2 DEF Made
  <2> QED
    BY <1>0, <1>5, <2>1, <2>2, OrdinaryStep DEF Cancels
<1>6. ASSUME Undoes(w) PROVE SingleOrder'
  <2>1. row'.ext = row.ext
    BY <1>0, <1>6, MovedExt DEF Undoes
  <2> QED
    BY <1>0, <1>6, <2>1, FailsOrdinary, SameMade, OrdinaryStep DEF Undoes, Steady
<1> QED
  BY <1>2, <1>3, <1>4, <1>5, <1>6

LEMMA SingleStep == TypeOK /\ SingleOrder /\ [Next]_vars => SingleOrder'
<1> SUFFICES ASSUME TypeOK, SingleOrder, [Next]_vars PROVE SingleOrder'
  OBVIOUS
<1>1. CASE UNCHANGED vars
  BY <1>1 DEF vars, SingleOrder, OneMade, InTurn, Named, Made
<1>2. CASE Next
  BY <1>2, CartSingle, StartSingle, CreationSingle, MutationSingle, CancelSingle
     DEF Next, Proceeds, Reactors
<1> QED
  BY <1>1, <1>2

LEMMA SingleInit == Init => SingleOrder
BY DEF Init, SingleOrder, OneMade, InTurn, Named, Made, Idle

\* However slow a creation is and whatever the schedule, the ERP holds at
\* most one order of the cart.
THEOREM OneOrderPerCart == Spec => []OneOrder
<1>1. SingleOrder => OneOrder
  BY DEF SingleOrder, OneMade, OneOrder, Made, Live
<1> QED
  BY <1>1, SingleInit, SingleStep, TypeCorrect, PTL DEF Spec

----------------------------------------------------------------------------
(* One owner for a claim. *)

\* What a handler's step says of the lock and of what it returns to.
Fits(c, w, l) ==
  /\ c.op \in {"confirm", "approve"} => l = w
  /\ c.pc = "take" => c.op = "confirm"
  /\ c.pc \in {"approve", "settle", "leave"} => c.op = "approve"
  /\ c.pc \in {"withdraw", "undo"} => c.home \in {"converting", "open", "confirmed"}

Locked == \A w \in Tasks : Fits(call[w], w, lock)

\* While the row is claimed for a mutation one handler writes it at most, and
\* only the sweep writes under an old claim.
Claimed ==
  /\ \A v, w \in Writers : v = w
  /\ \A w \in Writers : /\ row.state = "mutating" /\ row.rest = call[w].home
                        /\ row.aged => call[w].op = "sweep"
  /\ row.state = "mutating" => row.rest \in Resting

\* A step outside of the writers' part.
Apart(w) == \E c \in Call :
  /\ Turns(w, c) /\ Fits(c, w, lock') /\ c.pc \notin Writing \cup {"leave"}
  /\ \A v \in Tasks \ {w} : lock = v => lock' = v

SameClaim == /\ row'.state = row.state /\ row'.rest = row.rest /\ row'.aged = row.aged

\* Such a step leaves the claim alone, moves the row between other states, or
\* is the end of the writer's claim.
LEMMA ApartStep ==
  ASSUME CallOK, Claimed, Locked, NEW w \in Tasks, Apart(w),
         \/ SameClaim
         \/ row'.state # "mutating" /\ (row.state # "mutating" \/ w \in Writers)
  PROVE  Claimed' /\ Locked'
<1>1. PICK c \in Call : /\ Turns(w, c) /\ Fits(c, w, lock') /\ c.pc \notin Writing \cup {"leave"}
                        /\ \A v \in Tasks \ {w} : lock = v => lock' = v
  BY DEF Apart
<1>2. call'[w] = c /\ \A v \in Tasks \ {w} : call'[v] = call[v]
  BY <1>1 DEF Turns, CallOK
<1>3. Locked'
  <2>1. \A v \in Tasks \ {w} : Fits(call'[v], v, lock')
    BY <1>1, <1>2 DEF Locked, Fits
  <2> QED
    BY <1>1, <1>2, <2>1 DEF Locked
<1>4. Writers' = Writers \ {w}
  BY <1>1, <1>2 DEF Writers, At
<1>5. CASE SameClaim
  <2>1. \A v \in Writers' : v \in Writers /\ call'[v] = call[v]
    BY <1>2, <1>4 DEF Writers
  <2> QED
    BY <1>3, <1>5, <2>1 DEF Claimed, SameClaim
<1>6. CASE row'.state # "mutating" /\ (row.state # "mutating" \/ w \in Writers)
  <2>1. Writers' = {}
    <3>1. \A v \in Writers : v = w
      BY <1>6 DEF Claimed
    <3> QED
      BY <1>4, <3>1
  <2> QED
    BY <1>3, <1>6, <2>1 DEF Claimed
<1> QED
  BY <1>3, <1>5, <1>6

\* The writer's own steps.
LEMMA WriterStep ==
  ASSUME CallOK, Claimed, Locked, NEW w \in Writers, NEW c \in Call, Turns(w, c),
         Fits(c, w, lock), c.pc \in Writing, c.op = call[w].op, c.home = call[w].home,
         UNCHANGED <<row, lock>>
  PROVE  Claimed' /\ Locked'
<1>1. w \in Tasks /\ call'[w] = c /\ \A v \in Tasks \ {w} : call'[v] = call[v]
  BY DEF Turns, CallOK, Writers
<1>2. Locked'
  BY <1>1 DEF Locked
<1>3. Writers' = Writers
  BY <1>1 DEF Writers, At, Writing
<1> QED
  BY <1>1, <1>2, <1>3 DEF Claimed

\* A handler that takes the claim: nobody else wrote.
LEMMA EntersStep ==
  ASSUME CallOK, Locked, NEW w \in Tasks, NEW c \in Call, Turns(w, c), Fits(c, w, lock),
         c.pc \in Writing, Writers = {}, UNCHANGED lock,
         row'.state = "mutating", row'.rest = c.home, c.home \in Resting,
         row'.aged => c.op = "sweep"
  PROVE  Claimed' /\ Locked'
<1>1. call'[w] = c /\ \A v \in Tasks \ {w} : call'[v] = call[v]
  BY DEF Turns, CallOK
<1>2. Locked'
  BY <1>1 DEF Locked
<1>3. Writers' = {w}
  BY <1>1 DEF Writers, At, Writing
<1> QED
  BY <1>1, <1>2, <1>3 DEF Claimed

LEMMA Quiescent ==
  ASSUME Claimed, row.state # "mutating"
  PROVE  Writers = {}
BY DEF Claimed

LEMMA GoesApart ==
  ASSUME CallOK, Locked, NEW w \in Tasks, NEW pc \in Step \ (Writing \cup {"leave"}),
         pc \notin {"withdraw", "undo"}, pc = "take" => call[w].op = "confirm", Goes(w, pc)
  PROVE  Apart(w)
<1> DEFINE c == [call[w] EXCEPT !.pc = pc]
<1>1. c \in Call /\ c.pc = pc /\ c.op = call[w].op
  <2>1. call[w] \in Call
    BY DEF CallOK
  <2> QED
    BY <2>1, SetPc DEF Call
<1>2. Turns(w, c) /\ lock' = lock
  BY DEF Goes
<1> HIDE DEF c
<1>3. Fits(c, w, lock')
  BY <1>1, <1>2 DEF Fits, Locked, Writing
<1> QED
  BY <1>1, <1>2, <1>3 DEF Apart

LEMMA HandledApart ==
  ASSUME NEW w \in Tasks, NEW facts, Handled(w, facts)
  PROVE  Apart(w)
<1>1. Idle \in Call /\ Idle.pc = "idle" /\ Idle.op = "none"
  BY IdleOK DEF Idle
<1>2. Turns(w, Idle) /\ lock' = Lets(lock, w)
  BY DEF Handled
<1>3. Fits(Idle, w, lock')
  BY <1>1 DEF Fits
<1>4. \A v \in Tasks \ {w} : lock = v => lock' = v
  BY <1>2 DEF Lets
<1> QED
  BY <1>1, <1>2, <1>3, <1>4 DEF Apart, Writing

LEMMA FailsApart ==
  ASSUME NEW w \in Tasks, Fails(w)
  PROVE  Apart(w)
BY HandledApart DEF Fails

LEMMA AfterResumeApart ==
  ASSUME CallOK, NEW w \in Tasks, AfterResume(w)
  PROVE  Apart(w)
<1>1. CASE call[w].op = "comment"
  <2> DEFINE c == [call[w] EXCEPT !.pc = "mutate", !.sent = 0]
  <2>1. c \in Call /\ c.pc = "mutate" /\ c.op = "comment"
    <3>1. "mutate" \in Step /\ call[w] \in Call
      BY DEF Step, CallOK
    <3>2. c \in Call
      BY <3>1, SetSent, Values
    <3> QED
      BY <1>1, <3>1, <3>2 DEF Call
  <2>2. Turns(w, c) /\ \A v \in Tasks \ {w} : lock = v => lock' = v
    BY <1>1 DEF AfterResume, Lets
  <2> HIDE DEF c
  <2>3. Fits(c, w, lock')
    BY <2>1 DEF Fits
  <2> QED
    BY <2>1, <2>2, <2>3 DEF Apart, Writing
<1>2. CASE call[w].op # "comment"
  BY <1>2, HandledApart DEF AfterResume
<1> QED
  BY <1>1, <1>2

LEMMA TurnsApart ==
  ASSUME NEW w \in Tasks, NEW c \in Call, Turns(w, c), Fits(c, w, lock'),
         c.pc \notin Writing \cup {"leave"}, lock' = lock \/ (lock = None /\ lock' = w)
  PROVE  Apart(w)
BY ErpAssumption DEF Apart

LEMMA MovedRow ==
  ASSUME RowOK, NEW from, NEW to, row' = Moved(from, to)
  PROVE  /\ row.state # from => row' = row
         /\ row.state = from => /\ row'.state = to /\ row'.aged = FALSE
                                /\ row'.rest = IF to = "mutating" THEN from ELSE "none"
BY DEF Moved, RowOK

\* A compare-and-set between states that are no mutation.
LEMMA MovedApart ==
  ASSUME TypeOK, Claimed, Locked, NEW w \in Tasks, Apart(w), NEW from, NEW to,
         row' = Moved(from, to), from # "mutating", to # "mutating"
  PROVE  Claimed' /\ Locked'
<1>1. SameClaim \/ (row'.state # "mutating" /\ row.state # "mutating")
  BY Parts, MovedRow DEF SameClaim
<1> QED
  BY <1>1, Parts, ApartStep

LEMMA CartClaimed ==
  ASSUME TypeOK, Claimed, Locked,
         \/ CartIsPaid \/ CartIsRefunded \/ CartExpires \/ Ages \/ Crashes \/ ConfirmSkips
  PROVE  Claimed' /\ Locked'
<1>1. ASSUME CartIsPaid \/ CartIsRefunded \/ CartExpires \/ ConfirmSkips
      PROVE  Claimed' /\ Locked'
  <2>1. UNCHANGED <<row, call, lock>>
    BY <1>1 DEF CartIsPaid, CartIsRefunded, CartExpires, ConfirmSkips
  <2> QED
    BY <2>1 DEF Claimed, Locked, Fits, Writers, At
<1>2. ASSUME Ages PROVE Claimed' /\ Locked'
  <2>1. row'.state = row.state /\ row'.rest = row.rest /\ UNCHANGED <<call, lock>>
    BY <1>2, Parts DEF Ages, RowOK
  <2>2. Writers = {}
    BY <1>2 DEF Ages, Writers
  <2>3. Writers' = {}
    BY <2>1, <2>2 DEF Writers, At
  <2> QED
    BY <2>1, <2>3 DEF Claimed, Locked, Fits
<1>3. ASSUME Crashes PROVE Claimed' /\ Locked'
  <2>1. \A w \in Tasks : call'[w] = Idle
    BY <1>3 DEF Crashes
  <2>2. Writers' = {} /\ UNCHANGED row
    BY <1>3, <2>1 DEF Crashes, Writers, At, Writing, Idle
  <2>3. Locked'
    BY <2>1 DEF Locked, Fits, Idle
  <2> QED
    BY <2>2, <2>3 DEF Claimed
<1> QED
  BY <1>1, <1>2, <1>3

LEMMA StartClaimed ==
  ASSUME TypeOK, Claimed, Locked, NEW w \in Tasks,
         \/ BuyerAdds(w) \/ Recovers(w) \/ Sweeps(w) \/ ConfirmStarts(w)
  PROVE  Claimed' /\ Locked'
<1>0. RowOK /\ CallOK /\ row.ext \in Ids \cup {0} /\ row.rest \in State
  BY Parts, RowFields
<1>1. UNCHANGED row
  BY DEF BuyerAdds, Recovers, Sweeps, ConfirmStarts
<1>2. SameClaim
  BY <1>1 DEF SameClaim
<1>3. ASSUME BuyerAdds(w) \/ Recovers(w) PROVE Claimed' /\ Locked'
  <2> DEFINE c == [Idle EXCEPT !.op = "comment", !.pc = "route"]
  <2>1. c \in Call /\ c.pc = "route" /\ c.op = "comment"
    <3>1. "comment" \in Op /\ "route" \in Step
      BY DEF Op, Step
    <3> QED
      BY <3>1, New DEF Idle
  <2>2. Turns(w, c) /\ lock' = lock
    BY <1>3 DEF BuyerAdds, Recovers, Starts
  <2> HIDE DEF c
  <2>3. Fits(c, w, lock')
    BY <2>1 DEF Fits
  <2>4. Apart(w)
    BY <2>1, <2>2, <2>3, TurnsApart DEF Writing
  <2> QED
    BY <1>0, <1>2, <2>4, ApartStep
<1>4. ASSUME Sweeps(w) PROVE Claimed' /\ Locked'
  <2>1. PICK op \in {"sweep", "resume"}, pc \in {"grid", "open", "resume"} :
           /\ Turns(w, [Idle EXCEPT !.op = op, !.pc = pc, !.ext = row.ext, !.home = row.rest])
           /\ pc = "grid" => op = "sweep" /\ row.state = "mutating" /\ lock' = lock
    BY <1>4 DEF Sweeps
  <2> DEFINE c == [Idle EXCEPT !.op = op, !.pc = pc, !.ext = row.ext, !.home = row.rest]
  <2>2. c \in Call /\ c.pc = pc /\ c.op = op /\ c.home = row.rest
    <3>1. op \in Op /\ pc \in Step
      BY DEF Op, Step
    <3> QED
      BY <1>0, <3>1, NewHome DEF Idle
  <2>3. Turns(w, c)
    BY <2>1
  <2> HIDE DEF c
  <2>4. \A l : Fits(c, w, l)
    BY <2>2 DEF Fits
  <2>5. CASE pc = "grid"
    <3>1. row.rest \in Resting
      BY <2>1, <2>5 DEF Claimed
    <3>2. Writers = {}
      BY <1>4 DEF Sweeps, Claimed, Writers
    <3> QED
      BY <1>0, <1>1, <2>1, <2>2, <2>3, <2>4, <2>5, <3>1, <3>2, EntersStep DEF Writing
  <2>6. CASE pc # "grid"
    <3>1. lock' = lock \/ (lock = None /\ lock' = w)
      BY <1>4 DEF Sweeps
    <3>2. Apart(w)
      BY <2>2, <2>3, <2>4, <2>6, <3>1, TurnsApart DEF Writing
    <3> QED
      BY <1>0, <1>2, <3>2, ApartStep
  <2> QED
    BY <2>5, <2>6
<1>5. ASSUME ConfirmStarts(w) PROVE Claimed' /\ Locked'
  <2>1. Apart(w)
    <3>1. CASE Handled(w, {"paid"})
      BY <3>1, HandledApart
    <3>2. CASE ~Handled(w, {"paid"})
      <4>1. PICK pc \in {"claim", "open", "adopt", "take"} :
               Turns(w, [Idle EXCEPT !.op = "confirm", !.pc = pc, !.ext = row.ext])
        BY <1>5, <3>2 DEF ConfirmStarts
      <4> DEFINE c == [Idle EXCEPT !.op = "confirm", !.pc = pc, !.ext = row.ext]
      <4>2. c \in Call /\ c.pc = pc /\ c.op = "confirm"
        <5>1. "confirm" \in Op /\ pc \in Step
          BY DEF Op, Step
        <5> QED
          BY <1>0, <5>1, NewExt DEF Idle
      <4>3. Turns(w, c) /\ lock = None /\ lock' = w
        BY <1>5, <3>2, <4>1 DEF ConfirmStarts
      <4> HIDE DEF c
      <4>4. Fits(c, w, lock')
        BY <4>2, <4>3 DEF Fits
      <4> QED
        BY <4>2, <4>3, <4>4, TurnsApart DEF Writing
    <3> QED
      BY <3>1, <3>2
  <2> QED
    BY <1>0, <1>2, <2>1, ApartStep
<1> QED
  BY <1>3, <1>4, <1>5

LEMMA CreationClaimed ==
  ASSUME TypeOK, Claimed, Locked, NEW w \in Tasks,
         \/ Routes(w) \/ Claims(w) \/ Resumes(w) \/ Adopts(w) \/ Composes(w) \/ LooksUp(w)
         \/ Posts(w) \/ Binds(w) \/ Opens(w)
  PROVE  Claimed' /\ Locked'
<1>0. /\ RowOK /\ CallOK /\ call[w] \in Call /\ row.ext \in Ids \cup {0} /\ cart.grid \in Grids
      /\ Fits(call[w], w, lock)
  BY Parts, RowFields DEF CallOK, CartOK, Locked
<1>a. UNCHANGED row => SameClaim
  BY DEF SameClaim
\* A handler that goes on inside the creation, under the lock or without it.
<1>b. ASSUME NEW pc \in Step \ (Writing \cup {"leave", "take", "withdraw", "undo"}), NEW c \in Call,
             c.pc = pc, c.op = call[w].op, Turns(w, c),
             lock' = lock \/ (lock = None /\ lock' = w)
      PROVE  Apart(w)
  <2>1. Fits(c, w, lock')
    BY <1>0, <1>b, ErpAssumption DEF Fits, Writing
  <2> QED
    BY <1>b, <2>1, TurnsApart
<1>c. \A pc \in Step, o \in Ids \cup {0} :
         LET c == [call[w] EXCEPT !.pc = pc, !.ext = o]
         IN c \in Call /\ c.pc = pc /\ c.op = call[w].op
  BY <1>0, SetExt DEF Call
<1>d. {"claim", "mutate", "open", "resume", "adopt", "compose", "lookup", "post", "bind"}
         \subseteq Step \ (Writing \cup {"leave", "take", "withdraw", "undo"})
  BY DEF Step, Writing
<1>e. "take" \in Step \ (Writing \cup {"leave"})
  BY DEF Step, Writing
<1>f. ASSUME NEW pc \in {"open", "adopt", "post", "bind"}, NEW o \in Ids \cup {0},
             Turns(w, [call[w] EXCEPT !.pc = pc, !.ext = o]), lock' = lock
      PROVE  Apart(w)
  <2> DEFINE c == [call[w] EXCEPT !.pc = pc, !.ext = o]
  <2>1. pc \in Step \ (Writing \cup {"leave", "take", "withdraw", "undo"})
    BY <1>d
  <2>2. c \in Call /\ c.pc = pc /\ c.op = call[w].op
    BY <1>c, <2>1
  <2>3. Turns(w, c)
    BY <1>f
  <2> HIDE DEF c
  <2> QED
    BY <1>b, <1>f, <2>1, <2>2, <2>3
<1>1. ASSUME Routes(w) PROVE Claimed' /\ Locked'
  <2>1. Apart(w)
    <3>1. CASE \E pc \in {"claim", "mutate"} : Goes(w, pc)
      BY <1>0, <1>d, <3>1, GoesApart
    <3>2. CASE Fails(w)
      BY <3>2, FailsApart
    <3>3. CASE Turns(w, [call[w] EXCEPT !.pc = "open", !.ext = row.ext]) /\ UNCHANGED lock
      BY <1>0, <1>f, <3>3
    <3>4. CASE Turns(w, [call[w] EXCEPT !.pc = "resume"]) /\ lock = None /\ lock' = w
      <4> DEFINE c == [call[w] EXCEPT !.pc = "resume"]
      <4>1. c \in Call /\ c.pc = "resume" /\ c.op = call[w].op
        BY <1>0, <1>d, SetPc DEF Call
      <4>2. Turns(w, c)
        BY <3>4
      <4> HIDE DEF c
      <4> QED
        BY <1>b, <1>d, <3>4, <4>1, <4>2
    <3> QED
      BY <1>1, <3>1, <3>2, <3>3, <3>4 DEF Routes
  <2> QED
    BY <1>0, <1>a, <1>1, <2>1, ApartStep DEF Routes
<1>2. ASSUME Claims(w) PROVE Claimed' /\ Locked'
  <2>1. Apart(w)
    BY <1>0, <1>2, <1>d, <1>e, GoesApart, FailsApart DEF Claims
  <2> QED
    BY <1>2, <2>1, MovedApart DEF Claims
<1>3. ASSUME Resumes(w) PROVE Claimed' /\ Locked'
  <2>1. Apart(w)
    <3>1. CASE AfterResume(w)
      BY <1>0, <3>1, AfterResumeApart
    <3>2. CASE ~AfterResume(w)
      <4>1. PICK pc \in {"open", "adopt"} : Turns(w, [call[w] EXCEPT !.pc = pc, !.ext = row.ext])
        BY <1>3, <3>2 DEF Resumes
      <4>2. lock' = lock
        BY <1>3, <3>2 DEF Resumes
      <4> QED
        BY <1>0, <1>f, <4>1, <4>2
    <3> QED
      BY <3>1, <3>2
  <2> QED
    BY <1>0, <1>a, <1>3, <2>1, ApartStep DEF Resumes
<1>4. ASSUME Adopts(w) PROVE Claimed' /\ Locked'
  <2>1. Apart(w)
    <3>1. CASE \E o \in Anchored : Turns(w, [call[w] EXCEPT !.pc = "open", !.ext = o])
               /\ lock' = lock
      <4>1. PICK o \in Ids \cup {0} : Turns(w, [call[w] EXCEPT !.pc = "open", !.ext = o])
        BY <3>1 DEF Anchored, Made
      <4> QED
        BY <1>f, <3>1, <4>1
    <3> QED
      BY <1>0, <1>4, <1>d, <3>1, GoesApart, FailsApart DEF Adopts
  <2>2. SameClaim
    BY <1>0, <1>4 DEF Adopts, SameClaim, RowOK
  <2> QED
    BY <1>0, <2>1, <2>2, ApartStep
<1>5. ASSUME Composes(w) PROVE Claimed' /\ Locked'
  <2> DEFINE c == [call[w] EXCEPT !.pc = "lookup", !.sent = cart.grid]
  <2>1. c \in Call /\ c.pc = "lookup" /\ c.op = call[w].op
    <3>1. c \in Call
      BY <1>0, <1>d, SetSent
    <3> QED
      BY <1>0, <3>1 DEF Call
  <2>2. Turns(w, c) /\ lock' = lock
    BY <1>5 DEF Composes
  <2> HIDE DEF c
  <2>3. Apart(w)
    BY <1>b, <1>d, <2>1, <2>2
  <2> QED
    BY <1>0, <1>a, <1>5, <2>3, ApartStep DEF Composes
<1>6. ASSUME LooksUp(w) PROVE Claimed' /\ Locked'
  <2>1. Apart(w)
    <3>1. CASE Fails(w)
      BY <3>1, FailsApart
    <3>2. CASE ~Fails(w)
      <4>1. PICK o \in Ids \cup {0} :
               Turns(w, [call[w] EXCEPT !.pc = IF o = 0 THEN "post" ELSE "bind", !.ext = o])
        BY <1>6, <3>2 DEF LooksUp, Anchored, Made
      <4>2. lock' = lock
        BY <1>6, <3>2 DEF LooksUp
      <4>3. CASE o = 0
        BY <1>f, <4>1, <4>2, <4>3
      <4>4. CASE o # 0
        BY <1>f, <4>1, <4>2, <4>4
      <4> QED
        BY <4>3, <4>4
    <3> QED
      BY <3>1, <3>2
  <2> QED
    BY <1>0, <1>a, <1>6, <2>1, ApartStep DEF LooksUp
<1>7. ASSUME Posts(w) PROVE Claimed' /\ Locked'
  <2>1. Apart(w)
    <3>1. CASE Fails(w)
      BY <3>1, FailsApart
    <3>2. CASE ~Fails(w)
      <4>1. PICK o \in Ids \cup {0} : Turns(w, [call[w] EXCEPT !.pc = "bind", !.ext = o])
        BY <1>7, <3>2 DEF Posts
      <4>2. lock' = lock
        BY <1>7, <3>2 DEF Posts
      <4> QED
        BY <1>f, <4>1, <4>2
    <3> QED
      BY <3>1, <3>2
  <2> QED
    BY <1>0, <1>a, <1>7, <2>1, ApartStep DEF Posts
<1>8. ASSUME Binds(w) PROVE Claimed' /\ Locked'
  <2> DEFINE c == [call[w] EXCEPT !.pc = "open"]
  <2>1. c \in Call /\ c.pc = "open" /\ c.op = call[w].op
    <3>1. c \in Call
      BY <1>0, <1>d, SetPc
    <3> QED
      BY <1>0, <3>1 DEF Call
  <2>2. Turns(w, c) /\ lock' = lock
    BY <1>8 DEF Binds
  <2> HIDE DEF c
  <2>3. Apart(w)
    BY <1>b, <1>d, <2>1, <2>2
  <2>4. SameClaim
    BY <1>0, <1>8 DEF Binds, SameClaim, RowOK
  <2> QED
    BY <1>0, <2>3, <2>4, ApartStep
<1>9. ASSUME Opens(w) PROVE Claimed' /\ Locked'
  <2>1. Apart(w)
    BY <1>0, <1>9, <1>d, <1>e, GoesApart, AfterResumeApart DEF Opens
  <2> QED
    BY <1>9, <2>1, MovedApart DEF Opens
<1> QED
  BY <1>1, <1>2, <1>3, <1>4, <1>5, <1>6, <1>7, <1>8, <1>9

\* A writer that gives up: the sweep ends, the others turn to the release.
LEMMA GivesUpClaimed ==
  ASSUME TypeOK, Claimed, Locked, NEW w \in Writers, GivesUp(w), UNCHANGED row
  PROVE  Claimed' /\ Locked'
<1>0. w \in Tasks /\ CallOK /\ call[w] \in Call /\ Fits(call[w], w, lock) /\ SameClaim
  BY Parts DEF CallOK, Locked, SameClaim, Writers
<1>1. CASE call[w].op = "sweep"
  BY <1>0, <1>1, FailsApart, ApartStep DEF GivesUp
<1>2. CASE call[w].op # "sweep"
  <2> DEFINE c == [call[w] EXCEPT !.pc = "release", !.failed = TRUE]
  <2>1. c \in Call /\ c.pc = "release" /\ c.op = call[w].op /\ c.home = call[w].home
    <3>1. "release" \in Step
      BY DEF Step
    <3>2. c \in Call
      BY <1>0, <3>1, SetFailed
    <3> QED
      BY <1>0, <3>2 DEF Call
  <2>2. Turns(w, c) /\ lock' = lock
    BY <1>2 DEF GivesUp
  <2> HIDE DEF c
  <2>3. Fits(c, w, lock) /\ c.pc \in Writing
    BY <1>0, <2>1 DEF Fits, Writing
  <2> QED
    BY <1>0, <2>1, <2>2, <2>3, WriterStep
<1> QED
  BY <1>1, <1>2

LEMMA MutationClaimed ==
  ASSUME TypeOK, Claimed, Locked, NEW w \in Tasks,
         Mutates(w) \/ ReadsGrid(w) \/ PutsGrid(w) \/ Releases(w) \/ Rechecks(w)
  PROVE  Claimed' /\ Locked'
<1>0. /\ RowOK /\ CallOK /\ call[w] \in Call /\ row.ext \in Ids \cup {0} /\ cart.grid \in Grids
      /\ row.state \in State /\ call[w].grid \in Grids /\ Fits(call[w], w, lock)
  BY Parts, RowFields, CallFields DEF CallOK, CartOK, Locked
<1>a. UNCHANGED row => SameClaim
  BY DEF SameClaim
<1>1. ASSUME Mutates(w) PROVE Claimed' /\ Locked'
  <2>1. CASE Fails(w) /\ UNCHANGED row
    BY <1>0, <1>a, <2>1, FailsApart, ApartStep
  <2>2. CASE ~(Fails(w) /\ UNCHANGED row)
    <3> DEFINE c == [call[w] EXCEPT !.pc = "grid", !.ext = row.ext, !.home = row.state]
    <3>1. /\ row.state \in Resting /\ Turns(w, c) /\ lock' = lock
          /\ row' = Moved(row.state, "mutating")
      BY <1>1, <2>2 DEF Mutates
    <3>2. c \in Call /\ c.pc = "grid" /\ c.op = call[w].op /\ c.home = row.state
      <4>1. "grid" \in Step
        BY DEF Step
      <4>2. c \in Call
        BY <1>0, <4>1, SetHome
      <4> QED
        BY <1>0, <4>2 DEF Call
    <3> HIDE DEF c
    <3>3. Fits(c, w, lock) /\ c.pc \in Writing
      BY <1>0, <3>2 DEF Fits, Writing
    <3>4. row'.state = "mutating" /\ row'.rest = row.state /\ row'.aged = FALSE
      BY <1>0, <3>1, MovedRow
    <3>5. Writers = {}
      BY <3>1, Quiescent DEF Resting
    <3> QED
      BY <1>0, <3>1, <3>2, <3>3, <3>4, <3>5, EntersStep
  <2> QED
    BY <2>1, <2>2
<1>2. ASSUME ReadsGrid(w) PROVE Claimed' /\ Locked'
  <2>1. w \in Writers /\ UNCHANGED row
    BY <1>2 DEF ReadsGrid, At, Writers, Writing
  <2>2. PICK c \in Call : /\ Turns(w, c) /\ lock' = lock
                          /\ c.op = call[w].op /\ c.home = call[w].home
                          /\ c.pc \in {"put", "release", "approve"}
                          /\ c.pc = "approve" => c.op = "approve"
    <3>1. \A pc \in {"put", "release", "approve"} : pc \in Step
      BY DEF Step
    <3>2. CASE Turns(w, [call[w] EXCEPT !.pc = "put", !.grid = cart.grid]) /\ lock' = lock
      <4> DEFINE c == [call[w] EXCEPT !.pc = "put", !.grid = cart.grid]
      <4>1. c \in Call
        BY <1>0, <3>1, SetGrid
      <4>2. c.pc = "put" /\ c.op = call[w].op /\ c.home = call[w].home
        BY <1>0, <4>1 DEF Call
      <4> QED
        BY <3>2, <4>1, <4>2
    <3>3. ASSUME NEW pc \in {"release", "approve"}, Goes(w, pc),
                 pc = "approve" => call[w].op = "approve"
          PROVE  \E c \in Call : /\ Turns(w, c) /\ lock' = lock
                                 /\ c.op = call[w].op /\ c.home = call[w].home
                                 /\ c.pc \in {"put", "release", "approve"}
                                 /\ c.pc = "approve" => c.op = "approve"
      <4> DEFINE c == [call[w] EXCEPT !.pc = pc]
      <4>1. c \in Call
        BY <1>0, <3>1, SetPc
      <4>2. c.pc = pc /\ c.op = call[w].op /\ c.home = call[w].home
        BY <1>0, <4>1 DEF Call
      <4> QED
        BY <3>3, <4>1, <4>2 DEF Goes
    <3> QED
      BY <1>2, <3>2, <3>3 DEF ReadsGrid
  <2>3. Fits(c, w, lock) /\ c.pc \in Writing
    BY <1>0, <2>2 DEF Fits, Writing
  <2> QED
    BY <1>0, <2>1, <2>2, <2>3, WriterStep
<1>3. ASSUME PutsGrid(w) PROVE Claimed' /\ Locked'
  <2>1. w \in Writers /\ UNCHANGED row
    BY <1>3 DEF PutsGrid, At, Writers, Writing
  <2>2. CASE GivesUp(w)
    BY <2>1, <2>2, GivesUpClaimed
  <2>3. CASE ~GivesUp(w)
    <3> DEFINE c == [call[w] EXCEPT !.pc = "grid", !.sent = call[w].grid]
    <3>1. c \in Call /\ c.pc = "grid" /\ c.op = call[w].op /\ c.home = call[w].home
      <4>1. "grid" \in Step
        BY DEF Step
      <4>2. c \in Call
        BY <1>0, <4>1, SetSent
      <4> QED
        BY <1>0, <4>2 DEF Call
    <3>2. Turns(w, c) /\ lock' = lock
      BY <1>3, <2>3 DEF PutsGrid
    <3> HIDE DEF c
    <3>3. Fits(c, w, lock) /\ c.pc \in Writing
      BY <1>0, <3>1 DEF Fits, Writing
    <3> QED
      BY <1>0, <2>1, <3>1, <3>2, <3>3, WriterStep
  <2> QED
    BY <2>2, <2>3
<1>4. ASSUME Releases(w) PROVE Claimed' /\ Locked'
  <2>1. w \in Writers
    BY <1>4 DEF Releases, At, Writers, Writing
  <2>2. row.state = "mutating" /\ call[w].home \in Resting
    BY <2>1 DEF Claimed
  <2>3. row'.state # "mutating"
    BY <1>0, <1>4, <2>2, MovedRow DEF Releases, Resting
  <2>4. Apart(w)
    BY <1>0, <1>4, GoesApart, FailsApart DEF Releases, Step, Writing
  <2> QED
    BY <1>0, <2>1, <2>3, <2>4, ApartStep
<1>5. ASSUME Rechecks(w) PROVE Claimed' /\ Locked'
  <2>1. Apart(w)
    BY <1>0, <1>5, GoesApart, AfterResumeApart, HandledApart DEF Rechecks, Step, Writing
  <2> QED
    BY <1>0, <1>a, <1>5, <2>1, ApartStep DEF Rechecks
<1> QED
  BY <1>1, <1>2, <1>3, <1>4, <1>5

LEMMA ConfirmClaimed ==
  ASSUME TypeOK, Claimed, Locked, "late" \notin raced', NEW w \in Tasks,
         Takes(w) \/ Approves(w) \/ Settles(w) \/ Leaves(w)
  PROVE  Claimed' /\ Locked'
<1>0. /\ RowOK /\ CallOK /\ call[w] \in Call /\ row.ext \in Ids \cup {0}
      /\ Fits(call[w], w, lock)
  BY Parts, RowFields DEF CallOK, Locked
<1>1. ASSUME Takes(w) PROVE Claimed' /\ Locked'
  <2>1. CASE ~(row.state = "open" /\ row.ext # 0)
    <3>1. Apart(w) /\ SameClaim
      BY <1>1, <2>1, HandledApart DEF Takes, SameClaim
    <3> QED
      BY <1>0, <3>1, ApartStep
  <2>2. CASE row.state = "open" /\ row.ext # 0
    <3> DEFINE c == [call[w] EXCEPT !.op = "approve", !.pc = "grid", !.ext = row.ext, !.sent = 0,
                                    !.home = "open"]
    <3>1. c \in Call /\ c.pc = "grid" /\ c.op = "approve" /\ c.home = "open"
      <4>1. "grid" \in Step /\ "approve" \in Op
        BY DEF Step, Op
      <4>2. c \in Call
        BY <1>0, <4>1, SetApprove, Values
      <4> QED
        BY <1>0, <4>2 DEF Call
    <3>2. Turns(w, c) /\ lock' = lock /\ row' = Moved("open", "mutating")
      BY <1>1, <2>2 DEF Takes
    <3> HIDE DEF c
    <3>3. call[w].pc = "take" /\ lock = w
      BY <1>0, <1>1 DEF Takes, At, Fits
    <3>4. Fits(c, w, lock) /\ c.pc \in Writing
      BY <3>1, <3>3 DEF Fits, Writing
    <3>5. row'.state = "mutating" /\ row'.rest = "open" /\ row'.aged = FALSE
      BY <1>0, <2>2, <3>2, MovedRow
    <3>6. Writers = {}
      BY <2>2, Quiescent
    <3> QED
      BY <1>0, <3>1, <3>2, <3>4, <3>5, <3>6, EntersStep DEF Resting
  <2> QED
    BY <2>1, <2>2
<1>2. ASSUME Approves(w) PROVE Claimed' /\ Locked'
  <2>1. w \in Writers /\ UNCHANGED row /\ call[w].op = "approve"
    BY <1>0, <1>2 DEF Approves, At, Writers, Writing, Fits
  <2>2. CASE GivesUp(w)
    BY <2>1, <2>2, GivesUpClaimed
  <2>3. CASE Goes(w, "settle")
    <3> DEFINE c == [call[w] EXCEPT !.pc = "settle"]
    <3>1. c \in Call /\ c.pc = "settle" /\ c.op = call[w].op /\ c.home = call[w].home
      <4>1. "settle" \in Step
        BY DEF Step
      <4>2. c \in Call
        BY <1>0, <4>1, SetPc
      <4> QED
        BY <1>0, <4>2 DEF Call
    <3>2. Turns(w, c) /\ lock' = lock
      BY <2>3 DEF Goes
    <3> HIDE DEF c
    <3>3. Fits(c, w, lock) /\ c.pc \in Writing
      BY <1>0, <2>1, <3>1 DEF Fits, Writing
    <3> QED
      BY <1>0, <2>1, <3>1, <3>2, <3>3, WriterStep
  <2> QED
    BY <1>2, <2>2, <2>3 DEF Approves
<1>3. ASSUME Settles(w) PROVE Claimed' /\ Locked'
  <2>1. w \in Writers /\ row.state = "mutating" /\ call[w].op = "approve"
    BY <1>0, <1>3 DEF Settles, At, Writers, Writing, Fits, Claimed
  <2>2. row'.state = "confirmed"
    BY <1>0, <1>3, <2>1, MovedRow DEF Settles
  <2> DEFINE c == [call[w] EXCEPT !.pc = "leave", !.failed = row.state # "mutating"]
  <2>3. c.pc = "leave" /\ c.op = "approve"
    BY <1>0, <2>1 DEF Call
  <2>4. Turns(w, c) /\ lock' = lock
    BY <1>3 DEF Settles
  <2> HIDE DEF c
  <2>5. call'[w] = c /\ \A v \in Tasks \ {w} : call'[v] = call[v]
    BY <1>0, <2>4 DEF Turns, CallOK
  <2>6. Locked'
    BY <1>0, <2>1, <2>3, <2>4, <2>5 DEF Locked, Fits
  <2>7. Writers' = {}
    <3>1. \A v \in Writers : v = w
      BY <2>1 DEF Claimed
    <3> QED
      BY <2>3, <2>5, <3>1 DEF Writers, Writing
  <2> QED
    BY <2>2, <2>6, <2>7 DEF Claimed
<1>4. ASSUME Leaves(w) PROVE Claimed' /\ Locked'
  <2>1. row.state # "mutating"
    BY <1>4 DEF Leaves, Notes
  <2>2. SameClaim
    BY <1>0, <1>4, <2>1, MovedRow DEF Leaves, SameClaim
  <2>3. Apart(w)
    BY <1>4, HandledApart DEF Leaves
  <2> QED
    BY <1>0, <2>2, <2>3, ApartStep
<1> QED
  BY <1>1, <1>2, <1>3, <1>4

LEMMA CancelClaimed ==
  ASSUME TypeOK, Claimed, Locked, NEW w \in Tasks,
         ExpireStarts(w) \/ Drops(w) \/ RefundStarts(w) \/ Cancels(w) \/ Undoes(w)
  PROVE  Claimed' /\ Locked'
<1>0. /\ RowOK /\ CallOK /\ call[w] \in Call /\ row.ext \in Ids \cup {0} /\ row.state \in State
      /\ Fits(call[w], w, lock)
  BY Parts, RowFields DEF CallOK, Locked
<1>a. UNCHANGED row => SameClaim
  BY DEF SameClaim
<1>1. ASSUME NEW op \in {"expire", "refund"}, Withdraws(w, op), lock = None,
             row.state \in {"converting", "open", "confirmed"}
      PROVE  Claimed' /\ Locked'
  <2> DEFINE c == [Idle EXCEPT !.op = op, !.pc = "withdraw", !.ext = row.ext, !.home = row.state]
  <2>1. c \in Call /\ c.pc = "withdraw" /\ c.op = op /\ c.home = row.state
    <3>1. op \in Op /\ "withdraw" \in Step
      BY DEF Op, Step
    <3> QED
      BY <1>0, <3>1, NewHome DEF Idle
  <2>2. Turns(w, c) /\ lock' = w /\ row' = Moved(row.state, "cancelled")
    BY <1>1 DEF Withdraws
  <2> HIDE DEF c
  <2>3. Fits(c, w, lock') /\ c.pc \notin Writing \cup {"leave"}
    BY <1>1, <2>1 DEF Fits, Writing
  <2>4. Apart(w)
    BY <1>1, <2>1, <2>2, <2>3, TurnsApart
  <2> QED
    BY <1>1, <2>2, <2>4, MovedApart
<1>2. ASSUME ExpireStarts(w) PROVE Claimed' /\ Locked'
  <2>1. CASE Handled(w, {"expired"}) /\ UNCHANGED row
    BY <1>0, <1>a, <2>1, HandledApart, ApartStep
  <2>2. CASE Turns(w, [Idle EXCEPT !.op = "expire", !.pc = "drop"]) /\ lock = None /\ lock' = w
             /\ UNCHANGED row
    <3> DEFINE c == [Idle EXCEPT !.op = "expire", !.pc = "drop"]
    <3>1. c \in Call /\ c.pc = "drop" /\ c.op = "expire"
      <4>1. "expire" \in Op /\ "drop" \in Step
        BY DEF Op, Step
      <4> QED
        BY <4>1, New DEF Idle
    <3>2. Turns(w, c)
      BY <2>2
    <3> HIDE DEF c
    <3>3. Fits(c, w, lock') /\ c.pc \notin Writing \cup {"leave"}
      BY <3>1 DEF Fits, Writing
    <3>4. Apart(w)
      BY <2>2, <3>1, <3>2, <3>3, TurnsApart
    <3> QED
      BY <1>0, <1>a, <2>2, <3>4, ApartStep
  <2> QED
    BY <1>1, <1>2, <2>1, <2>2 DEF ExpireStarts
<1>3. ASSUME RefundStarts(w) PROVE Claimed' /\ Locked'
  <2>1. CASE Handled(w, {"refunded"}) /\ UNCHANGED row
    BY <1>0, <1>a, <2>1, HandledApart, ApartStep
  <2> QED
    BY <1>1, <1>3, <2>1 DEF RefundStarts
<1>4. ASSUME Drops(w) PROVE Claimed' /\ Locked'
  BY <1>4, HandledApart, MovedApart DEF Drops
<1>5. ASSUME Cancels(w) PROVE Claimed' /\ Locked'
  <2>1. Apart(w)
    <3>1. CASE \E facts \in SUBSET {"expired", "refunded"} : Handled(w, facts)
      BY <3>1, HandledApart
    <3>2. CASE Goes(w, "undo")
      <4> DEFINE c == [call[w] EXCEPT !.pc = "undo"]
      <4>1. c \in Call /\ c.pc = "undo" /\ c.op = call[w].op /\ c.home = call[w].home
        <5>1. "undo" \in Step
          BY DEF Step
        <5>2. c \in Call
          BY <1>0, <5>1, SetPc
        <5> QED
          BY <1>0, <5>2 DEF Call
      <4>2. Turns(w, c) /\ lock' = lock
        BY <3>2 DEF Goes
      <4> HIDE DEF c
      <4>3. Fits(c, w, lock') /\ c.pc \notin Writing \cup {"leave"}
        BY <1>0, <1>5, <4>1, <4>2 DEF Cancels, At, Fits, Writing
      <4> QED
        BY <4>1, <4>2, <4>3, TurnsApart
    <3> QED
      BY <1>5, <3>1, <3>2 DEF Cancels, Subject
  <2> QED
    BY <1>0, <1>a, <1>5, <2>1, ApartStep DEF Cancels
<1>6. ASSUME Undoes(w) PROVE Claimed' /\ Locked'
  <2>1. call[w].home # "mutating"
    BY <1>0, <1>6 DEF Undoes, At, Fits
  <2> QED
    BY <1>6, <2>1, FailsApart, MovedApart DEF Undoes
<1> QED
  BY <1>2, <1>3, <1>4, <1>5, <1>6

ClaimInv == TypeOK /\ Claimed /\ Locked

LEMMA ClaimStep ==
  ASSUME "late" \notin raced', ClaimInv, [Next]_vars
  PROVE  ClaimInv'
<1>1. TypeOK'
  BY TypeStep DEF ClaimInv
<1>2. CASE UNCHANGED vars
  BY <1>1, <1>2 DEF vars, ClaimInv, Claimed, Locked, Fits, Writers, At
<1>3. CASE Next
  BY <1>1, <1>3, CartClaimed, StartClaimed, CreationClaimed, MutationClaimed, ConfirmClaimed,
     CancelClaimed DEF ClaimInv, Next, Proceeds, Reactors
<1> QED
  BY <1>2, <1>3

LEMMA ClaimInit == Init => ClaimInv
<1> SUFFICES ASSUME Init PROVE ClaimInv
  OBVIOUS
<1>1. RowOK /\ CartOK /\ OrdersOK
  BY Values DEF Init, RowOK, CartOK, OrdersOK
<1>2. WhoOK /\ CallOK /\ LeftOK /\ RacedOK
  BY IdleOK, ErpAssumption DEF Init, WhoOK, CallOK, LeftOK, RacedOK
<1>3. Writers = {} /\ row.state = "none"
  BY DEF Init, Writers, At, Writing, Idle
<1>4. Claimed
  BY <1>3 DEF Claimed
<1>5. Locked
  BY DEF Init, Locked, Fits, Idle
<1> QED
  BY <1>1, <1>2, <1>4, <1>5, Parts DEF ClaimInv

Unbroken == "late" \notin raced => ClaimInv

LEMMA UnbrokenStep == Unbroken /\ [Next]_vars => Unbroken'
BY ClaimStep, RacedStep DEF Unbroken

\* Two handlers never write one order's grid at a time, however slow a creation
\* is, until the release of a confirmation ends a claim it does not own.
THEOREM OneWriterAtATime == Spec => []OneWriter
<1>1. Unbroken => OneWriter
  BY DEF Unbroken, ClaimInv, Claimed, OneWriter
<1>2. Init => Unbroken
  BY ClaimInit DEF Unbroken
<1> QED
  BY <1>1, <1>2, UnbrokenStep, PTL DEF Spec

LEMMA CancelledStep ==
  ASSUME ClaimInv, [Next]_vars, row.state = "cancelled", NEW o \in Made
  PROVE  orders'[o].held \in {orders[o].held, 0}
<1>0. OrdersOK /\ Writers = {} /\ o \in Ids
  BY Parts DEF ClaimInv, Claimed, Made
<1>1. CASE UNCHANGED orders
  BY <1>1
<1>2. ASSUME NEW w \in Tasks, Posts(w) PROVE orders'[o] = orders[o]
  BY <1>0, <1>2 DEF Posts, OrdersOK
<1>3. ASSUME NEW w \in Tasks, PutsGrid(w) PROVE FALSE
  BY <1>0, <1>3 DEF PutsGrid, At, Writers, Writing
<1>4. ASSUME NEW w \in Tasks, Approves(w) PROVE FALSE
  BY <1>0, <1>4 DEF Approves, At, Writers, Writing
<1>5. ASSUME NEW w \in Tasks, Cancels(w) PROVE orders'[o].held \in {orders[o].held, 0}
  BY <1>0, <1>5 DEF Cancels, OrdersOK
<1>6. \/ UNCHANGED orders
      \/ \E w \in Tasks : Posts(w) \/ PutsGrid(w) \/ Approves(w) \/ Cancels(w)
  <2>1. CASE UNCHANGED vars
    BY <2>1 DEF vars
  <2>2. CASE \E w \in Tasks : BuyerAdds(w) \/ Recovers(w) \/ Sweeps(w) \/ Reactors(w)
    BY <2>2 DEF BuyerAdds, Recovers, Sweeps, Reactors, ConfirmStarts, ExpireStarts,
                RefundStarts, Steady
  <2>3. CASE CartIsPaid \/ CartIsRefunded \/ CartExpires \/ ConfirmSkips \/ Ages \/ Crashes
    BY <2>3 DEF CartIsPaid, CartIsRefunded, CartExpires, ConfirmSkips, Ages, Crashes
  <2>4. ASSUME NEW w \in Tasks, Proceeds(w),
               ~(Posts(w) \/ PutsGrid(w) \/ Approves(w) \/ Cancels(w))
        PROVE  UNCHANGED orders
    BY <2>4 DEF Proceeds, Routes, Claims, Resumes, Adopts, Composes, LooksUp, Binds, Opens,
                Mutates, ReadsGrid, Releases, Rechecks, Takes, Settles, Leaves, Drops, Undoes,
                Steady
  <2> QED
    BY <2>1, <2>2, <2>3, <2>4 DEF Next
<1> QED
  BY <1>1, <1>2, <1>3, <1>4, <1>5, <1>6

\* A cancelled order is never given units again, whatever was in flight, until
\* the release of a confirmation ends a claim it does not own.
THEOREM CancelledStaysFinal == Spec => CancelledIsFinal
<1>1. Unbroken /\ [Next]_vars =>
        [row.state = "cancelled" => \/ \A o \in Made : orders'[o].held \in {orders[o].held, 0}
                                   \/ "late" \in raced]_vars
  BY CancelledStep DEF Unbroken
<1>2. Init => Unbroken
  BY ClaimInit DEF Unbroken
<1> QED
  BY <1>1, <1>2, UnbrokenStep, PTL DEF Spec, CancelledIsFinal

LEMMA ConfirmedStep ==
  ASSUME ClaimInv, [Next]_vars, "late" \notin raced', Home = "confirmed"
  PROVE  Home' \in {"confirmed", "cancelled"}
<1>0. RowOK /\ row.state \in {"confirmed", "mutating"} /\ Claimed /\ Locked
  BY Parts DEF ClaimInv, Home
<1>a. row' = row => Home' = Home
  BY DEF Home
<1>b. ASSUME NEW from, NEW to, row' = Moved(from, to),
             from \notin {"confirmed", "mutating"}
      PROVE  row' = row
  BY <1>0, <1>b, MovedRow
<1>c. row'.state = "cancelled" => Home' = "cancelled"
  BY DEF Home
<1>1. CASE UNCHANGED vars
  BY <1>1 DEF vars, Home
<1>2. CASE CartIsPaid \/ CartIsRefunded \/ CartExpires \/ ConfirmSkips \/ Crashes
  BY <1>a, <1>2 DEF CartIsPaid, CartIsRefunded, CartExpires, ConfirmSkips, Crashes
<1>3. CASE Ages
  <2>1. row'.state = row.state /\ row'.rest = row.rest
    BY <1>0, <1>3 DEF Ages, RowOK
  <2> QED
    BY <2>1 DEF Home
<1>4. ASSUME NEW w \in Tasks,
             \/ BuyerAdds(w) \/ Recovers(w) \/ Sweeps(w) \/ ConfirmStarts(w)
             \/ Routes(w) \/ Resumes(w) \/ Composes(w) \/ LooksUp(w) \/ Posts(w)
             \/ ReadsGrid(w) \/ PutsGrid(w) \/ Rechecks(w) \/ Approves(w) \/ Cancels(w)
      PROVE  Home' = Home
  <2>1. row' = row
    BY <1>4 DEF BuyerAdds, Recovers, Sweeps, ConfirmStarts, Routes, Resumes, Composes, LooksUp,
                Posts, ReadsGrid, PutsGrid, Rechecks, Approves, Cancels
  <2> QED
    BY <1>a, <2>1
<1>5. ASSUME NEW w \in Tasks, Adopts(w) \/ Binds(w) PROVE Home' = Home
  <2>1. row'.state = row.state /\ row'.rest = row.rest
    BY <1>0, <1>5 DEF Adopts, Binds, RowOK
  <2> QED
    BY <2>1 DEF Home
<1>6. ASSUME NEW w \in Tasks, Claims(w) \/ Opens(w) \/ Drops(w) PROVE Home' = Home
  BY <1>a, <1>b, <1>6 DEF Claims, Opens, Drops
<1>7. ASSUME NEW w \in Tasks, Takes(w) PROVE Home' = Home
  BY <1>0, <1>a, <1>7 DEF Takes
<1>8. ASSUME NEW w \in Tasks, Mutates(w) PROVE Home' = Home
  <2>1. CASE row.state = "confirmed"
    <3>1. row' = row \/ row' = Moved("confirmed", "mutating")
      BY <1>8, <2>1 DEF Mutates
    <3>2. row' = row \/ (row'.state = "mutating" /\ row'.rest = "confirmed")
      BY <1>0, <2>1, <3>1, MovedRow
    <3> QED
      BY <1>a, <2>1, <3>2 DEF Home
  <2>2. CASE row.state = "mutating"
    BY <1>a, <1>8, <2>2 DEF Mutates, Resting
  <2> QED
    BY <1>0, <2>1, <2>2
<1>9. ASSUME NEW w \in Tasks, Releases(w) PROVE Home' = Home
  <2>1. w \in Writers
    BY <1>9 DEF Releases, At, Writers, Writing
  <2>2. row.state = "mutating" /\ row.rest = call[w].home
    BY <1>0, <2>1 DEF Claimed
  <2>3. call[w].home = "confirmed"
    BY <2>2 DEF Home
  <2>4. row'.state = "confirmed"
    BY <1>0, <1>9, <2>2, <2>3, MovedRow DEF Releases
  <2> QED
    BY <2>4 DEF Home
<1>10. ASSUME NEW w \in Tasks, Settles(w) PROVE Home' = "confirmed"
  <2>1. w \in Writers
    BY <1>10 DEF Settles, At, Writers, Writing
  <2>2. row.state = "mutating"
    BY <1>0, <2>1 DEF Claimed
  <2>3. row'.state = "confirmed"
    BY <1>0, <1>10, <2>2, MovedRow DEF Settles
  <2> QED
    BY <2>3 DEF Home
<1>11. ASSUME NEW w \in Tasks, Leaves(w) PROVE Home' = Home
  <2>1. row.state # "mutating"
    BY <1>11 DEF Leaves, Notes
  <2>2. row' = row
    BY <1>0, <1>11, <2>1, MovedRow DEF Leaves
  <2> QED
    BY <1>a, <2>2
<1>12. ASSUME NEW w \in Tasks, ExpireStarts(w) \/ RefundStarts(w)
       PROVE  Home' \in {"confirmed", "cancelled"}
  <2>1. row' = row \/ row' = Moved(row.state, "cancelled")
    BY <1>12 DEF ExpireStarts, RefundStarts, Withdraws
  <2>2. row' = row \/ row'.state = "cancelled"
    BY <1>0, <2>1, MovedRow
  <2> QED
    BY <1>a, <1>c, <2>2
<1>13. ASSUME NEW w \in Tasks, Undoes(w) PROVE Home' = Home
  BY <1>a, <1>b, <1>13 DEF Undoes
<1> QED
  BY <1>1, <1>2, <1>3, <1>4, <1>5, <1>6, <1>7, <1>8, <1>9, <1>10, <1>11, <1>12, <1>13
     DEF Next, Proceeds, Reactors

\* Nothing demotes a confirmed order but the release of a confirmation that
\* finds the claim of a mutation: not a mutation's own release, not a sweep,
\* a failed call, a crash or a slow creation.
THEOREM ConfirmedStaysConfirmed == Spec => PaidStaysConfirmed
<1>1. Unbroken /\ [Next]_vars =>
        [Home = "confirmed" => Home' \in {"confirmed", "cancelled"} \/ "late" \in raced']_vars
  BY ConfirmedStep, RacedStep DEF Unbroken
<1>2. Init => Unbroken
  BY ClaimInit DEF Unbroken
<1> QED
  BY <1>1, <1>2, UnbrokenStep, PTL DEF Spec, PaidStaysConfirmed

----------------------------------------------------------------------------
(* A line that is not pending is in the order. *)

Early == {"adopt", "compose", "lookup", "post", "bind"}
Loose == {"converting", "cancelled"}

\* What a handler's step says of the row r, the lock l and the orders made.
Sound(c, w, r, l, made) ==
  /\ c.pc \in Early => r.ext = 0 /\ r.state \in Loose /\ (l = w \/ ~r.aged)
  /\ c.pc \in {"compose", "lookup", "post"} => made = {}
  /\ c.pc = "bind" => c.ext \in made
  /\ c.pc \in {"resume", "adopt", "withdraw", "undo", "drop"} => l = w
  /\ c.pc = "resume" => r.state # "none" /\ (r.state = "converting" => r.aged)
  /\ c.pc \in {"open", "undo", "withdraw"} => r.ext # 0
  /\ c.op = "approve" => \/ c.pc \in {"grid", "put", "approve", "settle", "leave"}
                         \/ c.pc = "release" /\ c.failed

Anchor == /\ row.ext # 0 => row.ext \in Made
          /\ row.state \in Resting \cup {"mutating"} => row.ext # 0
          /\ row.state = "none" => Made = {}

\* One handler creates, and only while the cart has no order.
CreatorInv ==
  /\ \A v, w \in Tasks : call[v].pc \in Early /\ call[w].pc \in Early => v = w
  /\ \A w \in Tasks : Sound(call[w], w, row, lock, Made)
  /\ Anchor

\* An empty cart has done nothing yet.
Begun == cart.grid = 0 =>
  /\ Quiet /\ ~cart.pending /\ row.state = "none" /\ cart.pay = "pending" /\ ~cart.expired

\* The order has the cart's grid, or was cancelled.
Good == \A o \in Made : orders[o].held = cart.grid \/ orders[o].status = "cancelled"

\* What a handler has read or sent is not newer than the cart's grid g; when
\* it is the same, the order has it.
Told(c, g, ext, made, good) ==
  /\ c.sent <= g /\ c.grid <= g
  /\ c.pc \in Writing => c.ext = ext
  /\ c.sent # 0 /\ c.pc \notin {"lookup", "post"} => made # {} /\ (c.sent = g => good)

\* The grid a handler is about to send or to approve.
Aim(c)   == IF c.pc = "put" THEN c.grid ELSE c.sent
Wrote(c) == c.op = "approve" /\ c.pc \in {"grid", "put", "approve"} /\ c.sent # 0

AckInv ==
  /\ Begun
  /\ ~cart.pending => Good /\ (Made = {} => cart.grid = 0)
  /\ \A w \in Tasks : Told(call[w], cart.grid, row.ext, Made, Good)
  /\ \A w \in Tasks : call[w].pc \in {"put", "approve"} =>
       /\ Aim(call[w]) # 0 /\ (Aim(call[w]) = cart.grid \/ cart.pending)
       /\ \A v \in Tasks : call[v].sent <= Aim(call[w])
  /\ \A w \in Tasks : Wrote(call[w]) => \A o \in Made : orders[o].held = call[w].sent

\* A step of w leaves to the other handlers what they rely on.
Holds(w) == \A v \in Tasks \ {w} : lock = v => lock' = v
Stays(w) ==
  /\ Holds(w)
  /\ Made \subseteq Made'
  /\ row'.aged => row.aged
  /\ row.state # "none" => row'.state # "none"
  /\ row'.state = "converting" => \/ row.state = "none" \/ lock = w
                                  \/ row.state = "converting" /\ row'.aged = row.aged
  /\ row.ext # 0 => row'.ext # 0
  /\ row.ext = 0 /\ row.state \in Loose => row'.state \in Loose
  /\ (row'.ext = row.ext /\ Made' = Made) \/ call[w].pc \in Early

LEMMA CreatorStep ==
  ASSUME CallOK, CreatorInv, NEW w \in Tasks, NEW c, Turns(w, c), Stays(w), Anchor',
         Sound(c, w, row', lock', Made'),
         c.pc \in Early => \A v \in Tasks \ {w} : call[v].pc \notin Early
  PROVE  CreatorInv'
<1>1. call'[w] = c /\ \A v \in Tasks \ {w} : call'[v] = call[v]
  BY DEF Turns, CallOK
<1>2. ASSUME NEW v \in Tasks \ {w} PROVE Sound(call'[v], v, row', lock', Made')
  <2>1. Sound(call[v], v, row, lock, Made) /\ call'[v] = call[v]
    BY <1>1 DEF CreatorInv
  <2>2. lock = v => lock # w /\ lock' = v
    BY DEF Stays, Holds
  <2>3. CASE call[v].pc \in Early
    <3>1. call[w].pc \notin Early
      BY <2>3 DEF CreatorInv
    <3>2. row'.ext = row.ext /\ Made' = Made
      BY <3>1 DEF Stays
    <3> QED
      BY <2>1, <2>2, <2>3, <3>2 DEF Stays, Sound, Early
  <2>4. CASE call[v].pc \notin Early
    BY <2>1, <2>2, <2>4 DEF Stays, Sound, Early
  <2> QED
    BY <2>3, <2>4
<1>3. \A v \in Tasks : Sound(call'[v], v, row', lock', Made')
  BY <1>1, <1>2
<1>4. \A u, v \in Tasks : call'[u].pc \in Early /\ call'[v].pc \in Early => u = v
  BY <1>1 DEF CreatorInv
<1> QED
  BY <1>3, <1>4 DEF CreatorInv

LEMMA MovedStays ==
  ASSUME RowOK, CreatorInv, NEW w \in Tasks, NEW from, NEW to, row' = Moved(from, to),
         UNCHANGED orders, Holds(w), to # "none",
         row.state = from /\ from \in Loose /\ row.ext = 0 => to \in Loose,
         row.state = from /\ to = "converting" => from = "none" \/ lock = w,
         row.state = from /\ to \in Resting \cup {"mutating"} => row.ext # 0
  PROVE  Stays(w) /\ Anchor' /\ row'.ext = row.ext
<1>1. row'.ext = row.ext /\ Made' = Made
  BY MovedExt, SameMade
<1>2. /\ row.state # from => row' = row
      /\ row.state = from => row'.state = to /\ row'.aged = FALSE
  BY MovedRow
<1>3. Stays(w)
  BY <1>1, <1>2 DEF Stays
<1>4. Anchor'
  BY <1>1, <1>2 DEF Anchor, CreatorInv
<1> QED
  BY <1>1, <1>3, <1>4

LEMMA SameStays ==
  ASSUME CreatorInv, NEW w \in Tasks, UNCHANGED <<row, orders>>, Holds(w)
  PROVE  Stays(w) /\ Anchor'
<1>1. Made' = Made
  BY SameMade
<1> QED
  BY <1>1 DEF Stays, Anchor, CreatorInv

\* A step that neither reads nor writes a grid.
Calm(c, w) ==
  /\ c.sent \in {0, call[w].sent} /\ c.grid \in {0, call[w].grid}
  /\ c.pc \in Writing => c.ext = row'.ext
  /\ c.sent # 0 => call[w].pc \notin {"lookup", "post"}
  /\ c.pc \notin {"put", "approve", "lookup", "post"}
  /\ ~Wrote(c)

LEMMA CalmStep ==
  ASSUME TypeOK, AckInv, Begun', NEW w \in Tasks, NEW c, Turns(w, c), Calm(c, w),
         UNCHANGED <<cart, orders>>, row'.ext = row.ext \/ Writers = {}
  PROVE  AckInv'
<1>0. CallOK /\ CartOK
  BY Parts
<1>1. call'[w] = c /\ \A v \in Tasks \ {w} : call'[v] = call[v]
  BY <1>0 DEF Turns, CallOK
<1>2. Made' = Made /\ Good' = Good
  BY DEF Made, Good
<1>3. \A v \in Tasks : call[v].sent \in Nat /\ call[v].grid \in Nat /\ call[v].sent <= cart.grid
                       /\ call[v].grid <= cart.grid
  BY <1>0, CallFields, ErpAssumption DEF CallOK, AckInv, Told, Grids
<1>4. \A v \in Tasks : call'[v].sent \in {0, call[v].sent} /\ call'[v].grid \in {0, call[v].grid}
  BY <1>1 DEF Calm
<1>5. \A v \in Tasks : Told(call'[v], cart.grid, row'.ext, Made, Good)
  <2>1. ASSUME NEW v \in Tasks \ {w} PROVE Told(call'[v], cart.grid, row'.ext, Made, Good)
    <3>1. call[v].pc \in Writing => row'.ext = row.ext
      BY DEF Writers
    <3> QED
      BY <1>1, <3>1 DEF AckInv, Told
  <2>2. Told(c, cart.grid, row'.ext, Made, Good)
    <3>1. c.sent <= cart.grid /\ c.grid <= cart.grid
      <4>1. cart.grid \in Nat
        BY <1>0, ErpAssumption DEF CartOK, Grids
      <4> QED
        BY <1>3, <4>1 DEF Calm
    <3> QED
      BY <3>1 DEF Calm, AckInv, Told
  <2> QED
    BY <1>1, <2>1, <2>2
<1>6. ASSUME NEW u \in Tasks, call'[u].pc \in {"put", "approve"}
      PROVE  /\ Aim(call'[u]) # 0 /\ (Aim(call'[u]) = cart.grid \/ cart.pending)
             /\ \A v \in Tasks : call'[v].sent <= Aim(call'[u])
  <2>1. u # w /\ call'[u] = call[u]
    BY <1>1, <1>6 DEF Calm
  <2>2. /\ Aim(call[u]) # 0 /\ (Aim(call[u]) = cart.grid \/ cart.pending)
        /\ \A v \in Tasks : call[v].sent <= Aim(call[u])
    BY <1>6, <2>1 DEF AckInv
  <2>3. Aim(call[u]) \in Nat
    BY <1>3 DEF Aim
  <2>4. \A v \in Tasks : call'[v].sent <= Aim(call[u])
    BY <1>3, <1>4, <2>2, <2>3
  <2> QED
    BY <2>1, <2>2, <2>4
<1>7. \A u \in Tasks : Wrote(call'[u]) => \A o \in Made : orders[o].held = call'[u].sent
  BY <1>1 DEF Calm, AckInv
<1>8. ~cart.pending => Good /\ (Made = {} => cart.grid = 0)
  BY DEF AckInv
<1>9. cart' = cart /\ orders' = orders
  OBVIOUS
<1> QED
  BY <1>2, <1>5, <1>6, <1>7, <1>8, <1>9 DEF AckInv

----------------------------------------------------------------------------
(* The steps, one lemma per group. *)

LEMMA BegunStep ==
  ASSUME TypeOK, Begun, [Next]_vars
  PROVE  Begun'
<1>0. CartOK /\ CallOK /\ cart.grid \in Nat
  BY Parts, ErpAssumption DEF CartOK, Grids
<1>1. CASE UNCHANGED vars
  BY <1>1 DEF vars, Begun, Quiet
<1>2. CASE cart.grid # 0 /\ Next
  <2>1. cart'.grid = cart.grid \/ cart'.grid = cart.grid + 1
    <3>1. CASE cart' = cart
      BY <3>1
    <3>2. CASE CartIsPaid \/ CartIsRefunded \/ CartExpires
      BY <1>0, <3>2 DEF CartIsPaid, CartIsRefunded, CartExpires, CartOK
    <3>3. ASSUME NEW w \in Tasks, BuyerAdds(w) \/ ReadsGrid(w) \/ PutsGrid(w)
          PROVE  cart'.grid = cart.grid \/ cart'.grid = cart.grid + 1
      BY <1>0, <3>3 DEF BuyerAdds, ReadsGrid, PutsGrid, CartOK
    <3>4. ASSUME NEW w \in Tasks,
                 Recovers(w) \/ Sweeps(w) \/ Reactors(w) \/ Proceeds(w),
                 ~(ReadsGrid(w) \/ PutsGrid(w))
          PROVE  cart' = cart
      BY <3>4 DEF Recovers, Sweeps, Reactors, Proceeds, ConfirmStarts, ExpireStarts, RefundStarts,
                  Routes, Claims, Resumes, Adopts, Composes, LooksUp, Posts, Binds, Opens, Mutates,
                  Releases, Rechecks, Takes, Approves, Settles, Leaves, Drops, Cancels, Undoes,
                  Steady
    <3>5. CASE ConfirmSkips \/ Ages \/ Crashes
      BY <3>5 DEF ConfirmSkips, Ages, Crashes
    <3> QED
      BY <1>2, <3>1, <3>2, <3>3, <3>4, <3>5 DEF Next
  <2>2. cart'.grid # 0
    BY <1>0, <1>2, <2>1
  <2> QED
    BY <2>2 DEF Begun
<1>3. CASE cart.grid = 0 /\ Next
  <2>1. Quiet /\ ~cart.pending /\ row.state = "none" /\ cart.pay = "pending" /\ ~cart.expired
    BY <1>3 DEF Begun
  <2>2. \A w \in Tasks : call[w].op = "none" /\ call[w].pc = "idle"
    BY <2>1 DEF Quiet, Idle
  <2>3. ASSUME NEW w \in Tasks PROVE ~Proceeds(w)
    BY <2>2 DEF Proceeds, At, Routes, Claims, Resumes, Adopts, Composes, LooksUp, Posts, Binds,
                Opens, Mutates, ReadsGrid, PutsGrid, Releases, Rechecks, Takes, Approves, Settles,
                Leaves, Drops, Cancels, Undoes
  <2>4. ASSUME NEW w \in Tasks PROVE ~(Recovers(w) \/ Sweeps(w) \/ Reactors(w))
    BY <2>1 DEF Recovers, Sweeps, Busy, Reactors, ConfirmStarts, ExpireStarts, RefundStarts
  <2>5. ~(CartIsPaid \/ CartIsRefunded \/ CartExpires \/ ConfirmSkips \/ Ages \/ Crashes)
    BY <1>3, <2>1 DEF CartIsPaid, CartIsRefunded, CartExpires, ConfirmSkips, Ages, Busy, Crashes,
                      Quiet
  <2>6. PICK w \in Tasks : BuyerAdds(w)
    BY <1>3, <2>3, <2>4, <2>5 DEF Next
  <2>7. cart'.grid = 1
    BY <1>0, <1>3, <2>6 DEF BuyerAdds, CartOK
  <2> QED
    BY <2>7 DEF Begun
<1> QED
  BY <1>1, <1>2, <1>3

LEMMA Started ==
  ASSUME Begun, CartOK, \/ \E w \in Tasks : call[w].pc # "idle"
                        \/ row.state # "none" \/ cart.pending \/ cart.expired \/ cart.pay # "pending"
  PROVE  cart.grid # 0
BY DEF Begun, Quiet, Idle

\* The calls a handler goes on with.
Like(c, d) == /\ c.op = d.op /\ c.ext = d.ext /\ c.sent = d.sent /\ c.grid = d.grid
              /\ c.failed = d.failed

LEMMA GoesShape ==
  ASSUME CallOK, NEW w \in Tasks, NEW pc \in Step, Goes(w, pc)
  PROVE  \E c \in Call : Turns(w, c) /\ Like(c, call[w]) /\ c.pc = pc /\ lock' = lock
<1> DEFINE c == [call[w] EXCEPT !.pc = pc]
<1>1. call[w] \in Call
  BY DEF CallOK
<1>2. c \in Call
  BY <1>1, SetPc
<1>3. Like(c, call[w]) /\ c.pc = pc
  BY <1>1 DEF Call, Like
<1>4. Turns(w, c) /\ lock' = lock
  BY DEF Goes
<1> HIDE DEF c
<1> QED
  BY <1>2, <1>3, <1>4

LEMMA HandledShape ==
  ASSUME NEW w \in Tasks, NEW facts, Handled(w, facts)
  PROVE  Turns(w, Idle) /\ Holds(w)
BY DEF Handled, Holds, Lets

LEMMA AfterResumeShape ==
  ASSUME CallOK, NEW w \in Tasks, AfterResume(w)
  PROVE  /\ Holds(w)
         /\ \E c \in Call : /\ Turns(w, c) /\ c.sent = 0 /\ c.grid \in {0, call[w].grid}
                            /\ c.pc \in {"mutate", "idle"} /\ c.op # "approve"
<1>1. CASE call[w].op = "comment"
  <2> DEFINE c == [call[w] EXCEPT !.pc = "mutate", !.sent = 0]
  <2>1. call[w] \in Call /\ "mutate" \in Step
    BY DEF CallOK, Step
  <2>2. c \in Call
    BY <2>1, SetSent, Values
  <2>3. c.sent = 0 /\ c.grid = call[w].grid /\ c.pc = "mutate" /\ c.op = "comment"
    BY <1>1, <2>1 DEF Call
  <2>4. Turns(w, c) /\ Holds(w)
    BY <1>1 DEF AfterResume, Holds, Lets
  <2> HIDE DEF c
  <2> QED
    BY <2>2, <2>3, <2>4
<1>2. CASE call[w].op # "comment"
  <2>1. Turns(w, Idle) /\ Holds(w)
    BY <1>2, HandledShape DEF AfterResume
  <2> QED
    BY <2>1, IdleOK DEF Idle
<1> QED
  BY <1>1, <1>2

LEMMA GivesUpShape ==
  ASSUME CallOK, NEW w \in Tasks, GivesUp(w)
  PROVE  /\ Holds(w)
         /\ \E c \in Call : /\ Turns(w, c) /\ c.sent \in {0, call[w].sent}
                            /\ c.grid \in {0, call[w].grid} /\ c.pc \in {"release", "idle"}
                            /\ c.pc = "release" => /\ c.failed /\ c.op = call[w].op
                                                   /\ c.ext = call[w].ext
                            /\ c.pc = "idle" => c = Idle
<1>1. CASE call[w].op # "sweep"
  <2> DEFINE c == [call[w] EXCEPT !.pc = "release", !.failed = TRUE]
  <2>1. call[w] \in Call /\ "release" \in Step
    BY DEF CallOK, Step
  <2>2. c \in Call
    BY <2>1, SetFailed
  <2>3. /\ c.sent = call[w].sent /\ c.grid = call[w].grid /\ c.pc = "release" /\ c.failed
        /\ c.op = call[w].op /\ c.ext = call[w].ext
    BY <2>1 DEF Call
  <2>4. Turns(w, c) /\ Holds(w)
    BY <1>1 DEF GivesUp, Holds
  <2> HIDE DEF c
  <2> QED
    BY <2>2, <2>3, <2>4
<1>2. CASE call[w].op = "sweep"
  <2>1. Turns(w, Idle) /\ Holds(w)
    BY <1>2, HandledShape DEF GivesUp, Fails
  <2> QED
    BY <2>1, IdleOK DEF Idle
<1> QED
  BY <1>1, <1>2

OrderInv == ClaimInv /\ SingleOrder /\ CreatorInv /\ AckInv

LEMMA OrderFacts ==
  ASSUME OrderInv
  PROVE  /\ TypeOK /\ RowOK /\ CartOK /\ OrdersOK /\ WhoOK /\ CallOK /\ Claimed /\ Locked
         /\ SingleOrder /\ CreatorInv /\ AckInv /\ Anchor /\ Begun
         /\ \A w \in Tasks : call[w] \in Call /\ Sound(call[w], w, row, lock, Made)
         /\ \A w \in Tasks : Told(call[w], cart.grid, row.ext, Made, Good)
         /\ row.ext \in Ids \cup {0} /\ row.state \in State /\ row.rest \in State
         /\ cart.grid \in Nat
<1>1. TypeOK /\ Claimed /\ Locked /\ SingleOrder /\ CreatorInv /\ AckInv
  BY DEF OrderInv, ClaimInv
<1>2. RowOK /\ CartOK /\ OrdersOK /\ WhoOK /\ CallOK
  BY <1>1, Parts
<1>3. row.ext \in Ids \cup {0} /\ row.state \in State /\ row.rest \in State
  BY <1>2, RowFields
<1>4. cart.grid \in Nat
  BY <1>2, ErpAssumption DEF CartOK, Grids
<1>5. \A w \in Tasks : call[w] \in Call
  BY <1>2 DEF CallOK
<1>6. Anchor /\ \A w \in Tasks : Sound(call[w], w, row, lock, Made)
  BY <1>1 DEF CreatorInv
<1>7. Begun /\ \A w \in Tasks : Told(call[w], cart.grid, row.ext, Made, Good)
  BY <1>1 DEF AckInv
<1> QED
  BY <1>1, <1>2, <1>3, <1>4, <1>5, <1>6, <1>7

LEMMA IdleSound ==
  /\ \A w \in Tasks : \A r, l, made : Sound(Idle, w, r, l, made)
  /\ \A w \in Tasks : Calm(Idle, w)
  /\ Idle.pc \notin Early
BY DEF Sound, Idle, Early, Calm, Writing, Wrote

\* A step that leaves cart, orders and row alone.
LEMMA StillStep ==
  ASSUME OrderInv, Begun', NEW w \in Tasks, NEW c, Turns(w, c), Holds(w), Calm(c, w),
         UNCHANGED <<row, cart, orders>>, Sound(c, w, row, lock', Made),
         c.pc \in Early => \A v \in Tasks \ {w} : call[v].pc \notin Early
  PROVE  CreatorInv' /\ AckInv'
<1>1. TypeOK /\ CallOK /\ CreatorInv /\ AckInv
  BY OrderFacts
<1>2. Stays(w) /\ Anchor' /\ Made' = Made
  BY <1>1, SameStays, SameMade
<1>3. CreatorInv'
  BY <1>1, <1>2, CreatorStep
<1>4. AckInv'
  BY <1>1, CalmStep
<1> QED
  BY <1>3, <1>4

LEMMA EndStep ==
  ASSUME OrderInv, Begun', NEW w \in Tasks, NEW facts, Handled(w, facts),
         UNCHANGED <<row, cart, orders>>
  PROVE  CreatorInv' /\ AckInv'
BY HandledShape, IdleSound, StillStep

\* A step that moves the row, and leaves cart and orders alone.
LEMMA MovedStep ==
  ASSUME OrderInv, Begun', NEW w \in Tasks, NEW c, Turns(w, c), Holds(w), Calm(c, w),
         UNCHANGED <<cart, orders>>, NEW from, NEW to, row' = Moved(from, to), to # "none",
         row.state = from /\ from \in Loose /\ row.ext = 0 => to \in Loose,
         row.state = from /\ to = "converting" => from = "none" \/ lock = w,
         row.state = from /\ to \in Resting \cup {"mutating"} => row.ext # 0,
         Sound(c, w, row', lock', Made),
         c.pc \in Early => \A v \in Tasks \ {w} : call[v].pc \notin Early
  PROVE  CreatorInv' /\ AckInv'
<1>1. TypeOK /\ RowOK /\ CallOK /\ CreatorInv /\ AckInv
  BY OrderFacts
<1>2. Stays(w) /\ Anchor' /\ row'.ext = row.ext /\ Made' = Made
  BY <1>1, MovedStays, SameMade
<1>3. CreatorInv'
  BY <1>1, <1>2, CreatorStep
<1>4. AckInv'
  BY <1>1, <1>2, CalmStep
<1> QED
  BY <1>3, <1>4

----------------------------------------------------------------------------

LEMMA CommentAck ==
  ASSUME OrderInv, Begun', NEW w \in Tasks, BuyerAdds(w) \/ Recovers(w)
  PROVE  CreatorInv' /\ AckInv'
<1> DEFINE c == [Idle EXCEPT !.op = "comment", !.pc = "route"]
<1>0. /\ c.op = "comment" /\ c.pc = "route" /\ c.sent = 0 /\ c.grid = 0 /\ Turns(w, c)
      /\ UNCHANGED <<row, orders, lock>>
  BY DEF BuyerAdds, Recovers, Starts, Idle
<1> HIDE DEF c
<1>1. /\ TypeOK /\ CallOK /\ CartOK /\ CreatorInv /\ AckInv /\ cart.grid \in Nat
      /\ Sound(c, w, row, lock', Made) /\ Holds(w) /\ Calm(c, w) /\ c.pc \notin Early
  <2>1. Holds(w) /\ c.pc \notin Early /\ c.pc \notin Writing
    BY <1>0 DEF Holds, Early, Writing
  <2>2. Calm(c, w) /\ Sound(c, w, row, lock', Made)
    BY <1>0, <2>1 DEF Calm, Wrote, Sound, Early
  <2> QED
    BY <2>1, <2>2, OrderFacts
<1>2. CASE Recovers(w)
  BY <1>0, <1>1, <1>2, StillStep DEF Recovers
<1>3. CASE BuyerAdds(w)
  <2>1. CreatorInv'
    BY <1>0, <1>1, SameStays, SameMade, CreatorStep
  <2>2. cart'.grid = cart.grid + 1 /\ cart'.pending
    BY <1>1, <1>3 DEF BuyerAdds, CartOK
  <2>3. call'[w] = c /\ \A v \in Tasks \ {w} : call'[v] = call[v]
    BY <1>0, <1>1 DEF Turns, CallOK
  <2>4. \A v \in Tasks : call[v].sent \in Nat /\ call[v].grid \in Nat /\ call[v].sent <= cart.grid
                         /\ call[v].grid <= cart.grid
    BY <1>1, CallFields, ErpAssumption DEF CallOK, AckInv, Told, Grids
  <2>5. Made' = Made
    BY <1>0, SameMade
  <2>6. ASSUME NEW v \in Tasks PROVE Told(call'[v], cart'.grid, row'.ext, Made', Good')
    <3>1. call'[v].sent < cart'.grid /\ call'[v].grid < cart'.grid /\ call'[v].sent # cart'.grid
      BY <1>0, <1>1, <2>2, <2>3, <2>4
    <3>2. /\ call'[v].pc \in Writing => call'[v].ext = row.ext
          /\ call'[v].sent # 0 /\ call'[v].pc \notin {"lookup", "post"} => Made # {}
      BY <1>0, <1>1, <2>3 DEF AckInv, Told, Writing
    <3>3. call'[v].sent <= cart'.grid /\ call'[v].grid <= cart'.grid
      BY <1>0, <1>1, <2>2, <2>3, <2>4
    <3> QED
      BY <1>0, <2>5, <3>1, <3>2, <3>3 DEF Told
  <2>7. ASSUME NEW u \in Tasks, call'[u].pc \in {"put", "approve"}
        PROVE  Aim(call'[u]) # 0 /\ \A v \in Tasks : call'[v].sent <= Aim(call'[u])
    <3>1. u # w /\ call'[u] = call[u]
      BY <1>0, <2>3, <2>7
    <3>2. Aim(call[u]) # 0 /\ \A v \in Tasks : call[v].sent <= Aim(call[u])
      BY <1>1, <2>7, <3>1 DEF AckInv
    <3>3. Aim(call[u]) \in Nat
      BY <2>4 DEF Aim
    <3> QED
      BY <1>0, <2>3, <3>1, <3>2, <3>3
  <2>8. \A u \in Tasks : Wrote(call'[u]) => \A o \in Made' : orders'[o].held = call'[u].sent
    BY <1>0, <1>1, <2>3, <2>5 DEF AckInv, Calm
  <2> QED
    BY <2>1, <2>2, <2>6, <2>7, <2>8 DEF AckInv
<1> QED
  BY <1>2, <1>3

LEMMA CartAck ==
  ASSUME raced' = {}, OrderInv, Begun',
         CartIsPaid \/ CartIsRefunded \/ CartExpires \/ ConfirmSkips \/ Ages \/ Crashes
  PROVE  CreatorInv' /\ AckInv'
<1>0. /\ RowOK /\ CartOK /\ CreatorInv /\ AckInv /\ cart.grid \in Nat
  BY OrderFacts
<1>1. ASSUME CartIsPaid \/ CartIsRefunded \/ CartExpires \/ ConfirmSkips
      PROVE  CreatorInv' /\ AckInv'
  <2>1. cart'.grid = cart.grid /\ cart'.pending = cart.pending
    BY <1>0, <1>1 DEF CartIsPaid, CartIsRefunded, CartExpires, ConfirmSkips, CartOK
  <2>2. UNCHANGED <<row, orders, lock, call>>
    BY <1>1 DEF CartIsPaid, CartIsRefunded, CartExpires, ConfirmSkips
  <2>3. CreatorInv'
    BY <1>0, <2>2 DEF CreatorInv, Anchor, Made
  <2>4. Good' = Good /\ Made' = Made
    BY <2>1, <2>2 DEF Good, Made
  <2> QED
    BY <1>0, <2>1, <2>2, <2>3, <2>4 DEF AckInv
<1>2. ASSUME Ages PROVE CreatorInv' /\ AckInv'
  <2>1. /\ row'.ext = row.ext /\ row'.state = row.state /\ row'.aged
        /\ UNCHANGED <<cart, orders, lock, call>>
    BY <1>0, <1>2 DEF Ages, RowOK
  <2>2. \A v \in Tasks : call[v].pc \notin Creating \cup Writing
    BY <1>2 DEF Ages, Notes, Creators, Writers
  <2>3. Made' = Made /\ Good' = Good
    BY <2>1 DEF Made, Good
  <2>4. ASSUME NEW v \in Tasks PROVE Sound(call'[v], v, row', lock', Made')
    <3>1. Sound(call[v], v, row, lock, Made)
      BY <1>0 DEF CreatorInv
    <3>2. call[v].pc \in Early => call[v].pc = "adopt"
      BY <2>2 DEF Early, Creating
    <3> QED
      BY <2>1, <2>3, <3>1, <3>2 DEF Sound
  <2>5. CreatorInv'
    BY <1>0, <2>1, <2>3, <2>4 DEF CreatorInv, Anchor
  <2> QED
    BY <1>0, <2>1, <2>3, <2>5 DEF AckInv
<1>3. ASSUME Crashes PROVE CreatorInv' /\ AckInv'
  <2>1. (\A v \in Tasks : call'[v] = Idle) /\ UNCHANGED <<row, cart, orders>>
    BY <1>3 DEF Crashes
  <2>2. Made' = Made /\ Good' = Good
    BY <2>1 DEF Made, Good
  <2>3. CreatorInv'
    BY <1>0, <2>1, <2>2, IdleSound DEF CreatorInv, Anchor
  <2>4. /\ \A v \in Tasks : call'[v].sent = 0 /\ call'[v].grid = 0 /\ call'[v].pc = "idle"
        /\ 0 <= cart.grid
    BY <1>0, <2>1 DEF Idle
  <2>5. \A v \in Tasks : Told(call'[v], cart'.grid, row'.ext, Made', Good')
    BY <2>1, <2>4 DEF Told, Writing
  <2>6. \A v \in Tasks : ~Wrote(call'[v])
    BY <2>4 DEF Wrote
  <2> QED
    BY <1>0, <2>1, <2>2, <2>3, <2>4, <2>5, <2>6 DEF AckInv
<1> QED
  BY <1>1, <1>2, <1>3

LEMMA StartAck ==
  ASSUME raced' = {}, OrderInv, Begun', NEW w \in Tasks,
         Sweeps(w) \/ ConfirmStarts(w) \/ ExpireStarts(w) \/ RefundStarts(w)
  PROVE  CreatorInv' /\ AckInv'
<1>0. /\ RowOK /\ CallOK /\ CreatorInv /\ Claimed /\ Anchor /\ UNCHANGED <<cart, orders>>
      /\ \A v \in Tasks : Sound(call[v], v, row, lock, Made)
      /\ SingleOrder /\ WhoOK
  BY OrderFacts DEF Sweeps, ConfirmStarts, ExpireStarts, RefundStarts, Steady
<1>n. \A v \in Tasks : v # None
  BY ErpAssumption
<1>1. ASSUME NEW op \in {"expire", "refund"}, Withdraws(w, op), lock = None,
             row.ext # 0, row.state \in {"converting", "open", "confirmed"}
      PROVE  CreatorInv' /\ AckInv'
  <2> DEFINE c == [Idle EXCEPT !.op = op, !.pc = "withdraw", !.ext = row.ext, !.home = row.state]
  <2>1. c.op = op /\ c.pc = "withdraw" /\ c.sent = 0 /\ c.grid = 0
    BY DEF Idle
  <2>2. Turns(w, c) /\ lock' = w /\ row' = Moved(row.state, "cancelled")
    BY <1>1 DEF Withdraws
  <2> HIDE DEF c
  <2>3. Holds(w) /\ c.pc \notin Early /\ c.pc \notin Writing
    BY <1>n, <1>1, <2>1, <2>2 DEF Holds, Early, Writing
  <2>4. row'.ext = row.ext
    BY <1>0, <2>2, MovedExt
  <2>5. Calm(c, w) /\ Sound(c, w, row', lock', Made)
    BY <1>1, <2>1, <2>2, <2>3, <2>4 DEF Calm, Wrote, Sound, Early
  <2> QED
    BY <1>0, <1>1, <2>2, <2>3, <2>5, MovedStep DEF Resting, Loose
<1>2. ASSUME ExpireStarts(w) PROVE CreatorInv' /\ AckInv'
  <2> DEFINE c == [Idle EXCEPT !.op = "expire", !.pc = "drop"]
  <2>1. c.op = "expire" /\ c.pc = "drop" /\ c.sent = 0 /\ c.grid = 0
    BY DEF Idle
  <2> HIDE DEF c
  <2>2. CASE Turns(w, c) /\ lock' = w /\ row' = row
    <3>1. Holds(w) /\ c.pc \notin Early /\ c.pc \notin Writing
      BY <1>2, <1>n, <2>1, <2>2 DEF Holds, Early, Writing, ExpireStarts
    <3>2. Calm(c, w) /\ Sound(c, w, row, lock', Made)
      BY <2>1, <2>2, <3>1 DEF Calm, Wrote, Sound, Early
    <3> QED
      BY <1>0, <2>2, <3>1, <3>2, StillStep
  <2>3. CASE Handled(w, {"expired"}) /\ row' = row
    BY <1>0, <2>3, EndStep
  <2>4. CASE row.state \in {"converting", "open"} /\ row.ext # 0 /\ Withdraws(w, "expire")
    BY <1>1, <1>2, <2>4 DEF ExpireStarts
  <2> QED
    BY <1>2, <2>2, <2>3, <2>4 DEF ExpireStarts, c
<1>3. ASSUME RefundStarts(w) PROVE CreatorInv' /\ AckInv'
  <2>1. CASE Handled(w, {"refunded"}) /\ row' = row
    BY <1>0, <2>1, EndStep
  <2>2. CASE row.state = "confirmed" /\ row.ext # 0 /\ Withdraws(w, "refund")
    BY <1>1, <1>3, <2>2 DEF RefundStarts
  <2> QED
    BY <1>3, <2>1, <2>2 DEF RefundStarts
<1>4. ASSUME ConfirmStarts(w) PROVE CreatorInv' /\ AckInv'
  <2>1. CASE Handled(w, {"paid"}) /\ row' = row
    BY <1>0, <2>1, EndStep
  <2>2. CASE ~(Handled(w, {"paid"}) /\ row' = row)
    <3>1. PICK pc \in {"claim", "open", "adopt", "take"} :
             /\ Turns(w, [Idle EXCEPT !.op = "confirm", !.pc = pc, !.ext = row.ext])
             /\ pc = "open" => row.ext # 0
             /\ pc = "adopt" => row.ext = 0 /\ row.state = "converting"
      BY <1>4, <2>2 DEF ConfirmStarts
    <3>2. lock = None /\ lock' = w /\ row' = row
          /\ \A v \in Tasks : call[v].pc \notin Creating
      BY <1>4, <2>2 DEF ConfirmStarts, Notes, Creators
    <3> DEFINE c == [Idle EXCEPT !.op = "confirm", !.pc = pc, !.ext = row.ext]
    <3>3. c.op = "confirm" /\ c.pc = pc /\ c.sent = 0 /\ c.grid = 0
      BY DEF Idle
    <3>4. Turns(w, c)
      BY <3>1
    <3> HIDE DEF c
    <3>5. Holds(w) /\ c.pc \notin Writing
      BY <1>n, <3>2, <3>3 DEF Holds, Writing
    <3>6. \A v \in Tasks : call[v].pc \notin Early
      BY <1>0, <1>n, <3>2 DEF Sound, Early, Creating
    <3>7. Calm(c, w)
      BY <3>3, <3>5 DEF Calm, Wrote
    <3>8. Sound(c, w, row, lock', Made)
      BY <3>1, <3>2, <3>3 DEF Sound, Early, Loose
    <3> QED
      BY <1>0, <3>2, <3>4, <3>5, <3>6, <3>7, <3>8, StillStep
  <2> QED
    BY <2>1, <2>2
<1>5. ASSUME Sweeps(w) PROVE CreatorInv' /\ AckInv'
  <2>1. PICK op \in {"sweep", "resume"}, pc \in {"grid", "open", "resume"} :
           /\ Turns(w, [Idle EXCEPT !.op = op, !.pc = pc, !.ext = row.ext, !.home = row.rest])
           /\ pc = "open" => row.ext # 0
           /\ pc = "resume" => lock = None /\ lock' = w
           /\ pc # "resume" => lock' = lock
    BY <1>5 DEF Sweeps
  <2> DEFINE c == [Idle EXCEPT !.op = op, !.pc = pc, !.ext = row.ext, !.home = row.rest]
  <2>2. c.op = op /\ c.pc = pc /\ c.sent = 0 /\ c.grid = 0 /\ c.ext = row.ext
    BY DEF Idle
  <2>3. Turns(w, c)
    BY <2>1
  <2> HIDE DEF c
  <2>4. Holds(w) /\ c.pc \notin Early
    BY <1>n, <2>1, <2>2 DEF Holds, Early
  <2>5. row' = row /\ row.aged /\ row.state \in Busy
    BY <1>5 DEF Sweeps
  <2>6. Calm(c, w) /\ Sound(c, w, row, lock', Made)
    <3>1. Calm(c, w)
      BY <2>1, <2>2, <2>5 DEF Calm, Wrote
    <3>2. Sound(c, w, row, lock', Made)
      BY <2>1, <2>2, <2>4, <2>5 DEF Sound, Early, Busy
    <3> QED
      BY <3>1, <3>2
  <2> QED
    BY <1>0, <2>3, <2>4, <2>5, <2>6, StillStep
<1> QED
  BY <1>2, <1>3, <1>4, <1>5

LEMMA GoesStill ==
  ASSUME OrderInv, Begun', NEW w \in Tasks, NEW pc \in Step, Goes(w, pc),
         UNCHANGED <<row, cart, orders>>, call[w].op # "approve",
         call[w].pc \notin {"lookup", "post"},
         pc \notin {"put", "approve", "lookup", "post", "resume", "adopt", "withdraw", "undo",
                    "drop", "open"} \cup Writing \cup Early
  PROVE  CreatorInv' /\ AckInv'
<1>1. PICK c \in Call : Turns(w, c) /\ Like(c, call[w]) /\ c.pc = pc /\ lock' = lock
  BY GoesShape, OrderFacts
<1>2. Calm(c, w) /\ Sound(c, w, row, lock', Made) /\ Holds(w)
  BY <1>1 DEF Calm, Like, Sound, Wrote, Holds, Early
<1> QED
  BY <1>1, <1>2, StillStep

LEMMA AfterResumeStill ==
  ASSUME OrderInv, Begun', NEW w \in Tasks, AfterResume(w), UNCHANGED <<cart, orders>>,
         \/ UNCHANGED row
         \/ row' = Moved("converting", "open") /\ (row.state = "converting" => row.ext # 0)
  PROVE  CreatorInv' /\ AckInv'
<1>1. PICK c \in Call : /\ Turns(w, c) /\ c.sent = 0 /\ c.grid \in {0, call[w].grid}
                        /\ c.pc \in {"mutate", "idle"} /\ c.op # "approve"
  BY AfterResumeShape, OrderFacts
<1>2. /\ Calm(c, w) /\ Holds(w) /\ c.pc \notin Early
      /\ \A r : Sound(c, w, r, lock', Made)
  BY <1>1, AfterResumeShape, OrderFacts DEF Calm, Sound, Wrote, Early, Writing
<1>3. CASE UNCHANGED row
  BY <1>1, <1>2, <1>3, StillStep
<1>4. CASE row' = Moved("converting", "open") /\ (row.state = "converting" => row.ext # 0)
  BY <1>1, <1>2, <1>4, MovedStep DEF Loose
<1> QED
  BY <1>3, <1>4

LEMMA RouteAck ==
  ASSUME OrderInv, Begun', NEW w \in Tasks, Routes(w) \/ Claims(w) \/ Resumes(w)
  PROVE  CreatorInv' /\ AckInv'
<1>0. /\ RowOK /\ CallOK /\ CreatorInv /\ Anchor /\ UNCHANGED <<cart, orders>>
      /\ \A v \in Tasks : call[v] \in Call /\ Sound(call[v], v, row, lock, Made)
      /\ call[w].op # "approve" /\ call[w].pc \notin {"lookup", "post"}
      /\ row.ext \in Ids \cup {0}
  BY OrderFacts DEF Routes, Claims, Resumes, Steady, At, Sound
<1>n. \A v \in Tasks : v # None
  BY ErpAssumption
<1>1. ASSUME Routes(w) PROVE CreatorInv' /\ AckInv'
  <2>0. UNCHANGED row
    BY <1>1 DEF Routes
  <2>1. CASE \E pc \in {"claim", "mutate"} : Goes(w, pc)
    <3>1. PICK pc \in {"claim", "mutate"} : Goes(w, pc)
      BY <2>1
    <3>2. pc \in Step /\ pc \notin Writing \cup Early
      BY DEF Step, Writing, Early
    <3> QED
      BY <1>0, <2>0, <3>1, <3>2, GoesStill
  <2>2. CASE Fails(w)
    BY <1>0, <2>0, <2>2, EndStep DEF Fails
  <2>3. CASE Turns(w, [call[w] EXCEPT !.pc = "open", !.ext = row.ext]) /\ UNCHANGED lock
             /\ row.ext # 0
    <3> DEFINE c == [call[w] EXCEPT !.pc = "open", !.ext = row.ext]
    <3>1. c.pc = "open" /\ c.op = call[w].op /\ c.sent = call[w].sent /\ c.grid = call[w].grid
      BY <1>0 DEF Call
    <3>2. Turns(w, c) /\ Holds(w)
      BY <2>3 DEF Holds
    <3> HIDE DEF c
    <3>3. Calm(c, w) /\ Sound(c, w, row, lock', Made) /\ c.pc \notin Early
      BY <1>0, <2>3, <3>1 DEF Calm, Wrote, Sound, Early, Writing
    <3> QED
      BY <1>0, <2>0, <3>2, <3>3, StillStep
  <2>4. CASE /\ Turns(w, [call[w] EXCEPT !.pc = "resume"]) /\ lock = None /\ lock' = w
             /\ row.state = "converting" /\ row.aged
    <3> DEFINE c == [call[w] EXCEPT !.pc = "resume"]
    <3>1. c.pc = "resume" /\ c.op = call[w].op /\ c.sent = call[w].sent /\ c.grid = call[w].grid
      BY <1>0 DEF Call
    <3>2. Turns(w, c) /\ Holds(w)
      BY <1>n, <2>4 DEF Holds
    <3> HIDE DEF c
    <3>3. Calm(c, w) /\ Sound(c, w, row, lock', Made) /\ c.pc \notin Early
      BY <1>0, <2>4, <3>1 DEF Calm, Wrote, Sound, Early, Writing
    <3> QED
      BY <1>0, <2>0, <3>2, <3>3, StillStep
  <2> QED
    BY <1>1, <2>1, <2>2, <2>3, <2>4 DEF Routes
<1>2. ASSUME Claims(w) PROVE CreatorInv' /\ AckInv'
  <2>0. row' = Moved("none", "converting")
    BY <1>2 DEF Claims
  <2>1. CASE row.state # "none"
    <3>1. row' = row
      BY <1>0, <2>0, <2>1, MovedRow
    <3>2. "take" \in Step /\ "take" \notin Writing \cup Early
      BY DEF Step, Writing, Early
    <3> QED
      BY <1>0, <1>2, <2>1, <3>1, <3>2, GoesStill, EndStep DEF Claims, Fails
  <2>2. CASE row.state = "none" /\ Goes(w, "compose")
    <3>1. PICK c \in Call : Turns(w, c) /\ Like(c, call[w]) /\ c.pc = "compose" /\ lock' = lock
      BY <1>0, <2>2, GoesShape DEF Step
    <3>2. row'.state = "converting" /\ ~row'.aged /\ row'.ext = row.ext /\ Made = {}
      BY <1>0, <2>0, <2>2, MovedRow, MovedExt DEF Anchor
    <3>3. row.ext = 0
      BY <1>0, <3>2 DEF Anchor
    <3>4. \A v \in Tasks : call[v].pc \notin Early
      BY <1>0, <2>2 DEF Sound, Loose
    <3>5. Calm(c, w) /\ Holds(w)
      BY <1>0, <3>1 DEF Calm, Like, Wrote, Writing, Holds
    <3>6. Sound(c, w, row', lock', Made)
      BY <1>0, <3>1, <3>2, <3>3 DEF Sound, Like, Loose
    <3> QED
      BY <1>0, <2>0, <2>2, <3>1, <3>4, <3>5, <3>6, MovedStep DEF Resting, Loose
  <2> QED
    BY <1>2, <2>1, <2>2 DEF Claims
<1>3. ASSUME Resumes(w) PROVE CreatorInv' /\ AckInv'
  <2>0. UNCHANGED row /\ At(w, "resume")
    BY <1>3 DEF Resumes
  <2>1. CASE AfterResume(w)
    BY <1>0, <2>0, <2>1, AfterResumeStill
  <2>2. CASE ~AfterResume(w)
    <3> DEFINE c == [call[w] EXCEPT !.pc = IF row.ext # 0 THEN "open" ELSE "adopt",
                                    !.ext = row.ext]
    <3>1. /\ c.pc = (IF row.ext # 0 THEN "open" ELSE "adopt")
          /\ c.op = call[w].op /\ c.sent = call[w].sent /\ c.grid = call[w].grid
      BY <1>0 DEF Call
    <3>2. Turns(w, c) /\ lock' = lock /\ row.state = "converting"
      BY <1>3, <2>2 DEF Resumes
    <3> HIDE DEF c
    <3>3. lock = w /\ row.aged
      BY <1>0, <2>0, <3>2 DEF Sound, At
    <3>4. \A v \in Tasks \ {w} : call[v].pc \notin Early
      BY <1>0, <3>3 DEF Sound
    <3>5. Calm(c, w) /\ Holds(w)
      BY <1>0, <3>1, <3>2 DEF Calm, Wrote, Writing, Holds
    <3>6. Sound(c, w, row, lock', Made)
      BY <1>0, <3>1, <3>2, <3>3 DEF Sound, Loose, Early
    <3> QED
      BY <1>0, <2>0, <3>2, <3>4, <3>5, <3>6, StillStep
  <2> QED
    BY <2>1, <2>2
<1> QED
  BY <1>1, <1>2, <1>3

\* While a handler creates the order nobody writes one.
LEMMA EarlyAlone ==
  ASSUME OrderInv, NEW w \in Tasks, call[w].pc \in Early
  PROVE  /\ Writers = {} /\ row.ext = 0 /\ row.state \in Loose /\ (lock = w \/ ~row.aged)
         /\ \A v \in Tasks \ {w} : call[v].pc \notin Early
         /\ call[w].op # "approve"
         /\ \A v \in Tasks : call[v].pc \notin {"put", "approve"} /\ ~Wrote(call[v])
<1>1. row.ext = 0 /\ row.state \in Loose /\ (lock = w \/ ~row.aged) /\ call[w].op # "approve"
  BY OrderFacts DEF Sound, Early
<1>2. Writers = {}
  BY <1>1, OrderFacts DEF Claimed, Loose
<1>3. \A v \in Tasks \ {w} : call[v].pc \notin Early
  BY OrderFacts DEF CreatorInv
<1>4. \A v \in Tasks : call[v].pc \notin Writing
  BY <1>2 DEF Writers
<1> QED
  BY <1>1, <1>2, <1>3, <1>4 DEF Writing, Wrote

\* The steps between the reading of the grid and the POST.
LEMMA ComposingStep ==
  ASSUME OrderInv, Begun', NEW w \in Tasks, NEW c, Turns(w, c), lock' = lock,
         UNCHANGED <<row, cart, orders>>, call[w].pc \in Early, Made = {},
         c.pc \in {"lookup", "post"}, c.op = call[w].op,
         c.sent <= cart.grid, c.grid <= cart.grid
  PROVE  CreatorInv' /\ AckInv'
<1>0. /\ CallOK /\ CreatorInv /\ AckInv /\ Sound(call[w], w, row, lock, Made)
  BY OrderFacts
<1>1. Made' = Made /\ Good' = Good
  BY DEF Made, Good
<1>2. CreatorInv'
  <2>1. Sound(c, w, row, lock', Made)
    BY <1>0, EarlyAlone DEF Sound, Early
  <2>2. Holds(w)
    BY DEF Holds
  <2> QED
    BY <1>0, <1>1, <2>1, <2>2, EarlyAlone, SameStays, CreatorStep
<1>3. call'[w] = c /\ \A v \in Tasks \ {w} : call'[v] = call[v]
  BY <1>0 DEF Turns, CallOK
<1>4. \A v \in Tasks : Told(call'[v], cart'.grid, row'.ext, Made', Good')
  <2>1. Told(c, cart.grid, row.ext, Made, Good)
    BY DEF Told, Writing
  <2> QED
    BY <1>0, <1>1, <1>3, <2>1 DEF AckInv
<1>5. \A v \in Tasks : call'[v].pc \notin {"put", "approve"} /\ ~Wrote(call'[v])
  BY <1>3, EarlyAlone DEF Wrote
<1> QED
  BY <1>0, <1>1, <1>2, <1>4, <1>5 DEF AckInv

LEMMA CreationAck ==
  ASSUME OrderInv, Begun', NEW w \in Tasks,
         Adopts(w) \/ Composes(w) \/ LooksUp(w) \/ Binds(w) \/ Opens(w)
  PROVE  CreatorInv' /\ AckInv'
<1>0. /\ TypeOK /\ RowOK /\ CallOK /\ CreatorInv /\ AckInv /\ Anchor /\ UNCHANGED <<cart, orders>>
      /\ call[w] \in Call /\ Sound(call[w], w, row, lock, Made)
      /\ Told(call[w], cart.grid, row.ext, Made, Good)
      /\ cart.grid \in Nat /\ row.ext \in Ids \cup {0}
      /\ Made' = Made
  BY OrderFacts, SameMade DEF Adopts, Composes, LooksUp, Binds, Opens, Steady
<1>m. 0 \notin Made
  BY DEF Made, Ids
\* The id is written to the row.
<1>1. ASSUME NEW o \in Made, NEW c, Turns(w, c), lock' = lock, row' = [row EXCEPT !.ext = o],
             c.pc = "open", c.op = call[w].op, c.sent = call[w].sent, c.grid = call[w].grid,
             call[w].pc \in {"adopt", "bind"}
      PROVE  CreatorInv' /\ AckInv'
  <2>1. row'.ext = o /\ row'.state = row.state /\ row'.aged = row.aged
    BY <1>0, <1>1 DEF RowOK
  <2>2. call[w].pc \in Early
    BY <1>1 DEF Early
  <2>3. Stays(w)
    BY <1>0, <1>1, <1>m, <2>1, <2>2 DEF Stays, Holds
  <2>4. Anchor'
    BY <1>0, <1>1, <1>m, <2>1 DEF Anchor
  <2>5. Sound(c, w, row', lock', Made') /\ c.pc \notin Early
    BY <1>1, <1>m, <2>1, <2>2, EarlyAlone DEF Sound, Early
  <2>6. CreatorInv'
    BY <1>0, <1>1, <2>3, <2>4, <2>5, CreatorStep
  <2>7. Calm(c, w)
    BY <1>1 DEF Calm, Writing, Wrote
  <2> QED
    BY <1>0, <1>1, <2>2, <2>6, <2>7, EarlyAlone, CalmStep
<1>2. ASSUME Adopts(w) PROVE CreatorInv' /\ AckInv'
  <2>0. call[w].pc = "adopt" /\ call[w].pc \in Early
    BY <1>2 DEF Adopts, At, Early
  <2>1. CASE Anchored = {} /\ Goes(w, "compose") /\ row' = row
    <3>1. PICK c \in Call : Turns(w, c) /\ Like(c, call[w]) /\ c.pc = "compose" /\ lock' = lock
      BY <1>0, <2>1, GoesShape DEF Step
    <3>2. Calm(c, w) /\ Holds(w)
      BY <2>0, <3>1 DEF Calm, Like, Wrote, Writing, Holds
    <3>3. Sound(c, w, row, lock', Made)
      BY <2>0, <2>1, <3>1, EarlyAlone DEF Sound, Like, Anchored
    <3> QED
      BY <1>0, <2>0, <2>1, <3>1, <3>2, <3>3, EarlyAlone, StillStep
  <2>2. CASE \E o \in Made : /\ row' = [row EXCEPT !.ext = o] /\ lock' = lock
                             /\ Turns(w, [call[w] EXCEPT !.pc = "open", !.ext = o])
    <3>1. PICK o \in Made : /\ row' = [row EXCEPT !.ext = o] /\ lock' = lock
                            /\ Turns(w, [call[w] EXCEPT !.pc = "open", !.ext = o])
      BY <2>2
    <3> DEFINE c == [call[w] EXCEPT !.pc = "open", !.ext = o]
    <3>2. c.pc = "open" /\ c.op = call[w].op /\ c.sent = call[w].sent /\ c.grid = call[w].grid
      BY <1>0 DEF Call
    <3>3. Turns(w, c)
      BY <3>1
    <3> HIDE DEF c
    <3> QED
      BY <1>1, <2>0, <3>1, <3>2, <3>3
  <2>3. CASE Fails(w) /\ row' = row
    BY <1>0, <2>3, EndStep DEF Fails
  <2> QED
    BY <1>2, <2>1, <2>2, <2>3 DEF Adopts, Anchored
<1>3. ASSUME Composes(w) PROVE CreatorInv' /\ AckInv'
  <2> DEFINE c == [call[w] EXCEPT !.pc = "lookup", !.sent = cart.grid]
  <2>1. call[w].pc = "compose" /\ Turns(w, c) /\ lock' = lock /\ row' = row
    BY <1>3 DEF Composes, At
  <2>2. c.pc = "lookup" /\ c.op = call[w].op /\ c.sent = cart.grid /\ c.grid = call[w].grid
    BY <1>0 DEF Call
  <2> HIDE DEF c
  <2>3. c.sent <= cart.grid /\ c.grid <= cart.grid
    BY <1>0, <2>2 DEF Told
  <2>4. call[w].pc \in Early /\ Made = {}
    BY <1>0, <2>1 DEF Early, Sound
  <2> QED
    BY <1>0, <2>1, <2>2, <2>3, <2>4, ComposingStep
<1>4. ASSUME LooksUp(w) PROVE CreatorInv' /\ AckInv'
  <2>1. call[w].pc = "lookup" /\ row' = row /\ Made = {} /\ call[w].pc \in Early
    BY <1>0, <1>4 DEF LooksUp, At, Sound, Early
  <2>2. CASE Fails(w)
    BY <1>0, <2>1, <2>2, EndStep DEF Fails
  <2>3. CASE Turns(w, [call[w] EXCEPT !.pc = "post", !.ext = 0]) /\ lock' = lock
    <3> DEFINE c == [call[w] EXCEPT !.pc = "post", !.ext = 0]
    <3>1. c.pc = "post" /\ c.op = call[w].op /\ c.sent = call[w].sent /\ c.grid = call[w].grid
      BY <1>0 DEF Call
    <3>2. Turns(w, c)
      BY <2>3
    <3> HIDE DEF c
    <3>3. c.sent <= cart.grid /\ c.grid <= cart.grid
      BY <1>0, <3>1 DEF Told
    <3> QED
      BY <1>0, <2>1, <2>3, <3>1, <3>2, <3>3, ComposingStep
  <2> QED
    BY <1>4, <2>1, <2>2, <2>3 DEF LooksUp, Anchored
<1>5. ASSUME Binds(w) PROVE CreatorInv' /\ AckInv'
  <2> DEFINE c == [call[w] EXCEPT !.pc = "open"]
  <2>1. call[w].pc = "bind" /\ Turns(w, c) /\ lock' = lock /\ row' = [row EXCEPT !.ext = call[w].ext]
    BY <1>5 DEF Binds, At
  <2>2. c.pc = "open" /\ c.op = call[w].op /\ c.sent = call[w].sent /\ c.grid = call[w].grid
    BY <1>0 DEF Call
  <2> HIDE DEF c
  <2>3. call[w].ext \in Made
    BY <1>0, <2>1 DEF Sound
  <2> QED
    BY <1>1, <2>1, <2>2, <2>3
<1>6. ASSUME Opens(w) PROVE CreatorInv' /\ AckInv'
  <2>1. row' = Moved("converting", "open") /\ call[w].pc = "open" /\ row.ext # 0
        /\ call[w].op # "approve"
    BY <1>0, <1>6 DEF Opens, At, Sound
  <2>2. CASE AfterResume(w)
    BY <1>0, <2>1, <2>2, AfterResumeStill
  <2>3. CASE \E pc \in {"mutate", "take"} : Goes(w, pc)
    <3>1. PICK pc \in {"mutate", "take"} : Goes(w, pc)
      BY <2>3
    <3>2. PICK c \in Call : Turns(w, c) /\ Like(c, call[w]) /\ c.pc = pc /\ lock' = lock
      BY <1>0, <3>1, GoesShape DEF Step
    <3>3. Calm(c, w) /\ Holds(w) /\ c.pc \notin Early
      BY <2>1, <3>2 DEF Calm, Like, Wrote, Writing, Holds, Early
    <3>4. Sound(c, w, row', lock', Made)
      BY <2>1, <3>2, <3>3 DEF Sound, Like
    <3> QED
      BY <1>0, <2>1, <3>2, <3>3, <3>4, MovedStep DEF Loose
  <2> QED
    BY <1>6, <2>2, <2>3 DEF Opens
<1> QED
  BY <1>2, <1>3, <1>4, <1>5, <1>6

LEMMA PostAck ==
  ASSUME OrderInv, Begun', NEW w \in Tasks, Posts(w)
  PROVE  CreatorInv' /\ AckInv'
<1>0. /\ TypeOK /\ RowOK /\ CallOK /\ OrdersOK /\ CreatorInv /\ AckInv /\ Anchor
      /\ call[w] \in Call /\ Sound(call[w], w, row, lock, Made) /\ CartOK
      /\ Told(call[w], cart.grid, row.ext, Made, Good)
      /\ cart.grid \in Nat /\ row.ext \in Ids \cup {0} /\ Begun
      /\ UNCHANGED <<row, cart>>
  BY OrderFacts DEF Posts
<1>1. call[w].pc = "post" /\ Made = {} /\ call[w].pc \in Early
  BY <1>0 DEF Posts, At, Sound, Early
<1>2. CASE UNCHANGED orders /\ Fails(w)
  BY <1>0, <1>2, EndStep DEF Fails
<1>3. ASSUME NEW o \in Ids,
             orders' = [orders EXCEPT ![o] = [status |-> "open", held |-> call[w].sent]],
             \/ Turns(w, [call[w] EXCEPT !.pc = "bind", !.ext = o]) /\ lock' = lock
             \/ Fails(w)
      PROVE  CreatorInv' /\ AckInv'
  <2>1. Made' = {o} /\ orders'[o].held = call[w].sent
    <3>1. \A p \in Ids : orders[p].status = "none"
      BY <1>1 DEF Made
    <3>2. /\ orders'[o].status = "open" /\ orders'[o].held = call[w].sent
          /\ \A p \in Ids \ {o} : orders'[p] = orders[p]
      BY <1>0, <1>3 DEF OrdersOK
    <3> QED
      BY <3>1, <3>2 DEF Made
  <2>2. PICK c : /\ Turns(w, c) /\ Holds(w) /\ c.pc \in {"bind", "idle"}
                 /\ c.sent \in {0, call[w].sent} /\ c.grid \in {0, call[w].grid}
                 /\ c.pc = "bind" => c.ext = o /\ lock' = lock
                 /\ c.op # "approve"
    <3>1. CASE Turns(w, [call[w] EXCEPT !.pc = "bind", !.ext = o]) /\ lock' = lock
      <4> DEFINE c == [call[w] EXCEPT !.pc = "bind", !.ext = o]
      <4>1. /\ c.pc = "bind" /\ c.op = call[w].op /\ c.sent = call[w].sent
            /\ c.grid = call[w].grid /\ c.ext = o
        BY <1>0 DEF Call
      <4>2. Turns(w, c) /\ Holds(w)
        BY <3>1 DEF Holds
      <4> HIDE DEF c
      <4> QED
        BY <1>1, <3>1, <4>1, <4>2, EarlyAlone
    <3>2. CASE Fails(w)
      <4>1. Turns(w, Idle) /\ Holds(w)
        BY <3>2, HandledShape DEF Fails
      <4> QED
        BY <4>1 DEF Idle
    <3> QED
      BY <1>3, <3>1, <3>2
  <2>3. CreatorInv'
    <3>1. Sound(c, w, row', lock', Made')
      BY <1>0, <1>1, <2>1, <2>2, EarlyAlone DEF Sound, Early
    <3>2. Anchor'
      BY <1>0, <1>1, <2>1, EarlyAlone DEF Anchor, Loose
    <3>3. Stays(w)
      BY <1>0, <1>1, <2>1, <2>2 DEF Stays
    <3> QED
      BY <1>0, <1>1, <2>2, <3>1, <3>2, <3>3, EarlyAlone, CreatorStep
  <2>4. call'[w] = c /\ \A v \in Tasks \ {w} : call'[v] = call[v]
    BY <1>0, <2>2 DEF Turns, CallOK
  <2>5. cart.pending
    <3>1. cart.grid # 0
      BY <1>0, <1>1, Started
    <3> QED
      BY <1>0, <1>1, <3>1 DEF AckInv
  <2>6. c.sent # 0 /\ c.sent = cart.grid => Good'
    <3>1. c.sent # 0 => orders'[o].held = c.sent
      BY <2>1, <2>2
    <3> QED
      BY <1>0, <2>1, <3>1 DEF Good
  <2>7. Told(c, cart.grid, row.ext, Made', Good')
    <3>1. c.sent <= cart.grid /\ c.grid <= cart.grid
      <4>1. call[w].sent <= cart.grid /\ call[w].grid <= cart.grid /\ 0 <= cart.grid
        BY <1>0 DEF Told
      <4> QED
        BY <2>2, <4>1
    <3> QED
      BY <2>1, <2>2, <2>6, <3>1 DEF Told, Writing
  <2>8. ASSUME NEW v \in Tasks \ {w} PROVE Told(call[v], cart.grid, row.ext, Made', Good')
    <3>1. Told(call[v], cart.grid, row.ext, Made, Good) /\ call[v].pc \notin {"lookup", "post"}
      BY <1>0, <1>1, EarlyAlone DEF AckInv, Early
    <3> QED
      BY <1>1, <3>1 DEF Told
  <2>9. \A v \in Tasks : call'[v].pc \notin {"put", "approve"} /\ ~Wrote(call'[v])
    BY <1>1, <2>2, <2>4, EarlyAlone DEF Wrote
  <2> QED
    BY <1>0, <2>3, <2>4, <2>5, <2>7, <2>8, <2>9 DEF AckInv
<1> QED
  BY <1>2, <1>3 DEF Posts

\* The writer is alone with the one order of the row.
LEMMA WriterAlone ==
  ASSUME OrderInv, NEW w \in Writers
  PROVE  /\ w \in Tasks /\ row.state = "mutating" /\ row.ext # 0 /\ call[w].ext = row.ext
         /\ Made = {row.ext} /\ row.rest = call[w].home /\ row.rest \in Resting
         /\ \A v \in Tasks \ {w} : call[v].pc \notin Writing \cup Early
         /\ call[w].pc \notin Early
<1>1. w \in Tasks /\ row.state = "mutating" /\ row.rest = call[w].home /\ row.rest \in Resting
  BY OrderFacts DEF Claimed, Writers
<1>2. row.ext # 0 /\ row.ext \in Made
  BY <1>1, OrderFacts DEF Anchor
<1>3. Made = {row.ext}
  BY <1>2, OrderFacts DEF SingleOrder, OneMade
<1>4. call[w].ext = row.ext
  BY <1>1, OrderFacts DEF Told, Writers
<1>5. \A v \in Tasks : call[v].pc \notin Early
  BY <1>1, OrderFacts DEF Sound, Loose
<1>6. \A v \in Tasks \ {w} : call[v].pc \notin Writing
  BY OrderFacts DEF Claimed, Writers
<1> QED
  BY <1>1, <1>2, <1>3, <1>4, <1>5, <1>6

\* A call that gives the order the writer's grid, or approves it.
LEMMA SendStep ==
  ASSUME OrderInv, Begun', NEW w \in Tasks, call[w].pc \in {"put", "approve"},
         NEW c, Turns(w, c), Holds(w), row' = row, cart'.grid = cart.grid,
         cart'.pending = cart.pending \/ cart.grid = Aim(call[w]),
         Made' = Made, \A o \in Made : orders'[o].held = Aim(call[w]),
         c.pc \in {"grid", "settle", "release", "idle"}, c.pc \in Writing => c.ext = call[w].ext,
         c.sent \in {0, call[w].sent, Aim(call[w])}, c.grid \in {0, call[w].grid},
         c.pc = "grid" => c.sent = Aim(call[w]),
         c.op = "approve" => c.pc \in {"grid", "settle"} \/ (c.pc = "release" /\ c.failed)
  PROVE  CreatorInv' /\ AckInv'
<1>0. /\ TypeOK /\ CallOK /\ CreatorInv /\ AckInv /\ Anchor /\ cart.grid \in Nat /\ w \in Writers
      /\ call[w].pc \notin {"lookup", "post"}
  BY OrderFacts DEF Writers, Writing
<1>1. \A v \in Tasks : call[v].sent \in Nat /\ call[v].grid \in Nat /\ call[v].sent <= cart.grid
                       /\ call[v].grid <= cart.grid
  BY <1>0, CallFields, ErpAssumption DEF CallOK, AckInv, Told, Grids
<1>2. call'[w] = c /\ \A v \in Tasks \ {w} : call'[v] = call[v]
  BY <1>0 DEF Turns, CallOK
<1>3. /\ Aim(call[w]) # 0 /\ (Aim(call[w]) = cart.grid \/ cart.pending)
      /\ \A v \in Tasks : call[v].sent <= Aim(call[w])
  BY <1>0 DEF AckInv
<1>4. Aim(call[w]) \in Nat /\ Aim(call[w]) <= cart.grid
  BY <1>1 DEF Aim
<1>5. CreatorInv'
  <2>1. Stays(w) /\ Anchor'
    BY <1>0 DEF Stays, Anchor
  <2>2. Sound(c, w, row', lock', Made') /\ c.pc \notin Early
    BY DEF Sound, Early
  <2> QED
    BY <1>0, <2>1, <2>2, CreatorStep
<1>6. Aim(call[w]) = cart.grid => Good'
  BY DEF Good
<1>7. Made # {}
  BY <1>0, WriterAlone
<1>8. ASSUME NEW v \in Tasks PROVE Told(call'[v], cart'.grid, row'.ext, Made', Good')
  <2>1. call'[v].sent <= Aim(call[w]) /\ call'[v].sent \in Nat
    BY <1>1, <1>2, <1>3, <1>4
  <2>2. call'[v].sent <= cart.grid /\ call'[v].grid <= cart.grid
    BY <1>0, <1>1, <1>2, <1>4, <2>1
  <2>3. call'[v].sent = cart.grid => Good'
    <3>1. call'[v].sent = cart.grid => Aim(call[w]) = cart.grid
      BY <1>0, <1>4, <2>1
    <3> QED
      BY <1>6, <3>1
  <2>4. call'[v].pc \in Writing => call'[v].ext = row.ext
    BY <1>0, <1>2, WriterAlone
  <2> QED
    BY <1>7, <2>2, <2>3, <2>4 DEF Told
<1>9. \A v \in Tasks : call'[v].pc \notin {"put", "approve"}
  <2>1. \A v \in Tasks \ {w} : call'[v].pc \notin Writing
    BY <1>0, <1>2, WriterAlone
  <2> QED
    BY <1>2, <2>1 DEF Writing
<1>10. \A v \in Tasks : Wrote(call'[v]) => \A o \in Made : orders'[o].held = call'[v].sent
  <2>1. \A v \in Tasks \ {w} : call'[v].pc \notin Writing
    BY <1>0, <1>2, WriterAlone
  <2>2. \A v \in Tasks \ {w} : ~Wrote(call'[v])
    BY <2>1 DEF Writing, Wrote
  <2> QED
    BY <1>2, <2>2 DEF Wrote
<1>11. ~cart'.pending => Good' /\ (Made' = {} => cart'.grid = 0)
  BY <1>3, <1>6, <1>7
<1> QED
  BY <1>5, <1>8, <1>9, <1>10, <1>11 DEF AckInv

LEMMA PutAck ==
  ASSUME OrderInv, Begun', NEW w \in Tasks, PutsGrid(w)
  PROVE  CreatorInv' /\ AckInv'
<1>0. /\ call[w].pc = "put" /\ row' = row /\ w \in Writers /\ CallOK /\ OrdersOK /\ CartOK
      /\ call[w] \in Call /\ Sound(call[w], w, row, lock, Made)
      /\ row.ext \in Ids \cup {0} /\ Aim(call[w]) = call[w].grid
  BY OrderFacts DEF PutsGrid, At, Writers, Writing, Aim
<1>1. /\ Made = {row.ext} /\ row.ext \in Ids /\ call[w].ext = row.ext
  BY <1>0, WriterAlone
<1>2. ASSUME orders' = [orders EXCEPT ![call[w].ext].held = call[w].grid]
      PROVE  Made' = Made /\ \A o \in Made : orders'[o].held = call[w].grid
  BY <1>0, <1>1, <1>2 DEF Made, OrdersOK
<1>3. CASE /\ orders' = [orders EXCEPT ![call[w].ext].held = call[w].grid]
           /\ cart' = [cart EXCEPT !.pending = Acknowledged(w)]
           /\ Turns(w, [call[w] EXCEPT !.pc = "grid", !.sent = call[w].grid])
           /\ UNCHANGED lock
  <2> DEFINE c == [call[w] EXCEPT !.pc = "grid", !.sent = call[w].grid]
  <2>1. /\ c.pc = "grid" /\ c.op = call[w].op /\ c.sent = call[w].grid /\ c.grid = call[w].grid
        /\ c.ext = call[w].ext
    BY <1>0 DEF Call
  <2>2. Turns(w, c) /\ Holds(w)
    BY <1>3 DEF Holds
  <2> HIDE DEF c
  <2>3. cart'.grid = cart.grid /\ (cart'.pending = cart.pending \/ cart.grid = call[w].grid)
    BY <1>0, <1>3 DEF CartOK, Acknowledged
  <2> QED
    BY <1>0, <1>2, <1>3, <2>1, <2>2, <2>3, SendStep
<1>4. CASE GivesUp(w) /\ UNCHANGED cart
           /\ orders' \in {orders, [orders EXCEPT ![call[w].ext].held = call[w].grid]}
  <2>1. PICK c \in Call : /\ Turns(w, c) /\ c.sent \in {0, call[w].sent}
                          /\ c.grid \in {0, call[w].grid} /\ c.pc \in {"release", "idle"}
                          /\ c.pc = "release" => /\ c.failed /\ c.op = call[w].op
                                                 /\ c.ext = call[w].ext
                          /\ c.pc = "idle" => c = Idle
    BY <1>0, <1>4, GivesUpShape
  <2>2. Holds(w)
    BY <1>0, <1>4, GivesUpShape
  <2>3. /\ c.op = "approve" => c.pc = "release" /\ c.failed
        /\ c.pc \in Writing => c.ext = call[w].ext
    BY <2>1 DEF Idle, Writing
  <2>4. CASE orders' = orders
    <3>1. Calm(c, w)
      BY <1>0, <1>1, <2>1, <2>3 DEF Calm, Wrote
    <3>2. Sound(c, w, row, lock', Made) /\ c.pc \notin Early
      BY <2>1, <2>3 DEF Sound, Early
    <3> QED
      BY <1>0, <1>4, <2>1, <2>2, <2>4, <3>1, <3>2, StillStep
  <2>5. CASE orders' = [orders EXCEPT ![call[w].ext].held = call[w].grid]
    BY <1>0, <1>2, <1>4, <2>1, <2>2, <2>3, <2>5, SendStep
  <2> QED
    BY <1>4, <2>4, <2>5
<1> QED
  BY <1>3, <1>4 DEF PutsGrid

LEMMA ApproveAck ==
  ASSUME OrderInv, Begun', NEW w \in Tasks, Approves(w)
  PROVE  CreatorInv' /\ AckInv'
<1> DEFINE approved == [orders EXCEPT ![call[w].ext].status = "approved"]
<1>0. /\ call[w].pc = "approve" /\ UNCHANGED <<row, cart>> /\ w \in Writers /\ CallOK /\ OrdersOK
      /\ call[w] \in Call /\ Sound(call[w], w, row, lock, Made) /\ AckInv /\ Locked
      /\ row.ext \in Ids \cup {0} /\ Aim(call[w]) = call[w].sent
  BY OrderFacts DEF Approves, At, Writers, Writing, Aim
<1>1. /\ Made = {row.ext} /\ row.ext \in Ids /\ call[w].ext = row.ext
  BY <1>0, WriterAlone
<1>2. call[w].op = "approve" /\ call[w].sent # 0
  BY <1>0 DEF Locked, Fits, AckInv
<1>3. \A o \in Made : orders[o].held = call[w].sent
  BY <1>0, <1>2 DEF AckInv, Wrote
<1>4. ASSUME orders' = approved
      PROVE  Made' = Made /\ \A o \in Made : orders'[o].held = call[w].sent
  BY <1>0, <1>1, <1>3, <1>4 DEF Made, OrdersOK
<1>5. ASSUME NEW c, Turns(w, c), Holds(w), c.pc \in {"settle", "release", "idle"},
             c.pc \in Writing => c.ext = call[w].ext, orders' \in {orders, approved},
             c.sent \in {0, call[w].sent}, c.grid \in {0, call[w].grid},
             c.op = "approve" => c.pc = "settle" \/ (c.pc = "release" /\ c.failed)
      PROVE  CreatorInv' /\ AckInv'
  <2>1. Made' = Made /\ \A o \in Made : orders'[o].held = call[w].sent
    <3>1. CASE orders' = orders
      BY <1>3, <3>1, SameMade
    <3> QED
      BY <1>4, <1>5, <3>1
  <2> QED
    BY <1>0, <1>5, <2>1, SendStep
<1>6. CASE orders' = approved /\ Goes(w, "settle")
  <2>1. PICK c \in Call : Turns(w, c) /\ Like(c, call[w]) /\ c.pc = "settle" /\ lock' = lock
    BY <1>0, <1>6, GoesShape DEF Step
  <2> QED
    BY <1>5, <1>6, <2>1 DEF Like, Holds
<1>7. CASE orders' \in {orders, approved} /\ GivesUp(w)
  <2>1. PICK c \in Call : /\ Turns(w, c) /\ c.sent \in {0, call[w].sent}
                          /\ c.grid \in {0, call[w].grid} /\ c.pc \in {"release", "idle"}
                          /\ c.pc = "release" => /\ c.failed /\ c.op = call[w].op
                                                 /\ c.ext = call[w].ext
                          /\ c.pc = "idle" => c = Idle
    BY <1>0, <1>7, GivesUpShape
  <2>2. Holds(w)
    BY <1>0, <1>7, GivesUpShape
  <2>3. /\ c.op = "approve" => c.pc = "release" /\ c.failed
        /\ c.pc \in Writing => c.ext = call[w].ext
    BY <2>1 DEF Idle, Writing
  <2> QED
    BY <1>5, <1>7, <2>1, <2>2, <2>3
<1> QED
  BY <1>6, <1>7 DEF Approves

LEMMA ReadAck ==
  ASSUME OrderInv, Begun', NEW w \in Tasks, ReadsGrid(w)
  PROVE  CreatorInv' /\ AckInv'
<1>0. /\ call[w].pc = "grid" /\ UNCHANGED <<row, orders>> /\ w \in Writers /\ CallOK /\ CartOK
      /\ call[w] \in Call /\ Sound(call[w], w, row, lock, Made) /\ CreatorInv /\ AckInv
      /\ Begun /\ cart.grid \in Nat /\ TypeOK /\ lock' = lock
  BY OrderFacts DEF ReadsGrid, At, Writers, Writing, Goes
<1>a. cart.grid # 0 /\ Made' = Made /\ Anchor'
  BY <1>0, Started, SameMade, OrderFacts DEF Anchor
<1>b. \A v \in Tasks : Told(call[v], cart.grid, row.ext, Made, Good)
  BY OrderFacts
<1>1. PICK c : /\ Turns(w, c) /\ c.ext = call[w].ext /\ c.sent = call[w].sent
               /\ c.op = call[w].op
               /\ \/ /\ c.pc = IF call[w].op = "approve" THEN "approve" ELSE "release"
                     /\ cart.grid = call[w].sent /\ ~cart'.pending /\ cart'.grid = cart.grid
                     /\ c.grid = call[w].grid
                  \/ c.pc = "put" /\ c.grid = cart.grid /\ cart' = cart
  <2>1. CASE cart.grid # call[w].sent
    <3> DEFINE c == [call[w] EXCEPT !.pc = "put", !.grid = cart.grid]
    <3>1. /\ c.pc = "put" /\ c.op = call[w].op /\ c.sent = call[w].sent /\ c.grid = cart.grid
          /\ c.ext = call[w].ext
      BY <1>0 DEF Call
    <3>2. Turns(w, c) /\ cart' = cart
      BY <2>1 DEF ReadsGrid
    <3> HIDE DEF c
    <3> QED
      BY <3>1, <3>2
  <2>2. CASE cart.grid = call[w].sent
    <3>1. ~cart'.pending /\ cart'.grid = cart.grid
      BY <1>0, <2>2 DEF ReadsGrid, CartOK
    <3>2. PICK pc \in {"approve", "release"} :
             Goes(w, pc) /\ pc = IF call[w].op = "approve" THEN "approve" ELSE "release"
      BY <2>2 DEF ReadsGrid
    <3>3. pc \in Step
      BY DEF Step
    <3>4. PICK c \in Call : Turns(w, c) /\ Like(c, call[w]) /\ c.pc = pc
      BY <1>0, <3>2, <3>3, GoesShape
    <3> QED
      BY <2>2, <3>1, <3>2, <3>4 DEF Like
  <2> QED
    BY <2>1, <2>2
<1>2. call'[w] = c /\ \A v \in Tasks \ {w} : call'[v] = call[v]
  BY <1>0, <1>1 DEF Turns, CallOK
<1>3. CreatorInv'
  <2>1. Stays(w)
    BY <1>0, SameStays DEF Holds
  <2>2. Sound(c, w, row', lock', Made') /\ c.pc \notin Early
    BY <1>0, <1>1 DEF Sound, Early
  <2> QED
    BY <1>0, <1>1, <1>a, <2>1, <2>2, CreatorStep
<1>4. cart'.grid = cart.grid /\ Good' = Good
  <2>1. cart'.grid = cart.grid
    BY <1>1
  <2> QED
    BY <1>0, <1>a, <2>1 DEF Good
<1>5. ~cart'.pending => Good /\ (Made = {} => cart.grid = 0)
  <2>1. CASE cart.grid = call[w].sent
    BY <1>0, <1>a, <1>b, <2>1 DEF Told
  <2>2. CASE cart' = cart
    BY <1>0, <2>2 DEF AckInv
  <2> QED
    BY <1>1, <2>1, <2>2
<1>6. \A v \in Tasks : Told(call'[v], cart.grid, row.ext, Made, Good)
  <2>1. c.grid <= cart.grid
    BY <1>0, <1>1, <1>b DEF Told
  <2>2. Told(c, cart.grid, row.ext, Made, Good)
    BY <1>0, <1>1, <1>b, <2>1 DEF Told, Writing
  <2> QED
    BY <1>2, <1>b, <2>2
<1>7. \A v \in Tasks \ {w} : call'[v].pc \notin {"put", "approve"} /\ ~Wrote(call'[v])
  BY <1>0, <1>2, WriterAlone DEF Writing, Wrote
<1>8. c.pc \in {"put", "approve"} => Aim(c) = cart.grid
  BY <1>1 DEF Aim
<1>9. \A v \in Tasks : call'[v].sent <= cart.grid
  BY <1>6 DEF Told
<1>10. Wrote(c) => \A o \in Made : orders[o].held = c.sent
  <2>1. Wrote(c) => Wrote(call[w])
    BY <1>0, <1>1 DEF Wrote
  <2> QED
    BY <1>0, <1>1, <2>1 DEF AckInv
<1>11. \A u \in Tasks : call'[u].pc \in {"put", "approve"} =>
         /\ Aim(call'[u]) # 0 /\ Aim(call'[u]) = cart.grid
         /\ \A v \in Tasks : call'[v].sent <= Aim(call'[u])
  BY <1>2, <1>7, <1>8, <1>9, <1>a
<1>12. \A u \in Tasks : Wrote(call'[u]) => \A o \in Made : orders[o].held = call'[u].sent
  BY <1>2, <1>7, <1>10
<1> QED
  BY <1>0, <1>3, <1>4, <1>5, <1>6, <1>11, <1>12, <1>a DEF AckInv

LEMMA MutationAck ==
  ASSUME OrderInv, Begun', NEW w \in Tasks, Mutates(w) \/ Releases(w) \/ Rechecks(w) \/ Takes(w)
  PROVE  CreatorInv' /\ AckInv'
<1>0. /\ RowOK /\ CallOK /\ CreatorInv /\ Claimed /\ Anchor /\ UNCHANGED <<cart, orders>>
      /\ call[w] \in Call /\ Sound(call[w], w, row, lock, Made)
      /\ row.ext \in Ids \cup {0} /\ call[w].pc \notin {"lookup", "post"}
  BY OrderFacts DEF Mutates, Releases, Rechecks, Takes, Steady, At
<1>1. ASSUME Mutates(w) PROVE CreatorInv' /\ AckInv'
  <2>0. call[w].pc = "mutate" /\ call[w].op # "approve"
    BY <1>0, <1>1 DEF Mutates, At, Sound
  <2>1. CASE Fails(w) /\ UNCHANGED row
    BY <1>0, <2>1, EndStep DEF Fails
  <2>2. CASE /\ row.state \in Resting /\ row.ext # 0 /\ row' = Moved(row.state, "mutating")
             /\ Turns(w, [call[w] EXCEPT !.pc = "grid", !.ext = row.ext, !.home = row.state])
             /\ UNCHANGED lock
    <3> DEFINE c == [call[w] EXCEPT !.pc = "grid", !.ext = row.ext, !.home = row.state]
    <3>1. /\ c.pc = "grid" /\ c.op = call[w].op /\ c.sent = call[w].sent /\ c.grid = call[w].grid
          /\ c.ext = row.ext
      BY <1>0 DEF Call
    <3>2. Turns(w, c) /\ Holds(w)
      BY <2>2 DEF Holds
    <3> HIDE DEF c
    <3>3. row'.ext = row.ext
      BY <1>0, <2>2, MovedExt
    <3>4. Calm(c, w) /\ c.pc \notin Early
      BY <2>0, <3>1, <3>3 DEF Calm, Wrote, Early
    <3>5. Sound(c, w, row', lock', Made)
      BY <2>0, <3>1, <3>4 DEF Sound
    <3> QED
      BY <1>0, <2>2, <3>2, <3>4, <3>5, MovedStep DEF Resting, Loose
  <2> QED
    BY <1>1, <2>1, <2>2 DEF Mutates
<1>2. ASSUME Releases(w) PROVE CreatorInv' /\ AckInv'
  <2>1. /\ call[w].pc = "release" /\ row' = Moved("mutating", call[w].home)
        /\ call[w].home \in Resting /\ row.ext # 0
    <3>1. w \in Writers
      BY <1>2 DEF Releases, At, Writers, Writing
    <3> QED
      BY <1>2, <3>1, WriterAlone DEF Releases, At
  <2>2. CASE Fails(w)
    BY <1>0, <2>1, <2>2, HandledShape, IdleSound, MovedStep DEF Fails, Resting, Loose
  <2>3. CASE ~call[w].failed /\ Goes(w, "recheck")
    <3>1. PICK c \in Call : Turns(w, c) /\ Like(c, call[w]) /\ c.pc = "recheck" /\ lock' = lock
      BY <1>0, <2>3, GoesShape DEF Step
    <3>2. Calm(c, w) /\ c.pc \notin Early /\ Holds(w)
      BY <2>1, <3>1 DEF Calm, Like, Wrote, Writing, Early, Holds
    <3>3. Sound(c, w, row', lock', Made)
      BY <1>0, <2>1, <2>3, <3>1, <3>2 DEF Sound, Like
    <3> QED
      BY <1>0, <2>1, <3>1, <3>2, <3>3, MovedStep DEF Resting, Loose
  <2> QED
    BY <1>2, <2>2, <2>3 DEF Releases
<1>3. ASSUME Rechecks(w) PROVE CreatorInv' /\ AckInv'
  <2>0. call[w].op # "approve" /\ UNCHANGED row
    BY <1>0, <1>3 DEF Rechecks, At, Sound
  <2>1. CASE \E pc \in {"mutate", "take"} : Goes(w, pc)
    <3>1. PICK pc \in {"mutate", "take"} : Goes(w, pc)
      BY <2>1
    <3>2. pc \in Step /\ pc \notin Writing \cup Early
      BY DEF Step, Writing, Early
    <3> QED
      BY <1>0, <2>0, <3>1, <3>2, GoesStill
  <2>2. CASE AfterResume(w)
    BY <1>0, <2>0, <2>2, AfterResumeStill
  <2>3. CASE Handled(w, {})
    BY <1>0, <2>0, <2>3, EndStep
  <2> QED
    BY <1>3, <2>1, <2>2, <2>3 DEF Rechecks
<1>4. ASSUME Takes(w) PROVE CreatorInv' /\ AckInv'
  <2>1. CASE UNCHANGED row /\ \E facts : Handled(w, facts)
    BY <1>0, <2>1, EndStep
  <2>2. CASE /\ row.state = "open" /\ row.ext # 0 /\ row' = Moved("open", "mutating")
             /\ Turns(w, [call[w] EXCEPT !.op = "approve", !.pc = "grid", !.ext = row.ext,
                                         !.sent = 0, !.home = "open"])
             /\ UNCHANGED lock
    <3> DEFINE c == [call[w] EXCEPT !.op = "approve", !.pc = "grid", !.ext = row.ext,
                                    !.sent = 0, !.home = "open"]
    <3>1. /\ c.pc = "grid" /\ c.op = "approve" /\ c.sent = 0 /\ c.grid = call[w].grid
          /\ c.ext = row.ext
      BY <1>0 DEF Call
    <3>2. Turns(w, c) /\ Holds(w)
      BY <2>2 DEF Holds
    <3> HIDE DEF c
    <3>3. row'.ext = row.ext
      BY <1>0, <2>2, MovedExt
    <3>4. Calm(c, w) /\ c.pc \notin Early
      BY <3>1, <3>3 DEF Calm, Wrote, Early
    <3>5. Sound(c, w, row', lock', Made)
      BY <3>1, <3>4 DEF Sound
    <3> QED
      BY <1>0, <2>2, <3>2, <3>4, <3>5, MovedStep DEF Loose
  <2> QED
    BY <1>4, <2>1, <2>2 DEF Takes
<1> QED
  BY <1>1, <1>2, <1>3, <1>4

LEMMA EndAck ==
  ASSUME OrderInv, Begun', NEW w \in Tasks, Settles(w) \/ Leaves(w) \/ Drops(w) \/ Undoes(w)
  PROVE  CreatorInv' /\ AckInv'
<1>0. /\ RowOK /\ CallOK /\ CreatorInv /\ Claimed /\ Locked /\ Anchor
      /\ UNCHANGED <<cart, orders>>
      /\ call[w] \in Call /\ Sound(call[w], w, row, lock, Made)
      /\ call[w].pc \notin {"lookup", "post"}
  BY OrderFacts DEF Settles, Leaves, Drops, Undoes, Steady, At
<1>1. ASSUME Settles(w) PROVE CreatorInv' /\ AckInv'
  <2> DEFINE c == [call[w] EXCEPT !.pc = "leave", !.failed = row.state # "mutating"]
  <2>1. c.pc = "leave" /\ c.op = call[w].op /\ c.sent = call[w].sent /\ c.grid = call[w].grid
    BY <1>0 DEF Call
  <2>2. Turns(w, c) /\ Holds(w) /\ row' = Moved("mutating", "confirmed")
    BY <1>1 DEF Settles, Holds
  <2> HIDE DEF c
  <2>3. row.state = "mutating" => row.ext # 0
    BY <1>0 DEF Anchor
  <2>4. Calm(c, w) /\ c.pc \notin Early
    BY <1>0, <2>1 DEF Calm, Wrote, Writing, Early
  <2>5. Sound(c, w, row', lock', Made)
    BY <2>1, <2>4 DEF Sound
  <2> QED
    BY <1>0, <2>2, <2>3, <2>4, <2>5, MovedStep DEF Loose
<1>2. ASSUME Leaves(w) PROVE CreatorInv' /\ AckInv'
  <2>1. Turns(w, Idle) /\ Holds(w) /\ row' = Moved("mutating", "open")
    BY <1>2, HandledShape DEF Leaves
  <2>2. row.state = "mutating" => row.ext # 0
    BY <1>0 DEF Anchor
  <2> QED
    BY <1>0, <2>1, <2>2, IdleSound, MovedStep DEF Loose
<1>3. ASSUME Drops(w) PROVE CreatorInv' /\ AckInv'
  <2>1. Turns(w, Idle) /\ Holds(w) /\ row' = Moved("converting", "cancelled")
    BY <1>3, HandledShape DEF Drops
  <2> QED
    BY <1>0, <2>1, IdleSound, MovedStep DEF Loose, Resting
<1>4. ASSUME Undoes(w) PROVE CreatorInv' /\ AckInv'
  <2>1. Turns(w, Idle) /\ Holds(w) /\ row' = Moved("cancelled", call[w].home)
    BY <1>4, HandledShape DEF Undoes, Fails
  <2>2. row.ext # 0 /\ lock = w /\ call[w].home \in {"converting", "open", "confirmed"}
    BY <1>0, <1>4 DEF Undoes, At, Sound, Locked, Fits
  <2> QED
    BY <1>0, <2>1, <2>2, IdleSound, MovedStep DEF Loose
<1> QED
  BY <1>1, <1>2, <1>3, <1>4

\* A cancellation under the lock: no confirmation is under way.
LEMMA CancelAck ==
  ASSUME OrderInv, Begun', NEW w \in Tasks, Cancels(w)
  PROVE  CreatorInv' /\ AckInv'
<1> DEFINE withdrawn == [orders EXCEPT ![call[w].ext] = [status |-> "cancelled", held |-> 0]]
<1>0. /\ call[w].pc = "withdraw" /\ UNCHANGED <<row, cart>> /\ CallOK /\ OrdersOK /\ Locked
      /\ call[w] \in Call /\ Sound(call[w], w, row, lock, Made) /\ CreatorInv /\ AckInv /\ Anchor
      /\ SingleOrder /\ TypeOK /\ cart.grid \in Nat
      /\ \A v \in Tasks : Told(call[v], cart.grid, row.ext, Made, Good)
  BY OrderFacts DEF Cancels, At
<1>1. PICK c : /\ Turns(w, c) /\ Holds(w) /\ orders' \in {orders, withdrawn}
               /\ \/ c = Idle
                  \/ Like(c, call[w]) /\ c.pc = "undo" /\ lock' = lock
  <2>1. orders' \in {orders, withdrawn}
    BY <1>0 DEF Cancels
  <2>2. CASE \E facts : Handled(w, facts)
    BY <2>1, <2>2, HandledShape
  <2>3. CASE Goes(w, "undo")
    <3>1. PICK c \in Call : Turns(w, c) /\ Like(c, call[w]) /\ c.pc = "undo" /\ lock' = lock
      BY <1>0, <2>3, GoesShape DEF Step
    <3> QED
      BY <2>1, <3>1 DEF Holds
  <2> QED
    BY <2>2, <2>3 DEF Cancels
<1>2. Sound(c, w, row, lock', Made) /\ c.pc \notin Early
  <2>1. CASE c = Idle
    BY <2>1, IdleSound
  <2>2. CASE Like(c, call[w]) /\ c.pc = "undo" /\ lock' = lock
    BY <1>0, <2>2 DEF Like, Sound, Early
  <2> QED
    BY <1>1, <2>1, <2>2
<1>3. Calm(c, w)
  <2>1. CASE c = Idle
    BY <2>1, IdleSound
  <2>2. CASE Like(c, call[w]) /\ c.pc = "undo"
    BY <1>0, <2>2 DEF Like, Calm, Wrote, Writing
  <2> QED
    BY <1>1, <2>1, <2>2
<1>4. CASE orders' = orders
  BY <1>0, <1>1, <1>2, <1>3, <1>4, StillStep
<1>5. CASE orders' = withdrawn
  <2>1. call[w].ext \in Made \cup {0}
    BY <1>0 DEF SingleOrder, Named
  <2>2. \A o \in Ids : /\ orders'[o].status \in {orders[o].status, "cancelled"}
                       /\ o = call[w].ext => orders'[o].status = "cancelled"
                       /\ o # call[w].ext => orders'[o] = orders[o]
    BY <1>0, <1>5 DEF OrdersOK
  <2>3. Made' = Made
    <3>1. \A o \in Ids : o = call[w].ext => orders[o].status # "none"
      BY <2>1 DEF Made, Ids
    <3> QED
      BY <2>2, <3>1 DEF Made
  <2>4. Good => Good'
    <3>1. \A o \in Made : o \in Ids
      BY DEF Made
    <3> QED
      BY <1>0, <2>2, <2>3, <3>1 DEF Good
  <2>5. CreatorInv'
    <3>1. Stays(w) /\ Anchor'
      BY <1>0, <1>1, <2>3 DEF Stays, Anchor
    <3> QED
      BY <1>0, <1>1, <1>2, <2>3, <3>1, CreatorStep
  <2>6. call'[w] = c /\ \A v \in Tasks \ {w} : call'[v] = call[v]
    BY <1>0, <1>1 DEF Turns, CallOK
  <2>7. \A v \in Tasks : call[v].sent \in Nat /\ call[v].grid \in Nat
    BY <1>0, CallFields, ErpAssumption DEF CallOK, Grids
  <2>8. \A v \in Tasks : Told(call'[v], cart.grid, row.ext, Made, Good')
    <3>1. c.sent <= cart.grid /\ c.grid <= cart.grid
      BY <1>0, <1>3, <2>7 DEF Calm, Told
    <3>2. Told(c, cart.grid, row.ext, Made, Good')
      BY <1>0, <1>3, <2>4, <3>1 DEF Told, Calm
    <3>3. \A v \in Tasks \ {w} : Told(call[v], cart.grid, row.ext, Made, Good')
      BY <1>0, <2>4 DEF Told
    <3> QED
      BY <2>6, <3>2, <3>3
  <2>9. ASSUME NEW u \in Tasks, call'[u].pc \in {"put", "approve"}
        PROVE  /\ Aim(call'[u]) # 0 /\ (Aim(call'[u]) = cart.grid \/ cart.pending)
               /\ \A v \in Tasks : call'[v].sent <= Aim(call'[u])
    <3>1. u # w /\ call'[u] = call[u]
      BY <1>3, <2>6, <2>9 DEF Calm
    <3>2. /\ Aim(call[u]) # 0 /\ (Aim(call[u]) = cart.grid \/ cart.pending)
          /\ \A v \in Tasks : call[v].sent <= Aim(call[u])
      BY <1>0, <2>9, <3>1 DEF AckInv
    <3>3. Aim(call[u]) \in Nat
      BY <2>7 DEF Aim
    <3>4. \A v \in Tasks : call'[v].sent \in {0, call[v].sent}
      BY <1>3, <2>6 DEF Calm
    <3>5. \A v \in Tasks : call'[v].sent <= Aim(call[u])
      BY <2>7, <3>2, <3>3, <3>4
    <3> QED
      BY <3>1, <3>2, <3>5
  <2>10. \A v \in Tasks : ~Wrote(call'[v])
    <3>1. lock = w
      BY <1>0 DEF Sound
    <3>2. \A v \in Tasks \ {w} : ~Wrote(call[v])
      BY <1>0, <3>1 DEF Locked, Fits, Wrote
    <3> QED
      BY <1>3, <2>6, <3>2 DEF Calm
  <2> QED
    BY <1>0, <2>3, <2>4, <2>5, <2>8, <2>9, <2>10 DEF AckInv
<1> QED
  BY <1>1, <1>4, <1>5

LEMMA OrderStep ==
  ASSUME raced' = {}, OrderInv, [Next]_vars
  PROVE  OrderInv'
<1>1. ClaimInv' /\ SingleOrder'
  BY ClaimStep, SingleStep DEF OrderInv, ClaimInv
<1>2. Begun'
  BY BegunStep, OrderFacts
<1>3. CASE UNCHANGED vars
  <2>1. Made' = Made /\ Good' = Good
    BY <1>3 DEF vars, Made, Good
  <2>2. CreatorInv'
    BY <1>3, <2>1 DEF OrderInv, vars, CreatorInv, Anchor
  <2>3. AckInv'
    BY <1>2, <1>3, <2>1 DEF OrderInv, vars, AckInv
  <2> QED
    BY <1>1, <2>2, <2>3 DEF OrderInv
<1>4. CASE Next
  <2>1. CreatorInv' /\ AckInv'
    BY <1>2, <1>4, CartAck, CommentAck, StartAck, RouteAck, CreationAck, PostAck, MutationAck,
       ReadAck, PutAck, ApproveAck, EndAck, CancelAck DEF Next, Proceeds, Reactors
  <2> QED
    BY <1>1, <2>1 DEF OrderInv
<1> QED
  BY <1>3, <1>4

LEMMA OrderInit == Init => OrderInv
<1> SUFFICES ASSUME Init PROVE OrderInv
  OBVIOUS
<1>1. Made = {} /\ \A w \in Tasks : call[w] = Idle
  BY DEF Init, Made
<1>2. cart.grid = 0 /\ ~cart.pending /\ cart.pay = "pending" /\ ~cart.expired
      /\ row.state = "none" /\ row.ext = 0
  BY DEF Init
<1>3. CreatorInv
  BY <1>1, <1>2, IdleSound DEF CreatorInv, Anchor, Resting
<1>4. \A w \in Tasks : Told(call[w], cart.grid, row.ext, Made, Good)
  BY <1>1, <1>2 DEF Told, Idle, Writing
<1>5. AckInv
  <2>1. Begun /\ Good
    BY <1>1, <1>2 DEF Begun, Quiet, Good
  <2>2. \A w \in Tasks : call[w].pc = "idle" /\ ~Wrote(call[w])
    BY <1>1 DEF Idle, Wrote
  <2> QED
    BY <1>2, <1>4, <2>1, <2>2 DEF AckInv
<1> QED
  BY <1>3, <1>5, ClaimInit, SingleInit DEF OrderInv

\* A line the cart shows as reserved is in the order, whatever failed or
\* crashed on the way, as long as one handler created the order and no claim
\* was ended from outside.
THEOREM AcknowledgedIsReserved == Spec => []AckIsTrue
<1> DEFINE Ordered == raced = {} => OrderInv
<1>1. Ordered /\ [Next]_vars => Ordered'
  BY OrderStep, RacedStep
<1>2. Ordered => AckIsTrue
  <2> SUFFICES ASSUME OrderInv, ~cart.pending, row.state \in Resting,
                      orders[row.ext].status # "cancelled"
               PROVE  orders[row.ext].held = cart.grid
    BY DEF AckIsTrue
  <2>1. row.ext \in Made
    BY OrderFacts DEF Anchor
  <2>2. Good
    BY OrderFacts DEF AckInv
  <2> QED
    BY <2>1, <2>2 DEF Good
<1>3. Init => Ordered
  BY OrderInit
<1> QED
  BY <1>1, <1>2, <1>3, PTL DEF Spec

=============================================================================
