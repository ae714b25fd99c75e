--------------------------- MODULE LockSlotsProofs ---------------------------
(***************************************************************************)
(* For any number of tasks and any pool of at least two connections, slots *)
(* and connections never leak and no holder waits for a second connection  *)
(* that nobody can give back.  NothingLeaks is inductive together with the *)
(* types; NeverStuck follows, because the tasks that hold a connection and *)
(* wait for another all sit in a slot, and there are fewer slots than      *)
(* connections.                                                            *)
(***************************************************************************)
EXTENDS LockSlots, FiniteSetTheorems, TLAPS

IInv == TypeOK /\ NothingLeaks

\* The slots are fewer than the connections.
LEMMA SlotLimitFacts == SlotLimit \in Nat /\ SlotLimit >= 1 /\ SlotLimit < MaxConns
BY LockSlotsAssumption DEF SlotLimit

\* The sets the counters count are finite.
LEMMA CountedSets ==
  /\ IsFiniteSet(InSlot) /\ IsFiniteSet(OneConn) /\ IsFiniteSet(Second)
  /\ Cardinality(InSlot) \in Nat /\ Cardinality(OneConn) \in Nat
  /\ Cardinality(Second) \in Nat
<1>1. IsFiniteSet(Tasks)
  BY LockSlotsAssumption, FS_Union DEF Tasks
<1>2. InSlot \subseteq Holders /\ OneConn \subseteq Tasks /\ Second \subseteq Holders
  BY DEF InSlot, OneConn, Second
<1>3. IsFiniteSet(InSlot) /\ IsFiniteSet(OneConn) /\ IsFiniteSet(Second)
  BY <1>1, <1>2, LockSlotsAssumption, FS_Subset
<1>. QED  BY <1>3, FS_CardinalityType

\* A task enters or leaves a counted set.
LEMMA OneMore ==
  ASSUME NEW S, IsFiniteSet(S), NEW x, x \notin S
  PROVE  Cardinality(S \cup {x}) = Cardinality(S) + 1
BY FS_AddElement

LEMMA OneLess ==
  ASSUME NEW S, IsFiniteSet(S), NEW x, x \in S
  PROVE  Cardinality(S \ {x}) = Cardinality(S) - 1 /\ Cardinality(S) >= 1
<1>1. Cardinality(S \ {x}) = Cardinality(S) - 1
  BY FS_RemoveElement
<1>2. Cardinality(S) \in Nat /\ Cardinality(S) # 0
  BY FS_CardinalityType, FS_EmptySet
<1>. QED  BY <1>1, <1>2

----------------------------------------------------------------------------
LEMMA InitIInv == Init => IInv
<1>. SUFFICES ASSUME Init PROVE IInv  OBVIOUS
<1>1. InSlot = {} /\ OneConn = {} /\ Second = {}
  BY DEF Init, InSlot, OneConn, Second, Tasks
<1>. QED
  BY <1>1, FS_EmptySet, SlotLimitFacts, LockSlotsAssumption
  DEF Init, IInv, TypeOK, PcOK, NothingLeaks, Steps, Tasks

\* A holder that waits for its slot moves without touching a counter.
LEMMA WaitingSteps ==
  ASSUME IInv, NEW t \in Holders, Ask(t) \/ SlotTimeout(t) \/ AskSecond(t)
  PROVE  IInv'
<1>1. PcOK'
  BY LockSlotsAssumption DEF PcOK, IInv, TypeOK, Ask, SlotTimeout, AskSecond, Goto, Steps, Tasks
<1>2. InSlot' = InSlot /\ OneConn' = OneConn /\ Second' = Second
  BY DEF IInv, TypeOK, PcOK, Ask, SlotTimeout, AskSecond, Goto, At, InSlot, OneConn, Second, Tasks
<1>. QED
  BY <1>1, <1>2 DEF IInv, TypeOK, NothingLeaks, Ask, SlotTimeout, AskSecond

LEMMA TakeSlotIInv ==
  ASSUME IInv, NEW t \in Holders, TakeSlot(t)
  PROVE  IInv'
<1>1. PcOK'
  BY LockSlotsAssumption DEF PcOK, IInv, TypeOK, TakeSlot, Goto, Steps, Tasks
<1>2. t \notin InSlot /\ InSlot' = InSlot \cup {t} /\ OneConn' = OneConn /\ Second' = Second
  BY DEF IInv, TypeOK, PcOK, TakeSlot, Goto, At, InSlot, OneConn, Second, Tasks
<1>3. Cardinality(InSlot') = Cardinality(InSlot) + 1
  BY <1>2, OneMore, CountedSets
<1>. QED
  BY <1>1, <1>2, <1>3, SlotLimitFacts DEF IInv, TypeOK, NothingLeaks, TakeSlot

LEMMA AcquireFailsIInv ==
  ASSUME IInv, NEW t \in Holders, AcquireFails(t)
  PROVE  IInv'
<1>1. PcOK'
  BY LockSlotsAssumption DEF PcOK, IInv, TypeOK, AcquireFails, Goto, Steps, Tasks
<1>2. t \in InSlot /\ InSlot' = InSlot \ {t} /\ OneConn' = OneConn /\ Second' = Second
  BY DEF IInv, TypeOK, PcOK, AcquireFails, Goto, At, InSlot, OneConn, Second, Tasks
<1>3. Cardinality(InSlot') = Cardinality(InSlot) - 1 /\ Cardinality(InSlot) >= 1
  BY <1>2, OneLess, CountedSets
<1>. QED
  BY <1>1, <1>2, <1>3, SlotLimitFacts DEF IInv, TypeOK, NothingLeaks, AcquireFails, FreeSlot

\* Taking a first connection: by a holder in its slot or by a handler.
LEMMA FirstConnIInv ==
  ASSUME IInv, NEW t \in Tasks,
         (t \in Holders /\ AcquireConn(t)) \/ (t \in Handlers /\ HandlerGetsConn(t))
  PROVE  IInv'
<1>1. PcOK'
  BY LockSlotsAssumption DEF PcOK, IInv, TypeOK, AcquireConn, HandlerGetsConn, Goto, At, Steps, Tasks
<1>2. t \notin OneConn /\ OneConn' = OneConn \cup {t} /\ InSlot' = InSlot /\ Second' = Second
  BY LockSlotsAssumption
  DEF IInv, TypeOK, PcOK, AcquireConn, HandlerGetsConn, Goto, At, InSlot, OneConn, Second, Tasks
<1>3. Cardinality(OneConn') = Cardinality(OneConn) + 1
  BY <1>2, OneMore, CountedSets
<1>. QED
  BY <1>1, <1>2, <1>3, CountedSets, LockSlotsAssumption
  DEF IInv, TypeOK, NothingLeaks, AcquireConn, HandlerGetsConn, TakeConn

LEMMA TryLockIInv ==
  ASSUME IInv, NEW t \in Holders, TryLock(t)
  PROVE  IInv'
<1>1. PcOK'
  BY LockSlotsAssumption DEF PcOK, IInv, TypeOK, TryLock, Goto, Steps, Tasks
<1>2. InSlot' = InSlot /\ OneConn' = OneConn /\ Second' = Second
  BY DEF IInv, TypeOK, PcOK, TryLock, Goto, At, InSlot, OneConn, Second, Tasks
<1>3. locked' \subseteq Purchases
  BY LockSlotsAssumption DEF IInv, TypeOK, TryLock
<1>. QED
  BY <1>1, <1>2, <1>3 DEF IInv, TypeOK, NothingLeaks, TryLock

\* Leaving the lock, or giving it up: the slot and the connection both go back.
LEMMA LeaveIInv ==
  ASSUME IInv, NEW t \in Holders, GiveUp(t) \/ Release(t)
  PROVE  IInv'
<1>1. PcOK'
  BY LockSlotsAssumption DEF PcOK, IInv, TypeOK, GiveUp, Release, Goto, Steps, Tasks
<1>2. /\ t \in InSlot /\ InSlot' = InSlot \ {t}
      /\ t \in OneConn /\ OneConn' = OneConn \ {t}
      /\ Second' = Second
  BY DEF IInv, TypeOK, PcOK, GiveUp, Release, Goto, At, InSlot, OneConn, Second, Tasks
<1>3. /\ Cardinality(InSlot') = Cardinality(InSlot) - 1 /\ Cardinality(InSlot) >= 1
      /\ Cardinality(OneConn') = Cardinality(OneConn) - 1 /\ Cardinality(OneConn) >= 1
  BY <1>2, OneLess, CountedSets
<1>4. slots' = slots - 1 /\ conns' = conns - 1 /\ locked' \subseteq locked
  BY DEF GiveUp, Release, FreeSlot, ReleaseConn
<1>. QED
  BY <1>1, <1>2, <1>3, <1>4, CountedSets, SlotLimitFacts, LockSlotsAssumption
  DEF IInv, TypeOK, NothingLeaks

LEMMA GetSecondIInv ==
  ASSUME IInv, NEW t \in Holders, GetSecond(t)
  PROVE  IInv'
<1>1. PcOK'
  BY LockSlotsAssumption DEF PcOK, IInv, TypeOK, GetSecond, Goto, Steps, Tasks
<1>2. t \notin Second /\ Second' = Second \cup {t} /\ InSlot' = InSlot /\ OneConn' = OneConn
  BY DEF IInv, TypeOK, PcOK, GetSecond, Goto, At, InSlot, OneConn, Second, Tasks
<1>3. Cardinality(Second') = Cardinality(Second) + 1
  BY <1>2, OneMore, CountedSets
<1>. QED
  BY <1>1, <1>2, <1>3, CountedSets, LockSlotsAssumption
  DEF IInv, TypeOK, NothingLeaks, GetSecond, TakeConn

LEMMA ReturnSecondIInv ==
  ASSUME IInv, NEW t \in Holders, ReturnSecond(t)
  PROVE  IInv'
<1>1. PcOK'
  BY LockSlotsAssumption DEF PcOK, IInv, TypeOK, ReturnSecond, Goto, Steps, Tasks
<1>2. t \in Second /\ Second' = Second \ {t} /\ InSlot' = InSlot /\ OneConn' = OneConn
  BY DEF IInv, TypeOK, PcOK, ReturnSecond, Goto, At, InSlot, OneConn, Second, Tasks
<1>3. Cardinality(Second') = Cardinality(Second) - 1 /\ Cardinality(Second) >= 1
  BY <1>2, OneLess, CountedSets
<1>. QED
  BY <1>1, <1>2, <1>3, CountedSets, LockSlotsAssumption
  DEF IInv, TypeOK, NothingLeaks, ReturnSecond, ReleaseConn

LEMMA HandlerDoneIInv ==
  ASSUME IInv, NEW t \in Handlers, HandlerDone(t)
  PROVE  IInv'
<1>1. PcOK'
  BY LockSlotsAssumption DEF PcOK, IInv, TypeOK, HandlerDone, Goto, Steps, Tasks
<1>2. t \in OneConn /\ OneConn' = OneConn \ {t} /\ InSlot' = InSlot /\ Second' = Second
  BY LockSlotsAssumption
  DEF IInv, TypeOK, PcOK, HandlerDone, Goto, At, InSlot, OneConn, Second, Tasks
<1>3. Cardinality(OneConn') = Cardinality(OneConn) - 1 /\ Cardinality(OneConn) >= 1
  BY <1>2, OneLess, CountedSets
<1>. QED
  BY <1>1, <1>2, <1>3, CountedSets, LockSlotsAssumption
  DEF IInv, TypeOK, NothingLeaks, HandlerDone, ReleaseConn

LEMMA NextIInv == IInv /\ [Next]_vars => IInv'
<1>. SUFFICES ASSUME IInv, [Next]_vars PROVE IInv'  OBVIOUS
<1>1. ASSUME NEW t \in Holders, HolderStep(t) PROVE IInv'
  <2>1. t \in Tasks  BY DEF Tasks
  <2>. QED
    BY <1>1, <2>1, WaitingSteps, TakeSlotIInv, AcquireFailsIInv, FirstConnIInv,
       TryLockIInv, LeaveIInv, GetSecondIInv, ReturnSecondIInv DEF HolderStep
<1>2. ASSUME NEW t \in Handlers, HandlerStep(t) PROVE IInv'
  <2>1. t \in Tasks  BY DEF Tasks
  <2>. QED  BY <1>2, <2>1, FirstConnIInv, HandlerDoneIInv DEF HandlerStep
<1>3. CASE UNCHANGED vars
  BY <1>3 DEF vars, IInv, TypeOK, PcOK, NothingLeaks, InSlot, OneConn, Second
<1>. QED  BY <1>1, <1>2, <1>3 DEF Next

----------------------------------------------------------------------------
(* Theorems. *)

LEMMA Inductive == Spec => []IInv
<1>1. Init => IInv  BY InitIInv
<1>2. IInv /\ [Next]_vars => IInv'  BY NextIInv
<1>. QED  BY <1>1, <1>2, PTL DEF Spec

\* Slots and connections are given back exactly once, on every early return, for
\* any number of tasks and any pool of at least two connections.
THEOREM NoLeak == Spec => [](TypeOK /\ NothingLeaks)
<1>. QED  BY Inductive DEF IInv

\* Neither counter ever leaves its range: the semaphore never hands out more slots
\* than it has, and the pool never lends a connection it does not own, however many
\* tasks come.
THEOREM CountersStayInRange == Spec => []TypeOK
<1>1. IInv => TypeOK  BY DEF IInv
<1>. QED  BY <1>1, Inductive, PTL

\* The counting argument of the code comment: with everybody stuck, all the
\* connections in use belong to tasks that sit in a slot.
LEMMA SlotsLeaveRoom == IInv => NeverStuck
<1>. SUFFICES ASSUME IInv,
                     \A t \in Tasks : pc[t] \notin {"both", "conn", "query"}
              PROVE  conns < MaxConns
  BY DEF NeverStuck
<1>1. OneConn \subseteq InSlot
  BY DEF IInv, TypeOK, PcOK, OneConn, InSlot, Tasks
<1>2. Second = {}  BY DEF Second, Tasks
<1>3. Cardinality(Second) = 0  BY <1>2, FS_EmptySet
<1>4. Cardinality(OneConn) <= Cardinality(InSlot)
  BY <1>1, CountedSets, FS_Subset
<1>. QED
  BY <1>3, <1>4, CountedSets, SlotLimitFacts, LockSlotsAssumption
  DEF IInv, TypeOK, NothingLeaks

\* No reachable state has every connection in the hands of tasks that wait for
\* one more: the deadlock the semaphore was introduced for cannot happen.
THEOREM DeadlockFree == Spec => []NeverStuck
<1>1. TypeOK /\ NothingLeaks => NeverStuck  BY SlotsLeaveRoom DEF IInv
<1>. QED  BY <1>1, NoLeak, PTL
=============================================================================
