------------------------------ MODULE LockSlots ------------------------------
(***************************************************************************)
(* The finalisation lock of a purchase and the connection pool under it    *)
(* (Repository.AcquireCartFinalisationLock).  A holder keeps one pooled    *)
(* connection for its session-scoped advisory lock and asks the same pool  *)
(* for a second one, again and again, while it works: hold and wait.  The  *)
(* lockSlots channel bounds how many tasks may hold.  Plain handlers share *)
(* the pool and use one connection at a time.                              *)
(*                                                                         *)
(*   pc[t]     where task t is                                             *)
(*   slots     vacancies of lockSlots in use                               *)
(*   conns     connections of the pool in use                              *)
(*   locked    purchases whose advisory lock is taken                      *)
(*                                                                         *)
(* Abstractions: what a holder does under the lock is only its use of the  *)
(* pool; a query that waits for a row lock is a query that takes long.     *)
(***************************************************************************)
EXTENDS Integers, FiniteSets

CONSTANTS
  Holders,      \* tasks that finalise, expire, cancel or reopen a purchase
  Handlers,     \* tasks that run one query at a time
  Purchases,    \* lock keys
  KeyOf,        \* the purchase a holder works on
  MaxConns      \* pool.Config().MaxConns

\* With a single connection a holder could never get its second one.
ASSUME LockSlotsAssumption ==
  /\ IsFiniteSet(Holders) /\ IsFiniteSet(Handlers)
  /\ Holders \cap Handlers = {}
  /\ KeyOf \in [Holders -> Purchases]
  /\ MaxConns \in Nat /\ MaxConns >= 2

VARIABLES pc, slots, conns, locked

vars == <<pc, slots, conns, locked>>

Tasks == Holders \cup Handlers
Steps == {"idle", "asks", "slotted", "conn", "held", "wants", "both", "query"}

\* cartFinalisationLockSlots: half of the pool, at least one.
WholePool == MaxConns                                              \* mutant
SlotLimit == IF MaxConns \div 2 > 0 THEN MaxConns \div 2 ELSE 1

PcOK ==
  /\ pc \in [Tasks -> Steps]
  /\ \A t \in Handlers : pc[t] \in {"idle", "query"}

TypeOK ==
  /\ PcOK
  /\ slots \in 0 .. SlotLimit
  /\ conns \in 0 .. MaxConns
  /\ locked \subseteq Purchases

Init ==
  /\ pc = [t \in Tasks |-> "idle"]
  /\ slots = 0
  /\ conns = 0
  /\ locked = {}

----------------------------------------------------------------------------
At(t, a)    == pc[t] = a
Goto(t, a)  == pc' = [pc EXCEPT ![t] = a]
FreeTwice   == slots' = slots - 2                                  \* mutant
KeepSlot    == slots' = slots                                      \* mutant
FreeSlot    == slots' = slots - 1
TakeConn    == conns < MaxConns /\ conns' = conns + 1
ReleaseConn == conns' = conns - 1

Ask(t) ==
  /\ At(t, "idle") /\ Goto(t, "asks")
  /\ UNCHANGED <<slots, conns, locked>>

TakeSlot(t) ==
  /\ At(t, "asks") /\ Goto(t, "slotted")
  /\ slots < SlotLimit
  /\ slots' = slots + 1
  /\ UNCHANGED <<conns, locked>>

\* lockSlotWait passed, or the caller's context ended: an error, nothing held.
SlotTimeout(t) ==
  /\ At(t, "asks") /\ Goto(t, "idle")
  /\ UNCHANGED <<slots, conns, locked>>

AcquireConn(t) ==
  /\ At(t, "slotted") /\ Goto(t, "conn")
  /\ TakeConn
  /\ UNCHANGED <<slots, locked>>

AcquireFails(t) ==
  /\ At(t, "slotted") /\ Goto(t, "idle")
  /\ FreeSlot
  /\ UNCHANGED <<conns, locked>>

TryLock(t) ==
  /\ At(t, "conn") /\ Goto(t, "held")
  /\ KeyOf[t] \notin locked
  /\ locked' = locked \cup {KeyOf[t]}
  /\ UNCHANGED <<slots, conns>>

\* The lock is somebody else's, or one of the two queries failed.
GiveUp(t) ==
  /\ At(t, "conn") /\ Goto(t, "idle")
  /\ ReleaseConn /\ FreeSlot
  /\ UNCHANGED locked

\* Work under the lock: a second connection, without a deadline.
AskSecond(t) ==
  /\ At(t, "held") /\ Goto(t, "wants")
  /\ UNCHANGED <<slots, conns, locked>>

GetSecond(t) ==
  /\ At(t, "wants") /\ Goto(t, "both")
  /\ TakeConn
  /\ UNCHANGED <<slots, locked>>

ReturnSecond(t) ==
  /\ At(t, "both") /\ Goto(t, "held")
  /\ ReleaseConn
  /\ UNCHANGED <<slots, locked>>

Release(t) ==
  /\ At(t, "held") /\ Goto(t, "idle")
  /\ locked' = locked \ {KeyOf[t]}
  /\ ReleaseConn /\ FreeSlot

HandlerGetsConn(t) ==
  /\ At(t, "idle") /\ Goto(t, "query")
  /\ TakeConn
  /\ UNCHANGED <<slots, locked>>

HandlerDone(t) ==
  /\ At(t, "query") /\ Goto(t, "idle")
  /\ ReleaseConn
  /\ UNCHANGED <<slots, locked>>

----------------------------------------------------------------------------
HolderStep(t) ==
  \/ Ask(t) \/ TakeSlot(t) \/ SlotTimeout(t) \/ AcquireConn(t) \/ AcquireFails(t)
  \/ TryLock(t) \/ GiveUp(t) \/ AskSecond(t) \/ GetSecond(t) \/ ReturnSecond(t)
  \/ Release(t)

HandlerStep(t) == HandlerGetsConn(t) \/ HandlerDone(t)

Next == (\E t \in Holders : HolderStep(t)) \/ (\E t \in Handlers : HandlerStep(t))

Spec == Init /\ [][Next]_vars

\* pgxpool serves its waiters in order, so a waiter for which a connection is free
\* again and again gets one; queries and the work under the lock end.
Fairness ==
  /\ \A t \in Holders : /\ SF_vars(GetSecond(t))
                        /\ SF_vars(Release(t))
                        /\ WF_vars(ReturnSecond(t))
                        /\ WF_vars(TryLock(t) \/ GiveUp(t))
  /\ \A t \in Handlers : WF_vars(HandlerDone(t))

FairSpec == Spec /\ Fairness

----------------------------------------------------------------------------
(* Properties. *)

InSlot  == {t \in Holders : pc[t] \in {"slotted", "conn", "held", "wants", "both"}}
OneConn == {t \in Tasks : pc[t] \in {"conn", "held", "wants", "both", "query"}}
Second  == {t \in Holders : pc[t] = "both"}

\* Every early return gives back exactly what was taken: a slot or a connection
\* that leaked on one path would only be missed after the pool ran dry.
NothingLeaks ==
  /\ slots = Cardinality(InSlot)
  /\ conns = Cardinality(OneConn) + Cardinality(Second)

\* While a holder waits for its second connection, one is free or somebody who
\* waits for nothing has one ("O DEADLOCK QUE ESTE SEMAFORO FECHA").
NeverStuck ==
  (\E t \in Holders : pc[t] = "wants")
    => conns < MaxConns \/ \E t \in Tasks : pc[t] \in {"both", "conn", "query"}

\* Whoever got the lock gives it back.
HoldersFinish == \A t \in Holders : (pc[t] = "wants") ~> (pc[t] = "idle")

\* The pool always comes back to the handlers: the holders cannot keep it.
PoolComesBack == (conns = MaxConns) ~> (conns < MaxConns)
=============================================================================
