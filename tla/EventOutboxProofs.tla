-------------------------- MODULE EventOutboxProofs --------------------------
(***************************************************************************)
(* For any set of facts, any number of replicas and any bounds: the relay  *)
(* loses no fact, two sweeps never hold the same row, and the outbox with  *)
(* its queue implements FactDelivery.  The invariant that carries all of   *)
(* it says what a sweep in progress knows: the rows it holds are pending   *)
(* and nobody else's, a row it marked published is a task or was handled,  *)
(* and a row it marked dead has used up its attempts.                      *)
(***************************************************************************)
EXTENDS EventOutbox, TLAPS

\* What the transaction of a sweep holds for a row.
RowHeld(r, f) == f \in relay[r].batch \/ relay[r].marks[f] # "untouched"

SweepOK(r, f) ==
  /\ RowHeld(r, f) => relay[r].open /\ row[f] = "pending"
  /\ f \in relay[r].batch => relay[r].marks[f] = "untouched"
  /\ relay[r].marks[f] = "published" => f \in handled \/ task[f] # "none"
  /\ relay[r].marks[f] = "failed" => attempts[f] + 1 < MaxAttempts
  /\ relay[r].marks[f] = "dead" => attempts[f] + 1 >= MaxAttempts

RowOK(f) ==
  /\ row[f] \in {"none", "pending"} => attempts[f] < MaxAttempts
  /\ row[f] = "published" => f \in handled \/ task[f] # "none"
  /\ task[f] # "none" \/ f \in handled => row[f] # "none"

Exclusive == \A r, s \in Relays, f \in Facts : RowHeld(r, f) /\ RowHeld(s, f) => r = s

BoxInv ==
  /\ BoxTypeOK
  /\ \A r \in Relays, f \in Facts : SweepOK(r, f)
  /\ \A f \in Facts : RowOK(f)
  /\ Exclusive

LEMMA InitBoxInv == BoxInit => BoxInv
BY OutboxAssumption
DEF BoxInit, BoxInv, BoxTypeOK, SweepOK, RowOK, Exclusive, RowHeld, Idle, RowStatus, TaskStatus, Marks

----------------------------------------------------------------------------
(* One lemma per kind of step. *)

\* Emitting touches rows that no sweep holds.
LEMMA EmitBoxInv ==
  ASSUME BoxInv, NEW F \in SUBSET Facts, Emit(F)
  PROVE  BoxInv'
BY DEF Emit, EmitRows, BoxInv, BoxTypeOK, SweepOK, RowOK, Exclusive, RowHeld, RowStatus

\* A sweep starts on pending rows that no other sweep holds.
LEMMA BeginBoxInv ==
  ASSUME BoxInv, NEW r \in Relays, BeginSweep(r)
  PROVE  BoxInv'
<1>1. PICK batch \in SUBSET Unlocked : relay' = [relay EXCEPT ![r] =
          [open |-> TRUE, batch |-> batch, marks |-> [f \in Facts |-> "untouched"]]]
  BY DEF BeginSweep, Idle
<1>2. \A f \in batch : f \in Facts /\ row[f] = "pending" /\ \A s \in Relays : ~RowHeld(s, f)
  BY DEF Unlocked, Pending, Locked, Held, RowHeld
<1>3. relay'[r] = [open |-> TRUE, batch |-> batch, marks |-> [f \in Facts |-> "untouched"]]
  BY <1>1 DEF Idle, BoxInv, BoxTypeOK
<1>4. \A s \in Relays : s # r => relay'[s] = relay[s]
  BY <1>1 DEF BoxInv, BoxTypeOK
<1>5. UNCHANGED <<row, attempts, task, retried, handled, faults>>
  BY DEF BeginSweep
<1>6. BoxTypeOK'
  <2>1. relay' \in [Relays -> [open : BOOLEAN, batch : SUBSET Facts, marks : [Facts -> Marks]]]
    BY <1>1, <1>2 DEF Idle, BoxInv, BoxTypeOK, Marks
  <2>. QED  BY <2>1, <1>5 DEF BoxInv, BoxTypeOK
<1>7. \A s \in Relays, f \in Facts : SweepOK(s, f)'
  BY <1>2, <1>3, <1>4, <1>5 DEF BoxInv, SweepOK, RowHeld
<1>8. \A f \in Facts : RowOK(f)'
  BY <1>5 DEF BoxInv, RowOK
<1>9. Exclusive'
  BY <1>2, <1>3, <1>4 DEF BoxInv, Exclusive, RowHeld
<1>. QED  BY <1>6, <1>7, <1>8, <1>9 DEF BoxInv

\* A visited row leaves the batch with a mark that its task or its attempts justify.
LEMMA VisitBoxInv ==
  ASSUME BoxInv, NEW r \in Relays, NEW f \in Facts, Publish(r, f) \/ EnqueueFails(r, f)
  PROVE  BoxInv'
<1>1. PICK mark \in Marks :
        /\ relay' = [relay EXCEPT ![r] = [open |-> relay[r].open, batch |-> relay[r].batch \ {f},
                                          marks |-> [relay[r].marks EXCEPT ![f] = mark]]]
        /\ task' \in {task, Enqueued(f)}
        /\ mark = "published" => task' = Enqueued(f)
        /\ mark = "failed" => attempts[f] + 1 < MaxAttempts
        /\ mark = "dead" => attempts[f] + 1 >= MaxAttempts
        /\ mark # "untouched"
  <2>1. CASE Publish(r, f)
    BY <2>1 DEF Publish, Visited, Marks
  <2>2. CASE EnqueueFails(r, f)
    <3>1. attempts[f] \in Nat
      BY OutboxAssumption DEF BoxInv, BoxTypeOK
    <3>2. /\ FailedMark(f) \in Marks /\ FailedMark(f) \notin {"published", "untouched"}
          /\ FailedMark(f) = "failed" => attempts[f] + 1 < MaxAttempts
          /\ FailedMark(f) = "dead" => attempts[f] + 1 >= MaxAttempts
      BY <3>1, OutboxAssumption DEF FailedMark, Marks
    <3>. QED  BY <2>2, <3>2 DEF EnqueueFails, Visited
  <2>. QED  BY <2>1, <2>2
<1>2. f \in relay[r].batch /\ UNCHANGED <<row, attempts, retried, handled>>
  BY DEF Publish, EnqueueFails
<1>3. faults' \in 0 .. MaxFaults
  BY OutboxAssumption DEF Publish, EnqueueFails, Fault, BoxInv, BoxTypeOK
<1>4. relay'[r] = [open |-> relay[r].open, batch |-> relay[r].batch \ {f},
                   marks |-> [relay[r].marks EXCEPT ![f] = mark]]
  BY <1>1 DEF BoxInv, BoxTypeOK
<1>5. \A s \in Relays : s # r => relay'[s] = relay[s]
  BY <1>1 DEF BoxInv, BoxTypeOK
<1>6. /\ task' \in [Facts -> TaskStatus]
      /\ \A g \in Facts : task[g] # "none" => task'[g] = task[g]
      /\ \A g \in Facts : g # f => task'[g] = task[g]
      /\ mark = "published" => task'[f] # "none"
  BY <1>1 DEF BoxInv, BoxTypeOK, Enqueued, TaskStatus
<1>7. RowHeld(r, f) /\ row[f] = "pending"
  BY <1>2 DEF BoxInv, SweepOK, RowHeld
<1>8. BoxTypeOK'
  <2>1. relay' \in [Relays -> [open : BOOLEAN, batch : SUBSET Facts, marks : [Facts -> Marks]]]
    <3>1. relay[r].marks \in [Facts -> Marks] /\ relay[r].batch \subseteq Facts /\ relay[r].open \in BOOLEAN
      BY DEF BoxInv, BoxTypeOK
    <3>2. relay'[r] \in [open : BOOLEAN, batch : SUBSET Facts, marks : [Facts -> Marks]]
      BY <1>1, <1>4, <3>1
    <3>3. DOMAIN relay' = Relays /\ relay' = [s \in Relays |-> relay'[s]]
      BY <1>1 DEF BoxInv, BoxTypeOK
    <3>. QED  BY <3>2, <3>3, <1>5 DEF BoxInv, BoxTypeOK
  <2>. QED  BY <2>1, <1>2, <1>3, <1>6 DEF BoxInv, BoxTypeOK
<1>9. \A s \in Relays, g \in Facts : RowHeld(s, g)' => RowHeld(s, g)
  BY <1>4, <1>5, <1>7 DEF RowHeld, BoxInv, BoxTypeOK
<1>10. \A s \in Relays, g \in Facts : SweepOK(s, g)'
  <2>. SUFFICES ASSUME NEW s \in Relays, NEW g \in Facts PROVE SweepOK(s, g)'  OBVIOUS
  <2>1. SweepOK(s, g)
    BY DEF BoxInv
  <2>2. CASE s = r
    <3>1. relay[r].marks \in [Facts -> Marks]
      BY DEF BoxInv, BoxTypeOK
    <3>2. CASE g = f
      BY <1>1, <1>2, <1>4, <1>6, <1>7, <2>1, <2>2, <3>1, <3>2 DEF SweepOK, RowHeld
    <3>3. CASE g # f
      BY <1>2, <1>4, <1>6, <2>1, <2>2, <3>1, <3>3 DEF SweepOK, RowHeld
    <3>. QED  BY <3>2, <3>3
  <2>3. CASE s # r
    BY <1>2, <1>5, <1>6, <2>1, <2>3 DEF SweepOK, RowHeld
  <2>. QED  BY <2>2, <2>3
<1>11. \A g \in Facts : RowOK(g)'
  BY <1>2, <1>6, <1>7 DEF BoxInv, RowOK
<1>12. Exclusive'
  BY <1>9 DEF BoxInv, Exclusive
<1>. QED  BY <1>8, <1>10, <1>11, <1>12 DEF BoxInv

\* A sweep ends: its marks reach the rows, which were its own.
LEMMA CommitBoxInv ==
  ASSUME BoxInv, NEW r \in Relays, CommitSweep(r)
  PROVE  BoxInv'
<1>1. /\ row' = Committed(r) /\ attempts' = Counted(r) /\ relay' = [relay EXCEPT ![r] = Idle]
      /\ UNCHANGED <<task, retried, handled, faults>>
  BY DEF CommitSweep
<1>2. relay'[r] = Idle /\ \A s \in Relays : s # r => relay'[s] = relay[s]
  BY <1>1 DEF BoxInv, BoxTypeOK
<1>3. \A f \in Facts : ~RowHeld(r, f)'
  BY <1>2 DEF RowHeld, Idle
<1>4. \A f \in Facts : relay[r].marks[f] = "untouched" => row'[f] = row[f] /\ attempts'[f] = attempts[f]
  BY <1>1 DEF Committed, Counted
<1>5. \A s \in Relays, f \in Facts : s # r /\ RowHeld(s, f) => relay[r].marks[f] = "untouched"
  BY DEF BoxInv, Exclusive, RowHeld
<1>6. \A f \in Facts : relay[r].marks[f] \in Marks /\ attempts[f] \in Nat /\ attempts[f] <= MaxAttempts
  BY OutboxAssumption DEF BoxInv, BoxTypeOK
<1>7. \A f \in Facts : RowOK(f)'
  <2>. SUFFICES ASSUME NEW f \in Facts PROVE RowOK(f)'  OBVIOUS
  <2>1. RowOK(f) /\ SweepOK(r, f) /\ relay[r].marks[f] \in Marks /\ attempts[f] \in Nat
    BY <1>6 DEF BoxInv
  <2>2. row'[f] = IF relay[r].marks[f] \in {"published", "dead"} THEN relay[r].marks[f] ELSE row[f]
    BY <1>1 DEF Committed
  <2>3. attempts'[f] = IF relay[r].marks[f] \in {"failed", "dead"} THEN attempts[f] + 1 ELSE attempts[f]
    BY <1>1 DEF Counted
  <2>. QED  BY <1>1, <2>1, <2>2, <2>3, OutboxAssumption DEF RowOK, SweepOK, Marks, RowHeld
<1>8. \A s \in Relays, f \in Facts : SweepOK(s, f)'
  <2>. SUFFICES ASSUME NEW s \in Relays, NEW f \in Facts PROVE SweepOK(s, f)'  OBVIOUS
  <2>1. CASE s = r
    BY <1>2, <2>1 DEF SweepOK, RowHeld, Idle
  <2>2. CASE s # r /\ RowHeld(s, f)
    BY <1>1, <1>2, <1>4, <1>5, <2>2 DEF BoxInv, SweepOK, RowHeld
  <2>3. CASE s # r /\ ~RowHeld(s, f)
    BY <1>2, <2>3 DEF SweepOK, RowHeld
  <2>. QED  BY <2>1, <2>2, <2>3
<1>9. Exclusive'
  BY <1>2, <1>3 DEF BoxInv, Exclusive, RowHeld
<1>10. BoxTypeOK'
  <2>1. row' \in [Facts -> RowStatus]
    BY <1>1, <1>6 DEF Committed, BoxInv, BoxTypeOK, RowStatus, Marks
  <2>2. attempts' \in [Facts -> 0 .. MaxAttempts]
    <3>1. \A f \in Facts : relay[r].marks[f] \in {"failed", "dead"} => attempts[f] + 1 \in 0 .. MaxAttempts
      <4>. SUFFICES ASSUME NEW f \in Facts, relay[r].marks[f] \in {"failed", "dead"}
                    PROVE  attempts[f] + 1 \in 0 .. MaxAttempts
        OBVIOUS
      <4>1. row[f] = "pending"
        BY DEF BoxInv, SweepOK, RowHeld
      <4>2. attempts[f] < MaxAttempts
        BY <4>1 DEF BoxInv, RowOK
      <4>. QED  BY <4>2, <1>6, OutboxAssumption
    <3>. QED  BY <3>1, <1>1 DEF Counted, BoxInv, BoxTypeOK
  <2>3. relay' \in [Relays -> [open : BOOLEAN, batch : SUBSET Facts, marks : [Facts -> Marks]]]
    BY <1>1 DEF Idle, BoxInv, BoxTypeOK, Marks
  <2>. QED  BY <1>1, <2>1, <2>2, <2>3 DEF BoxInv, BoxTypeOK
<1>. QED  BY <1>7, <1>8, <1>9, <1>10 DEF BoxInv

\* A lost sweep leaves its rows as they were.
LEMMA LostBoxInv ==
  ASSUME BoxInv, NEW r \in Relays, SweepLost(r)
  PROVE  BoxInv'
<1>1. relay' = [relay EXCEPT ![r] = Idle] /\ UNCHANGED <<row, attempts, task, retried, handled>>
  BY DEF SweepLost
<1>2. relay'[r] = Idle /\ \A s \in Relays : s # r => relay'[s] = relay[s]
  BY <1>1 DEF BoxInv, BoxTypeOK
<1>3. BoxTypeOK'
  <2>1. relay' \in [Relays -> [open : BOOLEAN, batch : SUBSET Facts, marks : [Facts -> Marks]]]
    BY <1>1 DEF Idle, BoxInv, BoxTypeOK, Marks
  <2>2. faults' \in 0 .. MaxFaults
    BY OutboxAssumption DEF SweepLost, Fault, BoxInv, BoxTypeOK
  <2>. QED  BY <1>1, <2>1, <2>2 DEF BoxInv, BoxTypeOK
<1>4. \A s \in Relays, f \in Facts : SweepOK(s, f)'
  BY <1>1, <1>2 DEF BoxInv, SweepOK, RowHeld, Idle
<1>5. (\A f \in Facts : RowOK(f)') /\ Exclusive'
  BY <1>1, <1>2 DEF BoxInv, RowOK, Exclusive, RowHeld, Idle
<1>. QED  BY <1>3, <1>4, <1>5 DEF BoxInv

\* Tasks move; what was handled stays handled.
LEMMA TaskBoxInv ==
  ASSUME BoxInv, NEW f \in Facts, StartTask(f) \/ FinishTask(f) \/ Retry(f),
         faults' \in 0 .. MaxFaults
  PROVE  BoxInv'
<1>1. UNCHANGED <<row, attempts, relay>> /\ handled \subseteq handled' /\ handled' \subseteq Facts
  BY DEF StartTask, FinishTask, Retry, BoxInv, BoxTypeOK
<1>2. task' \in [Facts -> TaskStatus] /\ retried' \in [Facts -> 0 .. MaxRetry]
  BY OutboxAssumption DEF StartTask, FinishTask, Retry, BoxInv, BoxTypeOK, TaskStatus
<1>3. \A g \in Facts : task[g] # "none" => g \in handled' \/ task'[g] # "none"
  BY DEF StartTask, FinishTask, Retry, BoxInv, BoxTypeOK, TaskStatus
<1>4. \A g \in Facts : task'[g] # "none" \/ g \in handled' => task[g] # "none" \/ g \in handled
  BY DEF StartTask, FinishTask, Retry, BoxInv, BoxTypeOK, TaskStatus
<1>5. BoxTypeOK'
  BY <1>1, <1>2 DEF BoxInv, BoxTypeOK
<1>6. \A r \in Relays, g \in Facts : SweepOK(r, g)'
  BY <1>1, <1>3 DEF BoxInv, SweepOK, RowHeld
<1>7. (\A g \in Facts : RowOK(g)') /\ Exclusive'
  BY <1>1, <1>3, <1>4 DEF BoxInv, RowOK, Exclusive, RowHeld
<1>. QED  BY <1>5, <1>6, <1>7 DEF BoxInv

LEMMA StepBoxInv == BoxInv /\ [Next]_boxVars => BoxInv'
<1>. SUFFICES ASSUME BoxInv, [Next]_boxVars PROVE BoxInv'  OBVIOUS
<1>1. CASE \E F \in SUBSET Facts : Emit(F)
  BY <1>1, EmitBoxInv
<1>2. CASE \E r \in Relays : RelayStep(r) \/ SweepLost(r)
  BY <1>2, BeginBoxInv, VisitBoxInv, CommitBoxInv, LostBoxInv DEF RelayStep
<1>3. CASE \E f \in Facts : StartTask(f) \/ FinishTask(f) \/ FailTask(f) \/ WorkerDies(f)
  <2>1. PICK f \in Facts : StartTask(f) \/ FinishTask(f) \/ FailTask(f) \/ WorkerDies(f)
    BY <1>3
  <2>2. faults' \in 0 .. MaxFaults
    BY <2>1, OutboxAssumption DEF StartTask, FinishTask, FailTask, WorkerDies, Fault, BoxInv, BoxTypeOK
  <2>. QED  BY <2>1, <2>2, TaskBoxInv DEF FailTask, WorkerDies
<1>4. CASE UNCHANGED boxVars
  BY <1>4 DEF boxVars, BoxInv, BoxTypeOK, SweepOK, RowOK, Exclusive, RowHeld
<1>. QED  BY <1>1, <1>2, <1>3, <1>4 DEF Next

----------------------------------------------------------------------------
\* The invariant holds in every state the outbox reaches.
THEOREM BoxInvariant == Spec => []BoxInv
BY InitBoxInv, StepBoxInv, PTL DEF Spec

\* The rows, the sweeps and the tasks keep their shape; in particular attempts never
\* exceeds maxOutboxAttempts (relay.go:18).
THEOREM BoxTypeCorrect == Spec => []BoxTypeOK
<1>1. BoxInv => BoxTypeOK  BY DEF BoxInv
<1>. QED  BY <1>1, BoxInvariant, PTL

\* No crash, no Redis error and no redelivery makes a fact vanish.
THEOREM NothingIsLost == Spec => []NoFactSlipsAway
<1>1. BoxInv => NoFactSlipsAway
  BY DEF BoxInv, BoxTypeOK, RowOK, NoFactSlipsAway, TaskStatus
<1>. QED  BY <1>1, BoxInvariant, PTL

\* FOR UPDATE SKIP LOCKED keeps the replicas apart.
THEOREM SweepsStayApart == Spec => []SweepsAreDisjoint
<1>1. BoxInv => SweepsAreDisjoint
  BY DEF BoxInv, BoxTypeOK, Exclusive, RowHeld, SweepsAreDisjoint, Held
<1>. QED  BY <1>1, BoxInvariant, PTL

----------------------------------------------------------------------------
(* The refinement. *)

LEMMA InitDelivers == BoxInit => Delivery!Init
BY DEF BoxInit, Delivery!Init

\* A step that only moves rows and sweeps.
LEMMA StepDelivers ==
  ASSUME BoxInv, BoxInv', [Next]_boxVars
  PROVE  [Delivery!Next]_Delivery!vars
<1>. DEFINE rec == {f \in Facts : row[f] # "none"}
            gone == {f \in Facts : row[f] = "dead" \/ task[f] = "archived"}
<1>1. CASE \E F \in SUBSET Facts : Emit(F)
  <2>1. PICK F \in SUBSET Facts : Emit(F)
    BY <1>1
  <2>2. rec' = rec \cup F
    BY <2>1 DEF Emit, EmitRows, BoxInv, BoxTypeOK
  <2>3. gone' = gone /\ handled' = handled
    BY <2>1 DEF Emit, EmitRows, BoxInv, BoxTypeOK
  <2>4. Delivery!Record(F)
    BY <2>2, <2>3 DEF Delivery!Record
  <2>. QED  BY <2>4 DEF Delivery!Next
<1>2. CASE \E r \in Relays : BeginSweep(r) \/ SweepLost(r)
  BY <1>2 DEF BeginSweep, SweepLost, Delivery!vars
<1>3. CASE \E r \in Relays, f \in Facts : Publish(r, f) \/ EnqueueFails(r, f)
  <2>1. PICK r \in Relays, f \in Facts : Publish(r, f) \/ EnqueueFails(r, f)
    BY <1>3
  <2>2. row' = row /\ handled' = handled /\ task' \in {task, Enqueued(f)}
    BY <2>1 DEF Publish, EnqueueFails
  <2>3. \A g \in Facts : task'[g] = "archived" <=> task[g] = "archived"
    BY <2>2 DEF Enqueued, BoxInv, BoxTypeOK
  <2>4. rec' = rec /\ gone' = gone
    BY <2>2, <2>3
  <2>. QED  BY <2>2, <2>4 DEF Delivery!vars
<1>4. CASE \E r \in Relays : CommitSweep(r)
  <2>1. PICK r \in Relays : CommitSweep(r)
    BY <1>4
  <2>2. row' = Committed(r) /\ task' = task /\ handled' = handled
    BY <2>1 DEF CommitSweep
  <2>3. \A f \in Facts : relay[r].marks[f] # "untouched" => row[f] = "pending"
    BY DEF BoxInv, SweepOK, RowHeld
  <2>4. rec' = rec
    BY <2>2, <2>3 DEF Committed
  <2>5. gone \subseteq gone' /\ gone' \subseteq rec
    <3>1. gone \subseteq gone'
      BY <2>2, <2>3 DEF Committed
    <3>2. gone' \subseteq rec'
      BY DEF BoxInv, RowOK
    <3>. QED  BY <3>1, <3>2, <2>4
  <2>6. PICK G \in SUBSET Facts : G = gone'
    OBVIOUS
  <2>7. Delivery!Abandon(G)
    BY <2>2, <2>4, <2>5, <2>6 DEF Delivery!Abandon
  <2>. QED  BY <2>7 DEF Delivery!Next
<1>5. CASE \E f \in Facts : StartTask(f) \/ FinishTask(f) \/ FailTask(f) \/ WorkerDies(f)
  <2>1. PICK f \in Facts : StartTask(f) \/ FinishTask(f) \/ Retry(f)
    BY <1>5 DEF FailTask, WorkerDies
  <2>2. row' = row /\ rec' = rec /\ task[f] # "none" /\ task[f] # "archived" /\ f \in rec
    BY <2>1 DEF StartTask, FinishTask, Retry, BoxInv, RowOK
  <2>3. CASE StartTask(f)
    <3>1. gone' = gone /\ handled' = handled
      BY <2>2, <2>3 DEF StartTask, BoxInv, BoxTypeOK
    <3>. QED  BY <3>1, <2>2 DEF Delivery!vars
  <2>4. CASE FinishTask(f)
    <3>1. gone' = gone /\ handled' = handled \cup {f}
      BY <2>2, <2>4 DEF FinishTask, BoxInv, BoxTypeOK
    <3>2. Delivery!Handle(f)
      BY <3>1, <2>2 DEF Delivery!Handle
    <3>. QED  BY <3>2 DEF Delivery!Next
  <2>5. CASE Retry(f)
    <3>1. handled' = handled /\ gone \subseteq gone'
      BY <2>2, <2>5 DEF Retry, BoxInv, BoxTypeOK
    <3>2. gone' \subseteq rec
      <4>1. gone' \subseteq rec'
        BY DEF BoxInv, RowOK
      <4>. QED  BY <4>1, <2>2
    <3>3. PICK G \in SUBSET Facts : G = gone'
      OBVIOUS
    <3>4. Delivery!Abandon(G)
      BY <3>1, <3>2, <3>3, <2>2 DEF Delivery!Abandon
    <3>. QED  BY <3>4 DEF Delivery!Next
  <2>. QED  BY <2>1, <2>3, <2>4, <2>5
<1>6. CASE UNCHANGED boxVars
  BY <1>6 DEF boxVars, Delivery!vars
<1>. QED  BY <1>1, <1>2, <1>3, <1>4, <1>5, <1>6 DEF Next, RelayStep

\* The outbox, the relays and the queue implement the promise: only what was recorded
\* is handled, and what was recorded or given up stays so.
THEOREM OutboxDelivers == Spec => FactsAreDelivered
<1>1. BoxInv /\ BoxInv' /\ [Next]_boxVars => [Delivery!Next]_Delivery!vars
  BY StepDelivers
<1>. QED  BY <1>1, InitDelivers, BoxInvariant, PTL DEF Spec, FactsAreDelivered, Delivery!Spec
=============================================================================
