----------------------------- MODULE EventOutbox -----------------------------
(***************************************************************************)
(* The event pipeline (internal/events): Emit writes a row of event_outbox *)
(* in the transaction of the state change, the relays sweep pending rows   *)
(* into Redis, asynq workers take the tasks.                               *)
(*                                                                         *)
(*   row       event_outbox.status of each fact, "none" before Emit        *)
(*   attempts  event_outbox.attempts                                       *)
(*   relay     the sweep of each replica: the rows it holds locked and has *)
(*             still to enqueue, and what its transaction has written      *)
(*   task      the asynq task whose id is the event id; a completed task   *)
(*             is deleted and frees its id, an archived one keeps it       *)
(*   retried   asynq's retry count of the task                             *)
(*   handled   history: facts whose handler returned nil at least once     *)
(*   faults    Redis errors, lost sweeps and dead workers so far           *)
(*                                                                         *)
(* A fact is named by its dedup_key: a second Emit with the same key is a  *)
(* no-op.  Redis keeps what it accepted (external).  The order of the rows *)
(* inside a sweep (created_at) is abstracted.                              *)
(***************************************************************************)
EXTENDS Naturals, FiniteSets

CONSTANTS
  Facts,        \* dedup keys
  Relays,       \* replicas running a relay
  SweepLimit,   \* rows per sweep
  MaxAttempts,  \* maxOutboxAttempts
  MaxRetry,     \* retries of a task before asynq archives it
  MaxFaults     \* bound: Redis errors, lost sweeps, workers that die

ASSUME OutboxAssumption ==
  /\ IsFiniteSet(Facts)
  /\ SweepLimit \in Nat \ {0} /\ MaxAttempts \in Nat \ {0}
  /\ MaxRetry \in Nat /\ MaxFaults \in Nat

VARIABLES row, attempts, relay, task, retried, handled, faults

boxVars == <<row, attempts, relay, task, retried, handled, faults>>

RowStatus  == {"none", "pending", "published", "dead"}
TaskStatus == {"none", "queued", "active", "archived"}
Marks      == {"untouched", "published", "failed", "dead"}
Idle       == [open |-> FALSE, batch |-> {}, marks |-> [f \in Facts |-> "untouched"]]

BoxTypeOK ==
  /\ row \in [Facts -> RowStatus]
  /\ attempts \in [Facts -> 0 .. MaxAttempts]
  /\ relay \in [Relays -> [open : BOOLEAN, batch : SUBSET Facts, marks : [Facts -> Marks]]]
  /\ task \in [Facts -> TaskStatus]
  /\ retried \in [Facts -> 0 .. MaxRetry]
  /\ handled \subseteq Facts
  /\ faults \in 0 .. MaxFaults

\* Something outside the program goes wrong.
Fault == faults < MaxFaults /\ faults' = faults + 1

BoxInit ==
  /\ row = [f \in Facts |-> "none"]
  /\ attempts = [f \in Facts |-> 0]
  /\ relay = [r \in Relays |-> Idle]
  /\ task = [f \in Facts |-> "none"]
  /\ retried = [f \in Facts |-> 0]
  /\ handled = {}
  /\ faults = 0

----------------------------------------------------------------------------
(* Producers: ON CONFLICT (dedup_key) DO NOTHING. *)

EmitRows(F) == row' = [f \in Facts |-> IF f \in F /\ row[f] = "none" THEN "pending" ELSE row[f]]
Emit(F) ==
  /\ EmitRows(F)
  /\ UNCHANGED <<attempts, relay, task, retried, handled, faults>>

----------------------------------------------------------------------------
(* A sweep is one transaction; what it does to Redis is not undone. *)

Held(r)   == relay[r].batch \cup {f \in Facts : relay[r].marks[f] # "untouched"}
Locked    == UNION {Held(r) : r \in Relays}
Pending   == {f \in Facts : row[f] = "pending"}
Unlocked  == Pending \ Locked                    \* FOR UPDATE SKIP LOCKED

BeginSweep(r) ==
  /\ ~relay[r].open
  /\ \E batch \in SUBSET Unlocked :
       /\ batch # {}
       /\ Cardinality(batch) = SweepLimit \/ (batch = Unlocked /\ Cardinality(batch) < SweepLimit)
       /\ relay' = [relay EXCEPT ![r] = [open |-> TRUE, batch |-> batch, marks |-> Idle.marks]]
  /\ UNCHANGED <<row, attempts, task, retried, handled, faults>>

Visited(r, f, mark) ==
  relay' = [relay EXCEPT ![r] =
    [open |-> @.open, batch |-> @.batch \ {f}, marks |-> [@.marks EXCEPT ![f] = mark]]]

\* Enqueue succeeds, or finds the id taken by an earlier sweep's task.
Reenqueued(f) == [task EXCEPT ![f] = IF @ = "active" THEN @ ELSE "queued"]  \* mutant
Enqueued(f)   == [task EXCEPT ![f] = IF @ = "none" THEN "queued" ELSE @]

Publish(r, f) ==
  /\ f \in relay[r].batch
  /\ Visited(r, f, "published")
  /\ task' = Enqueued(f)
  /\ UNCHANGED <<row, attempts, retried, handled, faults>>

\* Enqueue reports an error; Redis may have taken the task all the same.
FailedMarkLate(f) == IF attempts[f] + 1 > MaxAttempts THEN "dead" ELSE "failed"  \* mutant
FailedMark(f) == IF attempts[f] + 1 >= MaxAttempts THEN "dead" ELSE "failed"
EnqueueFails(r, f) ==
  /\ f \in relay[r].batch
  /\ Fault
  /\ Visited(r, f, FailedMark(f))
  /\ task' \in {task, Enqueued(f)}
  /\ UNCHANGED <<row, attempts, retried, handled>>

CommittedAll(r) ==                                                 \* mutant
  [f \in Facts |-> IF relay[r].marks[f] # "untouched" THEN "published" ELSE row[f]]
Committed(r) ==
  [f \in Facts |-> IF relay[r].marks[f] \in {"published", "dead"} THEN relay[r].marks[f] ELSE row[f]]
Counted(r) ==
  [f \in Facts |-> IF relay[r].marks[f] \in {"failed", "dead"} THEN attempts[f] + 1 ELSE attempts[f]]
CommitSweep(r) ==
  /\ relay[r].open /\ relay[r].batch = {}
  /\ row' = Committed(r)
  /\ attempts' = Counted(r)
  /\ relay' = [relay EXCEPT ![r] = Idle]
  /\ UNCHANGED <<task, retried, handled, faults>>

\* The replica dies or the commit fails: its rows are pending as before.
SweepLost(r) ==
  /\ relay[r].open
  /\ Fault
  /\ relay' = [relay EXCEPT ![r] = Idle]
  /\ UNCHANGED <<row, attempts, task, retried, handled>>

----------------------------------------------------------------------------
(* The queue and its workers. *)

StartTask(f) ==
  /\ task[f] = "queued"
  /\ task' = [task EXCEPT ![f] = "active"]
  /\ UNCHANGED <<row, attempts, relay, retried, handled, faults>>

\* The handler returned nil: the task is deleted and its id is free again.
FinishTask(f) ==
  /\ task[f] = "active"
  /\ task' = [task EXCEPT ![f] = "none"]
  /\ retried' = [retried EXCEPT ![f] = 0]
  /\ handled' = handled \cup {f}
  /\ UNCHANGED <<row, attempts, relay, faults>>

\* An attempt that ends in an error is retried, at last archived.
Retry(f) ==
  /\ task[f] = "active"
  /\ IF retried[f] < MaxRetry
     THEN /\ task' = [task EXCEPT ![f] = "queued"]
          /\ retried' = [retried EXCEPT ![f] = @ + 1]
     ELSE /\ task' = [task EXCEPT ![f] = "archived"]
          /\ UNCHANGED retried
  /\ UNCHANGED <<row, attempts, relay, handled>>

\* The handler returned an error; its worker died and the lease ran out.
FailTask(f)  == Retry(f) /\ UNCHANGED faults
WorkerDies(f) == Retry(f) /\ Fault

RelayStep(r) == BeginSweep(r) \/ (\E f \in Facts : Publish(r, f) \/ EnqueueFails(r, f)) \/ CommitSweep(r)

----------------------------------------------------------------------------
(* Any producer, any handler. *)

Next ==
  \/ \E F \in SUBSET Facts : Emit(F)
  \/ \E r \in Relays : RelayStep(r) \/ SweepLost(r)
  \/ \E f \in Facts : StartTask(f) \/ FinishTask(f) \/ FailTask(f) \/ WorkerDies(f)

Spec == BoxInit /\ [][Next]_boxVars

\* The ticker sweeps again after every sweep; asynq gives a kept task to a worker
\* and a handler runs under a timeout.
BoxFairness ==
  /\ \A r \in Relays : WF_boxVars(RelayStep(r))
  /\ \A f \in Facts : WF_boxVars(StartTask(f)) /\ WF_boxVars(FinishTask(f) \/ FailTask(f))

FairSpec == Spec /\ BoxFairness

----------------------------------------------------------------------------
(* Properties. *)

\* A row is out of the relay's sight only when its fact was handled, is a task
\* asynq still holds, or lies where an operator finds it: a crash between the
\* enqueue and the commit loses nothing (relay.go:22).
NoFactSlipsAway ==
  \A f \in Facts :
    row[f] = "published" => f \in handled \/ task[f] \in {"queued", "active", "archived"}

\* Nothing reaches a handler that was not emitted in a committed transaction
\* (outbox.go:33).
OnlyEmittedFactsRun ==
  \A f \in Facts : task[f] # "none" \/ f \in handled => row[f] # "none"

\* Two relays never work on the same row at once (event_outbox.sql:22).
SweepsAreDisjoint ==
  \A r, s \in Relays : r # s => Held(r) \cap Held(s) = {}

\* The promise of FactDelivery, through the rows and the tasks.
Delivery == INSTANCE FactDelivery WITH
  recorded  <- {f \in Facts : row[f] # "none"},
  abandoned <- {f \in Facts : row[f] = "dead" \/ task[f] = "archived"}
FactsAreDelivered == Delivery!Spec
FactsSettle       == Delivery!Settles
=============================================================================
