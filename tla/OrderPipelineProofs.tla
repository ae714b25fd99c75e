------------------------- MODULE OrderPipelineProofs -------------------------
(***************************************************************************)
(* For any number of facts about a cart and any number of replicas: the    *)
(* pipeline of handlers is an EventOutbox, whose guarantees it inherits;   *)
(* an order that ended is not sold again; the facts about the order match  *)
(* its state; every mail has a marker of its own.                          *)
(*                                                                         *)
(* The invariant behind the mails counts the tasks that have claimed a     *)
(* mail and not yet sent it: together with the mails already sent they     *)
(* are no more than the markers.                                           *)
(***************************************************************************)
EXTENDS OrderPipeline, EventOutboxProofs, FiniteSetTheorems

\* Handlers of a refund or a cancellation write only over an order they have seen.
SeenOrder == \A f \in Facts : ~Paid(f) /\ pc[f] = "write" => order # "none"

\* Tasks between the claim and the send of a mail.
Sending(m) == {f \in Facts : pc[f] = "mail" /\ MailOf(f) = m}
Markers(m) == unbound[m] + (IF m \in markers THEN 1 ELSE 0)
Counted1(m) == mails[m] + Cardinality(Sending(m)) <= Markers(m)

PInv ==
  /\ BoxInv /\ TypeOK
  /\ OrderFactsMatch /\ SeenOrder
  /\ \A m \in Mail : Counted1(m)

----------------------------------------------------------------------------
(* The pipeline is an outbox. *)

LEMMA PipelineStep == [PipelineNext]_vars => [Next]_boxVars
<1>. SUFFICES ASSUME [PipelineNext]_vars PROVE [Next]_boxVars  OBVIOUS
<1>1. CASE Producers
  BY <1>1 DEF Producers, PaymentApproved, PaymentRefunded, StoreCancels, EmitFact, Next
<1>2. CASE \E r \in Relays : Sweep(r) \/ (SweepLost(r) /\ UNCHANGED <<payVars, saleVars, pc>>)
  BY <1>2 DEF Sweep, Next
<1>3. CASE \E f \in Facts : Starts(f) \/ Handler(f) \/ ClaimUnbound(f) \/ StepFails(f)
  BY <1>3
  DEF Starts, Handler, ClaimUnbound, StepFails, ReadOrder, MaterialiseOrder, BillSale, ReadStatus,
      SkipStatus, RefuseStatus, WriteStatus, CreditSale, ClaimMarker, AlreadyMailed, SendMail,
      Returns, Refuses, Next
<1>4. CASE UNCHANGED vars
  BY <1>4 DEF vars
<1>. QED  BY <1>1, <1>2, <1>3, <1>4 DEF PipelineNext

\* The handlers run on the outbox and no other way: what EventOutbox guarantees of a
\* fact holds of the facts of a cart.
THEOREM PipelineIsOutbox == PipelineSpec => Spec
<1>1. Init => BoxInit
  BY DEF Init
<1>. QED  BY <1>1, PipelineStep, PTL DEF PipelineSpec, Spec

----------------------------------------------------------------------------
(* The counted set moves by one task at a time. *)

LEMMA SendingFinite ==
  \A m : IsFiniteSet(Sending(m)) /\ Cardinality(Sending(m)) \in Nat
<1>1. \A m : Sending(m) \subseteq Facts
  BY DEF Sending
<1>. QED  BY <1>1, OutboxAssumption, FS_Subset, FS_CardinalityType

\* A task that leaves "mail" takes one from its set; every other step but a claim
\* leaves the sets as they are or smaller.
LEMMA SendingShrinks ==
  ASSUME NEW m, Sending(m)' \subseteq Sending(m)
  PROVE  Cardinality(Sending(m)') \in Nat /\ Cardinality(Sending(m)') <= Cardinality(Sending(m))
BY SendingFinite, FS_Subset, FS_CardinalityType

LEMMA SendingLoses ==
  ASSUME NEW m, NEW f \in Sending(m), Sending(m)' = Sending(m) \ {f}
  PROVE  Cardinality(Sending(m)') + 1 = Cardinality(Sending(m)) /\ Cardinality(Sending(m)') \in Nat
<1>1. Cardinality(Sending(m) \ {f}) = Cardinality(Sending(m)) - 1
  BY SendingFinite, FS_RemoveElement
<1>2. IsFiniteSet(Sending(m) \ {f}) /\ Cardinality(Sending(m) \ {f}) \in Nat
  BY SendingFinite, FS_RemoveElement, FS_CardinalityType
<1>. QED  BY <1>1, <1>2, SendingFinite

LEMMA SendingGains ==
  ASSUME NEW m, NEW f \in Facts, Sending(m)' \subseteq Sending(m) \cup {f}
  PROVE  Cardinality(Sending(m)') \in Nat /\ Cardinality(Sending(m)') <= Cardinality(Sending(m)) + 1
<1>1. IsFiniteSet(Sending(m) \cup {f})
  BY SendingFinite, FS_AddElement
<1>2. Cardinality(Sending(m)) \in Nat /\ IsFiniteSet(Sending(m))
  BY SendingFinite
<1>3. Cardinality(Sending(m) \cup {f}) = IF f \in Sending(m) THEN Cardinality(Sending(m))
                                         ELSE Cardinality(Sending(m)) + 1
  BY <1>2, FS_AddElement
<1>4. IsFiniteSet(Sending(m)') /\ Cardinality(Sending(m)') <= Cardinality(Sending(m) \cup {f})
  BY <1>1, FS_Subset
<1>5. Cardinality(Sending(m)') \in Nat
  BY <1>4, FS_CardinalityType
<1>. QED  BY <1>2, <1>3, <1>4, <1>5

----------------------------------------------------------------------------
LEMMA InitPInv == Init => PInv
<1>. SUFFICES ASSUME Init PROVE PInv  OBVIOUS
<1>1. BoxInv
  BY InitBoxInv DEF Init
<1>2. TypeOK
  BY <1>1, PipelineAssumption
  DEF Init, BoxInit, BoxInv, TypeOK, Kinds, Terminal, Mail, Steps
<1>3. \A m \in Mail : Sending(m) = {}
  BY DEF Init, Sending
<1>4. \A m \in Mail : Counted1(m)
  BY <1>3, FS_EmptySet, PipelineAssumption DEF Init, Counted1, Markers, Mail
<1>. QED  BY <1>1, <1>2, <1>4 DEF Init, PInv, OrderFactsMatch, SeenOrder, Terminal

\* The mails of a step that claims and sends nothing.
LEMMA QuietMails ==
  ASSUME PInv, UNCHANGED <<markers, unbound, mails>>,
         \A f \in Facts : pc'[f] = "mail" => pc[f] = "mail" /\ kind'[f] = kind[f]
  PROVE  \A m \in Mail : Counted1(m)'
<1>. SUFFICES ASSUME NEW m \in Mail PROVE Counted1(m)'  OBVIOUS
<1>1. Sending(m)' \subseteq Sending(m)
  BY DEF Sending, MailOf, Refund
<1>2. mails[m] \in Nat /\ Markers(m) \in Nat /\ mails[m] + Cardinality(Sending(m)) <= Markers(m)
  BY PipelineAssumption DEF PInv, TypeOK, Counted1, Markers
<1>. QED  BY <1>1, <1>2, SendingShrinks, SendingFinite DEF Counted1, Markers

LEMMA ProducersPInv ==
  ASSUME PInv, BoxInv', Producers
  PROVE  PInv'
<1>1. PICK f \in Facts, name \in Kinds :
        NextRow(f) /\ Emit({f}) /\ kind' = [kind EXCEPT ![f] = name] /\ UNCHANGED <<saleVars, pc>>
  BY DEF Producers, PaymentApproved, PaymentRefunded, StoreCancels, EmitFact, Kinds
<1>2. pc[f] = "idle" /\ UNCHANGED <<task, pc, order, emitted, ledger, markers, unbound, mails>>
  BY <1>1 DEF NextRow, Emit, saleVars, PInv, BoxInv, RowOK, TypeOK
<1>3. TypeOK'
  <2>1. pay' \in {"pending", "paid", "refunded"}
    BY DEF Producers, PaymentApproved, PaymentRefunded, StoreCancels, PInv, TypeOK
  <2>2. kind' \in [Facts -> Kinds \cup {"none"}]
    BY <1>1 DEF PInv, TypeOK
  <2>3. BoxTypeOK'
    BY DEF BoxInv
  <2>. QED  BY <1>2, <2>1, <2>2, <2>3 DEF PInv, TypeOK
<1>4. SeenOrder' /\ OrderFactsMatch'
  BY <1>1, <1>2 DEF PInv, TypeOK, SeenOrder, OrderFactsMatch, Paid
<1>5. \A g \in Facts : pc'[g] = "mail" => pc[g] = "mail" /\ kind'[g] = kind[g]
  BY <1>1, <1>2 DEF PInv, TypeOK
<1>. QED  BY <1>2, <1>3, <1>4, <1>5, QuietMails DEF PInv

\* A sweep leaves the handlers alone.
LEMMA SweepTasks ==
  ASSUME PInv, BoxInv', NEW r \in Relays, RelayStep(r) \/ SweepLost(r),
         UNCHANGED <<payVars, saleVars, pc>>
  PROVE  PInv'
<1>1. \A f \in Facts : task'[f] = "active" <=> task[f] = "active"
  BY DEF RelayStep, SweepLost, BeginSweep, Publish, EnqueueFails, CommitSweep, Enqueued,
         PInv, BoxInv, BoxTypeOK
<1>2. TypeOK' /\ SeenOrder' /\ OrderFactsMatch'
  BY <1>1 DEF payVars, saleVars, PInv, BoxInv, TypeOK, SeenOrder, OrderFactsMatch, Paid
<1>3. \A m \in Mail : Counted1(m)'
  BY QuietMails DEF payVars, saleVars
<1>. QED  BY <1>2, <1>3 DEF PInv

\* A task starts, ends or fails: only its own handler moves.
LEMMA TaskPInv ==
  ASSUME PInv, BoxInv', NEW f \in Facts, Starts(f) \/ Returns(f) \/ Refuses(f) \/ StepFails(f)
  PROVE  PInv'
<1>1. UNCHANGED <<kind, pay, order, emitted, ledger, markers, unbound, mails>>
  BY DEF Starts, Returns, Refuses, StepFails, payVars, saleVars
<1>2. PICK step \in {"idle", "read"} :
        /\ pc' = [pc EXCEPT ![f] = step]
        /\ step = "read" <=> task'[f] = "active"
        /\ \A g \in Facts : g # f => task'[g] = task[g]
  BY DEF Starts, Returns, Refuses, StepFails, StartTask, FinishTask, FailTask, WorkerDies, Retry, Goto,
         PInv, BoxInv, BoxTypeOK
<1>3. pc' \in [Facts -> Steps] /\ \A g \in Facts : pc'[g] # "idle" <=> task'[g] = "active"
  BY <1>2 DEF PInv, TypeOK, Steps
<1>4. TypeOK'
  BY <1>1, <1>3 DEF PInv, TypeOK, BoxInv
<1>5. SeenOrder' /\ OrderFactsMatch'
  BY <1>1, <1>2 DEF PInv, TypeOK, SeenOrder, OrderFactsMatch, Paid
<1>6. \A m \in Mail : Counted1(m)'
  BY <1>1, <1>2, QuietMails DEF PInv, TypeOK
<1>. QED  BY <1>4, <1>5, <1>6 DEF PInv

\* A handler moves on without a claim or a mail.
LEMMA QuietStepPInv ==
  ASSUME PInv, BoxInv', NEW f \in Facts, UNCHANGED <<boxVars, kind, pay, markers, unbound, mails>>,
         task[f] = "active",
         NEW step \in Steps \ {"idle", "mail"}, pc' = [pc EXCEPT ![f] = step],
         ledger' \subseteq {"sale", "refund_credit"},
         emitted' \subseteq {"order.paid", "order.refunded"}, order' \in {"none", "paid"} \cup Terminal,
         OrderFactsMatch', SeenOrder'
  PROVE  PInv'
<1>1. pc' \in [Facts -> Steps] /\ \A g \in Facts : pc'[g] # "idle" <=> task'[g] = "active"
  BY DEF PInv, TypeOK, boxVars
<1>2. TypeOK'
  BY <1>1 DEF PInv, TypeOK, BoxInv
<1>3. \A m \in Mail : Counted1(m)'
  BY QuietMails DEF PInv, TypeOK
<1>. QED  BY <1>2, <1>3 DEF PInv

LEMMA HandlerPInv ==
  ASSUME PInv, BoxInv', NEW f \in Facts, Handler(f) \/ ClaimUnbound(f)
  PROVE  PInv'
<1>1. CASE ReadOrder(f)
  <2>1. PICK step \in Steps \ {"idle", "mail"} :
          pc' = [pc EXCEPT ![f] = step] /\ UNCHANGED <<boxVars, payVars, saleVars>>
    <3>1. (IF order = "none" THEN "write" ELSE "bill") \in Steps \ {"idle", "mail"}
      BY DEF Steps
    <3>. QED  BY <1>1, <3>1 DEF ReadOrder, Goto
  <2>2. OrderFactsMatch' /\ SeenOrder'
    BY <1>1, <2>1 DEF ReadOrder, payVars, saleVars, PInv, TypeOK, OrderFactsMatch, SeenOrder, Paid
  <2>. QED  BY <1>1, <2>1, <2>2, QuietStepPInv DEF ReadOrder, At, payVars, saleVars, PInv, TypeOK
<1>2. CASE MaterialiseOrder(f)
  <2>1. OrderFactsMatch' /\ SeenOrder' /\ order' \in {"none", "paid"} \cup Terminal
    BY <1>2
    DEF MaterialiseOrder, InsertedOrder, Goto, payVars, PInv, TypeOK, OrderFactsMatch, SeenOrder, Paid,
        Terminal
  <2>. QED
    BY <1>2, <2>1, QuietStepPInv
    DEF MaterialiseOrder, Goto, At, Steps, payVars, PInv, TypeOK
<1>3. CASE BillSale(f)
  <2>1. OrderFactsMatch' /\ SeenOrder'
    BY <1>3 DEF BillSale, Goto, payVars, PInv, TypeOK, OrderFactsMatch, SeenOrder, Paid
  <2>. QED
    BY <1>3, <2>1, QuietStepPInv DEF BillSale, Goto, At, Steps, payVars, PInv, TypeOK
<1>4. CASE ReadStatus(f)
  <2>1. OrderFactsMatch' /\ SeenOrder'
    BY <1>4 DEF ReadStatus, Goto, payVars, saleVars, PInv, TypeOK, OrderFactsMatch, SeenOrder, Paid
  <2>. QED
    BY <1>4, <2>1, QuietStepPInv DEF ReadStatus, Goto, At, Steps, payVars, saleVars, PInv, TypeOK
<1>5. CASE SkipStatus(f)
  <2>1. CASE Returns(f)
    BY <2>1, TaskPInv
  <2>2. CASE Goto(f, "bill") /\ UNCHANGED <<boxVars, payVars, saleVars>> /\ At(f, "read")
    <3>1. OrderFactsMatch' /\ SeenOrder'
      BY <2>2 DEF Goto, payVars, saleVars, PInv, TypeOK, OrderFactsMatch, SeenOrder, Paid
    <3>. QED
      BY <2>2, <3>1, QuietStepPInv DEF Goto, At, Steps, payVars, saleVars, PInv, TypeOK
  <2>. QED  BY <1>5, <2>1, <2>2 DEF SkipStatus
<1>6. CASE RefuseStatus(f)
  BY <1>6, TaskPInv DEF RefuseStatus
<1>7. CASE WriteStatus(f)
  <2>1. order # "none" /\ order' \in Terminal /\ UNCHANGED <<kind, pay, ledger, markers, unbound, mails>>
    BY <1>7 DEF WriteStatus, At, Target, Terminal, payVars, PInv, SeenOrder
  <2>2. OrderFactsMatch' /\ emitted' \subseteq {"order.paid", "order.refunded"}
    BY <1>7, <2>1 DEF WriteStatus, Target, Announced, Terminal, PInv, TypeOK, OrderFactsMatch
  <2>3. SeenOrder'
    BY <2>1 DEF SeenOrder, Terminal
  <2>4. CASE Refund(f)
    BY <1>7, <2>1, <2>2, <2>3, <2>4, QuietStepPInv DEF WriteStatus, Goto, At, Steps, PInv, TypeOK
  <2>5. CASE ~Refund(f)
    <3>1. pc' = [pc EXCEPT ![f] = "idle"] /\ task' = [task EXCEPT ![f] = "none"]
      BY <1>7, <2>5 DEF WriteStatus, FinishTask, Goto
    <3>2. pc' \in [Facts -> Steps] /\ \A g \in Facts : pc'[g] # "idle" <=> task'[g] = "active"
      BY <3>1 DEF PInv, TypeOK, BoxInv, BoxTypeOK, Steps
    <3>3. TypeOK'
      BY <2>1, <2>2, <3>2 DEF PInv, TypeOK, BoxInv
    <3>4. \A m \in Mail : Counted1(m)'
      BY <2>1, <3>1, QuietMails DEF PInv, TypeOK
    <3>. QED  BY <2>2, <2>3, <3>3, <3>4 DEF PInv
  <2>. QED  BY <2>4, <2>5
<1>8. CASE CreditSale(f)
  <2>1. OrderFactsMatch' /\ SeenOrder'
    BY <1>8 DEF CreditSale, Goto, payVars, PInv, TypeOK, OrderFactsMatch, SeenOrder, Paid
  <2>. QED
    BY <1>8, <2>1, QuietStepPInv DEF CreditSale, Goto, At, Steps, payVars, PInv, TypeOK
<1>9. CASE ClaimMarker(f) \/ ClaimUnbound(f)
  <2>1. /\ pc' = [pc EXCEPT ![f] = "mail"] /\ pc[f] = "claim" /\ task[f] = "active"
        /\ UNCHANGED <<boxVars, kind, pay, order, emitted, ledger, mails>>
    BY <1>9 DEF ClaimMarker, ClaimUnbound, Goto, At, payVars
  <2>2. pc' \in [Facts -> Steps] /\ \A g \in Facts : pc'[g] # "idle" <=> task'[g] = "active"
    BY <2>1 DEF PInv, TypeOK, Steps, boxVars
  <2>3. MailOf(f) \in Mail /\ Mail = {"receipt", "refund"}
    BY DEF MailOf, Mail
  <2>4. markers' \subseteq Mail /\ unbound' \in [Mail -> 0 .. MaxUnbound]
    <3>1. CASE ClaimMarker(f)
      BY <3>1, <2>3 DEF ClaimMarker, ClaimedMarkers, PInv, TypeOK
    <3>2. CASE ClaimUnbound(f)
      BY <3>2, <2>3, PipelineAssumption DEF ClaimUnbound, PInv, TypeOK
    <3>. QED  BY <1>9, <3>1, <3>2
  <2>5. TypeOK'
    BY <2>1, <2>2, <2>4 DEF PInv, TypeOK, BoxInv
  <2>6. OrderFactsMatch' /\ SeenOrder'
    BY <2>1 DEF PInv, TypeOK, OrderFactsMatch, SeenOrder, Paid
  <2>7. \A m \in Mail : Counted1(m)'
    <3>. SUFFICES ASSUME NEW m \in Mail PROVE Counted1(m)'  OBVIOUS
    <3>1. mails[m] \in Nat /\ unbound[m] \in Nat /\ unbound'[m] \in Nat
          /\ mails[m] + Cardinality(Sending(m)) <= Markers(m) /\ Cardinality(Sending(m)) \in Nat
      BY <2>4, PipelineAssumption, SendingFinite DEF PInv, TypeOK, Counted1
    <3>2. CASE m = MailOf(f)
      <4>1. Sending(m)' \subseteq Sending(m) \cup {f}
        BY <2>1 DEF PInv, TypeOK, Sending, MailOf, Refund
      <4>2. Cardinality(Sending(m)') \in Nat /\ Cardinality(Sending(m)') <= Cardinality(Sending(m)) + 1
        BY <4>1, SendingGains
      <4>3. Markers(m)' = Markers(m) + 1
        <5>1. CASE ClaimMarker(f)
          BY <5>1, <3>1, <3>2 DEF ClaimMarker, ClaimedMarkers, Markers
        <5>2. CASE ClaimUnbound(f)
          BY <5>2, <3>1, <3>2 DEF ClaimUnbound, Markers, PInv, TypeOK
        <5>. QED  BY <1>9, <5>1, <5>2
      <4>4. Markers(m) \in Nat
        BY <3>1 DEF Markers
      <4>. QED  BY <2>1, <3>1, <4>2, <4>3, <4>4 DEF Counted1
    <3>3. CASE m # MailOf(f)
      <4>1. Sending(m)' \subseteq Sending(m)
        BY <2>1, <3>3 DEF PInv, TypeOK, Sending, MailOf, Refund
      <4>2. Cardinality(Sending(m)') \in Nat /\ Cardinality(Sending(m)') <= Cardinality(Sending(m))
        BY <4>1, SendingShrinks
      <4>3. Markers(m)' = Markers(m) /\ Markers(m) \in Nat
        BY <1>9, <3>1, <3>3 DEF ClaimMarker, ClaimUnbound, ClaimedMarkers, Markers, PInv, TypeOK
      <4>. QED  BY <2>1, <3>1, <4>2, <4>3 DEF Counted1
    <3>. QED  BY <3>2, <3>3
  <2>. QED  BY <2>5, <2>6, <2>7 DEF PInv
<1>10. CASE AlreadyMailed(f)
  BY <1>10, TaskPInv DEF AlreadyMailed
<1>11. CASE SendMail(f)
  <2>1. /\ pc' = [pc EXCEPT ![f] = "idle"] /\ pc[f] = "mail" /\ task' = [task EXCEPT ![f] = "none"]
        /\ mails' = [mails EXCEPT ![MailOf(f)] = @ + 1]
        /\ UNCHANGED <<kind, pay, order, emitted, ledger, markers, unbound>>
    BY <1>11 DEF SendMail, FinishTask, Goto, At, payVars
  <2>2. pc' \in [Facts -> Steps] /\ \A g \in Facts : pc'[g] # "idle" <=> task'[g] = "active"
    BY <2>1 DEF PInv, TypeOK, BoxInv, BoxTypeOK, Steps
  <2>3. TypeOK'
    <3>1. mails' \in [Mail -> Nat]
      <4>1. mails \in [Mail -> Nat] /\ MailOf(f) \in Mail
        BY DEF PInv, TypeOK, MailOf, Mail
      <4>. QED  BY <2>1, <4>1
    <3>2. BoxTypeOK'
      BY DEF BoxInv
    <3>. QED  BY <2>1, <2>2, <3>1, <3>2 DEF PInv, TypeOK
  <2>4. OrderFactsMatch' /\ SeenOrder'
    BY <2>1 DEF PInv, TypeOK, OrderFactsMatch, SeenOrder, Paid
  <2>5. \A m \in Mail : Counted1(m)'
    <3>. SUFFICES ASSUME NEW m \in Mail PROVE Counted1(m)'  OBVIOUS
    <3>1. mails[m] \in Nat /\ Markers(m) \in Nat /\ Markers(m)' = Markers(m)
          /\ mails[m] + Cardinality(Sending(m)) <= Markers(m) /\ Cardinality(Sending(m)) \in Nat
      BY <2>1, PipelineAssumption, SendingFinite DEF PInv, TypeOK, Counted1, Markers
    <3>2. CASE m = MailOf(f)
      <4>1. f \in Sending(m) /\ Sending(m)' = Sending(m) \ {f}
        BY <2>1, <3>2 DEF PInv, TypeOK, Sending, MailOf, Refund
      <4>2. Cardinality(Sending(m)') + 1 = Cardinality(Sending(m)) /\ Cardinality(Sending(m)') \in Nat
        BY <4>1, SendingLoses
      <4>3. mails'[m] = mails[m] + 1
        BY <2>1, <3>2 DEF PInv, TypeOK
      <4>. QED  BY <3>1, <4>2, <4>3 DEF Counted1
    <3>3. CASE m # MailOf(f)
      <4>1. Sending(m)' \subseteq Sending(m)
        BY <2>1 DEF PInv, TypeOK, Sending, MailOf, Refund
      <4>2. Cardinality(Sending(m)') \in Nat /\ Cardinality(Sending(m)') <= Cardinality(Sending(m))
        BY <4>1, SendingShrinks
      <4>3. mails'[m] = mails[m]
        BY <2>1, <3>3 DEF PInv, TypeOK
      <4>. QED  BY <3>1, <4>2, <4>3 DEF Counted1
    <3>. QED  BY <3>2, <3>3
  <2>. QED  BY <2>3, <2>4, <2>5 DEF PInv
<1>. QED  BY <1>1, <1>2, <1>3, <1>4, <1>5, <1>6, <1>7, <1>8, <1>9, <1>10, <1>11 DEF Handler

LEMMA StepPInv == PInv /\ [PipelineNext]_vars => PInv'
<1>. SUFFICES ASSUME PInv, [PipelineNext]_vars PROVE PInv'  OBVIOUS
<1>1. BoxInv'
  BY PipelineStep, StepBoxInv DEF PInv
<1>2. CASE Producers
  BY <1>1, <1>2, ProducersPInv
<1>3. CASE \E r \in Relays : Sweep(r) \/ (SweepLost(r) /\ UNCHANGED <<payVars, saleVars, pc>>)
  BY <1>1, <1>3, SweepTasks DEF Sweep
<1>4. CASE \E f \in Facts : Starts(f) \/ Handler(f) \/ ClaimUnbound(f) \/ StepFails(f)
  BY <1>1, <1>4, TaskPInv, HandlerPInv
<1>5. CASE UNCHANGED vars
  <2>1. UNCHANGED <<kind, pay, order, emitted, ledger, markers, unbound, mails, pc, task>>
    BY <1>5 DEF vars, payVars, saleVars, boxVars
  <2>2. TypeOK' /\ SeenOrder' /\ OrderFactsMatch'
    BY <1>1, <2>1 DEF PInv, TypeOK, BoxInv, SeenOrder, OrderFactsMatch, Paid
  <2>3. \A m \in Mail : Counted1(m)'
    BY <2>1, QuietMails
  <2>. QED  BY <1>1, <2>2, <2>3 DEF PInv
<1>. QED  BY <1>2, <1>3, <1>4, <1>5 DEF PipelineNext

LEMMA PipelineInvariant == PipelineSpec => []PInv
BY InitPInv, StepPInv, PTL DEF PipelineSpec

----------------------------------------------------------------------------
\* Every handler's state has its shape; a handler runs only while its task is active.
THEOREM PipelineTypeCorrect == PipelineSpec => []TypeOK
<1>1. PInv => TypeOK  BY DEF PInv
<1>. QED  BY <1>1, PipelineInvariant, PTL

\* order.paid and order.refunded are in the outbox exactly when the order is.
THEOREM OrderIsAnnounced == PipelineSpec => []OrderFactsMatch
<1>1. PInv => OrderFactsMatch  BY DEF PInv
<1>. QED  BY <1>1, PipelineInvariant, PTL

\* However often a fact is delivered, no mail goes out without a marker of its own.
THEOREM MailsHaveMarkers == PipelineSpec => []MailsAreClaimed
<1>1. PInv => MailsAreClaimed
  <2>. SUFFICES ASSUME PInv, NEW m \in Mail
                PROVE  mails[m] <= unbound[m] + (IF m \in markers THEN 1 ELSE 0)
    BY DEF MailsAreClaimed
  <2>1. mails[m] \in Nat /\ unbound[m] \in Nat /\ Counted1(m)
    BY PipelineAssumption DEF PInv, TypeOK
  <2>. QED  BY <2>1, SendingFinite DEF Counted1, Markers
<1>. QED  BY <1>1, PipelineInvariant, PTL

\* An order that was refunded or cancelled never becomes a sale again.
THEOREM EndedOrdersStayEnded == PipelineSpec => OrderIsNotSoldAgain
<1>1. [PipelineNext]_vars => ((order \in Terminal) => order' # "paid")
  <2>. SUFFICES ASSUME [PipelineNext]_vars, order \in Terminal PROVE order' # "paid"  OBVIOUS
  <2>1. CASE Producers
    BY <2>1 DEF Producers, PaymentApproved, PaymentRefunded, StoreCancels, EmitFact, saleVars, Terminal
  <2>2. CASE \E r \in Relays : Sweep(r) \/ (SweepLost(r) /\ UNCHANGED <<payVars, saleVars, pc>>)
    BY <2>2 DEF Sweep, saleVars, Terminal
  <2>3. CASE \E f \in Facts : Starts(f) \/ Handler(f) \/ ClaimUnbound(f) \/ StepFails(f)
    BY <2>3
    DEF Starts, Handler, ClaimUnbound, StepFails, ReadOrder, MaterialiseOrder, InsertedOrder, BillSale,
        ReadStatus, SkipStatus, RefuseStatus, WriteStatus, Target, CreditSale, ClaimMarker, AlreadyMailed,
        SendMail, Returns, Refuses, saleVars, Terminal
  <2>4. CASE UNCHANGED vars
    BY <2>4 DEF vars, saleVars, Terminal
  <2>. QED  BY <2>1, <2>2, <2>3, <2>4 DEF PipelineNext
<1>2. PipelineSpec => [][(order \in Terminal) => order' # "paid"]_vars
  BY <1>1, PTL DEF PipelineSpec
<1>. QED  BY <1>2 DEF OrderIsNotSoldAgain
=============================================================================
