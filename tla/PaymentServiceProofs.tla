------------------------ MODULE PaymentServiceProofs ------------------------
(***************************************************************************)
(* The payment service keeps its word for any set of orders and delivered  *)
(* events, with the consumer and the reconciler interleaved at every await *)
(* and interrupted anywhere.                                               *)
(***************************************************************************)
EXTENDS PaymentService, EventLemmas, FiniteSetTheorems

\* A payment may be settled twice, by the two tasks.  The events agree because
\* the second answer is the first: both are computed from one directive, that of
\* the row, which no step changes and which the consumer has in hand.
DirectiveDecides ==
    \A o \in Order :
        payments[o].status \in {"SUCCEEDED", "FAILED"} =>
            payments[o].status = Outcome(payments[o].simulate)

\* The consumer is at one await or at the other.
OneCallAtATime == calling \cap answered = {} /\ \A o, p \in calling \cup answered : o = p

\* It has the directive of one event in its hands, and Transaction 1 wrote that.
DirectiveInHand ==
    /\ OneCallAtATime
    /\ \A o \in calling \cup answered : directive = payments[o].simulate

\* Whatever a task is working on has a row: neither task can settle, or charge
\* for, an order of which Transaction 1 knows nothing.
TasksHaveIntents ==
    \A o \in calling \cup answered \cup stuck \cup resolving \cup stale :
        payments[o] # NoPayment

\* The inductive invariant.
IInv ==
    /\ TypeOK
    /\ DirectiveDecides
    /\ DirectiveInHand
    /\ TasksHaveIntents
    /\ OutcomesAgree
    /\ NoChargeWithoutIntent

USE DeliveryAssumption, DefaultAssumption

-----------------------------------------------------------------------------

LEMMA PaymentOf ==
    ASSUME TypeOK, NEW o \in Order
    PROVE  /\ payments[o] = NoPayment \/ payments[o] \in PaymentRow
           /\ payments[o] # NoPayment => payments[o] \in PaymentRow
           /\ payments[o] # NoPayment <=> payments[o].status # "ABSENT"
  BY DEF TypeOK, PaymentRow, NoPayment

LEMMA OutcomeRange == \A d : Outcome(d) \in {"SUCCEEDED", "FAILED"}
  BY DEF Outcome

\* The rows a step leaves alone stay as good as they were.
LEMMA UntouchedRows ==
    ASSUME IInv, UNCHANGED <<payments, outbox>>
    PROVE  DirectiveDecides' /\ OutcomesAgree'
  BY DEF IInv, DirectiveDecides, OutcomesAgree

\* Settling a payment that has a row: the row says what its directive says, and
\* its one new event says the same.
LEMMA SettleEffect ==
    ASSUME IInv, NEW o \in Order, payments[o] # NoPayment, Settle(o, payments[o].simulate)
    PROVE  /\ payments' \in [Order -> PaymentRow \cup {NoPayment}]
           /\ stale' \subseteq stale
           /\ processed' = processed
           /\ outbox' \in Seq(Event)
           /\ \A p \in Order : payments[p] # NoPayment =>
                 payments'[p] # NoPayment /\ payments'[p].simulate = payments[p].simulate
           /\ DirectiveDecides'
           /\ OutcomesAgree'
  <1>. DEFINE status == Outcome(payments[o].simulate)
              said == WrapEvent(OutcomeTopic(status), Bare(o), outbox)
  <1>1. TypeOK /\ payments[o] \in PaymentRow
    BY PaymentOf DEF IInv
  <1>2. status \in {"SUCCEEDED", "FAILED"}
    BY OutcomeRange
  <1>3. /\ payments' = [payments EXCEPT ![o].status = status]
        /\ stale' = stale \ {o}
        /\ outbox' = Append(outbox, said)
        /\ processed' = processed
    BY DEF Settle, Emit
  <1>4. payments'[o] = [status |-> status, simulate |-> payments[o].simulate]
    BY <1>1, <1>3 DEF TypeOK, PaymentRow
  <1>5. \A p \in Order \ {o} : payments'[p] = payments[p]
    BY <1>1, <1>3 DEF TypeOK
  <1>6. payments'[o] \in PaymentRow
    BY <1>1, <1>2, <1>4 DEF PaymentRow
  <1>7. payments' \in [Order -> PaymentRow \cup {NoPayment}]
    BY <1>1, <1>3, <1>6 DEF TypeOK
  <1>8. outbox \in Seq(Event)
    BY <1>1 DEF TypeOK
  <1>9. OutcomeTopic(status) \in EventType \ FullTypes
    BY DEF OutcomeTopic, EventType, PaymentEvents, FullTypes
  <1>10. said \in Event /\ said.type = OutcomeTopic(status) /\ said.payload.order = o
    BY <1>8, <1>9, WrapBare
  <1>11. /\ OutcomeTopic(status) = "payment.succeeded" <=> status = "SUCCEEDED"
         /\ OutcomeTopic(status) = "payment.failed" <=> status = "FAILED"
    BY <1>2 DEF OutcomeTopic
  <1>12. payments[o].status \in {"SUCCEEDED", "FAILED"} => payments[o].status = status
    BY DEF IInv, DirectiveDecides
  <1>. HIDE DEF said, status
  <1>13. outbox' \in Seq(Event)
    BY <1>3, <1>8, <1>10, AppendRow
  <1>14. \A p \in Order : payments[p] # NoPayment =>
            payments'[p] # NoPayment /\ payments'[p].simulate = payments[p].simulate
    <2>1. payments'[o] # NoPayment /\ payments'[o].simulate = payments[o].simulate
      BY <1>4, <1>6 DEF PaymentRow, NoPayment
    <2>. QED
      BY <1>5, <2>1
  <1>15. DirectiveDecides'
    <2>1. payments'[o].status = Outcome(payments'[o].simulate)
      BY <1>4 DEF status
    <2>2. \A p \in Order \ {o} : payments'[p].status \in {"SUCCEEDED", "FAILED"} =>
              payments'[p].status = Outcome(payments'[p].simulate)
      BY <1>5 DEF IInv, DirectiveDecides
    <2>. QED
      BY <2>1, <2>2 DEF DirectiveDecides
  <1>16. OutcomesAgree'
    <2>. SUFFICES ASSUME NEW p \in Order
                  PROVE  /\ Said(outbox', "payment.succeeded", p)
                              <=> payments'[p].status = "SUCCEEDED"
                         /\ Said(outbox', "payment.failed", p)
                              <=> payments'[p].status = "FAILED"
      BY DEF OutcomesAgree
    <2>1. /\ Said(outbox, "payment.succeeded", p) <=> payments[p].status = "SUCCEEDED"
          /\ Said(outbox, "payment.failed", p) <=> payments[p].status = "FAILED"
      BY DEF IInv, OutcomesAgree
    <2>2. /\ Said(outbox', "payment.succeeded", p) <=>
                Said(outbox, "payment.succeeded", p) \/ (status = "SUCCEEDED" /\ p = o)
          /\ Said(outbox', "payment.failed", p) <=>
                Said(outbox, "payment.failed", p) \/ (status = "FAILED" /\ p = o)
      BY <1>3, <1>8, <1>10, <1>11, SaidAppend
    <2>3. CASE p = o
      BY <1>2, <1>4, <1>12, <2>1, <2>2, <2>3
    <2>4. CASE p # o
      BY <1>5, <2>1, <2>2, <2>4
    <2>. QED
      BY <2>3, <2>4
  <1>. QED
    BY <1>3, <1>7, <1>13, <1>14, <1>15, <1>16

-----------------------------------------------------------------------------
(* The consumer *)

\* Transaction 2 settles the payment as the reconciler would.
LEMMA OutcomeIsOfTheRow ==
    ASSUME IInv, NEW o \in Order, RecordOutcome(o)
    PROVE  Settle(o, payments[o].simulate)
  BY DEF IInv, DirectiveInHand, RecordOutcome

LEMMA RecordIntentKeepsIInv ==
    ASSUME IInv, NEW e \in Delivery, RecordIntent(e)
    PROVE  IInv'
  <1>. DEFINE o == e.payload.order
              row == [status |-> "PROCESSING", simulate |-> e.payload.simulate]
  <1>1. TypeOK /\ e \in Event /\ e.type = "stock.reserved"
    BY DEF IInv
  <1>2. o \in Order /\ e.id \in EventId /\ e.payload \in FullPayload
    BY <1>1, EventParts DEF FullTypes
  <1>3. row \in PaymentRow /\ row # NoPayment
    BY <1>2 DEF FullPayload, PaymentRow, NoPayment
  <1>4. /\ payments[o] = NoPayment
        /\ payments' = [payments EXCEPT ![o] = row]
        /\ processed' = processed \cup {e.id}
        /\ calling' = {o} /\ directive' = row.simulate
        /\ answered = {}
        /\ UNCHANGED <<stale, outbox, answered, stuck, resolving, charges>>
    BY DEF RecordIntent, ConsumerIdle, reconciler
  <1>. HIDE DEF o
  <1>5. /\ payments' \in [Order -> PaymentRow \cup {NoPayment}]
        /\ payments'[o] = row
        /\ \A p \in Order \ {o} : payments'[p] = payments[p]
    BY <1>1, <1>2, <1>3, <1>4 DEF TypeOK
  <1>6. \A p \in Order : payments[p] # NoPayment => payments'[p] # NoPayment
    BY <1>3, <1>5
  <1>7. TypeOK'
    <2>1. directive' \in Directive
      BY <1>3, <1>4 DEF PaymentRow
    <2>. QED
      BY <1>1, <1>2, <1>4, <1>5, <2>1 DEF TypeOK
  <1>8. DirectiveDecides' /\ DirectiveInHand'
    BY <1>4, <1>5 DEF IInv, DirectiveDecides, DirectiveInHand, OneCallAtATime
  <1>9. TasksHaveIntents'
    BY <1>1, <1>2, <1>3, <1>4, <1>5, <1>6 DEF IInv, TypeOK, TasksHaveIntents
  <1>10. OutcomesAgree'
    <2>1. ~Said(outbox, "payment.succeeded", o) /\ ~Said(outbox, "payment.failed", o)
      BY <1>2, <1>4 DEF IInv, OutcomesAgree, NoPayment
    <2>. QED
      BY <1>4, <1>5, <2>1 DEF IInv, OutcomesAgree
  <1>11. NoChargeWithoutIntent'
    BY <1>4, <1>6 DEF IInv, NoChargeWithoutIntent
  <1>. QED
    BY <1>7, <1>8, <1>9, <1>10, <1>11 DEF IInv

\* A call of the gateway, by either task.
LEMMA ChargeEffect ==
    ASSUME IInv, NEW o \in Order, payments[o] # NoPayment, Charge(o), payments' = payments
    PROVE  charges' \in [Order -> Nat] /\ NoChargeWithoutIntent'
  <1>1. charges \in [Order -> Nat]
    BY DEF IInv, TypeOK
  <1>2. charges' = [charges EXCEPT ![o] = charges[o] + 1]
    BY DEF Charge
  <1>3. charges' \in [Order -> Nat] /\ \A p \in Order \ {o} : charges'[p] = charges[p]
    BY <1>1, <1>2
  <1>. QED
    BY <1>3 DEF IInv, NoChargeWithoutIntent

LEMMA CallGatewayKeepsIInv ==
    ASSUME IInv, NEW o \in Order, CallGateway(o)
    PROVE  IInv'
  <1>1. /\ o \in calling /\ Charge(o)
        /\ calling' = calling \ {o} /\ answered' = answered \cup {o}
        /\ UNCHANGED <<payments, stale, processed, outbox, directive, stuck, resolving>>
    BY DEF CallGateway, tables, reconciler
  <1>2. payments[o] # NoPayment
    BY <1>1 DEF IInv, TasksHaveIntents
  <1>3. charges' \in [Order -> Nat] /\ NoChargeWithoutIntent'
    BY <1>1, <1>2, ChargeEffect
  <1>4. TypeOK'
    BY <1>1, <1>3 DEF IInv, TypeOK
  <1>5. TasksHaveIntents' /\ DirectiveInHand'
    BY <1>1, <1>2 DEF IInv, TasksHaveIntents, DirectiveInHand, OneCallAtATime
  <1>. QED
    BY <1>1, <1>3, <1>4, <1>5, UntouchedRows DEF IInv

LEMMA RecordOutcomeKeepsIInv ==
    ASSUME IInv, NEW o \in Order, RecordOutcome(o)
    PROVE  IInv'
  <1>1. /\ o \in answered /\ Settle(o, payments[o].simulate)
        /\ answered' = answered \ {o} /\ directive' = "none"
        /\ UNCHANGED <<calling, stuck, resolving, charges>>
    BY OutcomeIsOfTheRow DEF RecordOutcome, reconciler
  <1>2. payments[o] # NoPayment
    BY <1>1 DEF IInv, TasksHaveIntents
  <1>3. /\ payments' \in [Order -> PaymentRow \cup {NoPayment}]
        /\ stale' \subseteq stale
        /\ processed' = processed
        /\ outbox' \in Seq(Event)
        /\ \A p \in Order : payments[p] # NoPayment =>
              payments'[p] # NoPayment /\ payments'[p].simulate = payments[p].simulate
        /\ DirectiveDecides'
        /\ OutcomesAgree'
    BY <1>1, <1>2, SettleEffect
  <1>4. TypeOK'
    BY <1>1, <1>3 DEF IInv, TypeOK, Directive
  <1>5. TasksHaveIntents' /\ DirectiveInHand'
    BY <1>1, <1>3 DEF IInv, TypeOK, TasksHaveIntents, DirectiveInHand, OneCallAtATime
  <1>6. NoChargeWithoutIntent'
    BY <1>1, <1>3 DEF IInv, NoChargeWithoutIntent
  <1>. QED
    BY <1>3, <1>4, <1>5, <1>6 DEF IInv

-----------------------------------------------------------------------------
(* The reconciler *)

LEMMA AgeKeepsIInv ==
    ASSUME IInv, NEW o \in Order, Age(o)
    PROVE  IInv'
  <1>1. /\ payments[o].status = "PROCESSING" /\ stale' = stale \cup {o}
        /\ UNCHANGED <<payments, processed, outbox, calling, answered, directive, stuck,
                       resolving, charges>>
    BY DEF Age, consumer, reconciler
  <1>2. payments[o] # NoPayment
    BY <1>1 DEF NoPayment
  <1>3. TypeOK'
    BY <1>1 DEF IInv, TypeOK
  <1>4. TasksHaveIntents' /\ DirectiveInHand'
    BY <1>1, <1>2 DEF IInv, TasksHaveIntents, DirectiveInHand, OneCallAtATime
  <1>5. NoChargeWithoutIntent'
    BY <1>1 DEF IInv, NoChargeWithoutIntent
  <1>. QED
    BY <1>1, <1>3, <1>4, <1>5, UntouchedRows DEF IInv

LEMMA AskGatewayKeepsIInv ==
    ASSUME IInv, NEW o \in Order, AskGateway(o)
    PROVE  IInv'
  <1>1. /\ o \in stuck /\ Charge(o)
        /\ stuck' = stuck \ {o} /\ resolving' = {o}
        /\ UNCHANGED <<payments, stale, processed, outbox, calling, answered, directive>>
    BY DEF AskGateway, tables, consumer
  <1>2. payments[o] # NoPayment
    BY <1>1 DEF IInv, TasksHaveIntents
  <1>3. charges' \in [Order -> Nat] /\ NoChargeWithoutIntent'
    BY <1>1, <1>2, ChargeEffect
  <1>4. TypeOK'
    BY <1>1, <1>3 DEF IInv, TypeOK
  <1>5. TasksHaveIntents' /\ DirectiveInHand'
    BY <1>1, <1>2 DEF IInv, TasksHaveIntents, DirectiveInHand, OneCallAtATime
  <1>. QED
    BY <1>1, <1>3, <1>4, <1>5, UntouchedRows DEF IInv

LEMMA ResolveKeepsIInv ==
    ASSUME IInv, NEW o \in Order, Resolve(o)
    PROVE  IInv'
  <1>1. /\ o \in resolving /\ resolving' = {}
        /\ UNCHANGED <<calling, answered, directive, stuck, charges>>
    BY DEF Resolve, consumer
  <1>2. CASE payments[o].status = "PROCESSING"
    <2>1. payments[o] # NoPayment /\ Settle(o, payments[o].simulate)
      BY <1>2 DEF Resolve, NoPayment
    <2>2. /\ payments' \in [Order -> PaymentRow \cup {NoPayment}]
          /\ stale' \subseteq stale
          /\ processed' = processed
          /\ outbox' \in Seq(Event)
          /\ \A p \in Order : payments[p] # NoPayment =>
                payments'[p] # NoPayment /\ payments'[p].simulate = payments[p].simulate
          /\ DirectiveDecides'
          /\ OutcomesAgree'
      BY <2>1, SettleEffect
    <2>3. TypeOK'
      BY <1>1, <2>2 DEF IInv, TypeOK
    <2>4. TasksHaveIntents' /\ DirectiveInHand'
      BY <1>1, <2>2 DEF IInv, TypeOK, TasksHaveIntents, DirectiveInHand, OneCallAtATime
    <2>5. NoChargeWithoutIntent'
      BY <1>1, <2>2 DEF IInv, NoChargeWithoutIntent
    <2>. QED
      BY <2>2, <2>3, <2>4, <2>5 DEF IInv
  <1>3. CASE payments[o].status # "PROCESSING"
    <2>1. UNCHANGED <<payments, stale, processed, outbox>>
      BY <1>3 DEF Resolve, tables
    <2>2. TypeOK'
      BY <1>1, <2>1 DEF IInv, TypeOK
    <2>3. TasksHaveIntents' /\ DirectiveInHand'
      BY <1>1, <2>1 DEF IInv, TasksHaveIntents, DirectiveInHand, OneCallAtATime
    <2>4. NoChargeWithoutIntent'
      BY <1>1, <2>1 DEF IInv, NoChargeWithoutIntent
    <2>. QED
      BY <2>1, <2>2, <2>3, <2>4, UntouchedRows DEF IInv
  <1>. QED
    BY <1>2, <1>3

\* A sweep begins, or a task loses its place: no table changes, and no task
\* holds an order that is not already in its list or in the table of stale rows.
LEMMA TasksMoveKeepsIInv ==
    ASSUME IInv, UNCHANGED tables, charges' = charges,
           calling' \subseteq calling, answered' \subseteq answered,
           directive' = directive \/ (directive' = "none" /\ calling' \cup answered' = {}),
           stuck' \subseteq stuck \cup stale, resolving' \subseteq resolving
    PROVE  IInv'
  <1>1. UNCHANGED <<payments, stale, processed, outbox>>
    BY DEF tables
  <1>2. TypeOK'
    BY <1>1 DEF IInv, TypeOK, Directive
  <1>3. TasksHaveIntents' /\ DirectiveInHand'
    BY <1>1 DEF IInv, TasksHaveIntents, DirectiveInHand, OneCallAtATime
  <1>4. NoChargeWithoutIntent'
    BY <1>1 DEF IInv, NoChargeWithoutIntent
  <1>. QED
    BY <1>1, <1>2, <1>3, <1>4, UntouchedRows DEF IInv

-----------------------------------------------------------------------------

LEMMA InitIInv == Init => IInv
  <1>. SUFFICES ASSUME Init PROVE IInv
    OBVIOUS
  <1>1. /\ \A o \in Order : payments[o] = NoPayment /\ charges[o] = 0
        /\ DOMAIN outbox = {}
    BY DEF Init
  <1>2. TypeOK
    BY DEF Init, TypeOK, Directive
  <1>3. DirectiveDecides /\ DirectiveInHand
    BY <1>1 DEF Init, DirectiveDecides, DirectiveInHand, OneCallAtATime, NoPayment
  <1>4. TasksHaveIntents
    BY DEF Init, TasksHaveIntents
  <1>5. OutcomesAgree
    <2>. SUFFICES ASSUME NEW o \in Order
                  PROVE  /\ Said(outbox, "payment.succeeded", o)
                              <=> payments[o].status = "SUCCEEDED"
                         /\ Said(outbox, "payment.failed", o)
                              <=> payments[o].status = "FAILED"
      BY DEF OutcomesAgree
    <2>1. ~Said(outbox, "payment.succeeded", o) /\ ~Said(outbox, "payment.failed", o)
      BY <1>1 DEF Said, Rows
    <2>2. payments[o].status # "SUCCEEDED" /\ payments[o].status # "FAILED"
      BY <1>1 DEF NoPayment
    <2>. QED
      BY <2>1, <2>2
  <1>6. NoChargeWithoutIntent
    BY <1>1 DEF NoChargeWithoutIntent
  <1>. QED
    BY <1>2, <1>3, <1>4, <1>5, <1>6 DEF IInv

LEMMA StepIInv == IInv /\ [Next]_vars => IInv'
  <1>. SUFFICES ASSUME IInv, [Next]_vars PROVE IInv'
    OBVIOUS
  <1>1. CASE UNCHANGED vars
    BY <1>1, TasksMoveKeepsIInv DEF vars, tables
  <1>2. ASSUME NEW e \in Delivery, Handle(e)
        PROVE  IInv'
    BY <1>1, <1>2, RecordIntentKeepsIInv DEF Handle, SkipIntent
  <1>3. CASE Consume
    BY <1>3, CallGatewayKeepsIInv, RecordOutcomeKeepsIInv DEF Consume
  <1>4. ASSUME NEW o \in Order, Age(o)
        PROVE  IInv'
    BY <1>4, AgeKeepsIInv
  <1>5. CASE FetchStuck
    BY <1>5, TasksMoveKeepsIInv DEF FetchStuck, consumer
  <1>6. ASSUME NEW o \in Order, AskGateway(o) \/ Resolve(o)
        PROVE  IInv'
    BY <1>6, AskGatewayKeepsIInv, ResolveKeepsIInv
  <1>7. CASE AbandonCall
    BY <1>7, TasksMoveKeepsIInv DEF AbandonCall, reconciler
  <1>8. CASE AbandonSweep
    BY <1>8, TasksMoveKeepsIInv DEF AbandonSweep, consumer
  <1>9. CASE Restart
    BY <1>9, TasksMoveKeepsIInv DEF Restart
  <1>. QED
    BY <1>1, <1>2, <1>3, <1>4, <1>5, <1>6, <1>7, <1>8, <1>9
       DEF Next, Reconcile, Lose

\* Every table always holds rows of its schema.
THEOREM TypeCorrect == Spec => []TypeOK
  <1>1. IInv => TypeOK
    BY DEF IInv
  <1>. QED
    BY <1>1, InitIInv, StepIInv, PTL DEF Spec

\* The payment row and every outcome event ever written for it agree, however
\* the two tasks race.
THEOREM OneOutcome == Spec => []OutcomesAgree
  <1>1. IInv => OutcomesAgree
    BY DEF IInv
  <1>. QED
    BY <1>1, InitIInv, StepIInv, PTL DEF Spec

\* No charge without a durable record of the intent.
THEOREM ChargeIsIntended == Spec => []NoChargeWithoutIntent
  <1>1. IInv => NoChargeWithoutIntent
    BY DEF IInv
  <1>. QED
    BY <1>1, InitIInv, StepIInv, PTL DEF Spec

-----------------------------------------------------------------------------
(* How often an order is charged *)

\* Who may still ask the gateway about an order.  The consumer does so once,
\* after Transaction 1; a sweep once, if the payment is open when it looks.
ConsumerMay(o) == payments[o] = NoPayment \/ o \in calling

SweepMay(o) ==
    \/ o \in stuck
    \/ payments[o].status \in {"ABSENT", "PROCESSING"} /\ o \notin resolving

\* The charges an order has had, and those that may come without a failure.
Bill(o) ==
    charges[o] + (IF ConsumerMay(o) THEN 1 ELSE 0) + (IF SweepMay(o) THEN 1 ELSE 0)

\* The SELECT of the sweep lists open payments only, and its loop is at one of
\* them at a time.
SweepInOrder ==
    /\ \A o \in stale : payments[o].status = "PROCESSING"
    /\ \A o, p \in resolving : o = p

\* All that PaymentService does, but for a sweep that is cut short.
Undisturbed ==
    \/ \E e \in Delivery : Handle(e)
    \/ Consume
    \/ \E o \in Order : Age(o)
    \/ Reconcile
    \/ AbandonCall

\* A bill depends on nothing else.
LEMMA SameBill ==
    ASSUME NEW o \in Order, payments'[o] = payments[o], charges'[o] = charges[o],
           o \in calling' => o \in calling, o \in stuck' <=> o \in stuck,
           o \in resolving' <=> o \in resolving, charges[o] \in Nat
    PROVE  Bill(o)' <= Bill(o)
  BY DEF Bill, ConsumerMay, SweepMay

\* Settling closes a payment: no later sweep will list it.
LEMMA SettleCloses ==
    ASSUME IInv, SweepInOrder, NEW o \in Order, payments[o] # NoPayment,
           Settle(o, payments[o].simulate)
    PROVE  /\ \A p \in stale' : payments'[p].status = "PROCESSING"
           /\ payments'[o] # NoPayment /\ payments'[o].status \notin {"ABSENT", "PROCESSING"}
           /\ \A p \in Order \ {o} : payments'[p] = payments[p]
  <1>1. TypeOK /\ payments[o] \in PaymentRow
    BY PaymentOf DEF IInv
  <1>2. /\ payments' = [payments EXCEPT ![o].status = Outcome(payments[o].simulate)]
        /\ stale' = stale \ {o}
    BY DEF Settle
  <1>3. /\ payments'[o].status = Outcome(payments[o].simulate)
        /\ \A p \in Order \ {o} : payments'[p] = payments[p]
    BY <1>1, <1>2 DEF TypeOK, PaymentRow
  <1>4. \A p \in stale' : payments'[p].status = "PROCESSING"
    BY <1>1, <1>2, <1>3 DEF SweepInOrder, TypeOK
  <1>. QED
    BY <1>3, <1>4, OutcomeRange DEF NoPayment

\* No step but the end of an unfinished sweep adds to a bill.
LEMMA NothingIsAdded ==
    ASSUME IInv, SweepInOrder, [Undisturbed]_vars
    PROVE  SweepInOrder' /\ \A o \in Order : Bill(o)' <= Bill(o)
  <1>1. /\ TypeOK /\ TasksHaveIntents
        /\ \A o \in Order : charges[o] \in Nat
    BY DEF IInv, TypeOK
  <1>2. CASE UNCHANGED vars
    BY <1>1, <1>2, SameBill DEF vars, SweepInOrder
  <1>3. ASSUME NEW e \in Delivery, RecordIntent(e)
        PROVE  SweepInOrder' /\ \A o \in Order : Bill(o)' <= Bill(o)
    <2>. DEFINE o == e.payload.order
    <2>1. e \in Event /\ o \in Order
      BY EventParts DEF IInv
    <2>2. /\ payments[o] = NoPayment
          /\ payments' = [payments EXCEPT
                ![o] = [status |-> "PROCESSING", simulate |-> e.payload.simulate]]
          /\ calling = {} /\ calling' = {o}
          /\ UNCHANGED <<stale, stuck, resolving, charges>>
      BY <1>3 DEF RecordIntent, ConsumerIdle, reconciler
    <2>. HIDE DEF o
    <2>3. /\ payments'[o].status = "PROCESSING"
          /\ \A p \in Order \ {o} : payments'[p] = payments[p]
      BY <1>1, <2>1, <2>2 DEF TypeOK
    <2>4. payments[o].status = "ABSENT"
      BY <2>2 DEF NoPayment
    <2>5. SweepInOrder'
      BY <1>1, <2>2, <2>3 DEF SweepInOrder, TypeOK
    <2>6. Bill(o)' <= Bill(o)
      BY <1>1, <2>1, <2>2, <2>3, <2>4 DEF Bill, ConsumerMay, SweepMay
    <2>7. \A p \in Order \ {o} : Bill(p)' <= Bill(p)
      BY <1>1, <2>2, <2>3, SameBill
    <2>. QED
      BY <2>5, <2>6, <2>7
  <1>4. ASSUME NEW o \in Order, CallGateway(o)
        PROVE  SweepInOrder' /\ \A p \in Order : Bill(p)' <= Bill(p)
    <2>1. /\ o \in calling /\ calling' = calling \ {o}
          /\ charges' = [charges EXCEPT ![o] = @ + 1]
          /\ UNCHANGED <<payments, stale, stuck, resolving>>
      BY <1>4 DEF CallGateway, Charge, tables, reconciler
    <2>2. payments[o] # NoPayment
      BY <1>1, <2>1 DEF TasksHaveIntents
    <2>3. charges'[o] = charges[o] + 1 /\ \A p \in Order \ {o} : charges'[p] = charges[p]
      BY <1>1, <2>1 DEF TypeOK
    <2>4. Bill(o)' <= Bill(o)
      BY <1>1, <2>1, <2>2, <2>3 DEF Bill, ConsumerMay, SweepMay
    <2>5. \A p \in Order \ {o} : Bill(p)' <= Bill(p)
      BY <1>1, <2>1, <2>3, SameBill
    <2>. QED
      BY <2>1, <2>4, <2>5 DEF SweepInOrder
  <1>5. ASSUME NEW o \in Order, Settle(o, payments[o].simulate), payments[o] # NoPayment,
               UNCHANGED <<calling, stuck, charges>>,
               resolving' = resolving \/ (resolving' = {} /\ resolving = {o})
        PROVE  SweepInOrder' /\ \A p \in Order : Bill(p)' <= Bill(p)
    <2>1. /\ \A p \in stale' : payments'[p].status = "PROCESSING"
          /\ payments'[o] # NoPayment /\ payments'[o].status \notin {"ABSENT", "PROCESSING"}
          /\ \A p \in Order \ {o} : payments'[p] = payments[p]
      BY <1>5, SettleCloses
    <2>2. Bill(o)' <= Bill(o)
      BY <1>1, <1>5, <2>1 DEF Bill, ConsumerMay, SweepMay
    <2>3. \A p \in Order \ {o} : Bill(p)' <= Bill(p)
      BY <1>1, <1>5, <2>1, SameBill
    <2>. QED
      BY <1>5, <2>1, <2>2, <2>3 DEF SweepInOrder
  <1>6. ASSUME NEW o \in Order, Age(o)
        PROVE  SweepInOrder' /\ \A p \in Order : Bill(p)' <= Bill(p)
    <2>1. /\ payments[o].status = "PROCESSING" /\ stale' = stale \cup {o}
          /\ UNCHANGED <<payments, calling, stuck, resolving, charges>>
      BY <1>6 DEF Age, consumer, reconciler
    <2>. QED
      BY <1>1, <2>1, SameBill DEF SweepInOrder
  <1>7. CASE FetchStuck
    <2>1. /\ stuck = {} /\ resolving = {} /\ stuck' = stale
          /\ UNCHANGED <<payments, stale, calling, resolving, charges>>
      BY <1>7 DEF FetchStuck, ReconcilerIdle, tables, consumer
    <2>2. \A o \in Order : SweepMay(o)' => SweepMay(o)
      BY <2>1 DEF SweepMay, SweepInOrder
    <2>. QED
      BY <1>1, <2>1, <2>2 DEF Bill, ConsumerMay, SweepInOrder
  <1>8. ASSUME NEW o \in Order, AskGateway(o)
        PROVE  SweepInOrder' /\ \A p \in Order : Bill(p)' <= Bill(p)
    <2>1. /\ o \in stuck /\ resolving = {}
          /\ stuck' = stuck \ {o} /\ resolving' = {o}
          /\ charges' = [charges EXCEPT ![o] = @ + 1]
          /\ UNCHANGED <<payments, stale, calling>>
      BY <1>8 DEF AskGateway, Charge, tables, consumer
    <2>2. charges'[o] = charges[o] + 1 /\ \A p \in Order \ {o} : charges'[p] = charges[p]
      BY <1>1, <2>1 DEF TypeOK
    <2>3. SweepMay(o) /\ ~SweepMay(o)' /\ ConsumerMay(o)' = ConsumerMay(o)
      BY <2>1 DEF SweepMay, ConsumerMay
    <2>4. Bill(o)' <= Bill(o)
      BY <1>1, <2>2, <2>3 DEF Bill
    <2>5. \A p \in Order \ {o} : Bill(p)' <= Bill(p)
      BY <1>1, <2>1, <2>2, SameBill
    <2>. QED
      BY <2>1, <2>4, <2>5 DEF SweepInOrder
  <1>9. ASSUME NEW o \in Order, Resolve(o)
        PROVE  SweepInOrder' /\ \A p \in Order : Bill(p)' <= Bill(p)
    <2>1. /\ o \in resolving /\ resolving' = {}
          /\ UNCHANGED <<calling, stuck, charges>>
          /\ payments[o].status = "PROCESSING" => Settle(o, payments[o].simulate)
          /\ payments[o].status # "PROCESSING" => UNCHANGED <<payments, stale>>
      BY <1>9 DEF Resolve, consumer, tables
    <2>2. payments[o] # NoPayment /\ payments[o].status # "ABSENT" /\ resolving = {o}
      BY <1>1, <2>1, PaymentOf DEF TasksHaveIntents, SweepInOrder
    <2>3. CASE payments[o].status = "PROCESSING"
      BY <1>5, <2>1, <2>2, <2>3
    <2>4. CASE payments[o].status # "PROCESSING"
      <3>1. Bill(o)' <= Bill(o)
        BY <1>1, <2>1, <2>2, <2>4 DEF Bill, ConsumerMay, SweepMay
      <3>2. \A p \in Order \ {o} : Bill(p)' <= Bill(p)
        BY <1>1, <2>1, <2>2, <2>4, SameBill
      <3>. QED
        BY <2>1, <2>4, <3>1, <3>2 DEF SweepInOrder
    <2>. QED
      BY <2>3, <2>4
  <1>10. CASE AbandonCall
    <2>1. /\ calling' = {} /\ UNCHANGED <<payments, stale, stuck, resolving, charges>>
      BY <1>10 DEF AbandonCall, tables, reconciler
    <2>. QED
      BY <1>1, <2>1, SameBill DEF SweepInOrder
  <1>11. ASSUME NEW o \in Order, RecordOutcome(o)
         PROVE  SweepInOrder' /\ \A p \in Order : Bill(p)' <= Bill(p)
    <2>1. /\ o \in answered /\ Settle(o, payments[o].simulate)
          /\ UNCHANGED <<calling, stuck, resolving, charges>>
      BY <1>11, OutcomeIsOfTheRow DEF RecordOutcome, reconciler
    <2>2. payments[o] # NoPayment
      BY <1>1, <2>1 DEF TasksHaveIntents
    <2>. QED
      BY <1>5, <2>1, <2>2
  <1>. QED
    BY <1>2, <1>3, <1>4, <1>6, <1>7, <1>8, <1>9, <1>10, <1>11
       DEF Undisturbed, Handle, SkipIntent, Consume, Reconcile

\* A sweep that is cut short, or a process that dies, adds one.
LEMMA InterruptionAddsOne ==
    ASSUME IInv, SweepInOrder, AbandonSweep \/ Restart
    PROVE  SweepInOrder' /\ \A o \in Order : Bill(o)' <= Bill(o) + 1
  <1>1. /\ stuck' = {} /\ resolving' = {} /\ calling' \subseteq calling
        /\ UNCHANGED <<payments, stale, charges>>
    BY DEF AbandonSweep, Restart, tables, consumer
  <1>2. \A o \in Order : charges[o] \in Nat
    BY DEF IInv, TypeOK
  <1>3. \A o \in Order : ConsumerMay(o)' => ConsumerMay(o)
    BY <1>1 DEF ConsumerMay
  <1>. QED
    BY <1>1, <1>2, <1>3 DEF Bill, SweepInOrder

\* At first nothing was charged, and each task may charge once.
LEMMA FirstBill == Init => SweepInOrder /\ \A o \in Order : Bill(o) = 2
  BY DEF Init, SweepInOrder, Bill, ConsumerMay, SweepMay, NoPayment

\* README.md:148: an order may be charged twice, by the consumer and by the sweep
\* that overtook it, but never a third time, as long as no sweep is cut short:
\* however often its events are delivered and however slow the consumer is.
THEOREM TwoChargesAtMost ==
    Init /\ [][Undisturbed]_vars => [](\A o \in Order : charges[o] <= 2)
  <1>. DEFINE Billed == SweepInOrder /\ \A o \in Order : Bill(o) \in Nat /\ Bill(o) <= 2
  <1>1. Init => IInv /\ Billed
    BY InitIInv, FirstBill
  <1>2. IInv /\ [Undisturbed]_vars => IInv'
    BY StepIInv DEF Undisturbed, Next, Lose
  <1>3. IInv => \A o \in Order : Bill(o) \in Nat /\ charges[o] <= Bill(o)
    BY DEF IInv, TypeOK, Bill
  <1>4. IInv' => \A o \in Order : Bill(o)' \in Nat
    BY DEF IInv, TypeOK, Bill
  <1>5. IInv /\ Billed /\ [Undisturbed]_vars => Billed'
    <2>. SUFFICES ASSUME IInv, Billed, [Undisturbed]_vars PROVE Billed'
      OBVIOUS
    <2>1. SweepInOrder' /\ \A o \in Order : Bill(o)' <= Bill(o)
      BY NothingIsAdded
    <2>2. \A o \in Order : Bill(o)' \in Nat
      BY <1>2, <1>4
    <2>. QED
      BY <2>1, <2>2
  <1>6. IInv /\ Billed => \A o \in Order : charges[o] <= 2
    BY <1>3 DEF IInv, TypeOK
  <1>. HIDE DEF Billed
  <1>. QED
    BY <1>1, <1>2, <1>5, <1>6, PTL

-----------------------------------------------------------------------------
(* How often an order is told its outcome *)

\* The rows of the outbox that tell the outcome of a payment.
Outcomes(o) == Rows(outbox, "payment.succeeded", o) \cup Rows(outbox, "payment.failed", o)

\* The consumer settles without a look at the status, so its one call counts
\* until Transaction 2; the sweep settles only what nobody has settled.
ConsumerSettles(o) == payments[o] = NoPayment \/ o \in calling \cup answered

Unsettled(o) == payments[o].status \in {"ABSENT", "PROCESSING"}

\* The outcomes that were told, and those that may follow.
Told(o) ==
    Cardinality(Outcomes(o)) + (IF ConsumerSettles(o) THEN 1 ELSE 0)
                             + (IF Unsettled(o) THEN 1 ELSE 0)

ToldTwiceAtMost == \A o \in Order : Cardinality(Outcomes(o)) <= 2

TellingInv ==
    /\ OneCallAtATime
    /\ \A o \in Order : IsFiniteSet(Outcomes(o)) /\ Told(o) <= 2

\* One more row: it is an outcome of its order, and of no other.
TellsOf(o) ==
    /\ Outcomes(o)' = Outcomes(o) \cup {Len(outbox) + 1}
    /\ ~Unsettled(o)' /\ payments'[o] # NoPayment
    /\ \A p \in Order \ {o} : Outcomes(p)' = Outcomes(p) /\ payments'[p] = payments[p]

LEMMA SettleTells ==
    ASSUME IInv, NEW o \in Order, payments[o] # NoPayment, Settle(o, payments[o].simulate)
    PROVE  TellsOf(o)
  <1>. DEFINE status == Outcome(payments[o].simulate)
              e == WrapEvent(OutcomeTopic(status), Bare(o), outbox)
  <1>1. /\ payments' = [payments EXCEPT ![o].status = status]
        /\ outbox' = Append(outbox, e)
    BY DEF Settle, Emit
  <1>2. TypeOK /\ payments[o] \in PaymentRow
    BY PaymentOf DEF IInv
  <1>3. OutcomeTopic(status) \in {"payment.succeeded", "payment.failed"}
    BY DEF OutcomeTopic
  <1>4. OutcomeTopic(status) \in EventType \ FullTypes
    BY <1>3 DEF EventType, OrderEvents, RestaurantEvents, PaymentEvents, FullTypes
  <1>5. e \in Event /\ e.type = OutcomeTopic(status) /\ e.payload.order = o
    BY <1>2, <1>4, WrapBare DEF TypeOK
  <1>6. status \in {"SUCCEEDED", "FAILED"}
    BY OutcomeRange
  <1>. HIDE DEF e, status
  <1>7. ASSUME NEW p \in Order, NEW type
        PROVE  Rows(outbox, type, p)' =
                  IF e.type = type /\ o = p
                  THEN Rows(outbox, type, p) \cup {Len(outbox) + 1}
                  ELSE Rows(outbox, type, p)
    BY <1>1, <1>2, <1>5, RowsAppend DEF TypeOK
  <1>8. Outcomes(o)' = Outcomes(o) \cup {Len(outbox) + 1}
    BY <1>3, <1>5, <1>7 DEF Outcomes
  <1>9. \A p \in Order \ {o} : Outcomes(p)' = Outcomes(p)
    BY <1>7 DEF Outcomes
  <1>10. /\ payments'[o].status = status /\ payments'[o] # NoPayment
         /\ \A p \in Order \ {o} : payments'[p] = payments[p]
    BY <1>1, <1>2, <1>6 DEF TypeOK, PaymentRow, NoPayment
  <1>. QED
    BY <1>6, <1>8, <1>9, <1>10 DEF TellsOf, Unsettled

\* What a step leaves alone.
LEMMA SameTold ==
    ASSUME NEW o \in Order, IsFiniteSet(Outcomes(o)), Told(o) <= 2,
           Outcomes(o)' = Outcomes(o), payments'[o] = payments[o],
           ConsumerSettles(o)' => ConsumerSettles(o)
    PROVE  IsFiniteSet(Outcomes(o))' /\ Told(o)' <= 2
  <1>1. Cardinality(Outcomes(o)) \in Nat
    BY FS_CardinalityType
  <1>2. Unsettled(o)' = Unsettled(o)
    BY DEF Unsettled
  <1>3. Cardinality(Outcomes(o))' = Cardinality(Outcomes(o))
    OBVIOUS
  <1>. QED
    BY <1>1, <1>2, <1>3 DEF Told

\* Settling uses up one of the two: the consumer its call, or the sweep the
\* status it has just looked at.
LEMMA SettleUsesOne ==
    ASSUME TellingInv, NEW o \in Order, TellsOf(o),
           \/ Unsettled(o) /\ UNCHANGED <<calling, answered>>
           \/ o \in answered /\ calling' = calling /\ answered' = answered \ {o}
    PROVE  TellingInv'
  <1>. DEFINE n == Cardinality(Outcomes(o))
  <1>1. /\ Outcomes(o)' = Outcomes(o) \cup {Len(outbox) + 1}
        /\ ~Unsettled(o)' /\ payments'[o] # NoPayment
        /\ \A p \in Order \ {o} : Outcomes(p)' = Outcomes(p) /\ payments'[p] = payments[p]
    BY DEF TellsOf
  <1>2. OneCallAtATime'
    BY DEF TellingInv, OneCallAtATime
  <1>3. IsFiniteSet(Outcomes(o)) /\ Told(o) <= 2
    BY DEF TellingInv
  <1>4. IsFiniteSet(Outcomes(o))' /\ n \in Nat /\ n' \in Nat /\ n' <= n + 1
    <2>. DEFINE S == Outcomes(o) \cup {Len(outbox) + 1}
    <2>1. n \in Nat /\ IsFiniteSet(S) /\ (Cardinality(S) = n \/ Cardinality(S) = n + 1)
      BY <1>3, FS_AddElement, FS_CardinalityType
    <2>2. IsFiniteSet(Outcomes(o))' /\ n' = Cardinality(S)
      BY <1>1, <2>1
    <2>. HIDE DEF n, S
    <2>. QED
      BY <2>1, <2>2
  <1>5. /\ Told(o) = n + (IF ConsumerSettles(o) THEN 1 ELSE 0)
                       + (IF Unsettled(o) THEN 1 ELSE 0)
        /\ Told(o)' = n' + (IF ConsumerSettles(o)' THEN 1 ELSE 0)
                         + (IF Unsettled(o)' THEN 1 ELSE 0)
    BY DEF Told
  <1>6. \/ Unsettled(o) /\ (ConsumerSettles(o)' => ConsumerSettles(o))
        \/ ConsumerSettles(o) /\ ~ConsumerSettles(o)'
    BY <1>1 DEF ConsumerSettles, TellingInv, OneCallAtATime
  <1>7. Told(o)' <= 2
    <2>. HIDE DEF n
    <2>. QED
      BY <1>1, <1>3, <1>4, <1>5, <1>6
  <1>8. ASSUME NEW p \in Order \ {o}
        PROVE  IsFiniteSet(Outcomes(p))' /\ Told(p)' <= 2
    <2>1. ConsumerSettles(p)' => ConsumerSettles(p)
      BY <1>1 DEF ConsumerSettles
    <2>. QED
      BY <1>1, <2>1, SameTold DEF TellingInv
  <1>. QED
    BY <1>2, <1>4, <1>7, <1>8 DEF TellingInv

\* Any other step leaves the outbox alone and gives the consumer no order that
\* it did not have, but for a new one.
LEMMA OthersTellNothing ==
    ASSUME TellingInv, UNCHANGED <<payments, outbox>>, OneCallAtATime',
           calling' \cup answered' \subseteq calling \cup answered
    PROVE  TellingInv'
  <1>1. ASSUME NEW o \in Order
        PROVE  IsFiniteSet(Outcomes(o))' /\ Told(o)' <= 2
    <2>1. ConsumerSettles(o)' => ConsumerSettles(o)
      BY DEF ConsumerSettles
    <2>2. Outcomes(o)' = Outcomes(o)
      BY DEF Outcomes
    <2>. QED
      BY <2>1, <2>2, SameTold DEF TellingInv
  <1>. QED
    BY <1>1 DEF TellingInv

LEMMA IntentTellsNothing ==
    ASSUME IInv, TellingInv, NEW e \in Delivery, RecordIntent(e)
    PROVE  TellingInv'
  <1>. DEFINE o == e.payload.order
  <1>1. e \in Event /\ o \in Order
    BY EventParts DEF IInv
  <1>2. /\ payments[o] = NoPayment
        /\ payments' = [payments EXCEPT
              ![o] = [status |-> "PROCESSING", simulate |-> e.payload.simulate]]
        /\ calling = {} /\ answered = {} /\ calling' = {o}
        /\ UNCHANGED <<outbox, answered>>
    BY DEF RecordIntent, ConsumerIdle, reconciler
  <1>. HIDE DEF o
  <1>3. /\ payments'[o].status = "PROCESSING"
        /\ \A p \in Order \ {o} : payments'[p] = payments[p]
    BY <1>1, <1>2 DEF IInv, TypeOK
  <1>4. \A p \in Order : Outcomes(p)' = Outcomes(p)
    BY <1>2 DEF Outcomes
  <1>5. ConsumerSettles(o) /\ Unsettled(o)
    BY <1>2 DEF ConsumerSettles, Unsettled, NoPayment
  <1>6. Told(o)' <= 2 /\ IsFiniteSet(Outcomes(o))'
    <2>1. Cardinality(Outcomes(o)) \in Nat /\ Told(o) <= 2 /\ IsFiniteSet(Outcomes(o))
      BY <1>1, FS_CardinalityType DEF TellingInv
    <2>2. Cardinality(Outcomes(o))' = Cardinality(Outcomes(o))
      BY <1>1, <1>4
    <2>. QED
      BY <1>1, <1>4, <1>5, <2>1, <2>2 DEF Told
  <1>7. ASSUME NEW p \in Order \ {o}
        PROVE  IsFiniteSet(Outcomes(p))' /\ Told(p)' <= 2
    <2>1. ConsumerSettles(p)' => ConsumerSettles(p)
      BY <1>2, <1>3 DEF ConsumerSettles
    <2>. QED
      BY <1>3, <1>4, <2>1, SameTold DEF TellingInv
  <1>8. OneCallAtATime'
    BY <1>2 DEF OneCallAtATime
  <1>. QED
    BY <1>6, <1>7, <1>8 DEF TellingInv

LEMMA TellingStep ==
    ASSUME IInv, TellingInv, [Next]_vars
    PROVE  TellingInv'
  <1>1. CASE UNCHANGED vars
    BY <1>1, OthersTellNothing DEF vars, TellingInv, OneCallAtATime
  <1>2. ASSUME NEW e \in Delivery, Handle(e) PROVE TellingInv'
    BY <1>1, <1>2, IntentTellsNothing DEF Handle, SkipIntent
  <1>3. ASSUME NEW o \in Order, CallGateway(o) PROVE TellingInv'
    <2>1. /\ o \in calling /\ calling' = calling \ {o} /\ answered' = answered \cup {o}
          /\ UNCHANGED <<payments, outbox>>
      BY <1>3 DEF CallGateway, tables
    <2>. QED
      BY <2>1, OthersTellNothing DEF TellingInv, OneCallAtATime
  <1>4. ASSUME NEW o \in Order, RecordOutcome(o) PROVE TellingInv'
    <2>1. /\ o \in answered /\ Settle(o, payments[o].simulate)
          /\ calling' = calling /\ answered' = answered \ {o}
      BY <1>4, OutcomeIsOfTheRow DEF RecordOutcome, reconciler
    <2>2. payments[o] # NoPayment
      BY <2>1 DEF IInv, TasksHaveIntents
    <2>. QED
      BY <2>1, <2>2, SettleTells, SettleUsesOne
  <1>5. ASSUME NEW o \in Order, Resolve(o) PROVE TellingInv'
    <2>1. UNCHANGED <<calling, answered>>
      BY <1>5 DEF Resolve, consumer
    <2>2. CASE payments[o].status = "PROCESSING"
      BY <1>5, <2>1, <2>2, SettleTells, SettleUsesOne DEF Resolve, Unsettled, NoPayment
    <2>3. CASE payments[o].status # "PROCESSING"
      BY <1>5, <2>1, <2>3, OthersTellNothing
         DEF Resolve, tables, TellingInv, OneCallAtATime
    <2>. QED
      BY <2>2, <2>3
  <1>6. CASE FetchStuck \/ \E o \in Order : Age(o) \/ AskGateway(o)
    <2>1. UNCHANGED <<payments, outbox, calling, answered>>
      BY <1>6 DEF FetchStuck, Age, AskGateway, consumer, tables
    <2>. QED
      BY <2>1, OthersTellNothing DEF TellingInv, OneCallAtATime
  <1>7. CASE Lose
    <2>1. /\ UNCHANGED <<payments, outbox>>
          /\ calling' \subseteq calling /\ answered' \subseteq answered
      BY <1>7 DEF Lose, AbandonCall, AbandonSweep, Restart, tables, consumer
    <2>. QED
      BY <2>1, OthersTellNothing DEF TellingInv, OneCallAtATime
  <1>. QED
    BY <1>1, <1>2, <1>3, <1>4, <1>5, <1>6, <1>7 DEF Next, Consume, Reconcile

LEMMA FirstTelling == Init => TellingInv
  <1>. SUFFICES ASSUME Init PROVE TellingInv
    OBVIOUS
  <1>1. \A o \in Order : Outcomes(o) = {}
    BY DEF Init, Outcomes, Rows
  <1>2. ASSUME NEW o \in Order PROVE IsFiniteSet(Outcomes(o)) /\ Told(o) <= 2
    BY <1>1, FS_EmptySet DEF Told
  <1>. QED
    BY <1>2 DEF Init, TellingInv, OneCallAtATime

\* However often the service is interrupted and its events are delivered, it writes
\* at most two outcome events for an order: that of the consumer and, before it, that
\* of the sweep which overtook it.  A charge may be repeated, a verdict may not.
THEOREM TwoOutcomesAtMost == Spec => []ToldTwiceAtMost
  <1>1. TellingInv => ToldTwiceAtMost
    <2>. SUFFICES ASSUME TellingInv, NEW o \in Order
                  PROVE  Cardinality(Outcomes(o)) <= 2
      BY DEF ToldTwiceAtMost
    <2>1. Cardinality(Outcomes(o)) \in Nat /\ Told(o) <= 2
      BY FS_CardinalityType DEF TellingInv
    <2>. QED
      BY <2>1 DEF Told
  <1>. QED
    BY <1>1, InitIInv, StepIInv, FirstTelling, TellingStep, PTL DEF Spec

=============================================================================
