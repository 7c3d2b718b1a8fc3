--------------------------- MODULE PaymentService ---------------------------
(***************************************************************************)
(* The payment service (services/payment): the payments table, the ledger  *)
(* of processed events and the outbox in payment_db, and the two tasks of  *)
(* the process that settle payments.                                       *)
(*                                                                         *)
(* The consumer records its intent (Transaction 1), asks the gateway, and  *)
(* records the outcome (Transaction 2).  The reconciler lists the payments *)
(* that have been PROCESSING for too long, and for each asks the gateway   *)
(* and records the outcome in a transaction that looks at the status       *)
(* again.  The two interleave at every await; either may lose its place    *)
(* when it raises, and both do when the process dies.                      *)
(***************************************************************************)
EXTENDS Events

CONSTANTS
    Delivery,                \* the stock.reserved events the consumer may be handed
    PaymentSimulateDefault   \* the environment variable of that name

ASSUME DeliveryAssumption == Delivery \subseteq {e \in Event : e.type = "stock.reserved"}
ASSUME DefaultAssumption == PaymentSimulateDefault \in {"success", "failure"}

VARIABLES
    payments,         \* table payments, by its UNIQUE order_id
    stale,            \* the orders whose payment is PROCESSING with an updated_at
                      \* further back than stuck_duration
    processed,        \* table processed_events
    outbox,           \* table outbox_events, in insertion order
    calling,          \* consumer: Transaction 1 done, the gateway is next
    answered,         \* consumer: the gateway answered, Transaction 2 is next
    directive,        \* consumer: simulate_directive of the event in hand
    stuck,            \* reconciler: what is left of the list it fetched
    resolving,        \* reconciler: the gateway answered, its transaction is next
    charges           \* external: the calls the gateway has received, per order

tables == <<payments, stale, processed, outbox>>
consumer == <<calling, answered, directive>>
reconciler == <<stuck, resolving>>
vars == <<payments, stale, processed, outbox, calling, answered, directive, stuck, resolving,
          charges>>

NoPayment  == [status |-> "ABSENT"]
PaymentRow == [status : {"PROCESSING", "SUCCEEDED", "FAILED"}, simulate : Directive]

Init ==
    /\ payments = [o \in Order |-> NoPayment]
    /\ stale = {}
    /\ processed = {}
    /\ outbox = <<>>
    /\ calling = {} /\ answered = {} /\ directive = "none"
    /\ stuck = {} /\ resolving = {}
    /\ charges = [o \in Order |-> 0]

-----------------------------------------------------------------------------
(* gateway.py *)

\* process_payment.
Outcome(d) ==
    IF (IF d = "none" THEN PaymentSimulateDefault ELSE d) = "failure"
    THEN "FAILED"
    ELSE "SUCCEEDED"

\* Mutant: a topic nobody subscribes to.
OutcomeTopicMisspelled(status) ==
    IF status = "SUCCEEDED" THEN "payment.success" ELSE "payment.failed"

\* Mutant: every outcome goes to the same topic.
OutcomeTopicFixed(status) == "payment.succeeded"

OutcomeTopic(status) ==
    IF status = "SUCCEEDED" THEN "payment.succeeded" ELSE "payment.failed"

Charge(o) == charges' = [charges EXCEPT ![o] = @ + 1]

\* Mutant: the sweep selects by updated_at alone, and settling does not set it.
SettleStillStale(o, d) ==
    LET status == Outcome(d) IN
    /\ payments' = [payments EXCEPT ![o].status = status]
    /\ outbox' = Emit(outbox, OutcomeTopic(status), Bare(o))
    /\ UNCHANGED <<stale, processed>>

\* What the gateway answers to directive d: UPDATE payments and INSERT the outcome
\* event, in one transaction.
Settle(o, d) ==
    LET status == Outcome(d) IN
    /\ payments' = [payments EXCEPT ![o].status = status]
    /\ stale' = stale \ {o}
    /\ outbox' = Emit(outbox, OutcomeTopic(status), Bare(o))
    /\ UNCHANGED processed

-----------------------------------------------------------------------------
(* consumers.py *)

\* The loop awaits one handler before it calls the next.
ConsumerIdle == calling = {} /\ answered = {}

\* Mutant: the gateway is asked before the intent is committed.
RecordIntentLate(e) ==
    LET o == e.payload.order IN
    /\ ConsumerIdle
    /\ e.id \notin processed
    /\ Charge(o)
    /\ answered' = {o} /\ directive' = e.payload.simulate
    /\ UNCHANGED <<tables, calling, reconciler>>

\* Mutant: the directive is not persisted, as before migration 002.
RecordIntentNoDirective(e) ==
    LET o == e.payload.order IN
    /\ ConsumerIdle
    /\ e.id \notin processed
    /\ payments[o] = NoPayment
    /\ payments' = [payments EXCEPT ![o] = [status |-> "PROCESSING", simulate |-> "none"]]
    /\ processed' = processed \cup {e.id}
    /\ calling' = {o} /\ directive' = e.payload.simulate
    /\ UNCHANGED <<stale, outbox, answered, reconciler, charges>>

\* Transaction 1 of a new event.
RecordIntent(e) ==
    LET o == e.payload.order IN
    /\ ConsumerIdle
    /\ e.id \notin processed
    /\ payments[o] = NoPayment
    /\ payments' = [payments EXCEPT
            ![o] = [status |-> "PROCESSING", simulate |-> e.payload.simulate]]
    /\ processed' = processed \cup {e.id}
    /\ calling' = {o} /\ directive' = e.payload.simulate
    /\ UNCHANGED <<stale, outbox, answered, reconciler, charges>>

\* The ledger has the event, or the INSERT violates payments_order_id_key (and
\* then the transaction rolls back): return without a charge.
SkipIntent(e) ==
    /\ ConsumerIdle
    /\ e.id \in processed \/ payments[e.payload.order] # NoPayment
    /\ UNCHANGED vars

Handle(e) == RecordIntent(e) \/ SkipIntent(e)

CallGateway(o) ==
    /\ o \in calling
    /\ Charge(o)
    /\ calling' = calling \ {o}
    /\ answered' = answered \cup {o}
    /\ UNCHANGED <<tables, directive, reconciler>>

\* Transaction 2, by the directive of the event: nothing is checked, the reconciler
\* may have been here.
RecordOutcome(o) ==
    /\ o \in answered
    /\ Settle(o, directive)
    /\ answered' = answered \ {o} /\ directive' = "none"
    /\ UNCHANGED <<calling, reconciler, charges>>

\* The handler raises after Transaction 1; the loop logs it and goes on.
AbandonCall ==
    /\ ~ConsumerIdle
    /\ calling' = {} /\ answered' = {} /\ directive' = "none"
    /\ UNCHANGED <<tables, reconciler, charges>>

-----------------------------------------------------------------------------
(* reconciliation.py *)

\* Time passes: stuck_duration has gone by since the row was written.
Age(o) ==
    /\ payments[o].status = "PROCESSING"
    /\ stale' = stale \cup {o}
    /\ UNCHANGED <<payments, processed, outbox, consumer, reconciler, charges>>

ReconcilerIdle == stuck = {} /\ resolving = {}

\* The SELECT of the stuck payments; the loop over them begins.
FetchStuck ==
    /\ ReconcilerIdle
    /\ stale # {}
    /\ stuck' = stale
    /\ UNCHANGED <<tables, consumer, resolving, charges>>

AskGateway(o) ==
    /\ o \in stuck
    /\ resolving = {}
    /\ Charge(o)
    /\ stuck' = stuck \ {o}
    /\ resolving' = {o}
    /\ UNCHANGED <<tables, consumer>>

\* The transaction of the reconciler: SELECT status FOR UPDATE, and settle the
\* payment only if it is PROCESSING still, by the directive of its row, which
\* nothing changes after the INSERT.
Resolve(o) ==
    /\ o \in resolving
    /\ IF payments[o].status = "PROCESSING"
       THEN Settle(o, payments[o].simulate)
       ELSE UNCHANGED tables
    /\ resolving' = {}
    /\ UNCHANGED <<consumer, stuck, charges>>

\* The sweep raises; the worker logs it and sleeps until the next one.
AbandonSweep ==
    /\ ~ReconcilerIdle
    /\ stuck' = {} /\ resolving' = {}
    /\ UNCHANGED <<tables, consumer, charges>>

\* The process dies and starts again: the tables are all that is left.
Restart ==
    /\ calling' = {} /\ answered' = {} /\ directive' = "none"
    /\ stuck' = {} /\ resolving' = {}
    /\ UNCHANGED <<tables, charges>>

-----------------------------------------------------------------------------

Consume == \E o \in Order : CallGateway(o) \/ RecordOutcome(o)

\* Mutant: the sweep asks and answers only for payments of the default directive.
ReconcileDefaultOnly ==
    \/ FetchStuck
    \/ \E o \in {p \in Order : payments[p].status # "ABSENT" /\ payments[p].simulate = "none"} :
          AskGateway(o) \/ Resolve(o)

Reconcile ==
    \/ FetchStuck
    \/ \E o \in Order : AskGateway(o) \/ Resolve(o)

Lose == AbandonCall \/ AbandonSweep \/ Restart

Next ==
    \/ \E e \in Delivery : Handle(e)
    \/ Consume
    \/ \E o \in Order : Age(o)
    \/ Reconcile
    \/ Lose

Spec == Init /\ [][Next]_vars

-----------------------------------------------------------------------------
(* Properties *)

\* Every table holds rows of its schema, and the tasks hold orders.
TypeOK ==
    /\ payments \in [Order -> PaymentRow \cup {NoPayment}]
    /\ stale \subseteq Order
    /\ processed \subseteq EventId
    /\ outbox \in Seq(Event)
    /\ calling \subseteq Order /\ answered \subseteq Order /\ directive \in Directive
    /\ stuck \subseteq Order /\ resolving \subseteq Order
    /\ charges \in [Order -> Nat]

\* The two tasks race to settle a payment, each by the directive it knows of: the
\* consumer by that of the event in its hands, the reconciler by that of the row.
\* A settled payment may be settled again by a consumer that was slower than
\* stuck_duration.  The row and every outcome event ever written still agree.
OutcomesAgree ==
    \A o \in Order :
        /\ Said(outbox, "payment.succeeded", o) <=> payments[o].status = "SUCCEEDED"
        /\ Said(outbox, "payment.failed", o) <=> payments[o].status = "FAILED"

\* Transaction 1 comes before the gateway: there is no charge of which the
\* service has no durable record, so nothing a crash leaves is out of reach of
\* the reconciler.
NoChargeWithoutIntent ==
    \A o \in Order : charges[o] > 0 => payments[o] # NoPayment

\* SYSTEM_FLOW.md:1441 and 1644: one order is charged at most once, the
\* gateway is called at most once per event, ever.
AtMostOneCharge == \A o \in Order : charges[o] <= 1

\* README.md:60: a payment stuck in PROCESSING is eventually resolved.
PaymentsSettle ==
    \A o \in Order :
        payments[o].status = "PROCESSING" ~> payments[o].status \in {"SUCCEEDED", "FAILED"}

=============================================================================
