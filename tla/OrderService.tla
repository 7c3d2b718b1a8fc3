---------------------------- MODULE OrderService ----------------------------
(***************************************************************************)
(* The order service (services/order): the orders table, the ledger of     *)
(* processed events and the outbox, all in order_db.  A handler is one     *)
(* database transaction, hence one step; a handler that raises rolls its   *)
(* transaction back and changes nothing here.                              *)
(*                                                                         *)
(* On its own the module is driven by an environment that delivers any     *)
(* event of Delivery, any number of times and in any order.                *)
(***************************************************************************)
EXTENDS Events

CONSTANT Delivery     \* the events the consumer may be handed

ASSUME DeliveryAssumption == Delivery \subseteq Event

VARIABLES
    orders,           \* table orders
    processed,        \* table processed_events
    outbox            \* table outbox_events, in insertion order

vars == <<orders, processed, outbox>>

Status == {"PENDING", "CONFIRMED", "PAYMENT_FAILED", "STOCK_UNAVAILABLE"}

\* Mutant: CONFIRMED may still fail.
AllowedTransitionsFromConfirmed(status) ==
    IF status \in {"PENDING", "CONFIRMED"} THEN Status \ {"PENDING"} ELSE {}

\* Mutant: PAYMENT_FAILED may be entered again.
AllowedTransitionsReentrant(status) ==
    IF status \in {"PENDING", "PAYMENT_FAILED"} THEN {"PAYMENT_FAILED"} ELSE {}

AllowedTransitions(status) ==
    IF status = "PENDING" THEN Status \ {"PENDING"} ELSE {}

NoOrder  == [status |-> "ABSENT"]
OrderRow == [status : Status, request : Request]

Init ==
    /\ orders = [o \in Order |-> NoOrder]
    /\ processed = {}
    /\ outbox = <<>>

-----------------------------------------------------------------------------
(* routes.py *)

\* Mutant: migration 002 without the UNIQUE constraint.
KeyUnconstrained(key) == TRUE

\* idempotency_key is UNIQUE over the whole table (NULLs never collide).
KeyFree(key) ==
    key = NoKey \/ \A o \in Order : orders[o] # NoOrder => orders[o].request.key # key

\* Mutant: the order is committed without its event.
CreateOrderWithoutEvent(o, r) ==
    /\ orders[o] = NoOrder
    /\ KeyFree(r.key)
    /\ orders' = [orders EXCEPT ![o] = [status |-> "PENDING", request |-> r]]
    /\ UNCHANGED <<processed, outbox>>

\* POST /orders, from the INSERT to the commit: the order and its event.  A
\* key that is taken raises UniqueViolationError: nothing is written.
CreateOrder(o, r) ==
    /\ orders[o] = NoOrder
    /\ KeyFree(r.key)
    /\ orders' = [orders EXCEPT ![o] = [status |-> "PENDING", request |-> r]]
    /\ outbox' = Emit(outbox, "order.placed", Placement(o, r))
    /\ UNCHANGED processed

-----------------------------------------------------------------------------
(* consumers.py and state_machine.py *)

CanTransition(o, status) ==
    /\ orders[o] # NoOrder
    /\ status \in AllowedTransitions(orders[o].status)

\* transition_order, called by the handler of a new event.
Transition(o, status) ==
    /\ CanTransition(o, status)
    /\ orders' = [orders EXCEPT ![o].status = status]

MarkProcessed(e) ==
    /\ e.id \notin processed
    /\ processed' = processed \cup {e.id}

PaymentSucceeded(e) ==
    /\ e.type = "payment.succeeded"
    /\ MarkProcessed(e)
    /\ Transition(e.payload.order, "CONFIRMED")
    /\ UNCHANGED outbox

\* Mutant: the order fails without a compensation.
PaymentFailedNoRelease(e) ==
    /\ e.type = "payment.failed"
    /\ MarkProcessed(e)
    /\ Transition(e.payload.order, "PAYMENT_FAILED")
    /\ UNCHANGED outbox

\* Mutant: the compensation is committed, the transition is not.
PaymentFailedNoTransition(e) ==
    /\ e.type = "payment.failed"
    /\ MarkProcessed(e)
    /\ outbox' = Emit(outbox, "stock.release", Bare(e.payload.order))
    /\ UNCHANGED orders

\* The compensation is emitted in the transaction that fails the order.
PaymentFailed(e) ==
    /\ e.type = "payment.failed"
    /\ MarkProcessed(e)
    /\ Transition(e.payload.order, "PAYMENT_FAILED")
    /\ outbox' = Emit(outbox, "stock.release", Bare(e.payload.order))

StockRejected(e) ==
    /\ e.type = "stock.rejected"
    /\ MarkProcessed(e)
    /\ Transition(e.payload.order, "STOCK_UNAVAILABLE")
    /\ UNCHANGED outbox

Duplicate(e) ==
    /\ e.id \in processed
    /\ UNCHANGED vars

TargetStatus(type) ==
    CASE type = "payment.succeeded" -> "CONFIRMED"
      [] type = "payment.failed"    -> "PAYMENT_FAILED"
      [] type = "stock.rejected"    -> "STOCK_UNAVAILABLE"

\* transition_order raises ValueError or InvalidTransitionError: the event is
\* not recorded as processed.
Refused(e) ==
    /\ e.type \in {"payment.succeeded", "payment.failed", "stock.rejected"}
    /\ e.id \notin processed
    /\ ~CanTransition(e.payload.order, TargetStatus(e.type))
    /\ UNCHANGED vars

\* Any other event type returns before the ledger is written.
UnknownType(e) ==
    /\ e.type \notin {"payment.succeeded", "payment.failed", "stock.rejected"}
    /\ e.id \notin processed
    /\ UNCHANGED vars

Handle(e) ==
    \/ PaymentSucceeded(e)
    \/ PaymentFailed(e)
    \/ StockRejected(e)
    \/ Duplicate(e)
    \/ Refused(e)
    \/ UnknownType(e)

Next ==
    \/ \E o \in Order, r \in Request : CreateOrder(o, r)
    \/ \E e \in Delivery : Handle(e)

Spec == Init /\ [][Next]_vars

-----------------------------------------------------------------------------
(* Properties *)

\* Every table holds rows of its schema.
TypeOK ==
    /\ orders \in [Order -> OrderRow \cup {NoOrder}]
    /\ processed \subseteq EventId
    /\ outbox \in Seq(Event)

\* The compensation is exactly as durable as the failure that calls for it:
\* an order is PAYMENT_FAILED if and only if its stock.release is in the
\* outbox, whatever outcome events arrive, repeated or contradictory.
CompensationIffFailed ==
    \A o \in Order :
        Said(outbox, "stock.release", o) <=> orders[o].status = "PAYMENT_FAILED"

\* No two compensations for an order: a second stock.release would be a
\* second chance to give the same stock back.
CompensationOnce ==
    \A i, j \in DOMAIN outbox :
        /\ outbox[i].type = "stock.release"
        /\ outbox[j].type = "stock.release"
        /\ outbox[i].payload.order = outbox[j].payload.order
        => i = j

\* The transactional outbox of POST /orders: an order is announced, with the
\* basket and the directive of its row, if and only if it is in the table.
AnnouncedIffCreated ==
    \A o \in Order :
        IF orders[o] = NoOrder
        THEN Rows(outbox, "order.placed", o) = {}
        ELSE \E i \in DOMAIN outbox :
                /\ Rows(outbox, "order.placed", o) = {i}
                /\ outbox[i].payload = Placement(o, orders[o].request)

\* What the client has been told is final stays so: a late or contradictory
\* outcome event never moves an order out of a terminal status.
TerminalIsFinal ==
    [][\A o \in Order :
          orders[o].status \in Status \ {"PENDING"} => orders'[o] = orders[o]]_vars

=============================================================================
