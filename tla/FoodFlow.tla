------------------------------ MODULE FoodFlow ------------------------------
(***************************************************************************)
(* The saga as it runs: the order, restaurant and payment services, each   *)
(* with its database, its outbox relay and its Kafka consumer, and the     *)
(* broker between them.  Every step is a step of one component; the        *)
(* components share nothing but the topics.                                *)
(*                                                                         *)
(* Failures cost a budget.  MaxFaults pays for those that the design means *)
(* to survive: a process that dies, a relay interrupted between the send   *)
(* and the UPDATE, a payment task that loses its place.  MaxDrops pays for *)
(* a handler that raises on a message it should have handled: the          *)
(* transaction rolls back and the loop goes on to the next message.        *)
(***************************************************************************)
EXTENDS Events

CONSTANTS InitialStock, PaymentSimulateDefault, MaxFaults, MaxDrops

ASSUME FoodFlowAssumption ==
    /\ InitialStock \in [Item -> Nat]
    /\ PaymentSimulateDefault \in {"success", "failure"}
    /\ MaxFaults \in Nat /\ MaxDrops \in Nat

VARIABLES
    orders, orderProcessed, orderOutbox, orderPublished,
    stock, reservations, restaurantProcessed, restaurantOutbox, restaurantPublished,
    payments, stale, paymentProcessed, paymentOutbox, paymentPublished,
    calling, answered, directive, stuck, resolving, charges,
    log, position, committed,
    faults, drops

orderDb      == <<orders, orderProcessed, orderOutbox>>
restaurantDb == <<stock, reservations, restaurantProcessed, restaurantOutbox>>
paymentState == <<payments, stale, paymentProcessed, paymentOutbox,
                  calling, answered, directive, stuck, resolving, charges>>
publications == <<orderPublished, restaurantPublished, paymentPublished>>
broker       == <<log, position, committed>>
budget       == <<faults, drops>>

vars == <<orderDb, restaurantDb, paymentState, publications, broker, budget>>

O == INSTANCE OrderService WITH
        Delivery <- {}, processed <- orderProcessed, outbox <- orderOutbox
R == INSTANCE RestaurantService WITH
        Delivery <- {}, processed <- restaurantProcessed, outbox <- restaurantOutbox
P == INSTANCE PaymentService WITH
        Delivery <- {}, processed <- paymentProcessed, outbox <- paymentOutbox
K == INSTANCE Kafka WITH Message <- {}

OrderRelay == INSTANCE Outbox WITH
        Message <- {}, outbox <- orderOutbox, published <- orderPublished
RestaurantRelay == INSTANCE Outbox WITH
        Message <- {}, outbox <- restaurantOutbox, published <- restaurantPublished
PaymentRelay == INSTANCE Outbox WITH
        Message <- {}, outbox <- paymentOutbox, published <- paymentPublished

Init ==
    /\ O!Init /\ R!Init /\ P!Init /\ K!Init
    /\ orderPublished = {} /\ restaurantPublished = {} /\ paymentPublished = {}
    /\ faults = 0 /\ drops = 0

-----------------------------------------------------------------------------
(* The order service *)

PlaceOrder ==
    /\ \E o \in Order, r \in Request : O!CreateOrder(o, r)
    /\ UNCHANGED <<restaurantDb, paymentState, publications, broker, budget>>

OrderConsumes ==
    /\ \E t \in K!OrderTopics : K!Advance(t) /\ O!Handle(K!NextEvent(t))
    /\ UNCHANGED <<restaurantDb, paymentState, publications, budget>>

OrderRelays ==
    /\ \E i \in OrderRelay!Unpublished : OrderRelay!Publish(i)
    /\ UNCHANGED <<orders, orderProcessed, restaurantDb, paymentState, restaurantPublished,
                   paymentPublished, position, committed, budget>>

-----------------------------------------------------------------------------
(* The restaurant service *)

RestaurantConsumes ==
    /\ \E t \in K!RestaurantTopics : K!Advance(t) /\ R!Handle(K!NextEvent(t))
    /\ UNCHANGED <<orderDb, paymentState, publications, budget>>

RestaurantRelays ==
    /\ \E i \in RestaurantRelay!Unpublished : RestaurantRelay!Publish(i)
    /\ UNCHANGED <<orderDb, stock, reservations, restaurantProcessed, paymentState,
                   orderPublished, paymentPublished, position, committed, budget>>

-----------------------------------------------------------------------------
(* The payment service *)

PaymentConsumes ==
    /\ \E t \in K!PaymentTopics : K!Advance(t) /\ P!Handle(K!NextEvent(t))
    /\ UNCHANGED <<orderDb, restaurantDb, publications, budget>>

PaymentStep(A) ==
    /\ A
    /\ UNCHANGED <<orderDb, restaurantDb, publications, broker, budget>>

PaymentCall    == PaymentStep(P!Consume)
PaymentAges(o) == PaymentStep(P!Age(o))
PaymentSweep   == PaymentStep(P!Reconcile)

PaymentRelays ==
    /\ \E i \in PaymentRelay!Unpublished : PaymentRelay!Publish(i)
    /\ UNCHANGED <<orderDb, restaurantDb, payments, stale, paymentProcessed, calling, answered,
                   directive, stuck, resolving, charges, orderPublished, restaurantPublished,
                   position, committed, budget>>

-----------------------------------------------------------------------------
(* Offsets and failures *)

\* A consumer commits between two messages, a payment in hand completed first.
Commits ==
    /\ \/ K!Commit(K!OrderTopics)
       \/ K!Commit(K!RestaurantTopics)
       \/ P!ConsumerIdle /\ K!Commit(K!PaymentTopics)
    /\ UNCHANGED <<orderDb, restaurantDb, paymentState, publications, budget>>

Fault ==
    /\ faults < MaxFaults
    /\ faults' = faults + 1
    /\ UNCHANGED drops

\* A process dies and comes back; what its relay and handlers had not
\* committed is gone.
Crash ==
    /\ Fault
    /\ \/ K!Rejoin(K!OrderTopics) /\ UNCHANGED paymentState
       \/ K!Rejoin(K!RestaurantTopics) /\ UNCHANGED paymentState
       \/ K!Rejoin(K!PaymentTopics) /\ P!Restart
    /\ UNCHANGED <<orderDb, restaurantDb, publications>>

\* A relay is interrupted after the broker's acknowledgement.
RelayInterrupted ==
    /\ Fault
    /\ \/ \E i \in OrderRelay!Unpublished : OrderRelay!Send(i)
       \/ \E i \in RestaurantRelay!Unpublished : RestaurantRelay!Send(i)
       \/ \E i \in PaymentRelay!Unpublished : PaymentRelay!Send(i)
    /\ UNCHANGED <<orderDb, restaurantDb, paymentState, publications, position, committed>>

\* The consumer after Transaction 1, or the sweep, raises.
PaymentTaskFails ==
    /\ Fault
    /\ P!AbandonCall \/ P!AbandonSweep
    /\ UNCHANGED <<orderDb, restaurantDb, publications, broker>>

\* A handler raises before it commits anything; the position moves on.
HandlerRaises ==
    /\ drops < MaxDrops
    /\ drops' = drops + 1
    /\ \E t \in EventType :
          /\ t \in K!PaymentTopics => P!ConsumerIdle
          /\ K!Advance(t)
    /\ UNCHANGED <<orderDb, restaurantDb, paymentState, publications, faults>>

-----------------------------------------------------------------------------

Next ==
    \/ PlaceOrder \/ OrderConsumes \/ OrderRelays
    \/ RestaurantConsumes \/ RestaurantRelays
    \/ PaymentConsumes \/ PaymentCall \/ (\E o \in Order : PaymentAges(o)) \/ PaymentSweep
    \/ PaymentRelays
    \/ Commits
    \/ Crash \/ RelayInterrupted \/ PaymentTaskFails \/ HandlerRaises

Spec == Init /\ [][Next]_vars

\* The tasks of a running process: every one of them goes on while it can,
\* and the clock that makes a payment stale does not stop.  Nothing makes a
\* client order, a consumer commit or anything fail.
Fairness ==
    /\ WF_vars(OrderConsumes) /\ WF_vars(OrderRelays)
    /\ WF_vars(RestaurantConsumes) /\ WF_vars(RestaurantRelays)
    /\ WF_vars(PaymentConsumes) /\ WF_vars(PaymentCall) /\ WF_vars(PaymentSweep)
    /\ WF_vars(PaymentRelays)
    /\ \A o \in Order : WF_vars(PaymentAges(o))

FairSpec == Spec /\ Fairness

-----------------------------------------------------------------------------
(* Properties *)

Placed(o) == orders[o] # O!NoOrder

TypeOK ==
    /\ O!TypeOK /\ R!TypeOK /\ P!TypeOK
    /\ orderPublished \subseteq DOMAIN orderOutbox
    /\ restaurantPublished \subseteq DOMAIN restaurantOutbox
    /\ paymentPublished \subseteq DOMAIN paymentOutbox
    /\ log \in [EventType -> Seq(Event)]
    /\ \A t \in EventType : committed[t] <= position[t] /\ position[t] <= Len(log[t])
    /\ faults \in 0..MaxFaults /\ drops \in 0..MaxDrops

\* What the client reads from GET /orders is true of the other two databases:
\* a confirmed order is paid and its stock is still set aside, a failed one is
\* not paid, one refused for lack of stock holds none and was never charged.
StatusIsTrue ==
    \A o \in Order :
        /\ orders[o].status = "CONFIRMED" =>
              R!Held(o) /\ payments[o].status = "SUCCEEDED"
        /\ orders[o].status = "PAYMENT_FAILED" => payments[o].status = "FAILED"
        /\ orders[o].status = "STOCK_UNAVAILABLE" =>
              ~R!Held(o) /\ payments[o] = P!NoPayment /\ charges[o] = 0

\* No portion is sold twice and none is lost: what the items were seeded with
\* is in stock or in a reservation, through any replay and compensation.
StockConserved == R!StockConserved

\* A replayed order.placed never gets a second, perhaps different, answer.
OneStockVerdict ==
    \A o \in Order :
        Cardinality(R!Rows(restaurantOutbox, "stock.reserved", o)
                    \cup R!Rows(restaurantOutbox, "stock.rejected", o)) <= 1

\* README.md:148: the gateway is asked without an idempotency key.  An order is
\* charged twice at most, by the consumer and by the sweep that overtakes it,
\* and once more for each sweep that a failure cuts short: replays of events
\* and sweeps that go well cost nothing.
ChargesNeedFaults == \A o \in Order : charges[o] <= 2 + faults

\* The outcome is the one the client's directive asks for, by whichever task
\* it was settled: migration 002 persists the directive for this.
DirectiveHonoured ==
    \A o \in Order :
        /\ orders[o].status = "CONFIRMED" => orders[o].request.simulate # "failure"
        /\ orders[o].status = "PAYMENT_FAILED" => orders[o].request.simulate # "success"

\* A reservation is given back for one reason only: the order is already
\* PAYMENT_FAILED.  Before that the stock stays, whoever crashes.
StockReturnsOnlyOnFailure ==
    [][\A o \in Order :
          R!Held(o) /\ ~R!Held(o)' => orders[o].status = "PAYMENT_FAILED"]_vars

\* Nothing is left to do: outboxes published, topics read, no payment open.
Quiet ==
    /\ OrderRelay!Unpublished = {}
    /\ RestaurantRelay!Unpublished = {}
    /\ PaymentRelay!Unpublished = {}
    /\ \A t \in EventType : ~K!HasNext(t)
    /\ \A o \in Order : payments[o].status # "PROCESSING"

\* The three databases agree on an order, and stock is set aside for it if it is
\* confirmed, and only then.
AgreedOn(o) ==
    /\ orders[o].status # "PENDING"
    /\ R!Held(o) <=> orders[o].status = "CONFIRMED"
    /\ payments[o].status = "SUCCEEDED" <=> orders[o].status = "CONFIRMED"

\* README.md:61: when everything has come to rest the three databases agree on
\* every order, save for one for each message whose handler raised: these are
\* lost (SYSTEM_FLOW.md:2166), and take no other order with them.
ConsistentAtRest ==
    Quiet => Cardinality({o \in Order : Placed(o) /\ ~AgreedOn(o)}) <= drops

\* The stage of an order, read off the three databases.
StageOf(o) ==
    CASE ~Placed(o) -> "absent"
      [] payments[o].status = "SUCCEEDED" -> "paid"
      [] payments[o].status = "FAILED" -> IF R!Held(o) THEN "declined" ELSE "returned"
      [] payments[o].status = "PROCESSING" -> "reserved"
      [] payments[o] = P!NoPayment /\ R!Held(o) -> "reserved"
      [] R!Said(restaurantOutbox, "stock.rejected", o) -> "rejected"
      [] OTHER -> "placed"

Promise == INSTANCE Saga WITH
    stage <- [o \in Order |-> StageOf(o)],
    told  <- [o \in Order |-> orders[o].status],
    asked <- [o \in Order |-> IF Placed(o) THEN orders[o].request ELSE NoRequest],
    shelf <- stock

\* The distributed system keeps the promise of the saga, step by step: with
\* every interleaving, replay, crash and swallowed exception in the budget.
KeepsPromise == Promise!Spec

\* Every accepted order is decided, through any survivable failure.
OrdersSettle ==
    \A o \in Order : Placed(o) ~> (Placed(o) /\ orders[o].status # "PENDING")

\* The stock of a failed order is given back in the end.
FailuresAreCompensated ==
    \A o \in Order : orders[o].status = "PAYMENT_FAILED" ~> ~R!Held(o)

=============================================================================
