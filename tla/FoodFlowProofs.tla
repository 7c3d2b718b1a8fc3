--------------------------- MODULE FoodFlowProofs ---------------------------
(***************************************************************************)
(* The saga keeps its promises for any orders, menu, seed, requests and    *)
(* number of failures.  The services are taken at their word: what is      *)
(* proved of OrderService, RestaurantService and PaymentService for every  *)
(* delivery holds of them here, where the other services and the broker    *)
(* decide what is delivered.                                               *)
(***************************************************************************)
EXTENDS FoodFlow, EventLemmas, FiniteSetTheorems

NoOne == CHOOSE a : a \notin Order

\* No two calls of POST /orders overlap in FoodFlow: OrderApi without calls.
OS == INSTANCE OrderApiProofs WITH
         Delivery <- Event, processed <- orderProcessed, outbox <- orderOutbox,
         Call <- {}, NoAnswer <- NoOne, EmptyKey <- NoKey,
         asked <- <<>>, phase <- <<>>, answer <- <<>>
RS == INSTANCE RestaurantServiceProofs WITH
         Delivery <- Event, processed <- restaurantProcessed, outbox <- restaurantOutbox
PS == INSTANCE PaymentServiceProofs WITH
         Delivery <- {e \in Event : e.type = "stock.reserved"},
         processed <- paymentProcessed, outbox <- paymentOutbox

-----------------------------------------------------------------------------
(* The inductive invariant *)

\* The outbox that fills a topic.
Writer(type) ==
    IF type \in OrderEvents THEN orderOutbox
    ELSE IF type \in RestaurantEvents THEN restaurantOutbox
    ELSE paymentOutbox

BrokerTypeOK ==
    /\ log \in [EventType -> Seq(Event)]
    /\ position \in [EventType -> Nat] /\ committed \in [EventType -> Nat]
    /\ \A t \in EventType : committed[t] <= position[t] /\ position[t] <= Len(log[t])

RelaysTypeOK ==
    /\ orderPublished \subseteq DOMAIN orderOutbox
    /\ restaurantPublished \subseteq DOMAIN restaurantOutbox
    /\ paymentPublished \subseteq DOMAIN paymentOutbox

\* A service writes the events that are its own, and only what it wrote is in
\* a topic.
RowsAreOwn ==
    /\ \A i \in DOMAIN orderOutbox : orderOutbox[i].type \in OrderEvents
    /\ \A i \in DOMAIN restaurantOutbox : restaurantOutbox[i].type \in RestaurantEvents
    /\ \A i \in DOMAIN paymentOutbox : paymentOutbox[i].type \in PaymentEvents

TopicsAreWritten ==
    \A t \in EventType : \A k \in DOMAIN log[t] :
        /\ log[t][k].type = t
        /\ \E i \in DOMAIN Writer(t) : Writer(t)[i] = log[t][k]

\* A verdict answers the placement of its order, which is in the ledger from
\* then on; a reservation repeats it.
VerdictsAnswer ==
    \A j \in DOMAIN restaurantOutbox :
        \E i \in Rows(orderOutbox, "order.placed", restaurantOutbox[j].payload.order) :
            /\ orderOutbox[i].id \in restaurantProcessed
            /\ restaurantOutbox[j].type = "stock.reserved" =>
                  restaurantOutbox[j].payload = orderOutbox[i].payload

VerdictOnce ==
    \A i, j \in DOMAIN restaurantOutbox :
        restaurantOutbox[i].payload.order = restaurantOutbox[j].payload.order => i = j

\* Stock that was set aside is there, or the order has failed.
ReservationStays ==
    \A o \in Order :
        Said(restaurantOutbox, "stock.reserved", o) =>
            R!Held(o) \/ orders[o].status = "PAYMENT_FAILED"

\* A payment has the directive of a reservation.
PaymentsAreReserved ==
    \A o \in Order : payments[o] # P!NoPayment =>
        \E j \in Rows(restaurantOutbox, "stock.reserved", o) :
            restaurantOutbox[j].payload.simulate = payments[o].simulate

\* What an order is told, another service has decided.
StatusIsEarned ==
    \A o \in Order :
        /\ orders[o].status = "CONFIRMED" => payments[o].status = "SUCCEEDED"
        /\ orders[o].status = "PAYMENT_FAILED" => payments[o].status = "FAILED"
        /\ orders[o].status = "STOCK_UNAVAILABLE" => Said(restaurantOutbox, "stock.rejected", o)

ServicesInv == OS!IInv /\ RS!IInv /\ PS!IInv

FlowInv ==
    /\ ServicesInv
    /\ BrokerTypeOK /\ RelaysTypeOK
    /\ RowsAreOwn /\ TopicsAreWritten
    /\ VerdictsAnswer /\ VerdictOnce
    /\ ReservationStays /\ PaymentsAreReserved /\ StatusIsEarned

-----------------------------------------------------------------------------
(* The services in the composition *)

\* Every instance of Events speaks of the same events.
LEMMA SameEvents ==
    /\ OS!Event = Event /\ RS!Event = Event /\ PS!Event = Event
    /\ O!Event = Event /\ R!Event = Event /\ P!Event = Event
  <1>1. OS!Event = Event
    BY DEF OS!Event, Event, OS!EventId, EventId, OS!FullTypes, FullTypes, OS!FullPayload,
       FullPayload, OS!BarePayload, BarePayload, OS!EventType, EventType, OS!OrderEvents,
       OrderEvents, OS!RestaurantEvents, RestaurantEvents, OS!PaymentEvents, PaymentEvents,
       OS!Basket, Basket, OS!Directive, Directive
  <1>2. RS!Event = Event
    BY DEF RS!Event, Event, RS!EventId, EventId, RS!FullTypes, FullTypes, RS!FullPayload,
       FullPayload, RS!BarePayload, BarePayload, RS!EventType, EventType, RS!OrderEvents,
       OrderEvents, RS!RestaurantEvents, RestaurantEvents, RS!PaymentEvents, PaymentEvents,
       RS!Basket, Basket, RS!Directive, Directive
  <1>3. PS!Event = Event
    BY DEF PS!Event, Event, PS!EventId, EventId, PS!FullTypes, FullTypes, PS!FullPayload,
       FullPayload, PS!BarePayload, BarePayload, PS!EventType, EventType, PS!OrderEvents,
       OrderEvents, PS!RestaurantEvents, RestaurantEvents, PS!PaymentEvents, PaymentEvents,
       PS!Basket, Basket, PS!Directive, Directive
  <1>4. O!Event = Event
    BY DEF O!Event, Event, O!EventId, EventId, O!FullTypes, FullTypes, O!FullPayload,
       FullPayload, O!BarePayload, BarePayload, O!EventType, EventType, O!OrderEvents,
       OrderEvents, O!RestaurantEvents, RestaurantEvents, O!PaymentEvents, PaymentEvents,
       O!Basket, Basket, O!Directive, Directive
  <1>5. R!Event = Event
    BY DEF R!Event, Event, R!EventId, EventId, R!FullTypes, FullTypes, R!FullPayload,
       FullPayload, R!BarePayload, BarePayload, R!EventType, EventType, R!OrderEvents,
       OrderEvents, R!RestaurantEvents, RestaurantEvents, R!PaymentEvents, PaymentEvents,
       R!Basket, Basket, R!Directive, Directive
  <1>6. P!Event = Event
    BY DEF P!Event, Event, P!EventId, EventId, P!FullTypes, FullTypes, P!FullPayload,
       FullPayload, P!BarePayload, BarePayload, P!EventType, EventType, P!OrderEvents,
       OrderEvents, P!RestaurantEvents, RestaurantEvents, P!PaymentEvents, PaymentEvents,
       P!Basket, Basket, P!Directive, Directive
  <1>. QED
    BY <1>1, <1>2, <1>3, <1>4, <1>5, <1>6

\* The assumptions of the three services hold here.
LEMMA Assumptions ==
    /\ OS!OrderApiAssumption /\ OS!DeliveryAssumption /\ OS!RequestAssumption
    /\ RS!DeliveryAssumption /\ RS!StockAssumption /\ RS!RequestAssumption
    /\ PS!DeliveryAssumption /\ PS!DefaultAssumption /\ PS!RequestAssumption
    /\ OS!OrderAssumption /\ RS!OrderAssumption /\ PS!OrderAssumption
  <1>1. OS!OrderApiAssumption
    BY NoSetContainsEverything DEF NoOne, OS!OrderApiAssumption
  <1>2. OS!RequestAssumption /\ RS!RequestAssumption /\ PS!RequestAssumption
    BY RequestAssumption DEF OS!RequestAssumption, RS!RequestAssumption, PS!RequestAssumption,
       OS!Basket, RS!Basket, PS!Basket, Basket, OS!Directive, RS!Directive, PS!Directive, Directive
  <1>3. OS!DeliveryAssumption /\ RS!DeliveryAssumption /\ PS!DeliveryAssumption
    BY SameEvents DEF OS!DeliveryAssumption, RS!DeliveryAssumption, PS!DeliveryAssumption
  <1>4. RS!StockAssumption /\ PS!DefaultAssumption
    BY FoodFlowAssumption DEF RS!StockAssumption, PS!DefaultAssumption
  <1>5. OS!OrderAssumption /\ RS!OrderAssumption /\ PS!OrderAssumption
    BY OrderAssumption DEF OS!OrderAssumption, RS!OrderAssumption, PS!OrderAssumption,
       OS!IsFiniteSet, RS!IsFiniteSet, PS!IsFiniteSet, IsFiniteSet
  <1>. QED
    BY <1>1, <1>2, <1>3, <1>4, <1>5

\* The initial states of the services, and their steps, are those that their
\* own proofs are about.
LEMMA ServicesInitially == Init => ServicesInv
  <1>. SUFFICES ASSUME Init PROVE ServicesInv
    OBVIOUS
  <1>1. OS!Init
    BY DEF Init, O!Init, OS!Init, O!NoOrder, OS!NoOrder
  <1>2. RS!Init
    BY DEF Init, R!Init, RS!Init, R!NoReservation, RS!NoReservation
  <1>3. PS!Init
    BY DEF Init, P!Init, PS!Init, P!NoPayment, PS!NoPayment
  <1>. QED
    BY <1>1, <1>2, <1>3, Assumptions, OS!InitIInv, RS!InitIInv, PS!InitIInv DEF ServicesInv

\* POST /orders is a step of the order service as OrderApiProofs knows it.
LEMMA OrderCreates ==
    ASSUME NEW o \in Order, NEW r \in Request, O!CreateOrder(o, r)
    PROVE  OS!Next
  <1>1. OS!CreateOrder(o, r)
    BY DEF O!CreateOrder, OS!CreateOrder, O!NoOrder, OS!NoOrder, O!KeyFree, OS!KeyFree,
       O!Emit, OS!Emit, O!WrapEvent, OS!WrapEvent, O!Placement, OS!Placement
  <1>. QED
    BY <1>1 DEF OS!Next

\* So is the handling of any event by its consumer.
LEMMA OrderHandles ==
    ASSUME NEW e \in Event, O!Handle(e)
    PROVE  OS!Next
  <1>1. OS!Handle(e)
    BY DEF O!Handle, OS!Handle, O!PaymentSucceeded, OS!PaymentSucceeded, O!PaymentFailed,
       OS!PaymentFailed, O!StockRejected, OS!StockRejected, O!Duplicate, OS!Duplicate,
       O!Refused, OS!Refused, O!UnknownType, OS!UnknownType, O!MarkProcessed,
       OS!MarkProcessed, O!Transition, OS!Transition, O!CanTransition, OS!CanTransition,
       O!vars, OS!vars, O!TargetStatus, OS!TargetStatus, O!AllowedTransitions,
       OS!AllowedTransitions, O!Status, OS!Status, O!NoOrder, OS!NoOrder, O!Emit, OS!Emit,
       O!WrapEvent, OS!WrapEvent, O!Bare, OS!Bare
  <1>. QED
    BY <1>1 DEF OS!Next

\* The handling of an event by the restaurant is one of RestaurantService.
LEMMA RestaurantHandles ==
    ASSUME NEW e \in Event, R!Handle(e)
    PROVE  RS!Next
  <1>1. RS!Handle(e)
    BY DEF R!Handle, RS!Handle, R!PlacedReserved, RS!PlacedReserved, R!PlacedRejected,
       RS!PlacedRejected, R!PlacedAgain, RS!PlacedAgain, R!ReleaseOrdered, RS!ReleaseOrdered,
       R!Duplicate, RS!Duplicate, R!UnknownType, RS!UnknownType, R!MarkProcessed,
       RS!MarkProcessed, R!Reserve, RS!Reserve, R!Release, RS!Release, R!Sufficient,
       RS!Sufficient, R!Held, RS!Held, R!NoReservation, RS!NoReservation, R!vars, RS!vars,
       R!Emit, RS!Emit, R!WrapEvent, RS!WrapEvent, R!Bare, RS!Bare
  <1>. QED
    BY <1>1 DEF RS!Next

\* Transaction 1 of the payment consumer is one of PaymentService.
LEMMA PaymentHandles ==
    ASSUME NEW e \in Event, e.type = "stock.reserved", P!Handle(e)
    PROVE  PS!Next /\ PS!Undisturbed
  <1>1. PS!Handle(e)
    BY DEF P!Handle, PS!Handle, P!RecordIntent, PS!RecordIntent, P!SkipIntent, PS!SkipIntent,
       P!ConsumerIdle, PS!ConsumerIdle, P!NoPayment, PS!NoPayment, P!vars, PS!vars,
       P!reconciler, PS!reconciler
  <1>. QED
    BY <1>1 DEF PS!Next, PS!Undisturbed

\* What the payment service does of its own accord.
PaymentActs ==
    \/ P!Consume \/ P!Reconcile \/ P!Lose
    \/ \E o \in Order : P!Age(o)

\* Whatever the two payment tasks do, and their death, is in PaymentService too.
LEMMA PaymentTasks ==
    ASSUME PaymentActs
    PROVE  /\ PS!Next
           /\ P!Consume \/ P!Reconcile \/ P!AbandonCall \/ (\E o \in Order : P!Age(o))
                 => PS!Undisturbed
           /\ P!AbandonSweep => PS!AbandonSweep
           /\ P!Restart => PS!Restart
  <1>1. \A o, d : P!Settle(o, d) <=> PS!Settle(o, d)
    BY DEF P!Settle, PS!Settle, P!Outcome, PS!Outcome, P!OutcomeTopic, PS!OutcomeTopic,
       P!Emit, PS!Emit, P!WrapEvent, PS!WrapEvent, P!Bare, PS!Bare
  <1>2. P!Consume => PS!Consume
    BY <1>1 DEF P!Consume, PS!Consume, P!CallGateway, PS!CallGateway, P!RecordOutcome,
       PS!RecordOutcome, P!Charge, PS!Charge, P!tables, PS!tables, P!reconciler, PS!reconciler
  <1>3. P!Reconcile => PS!Reconcile
    BY <1>1 DEF P!Reconcile, PS!Reconcile, P!FetchStuck, PS!FetchStuck, P!AskGateway,
       PS!AskGateway, P!Resolve, PS!Resolve, P!ReconcilerIdle, PS!ReconcilerIdle,
       P!Charge, PS!Charge, P!tables, PS!tables, P!consumer, PS!consumer
  <1>4. /\ P!AbandonCall => PS!AbandonCall
        /\ P!AbandonSweep => PS!AbandonSweep
        /\ P!Restart => PS!Restart
    BY DEF P!AbandonCall, PS!AbandonCall, P!AbandonSweep, PS!AbandonSweep,
       P!Restart, PS!Restart, P!ConsumerIdle, PS!ConsumerIdle, P!ReconcilerIdle,
       PS!ReconcilerIdle, P!tables, PS!tables, P!consumer, PS!consumer, P!reconciler,
       PS!reconciler
  <1>5. \A o \in Order : P!Age(o) => PS!Age(o)
    BY DEF P!Age, PS!Age, P!consumer, PS!consumer, P!reconciler, PS!reconciler
  <1>. QED
    BY <1>2, <1>3, <1>4, <1>5 DEF PaymentActs, P!Lose, PS!Lose, PS!Next, PS!Undisturbed

\* No step of the composition breaks what a service promises.
LEMMA ServicesStep ==
    ASSUME ServicesInv, [OS!Next]_(OS!vars), [RS!Next]_(RS!vars), [PS!Next]_(PS!vars)
    PROVE  ServicesInv'
  BY Assumptions, OS!StepIInv, RS!StepIInv, PS!StepIInv DEF ServicesInv

-----------------------------------------------------------------------------
(* What the invariants of the services say of the tables *)

\* What is proved of order_db alone, at the names it has here.
LEMMA OrderFacts ==
    ASSUME OS!IInv
    PROVE  /\ orderOutbox \in Seq(Event)
           /\ orders \in [Order -> O!OrderRow \cup {O!NoOrder}]
           /\ \A o \in Order :
                 /\ Placed(o) <=> orders[o].status # "ABSENT"
                 /\ Placed(o) => orders[o] \in O!OrderRow
                 /\ Said(orderOutbox, "stock.release", o) <=> orders[o].status = "PAYMENT_FAILED"
                 /\ ~Placed(o) => Rows(orderOutbox, "order.placed", o) = {}
                 /\ Placed(o) => \E i \in DOMAIN orderOutbox :
                       /\ Rows(orderOutbox, "order.placed", o) = {i}
                       /\ orderOutbox[i].payload = Placement(o, orders[o].request)
  <1>1. OS!TypeOK /\ OS!CompensationIffFailed /\ OS!AnnouncedIffCreated
    BY DEF OS!IInv
  <1>2. OS!NoOrder = O!NoOrder /\ OS!OrderRow = O!OrderRow
    BY DEF OS!NoOrder, O!NoOrder, OS!OrderRow, O!OrderRow, OS!Status, O!Status
  <1>3. orderOutbox \in Seq(Event) /\ orders \in [Order -> O!OrderRow \cup {O!NoOrder}]
    BY <1>1, <1>2, SameEvents DEF OS!TypeOK
  <1>4. ASSUME NEW o \in Order
        PROVE  /\ Placed(o) <=> orders[o].status # "ABSENT"
               /\ Placed(o) => orders[o] \in O!OrderRow
    BY <1>3 DEF Placed, O!OrderRow, O!NoOrder, O!Status
  <1>5. ASSUME NEW o \in Order
        PROVE  Said(orderOutbox, "stock.release", o) <=> orders[o].status = "PAYMENT_FAILED"
    BY <1>1 DEF OS!CompensationIffFailed, OS!Said, OS!Rows, Said, Rows
  <1>6. ASSUME NEW o \in Order
        PROVE  /\ ~Placed(o) => Rows(orderOutbox, "order.placed", o) = {}
               /\ Placed(o) => \E i \in DOMAIN orderOutbox :
                     /\ Rows(orderOutbox, "order.placed", o) = {i}
                     /\ orderOutbox[i].payload = Placement(o, orders[o].request)
    BY <1>1, <1>2 DEF OS!AnnouncedIffCreated, OS!Rows, Rows, OS!Placement, Placement, Placed
  <1>. QED
    BY <1>3, <1>4, <1>5, <1>6

\* What is proved of restaurant_db alone.
LEMMA RestaurantFacts ==
    ASSUME RS!IInv
    PROVE  /\ restaurantOutbox \in Seq(Event)
           /\ stock \in [Item -> Nat]
           /\ reservations \in [Order -> R!ReservationRow \cup {R!NoReservation}]
           /\ \A o \in Order :
                 /\ R!Held(o) \in BOOLEAN
                 /\ ~R!Held(o) => reservations[o] = R!NoReservation
                 /\ R!Held(o) =>
                       \E i \in Rows(restaurantOutbox, "stock.reserved", o) :
                           restaurantOutbox[i].payload.items = reservations[o].items
  <1>1. RS!TypeOK /\ RS!HeldIsAnnounced
    BY DEF RS!IInv
  <1>2. RS!NoReservation = R!NoReservation /\ RS!ReservationRow = R!ReservationRow
    BY DEF RS!NoReservation, R!NoReservation, RS!ReservationRow, R!ReservationRow, RS!Basket,
       R!Basket
  <1>3. /\ restaurantOutbox \in Seq(Event) /\ stock \in [Item -> Nat]
        /\ reservations \in [Order -> R!ReservationRow \cup {R!NoReservation}]
    BY <1>1, <1>2, SameEvents DEF RS!TypeOK
  <1>4. ASSUME NEW o \in Order
        PROVE  R!Held(o) \in BOOLEAN /\ (~R!Held(o) => reservations[o] = R!NoReservation)
    <2>1. CASE reservations[o] \in R!ReservationRow
      BY <2>1 DEF R!Held, R!ReservationRow
    <2>2. CASE reservations[o] = R!NoReservation
      BY <2>2 DEF R!Held, R!NoReservation
    <2>. QED
      BY <1>3, <2>1, <2>2
  <1>5. ASSUME NEW o \in Order, R!Held(o)
        PROVE  \E i \in Rows(restaurantOutbox, "stock.reserved", o) :
                   restaurantOutbox[i].payload.items = reservations[o].items
    BY <1>1, <1>5 DEF RS!HeldIsAnnounced, RS!Held, R!Held, RS!Rows, Rows
  <1>. QED
    BY <1>3, <1>4, <1>5

\* What is proved of payment_db alone.
LEMMA PaymentFacts ==
    ASSUME PS!IInv
    PROVE  /\ paymentOutbox \in Seq(Event)
           /\ payments \in [Order -> P!PaymentRow \cup {P!NoPayment}]
           /\ \A o \in Order :
                 /\ payments[o] # P!NoPayment <=> payments[o].status # "ABSENT"
                 /\ payments[o] # P!NoPayment => payments[o] \in P!PaymentRow
                 /\ payments[o].status \in {"SUCCEEDED", "FAILED"} =>
                       payments[o].status = P!Outcome(payments[o].simulate)
                 /\ Said(paymentOutbox, "payment.succeeded", o) <=> payments[o].status = "SUCCEEDED"
                 /\ Said(paymentOutbox, "payment.failed", o) <=> payments[o].status = "FAILED"
                 /\ charges[o] \in Nat
                 /\ charges[o] > 0 => payments[o] # P!NoPayment
           /\ \A o \in calling \cup answered \cup stuck \cup resolving \cup stale :
                 o \in Order /\ payments[o] # P!NoPayment
           /\ \A o \in calling \cup answered : directive = payments[o].simulate
  <1>1. /\ PS!TypeOK /\ PS!DirectiveDecides /\ PS!DirectiveInHand
        /\ PS!TasksHaveIntents /\ PS!OutcomesAgree /\ PS!NoChargeWithoutIntent
    BY DEF PS!IInv
  <1>2. PS!NoPayment = P!NoPayment /\ PS!PaymentRow = P!PaymentRow
    BY DEF PS!NoPayment, P!NoPayment, PS!PaymentRow, P!PaymentRow, PS!Directive, P!Directive
  <1>3. /\ paymentOutbox \in Seq(Event) /\ charges \in [Order -> Nat]
        /\ payments \in [Order -> P!PaymentRow \cup {P!NoPayment}]
    BY <1>1, <1>2, SameEvents DEF PS!TypeOK
  <1>4. \A o \in calling \cup answered \cup stuck \cup resolving \cup stale :
            o \in Order /\ payments[o] # P!NoPayment
    BY <1>1, <1>2 DEF PS!TypeOK, PS!TasksHaveIntents
  <1>5. ASSUME NEW o \in Order
        PROVE  /\ payments[o] # P!NoPayment <=> payments[o].status # "ABSENT"
               /\ payments[o] # P!NoPayment => payments[o] \in P!PaymentRow
    BY <1>3 DEF P!PaymentRow, P!NoPayment
  <1>6. ASSUME NEW o \in Order
        PROVE  payments[o].status \in {"SUCCEEDED", "FAILED"} =>
                  payments[o].status = P!Outcome(payments[o].simulate)
    BY <1>1 DEF PS!DirectiveDecides, PS!Outcome, P!Outcome
  <1>7. ASSUME NEW o \in Order
        PROVE  /\ Said(paymentOutbox, "payment.succeeded", o) <=> payments[o].status = "SUCCEEDED"
               /\ Said(paymentOutbox, "payment.failed", o) <=> payments[o].status = "FAILED"
    BY <1>1 DEF PS!OutcomesAgree, PS!Said, PS!Rows, Said, Rows
  <1>8. ASSUME NEW o \in Order
        PROVE  charges[o] \in Nat /\ (charges[o] > 0 => payments[o] # P!NoPayment)
    BY <1>1, <1>2, <1>3 DEF PS!NoChargeWithoutIntent
  <1>9. \A o \in calling \cup answered : directive = payments[o].simulate
    BY <1>1 DEF PS!DirectiveInHand
  <1>. QED
    BY <1>3, <1>4, <1>5, <1>6, <1>7, <1>8, <1>9

-----------------------------------------------------------------------------
(* What a step does *)

\* An outbox with one more row.
LEMMA EmitEffect ==
    ASSUME NEW seq \in Seq(Event), NEW type, NEW payload, WrapEvent(type, payload, seq) \in Event,
           NEW new, new = Emit(seq, type, payload)
    PROVE  /\ new \in Seq(Event)
           /\ \A i \in DOMAIN seq : i \in DOMAIN new /\ new[i] = seq[i]
           /\ \A i \in DOMAIN new :
                 i \in DOMAIN seq \/ (new[i].type = type /\ new[i].payload = payload)
           /\ \E i \in DOMAIN new : new[i].type = type /\ new[i].payload = payload
           /\ \A i, j \in DOMAIN new : i \notin DOMAIN seq /\ j \notin DOMAIN seq => i = j
  <1>. DEFINE e == WrapEvent(type, payload, seq)
  <1>1. e.type = type /\ e.payload = payload
    BY DEF WrapEvent
  <1>2. Len(seq) \in Nat
    OBVIOUS
  <1>. HIDE DEF e
  <1>3. new = Append(seq, e)
    BY DEF Emit, e
  <1>4. 1..(Len(seq) + 1) = 1..Len(seq) \cup {Len(seq) + 1}
    BY <1>2
  <1>5. e \in Event
    BY DEF e
  <1>. QED
    BY <1>1, <1>3, <1>4, <1>5, AppendRow

\* _handle_message of the order service settles one pending order, or changes
\* nothing but the ledger.
LEMMA OrderHandleEffect ==
    ASSUME NEW e \in Event, e.type \in K!OrderTopics, O!Handle(e)
    PROVE  \/ UNCHANGED <<orders, orderOutbox>>
           \/ /\ Placed(e.payload.order) /\ orders[e.payload.order].status = "PENDING"
              /\ orders' = [orders EXCEPT ![e.payload.order].status = O!TargetStatus(e.type)]
              /\ orderOutbox' = IF e.type = "payment.failed"
                                THEN Emit(orderOutbox, "stock.release", Bare(e.payload.order))
                                ELSE orderOutbox
  <1>. DEFINE o == e.payload.order
  <1>1. ASSUME NEW status, O!Transition(o, status)
        PROVE  /\ Placed(o) /\ orders[o].status = "PENDING"
               /\ orders' = [orders EXCEPT ![o].status = status]
    <2>1. /\ Placed(o) /\ status \in O!AllowedTransitions(orders[o].status)
          /\ orders' = [orders EXCEPT ![o].status = status]
      BY <1>1 DEF O!Transition, O!CanTransition, Placed
    <2>. QED
      BY <2>1 DEF O!AllowedTransitions
  <1>2. CASE O!PaymentSucceeded(e)
    <2>1. O!Transition(o, "CONFIRMED") /\ orderOutbox' = orderOutbox /\ e.type = "payment.succeeded"
      BY <1>2 DEF O!PaymentSucceeded
    <2>. QED
      BY <1>1, <2>1 DEF O!TargetStatus
  <1>3. CASE O!PaymentFailed(e)
    <2>1. /\ O!Transition(o, "PAYMENT_FAILED") /\ e.type = "payment.failed"
          /\ orderOutbox' = Emit(orderOutbox, "stock.release", Bare(o))
      BY <1>3 DEF O!PaymentFailed, O!Emit, Emit, O!WrapEvent, WrapEvent, O!Bare, Bare
    <2>. QED
      BY <1>1, <2>1 DEF O!TargetStatus
  <1>4. CASE O!StockRejected(e)
    <2>1. /\ O!Transition(o, "STOCK_UNAVAILABLE") /\ orderOutbox' = orderOutbox
          /\ e.type = "stock.rejected"
      BY <1>4 DEF O!StockRejected
    <2>. QED
      BY <1>1, <2>1 DEF O!TargetStatus
  <1>5. CASE O!Duplicate(e) \/ O!Refused(e) \/ O!UnknownType(e)
    BY <1>5 DEF O!Duplicate, O!Refused, O!UnknownType, O!vars
  <1>. QED
    BY <1>2, <1>3, <1>4, <1>5 DEF O!Handle

\* _handle_message of the restaurant reserves, rejects, releases, or changes
\* nothing but the ledger.
LEMMA RestaurantHandleEffect ==
    ASSUME NEW e \in Event, R!Handle(e)
    PROVE  \/ UNCHANGED restaurantDb
           \/ /\ e.type \in {"order.placed", "stock.release"}
              /\ e.id \notin restaurantProcessed
              /\ restaurantProcessed' = restaurantProcessed \cup {e.id}
              /\ \/ /\ e.type = "order.placed"
                    /\ R!Reserve(e.payload.order, e.payload.items)
                    /\ restaurantOutbox' = Emit(restaurantOutbox, "stock.reserved", e.payload)
                 \/ /\ e.type = "order.placed"
                    /\ ~R!Sufficient(e.payload.items)
                    /\ restaurantOutbox' =
                          Emit(restaurantOutbox, "stock.rejected", Bare(e.payload.order))
                    /\ UNCHANGED <<stock, reservations>>
                 \/ /\ e.type = "stock.release"
                    /\ R!Release(e.payload.order)
                    /\ restaurantOutbox' = restaurantOutbox
  BY DEF R!Handle, R!PlacedReserved, R!PlacedRejected, R!PlacedAgain, R!ReleaseOrdered,
     R!Duplicate, R!UnknownType, R!MarkProcessed, R!vars, restaurantDb, R!Emit, Emit,
     R!WrapEvent, WrapEvent, R!Bare, Bare

\* The payment consumer's Transaction 1 writes one new row or none.
LEMMA PaymentHandleEffect ==
    ASSUME NEW e \in Event, P!Handle(e)
    PROVE  \/ UNCHANGED paymentState
           \/ /\ payments[e.payload.order] = P!NoPayment
              /\ payments' = [payments EXCEPT ![e.payload.order] =
                                 [status |-> "PROCESSING", simulate |-> e.payload.simulate]]
              /\ paymentOutbox' = paymentOutbox
  BY DEF P!Handle, P!RecordIntent, P!SkipIntent, P!vars, paymentState

\* What consumer and reconciler do next settles one payment that has a row, or
\* leaves the tables alone.
LEMMA PaymentTasksEffect ==
    ASSUME PS!IInv, PaymentActs
    PROVE  \/ UNCHANGED <<payments, paymentOutbox>>
           \/ \E o \in Order :
                 LET status == P!Outcome(payments[o].simulate) IN
                 /\ payments[o] # P!NoPayment
                 /\ payments' = [payments EXCEPT ![o].status = status]
                 /\ paymentOutbox' = Emit(paymentOutbox, P!OutcomeTopic(status), Bare(o))
  <1>1. ASSUME NEW o \in Order, P!Settle(o, payments[o].simulate)
        PROVE  LET status == P!Outcome(payments[o].simulate) IN
                 /\ payments' = [payments EXCEPT ![o].status = status]
                 /\ paymentOutbox' = Emit(paymentOutbox, P!OutcomeTopic(status), Bare(o))
    BY <1>1 DEF P!Settle, P!Emit, Emit, P!WrapEvent, WrapEvent, P!Bare, Bare
  <1>2. CASE P!Consume
    <2>1. PICK o \in Order : P!CallGateway(o) \/ P!RecordOutcome(o)
      BY <1>2 DEF P!Consume
    <2>2. CASE P!CallGateway(o)
      BY <2>2 DEF P!CallGateway, P!tables
    <2>3. CASE P!RecordOutcome(o)
      <3>1. o \in answered /\ P!Settle(o, payments[o].simulate)
        BY <2>3, PaymentFacts DEF P!RecordOutcome
      <3>2. payments[o] # P!NoPayment
        BY <3>1, PaymentFacts
      <3>. QED
        BY <1>1, <3>1, <3>2
    <2>. QED
      BY <2>1, <2>2, <2>3
  <1>3. CASE P!Reconcile
    <2>1. CASE P!FetchStuck
      BY <2>1 DEF P!FetchStuck, P!tables
    <2>2. ASSUME NEW o \in Order, P!AskGateway(o)
          PROVE  UNCHANGED <<payments, paymentOutbox>>
      BY <2>2 DEF P!AskGateway, P!tables
    <2>3. ASSUME NEW o \in Order, P!Resolve(o), ~UNCHANGED <<payments, paymentOutbox>>
          PROVE  P!Settle(o, payments[o].simulate) /\ payments[o] # P!NoPayment
      <3>1. o \in resolving /\ (P!Settle(o, payments[o].simulate) \/ UNCHANGED P!tables)
        BY <2>3 DEF P!Resolve
      <3>2. payments[o] # P!NoPayment
        BY <3>1, PaymentFacts
      <3>. QED
        BY <2>3, <3>1, <3>2 DEF P!tables
    <2>. QED
      BY <1>1, <1>3, <2>1, <2>2, <2>3 DEF P!Reconcile
  <1>4. CASE P!Lose \/ \E o \in Order : P!Age(o)
    BY <1>4 DEF P!Lose, P!AbandonCall, P!AbandonSweep, P!Restart, P!Age, P!tables
  <1>. QED
    BY <1>2, <1>3, <1>4 DEF PaymentActs

-----------------------------------------------------------------------------
(* The topics *)

\* Each topic belongs to one service.
LEMMA TopicTypes ==
    /\ K!OrderTopics = {"payment.succeeded", "payment.failed", "stock.rejected"}
    /\ K!RestaurantTopics = {"order.placed", "stock.release"}
    /\ K!PaymentTopics = {"stock.reserved"}
    /\ OrderEvents = {"order.placed", "stock.release"}
    /\ RestaurantEvents = {"stock.reserved", "stock.rejected"}
    /\ PaymentEvents = {"payment.succeeded", "payment.failed"}
    /\ EventType = OrderEvents \cup RestaurantEvents \cup PaymentEvents
    /\ FullTypes = {"order.placed", "stock.reserved"}
    /\ K!OrderTopics \cup K!RestaurantTopics \cup K!PaymentTopics = EventType
  BY DEF K!OrderTopics, K!RestaurantTopics, K!PaymentTopics, K!PaymentEvents, K!OrderEvents,
     OrderEvents, RestaurantEvents, PaymentEvents, EventType, FullTypes

\* A message that is next was written by the service whose topic it is in.
LEMMA NextIsWritten ==
    ASSUME BrokerTypeOK, TopicsAreWritten, NEW t \in EventType, K!HasNext(t)
    PROVE  /\ K!NextEvent(t) \in Event /\ K!NextEvent(t).type = t
           /\ K!NextEvent(t).payload.order \in Order
           /\ \E i \in DOMAIN Writer(t) : Writer(t)[i] = K!NextEvent(t)
  <1>1. log[t] \in Seq(Event) /\ position[t] \in Nat /\ position[t] < Len(log[t])
    BY DEF BrokerTypeOK, K!HasNext
  <1>2. position[t] + 1 \in DOMAIN log[t]
    BY <1>1
  <1>3. K!NextEvent(t) = log[t][position[t] + 1]
    BY DEF K!NextEvent
  <1>4. K!NextEvent(t) \in Event
    BY <1>1, <1>2, <1>3
  <1>. QED
    BY <1>2, <1>3, <1>4, EventParts DEF TopicsAreWritten

\* Positions and offsets move within the topics.
CursorsMove ==
    \/ \E t \in EventType : K!Advance(t)
    \/ \E topics : K!Commit(topics) \/ K!Rejoin(topics)

\* Consumers that move within their topics leave the broker well formed.
LEMMA CursorsKeepBroker ==
    ASSUME BrokerTypeOK, CursorsMove
    PROVE  BrokerTypeOK' /\ log' = log
  <1>1. \A t \in EventType : position[t] \in Nat /\ committed[t] \in Nat /\ Len(log[t]) \in Nat
    BY DEF BrokerTypeOK
  <1>2. ASSUME NEW t \in EventType, K!Advance(t)
        PROVE  BrokerTypeOK' /\ log' = log
    <2>1. /\ position[t] < Len(log[t]) /\ log' = log /\ committed' = committed
          /\ position' = [position EXCEPT ![t] = @ + 1]
      BY <1>2 DEF K!Advance, K!HasNext
    <2>2. \A u \in EventType : position'[u] = IF u = t THEN position[u] + 1 ELSE position[u]
      BY <2>1 DEF BrokerTypeOK
    <2>3. position' \in [EventType -> Nat]
      BY <1>1, <2>1 DEF BrokerTypeOK
    <2>4. \A u \in EventType : committed[u] <= position'[u] /\ position'[u] <= Len(log[u])
      BY <1>1, <2>1, <2>2 DEF BrokerTypeOK
    <2>. QED
      BY <2>1, <2>3, <2>4 DEF BrokerTypeOK
  <1>3. ASSUME NEW topics, K!Commit(topics)
        PROVE  BrokerTypeOK' /\ log' = log
    <2>1. /\ log' = log /\ position' = position
          /\ committed' = [t \in EventType |-> IF t \in topics THEN position[t] ELSE committed[t]]
      BY <1>3 DEF K!Commit, K!EventType, EventType, K!OrderEvents, OrderEvents,
         K!RestaurantEvents, RestaurantEvents, K!PaymentEvents, PaymentEvents
    <2>. QED
      BY <1>1, <2>1 DEF BrokerTypeOK
  <1>4. ASSUME NEW topics, K!Rejoin(topics)
        PROVE  BrokerTypeOK' /\ log' = log
    <2>1. /\ log' = log /\ committed' = committed
          /\ position' = [t \in EventType |-> IF t \in topics THEN committed[t] ELSE position[t]]
      BY <1>4 DEF K!Rejoin, K!EventType, EventType, K!OrderEvents, OrderEvents,
         K!RestaurantEvents, RestaurantEvents, K!PaymentEvents, PaymentEvents
    <2>2. \A t \in EventType : committed[t] <= Len(log[t])
      BY <1>1 DEF BrokerTypeOK
    <2>. QED
      BY <1>1, <2>1, <2>2 DEF BrokerTypeOK
  <1>. QED
    BY <1>2, <1>3, <1>4 DEF CursorsMove

\* A relay sends a row of its own outbox.
LEMMA SendKeepsTopics ==
    ASSUME BrokerTypeOK, TopicsAreWritten, NEW e \in Event,
           \E i \in DOMAIN Writer(e.type) : Writer(e.type)[i] = e,
           log' = [log EXCEPT ![e.type] = Append(@, e)],
           UNCHANGED <<orderOutbox, restaurantOutbox, paymentOutbox, position, committed>>
    PROVE  BrokerTypeOK' /\ TopicsAreWritten'
  <1>1. e.type \in EventType
    BY EventParts
  <1>2. log[e.type] \in Seq(Event)
    BY <1>1 DEF BrokerTypeOK
  <1>3. log' \in [EventType -> Seq(Event)]
    <2>1. Append(log[e.type], e) \in Seq(Event)
      BY <1>2, AppendRow
    <2>. QED
      BY <2>1 DEF BrokerTypeOK
  <1>4. /\ log'[e.type] = Append(log[e.type], e)
        /\ \A t \in EventType : t # e.type => log'[t] = log[t]
    BY <1>1 DEF BrokerTypeOK
  <1>5. /\ \A k \in DOMAIN log'[e.type] : k \in DOMAIN log[e.type] \/ log'[e.type][k] = e
        /\ \A k \in DOMAIN log[e.type] : log'[e.type][k] = log[e.type][k]
        /\ Len(log'[e.type]) = Len(log[e.type]) + 1
    BY <1>2, <1>4
  <1>6. BrokerTypeOK'
    <2>1. \A t \in EventType : position[t] \in Nat /\ Len(log[t]) \in Nat
      BY DEF BrokerTypeOK
    <2>2. \A t \in EventType : position[t] <= Len(log'[t])
      BY <1>1, <1>4, <1>5, <2>1 DEF BrokerTypeOK
    <2>. QED
      BY <1>3, <2>2 DEF BrokerTypeOK
  <1>7. TopicsAreWritten'
    <2>. SUFFICES ASSUME NEW t \in EventType, NEW k \in DOMAIN log'[t]
                  PROVE  /\ log'[t][k].type = t
                         /\ \E i \in DOMAIN Writer(t) : Writer(t)[i] = log'[t][k]
      BY DEF TopicsAreWritten, Writer
    <2>1. CASE t # e.type \/ k \in DOMAIN log[t]
      BY <1>4, <1>5, <2>1 DEF TopicsAreWritten
    <2>2. CASE t = e.type /\ k \notin DOMAIN log[t]
      BY <1>5, <2>2
    <2>. QED
      BY <2>1, <2>2
  <1>. QED
    BY <1>6, <1>7

\* Rows stay in their outboxes.
OutboxesGrow ==
    /\ \A i \in DOMAIN orderOutbox : i \in DOMAIN orderOutbox' /\ orderOutbox'[i] = orderOutbox[i]
    /\ \A i \in DOMAIN restaurantOutbox :
          i \in DOMAIN restaurantOutbox' /\ restaurantOutbox'[i] = restaurantOutbox[i]
    /\ \A i \in DOMAIN paymentOutbox :
          i \in DOMAIN paymentOutbox' /\ paymentOutbox'[i] = paymentOutbox[i]

\* Topics and relays are as good as before when the outboxes only grow.
LEMMA OutboxesKeepTopics ==
    ASSUME TopicsAreWritten, RelaysTypeOK, OutboxesGrow, UNCHANGED <<log, publications>>
    PROVE  TopicsAreWritten' /\ RelaysTypeOK'
  <1>1. RelaysTypeOK'
    BY DEF RelaysTypeOK, OutboxesGrow, publications
  <1>2. ASSUME NEW t \in EventType, NEW i \in DOMAIN Writer(t)
        PROVE  i \in DOMAIN Writer(t)' /\ Writer(t)'[i] = Writer(t)[i]
    BY <1>2 DEF OutboxesGrow, Writer
  <1>3. TopicsAreWritten'
    <2>. SUFFICES ASSUME NEW t \in EventType, NEW k \in DOMAIN log[t]
                  PROVE  /\ log[t][k].type = t
                         /\ \E i \in DOMAIN Writer(t)' : Writer(t)'[i] = log[t][k]
      BY DEF TopicsAreWritten
    <2>. QED
      BY <1>2 DEF TopicsAreWritten
  <1>. QED
    BY <1>1, <1>3

-----------------------------------------------------------------------------
(* One lemma per service: its steps keep the invariant *)

\* Of an order that is not pending nothing changes.
LEMMA OrderConsumesKeeps ==
    ASSUME FlowInv, OrderConsumes
    PROVE  FlowInv'
  <1>1. PICK t \in K!OrderTopics : K!Advance(t) /\ O!Handle(K!NextEvent(t))
    BY DEF OrderConsumes
  <1>. DEFINE e == K!NextEvent(t)
              o == e.payload.order
  <1>2. /\ UNCHANGED <<restaurantDb, paymentState, publications, budget>>
        /\ UNCHANGED <<stock, reservations, restaurantProcessed, restaurantOutbox,
                       payments, stale, paymentProcessed, paymentOutbox, calling, answered,
                       directive, stuck, resolving, charges>>
    BY DEF OrderConsumes, restaurantDb, paymentState
  <1>3. t \in EventType /\ t \in OrderEvents \cup RestaurantEvents \cup PaymentEvents
    BY TopicTypes
  <1>4. /\ e \in Event /\ e.type = t /\ o \in Order
        /\ \E i \in DOMAIN Writer(t) : Writer(t)[i] = e
    BY <1>1, <1>3, NextIsWritten DEF FlowInv, K!Advance
  <1>5. BrokerTypeOK' /\ log' = log
    BY <1>1, <1>3, CursorsKeepBroker DEF FlowInv, CursorsMove
  <1>. HIDE DEF e
  <1>6. O!Handle(e)
    BY <1>1 DEF e
  <1>7. ServicesInv'
    <2>1. OS!Next
      BY <1>4, <1>6, OrderHandles
    <2>2. UNCHANGED RS!vars /\ UNCHANGED PS!vars
      BY <1>2 DEF RS!vars, PS!vars
    <2>. QED
      BY <2>1, <2>2, ServicesStep DEF FlowInv
  <1>8. \/ UNCHANGED <<orders, orderOutbox>>
        \/ /\ Placed(o) /\ orders[o].status = "PENDING"
           /\ orders' = [orders EXCEPT ![o].status = O!TargetStatus(t)]
           /\ orderOutbox' = IF t = "payment.failed"
                             THEN Emit(orderOutbox, "stock.release", Bare(o))
                             ELSE orderOutbox
    BY <1>4, <1>6, OrderHandleEffect
  <1>9. orderOutbox \in Seq(Event) /\ orders \in [Order -> O!OrderRow \cup {O!NoOrder}]
    BY OrderFacts DEF FlowInv, ServicesInv
  <1>10. /\ \A i \in DOMAIN orderOutbox :
               i \in DOMAIN orderOutbox' /\ orderOutbox'[i] = orderOutbox[i]
         /\ \A i \in DOMAIN orderOutbox' :
               i \in DOMAIN orderOutbox \/ orderOutbox'[i].type = "stock.release"
    <2>1. CASE orderOutbox' = Emit(orderOutbox, "stock.release", Bare(o))
      <3>1. WrapEvent("stock.release", Bare(o), orderOutbox) \in Event
        BY <1>4, <1>9, TopicTypes, WrapBare
      <3>. QED
        BY <1>9, <2>1, <3>1, EmitEffect
    <2>. QED
      BY <1>8, <2>1
  <1>11. /\ \A p \in Order : orders[p].status # "PENDING" => orders'[p] = orders[p]
         /\ \A p \in Order : orders'[p] = orders[p]
               \/ /\ p = o /\ Placed(o) /\ orders[o].status = "PENDING"
                  /\ orders'[o].status = O!TargetStatus(t)
    <2>1. o \in Order
      BY <1>4
    <2>. HIDE DEF o
    <2>2. CASE orders' = orders
      BY <2>2
    <2>3. CASE /\ Placed(o) /\ orders[o].status = "PENDING"
               /\ orders' = [orders EXCEPT ![o].status = O!TargetStatus(t)]
      <3>1. \A p \in Order : p # o => orders'[p] = orders[p]
        BY <1>9, <2>3
      <3>2. orders[o] \in O!OrderRow
        BY <1>9, <2>1, <2>3 DEF Placed
      <3>3. orders'[o] = [orders[o] EXCEPT !.status = O!TargetStatus(t)]
        BY <1>9, <2>1, <2>3
      <3>4. orders'[o].status = O!TargetStatus(t)
        BY <3>2, <3>3 DEF O!OrderRow
      <3>. QED
        BY <2>1, <2>3, <3>1, <3>4
    <2>. QED
      BY <1>8, <2>2, <2>3
  <1>12. RowsAreOwn'
    BY <1>2, <1>10, TopicTypes DEF FlowInv, RowsAreOwn
  <1>13. TopicsAreWritten' /\ RelaysTypeOK'
    BY <1>2, <1>5, <1>10, OutboxesKeepTopics DEF FlowInv, OutboxesGrow
  <1>14. VerdictsAnswer' /\ VerdictOnce'
    BY <1>2, <1>10 DEF FlowInv, VerdictsAnswer, VerdictOnce, Rows
  <1>15. ReservationStays'
    <2>1. \A p \in Order : R!Held(p)' = R!Held(p)
      BY <1>2 DEF R!Held
    <2>. QED
      BY <1>2, <1>11, <2>1 DEF FlowInv, ReservationStays
  <1>16. PaymentsAreReserved'
    BY <1>2 DEF FlowInv, PaymentsAreReserved
  <1>17. StatusIsEarned'
    <2>. SUFFICES ASSUME NEW p \in Order
                  PROVE  /\ orders'[p].status = "CONFIRMED" => payments[p].status = "SUCCEEDED"
                         /\ orders'[p].status = "PAYMENT_FAILED" => payments[p].status = "FAILED"
                         /\ orders'[p].status = "STOCK_UNAVAILABLE" =>
                               Said(restaurantOutbox, "stock.rejected", p)
      BY <1>2 DEF StatusIsEarned
    <2>1. CASE orders'[p] = orders[p]
      BY <2>1 DEF FlowInv, StatusIsEarned
    <2>2. CASE p = o /\ orders'[o].status = O!TargetStatus(t)
      <3>1. Said(Writer(t), t, o)
        BY <1>4 DEF Said, Rows
      <3>2. CASE t = "payment.succeeded"
        <4>1. Writer(t) = paymentOutbox
          BY <3>2, TopicTypes DEF Writer
        <4>2. payments[o].status = "SUCCEEDED"
          BY <1>4, <3>1, <3>2, <4>1, PaymentFacts DEF FlowInv, ServicesInv
        <4>. QED
          BY <2>2, <3>2, <4>2 DEF O!TargetStatus
      <3>3. CASE t = "payment.failed"
        <4>1. Writer(t) = paymentOutbox
          BY <3>3, TopicTypes DEF Writer
        <4>2. payments[o].status = "FAILED"
          BY <1>4, <3>1, <3>3, <4>1, PaymentFacts DEF FlowInv, ServicesInv
        <4>. QED
          BY <2>2, <3>3, <4>2 DEF O!TargetStatus
      <3>4. CASE t = "stock.rejected"
        <4>1. Writer(t) = restaurantOutbox
          BY <3>4, TopicTypes DEF Writer
        <4>. QED
          BY <2>2, <3>1, <3>4, <4>1 DEF O!TargetStatus
      <3>. QED
        BY <3>2, <3>3, <3>4, TopicTypes
    <2>. QED
      BY <1>11, <2>1, <2>2
  <1>. QED
    BY <1>5, <1>7, <1>12, <1>13, <1>14, <1>15, <1>16, <1>17 DEF FlowInv

\* POST /orders keeps the invariant.
LEMMA PlaceOrderKeeps ==
    ASSUME FlowInv, PlaceOrder
    PROVE  FlowInv'
  <1>1. PICK o \in Order, r \in Request : O!CreateOrder(o, r)
    BY DEF PlaceOrder
  <1>. DEFINE row == [status |-> "PENDING", request |-> r]
  <1>2. /\ UNCHANGED <<restaurantDb, paymentState, publications, broker, budget>>
        /\ UNCHANGED <<stock, reservations, restaurantProcessed, restaurantOutbox,
                       payments, stale, paymentProcessed, paymentOutbox, calling, answered,
                       directive, stuck, resolving, charges, log, position, committed>>
    BY DEF PlaceOrder, restaurantDb, paymentState, broker
  <1>3. ServicesInv'
    <2>1. OS!Next
      BY <1>1, OrderCreates
    <2>2. UNCHANGED RS!vars /\ UNCHANGED PS!vars
      BY <1>2 DEF RS!vars, PS!vars
    <2>. QED
      BY <2>1, <2>2, ServicesStep DEF FlowInv
  <1>4. /\ orderOutbox \in Seq(Event) /\ orders \in [Order -> O!OrderRow \cup {O!NoOrder}]
        /\ Placed(o) <=> orders[o].status # "ABSENT"
    BY OrderFacts DEF FlowInv, ServicesInv
  <1>5. /\ ~Placed(o) /\ orders' = [orders EXCEPT ![o] = row]
        /\ orderOutbox' = Emit(orderOutbox, "order.placed", Placement(o, r))
    BY <1>1 DEF O!CreateOrder, Placed, O!Emit, Emit, O!WrapEvent, WrapEvent, O!Placement,
       Placement
  <1>6. WrapEvent("order.placed", Placement(o, r), orderOutbox) \in Event
    <2>1. Placement(o, r) \in FullPayload
      BY RequestAssumption DEF Placement, FullPayload
    <2>. QED
      BY <1>4, <2>1, TopicTypes, WrapFull
  <1>7. /\ \A i \in DOMAIN orderOutbox :
               i \in DOMAIN orderOutbox' /\ orderOutbox'[i] = orderOutbox[i]
        /\ \A i \in DOMAIN orderOutbox' :
               i \in DOMAIN orderOutbox \/ orderOutbox'[i].type = "order.placed"
    BY <1>4, <1>5, <1>6, EmitEffect
  <1>8. RowsAreOwn'
    BY <1>2, <1>7, TopicTypes DEF FlowInv, RowsAreOwn
  <1>9. TopicsAreWritten' /\ RelaysTypeOK' /\ BrokerTypeOK'
    <2>1. BrokerTypeOK'
      BY <1>2 DEF FlowInv, BrokerTypeOK
    <2>. QED
      BY <1>2, <1>7, <2>1, OutboxesKeepTopics DEF FlowInv, OutboxesGrow
  <1>10. VerdictsAnswer' /\ VerdictOnce' /\ PaymentsAreReserved'
    BY <1>2, <1>7 DEF FlowInv, VerdictsAnswer, VerdictOnce, PaymentsAreReserved, Rows
  <1>11. /\ orders'[o].status = "PENDING" /\ orders[o].status = "ABSENT"
         /\ \A p \in Order : p # o => orders'[p] = orders[p]
    BY <1>4, <1>5
  <1>12. ReservationStays' /\ StatusIsEarned'
    <2>1. \A p \in Order : R!Held(p)' = R!Held(p)
      BY <1>2 DEF R!Held
    <2>. QED
      BY <1>2, <1>11, <2>1 DEF FlowInv, ReservationStays, StatusIsEarned
  <1>. QED
    BY <1>3, <1>8, <1>9, <1>10, <1>12 DEF FlowInv

\* A placement that is not in the ledger has no verdict yet.
LEMMA FreshPlacement ==
    ASSUME FlowInv, NEW e \in Event, e.type = "order.placed",
           \E i \in DOMAIN orderOutbox : orderOutbox[i] = e
    PROVE  /\ Placed(e.payload.order)
           /\ e.payload = Placement(e.payload.order, orders[e.payload.order].request)
           /\ e.id \notin restaurantProcessed =>
                 \A j \in DOMAIN restaurantOutbox :
                     restaurantOutbox[j].payload.order # e.payload.order
  <1>. DEFINE o == e.payload.order
  <1>1. o \in Order
    BY EventParts
  <1>2. PICK i \in DOMAIN orderOutbox : orderOutbox[i] = e
    OBVIOUS
  <1>3. i \in Rows(orderOutbox, "order.placed", o)
    BY <1>2 DEF Rows
  <1>. HIDE DEF o
  <1>4. Placed(o)
    BY <1>1, <1>3, OrderFacts DEF FlowInv, ServicesInv
  <1>5. PICK k \in DOMAIN orderOutbox :
            /\ Rows(orderOutbox, "order.placed", o) = {k}
            /\ orderOutbox[k].payload = Placement(o, orders[o].request)
    BY <1>1, <1>4, OrderFacts DEF FlowInv, ServicesInv
  <1>6. i = k
    BY <1>3, <1>5
  <1>7. ASSUME NEW j \in DOMAIN restaurantOutbox, restaurantOutbox[j].payload.order = o
        PROVE  e.id \in restaurantProcessed
    <2>1. PICK l \in Rows(orderOutbox, "order.placed", o) :
              orderOutbox[l].id \in restaurantProcessed
      BY <1>7 DEF FlowInv, VerdictsAnswer
    <2>. QED
      BY <1>2, <1>5, <1>6, <2>1
  <1>. QED
    BY <1>2, <1>4, <1>5, <1>6, <1>7 DEF o

\* The outbox has one more verdict, on an order that had none.
LEMMA VerdictKeeps ==
    ASSUME FlowInv, NEW e \in Event, e.type = "order.placed",
           \E i \in DOMAIN orderOutbox : orderOutbox[i] = e,
           e.id \notin restaurantProcessed,
           restaurantProcessed' = restaurantProcessed \cup {e.id},
           NEW type \in RestaurantEvents, NEW payload, payload.order = e.payload.order,
           type = "stock.reserved" => payload = e.payload,
           WrapEvent(type, payload, restaurantOutbox) \in Event,
           restaurantOutbox' = Emit(restaurantOutbox, type, payload),
           UNCHANGED orderOutbox
    PROVE  /\ \A i \in DOMAIN restaurantOutbox :
                 i \in DOMAIN restaurantOutbox' /\ restaurantOutbox'[i] = restaurantOutbox[i]
           /\ \A i \in DOMAIN restaurantOutbox' : restaurantOutbox'[i].type \in RestaurantEvents
           /\ VerdictsAnswer' /\ VerdictOnce'
           /\ \A p \in Order : Said(restaurantOutbox', "stock.reserved", p) =>
                 \/ Said(restaurantOutbox, "stock.reserved", p)
                 \/ p = e.payload.order /\ type = "stock.reserved"
           /\ Said(restaurantOutbox', type, e.payload.order)
  <1>. DEFINE o == e.payload.order
  <1>1. restaurantOutbox \in Seq(Event)
    BY RestaurantFacts DEF FlowInv, ServicesInv
  <1>2. /\ \A i \in DOMAIN restaurantOutbox :
              i \in DOMAIN restaurantOutbox' /\ restaurantOutbox'[i] = restaurantOutbox[i]
        /\ \A i \in DOMAIN restaurantOutbox' :
              \/ i \in DOMAIN restaurantOutbox
              \/ restaurantOutbox'[i].type = type /\ restaurantOutbox'[i].payload = payload
        /\ \E i \in DOMAIN restaurantOutbox' :
              restaurantOutbox'[i].type = type /\ restaurantOutbox'[i].payload = payload
        /\ \A i, j \in DOMAIN restaurantOutbox' :
              i \notin DOMAIN restaurantOutbox /\ j \notin DOMAIN restaurantOutbox => i = j
    BY <1>1, EmitEffect
  <1>3. \A j \in DOMAIN restaurantOutbox : restaurantOutbox[j].payload.order # o
    BY FreshPlacement
  <1>4. \A i \in DOMAIN restaurantOutbox' : restaurantOutbox'[i].type \in RestaurantEvents
    BY <1>2 DEF FlowInv, RowsAreOwn
  <1>5. PICK k \in DOMAIN orderOutbox : orderOutbox[k] = e
    OBVIOUS
  <1>6. k \in Rows(orderOutbox, "order.placed", o)
    BY <1>5 DEF Rows
  <1>. HIDE DEF o
  <1>7. payload.order = o
    BY DEF o
  <1>8. VerdictsAnswer'
    <2>. SUFFICES ASSUME NEW j \in DOMAIN restaurantOutbox'
                  PROVE  \E i \in Rows(orderOutbox, "order.placed",
                                       restaurantOutbox'[j].payload.order) :
                            /\ orderOutbox[i].id \in restaurantProcessed'
                            /\ restaurantOutbox'[j].type = "stock.reserved" =>
                                  restaurantOutbox'[j].payload = orderOutbox[i].payload
      BY DEF VerdictsAnswer
    <2>1. CASE j \in DOMAIN restaurantOutbox
      <3>1. PICK i \in Rows(orderOutbox, "order.placed", restaurantOutbox[j].payload.order) :
                /\ orderOutbox[i].id \in restaurantProcessed
                /\ restaurantOutbox[j].type = "stock.reserved" =>
                      restaurantOutbox[j].payload = orderOutbox[i].payload
        BY <2>1 DEF FlowInv, VerdictsAnswer
      <3>. QED
        BY <1>2, <2>1, <3>1
    <2>2. CASE j \notin DOMAIN restaurantOutbox
      BY <1>2, <1>5, <1>6, <1>7, <2>2
    <2>. QED
      BY <2>1, <2>2
  <1>9. VerdictOnce'
    BY <1>2, <1>3, <1>7 DEF FlowInv, VerdictOnce
  <1>10. ASSUME NEW p \in Order, Said(restaurantOutbox', "stock.reserved", p)
         PROVE  Said(restaurantOutbox, "stock.reserved", p) \/ (p = o /\ type = "stock.reserved")
    <2>1. PICK i \in DOMAIN restaurantOutbox' :
              /\ restaurantOutbox'[i].type = "stock.reserved"
              /\ restaurantOutbox'[i].payload.order = p
      BY <1>10 DEF Said, Rows
    <2>2. CASE i \in DOMAIN restaurantOutbox
      <3>1. i \in Rows(restaurantOutbox, "stock.reserved", p)
        BY <1>2, <2>1, <2>2 DEF Rows
      <3>. QED
        BY <3>1 DEF Said
    <2>. QED
      BY <1>2, <1>7, <2>1, <2>2
  <1>11. Said(restaurantOutbox', type, o)
    BY <1>2, <1>7 DEF Said, Rows
  <1>. QED
    BY <1>2, <1>4, <1>8, <1>9, <1>10, <1>11 DEF o

\* What has been said is said, and what has been paid has its reservation.
LEMMA RowsKeepVerdicts ==
    ASSUME FlowInv,
           \A i \in DOMAIN restaurantOutbox :
               i \in DOMAIN restaurantOutbox' /\ restaurantOutbox'[i] = restaurantOutbox[i],
           UNCHANGED <<orders, payments>>
    PROVE  PaymentsAreReserved' /\ StatusIsEarned'
  <1>1. \A type, o : \A i \in Rows(restaurantOutbox, type, o) :
            i \in Rows(restaurantOutbox', type, o) /\ restaurantOutbox'[i] = restaurantOutbox[i]
    BY DEF Rows
  <1>2. PaymentsAreReserved'
    BY <1>1 DEF FlowInv, PaymentsAreReserved
  <1>3. StatusIsEarned'
    BY <1>1 DEF FlowInv, StatusIsEarned, Said
  <1>. QED
    BY <1>2, <1>3

\* The restaurant's consumer keeps the invariant.
LEMMA RestaurantConsumesKeeps ==
    ASSUME FlowInv, RestaurantConsumes
    PROVE  FlowInv'
  <1>1. PICK t \in K!RestaurantTopics : K!Advance(t) /\ R!Handle(K!NextEvent(t))
    BY DEF RestaurantConsumes
  <1>. DEFINE e == K!NextEvent(t)
              o == e.payload.order
  <1>2. /\ UNCHANGED <<orderDb, paymentState, publications, budget>>
        /\ UNCHANGED <<orders, orderProcessed, orderOutbox, payments, stale, paymentProcessed,
                       paymentOutbox, calling, answered, directive, stuck, resolving, charges>>
    BY DEF RestaurantConsumes, orderDb, paymentState
  <1>3. t \in EventType /\ t \in OrderEvents
    BY TopicTypes
  <1>4. /\ e \in Event /\ e.type = t /\ o \in Order
        /\ \E i \in DOMAIN orderOutbox : orderOutbox[i] = e
    BY <1>1, <1>3, NextIsWritten DEF FlowInv, K!Advance, Writer
  <1>5. BrokerTypeOK' /\ log' = log
    BY <1>1, <1>3, CursorsKeepBroker DEF FlowInv, CursorsMove
  <1>. HIDE DEF e
  <1>6. R!Handle(e)
    BY <1>1 DEF e
  <1>7. ServicesInv'
    <2>1. RS!Next
      BY <1>4, <1>6, RestaurantHandles
    <2>2. UNCHANGED OS!vars /\ UNCHANGED PS!vars
      BY <1>2 DEF OS!vars, PS!vars
    <2>. QED
      BY <2>1, <2>2, ServicesStep DEF FlowInv
  <1>8. restaurantOutbox \in Seq(Event)
        /\ reservations \in [Order -> R!ReservationRow \cup {R!NoReservation}]
    BY RestaurantFacts DEF FlowInv, ServicesInv
  <1>9. ASSUME /\ \A i \in DOMAIN restaurantOutbox :
                     i \in DOMAIN restaurantOutbox' /\ restaurantOutbox'[i] = restaurantOutbox[i]
               /\ \A i \in DOMAIN restaurantOutbox' :
                     restaurantOutbox'[i].type \in RestaurantEvents
               /\ VerdictsAnswer' /\ VerdictOnce' /\ ReservationStays'
        PROVE  FlowInv'
    <2>1. TopicsAreWritten' /\ RelaysTypeOK'
      BY <1>2, <1>5, <1>9, OutboxesKeepTopics DEF FlowInv, OutboxesGrow
    <2>2. RowsAreOwn'
      BY <1>2, <1>9 DEF FlowInv, RowsAreOwn
    <2>3. PaymentsAreReserved' /\ StatusIsEarned'
      BY <1>2, <1>9, RowsKeepVerdicts
    <2>. QED
      BY <1>5, <1>7, <1>9, <2>1, <2>2, <2>3 DEF FlowInv
  <1>10. CASE UNCHANGED restaurantDb
    <2>1. UNCHANGED <<restaurantProcessed, restaurantOutbox, reservations>>
      BY <1>10 DEF restaurantDb
    <2>2. \A p \in Order : R!Held(p)' = R!Held(p)
      BY <2>1 DEF R!Held
    <2>3. VerdictsAnswer' /\ VerdictOnce' /\ ReservationStays'
      BY <1>2, <2>1, <2>2 DEF FlowInv, VerdictsAnswer, VerdictOnce, ReservationStays
    <2>. QED
      BY <1>9, <2>1, <2>3 DEF FlowInv, RowsAreOwn
  <1>11. ASSUME e.type = "order.placed", e.id \notin restaurantProcessed,
                restaurantProcessed' = restaurantProcessed \cup {e.id},
                R!Reserve(o, e.payload.items),
                restaurantOutbox' = Emit(restaurantOutbox, "stock.reserved", e.payload)
         PROVE  FlowInv'
    <2>1. WrapEvent("stock.reserved", e.payload, restaurantOutbox) \in Event
      <3>1. e.payload \in FullPayload
        BY <1>4, <1>11, EventParts, TopicTypes
      <3>. QED
        BY <1>8, <3>1, WrapFull, TopicTypes
    <2>2. /\ \A i \in DOMAIN restaurantOutbox :
                i \in DOMAIN restaurantOutbox' /\ restaurantOutbox'[i] = restaurantOutbox[i]
          /\ \A i \in DOMAIN restaurantOutbox' : restaurantOutbox'[i].type \in RestaurantEvents
          /\ VerdictsAnswer' /\ VerdictOnce'
          /\ \A p \in Order : Said(restaurantOutbox', "stock.reserved", p) =>
                Said(restaurantOutbox, "stock.reserved", p) \/ p = o
      BY <1>2, <1>4, <1>11, <2>1, VerdictKeeps, TopicTypes
    <2>3. reservations' = [reservations EXCEPT ![o] = [held |-> TRUE, items |-> e.payload.items]]
      BY <1>11 DEF R!Reserve
    <2>. HIDE DEF o
    <2>4. \A p \in Order : R!Held(p)' = IF p = o THEN TRUE ELSE R!Held(p)
      <3>1. /\ reservations'[o] = [held |-> TRUE, items |-> e.payload.items]
            /\ \A p \in Order : p # o => reservations'[p] = reservations[p]
        BY <1>4, <1>8, <2>3
      <3>2. reservations'[o].held = TRUE
        BY <3>1
      <3>. QED
        BY <3>1, <3>2 DEF R!Held
    <2>5. ReservationStays'
      <3>. SUFFICES ASSUME NEW p \in Order, Said(restaurantOutbox', "stock.reserved", p)
                    PROVE  R!Held(p)' \/ orders'[p].status = "PAYMENT_FAILED"
        BY DEF ReservationStays
      <3>1. CASE p = o
        BY <2>4, <3>1
      <3>2. CASE p # o
        BY <1>2, <2>2, <2>4, <3>2 DEF FlowInv, ReservationStays
      <3>. QED
        BY <3>1, <3>2
    <2>. QED
      BY <1>9, <2>2, <2>5
  <1>12. ASSUME e.type = "order.placed", e.id \notin restaurantProcessed,
                restaurantProcessed' = restaurantProcessed \cup {e.id},
                restaurantOutbox' = Emit(restaurantOutbox, "stock.rejected", Bare(o)),
                UNCHANGED <<stock, reservations>>
         PROVE  FlowInv'
    <2>1. WrapEvent("stock.rejected", Bare(o), restaurantOutbox) \in Event
      BY <1>4, <1>8, WrapBare, TopicTypes
    <2>2. Bare(o).order = o
      BY DEF Bare
    <2>3. /\ \A i \in DOMAIN restaurantOutbox :
                i \in DOMAIN restaurantOutbox' /\ restaurantOutbox'[i] = restaurantOutbox[i]
          /\ \A i \in DOMAIN restaurantOutbox' : restaurantOutbox'[i].type \in RestaurantEvents
          /\ VerdictsAnswer' /\ VerdictOnce'
          /\ \A p \in Order : Said(restaurantOutbox', "stock.reserved", p) =>
                Said(restaurantOutbox, "stock.reserved", p)
      BY <1>2, <1>4, <1>12, <2>1, <2>2, VerdictKeeps, TopicTypes
    <2>4. \A p \in Order : R!Held(p)' = R!Held(p)
      BY <1>12 DEF R!Held
    <2>5. ReservationStays'
      BY <1>2, <2>3, <2>4 DEF FlowInv, ReservationStays
    <2>. QED
      BY <1>9, <2>3, <2>5
  <1>13. ASSUME e.type = "stock.release", restaurantProcessed' = restaurantProcessed \cup {e.id},
                R!Release(o), restaurantOutbox' = restaurantOutbox
         PROVE  FlowInv'
    <2>1. Said(orderOutbox, "stock.release", o)
      BY <1>4, <1>13 DEF Said, Rows
    <2>2. orders[o].status = "PAYMENT_FAILED"
      BY <1>4, <2>1, OrderFacts DEF FlowInv, ServicesInv
    <2>3. \A p \in Order : p # o => R!Held(p)' = R!Held(p)
      BY <1>4, <1>8, <1>13 DEF R!Release, R!Held
    <2>4. ReservationStays'
      BY <1>2, <1>13, <2>2, <2>3 DEF FlowInv, ReservationStays
    <2>5. VerdictsAnswer' /\ VerdictOnce'
      BY <1>2, <1>13 DEF FlowInv, VerdictsAnswer, VerdictOnce
    <2>. QED
      BY <1>9, <1>13, <2>4, <2>5 DEF FlowInv, RowsAreOwn
  <1>. QED
    BY <1>4, <1>6, <1>10, <1>11, <1>12, <1>13, RestaurantHandleEffect

\* The payment consumer's Transaction 1 keeps the invariant.
LEMMA PaymentConsumesKeeps ==
    ASSUME FlowInv, PaymentConsumes
    PROVE  FlowInv'
  <1>1. PICK t \in K!PaymentTopics : K!Advance(t) /\ P!Handle(K!NextEvent(t))
    BY DEF PaymentConsumes
  <1>. DEFINE e == K!NextEvent(t)
              o == e.payload.order
  <1>2. /\ UNCHANGED <<orderDb, restaurantDb, publications>>
        /\ UNCHANGED <<orders, orderProcessed, orderOutbox, stock, reservations,
                       restaurantProcessed, restaurantOutbox>>
    BY DEF PaymentConsumes, orderDb, restaurantDb
  <1>3. t = "stock.reserved" /\ t \in EventType /\ t \in RestaurantEvents /\ t \notin OrderEvents
    BY TopicTypes
  <1>4. /\ e \in Event /\ e.type = t /\ o \in Order
        /\ \E i \in DOMAIN restaurantOutbox : restaurantOutbox[i] = e
    BY <1>1, <1>3, NextIsWritten DEF FlowInv, K!Advance, Writer
  <1>5. BrokerTypeOK' /\ log' = log
    BY <1>1, <1>3, CursorsKeepBroker DEF FlowInv, CursorsMove
  <1>. HIDE DEF e
  <1>6. P!Handle(e)
    BY <1>1 DEF e
  <1>7. ServicesInv'
    <2>1. PS!Next
      BY <1>3, <1>4, <1>6, PaymentHandles
    <2>2. UNCHANGED OS!vars /\ UNCHANGED RS!vars
      BY <1>2 DEF OS!vars, RS!vars
    <2>. QED
      BY <2>1, <2>2, ServicesStep DEF FlowInv
  <1>8. \/ UNCHANGED payments
        \/ /\ payments[o] = P!NoPayment
           /\ payments' = [payments EXCEPT ![o] =
                              [status |-> "PROCESSING", simulate |-> e.payload.simulate]]
    BY <1>4, <1>6, PaymentHandleEffect DEF paymentState
  <1>9. paymentOutbox' = paymentOutbox
    BY <1>4, <1>6, PaymentHandleEffect DEF paymentState
  <1>10. /\ payments \in [Order -> P!PaymentRow \cup {P!NoPayment}]
         /\ payments[o] = P!NoPayment => payments[o].status = "ABSENT"
    BY <1>4, PaymentFacts DEF FlowInv, ServicesInv
  <1>11. TopicsAreWritten' /\ RelaysTypeOK'
    BY <1>2, <1>5, <1>9, OutboxesKeepTopics DEF FlowInv, OutboxesGrow
  <1>. HIDE DEF o
  <1>12. ASSUME NEW p \in Order, payments'[p] # payments[p]
         PROVE  /\ p = o /\ payments[p].status = "ABSENT"
                /\ payments'[p].simulate = e.payload.simulate
    <2>1. /\ payments[o] = P!NoPayment
          /\ payments' = [payments EXCEPT ![o] =
                              [status |-> "PROCESSING", simulate |-> e.payload.simulate]]
      BY <1>8, <1>12
    <2>2. p = o
      BY <1>10, <1>12, <2>1
    <2>. QED
      BY <1>10, <2>1, <2>2
  <1>13. PaymentsAreReserved'
    <2>. SUFFICES ASSUME NEW p \in Order, payments'[p] # P!NoPayment
                  PROVE  \E j \in Rows(restaurantOutbox, "stock.reserved", p) :
                            restaurantOutbox[j].payload.simulate = payments'[p].simulate
      BY <1>2 DEF PaymentsAreReserved, P!NoPayment
    <2>1. CASE payments'[p] = payments[p]
      BY <2>1 DEF FlowInv, PaymentsAreReserved
    <2>2. CASE payments'[p] # payments[p]
      BY <1>3, <1>4, <1>12, <2>2 DEF Rows, o
    <2>. QED
      BY <2>1, <2>2
  <1>14. StatusIsEarned'
    <2>. SUFFICES ASSUME NEW p \in Order
                  PROVE  /\ orders[p].status = "CONFIRMED" => payments'[p].status = "SUCCEEDED"
                         /\ orders[p].status = "PAYMENT_FAILED" => payments'[p].status = "FAILED"
                         /\ orders[p].status = "STOCK_UNAVAILABLE" =>
                               Said(restaurantOutbox, "stock.rejected", p)
      BY <1>2 DEF StatusIsEarned
    <2>. QED
      BY <1>12 DEF FlowInv, StatusIsEarned
  <1>15. VerdictsAnswer' /\ VerdictOnce' /\ RowsAreOwn'
    BY <1>2, <1>9 DEF FlowInv, VerdictsAnswer, VerdictOnce, RowsAreOwn
  <1>16. ReservationStays'
    BY <1>2 DEF FlowInv, ReservationStays, R!Held
  <1>. QED
    BY <1>5, <1>7, <1>11, <1>13, <1>14, <1>15, <1>16 DEF FlowInv

\* The second answer of the gateway is the first: a settled payment stays as it is.
LEMMA PaymentActsKeep ==
    ASSUME FlowInv, PaymentActs, UNCHANGED <<orderDb, restaurantDb, publications, log>>,
           BrokerTypeOK'
    PROVE  FlowInv'
  <1>1. UNCHANGED <<orders, orderProcessed, orderOutbox, stock, reservations,
                    restaurantProcessed, restaurantOutbox>>
    BY DEF orderDb, restaurantDb
  <1>2. ServicesInv'
    <2>1. PS!Next
      BY PaymentTasks
    <2>2. UNCHANGED OS!vars /\ UNCHANGED RS!vars
      BY <1>1 DEF OS!vars, RS!vars
    <2>. QED
      BY <2>1, <2>2, ServicesStep DEF FlowInv
  <1>3. \/ UNCHANGED <<payments, paymentOutbox>>
        \/ \E o \in Order :
              LET status == P!Outcome(payments[o].simulate) IN
              /\ payments[o] # P!NoPayment
              /\ payments' = [payments EXCEPT ![o].status = status]
              /\ paymentOutbox' = Emit(paymentOutbox, P!OutcomeTopic(status), Bare(o))
    BY PaymentTasksEffect DEF FlowInv, ServicesInv
  <1>4. /\ \A i \in DOMAIN paymentOutbox :
              i \in DOMAIN paymentOutbox' /\ paymentOutbox'[i] = paymentOutbox[i]
        /\ \A i \in DOMAIN paymentOutbox' : paymentOutbox'[i].type \in PaymentEvents
        /\ \A p \in Order :
              /\ payments'[p] # P!NoPayment => payments[p] # P!NoPayment
              /\ payments'[p] # P!NoPayment => payments'[p].simulate = payments[p].simulate
              /\ payments[p].status \in {"SUCCEEDED", "FAILED"} => payments'[p] = payments[p]
    <2>1. CASE UNCHANGED <<payments, paymentOutbox>>
      BY <2>1 DEF FlowInv, RowsAreOwn
    <2>2. ASSUME NEW o \in Order, NEW status, status = P!Outcome(payments[o].simulate),
                 payments[o] # P!NoPayment,
                 payments' = [payments EXCEPT ![o].status = status],
                 paymentOutbox' = Emit(paymentOutbox, P!OutcomeTopic(status), Bare(o))
          PROVE  <1>4
      <3>1. /\ paymentOutbox \in Seq(Event)
            /\ payments \in [Order -> P!PaymentRow \cup {P!NoPayment}]
            /\ payments[o] \in P!PaymentRow
            /\ payments[o].status \in {"SUCCEEDED", "FAILED"} => payments[o].status = status
        BY <2>2, PaymentFacts DEF FlowInv, ServicesInv
      <3>2. P!OutcomeTopic(status) \in PaymentEvents
        BY TopicTypes DEF P!OutcomeTopic
      <3>3. WrapEvent(P!OutcomeTopic(status), Bare(o), paymentOutbox) \in Event
        BY <3>1, <3>2, WrapBare, TopicTypes
      <3>4. /\ \A i \in DOMAIN paymentOutbox :
                  i \in DOMAIN paymentOutbox' /\ paymentOutbox'[i] = paymentOutbox[i]
            /\ \A i \in DOMAIN paymentOutbox' :
                  \/ i \in DOMAIN paymentOutbox
                  \/ paymentOutbox'[i].type = P!OutcomeTopic(status)
        BY <2>2, <3>1, <3>3, EmitEffect
      <3>5. \A i \in DOMAIN paymentOutbox' : paymentOutbox'[i].type \in PaymentEvents
        BY <3>2, <3>4 DEF FlowInv, RowsAreOwn
      <3>6. /\ payments'[o] = [payments[o] EXCEPT !.status = status]
            /\ \A p \in Order : p # o => payments'[p] = payments[p]
        BY <2>2, <3>1
      <3>7. /\ payments'[o].simulate = payments[o].simulate
            /\ payments[o].status \in {"SUCCEEDED", "FAILED"} => payments'[o] = payments[o]
        BY <3>1, <3>6 DEF P!PaymentRow
      <3>. QED
        BY <2>2, <3>4, <3>5, <3>6, <3>7
    <2>. QED
      BY <1>3, <2>1, <2>2
  <1>5. TopicsAreWritten' /\ RelaysTypeOK'
    BY <1>1, <1>4, OutboxesKeepTopics DEF FlowInv, OutboxesGrow
  <1>6. PaymentsAreReserved'
    BY <1>1, <1>4 DEF FlowInv, PaymentsAreReserved, P!NoPayment
  <1>7. StatusIsEarned'
    BY <1>1, <1>4 DEF FlowInv, StatusIsEarned
  <1>8. VerdictsAnswer' /\ VerdictOnce' /\ RowsAreOwn'
    BY <1>1, <1>4 DEF FlowInv, VerdictsAnswer, VerdictOnce, RowsAreOwn
  <1>9. ReservationStays'
    BY <1>1 DEF FlowInv, ReservationStays, R!Held
  <1>. QED
    BY <1>2, <1>5, <1>6, <1>7, <1>8, <1>9 DEF FlowInv

-----------------------------------------------------------------------------
(* Relays, offsets and failures *)

\* Every table and every task stays as it is.
Still == UNCHANGED <<orderDb, restaurantDb, paymentState>>

\* A step of the broker alone.
LEMMA StillKeeps ==
    ASSUME FlowInv, Still, BrokerTypeOK', RelaysTypeOK', TopicsAreWritten'
    PROVE  FlowInv'
  <1>1. UNCHANGED <<orders, orderProcessed, orderOutbox, stock, reservations,
                    restaurantProcessed, restaurantOutbox, payments, stale, paymentProcessed,
                    paymentOutbox, calling, answered, directive, stuck, resolving, charges>>
    BY DEF Still, orderDb, restaurantDb, paymentState
  <1>2. ServicesInv'
    <2>1. UNCHANGED OS!vars /\ UNCHANGED RS!vars /\ UNCHANGED PS!vars
      BY <1>1 DEF OS!vars, RS!vars, PS!vars
    <2>. QED
      BY <2>1, ServicesStep DEF FlowInv
  <1>3. RowsAreOwn' /\ VerdictsAnswer' /\ VerdictOnce' /\ PaymentsAreReserved' /\ StatusIsEarned'
    BY <1>1 DEF FlowInv, RowsAreOwn, VerdictsAnswer, VerdictOnce, PaymentsAreReserved,
       StatusIsEarned, P!NoPayment
  <1>4. ReservationStays'
    BY <1>1 DEF FlowInv, ReservationStays, R!Held
  <1>. QED
    BY <1>2, <1>3, <1>4 DEF FlowInv

\* A consumer that moves, with the databases at rest, keeps the invariant.
LEMMA CursorsKeep ==
    ASSUME FlowInv, Still, CursorsMove, UNCHANGED publications
    PROVE  FlowInv'
  <1>1. BrokerTypeOK' /\ log' = log
    BY CursorsKeepBroker DEF FlowInv
  <1>2. UNCHANGED <<orderOutbox, restaurantOutbox, paymentOutbox>>
    BY DEF Still, orderDb, restaurantDb, paymentState
  <1>3. TopicsAreWritten' /\ RelaysTypeOK'
    BY <1>1, <1>2, OutboxesKeepTopics DEF FlowInv, OutboxesGrow
  <1>. QED
    BY <1>1, <1>3, StillKeeps

\* A relay that sends one row of its outbox keeps the invariant.
LEMMA RelaysKeep ==
    ASSUME FlowInv, Still, UNCHANGED <<position, committed>>, RelaysTypeOK',
           \/ \E i \in DOMAIN orderOutbox : OrderRelay!SendRow(i)
           \/ \E i \in DOMAIN restaurantOutbox : RestaurantRelay!SendRow(i)
           \/ \E i \in DOMAIN paymentOutbox : PaymentRelay!SendRow(i)
    PROVE  FlowInv'
  <1>1. UNCHANGED <<orderOutbox, restaurantOutbox, paymentOutbox>>
    BY DEF Still, orderDb, restaurantDb, paymentState
  <1>2. /\ orderOutbox \in Seq(Event) /\ restaurantOutbox \in Seq(Event)
        /\ paymentOutbox \in Seq(Event)
    BY OrderFacts, RestaurantFacts, PaymentFacts DEF FlowInv, ServicesInv
  <1>3. PICK e \in Event :
            /\ \E i \in DOMAIN Writer(e.type) : Writer(e.type)[i] = e
            /\ log' = [log EXCEPT ![e.type] = Append(@, e)]
    <2>1. CASE \E i \in DOMAIN orderOutbox : OrderRelay!SendRow(i)
      <3>1. PICK i \in DOMAIN orderOutbox : OrderRelay!SendRow(i)
        BY <2>1
      <3>2. orderOutbox[i] \in Event /\ orderOutbox[i].type \in OrderEvents
        BY <1>2 DEF FlowInv, RowsAreOwn
      <3>. QED
        BY <3>1, <3>2 DEF OrderRelay!SendRow, Writer
    <2>2. CASE \E i \in DOMAIN restaurantOutbox : RestaurantRelay!SendRow(i)
      <3>1. PICK i \in DOMAIN restaurantOutbox : RestaurantRelay!SendRow(i)
        BY <2>2
      <3>2. /\ restaurantOutbox[i] \in Event
            /\ restaurantOutbox[i].type \in RestaurantEvents \ OrderEvents
        BY <1>2, TopicTypes DEF FlowInv, RowsAreOwn
      <3>. QED
        BY <3>1, <3>2 DEF RestaurantRelay!SendRow, Writer
    <2>3. CASE \E i \in DOMAIN paymentOutbox : PaymentRelay!SendRow(i)
      <3>1. PICK i \in DOMAIN paymentOutbox : PaymentRelay!SendRow(i)
        BY <2>3
      <3>2. /\ paymentOutbox[i] \in Event
            /\ paymentOutbox[i].type \in PaymentEvents \ (OrderEvents \cup RestaurantEvents)
        BY <1>2, TopicTypes DEF FlowInv, RowsAreOwn
      <3>. QED
        BY <3>1, <3>2 DEF PaymentRelay!SendRow, Writer
    <2>. QED
      BY <2>1, <2>2, <2>3
  <1>4. BrokerTypeOK' /\ TopicsAreWritten'
    BY <1>1, <1>3, SendKeepsTopics DEF FlowInv
  <1>. QED
    BY <1>4, StillKeeps

\* Each of the remaining actions is one of the above.
LEMMA RelayActionsKeep ==
    ASSUME FlowInv, OrderRelays \/ RestaurantRelays \/ PaymentRelays \/ RelayInterrupted
    PROVE  FlowInv'
  <1>1. CASE OrderRelays
    <2>1. PICK i \in DOMAIN orderOutbox : OrderRelay!Publish(i)
      BY <1>1 DEF OrderRelays, OrderRelay!Unpublished
    <2>2. Still /\ UNCHANGED <<position, committed, restaurantPublished, paymentPublished>>
      BY <1>1, <2>1 DEF OrderRelays, OrderRelay!Publish, Still, orderDb
    <2>3. RelaysTypeOK'
      BY <2>1, <2>2 DEF OrderRelay!Publish, FlowInv, RelaysTypeOK, Still, orderDb,
         restaurantDb, paymentState
    <2>. QED
      BY <2>1, <2>2, <2>3, RelaysKeep DEF OrderRelay!Publish
  <1>2. CASE RestaurantRelays
    <2>1. PICK i \in DOMAIN restaurantOutbox : RestaurantRelay!Publish(i)
      BY <1>2 DEF RestaurantRelays, RestaurantRelay!Unpublished
    <2>2. Still /\ UNCHANGED <<position, committed, orderPublished, paymentPublished>>
      BY <1>2, <2>1 DEF RestaurantRelays, RestaurantRelay!Publish, Still, restaurantDb
    <2>3. RelaysTypeOK'
      BY <2>1, <2>2 DEF RestaurantRelay!Publish, FlowInv, RelaysTypeOK, Still, orderDb,
         restaurantDb, paymentState
    <2>. QED
      BY <2>1, <2>2, <2>3, RelaysKeep DEF RestaurantRelay!Publish
  <1>3. CASE PaymentRelays
    <2>1. PICK i \in DOMAIN paymentOutbox : PaymentRelay!Publish(i)
      BY <1>3 DEF PaymentRelays, PaymentRelay!Unpublished
    <2>2. Still /\ UNCHANGED <<position, committed, orderPublished, restaurantPublished>>
      BY <1>3, <2>1 DEF PaymentRelays, PaymentRelay!Publish, Still, paymentState
    <2>3. RelaysTypeOK'
      BY <2>1, <2>2 DEF PaymentRelay!Publish, FlowInv, RelaysTypeOK, Still, orderDb,
         restaurantDb, paymentState
    <2>. QED
      BY <2>1, <2>2, <2>3, RelaysKeep DEF PaymentRelay!Publish
  <1>4. CASE RelayInterrupted
    <2>1. Still /\ UNCHANGED <<position, committed, publications>>
      BY <1>4 DEF RelayInterrupted, Still
    <2>2. RelaysTypeOK'
      BY <2>1 DEF FlowInv, RelaysTypeOK, Still, orderDb, restaurantDb, paymentState, publications
    <2>3. \/ \E i \in DOMAIN orderOutbox : OrderRelay!SendRow(i)
          \/ \E i \in DOMAIN restaurantOutbox : RestaurantRelay!SendRow(i)
          \/ \E i \in DOMAIN paymentOutbox : PaymentRelay!SendRow(i)
      BY <1>4 DEF RelayInterrupted, OrderRelay!Send, OrderRelay!Unpublished,
         RestaurantRelay!Send, RestaurantRelay!Unpublished, PaymentRelay!Send,
         PaymentRelay!Unpublished
    <2>. QED
      BY <2>1, <2>2, <2>3, RelaysKeep
  <1>. QED
    BY <1>1, <1>2, <1>3, <1>4

\* Commits, and messages passed over, keep the invariant.
LEMMA CursorActionsKeep ==
    ASSUME FlowInv, Commits \/ HandlerRaises
    PROVE  FlowInv'
  <1>1. Still /\ UNCHANGED publications
    BY DEF Commits, HandlerRaises, Still
  <1>2. CursorsMove
    BY DEF Commits, HandlerRaises, CursorsMove
  <1>. QED
    BY <1>1, <1>2, CursorsKeep

\* So does the death of any service.
LEMMA CrashKeeps ==
    ASSUME FlowInv, Crash
    PROVE  FlowInv'
  <1>1. CursorsMove /\ UNCHANGED <<orderDb, restaurantDb, publications>>
    BY DEF Crash, CursorsMove
  <1>2. CASE UNCHANGED paymentState
    BY <1>1, <1>2, CursorsKeep DEF Still
  <1>3. CASE P!Restart
    <2>1. PaymentActs
      BY <1>3 DEF PaymentActs, P!Lose
    <2>2. BrokerTypeOK' /\ log' = log
      BY <1>1, CursorsKeepBroker DEF FlowInv
    <2>. QED
      BY <1>1, <2>1, <2>2, PaymentActsKeep
  <1>. QED
    BY <1>2, <1>3 DEF Crash

\* So do the payment tasks, the clock and the loss of a task's place.
LEMMA PaymentActionsKeep ==
    ASSUME FlowInv,
           \/ PaymentCall \/ PaymentSweep \/ PaymentTaskFails
           \/ \E o \in Order : PaymentAges(o)
    PROVE  FlowInv'
  <1>1. PaymentActs /\ UNCHANGED <<orderDb, restaurantDb, publications, broker>>
    BY DEF PaymentCall, PaymentSweep, PaymentAges, PaymentStep, PaymentTaskFails, PaymentActs,
       P!Lose
  <1>2. BrokerTypeOK' /\ log' = log
    BY <1>1 DEF broker, FlowInv, BrokerTypeOK
  <1>. QED
    BY <1>1, <1>2, PaymentActsKeep

-----------------------------------------------------------------------------
(* The invariant *)

\* Empty databases and topics satisfy the invariant.
THEOREM FlowInitially == Init => FlowInv
  <1>. SUFFICES ASSUME Init PROVE FlowInv
    OBVIOUS
  <1>1. ServicesInv
    BY ServicesInitially
  <1>2. /\ orderOutbox = <<>> /\ restaurantOutbox = <<>> /\ paymentOutbox = <<>>
        /\ orders = [o \in Order |-> O!NoOrder] /\ payments = [o \in Order |-> P!NoPayment]
        /\ orderPublished = {} /\ restaurantPublished = {} /\ paymentPublished = {}
    BY DEF Init, O!Init, R!Init, P!Init
  <1>3. /\ log = [t \in EventType |-> <<>>] /\ position = [t \in EventType |-> 0]
        /\ committed = [t \in EventType |-> 0]
    BY DEF Init, K!Init, K!EventType, EventType, K!OrderEvents, OrderEvents,
       K!RestaurantEvents, RestaurantEvents, K!PaymentEvents, PaymentEvents
  <1>4. BrokerTypeOK /\ TopicsAreWritten
    <2>1. <<>> \in Seq(Event) /\ Len(<<>>) = 0 /\ DOMAIN <<>> = {}
      OBVIOUS
    <2>2. TopicsAreWritten
      BY <1>3, <2>1 DEF TopicsAreWritten
    <2>3. BrokerTypeOK
      BY <1>3, <2>1 DEF BrokerTypeOK
    <2>. QED
      BY <2>2, <2>3
  <1>5. RelaysTypeOK /\ RowsAreOwn /\ VerdictsAnswer /\ VerdictOnce
    BY <1>2 DEF RelaysTypeOK, RowsAreOwn, VerdictsAnswer, VerdictOnce
  <1>6. ReservationStays /\ PaymentsAreReserved /\ StatusIsEarned
    BY <1>2 DEF ReservationStays, PaymentsAreReserved, StatusIsEarned, Said, Rows, O!NoOrder
  <1>. QED
    BY <1>1, <1>4, <1>5, <1>6 DEF FlowInv

\* Nothing happens, and nothing is lost.
LEMMA StutterKeeps ==
    ASSUME FlowInv, UNCHANGED vars
    PROVE  FlowInv'
  <1>1. Still /\ UNCHANGED <<publications, broker>>
    BY DEF vars, Still
  <1>2. UNCHANGED <<orderOutbox, restaurantOutbox, paymentOutbox, log, position, committed>>
    BY <1>1 DEF Still, orderDb, restaurantDb, paymentState, broker
  <1>3. BrokerTypeOK' /\ TopicsAreWritten' /\ RelaysTypeOK'
    BY <1>1, <1>2, OutboxesKeepTopics DEF FlowInv, BrokerTypeOK, OutboxesGrow
  <1>. QED
    BY <1>1, <1>3, StillKeeps

\* The invariant is inductive.
THEOREM FlowStep == FlowInv /\ [Next]_vars => FlowInv'
  BY OrderConsumesKeeps, PlaceOrderKeeps, RestaurantConsumesKeeps, PaymentConsumesKeeps,
     RelayActionsKeep, CursorActionsKeep, CrashKeeps, PaymentActionsKeep, StutterKeeps DEF Next

\* The three databases, their outboxes and the topics agree as FlowInv says,
\* through every crash, repetition and loss.
THEOREM FlowInvariant == Spec => []FlowInv
  BY FlowInitially, FlowStep, PTL DEF Spec

-----------------------------------------------------------------------------
(* What the invariant says of an order *)

\* A reservation, its verdict and its placement carry the same order.
LEMMA ReservedFacts ==
    ASSUME FlowInv, NEW o \in Order, NEW j \in Rows(restaurantOutbox, "stock.reserved", o)
    PROVE  /\ Placed(o)
           /\ restaurantOutbox[j].payload = Placement(o, orders[o].request)
           /\ ~Said(restaurantOutbox, "stock.rejected", o)
  <1>1. /\ j \in DOMAIN restaurantOutbox /\ restaurantOutbox[j].type = "stock.reserved"
        /\ restaurantOutbox[j].payload.order = o
    BY DEF Rows
  <1>2. PICK i \in Rows(orderOutbox, "order.placed", o) :
            restaurantOutbox[j].payload = orderOutbox[i].payload
    BY <1>1 DEF FlowInv, VerdictsAnswer
  <1>3. Placed(o)
    BY <1>2, OrderFacts DEF FlowInv, ServicesInv
  <1>4. PICK k \in DOMAIN orderOutbox :
            /\ Rows(orderOutbox, "order.placed", o) = {k}
            /\ orderOutbox[k].payload = Placement(o, orders[o].request)
    BY <1>3, OrderFacts DEF FlowInv, ServicesInv
  <1>5. ~Said(restaurantOutbox, "stock.rejected", o)
    BY <1>1 DEF FlowInv, VerdictOnce, Said, Rows
  <1>. QED
    BY <1>2, <1>3, <1>4, <1>5

\* What the three databases can say together of an order.
LEMMA OrderIsConsistent ==
    ASSUME FlowInv, NEW o \in Order
    PROVE  /\ payments[o] # P!NoPayment =>
                 /\ Said(restaurantOutbox, "stock.reserved", o)
                 /\ payments[o].simulate = orders[o].request.simulate
           /\ R!Held(o) =>
                 /\ Said(restaurantOutbox, "stock.reserved", o)
                 /\ reservations[o].items = orders[o].request.items
           /\ Said(restaurantOutbox, "stock.reserved", o) =>
                 /\ Placed(o) /\ ~Said(restaurantOutbox, "stock.rejected", o)
                 /\ R!Held(o) \/ orders[o].status = "PAYMENT_FAILED"
           /\ Said(restaurantOutbox, "stock.rejected", o) => Placed(o)
  <1>1. ASSUME payments[o] # P!NoPayment
        PROVE  /\ Said(restaurantOutbox, "stock.reserved", o)
               /\ payments[o].simulate = orders[o].request.simulate
    <2>1. PICK j \in Rows(restaurantOutbox, "stock.reserved", o) :
              restaurantOutbox[j].payload.simulate = payments[o].simulate
      BY <1>1 DEF FlowInv, PaymentsAreReserved
    <2>2. restaurantOutbox[j].payload = Placement(o, orders[o].request)
      BY ReservedFacts
    <2>. QED
      BY <2>1, <2>2 DEF Said, Placement
  <1>2. ASSUME R!Held(o)
        PROVE  /\ Said(restaurantOutbox, "stock.reserved", o)
               /\ reservations[o].items = orders[o].request.items
    <2>1. PICK j \in Rows(restaurantOutbox, "stock.reserved", o) :
              restaurantOutbox[j].payload.items = reservations[o].items
      BY <1>2, RestaurantFacts DEF FlowInv, ServicesInv
    <2>2. restaurantOutbox[j].payload = Placement(o, orders[o].request)
      BY ReservedFacts
    <2>. QED
      BY <2>1, <2>2 DEF Said, Placement
  <1>3. ASSUME Said(restaurantOutbox, "stock.reserved", o)
        PROVE  /\ Placed(o) /\ ~Said(restaurantOutbox, "stock.rejected", o)
               /\ R!Held(o) \/ orders[o].status = "PAYMENT_FAILED"
    BY <1>3, ReservedFacts DEF FlowInv, ReservationStays, Said
  <1>4. ASSUME Said(restaurantOutbox, "stock.rejected", o)
        PROVE  Placed(o)
    <2>1. PICK j \in DOMAIN restaurantOutbox : restaurantOutbox[j].payload.order = o
      BY <1>4 DEF Said, Rows
    <2>2. Rows(orderOutbox, "order.placed", o) # {}
      BY <2>1 DEF FlowInv, VerdictsAnswer
    <2>. QED
      BY <2>2, OrderFacts DEF FlowInv, ServicesInv
  <1>. QED
    BY <1>1, <1>2, <1>3, <1>4

\* What the restaurant does with a message, in terms of its order.
Fresh(o) ==
    /\ Placed(o)
    /\ \A j \in DOMAIN restaurantOutbox : restaurantOutbox[j].payload.order # o

Reserves(o) ==
    /\ Fresh(o)
    /\ R!Reserve(o, orders[o].request.items)
    /\ restaurantOutbox' =
          Emit(restaurantOutbox, "stock.reserved", Placement(o, orders[o].request))

Rejects(o) ==
    /\ Fresh(o)
    /\ ~R!Sufficient(orders[o].request.items)
    /\ restaurantOutbox' = Emit(restaurantOutbox, "stock.rejected", Bare(o))
    /\ UNCHANGED <<stock, reservations>>

Releases(o) ==
    /\ orders[o].status = "PAYMENT_FAILED"
    /\ R!Release(o)
    /\ UNCHANGED restaurantOutbox

\* A message of the restaurant's topics reserves, rejects or releases for one
\* order, or changes nothing but the ledger.
LEMMA RestaurantConsumesEffect ==
    ASSUME FlowInv, RestaurantConsumes
    PROVE  /\ UNCHANGED <<orders, payments>>
           /\ \/ UNCHANGED <<stock, reservations, restaurantOutbox>>
              \/ \E o \in Order : Reserves(o) \/ Rejects(o) \/ Releases(o)
  <1>1. PICK t \in K!RestaurantTopics : K!Advance(t) /\ R!Handle(K!NextEvent(t))
    BY DEF RestaurantConsumes
  <1>. DEFINE e == K!NextEvent(t)
              o == e.payload.order
  <1>2. UNCHANGED <<orders, payments>>
    BY DEF RestaurantConsumes, orderDb, paymentState
  <1>3. t \in EventType /\ t \in OrderEvents
    BY TopicTypes
  <1>4. /\ e \in Event /\ o \in Order
        /\ \E i \in DOMAIN orderOutbox : orderOutbox[i] = e
    BY <1>1, <1>3, NextIsWritten DEF FlowInv, K!Advance, Writer
  <1>5. R!Handle(e)
    BY <1>1
  <1>. HIDE DEF e
  <1>6. CASE UNCHANGED restaurantDb
    BY <1>2, <1>6 DEF restaurantDb
  <1>7. ASSUME e.type = "order.placed", e.id \notin restaurantProcessed
        PROVE  Fresh(o) /\ e.payload = Placement(o, orders[o].request)
    BY <1>4, <1>7, FreshPlacement DEF Fresh
  <1>8. ASSUME e.type = "order.placed", e.id \notin restaurantProcessed,
               R!Reserve(o, e.payload.items),
               restaurantOutbox' = Emit(restaurantOutbox, "stock.reserved", e.payload)
        PROVE  Reserves(o)
    <2>1. e.payload.items = orders[o].request.items
      BY <1>7, <1>8 DEF Placement
    <2>. QED
      BY <1>7, <1>8, <2>1 DEF Reserves
  <1>9. ASSUME e.type = "order.placed", e.id \notin restaurantProcessed,
               ~R!Sufficient(e.payload.items),
               restaurantOutbox' = Emit(restaurantOutbox, "stock.rejected", Bare(o)),
               UNCHANGED <<stock, reservations>>
        PROVE  Rejects(o)
    <2>1. e.payload.items = orders[o].request.items
      BY <1>7, <1>9 DEF Placement
    <2>. QED
      BY <1>7, <1>9, <2>1 DEF Rejects
  <1>10. ASSUME e.type = "stock.release", R!Release(o), restaurantOutbox' = restaurantOutbox
         PROVE  Releases(o)
    <2>1. Said(orderOutbox, "stock.release", o)
      BY <1>4, <1>10 DEF Said, Rows
    <2>2. orders[o].status = "PAYMENT_FAILED"
      BY <1>4, <2>1, OrderFacts DEF FlowInv, ServicesInv
    <2>. QED
      BY <1>10, <2>2 DEF Releases
  <1>. QED
    BY <1>2, <1>4, <1>5, <1>6, <1>8, <1>9, <1>10, RestaurantHandleEffect

-----------------------------------------------------------------------------
(* The properties of the saga *)

\* A status that the client reads has its reasons in the other databases.
LEMMA TrueOfOne ==
    ASSUME FlowInv, NEW o \in Order
    PROVE  /\ orders[o].status = "CONFIRMED" =>
                 R!Held(o) /\ payments[o].status = "SUCCEEDED"
           /\ orders[o].status = "PAYMENT_FAILED" => payments[o].status = "FAILED"
           /\ orders[o].status = "STOCK_UNAVAILABLE" =>
                 ~R!Held(o) /\ payments[o] = P!NoPayment /\ charges[o] = 0
  <1>1. /\ orders[o].status = "CONFIRMED" => payments[o].status = "SUCCEEDED"
        /\ orders[o].status = "PAYMENT_FAILED" => payments[o].status = "FAILED"
        /\ orders[o].status = "STOCK_UNAVAILABLE" => Said(restaurantOutbox, "stock.rejected", o)
    BY DEF FlowInv, StatusIsEarned
  <1>2. /\ payments[o] # P!NoPayment <=> payments[o].status # "ABSENT"
        /\ charges[o] \in Nat /\ (charges[o] > 0 => payments[o] # P!NoPayment)
    BY PaymentFacts DEF FlowInv, ServicesInv
  <1>3. orders[o].status = "CONFIRMED" => R!Held(o)
    BY <1>1, <1>2, OrderIsConsistent
  <1>4. orders[o].status = "STOCK_UNAVAILABLE" => ~R!Held(o) /\ payments[o] = P!NoPayment
    BY <1>1, OrderIsConsistent
  <1>. QED
    BY <1>1, <1>2, <1>3, <1>4

\* What GET /orders answers is true of the stock and of the payments.
THEOREM AnswerIsTrue == Spec => []StatusIsTrue
  <1>1. FlowInv => StatusIsTrue
    BY TrueOfOne DEF StatusIsTrue
  <1>. QED
    BY <1>1, FlowInvariant, PTL

\* An order has one verdict.
LEMMA VerdictOfOne ==
    ASSUME FlowInv, NEW o \in Order
    PROVE  Cardinality(R!Rows(restaurantOutbox, "stock.reserved", o)
                       \cup R!Rows(restaurantOutbox, "stock.rejected", o)) <= 1
  <1>. DEFINE verdicts == R!Rows(restaurantOutbox, "stock.reserved", o)
                             \cup R!Rows(restaurantOutbox, "stock.rejected", o)
  <1>1. \A i, j \in verdicts : i = j
    BY DEF R!Rows, FlowInv, VerdictOnce
  <1>. HIDE DEF verdicts
  <1>2. Cardinality(verdicts) <= 1
    <2>1. CASE verdicts = {}
      <3>1. Cardinality({}) = 0
        BY FS_EmptySet, Zenon
      <3>. QED
        BY <2>1, <3>1
    <2>2. CASE \E i : i \in verdicts
      <3>1. PICK i : verdicts = {i}
        BY <1>1, <2>2
      <3>2. Cardinality({i}) = 1
        BY FS_Singleton, Zenon
      <3>. QED
        BY <3>1, <3>2
    <2>. QED
      BY <2>1, <2>2
  <1>. QED
    BY <1>2 DEF verdicts

\* An order gets one answer of the restaurant, however often its placement is
\* delivered.
THEOREM OneVerdict == Spec => []OneStockVerdict
  <1>1. FlowInv => OneStockVerdict
    BY VerdictOfOne DEF OneStockVerdict
  <1>. QED
    BY <1>1, FlowInvariant, PTL

\* A final status is the one the order's directive asks for.
LEMMA DirectiveOfOne ==
    ASSUME FlowInv, NEW o \in Order
    PROVE  /\ orders[o].status = "CONFIRMED" =>
                 orders[o].request.simulate # "failure"
           /\ orders[o].status = "PAYMENT_FAILED" =>
                 orders[o].request.simulate # "success"
  <1>1. /\ orders[o].status = "CONFIRMED" => payments[o].status = "SUCCEEDED"
        /\ orders[o].status = "PAYMENT_FAILED" => payments[o].status = "FAILED"
    BY DEF FlowInv, StatusIsEarned
  <1>2. payments[o].status \in {"SUCCEEDED", "FAILED"} =>
            /\ payments[o].status = P!Outcome(orders[o].request.simulate)
    BY PaymentFacts, OrderIsConsistent DEF FlowInv, ServicesInv
  <1>. QED
    BY <1>1, <1>2 DEF P!Outcome

\* The outcome is the one the X-Payment-Simulate of the order asked for.
THEOREM DirectiveDecidesTheOrder == Spec => []DirectiveHonoured
  <1>1. FlowInv => DirectiveHonoured
    BY DirectiveOfOne DEF DirectiveHonoured
  <1>. QED
    BY <1>1, FlowInvariant, PTL

\* Stock that was set aside is given back to the shelf only after its order
\* has failed.
THEOREM StockWaitsForTheOrder == Spec => StockReturnsOnlyOnFailure
  <1>1. ASSUME FlowInv, [Next]_vars, NEW o \in Order, R!Held(o), ~R!Held(o)'
        PROVE  orders[o].status = "PAYMENT_FAILED"
    <2>1. reservations' # reservations
      BY <1>1 DEF R!Held
    <2>2. RestaurantConsumes
      BY <1>1, <2>1 DEF Next, vars, restaurantDb, PlaceOrder, OrderConsumes, OrderRelays,
         RestaurantRelays, PaymentConsumes, PaymentCall, PaymentSweep, PaymentAges, PaymentStep,
         PaymentRelays, Commits, Crash, RelayInterrupted, PaymentTaskFails, HandlerRaises
    <2>3. reservations \in [Order -> R!ReservationRow \cup {R!NoReservation}]
      BY <1>1, RestaurantFacts DEF FlowInv, ServicesInv
    <2>4. CASE \E p \in Order : Reserves(p)
      BY <1>1, <2>3, <2>4 DEF Reserves, R!Reserve, R!Held
    <2>5. CASE \E p \in Order : Rejects(p)
      BY <2>1, <2>5 DEF Rejects
    <2>6. CASE \E p \in Order : Releases(p)
      BY <1>1, <2>3, <2>6 DEF Releases, R!Release, R!Held
    <2>. QED
      BY <1>1, <2>1, <2>2, <2>4, <2>5, <2>6, RestaurantConsumesEffect
  <1>2. FlowInv /\ [Next]_vars => [\A o \in Order :
            R!Held(o) /\ ~R!Held(o)' => orders[o].status = "PAYMENT_FAILED"]_vars
    BY <1>1
  <1>. QED
    BY <1>2, FlowInvariant, PTL DEF Spec, StockReturnsOnlyOnFailure

\* The sum that RestaurantService keeps is the one that is checked here.
LEMMA SameTotals == R!StockConserved <=> RS!StockConserved
  <1>1. \A i : R!HeldTotal(i) = RS!HeldTotal(i)
    BY DEF R!HeldTotal, RS!HeldTotal, R!MapThenSumSet, RS!MapThenSumSet, R!MapThenFoldSet,
       RS!MapThenFoldSet, R!HeldOf, RS!HeldOf, R!Held, RS!Held
  <1>. QED
    BY <1>1 DEF R!StockConserved, RS!StockConserved

\* Stock and reservations are the restaurant's alone, and it moves portions
\* between the menu and one order at a time.
LEMMA StockMovesOrStays ==
    ASSUME FlowInv, [Next]_vars
    PROVE  RS!MovesWithOne \/ UNCHANGED <<stock, reservations>>
  <1>1. CASE RestaurantConsumes
    <2>1. PICK t \in K!RestaurantTopics : K!Advance(t) /\ R!Handle(K!NextEvent(t))
      BY <1>1 DEF RestaurantConsumes
    <2>2. t \in EventType
      BY <2>1, TopicTypes
    <2>3. K!NextEvent(t) \in Event
      BY <2>1, <2>2, NextIsWritten DEF FlowInv, K!Advance
    <2>4. RS!Next
      BY <2>1, <2>3, RestaurantHandles
    <2>. QED
      BY <2>4, Assumptions, RS!StepIInv DEF FlowInv, ServicesInv, RS!vars
  <1>2. CASE ~RestaurantConsumes
    BY <1>2 DEF Next, vars, restaurantDb, PlaceOrder, OrderConsumes, OrderRelays,
       RestaurantRelays, PaymentConsumes, PaymentCall, PaymentSweep, PaymentAges, PaymentStep,
       PaymentRelays, Commits, Crash, RelayInterrupted, PaymentTaskFails, HandlerRaises
  <1>. QED
    BY <1>1, <1>2

\* No portion is sold twice and none is lost, through any replay, crash and
\* compensation: the reservations of all the orders and the stock add up to
\* what was seeded, however many orders there are.
THEOREM StockIsConserved == Spec => []StockConserved
  <1>1. Init => StockConserved
    <2>1. Init => RS!Init
      BY DEF Init, R!Init, RS!Init, R!NoReservation, RS!NoReservation
    <2>. QED
      BY <2>1, Assumptions, SameTotals, RS!NothingHeldFirst DEF StockConserved
  <1>2. ASSUME FlowInv, FlowInv', StockConserved, [Next]_vars PROVE StockConserved'
    <2>1. RS!TypeOK /\ RS!TypeOK' /\ RS!StockConserved
      BY <1>2, SameTotals DEF FlowInv, ServicesInv, RS!IInv, StockConserved
    <2>2. RS!StockConserved'
      BY <1>2, <2>1, StockMovesOrStays, Assumptions, RS!MovesConserve, RS!RestConserves
    <2>3. (R!StockConserved <=> RS!StockConserved)'
      BY SameTotals, PTL
    <2>. QED
      BY <2>2, <2>3 DEF StockConserved
  <1>. QED
    BY <1>1, <1>2, FlowInvariant, PTL DEF Spec

\* What an order may be charged is paid for: two charges come with the order, and
\* every other one with a fault.
ChargesCovered ==
    /\ faults \in Nat
    /\ PS!SweepInOrder
    /\ \A o \in Order : PS!Bill(o) <= 2 + faults

\* The payment service charges on its own account, or a fault cut its sweep short.
LEMMA ChargesStepOrFault ==
    ASSUME FlowInv, [Next]_vars
    PROVE  \/ [PS!Undisturbed]_(PS!vars) /\ (faults' = faults \/ faults' = faults + 1)
           \/ (PS!AbandonSweep \/ PS!Restart) /\ faults' = faults + 1
  <1>1. CASE PaymentConsumes
    <2>1. PICK t \in K!PaymentTopics : K!Advance(t) /\ P!Handle(K!NextEvent(t))
      BY <1>1 DEF PaymentConsumes
    <2>2. t \in EventType /\ t = "stock.reserved"
      BY <2>1, TopicTypes DEF K!PaymentTopics
    <2>3. K!NextEvent(t) \in Event /\ K!NextEvent(t).type = "stock.reserved"
      BY <2>1, <2>2, NextIsWritten DEF FlowInv, K!Advance
    <2>. QED
      BY <1>1, <2>1, <2>3, PaymentHandles DEF PaymentConsumes, budget
  <1>2. CASE PaymentCall \/ PaymentSweep \/ \E o \in Order : PaymentAges(o)
    BY <1>2, PaymentTasks
       DEF PaymentCall, PaymentSweep, PaymentAges, PaymentStep, PaymentActs, budget
  <1>3. CASE PaymentTaskFails
    BY <1>3, PaymentTasks DEF PaymentTaskFails, Fault, PaymentActs, P!Lose
  <1>4. CASE Crash
    <2>1. CASE UNCHANGED paymentState
      BY <1>4, <2>1 DEF Crash, Fault, PS!vars, paymentState
    <2>2. CASE P!Restart
      BY <1>4, <2>2, PaymentTasks DEF Crash, Fault, PaymentActs, P!Lose
    <2>. QED
      BY <1>4, <2>1, <2>2 DEF Crash
  <1>5. CASE PaymentRelays
    BY <1>5 DEF PaymentRelays, PaymentRelay!Publish, PS!vars, budget
  <1>6. CASE RelayInterrupted \/ HandlerRaises
    BY <1>6 DEF RelayInterrupted, HandlerRaises, Fault, PS!vars, paymentState
  <1>7. CASE UNCHANGED <<paymentState, budget>>
    BY <1>7 DEF PS!vars, paymentState, budget
  <1>. QED
    BY <1>1, <1>2, <1>3, <1>4, <1>5, <1>6, <1>7 DEF Next, vars, PlaceOrder, OrderConsumes,
       OrderRelays, RestaurantConsumes, RestaurantRelays, Commits

\* README.md:148, quantified: whatever is replayed and however slow a task is, an
\* order is charged twice at most without a fault, and once more for each.
THEOREM ChargesAreBounded == Spec => []ChargesNeedFaults
  <1>1. Init => ChargesCovered
    <2>1. Init => PS!Init
      BY DEF Init, P!Init, PS!Init, P!NoPayment, PS!NoPayment
    <2>2. PS!Init => PS!SweepInOrder /\ \A o \in Order : PS!Bill(o) = 2
      BY Assumptions, PS!FirstBill
    <2>. QED
      BY <2>1, <2>2 DEF Init, ChargesCovered
  <1>2. FlowInv => \A o \in Order : PS!Bill(o) \in Nat /\ charges[o] <= PS!Bill(o)
    BY DEF FlowInv, ServicesInv, PS!IInv, PS!TypeOK, PS!Bill
  <1>3. FlowInv' => \A o \in Order : PS!Bill(o)' \in Nat
    BY DEF FlowInv, ServicesInv, PS!IInv, PS!TypeOK, PS!Bill
  <1>4. ASSUME FlowInv, FlowInv', ChargesCovered, [Next]_vars
        PROVE  ChargesCovered'
    <2>1. PS!IInv /\ PS!SweepInOrder
      BY <1>4 DEF FlowInv, ServicesInv, ChargesCovered
    <2>2. CASE [PS!Undisturbed]_(PS!vars) /\ (faults' = faults \/ faults' = faults + 1)
      <3>1. PS!SweepInOrder' /\ \A o \in Order : PS!Bill(o)' <= PS!Bill(o)
        BY <2>1, <2>2, Assumptions, PS!NothingIsAdded
      <3>. QED
        BY <1>2, <1>3, <1>4, <2>2, <3>1 DEF ChargesCovered
    <2>3. CASE (PS!AbandonSweep \/ PS!Restart) /\ faults' = faults + 1
      <3>1. PS!SweepInOrder' /\ \A o \in Order : PS!Bill(o)' <= PS!Bill(o) + 1
        BY <2>1, <2>3, Assumptions, PS!InterruptionAddsOne
      <3>. QED
        BY <1>2, <1>3, <1>4, <2>3, <3>1 DEF ChargesCovered
    <2>. QED
      BY <1>4, <2>2, <2>3, ChargesStepOrFault
  <1>5. FlowInv /\ ChargesCovered => ChargesNeedFaults
    BY <1>2 DEF ChargesCovered, ChargesNeedFaults, FlowInv, ServicesInv, PS!IInv, PS!TypeOK
  <1>. QED
    BY <1>1, <1>4, <1>5, FlowInvariant, PTL DEF Spec

\* The budget is kept, whatever it is spent on.
BudgetOK == faults \in 0..MaxFaults /\ drops \in 0..MaxDrops

\* No failure happens beyond the budget.
LEMMA BudgetKept == BudgetOK /\ [Next]_vars => BudgetOK'
  <1>. SUFFICES ASSUME BudgetOK, [Next]_vars PROVE BudgetOK'
    OBVIOUS
  <1>1. CASE UNCHANGED budget
    BY <1>1 DEF BudgetOK, budget
  <1>2. CASE Fault
    BY <1>2, FoodFlowAssumption DEF BudgetOK, Fault
  <1>3. CASE HandlerRaises
    BY <1>3, FoodFlowAssumption DEF BudgetOK, HandlerRaises
  <1>. QED
    BY <1>1, <1>2, <1>3 DEF Next, vars, PlaceOrder, OrderConsumes, OrderRelays,
       RestaurantConsumes, RestaurantRelays, PaymentConsumes, PaymentCall, PaymentSweep,
       PaymentAges, PaymentStep, PaymentRelays, Commits, Crash, RelayInterrupted, PaymentTaskFails

\* Every table, topic, offset and counter has its type.
THEOREM FlowTypes == Spec => []TypeOK
  <1>1. Init => BudgetOK
    BY FoodFlowAssumption DEF Init, BudgetOK
  <1>2. FlowInv /\ BudgetOK => TypeOK
    <2>. SUFFICES ASSUME FlowInv, BudgetOK PROVE TypeOK
      OBVIOUS
    <2>1. OS!TypeOK /\ RS!TypeOK /\ PS!TypeOK
      BY DEF FlowInv, ServicesInv, OS!IInv, RS!IInv, PS!IInv
    <2>2. O!TypeOK
      BY <2>1, SameEvents DEF O!TypeOK, OS!TypeOK, O!OrderRow, OS!OrderRow, O!Status,
         OS!Status, O!NoOrder, OS!NoOrder, O!EventId, OS!EventId, O!EventType, OS!EventType,
         O!OrderEvents, OS!OrderEvents, O!RestaurantEvents, OS!RestaurantEvents,
         O!PaymentEvents, OS!PaymentEvents
    <2>3. R!TypeOK
      BY <2>1, SameEvents DEF R!TypeOK, RS!TypeOK, R!ReservationRow, RS!ReservationRow,
         R!NoReservation, RS!NoReservation, R!Basket, RS!Basket, R!EventId, RS!EventId,
         R!EventType, RS!EventType, R!OrderEvents, RS!OrderEvents, R!RestaurantEvents,
         RS!RestaurantEvents, R!PaymentEvents, RS!PaymentEvents
    <2>4. P!TypeOK
      BY <2>1, SameEvents DEF P!TypeOK, PS!TypeOK, P!PaymentRow, PS!PaymentRow, P!NoPayment,
         PS!NoPayment, P!Directive, PS!Directive, P!EventId, PS!EventId, P!EventType,
         PS!EventType, P!OrderEvents, PS!OrderEvents, P!RestaurantEvents,
         PS!RestaurantEvents, P!PaymentEvents, PS!PaymentEvents
    <2>. QED
      BY <2>2, <2>3, <2>4 DEF TypeOK, FlowInv, BrokerTypeOK, RelaysTypeOK, BudgetOK
  <1>. QED
    BY <1>1, <1>2, BudgetKept, FlowInvariant, PTL DEF Spec

-----------------------------------------------------------------------------
(* The saga is kept *)

\* The stage of an order, without the CASE.
StageIs(o) ==
    LET rejected == Said(restaurantOutbox, "stock.rejected", o)
        none     == payments[o] = P!NoPayment
        held     == R!Held(o)
    IN  /\ ~Placed(o) => StageOf(o) = "absent" /\ none /\ ~held /\ ~rejected
        /\ payments[o].status = "SUCCEEDED" => StageOf(o) = "paid"
        /\ payments[o].status = "FAILED" =>
              StageOf(o) = IF held THEN "declined" ELSE "returned"
        /\ payments[o].status = "PROCESSING" => StageOf(o) = "reserved"
        /\ none /\ held => StageOf(o) = "reserved"
        /\ rejected => StageOf(o) = "rejected" /\ none /\ ~held
        /\ Placed(o) /\ none /\ ~held /\ ~rejected => StageOf(o) = "placed"

\* The stage that the refinement reads off an order is the one its tables say.
LEMMA Stages == FlowInv => \A o \in Order : StageIs(o)
  <1>. SUFFICES ASSUME FlowInv, NEW o \in Order PROVE StageIs(o)
    OBVIOUS
  <1>1. /\ payments[o] # P!NoPayment <=> payments[o].status # "ABSENT"
        /\ payments[o] # P!NoPayment => payments[o] \in P!PaymentRow
    BY PaymentFacts DEF FlowInv, ServicesInv
  <1>2. R!Said(restaurantOutbox, "stock.rejected", o) <=>
            Said(restaurantOutbox, "stock.rejected", o)
    BY DEF R!Said, R!Rows, Said, Rows
  <1>3. payments[o].status \in {"ABSENT", "PROCESSING", "SUCCEEDED", "FAILED"}
    BY <1>1 DEF P!PaymentRow
  <1>4. /\ ~Placed(o) => /\ payments[o] = P!NoPayment /\ ~R!Held(o)
                         /\ ~Said(restaurantOutbox, "stock.rejected", o)
        /\ Said(restaurantOutbox, "stock.rejected", o) => payments[o] = P!NoPayment /\ ~R!Held(o)
    BY OrderIsConsistent
  <1>. QED
    BY <1>1, <1>2, <1>3, <1>4 DEF StageIs, StageOf

\* And so it is after a step.
LEMMA StagesAfter == FlowInv' => \A o \in Order : StageIs(o)'
  <1>1. FlowInv' => (\A o \in Order : StageIs(o))'
    BY Stages, PTL
  <1>. QED
    BY <1>1

\* The tables that the stage of an order is read from.
Seen == <<orders, stock, reservations, restaurantOutbox, payments>>

\* A step that changes nothing the stages depend on is none of the saga's.
LEMMA Unseen ==
    ASSUME UNCHANGED Seen
    PROVE  UNCHANGED Promise!vars
  <1>1. UNCHANGED <<orders, stock, reservations, restaurantOutbox, payments>>
    BY DEF Seen
  <1>2. ASSUME NEW o \in Order
        PROVE  StageOf(o)' = StageOf(o) /\ Placed(o)' = Placed(o)
    BY <1>1 DEF StageOf, Placed, R!Held, R!Said, R!Rows, P!NoPayment, O!NoOrder
  <1>3. [o \in Order |-> StageOf(o)]' = [o \in Order |-> StageOf(o)]
    BY <1>2
  <1>4. [o \in Order |-> IF Placed(o) THEN orders[o].request ELSE NoRequest]' =
            [o \in Order |-> IF Placed(o) THEN orders[o].request ELSE NoRequest]
    BY <1>1, <1>2
  <1>. QED
    BY <1>1, <1>3, <1>4 DEF Promise!vars

\* One order moves on, or none.
LEMMA OneMoves ==
    ASSUME NEW o \in Order, NEW to, StageOf(o)' = to,
           \A p \in Order : p # o => StageOf(p)' = StageOf(p)
    PROVE  [p \in Order |-> StageOf(p)]' = [[p \in Order |-> StageOf(p)] EXCEPT ![o] = to]
  OBVIOUS

\* The requests of the orders stay what they are.
LEMMA SameRequests ==
    ASSUME UNCHANGED orders
    PROVE  /\ [p \in Order |-> IF Placed(p) THEN orders[p].request ELSE NoRequest]' =
                  [p \in Order |-> IF Placed(p) THEN orders[p].request ELSE NoRequest]
           /\ [p \in Order |-> orders[p].status]' = [p \in Order |-> orders[p].status]
  BY DEF Placed, O!NoOrder

\* What is not touched keeps its stage.
LEMMA OthersStay ==
    ASSUME NEW p \in Order, orders'[p] = orders[p] \/ (Placed(p) /\ Placed(p)'),
           R!Held(p)' = R!Held(p), payments'[p] = payments[p],
           Said(restaurantOutbox', "stock.rejected", p) <=> Said(restaurantOutbox, "stock.rejected", p)
    PROVE  StageOf(p)' = StageOf(p)
  <1>1. Placed(p)' <=> Placed(p)
    BY DEF Placed, O!NoOrder
  <1>2. R!Said(restaurantOutbox, "stock.rejected", p)' <=>
            R!Said(restaurantOutbox, "stock.rejected", p)
    BY DEF R!Said, R!Rows, Said, Rows
  <1>. QED
    BY <1>1, <1>2 DEF StageOf, P!NoPayment

\* POST /orders: an order is accepted.
LEMMA PlaceOrderAccepts ==
    ASSUME FlowInv, FlowInv', PlaceOrder
    PROVE  Promise!Next
  <1>1. PICK o \in Order, r \in Request : O!CreateOrder(o, r)
    BY DEF PlaceOrder
  <1>. DEFINE row == [status |-> "PENDING", request |-> r]
  <1>2. ~Placed(o) /\ orders' = [orders EXCEPT ![o] = row]
    BY <1>1 DEF O!CreateOrder, Placed
  <1>3. UNCHANGED <<stock, reservations, restaurantOutbox, payments>>
    BY DEF PlaceOrder, restaurantDb, paymentState
  <1>4. /\ orders \in [Order -> O!OrderRow \cup {O!NoOrder}]
        /\ Placed(o) <=> orders[o].status # "ABSENT"
    BY OrderFacts DEF FlowInv, ServicesInv
  <1>5. /\ orders'[o] = row /\ row # O!NoOrder
        /\ \A p \in Order : p # o => orders'[p] = orders[p]
    BY <1>2, <1>4 DEF O!NoOrder
  <1>6. \A p \in Order : p # o => StageOf(p)' = StageOf(p)
    BY <1>3, <1>5, OthersStay DEF R!Held
  <1>7. Placed(o)'
    BY <1>5 DEF Placed, O!NoOrder
  <1>8. StageOf(o) = "absent" /\ StageOf(o)' = "placed"
    <2>1. StageIs(o) /\ StageIs(o)'
      BY Stages, StagesAfter
    <2>. QED
      BY <1>2, <1>3, <1>7, <2>1 DEF StageIs, R!Held, P!NoPayment
  <1>9. [p \in Order |-> StageOf(p)]' = [[p \in Order |-> StageOf(p)] EXCEPT ![o] = "placed"]
    BY <1>6, <1>8, OneMoves
  <1>10. [p \in Order |-> orders[p].status]' =
             [[p \in Order |-> orders[p].status] EXCEPT ![o] = "PENDING"]
    <2>1. orders'[o].status = "PENDING"
      BY <1>5
    <2>2. \A p \in Order : p # o => orders'[p].status = orders[p].status
      BY <1>5
    <2>. QED
      BY <2>1, <2>2
  <1>11. [p \in Order |-> IF Placed(p) THEN orders[p].request ELSE NoRequest]' =
             [[p \in Order |-> IF Placed(p) THEN orders[p].request ELSE NoRequest]
                 EXCEPT ![o] = r]
    <2>1. \A p \in Order : p # o => (Placed(p)' <=> Placed(p))
      BY <1>5 DEF Placed, O!NoOrder
    <2>2. orders'[o].request = r
      BY <1>5
    <2>3. \A p \in Order : p # o => orders'[p].request = orders[p].request
      BY <1>5
    <2>. QED
      BY <1>7, <2>1, <2>2, <2>3
  <1>12. Promise!Accept(o, r)
    BY <1>3, <1>8, <1>9, <1>10, <1>11 DEF Promise!Accept, Promise!Move
  <1>. QED
    BY <1>12 DEF Promise!Next

\* A verdict reaches the order: its client is told.
LEMMA OrderConsumesTells ==
    ASSUME FlowInv, FlowInv', OrderConsumes
    PROVE  Promise!Next \/ UNCHANGED Promise!vars
  <1>1. PICK t \in K!OrderTopics : K!Advance(t) /\ O!Handle(K!NextEvent(t))
    BY DEF OrderConsumes
  <1>2. UNCHANGED <<stock, reservations, restaurantOutbox, payments>>
    BY DEF OrderConsumes, restaurantDb, paymentState
  <1>3. K!NextEvent(t) \in Event /\ K!NextEvent(t).type = t /\ K!NextEvent(t).payload.order \in Order
    BY <1>1, NextIsWritten, TopicTypes DEF FlowInv, K!Advance
  <1>4. CASE UNCHANGED orders
    BY <1>2, <1>4, Unseen DEF Seen
  <1>5. ASSUME NEW o \in Order, Placed(o), orders[o].status = "PENDING",
               orders' = [orders EXCEPT ![o].status = O!TargetStatus(t)]
        PROVE  Promise!Next
    <2>1. /\ orders \in [Order -> O!OrderRow \cup {O!NoOrder}]
          /\ orders[o] \in O!OrderRow
      BY <1>5, OrderFacts DEF FlowInv, ServicesInv
    <2>2. /\ orders'[o].status = O!TargetStatus(t) /\ orders'[o].request = orders[o].request
          /\ \A p \in Order : p # o => orders'[p] = orders[p]
      BY <1>5, <2>1 DEF O!OrderRow
    <2>3. orders'[o].status \in {"CONFIRMED", "PAYMENT_FAILED", "STOCK_UNAVAILABLE"}
      BY <2>2, TopicTypes DEF O!TargetStatus
    <2>4. Placed(o)'
      BY <2>3, <2>2 DEF Placed, O!NoOrder
    <2>5. \A p \in Order : StageOf(p)' = StageOf(p)
      BY <1>2, <1>5, <2>2, <2>4, OthersStay DEF R!Held
    <2>6. StageOf(o) = CASE orders'[o].status = "CONFIRMED" -> "paid"
                         [] orders'[o].status = "PAYMENT_FAILED" -> "declined"
                         [] orders'[o].status = "STOCK_UNAVAILABLE" -> "rejected"
      <3>1. /\ orders'[o].status = "CONFIRMED" => payments[o].status = "SUCCEEDED"
            /\ orders'[o].status = "PAYMENT_FAILED" => payments[o].status = "FAILED"
            /\ orders'[o].status = "STOCK_UNAVAILABLE" =>
                  Said(restaurantOutbox, "stock.rejected", o)
        BY <1>2 DEF FlowInv, StatusIsEarned
      <3>2. payments[o].status = "FAILED" => R!Held(o)
        <4>1. payments[o].status = "FAILED" => payments[o] # P!NoPayment
          BY PaymentFacts DEF FlowInv, ServicesInv
        <4>. QED
          BY <1>5, <4>1, OrderIsConsistent
      <3>3. StageIs(o)
        BY Stages
      <3>. QED
        BY <2>3, <3>1, <3>2, <3>3 DEF StageIs
    <2>7. [p \in Order |-> StageOf(p)]' = [p \in Order |-> StageOf(p)]
      BY <2>5
    <2>8. [p \in Order |-> orders[p].status]' =
              [[p \in Order |-> orders[p].status] EXCEPT ![o] = Promise!Verdict[StageOf(o)]]
      <3>1. orders'[o].status = Promise!Verdict[StageOf(o)]
        BY <2>3, <2>6 DEF Promise!Verdict
      <3>2. \A p \in Order : p # o => orders'[p].status = orders[p].status
        BY <2>2
      <3>. HIDE DEF Promise!Verdict
      <3>. QED
        BY <3>1, <3>2
    <2>9. [p \in Order |-> IF Placed(p) THEN orders[p].request ELSE NoRequest]' =
              [p \in Order |-> IF Placed(p) THEN orders[p].request ELSE NoRequest]
      <3>1. \A p \in Order : p # o => (Placed(p)' <=> Placed(p))
        BY <2>2 DEF Placed, O!NoOrder
      <3>. QED
        BY <1>5, <2>2, <2>4, <3>1
    <2>10. StageOf(o) \in DOMAIN Promise!Verdict
      BY <2>3, <2>6 DEF Promise!Verdict
    <2>11. Promise!Tell(o)
      BY <1>2, <1>5, <2>7, <2>8, <2>9, <2>10 DEF Promise!Tell
    <2>. QED
      BY <2>11 DEF Promise!Next
  <1>. QED
    BY <1>1, <1>3, <1>4, <1>5, OrderHandleEffect

\* The verdict is the only thing that has been said in addition.
LEMMA RejectionSaid ==
    ASSUME FlowInv, NEW o \in Order, Reserves(o) \/ Rejects(o)
    PROVE  \A p \in Order : Said(restaurantOutbox', "stock.rejected", p) <=>
               Said(restaurantOutbox, "stock.rejected", p) \/ (p = o /\ Rejects(o))
  <1>1. /\ restaurantOutbox \in Seq(Event) /\ orders[o] \in O!OrderRow
        /\ R!Reserve(o, orders[o].request.items) => R!Sufficient(orders[o].request.items)
    BY RestaurantFacts, OrderFacts DEF FlowInv, ServicesInv, Reserves, Rejects, Fresh, R!Reserve
  <1>2. CASE Reserves(o)
    <2>. DEFINE payload == Placement(o, orders[o].request)
                e == WrapEvent("stock.reserved", payload, restaurantOutbox)
    <2>1. payload \in FullPayload
      BY <1>1, RequestAssumption DEF Placement, FullPayload, O!OrderRow
    <2>2. e \in Event /\ e.type = "stock.reserved"
      BY <1>1, <2>1, WrapFull, TopicTypes
    <2>. HIDE DEF payload
    <2>3. restaurantOutbox' = Append(restaurantOutbox, e)
      BY <1>2 DEF Reserves, Emit, payload
    <2>. HIDE DEF e
    <2>4. \A p \in Order : Said(restaurantOutbox', "stock.rejected", p) <=>
                               Said(restaurantOutbox, "stock.rejected", p)
      BY <1>1, <2>2, <2>3, SaidAppend
    <2>. QED
      BY <1>1, <1>2, <2>4 DEF Reserves, Rejects
  <1>3. CASE Rejects(o)
    <2>. DEFINE e == WrapEvent("stock.rejected", Bare(o), restaurantOutbox)
    <2>1. e \in Event /\ e.type = "stock.rejected" /\ e.payload.order = o
      BY <1>1, WrapBare, TopicTypes
    <2>2. restaurantOutbox' = Append(restaurantOutbox, e)
      BY <1>3 DEF Rejects, Emit
    <2>. HIDE DEF e
    <2>3. \A p \in Order : Said(restaurantOutbox', "stock.rejected", p) <=>
                               Said(restaurantOutbox, "stock.rejected", p) \/ p = o
      BY <1>1, <2>1, <2>2, SaidAppend
    <2>. QED
      BY <1>3, <2>3
  <1>. QED
    BY <1>2, <1>3

\* An order without a verdict is just placed.
LEMMA FreshIsPlaced ==
    ASSUME FlowInv, NEW o \in Order, Fresh(o)
    PROVE  /\ StageOf(o) = "placed" /\ payments[o] = P!NoPayment /\ ~R!Held(o)
           /\ ~Said(restaurantOutbox, "stock.rejected", o)
  <1>1. \A type : ~Said(restaurantOutbox, type, o)
    BY DEF Fresh, Said, Rows
  <1>2. StageIs(o)
    BY Stages
  <1>. QED
    BY <1>1, <1>2, OrderIsConsistent DEF StageIs, Fresh

\* A reservation is the saga's Reserve.
LEMMA RestaurantReserves ==
    ASSUME FlowInv, FlowInv', NEW o \in Order, Reserves(o), UNCHANGED <<orders, payments>>
    PROVE  Promise!Next
  <1>1. /\ Fresh(o) /\ R!Sufficient(orders[o].request.items)
        /\ stock' = [i \in Item |-> stock[i] - orders[o].request.items[i]]
        /\ reservations' =
              [reservations EXCEPT ![o] = [held |-> TRUE, items |-> orders[o].request.items]]
    BY DEF Reserves, R!Reserve
  <1>2. reservations \in [Order -> R!ReservationRow \cup {R!NoReservation}]
    BY RestaurantFacts DEF FlowInv, ServicesInv
  <1>3. R!Held(o)' /\ \A p \in Order : p # o => R!Held(p)' = R!Held(p)
    BY <1>1, <1>2 DEF R!Held
  <1>4. \A p \in Order : Said(restaurantOutbox', "stock.rejected", p) <=>
                             Said(restaurantOutbox, "stock.rejected", p)
    BY <1>1, RejectionSaid DEF Rejects
  <1>5. \A p \in Order : p # o => StageOf(p)' = StageOf(p)
    BY <1>3, <1>4, OthersStay
  <1>6. StageOf(o) = "placed" /\ StageOf(o)' = "reserved"
    <2>1. StageOf(o) = "placed" /\ payments[o] = P!NoPayment
      BY <1>1, FreshIsPlaced
    <2>2. StageIs(o)'
      BY StagesAfter
    <2>. QED
      BY <1>3, <2>1, <2>2 DEF StageIs, P!NoPayment
  <1>7. [p \in Order |-> StageOf(p)]' = [[p \in Order |-> StageOf(p)] EXCEPT ![o] = "reserved"]
    BY <1>5, <1>6, OneMoves
  <1>8. Promise!Reserve(o)
    <2>1. Placed(o)
      BY <1>1 DEF Fresh
    <2>. QED
      BY <1>1, <1>6, <1>7, <2>1, SameRequests DEF Promise!Reserve, Promise!Move,
         Promise!Available, R!Sufficient
  <1>. QED
    BY <1>8 DEF Promise!Next

\* A rejection is the saga's Reject.
LEMMA RestaurantRejects ==
    ASSUME FlowInv, FlowInv', NEW o \in Order, Rejects(o), UNCHANGED <<orders, payments>>
    PROVE  Promise!Next
  <1>1. /\ Fresh(o) /\ ~R!Sufficient(orders[o].request.items)
        /\ UNCHANGED <<stock, reservations>>
    BY DEF Rejects
  <1>2. \A p \in Order : R!Held(p)' = R!Held(p)
    BY <1>1 DEF R!Held
  <1>3. \A p \in Order : Said(restaurantOutbox', "stock.rejected", p) <=>
                             Said(restaurantOutbox, "stock.rejected", p) \/ p = o
    BY RejectionSaid
  <1>4. \A p \in Order : p # o => StageOf(p)' = StageOf(p)
    BY <1>2, <1>3, OthersStay
  <1>5. StageOf(o) = "placed" /\ StageOf(o)' = "rejected"
    <2>1. StageOf(o) = "placed" /\ StageIs(o)'
      BY <1>1, FreshIsPlaced, StagesAfter
    <2>. QED
      BY <1>3, <2>1 DEF StageIs
  <1>6. [p \in Order |-> StageOf(p)]' = [[p \in Order |-> StageOf(p)] EXCEPT ![o] = "rejected"]
    BY <1>4, <1>5, OneMoves
  <1>7. Promise!Reject(o)
    <2>1. Placed(o)
      BY <1>1 DEF Fresh
    <2>. QED
      BY <1>1, <1>5, <1>6, <2>1, SameRequests DEF Promise!Reject, Promise!Move,
         Promise!Available, R!Sufficient
  <1>. QED
    BY <1>7 DEF Promise!Next

\* A release is the saga's Return.
LEMMA RestaurantReleases ==
    ASSUME FlowInv, FlowInv', NEW o \in Order, Releases(o), UNCHANGED <<orders, payments>>
    PROVE  Promise!Next \/ UNCHANGED Promise!vars
  <1>1. /\ orders[o].status = "PAYMENT_FAILED" /\ payments[o].status = "FAILED"
        /\ UNCHANGED restaurantOutbox
        /\ stock' = IF R!Held(o)
                    THEN [i \in Item |-> stock[i] + reservations[o].items[i]]
                    ELSE stock
        /\ reservations' = [reservations EXCEPT ![o] = R!NoReservation]
    BY DEF Releases, R!Release, FlowInv, StatusIsEarned
  <1>2. /\ reservations \in [Order -> R!ReservationRow \cup {R!NoReservation}]
        /\ ~R!Held(o) => reservations[o] = R!NoReservation
    BY RestaurantFacts DEF FlowInv, ServicesInv
  <1>3. CASE ~R!Held(o)
    <2>1. UNCHANGED <<stock, reservations>>
      BY <1>1, <1>2, <1>3
    <2>. QED
      BY <1>1, <2>1, Unseen DEF Seen
  <1>4. CASE R!Held(o)
    <2>1. ~R!Held(o)' /\ \A p \in Order : p # o => R!Held(p)' = R!Held(p)
      BY <1>1, <1>2 DEF R!Held, R!NoReservation
    <2>2. \A p \in Order : p # o => StageOf(p)' = StageOf(p)
      BY <1>1, <2>1, OthersStay
    <2>3. StageOf(o) = "declined" /\ StageOf(o)' = "returned"
      <3>1. StageIs(o) /\ StageIs(o)'
        BY Stages, StagesAfter
      <3>. QED
        BY <1>1, <1>4, <2>1, <3>1 DEF StageIs
    <2>4. [p \in Order |-> StageOf(p)]' = [[p \in Order |-> StageOf(p)] EXCEPT ![o] = "returned"]
      BY <2>2, <2>3, OneMoves
    <2>5. Placed(o) /\ reservations[o].items = orders[o].request.items
      BY <1>4, OrderIsConsistent
    <2>6. Promise!Return(o)
      BY <1>1, <1>4, <2>3, <2>4, <2>5, SameRequests DEF Promise!Return, Promise!Move
    <2>. QED
      BY <2>6 DEF Promise!Next
  <1>. QED
    BY <1>3, <1>4

\* A payment is settled, or nothing that the saga tells apart happens.
LEMMA StagesStay ==
    ASSUME UNCHANGED <<orders, stock>>, \A p \in Order : StageOf(p)' = StageOf(p)
    PROVE  UNCHANGED Promise!vars
  <1>1. [p \in Order |-> StageOf(p)]' = [p \in Order |-> StageOf(p)]
    OBVIOUS
  <1>. QED
    BY <1>1, SameRequests DEF Promise!vars

\* The intent of a payment is invisible in the saga.
LEMMA PaymentConsumesStutters ==
    ASSUME FlowInv, FlowInv', PaymentConsumes
    PROVE  UNCHANGED Promise!vars
  <1>1. PICK t \in K!PaymentTopics : K!Advance(t) /\ P!Handle(K!NextEvent(t))
    BY DEF PaymentConsumes
  <1>2. UNCHANGED <<orders, stock, reservations, restaurantOutbox>>
    BY DEF PaymentConsumes, orderDb, restaurantDb
  <1>3. K!NextEvent(t) \in Event /\ K!NextEvent(t).payload.order \in Order
    BY <1>1, NextIsWritten, TopicTypes DEF FlowInv, K!Advance
  <1>4. CASE UNCHANGED payments
    BY <1>2, <1>4, Unseen DEF Seen
  <1>5. ASSUME NEW o \in Order, NEW d, payments[o] = P!NoPayment,
               payments' = [payments EXCEPT
                   ![o] = [status |-> "PROCESSING", simulate |-> d]]
        PROVE  UNCHANGED Promise!vars
    <2>1. payments \in [Order -> P!PaymentRow \cup {P!NoPayment}]
      BY PaymentFacts DEF FlowInv, ServicesInv
    <2>2. /\ payments'[o].status = "PROCESSING" /\ payments'[o] # P!NoPayment
          /\ \A p \in Order : p # o => payments'[p] = payments[p]
      BY <1>5, <2>1 DEF P!NoPayment
    <2>3. \A p \in Order : p # o => StageOf(p)' = StageOf(p)
      BY <1>2, <2>2, OthersStay DEF R!Held
    <2>4. R!Held(o)
      <3>1. Said(restaurantOutbox, "stock.reserved", o)
        BY <1>2, <2>2 DEF FlowInv, PaymentsAreReserved, Said, P!NoPayment
      <3>2. orders[o].status # "PAYMENT_FAILED"
        BY <1>5 DEF FlowInv, StatusIsEarned, P!NoPayment
      <3>. QED
        BY <3>1, <3>2, OrderIsConsistent
    <2>5. StageOf(o) = "reserved" /\ StageOf(o)' = "reserved"
      <3>1. StageIs(o) /\ StageIs(o)'
        BY Stages, StagesAfter
      <3>. QED
        BY <1>5, <2>2, <2>4, <3>1 DEF StageIs
    <2>. QED
      BY <1>2, <2>3, <2>5, StagesStay
  <1>. QED
    BY <1>1, <1>3, <1>4, <1>5, PaymentHandleEffect DEF paymentState

\* A settled payment is the saga's Pay or Decline; settling it again is none.
LEMMA PaymentActsSettle ==
    ASSUME FlowInv, FlowInv', PaymentActs, UNCHANGED <<orderDb, restaurantDb>>
    PROVE  Promise!Next \/ UNCHANGED Promise!vars
  <1>1. UNCHANGED <<orders, stock, reservations, restaurantOutbox>>
    BY DEF orderDb, restaurantDb
  <1>2. CASE UNCHANGED payments
    BY <1>1, <1>2, Unseen DEF Seen
  <1>3. ASSUME NEW o \in Order, NEW status, status = P!Outcome(payments[o].simulate),
               payments[o] # P!NoPayment, payments' = [payments EXCEPT ![o].status = status]
        PROVE  Promise!Next \/ UNCHANGED Promise!vars
    <2>1. /\ payments \in [Order -> P!PaymentRow \cup {P!NoPayment}]
          /\ payments[o] \in P!PaymentRow
          /\ payments[o].status \in {"SUCCEEDED", "FAILED"} => payments[o].status = status
      BY <1>3, PaymentFacts DEF FlowInv, ServicesInv
    <2>2. /\ payments'[o] = [payments[o] EXCEPT !.status = status]
          /\ payments'[o].status = status /\ status \in {"SUCCEEDED", "FAILED"}
          /\ \A p \in Order : p # o => payments'[p] = payments[p]
      BY <1>3, <2>1 DEF P!PaymentRow, P!Outcome
    <2>3. CASE payments[o].status # "PROCESSING"
      <3>1. payments[o].status = status
        BY <2>1, <2>3 DEF P!PaymentRow
      <3>2. payments' = payments
        BY <1>3, <2>1, <3>1 DEF P!PaymentRow
      <3>. QED
        BY <1>1, <3>2, Unseen DEF Seen
    <2>4. CASE payments[o].status = "PROCESSING"
      <3>1. /\ Placed(o) /\ R!Held(o)
            /\ payments[o].simulate = orders[o].request.simulate
        <4>1. orders[o].status # "PAYMENT_FAILED"
          BY <2>4 DEF FlowInv, StatusIsEarned
        <4>. QED
          BY <1>3, <4>1, OrderIsConsistent
      <3>2. \A p \in Order : p # o => StageOf(p)' = StageOf(p)
        BY <1>1, <2>2, OthersStay DEF R!Held
      <3>3. /\ StageOf(o) = "reserved"
            /\ StageOf(o)' = IF status = "SUCCEEDED" THEN "paid" ELSE "declined"
        <4>1. StageIs(o) /\ StageIs(o)'
          BY Stages, StagesAfter
        <4>2. R!Held(o)'
          BY <1>1, <3>1 DEF R!Held
        <4>. QED
          BY <2>2, <2>4, <4>1, <4>2 DEF StageIs
      <3>4. status = "FAILED" <=> Promise!Declines(orders[o].request.simulate)
        BY <1>3, <3>1 DEF P!Outcome, Promise!Declines
      <3>5. [p \in Order |-> StageOf(p)]' = [[p \in Order |-> StageOf(p)] EXCEPT ![o] =
                IF status = "SUCCEEDED" THEN "paid" ELSE "declined"]
        BY <3>2, <3>3, OneMoves
      <3>6. Promise!Pay(o) \/ Promise!Decline(o)
        <4>1. CASE status = "SUCCEEDED"
          BY <1>1, <3>1, <3>3, <3>4, <3>5, <4>1, SameRequests DEF Promise!Pay, Promise!Move
        <4>2. CASE status = "FAILED"
          BY <1>1, <3>1, <3>3, <3>4, <3>5, <4>2, SameRequests DEF Promise!Decline, Promise!Move
        <4>. QED
          BY <2>2, <4>1, <4>2
      <3>. QED
        BY <3>6 DEF Promise!Next
    <2>. QED
      BY <2>3, <2>4
  <1>. QED
    BY <1>2, <1>3, PaymentTasksEffect DEF FlowInv, ServicesInv

\* Every step of the distributed system is a step of the saga, or none.
LEMMA SagaStep ==
    ASSUME FlowInv, FlowInv', [Next]_vars
    PROVE  [Promise!Next]_(Promise!vars)
  <1>1. CASE PlaceOrder
    BY <1>1, PlaceOrderAccepts
  <1>2. CASE OrderConsumes
    BY <1>2, OrderConsumesTells
  <1>3. CASE RestaurantConsumes
    BY <1>3, RestaurantConsumesEffect, RestaurantReserves, RestaurantRejects,
       RestaurantReleases, Unseen DEF Seen
  <1>4. CASE PaymentConsumes
    BY <1>4, PaymentConsumesStutters
  <1>5. CASE \/ PaymentCall \/ PaymentSweep \/ PaymentTaskFails
             \/ \E o \in Order : PaymentAges(o)
    <2>1. PaymentActs /\ UNCHANGED <<orderDb, restaurantDb>>
      BY <1>5 DEF PaymentCall, PaymentSweep, PaymentAges, PaymentStep, PaymentTaskFails,
         PaymentActs, P!Lose
    <2>. QED
      BY <2>1, PaymentActsSettle
  <1>6. CASE \/ OrderRelays \/ RestaurantRelays \/ PaymentRelays \/ RelayInterrupted
             \/ Commits \/ Crash \/ HandlerRaises \/ UNCHANGED vars
    <2>1. UNCHANGED <<orders, stock, reservations, restaurantOutbox, payments>>
      BY <1>6 DEF OrderRelays, OrderRelay!Publish, RestaurantRelays, RestaurantRelay!Publish,
         PaymentRelays, RelayInterrupted, Commits, Crash, P!Restart, P!tables, HandlerRaises,
         vars, orderDb, restaurantDb, paymentState
    <2>. QED
      BY <2>1, Unseen DEF Seen
  <1>. QED
    BY <1>1, <1>2, <1>3, <1>4, <1>5, <1>6 DEF Next

\* The three services, their relays and the broker implement the saga of
\* Saga.tla: whatever is replayed, interrupted, lost with a process or
\* swallowed with an exception, no order takes a step that the saga forbids.
THEOREM SagaIsKept == Spec => KeepsPromise
  <1>1. Init => Promise!Init
    <2>. SUFFICES ASSUME Init PROVE Promise!Init
      OBVIOUS
    <2>1. FlowInv /\ orders = [o \in Order |-> O!NoOrder] /\ stock = InitialStock
      BY FlowInitially DEF Init, O!Init, R!Init
    <2>2. \A o \in Order : ~Placed(o) /\ orders[o].status = "ABSENT"
      BY <2>1 DEF Placed, O!NoOrder
    <2>3. \A o \in Order : StageOf(o) = "absent"
      BY <2>1, <2>2, Stages DEF StageIs
    <2>4. [o \in Order |-> StageOf(o)] = [o \in Order |-> "absent"]
      BY <2>3
    <2>5. [o \in Order |-> orders[o].status] = [o \in Order |-> "ABSENT"]
      BY <2>2
    <2>6. [o \in Order |-> IF Placed(o) THEN orders[o].request ELSE NoRequest] =
              [o \in Order |-> NoRequest]
      BY <2>2
    <2>. QED
      BY <2>1, <2>4, <2>5, <2>6 DEF Promise!Init, Promise!NoRequest, NoRequest
  <1>2. FlowInv /\ FlowInv' /\ [Next]_vars => [Promise!Next]_(Promise!vars)
    BY SagaStep
  <1>. QED
    BY <1>1, <1>2, FlowInvariant, PTL DEF Spec, KeepsPromise, Promise!Spec

-----------------------------------------------------------------------------
(* What is lost, and what is not *)

\* The ledger of the service that reads a topic.
Ledger(t) ==
    IF t \in K!OrderTopics THEN orderProcessed
    ELSE IF t \in K!RestaurantTopics THEN restaurantProcessed
    ELSE paymentProcessed

\* An event has had its effect.
Answered(e) ==
    LET o == e.payload.order IN
    /\ e.type = "order.placed" =>
          \/ Said(restaurantOutbox, "stock.reserved", o)
          \/ Said(restaurantOutbox, "stock.rejected", o)
    /\ e.type = "stock.release" => ~R!Held(o)
    /\ e.type = "stock.reserved" => payments[o] # P!NoPayment
    /\ e.type \in K!OrderTopics => orders[o].status # "PENDING"

Sent(e) == \E k \in DOMAIN log[e.type] : log[e.type][k] = e

Numbered(outbox) == \A i \in DOMAIN outbox : outbox[i].id = <<outbox[i].type, i>>

\* The id of a row is its own.
RowsAreNumbered ==
    Numbered(orderOutbox) /\ Numbered(restaurantOutbox) /\ Numbered(paymentOutbox)

\* A row is marked published after the broker has it.
PublishedAreSent ==
    /\ \A i \in orderPublished : Sent(orderOutbox[i])
    /\ \A i \in restaurantPublished : Sent(restaurantOutbox[i])
    /\ \A i \in paymentPublished : Sent(paymentOutbox[i])

\* What is in a ledger has had its effect.
LedgersTell ==
    \A t \in EventType : \A i \in Nat : <<t, i>> \in Ledger(t) =>
        \E e \in Event :
            e.type = t /\ i \in DOMAIN Writer(t) /\ Writer(t)[i] = e /\ Answered(e)

RecordsTell == RowsAreNumbered /\ PublishedAreSent /\ LedgersTell

\* The orders that a consumer has gone past without the effect of the message.
Lost ==
    {o \in Order : \E t \in EventType : \E k \in 1..position[t] : \E e \in Event :
        log[t][k] = e /\ e.payload.order = o /\ ~Answered(e)}

\* It takes a handler that raises to lose an order.
LossesAreDropped == Cardinality(Lost) <= drops

\* An outbox stays or gets a row.
LEMMA EmitNumbers ==
    ASSUME NEW seq \in Seq(Event), Numbered(seq), NEW new,
           new = seq \/ \E type, payload : new = Emit(seq, type, payload)
    PROVE  /\ Numbered(new)
           /\ \A i \in DOMAIN seq : i \in DOMAIN new /\ new[i] = seq[i]
  <1>1. CASE new = seq
    BY <1>1
  <1>2. ASSUME NEW type, NEW payload, new = Emit(seq, type, payload)
        PROVE  /\ Numbered(new)
               /\ \A i \in DOMAIN seq : i \in DOMAIN new /\ new[i] = seq[i]
    <2>. DEFINE e == WrapEvent(type, payload, seq)
                n == Len(seq)
    <2>1. e.type = type /\ e.id = <<type, n + 1>>
      BY DEF WrapEvent
    <2>2. n \in Nat /\ DOMAIN seq = 1..n
      OBVIOUS
    <2>3. new = Append(seq, e)
      BY <1>2 DEF Emit
    <2>. HIDE DEF e
    <2>4. /\ DOMAIN new = 1..(n + 1) /\ new[n + 1] = e
          /\ \A i \in 1..n : new[i] = seq[i]
      BY <2>3
    <2>. HIDE DEF n
    <2>5. \A i \in DOMAIN new : i \in DOMAIN seq \/ i = n + 1
      BY <2>2, <2>4
    <2>6. Numbered(new)
      BY <2>1, <2>2, <2>4, <2>5 DEF Numbered
    <2>. QED
      BY <2>2, <2>4, <2>6
  <1>. QED
    BY <1>1, <1>2

LEMMA OutboxSteps ==
    ASSUME FlowInv, [Next]_vars, RowsAreNumbered
    PROVE  RowsAreNumbered' /\ OutboxesGrow
  <1>1. /\ orderOutbox \in Seq(Event) /\ restaurantOutbox \in Seq(Event)
        /\ paymentOutbox \in Seq(Event)
    BY OrderFacts, RestaurantFacts, PaymentFacts DEF FlowInv, ServicesInv
  <1>2. CASE UNCHANGED <<orderOutbox, restaurantOutbox, paymentOutbox>>
    BY <1>2 DEF OutboxesGrow, RowsAreNumbered, Numbered
  <1>3. CASE PlaceOrder \/ OrderConsumes
    <2>1. orderOutbox' = orderOutbox \/ \E type, payload : orderOutbox' = Emit(orderOutbox, type, payload)
      BY <1>3 DEF PlaceOrder, OrderConsumes, O!CreateOrder, O!Handle, O!PaymentSucceeded,
         O!PaymentFailed, O!StockRejected, O!Duplicate, O!Refused, O!UnknownType, O!vars,
         O!Emit, Emit, O!WrapEvent, WrapEvent
    <2>2. UNCHANGED <<restaurantOutbox, paymentOutbox>>
      BY <1>3 DEF PlaceOrder, OrderConsumes, restaurantDb, paymentState
    <2>3. /\ Numbered(orderOutbox')
          /\ \A i \in DOMAIN orderOutbox : i \in DOMAIN orderOutbox' /\ orderOutbox'[i] = orderOutbox[i]
      BY <1>1, <2>1, EmitNumbers DEF RowsAreNumbered
    <2>. QED
      BY <2>2, <2>3 DEF OutboxesGrow, RowsAreNumbered, Numbered
  <1>4. CASE RestaurantConsumes
    <2>1. \/ restaurantOutbox' = restaurantOutbox
          \/ \E type, payload : restaurantOutbox' = Emit(restaurantOutbox, type, payload)
      BY <1>4, RestaurantConsumesEffect DEF Reserves, Rejects, Releases
    <2>2. UNCHANGED <<orderOutbox, paymentOutbox>>
      BY <1>4 DEF RestaurantConsumes, orderDb, paymentState
    <2>3. /\ Numbered(restaurantOutbox')
          /\ \A i \in DOMAIN restaurantOutbox : i \in DOMAIN restaurantOutbox' /\ restaurantOutbox'[i] = restaurantOutbox[i]
      BY <1>1, <2>1, EmitNumbers DEF RowsAreNumbered
    <2>. QED
      BY <2>2, <2>3 DEF OutboxesGrow, RowsAreNumbered, Numbered
  <1>5. CASE PaymentActs /\ UNCHANGED <<orderDb, restaurantDb>>
    <2>1. \/ paymentOutbox' = paymentOutbox
          \/ \E type, payload : paymentOutbox' = Emit(paymentOutbox, type, payload)
      BY <1>5, PaymentTasksEffect DEF FlowInv, ServicesInv
    <2>2. UNCHANGED <<orderOutbox, restaurantOutbox>>
      BY <1>5 DEF orderDb, restaurantDb
    <2>3. /\ Numbered(paymentOutbox')
          /\ \A i \in DOMAIN paymentOutbox : i \in DOMAIN paymentOutbox' /\ paymentOutbox'[i] = paymentOutbox[i]
      BY <1>1, <2>1, EmitNumbers DEF RowsAreNumbered
    <2>. QED
      BY <2>2, <2>3 DEF OutboxesGrow, RowsAreNumbered, Numbered
  <1>6. CASE PaymentConsumes
    BY <1>2, <1>6 DEF PaymentConsumes, P!Handle, P!RecordIntent, P!SkipIntent, P!vars, orderDb,
       restaurantDb
  <1>7. CASE \/ PaymentCall \/ PaymentSweep \/ PaymentTaskFails
             \/ \E o \in Order : PaymentAges(o)
    BY <1>5, <1>7 DEF PaymentCall, PaymentSweep, PaymentAges, PaymentStep, PaymentTaskFails,
       PaymentActs, P!Lose
  <1>8. CASE \/ OrderRelays \/ RestaurantRelays \/ PaymentRelays \/ RelayInterrupted
             \/ Commits \/ Crash \/ HandlerRaises \/ UNCHANGED vars
    BY <1>2, <1>8 DEF OrderRelays, OrderRelay!Publish, RestaurantRelays,
       RestaurantRelay!Publish, PaymentRelays, PaymentRelay!Publish, RelayInterrupted, Commits,
       Crash, P!Restart, P!tables, HandlerRaises, vars, orderDb, restaurantDb, paymentState
  <1>. QED
    BY <1>3, <1>4, <1>6, <1>7, <1>8 DEF Next

\* A status, a payment and a verdict are never taken back, and only a fresh
\* order gets a reservation.
LEMMA OnlyForward ==
    ASSUME FlowInv, [Next]_vars, NEW o \in Order
    PROVE  /\ Placed(o) /\ orders[o].status # "PENDING" => orders'[o].status # "PENDING"
           /\ payments[o] # P!NoPayment => payments'[o] # P!NoPayment
           /\ R!Held(o)' => R!Held(o) \/ Fresh(o)
  <1>1. CASE UNCHANGED <<orders, payments, reservations>>
    BY <1>1 DEF R!Held, P!NoPayment
  <1>2. CASE PlaceOrder
    <2>1. PICK p \in Order, r \in Request : O!CreateOrder(p, r)
      BY <1>2 DEF PlaceOrder
    <2>2. ~Placed(p) /\ orders' = [orders EXCEPT ![p] = [status |-> "PENDING", request |-> r]]
      BY <2>1 DEF O!CreateOrder, Placed
    <2>3. UNCHANGED <<payments, reservations>>
      BY <1>2 DEF PlaceOrder, restaurantDb, paymentState
    <2>4. Placed(o) => orders'[o] = orders[o]
      BY <2>2, OrderFacts DEF FlowInv, ServicesInv
    <2>. QED
      BY <2>3, <2>4 DEF R!Held, P!NoPayment
  <1>3. CASE OrderConsumes
    <2>1. PICK t \in K!OrderTopics : K!Advance(t) /\ O!Handle(K!NextEvent(t))
      BY <1>3 DEF OrderConsumes
    <2>2. K!NextEvent(t) \in Event /\ K!NextEvent(t).type = t /\ K!NextEvent(t).payload.order \in Order
      BY <2>1, NextIsWritten, TopicTypes DEF FlowInv, K!Advance
    <2>3. UNCHANGED <<payments, reservations>>
      BY <1>3 DEF OrderConsumes, restaurantDb, paymentState
    <2>4. orders[o].status # "PENDING" => orders'[o] = orders[o]
      <3>1. orders \in [Order -> O!OrderRow \cup {O!NoOrder}]
        BY OrderFacts DEF FlowInv, ServicesInv
      <3>2. ASSUME NEW p \in Order, NEW status, orders[p].status = "PENDING",
                   orders' = [orders EXCEPT ![p].status = status]
            PROVE  orders[o].status # "PENDING" => orders'[o] = orders[o]
        BY <3>1, <3>2
      <3>. QED
        BY <2>1, <2>2, <3>2, OrderHandleEffect
    <2>. QED
      BY <2>3, <2>4 DEF R!Held, P!NoPayment
  <1>4. CASE RestaurantConsumes
    <2>1. UNCHANGED <<orders, payments>>
      BY <1>4, RestaurantConsumesEffect
    <2>2. reservations \in [Order -> R!ReservationRow \cup {R!NoReservation}]
      BY RestaurantFacts DEF FlowInv, ServicesInv
    <2>3. ASSUME NEW p \in Order, Reserves(p) \/ Rejects(p) \/ Releases(p)
          PROVE  R!Held(o)' => R!Held(o) \/ Fresh(o)
      <3>1. CASE Reserves(p)
        BY <2>2, <3>1 DEF Reserves, R!Reserve, R!Held
      <3>2. CASE Rejects(p)
        BY <3>2 DEF Rejects, R!Held
      <3>3. CASE Releases(p)
        BY <2>2, <3>3 DEF Releases, R!Release, R!Held, R!NoReservation
      <3>. QED
        BY <2>3, <3>1, <3>2, <3>3
    <2>4. R!Held(o)' => R!Held(o) \/ Fresh(o)
      BY <1>4, <2>3, RestaurantConsumesEffect DEF R!Held
    <2>. QED
      BY <2>1, <2>4 DEF P!NoPayment
  <1>5. CASE PaymentActs /\ UNCHANGED <<orderDb, restaurantDb>>
    <2>1. UNCHANGED <<orders, reservations>>
      BY <1>5 DEF orderDb, restaurantDb
    <2>2. payments \in [Order -> P!PaymentRow \cup {P!NoPayment}]
      BY PaymentFacts DEF FlowInv, ServicesInv
    <2>3. ASSUME NEW p \in Order, NEW status, payments[p] # P!NoPayment,
                 payments' = [payments EXCEPT ![p].status = status]
          PROVE  payments[o] # P!NoPayment => payments'[o] # P!NoPayment
      BY <2>2, <2>3 DEF P!PaymentRow, P!NoPayment
    <2>4. payments[o] # P!NoPayment => payments'[o] # P!NoPayment
      BY <1>5, <2>3, PaymentTasksEffect DEF FlowInv, ServicesInv
    <2>. QED
      BY <2>1, <2>4 DEF R!Held
  <1>6. CASE PaymentConsumes
    <2>1. UNCHANGED <<orders, reservations>>
      BY <1>6 DEF PaymentConsumes, orderDb, restaurantDb
    <2>2. payments \in [Order -> P!PaymentRow \cup {P!NoPayment}]
      BY PaymentFacts DEF FlowInv, ServicesInv
    <2>3. PICK e : P!Handle(e)
      BY <1>6 DEF PaymentConsumes
    <2>4. payments[o] # P!NoPayment => payments'[o] # P!NoPayment
      BY <2>2, <2>3 DEF P!Handle, P!RecordIntent, P!SkipIntent, P!vars
    <2>. QED
      BY <2>1, <2>4 DEF R!Held
  <1>7. CASE \/ PaymentCall \/ PaymentSweep \/ PaymentTaskFails
             \/ \E p \in Order : PaymentAges(p)
    BY <1>5, <1>7 DEF PaymentCall, PaymentSweep, PaymentAges, PaymentStep, PaymentTaskFails,
       PaymentActs, P!Lose
  <1>8. CASE \/ OrderRelays \/ RestaurantRelays \/ PaymentRelays \/ RelayInterrupted
             \/ Commits \/ Crash \/ HandlerRaises \/ UNCHANGED vars
    <2>1. UNCHANGED <<orders, payments, reservations>>
      BY <1>8 DEF OrderRelays, OrderRelay!Publish, RestaurantRelays,
         RestaurantRelay!Publish, PaymentRelays, RelayInterrupted, Commits,
         Crash, P!Restart, P!tables, HandlerRaises, vars, orderDb, restaurantDb, paymentState
    <2>. QED
      BY <1>1, <2>1
  <1>. QED
    BY <1>2, <1>3, <1>4, <1>6, <1>7, <1>8 DEF Next

\* What has had its effect keeps it.
AnswersStay ==
    \A e \in Event :
        (\E i \in DOMAIN Writer(e.type) : Writer(e.type)[i] = e) /\ Answered(e) => Answered(e)'

LEMMA AnsweredStays ==
    ASSUME FlowInv, [Next]_vars, OutboxesGrow
    PROVE  AnswersStay
  <1>. SUFFICES ASSUME NEW e \in Event, NEW i \in DOMAIN Writer(e.type), Writer(e.type)[i] = e,
                       Answered(e)
                PROVE  Answered(e)'
    BY DEF AnswersStay
  <1>. DEFINE o == e.payload.order
  <1>1. o \in Order /\ e.type \in EventType
    BY EventParts
  <1>2. Said(Writer(e.type), e.type, o)
    BY DEF Said, Rows
  <1>. HIDE DEF o
  <1>3. \A type : Said(restaurantOutbox, type, o) => Said(restaurantOutbox', type, o)
    BY DEF OutboxesGrow, Said, Rows
  <1>4. CASE e.type = "order.placed"
    BY <1>3, <1>4, TopicTypes DEF Answered, o
  <1>5. CASE e.type = "stock.release"
    <2>1. Said(orderOutbox, "stock.release", o)
      BY <1>2, <1>5, TopicTypes DEF Writer
    <2>2. orders[o].status = "PAYMENT_FAILED"
      BY <1>1, <2>1, OrderFacts DEF FlowInv, ServicesInv
    <2>3. payments[o] # P!NoPayment
      BY <1>1, <2>2 DEF FlowInv, StatusIsEarned, P!NoPayment
    <2>4. ~Fresh(o)
      BY <1>1, <2>3, OrderIsConsistent DEF Fresh, Said, Rows
    <2>5. ~R!Held(o)'
      BY <1>1, <1>5, <2>4, OnlyForward DEF Answered, o
    <2>. QED
      BY <1>5, <2>5, TopicTypes DEF Answered, o
  <1>6. CASE e.type = "stock.reserved"
    <2>1. payments'[o] # P!NoPayment
      BY <1>1, <1>6, OnlyForward DEF Answered, o
    <2>. QED
      BY <1>6, <2>1, TopicTypes DEF Answered, o, P!NoPayment
  <1>7. CASE e.type \in K!OrderTopics
    <2>1. Placed(o)
      <3>1. e.type = "stock.rejected" => Said(restaurantOutbox, "stock.rejected", o)
        BY <1>2, TopicTypes DEF Writer
      <3>2. e.type \in PaymentEvents => payments[o].status \in {"SUCCEEDED", "FAILED"}
        BY <1>1, <1>2, TopicTypes, PaymentFacts DEF Writer, FlowInv, ServicesInv
      <3>3. e.type \in PaymentEvents => payments[o] # P!NoPayment
        BY <3>2 DEF P!NoPayment
      <3>. QED
        BY <1>1, <1>7, <3>1, <3>3, OrderIsConsistent, TopicTypes
    <2>2. orders'[o].status # "PENDING"
      BY <1>1, <1>7, <2>1, OnlyForward DEF Answered, o
    <2>. QED
      BY <1>7, <2>2, TopicTypes DEF Answered, o
  <1>. QED
    BY <1>1, <1>4, <1>5, <1>6, <1>7, TopicTypes

\* Topics only grow.
LogsGrow ==
    \A t \in EventType : \A k \in DOMAIN log[t] : k \in DOMAIN log'[t] /\ log'[t][k] = log[t][k]

LEMMA SentStays ==
    ASSUME FlowInv, RecordsTell, OutboxesGrow, LogsGrow,
           \A i \in orderPublished' : i \in orderPublished \/ Sent(orderOutbox[i])',
           \A i \in restaurantPublished' : i \in restaurantPublished \/ Sent(restaurantOutbox[i])',
           \A i \in paymentPublished' : i \in paymentPublished \/ Sent(paymentOutbox[i])'
    PROVE  PublishedAreSent'
  <1>1. /\ orderOutbox \in Seq(Event) /\ restaurantOutbox \in Seq(Event)
        /\ paymentOutbox \in Seq(Event)
    BY OrderFacts, RestaurantFacts, PaymentFacts DEF FlowInv, ServicesInv
  <1>2. ASSUME NEW e \in Event, Sent(e)
        PROVE  \E k \in DOMAIN log'[e.type] : log'[e.type][k] = e
    BY <1>2, EventParts DEF Sent, LogsGrow
  <1>3. \A i \in orderPublished : /\ orderOutbox[i] \in Event /\ Sent(orderOutbox[i])
                                  /\ orderOutbox'[i] = orderOutbox[i]
    BY <1>1 DEF FlowInv, RelaysTypeOK, OutboxesGrow, RecordsTell, PublishedAreSent
  <1>4. \A i \in restaurantPublished : /\ restaurantOutbox[i] \in Event
                                       /\ Sent(restaurantOutbox[i])
                                       /\ restaurantOutbox'[i] = restaurantOutbox[i]
    BY <1>1 DEF FlowInv, RelaysTypeOK, OutboxesGrow, RecordsTell, PublishedAreSent
  <1>5. \A i \in paymentPublished : /\ paymentOutbox[i] \in Event /\ Sent(paymentOutbox[i])
                                    /\ paymentOutbox'[i] = paymentOutbox[i]
    BY <1>1 DEF FlowInv, RelaysTypeOK, OutboxesGrow, RecordsTell, PublishedAreSent
  <1>6. \A i \in orderPublished' : Sent(orderOutbox[i])'
    <2>. SUFFICES ASSUME NEW i \in orderPublished PROVE Sent(orderOutbox[i])'
      OBVIOUS
    <2>1. \E k \in DOMAIN log'[orderOutbox[i].type] : log'[orderOutbox[i].type][k] = orderOutbox[i]
      BY <1>2, <1>3
    <2>. QED
      BY <1>3, <2>1 DEF Sent
  <1>7. \A i \in restaurantPublished' : Sent(restaurantOutbox[i])'
    <2>. SUFFICES ASSUME NEW i \in restaurantPublished PROVE Sent(restaurantOutbox[i])'
      OBVIOUS
    <2>1. \E k \in DOMAIN log'[restaurantOutbox[i].type] :
              log'[restaurantOutbox[i].type][k] = restaurantOutbox[i]
      BY <1>2, <1>4
    <2>. QED
      BY <1>4, <2>1 DEF Sent
  <1>8. \A i \in paymentPublished' : Sent(paymentOutbox[i])'
    <2>. SUFFICES ASSUME NEW i \in paymentPublished PROVE Sent(paymentOutbox[i])'
      OBVIOUS
    <2>1. \E k \in DOMAIN log'[paymentOutbox[i].type] :
              log'[paymentOutbox[i].type][k] = paymentOutbox[i]
      BY <1>2, <1>5
    <2>. QED
      BY <1>5, <2>1 DEF Sent
  <1>. QED
    BY <1>6, <1>7, <1>8 DEF PublishedAreSent

\* What a ledger has told stays true.
LEMMA TellsStay ==
    ASSUME FlowInv, RecordsTell, OutboxesGrow, AnswersStay,
           NEW t \in EventType, NEW i \in Nat, <<t, i>> \in Ledger(t)
    PROVE  \E e \in Event : /\ e.type = t /\ i \in DOMAIN Writer(t)'
                            /\ Writer(t)'[i] = e /\ Answered(e)'
  <1>1. PICK e \in Event :
            e.type = t /\ i \in DOMAIN Writer(t) /\ Writer(t)[i] = e /\ Answered(e)
    BY DEF RecordsTell, LedgersTell
  <1>2. Answered(e)'
    BY <1>1 DEF AnswersStay
  <1>3. i \in DOMAIN Writer(t)' /\ Writer(t)'[i] = Writer(t)[i]
    BY <1>1 DEF OutboxesGrow, Writer
  <1>. QED
    BY <1>1, <1>2, <1>3

\* A message passed before and without effect now had none before.
LEMMA PassedBefore ==
    ASSUME FlowInv, AnswersStay, LogsGrow, NEW t \in EventType, NEW k \in 1..position[t],
           NEW e \in Event, log'[t][k] = e, ~Answered(e)'
    PROVE  e.payload.order \in Lost
  <1>1. k \in DOMAIN log[t]
    <2>1. log[t] \in Seq(Event) /\ position[t] \in Nat /\ position[t] <= Len(log[t])
      BY DEF FlowInv, BrokerTypeOK
    <2>. QED
      BY <2>1
  <1>2. log[t][k] = e
    BY <1>1 DEF LogsGrow
  <1>3. e.type = t /\ \E i \in DOMAIN Writer(t) : Writer(t)[i] = e
    BY <1>1, <1>2 DEF FlowInv, TopicsAreWritten
  <1>4. ~Answered(e)
    BY <1>3 DEF AnswersStay
  <1>. QED
    BY <1>2, <1>4, EventParts DEF Lost

\* A message is handled: its consumer goes past it.
LEMMA HandlingTells ==
    ASSUME FlowInv, RecordsTell, RowsAreNumbered', OutboxesGrow, AnswersStay,
           UNCHANGED <<log, publications>>,
           NEW t \in EventType, K!Advance(t), NEW e \in Event, e = K!NextEvent(t),
           \A u \in EventType : Ledger(u)' \subseteq Ledger(u) \cup {e.id},
           Answered(e)'
    PROVE  RecordsTell' /\ Lost' \subseteq Lost
  <1>1. LogsGrow /\ PublishedAreSent'
    BY SentStays DEF LogsGrow, publications
  <1>2. /\ position[t] \in Nat /\ position[t] + 1 \in DOMAIN log[t]
        /\ log[t][position[t] + 1] = e
        /\ \A u \in EventType : position'[u] = IF u = t THEN position[u] + 1 ELSE position[u]
    <2>1. log[t] \in Seq(Event) /\ position \in [EventType -> Nat]
      BY DEF FlowInv, BrokerTypeOK
    <2>. QED
      BY <2>1 DEF K!Advance, K!HasNext, K!NextEvent
  <1>3. PICK n \in DOMAIN Writer(t) : Writer(t)[n] = e /\ e.type = t
    BY <1>2 DEF FlowInv, TopicsAreWritten
  <1>4. e.id = <<t, n>>
    BY <1>3 DEF RecordsTell, RowsAreNumbered, Numbered, Writer
  <1>5. LedgersTell'
    <2>. SUFFICES ASSUME NEW u \in EventType, NEW i \in Nat, <<u, i>> \in Ledger(u)'
                  PROVE  \E d \in Event : /\ d.type = u /\ i \in DOMAIN Writer(u)'
                                          /\ Writer(u)'[i] = d /\ Answered(d)'
      BY DEF LedgersTell
    <2>1. CASE <<u, i>> \in Ledger(u)
      BY <1>1, <2>1, TellsStay
    <2>2. CASE <<u, i>> = e.id
      <3>1. u = t /\ i = n
        BY <1>4, <2>2
      <3>2. n \in DOMAIN Writer(t)' /\ Writer(t)'[n] = e
        BY <1>3 DEF OutboxesGrow, Writer
      <3>. QED
        BY <1>3, <3>1, <3>2
    <2>. QED
      BY <2>1, <2>2
  <1>6. Lost' \subseteq Lost
    <2>. SUFFICES ASSUME NEW u \in EventType, NEW k \in 1..position'[u], NEW d \in Event,
                         log'[u][k] = d, ~Answered(d)'
                  PROVE  d.payload.order \in Lost
      BY DEF Lost
    <2>1. CASE k \in 1..position[u]
      BY <1>1, <2>1, PassedBefore
    <2>2. CASE k \notin 1..position[u]
      <3>1. u = t /\ k = position[t] + 1
        BY <1>2, <2>2
      <3>2. d = e
        BY <1>2, <3>1
      <3>. QED
        BY <3>2
    <2>. QED
      BY <2>1, <2>2
  <1>. QED
    BY <1>1, <1>5, <1>6 DEF RecordsTell

\* No message is handled: consumers stay where they are, or fall back.
LEMMA OtherStepsTell ==
    ASSUME FlowInv, RecordsTell, RowsAreNumbered', OutboxesGrow, AnswersStay, LogsGrow,
           PublishedAreSent',
           UNCHANGED <<orderProcessed, restaurantProcessed, paymentProcessed>>,
           \A t \in EventType : position'[t] \in Nat /\ position'[t] <= position[t]
    PROVE  RecordsTell' /\ Lost' \subseteq Lost
  <1>1. \A t \in EventType : Ledger(t)' = Ledger(t)
    BY DEF Ledger
  <1>2. LedgersTell'
    BY <1>1, TellsStay DEF LedgersTell
  <1>3. Lost' \subseteq Lost
    <2>. SUFFICES ASSUME NEW u \in EventType, NEW k \in 1..position'[u], NEW d \in Event,
                         log'[u][k] = d, ~Answered(d)'
                  PROVE  d.payload.order \in Lost
      BY DEF Lost
    <2>1. k \in 1..position[u]
      BY DEF FlowInv, BrokerTypeOK
    <2>. QED
      BY <2>1, PassedBefore
  <1>. QED
    BY <1>2, <1>3 DEF RecordsTell

\* An event in the ledger of its reader has had its effect before.
LEMMA DuplicateAnswered ==
    ASSUME FlowInv, RecordsTell, AnswersStay, NEW t \in EventType, NEW n \in DOMAIN Writer(t),
           NEW e \in Event, Writer(t)[n] = e, e.type = t, e.id \in Ledger(t)
    PROVE  Answered(e)'
  <1>1. e.id = <<t, n>>
    BY DEF RecordsTell, RowsAreNumbered, Numbered, Writer
  <1>2. n \in Nat
    BY OrderFacts, RestaurantFacts, PaymentFacts DEF FlowInv, ServicesInv, Writer
  <1>3. Answered(e)
    BY <1>1, <1>2 DEF RecordsTell, LedgersTell
  <1>. QED
    BY <1>3 DEF AnswersStay

\* The row of an outbox is said.
LEMMA EmitSays ==
    ASSUME NEW seq \in Seq(Event), NEW type, NEW payload
    PROVE  Said(Emit(seq, type, payload), type, payload.order)
  <1>. DEFINE e   == WrapEvent(type, payload, seq)
              new == Emit(seq, type, payload)
  <1>1. e.type = type /\ e.payload = payload
    BY DEF WrapEvent
  <1>2. new = Append(seq, e)
    BY DEF Emit
  <1>. HIDE DEF e, new
  <1>3. Len(seq) + 1 \in DOMAIN new /\ new[Len(seq) + 1] = e
    BY <1>2
  <1>4. Len(seq) + 1 \in Rows(new, type, payload.order)
    BY <1>1, <1>3 DEF Rows
  <1>. QED
    BY <1>4 DEF Said, new

\* The message that a consumer is handed, and the row it is a copy of.
LEMMA HandedRow ==
    ASSUME FlowInv, NEW t \in EventType, K!Advance(t)
    PROVE  \E e \in Event : /\ e = K!NextEvent(t) /\ e.type = t /\ e.payload.order \in Order
                            /\ \E n \in DOMAIN Writer(t) : Writer(t)[n] = e
  BY NextIsWritten DEF FlowInv, K!Advance

\* The order service handles an event: its order is decided.
LEMMA OrderConsumesAnswers ==
    ASSUME FlowInv, RecordsTell, RowsAreNumbered', OutboxesGrow, AnswersStay, OrderConsumes
    PROVE  RecordsTell' /\ Lost' \subseteq Lost
  <1>1. PICK t \in K!OrderTopics : K!Advance(t) /\ O!Handle(K!NextEvent(t))
    BY DEF OrderConsumes
  <1>2. t \in EventType
    BY TopicTypes
  <1>3. PICK e \in Event : /\ e = K!NextEvent(t) /\ e.type = t /\ e.payload.order \in Order
                           /\ \E n \in DOMAIN Writer(t) : Writer(t)[n] = e
    BY <1>1, <1>2, HandedRow
  <1>. DEFINE o == e.payload.order
  <1>4. PICK n \in DOMAIN Writer(t) : Writer(t)[n] = e
    BY <1>3
  <1>5. O!Handle(e)
    BY <1>1, <1>3
  <1>6. UNCHANGED <<log, publications, restaurantProcessed, paymentProcessed>>
    BY <1>1 DEF OrderConsumes, K!Advance, restaurantDb, paymentState
  <1>7. \A u \in EventType : Ledger(u)' \subseteq Ledger(u) \cup {e.id}
    <2>1. orderProcessed' \subseteq orderProcessed \cup {e.id}
      BY <1>5 DEF O!Handle, O!PaymentSucceeded, O!PaymentFailed, O!StockRejected, O!Duplicate,
         O!Refused, O!UnknownType, O!MarkProcessed, O!vars
    <2>. QED
      BY <1>6, <2>1 DEF Ledger
  <1>8. Answered(e)'
    <2>1. orders'[o].status # "PENDING" => Answered(e)'
      BY <1>3, TopicTypes DEF Answered
    <2>2. CASE O!Duplicate(e)
      <3>1. e.id \in Ledger(t)
        BY <2>2 DEF O!Duplicate, Ledger
      <3>. QED
        BY <1>2, <1>3, <1>4, <3>1, DuplicateAnswered
    <2>3. CASE O!Refused(e)
      <3>1. ~O!CanTransition(o, O!TargetStatus(t)) /\ orders' = orders
        BY <1>3, <2>3 DEF O!Refused, O!vars
      <3>2. O!TargetStatus(t) \in O!Status \ {"PENDING"}
        BY TopicTypes DEF O!TargetStatus, O!Status
      <3>3. orders[o].status # "PENDING"
        BY <3>1, <3>2 DEF O!CanTransition, O!AllowedTransitions, O!NoOrder
      <3>. QED
        BY <2>1, <3>1, <3>3
    <2>4. ASSUME NEW status \in O!Status \ {"PENDING"}, O!Transition(o, status)
          PROVE  Answered(e)'
      <3>1. orders' = [orders EXCEPT ![o].status = status] /\ orders[o] # O!NoOrder
        BY <2>4 DEF O!Transition, O!CanTransition
      <3>2. orders \in [Order -> O!OrderRow \cup {O!NoOrder}]
        BY OrderFacts DEF FlowInv, ServicesInv
      <3>3. orders'[o].status = status
        BY <1>3, <3>1, <3>2 DEF O!OrderRow
      <3>. QED
        BY <2>1, <3>3
    <2>5. CASE O!PaymentSucceeded(e) \/ O!PaymentFailed(e) \/ O!StockRejected(e)
      BY <2>4, <2>5 DEF O!PaymentSucceeded, O!PaymentFailed, O!StockRejected, O!Status
    <2>6. ~O!UnknownType(e)
      BY <1>3, TopicTypes DEF O!UnknownType
    <2>. QED
      BY <1>5, <2>2, <2>3, <2>5, <2>6 DEF O!Handle
  <1>. QED
    BY <1>1, <1>2, <1>3, <1>6, <1>7, <1>8, HandlingTells

\* The restaurant handles an event: there is a verdict, or the stock is back.
LEMMA RestaurantConsumesAnswers ==
    ASSUME FlowInv, RecordsTell, RowsAreNumbered', OutboxesGrow, AnswersStay,
           RestaurantConsumes
    PROVE  RecordsTell' /\ Lost' \subseteq Lost
  <1>1. PICK t \in K!RestaurantTopics : K!Advance(t) /\ R!Handle(K!NextEvent(t))
    BY DEF RestaurantConsumes
  <1>2. t \in EventType
    BY TopicTypes
  <1>3. PICK e \in Event : /\ e = K!NextEvent(t) /\ e.type = t /\ e.payload.order \in Order
                           /\ \E n \in DOMAIN Writer(t) : Writer(t)[n] = e
    BY <1>1, <1>2, HandedRow
  <1>. DEFINE o == e.payload.order
  <1>4. PICK n \in DOMAIN Writer(t) : Writer(t)[n] = e
    BY <1>3
  <1>5. R!Handle(e)
    BY <1>1, <1>3
  <1>6. UNCHANGED <<log, publications, orderProcessed, paymentProcessed>>
    BY <1>1 DEF RestaurantConsumes, K!Advance, orderDb, paymentState
  <1>7. \A u \in EventType : Ledger(u)' \subseteq Ledger(u) \cup {e.id}
    <2>1. restaurantProcessed' \subseteq restaurantProcessed \cup {e.id}
      BY <1>5 DEF R!Handle, R!PlacedReserved, R!PlacedRejected, R!PlacedAgain,
         R!ReleaseOrdered, R!Duplicate, R!UnknownType, R!MarkProcessed, R!vars
    <2>. QED
      BY <1>6, <2>1 DEF Ledger
  <1>8. Answered(e)'
    <2>1. /\ restaurantOutbox \in Seq(Event)
          /\ reservations \in [Order -> R!ReservationRow \cup {R!NoReservation}]
      BY RestaurantFacts DEF FlowInv, ServicesInv
    <2>2. ASSUME e.type = "order.placed",
                 \/ Said(restaurantOutbox', "stock.reserved", o)
                 \/ Said(restaurantOutbox', "stock.rejected", o)
          PROVE  Answered(e)'
      BY <2>2, TopicTypes DEF Answered
    <2>3. CASE R!PlacedReserved(e)
      <3>1. /\ e.type = "order.placed"
            /\ restaurantOutbox' = Emit(restaurantOutbox, "stock.reserved", e.payload)
        BY <2>3 DEF R!PlacedReserved, R!Emit, Emit, R!WrapEvent, WrapEvent
      <3>. QED
        BY <2>1, <2>2, <3>1, EmitSays
    <2>4. CASE R!PlacedRejected(e)
      <3>1. /\ e.type = "order.placed"
            /\ restaurantOutbox' = Emit(restaurantOutbox, "stock.rejected", Bare(o))
        BY <2>4 DEF R!PlacedRejected, R!Emit, Emit, R!WrapEvent, WrapEvent, R!Bare, Bare
      <3>2. Bare(o).order = o
        BY DEF Bare
      <3>. QED
        BY <2>1, <2>2, <3>1, <3>2, EmitSays
    <2>5. CASE R!PlacedAgain(e)
      <3>1. e.type = "order.placed" /\ R!Held(o) /\ restaurantOutbox' = restaurantOutbox
        BY <2>5 DEF R!PlacedAgain, R!vars
      <3>2. Said(restaurantOutbox, "stock.reserved", o)
        BY <1>3, <3>1, OrderIsConsistent
      <3>. QED
        BY <2>2, <3>1, <3>2
    <2>6. CASE R!ReleaseOrdered(e)
      <3>1. e.type = "stock.release" /\ R!Release(o)
        BY <2>6 DEF R!ReleaseOrdered
      <3>2. ~R!Held(o)'
        BY <1>3, <2>1, <3>1 DEF R!Release, R!Held, R!NoReservation
      <3>. QED
        BY <3>1, <3>2, TopicTypes DEF Answered
    <2>7. CASE R!Duplicate(e)
      <3>1. e.id \in Ledger(t)
        BY <2>7, TopicTypes DEF R!Duplicate, Ledger
      <3>. QED
        BY <1>2, <1>3, <1>4, <3>1, DuplicateAnswered
    <2>8. ~R!UnknownType(e)
      BY <1>3, TopicTypes DEF R!UnknownType
    <2>. QED
      BY <1>5, <2>3, <2>4, <2>5, <2>6, <2>7, <2>8 DEF R!Handle
  <1>. QED
    BY <1>1, <1>2, <1>3, <1>6, <1>7, <1>8, HandlingTells

\* The payment service handles an event: the payment has a row.
LEMMA PaymentConsumesAnswers ==
    ASSUME FlowInv, RecordsTell, RowsAreNumbered', OutboxesGrow, AnswersStay, PaymentConsumes
    PROVE  RecordsTell' /\ Lost' \subseteq Lost
  <1>1. PICK t \in K!PaymentTopics : K!Advance(t) /\ P!Handle(K!NextEvent(t))
    BY DEF PaymentConsumes
  <1>2. t \in EventType
    BY TopicTypes
  <1>3. PICK e \in Event : /\ e = K!NextEvent(t) /\ e.type = t /\ e.payload.order \in Order
                           /\ \E n \in DOMAIN Writer(t) : Writer(t)[n] = e
    BY <1>1, <1>2, HandedRow
  <1>. DEFINE o == e.payload.order
  <1>4. PICK n \in DOMAIN Writer(t) : Writer(t)[n] = e
    BY <1>3
  <1>5. P!Handle(e)
    BY <1>1, <1>3
  <1>6. UNCHANGED <<log, publications, orderProcessed, restaurantProcessed>>
    BY <1>1 DEF PaymentConsumes, K!Advance, orderDb, restaurantDb
  <1>7. \A u \in EventType : Ledger(u)' \subseteq Ledger(u) \cup {e.id}
    <2>1. paymentProcessed' \subseteq paymentProcessed \cup {e.id}
      BY <1>5 DEF P!Handle, P!RecordIntent, P!SkipIntent, P!vars
    <2>. QED
      BY <1>6, <2>1 DEF Ledger
  <1>8. Answered(e)'
    <2>1. payments'[o] # P!NoPayment => Answered(e)'
      BY <1>3, TopicTypes DEF Answered, P!NoPayment
    <2>2. CASE P!RecordIntent(e)
      <3>1. payments' = [payments EXCEPT ![o] =
                            [status |-> "PROCESSING", simulate |-> e.payload.simulate]]
        BY <2>2 DEF P!RecordIntent
      <3>2. payments \in [Order -> P!PaymentRow \cup {P!NoPayment}]
        BY PaymentFacts DEF FlowInv, ServicesInv
      <3>3. payments'[o].status = "PROCESSING"
        BY <1>3, <3>1, <3>2
      <3>. QED
        BY <2>1, <3>3 DEF P!NoPayment
    <2>3. CASE P!SkipIntent(e) /\ payments[o] # P!NoPayment
      BY <2>1, <2>3 DEF P!SkipIntent, P!vars
    <2>4. CASE P!SkipIntent(e) /\ payments[o] = P!NoPayment
      <3>1. e.id \in Ledger(t)
        BY <2>4, TopicTypes DEF P!SkipIntent, Ledger
      <3>. QED
        BY <1>2, <1>3, <1>4, <3>1, DuplicateAnswered
    <2>. QED
      BY <1>5, <2>2, <2>3, <2>4 DEF P!Handle
  <1>. QED
    BY <1>1, <1>2, <1>3, <1>6, <1>7, <1>8, HandlingTells

\* A row is sent: its topic has it, and had what it had.
LEMMA SendingTells ==
    ASSUME FlowInv, NEW e \in Event, log' = [log EXCEPT ![e.type] = Append(@, e)]
    PROVE  LogsGrow /\ \E k \in DOMAIN log'[e.type] : log'[e.type][k] = e
  <1>1. e.type \in EventType /\ log \in [EventType -> Seq(Event)]
    BY EventParts DEF FlowInv, BrokerTypeOK
  <1>2. log'[e.type] = Append(log[e.type], e) /\ \A t \in EventType : t # e.type => log'[t] = log[t]
    BY <1>1
  <1>3. log[e.type] \in Seq(Event)
    BY <1>1
  <1>4. /\ Len(log[e.type]) + 1 \in DOMAIN log'[e.type]
        /\ log'[e.type][Len(log[e.type]) + 1] = e
        /\ \A k \in DOMAIN log[e.type] : k \in DOMAIN log'[e.type] /\ log'[e.type][k] = log[e.type][k]
    BY <1>2, <1>3
  <1>. QED
    BY <1>2, <1>4 DEF LogsGrow

\* A relay sends, and marks what it has sent or is interrupted before.
LEMMA RelaysTell ==
    ASSUME FlowInv, RecordsTell, RowsAreNumbered', OutboxesGrow, AnswersStay,
           OrderRelays \/ RestaurantRelays \/ PaymentRelays \/ RelayInterrupted
    PROVE  RecordsTell' /\ Lost' \subseteq Lost
  <1>1. /\ UNCHANGED <<orderOutbox, restaurantOutbox, paymentOutbox, position>>
        /\ UNCHANGED <<orderProcessed, restaurantProcessed, paymentProcessed>>
    BY DEF OrderRelays, OrderRelay!Publish, RestaurantRelays, RestaurantRelay!Publish,
       PaymentRelays, PaymentRelay!Publish, RelayInterrupted, orderDb, restaurantDb, paymentState
  <1>2. /\ orderOutbox \in Seq(Event) /\ restaurantOutbox \in Seq(Event)
        /\ paymentOutbox \in Seq(Event)
    BY OrderFacts, RestaurantFacts, PaymentFacts DEF FlowInv, ServicesInv
  <1>3. \A t \in EventType : position'[t] \in Nat /\ position'[t] <= position[t]
    BY <1>1 DEF FlowInv, BrokerTypeOK
  <1>4. ASSUME NEW e \in Event, log' = [log EXCEPT ![e.type] = Append(@, e)]
        PROVE  LogsGrow /\ \E k \in DOMAIN log'[e.type] : log'[e.type][k] = e
    BY <1>4, SendingTells
  <1>5. CASE OrderRelays
    <2>1. PICK i \in DOMAIN orderOutbox : OrderRelay!Publish(i)
      BY <1>5 DEF OrderRelays, OrderRelay!Unpublished
    <2>2. /\ log' = [log EXCEPT ![orderOutbox[i].type] = Append(@, orderOutbox[i])]
          /\ orderPublished' = orderPublished \cup {i}
          /\ UNCHANGED <<restaurantPublished, paymentPublished>>
      BY <1>5, <2>1 DEF OrderRelays, OrderRelay!Publish, OrderRelay!SendRow
    <2>3. orderOutbox[i] \in Event
      BY <1>2
    <2>4. LogsGrow /\ Sent(orderOutbox[i])'
      BY <1>1, <1>4, <2>2, <2>3 DEF Sent
    <2>5. PublishedAreSent'
      BY <2>2, <2>4, SentStays
    <2>. QED
      BY <1>1, <1>3, <2>4, <2>5, OtherStepsTell
  <1>6. CASE RestaurantRelays
    <2>1. PICK i \in DOMAIN restaurantOutbox : RestaurantRelay!Publish(i)
      BY <1>6 DEF RestaurantRelays, RestaurantRelay!Unpublished
    <2>2. /\ log' = [log EXCEPT ![restaurantOutbox[i].type] = Append(@, restaurantOutbox[i])]
          /\ restaurantPublished' = restaurantPublished \cup {i}
          /\ UNCHANGED <<orderPublished, paymentPublished>>
      BY <1>6, <2>1 DEF RestaurantRelays, RestaurantRelay!Publish, RestaurantRelay!SendRow
    <2>3. restaurantOutbox[i] \in Event
      BY <1>2
    <2>4. LogsGrow /\ Sent(restaurantOutbox[i])'
      BY <1>1, <1>4, <2>2, <2>3 DEF Sent
    <2>5. PublishedAreSent'
      BY <2>2, <2>4, SentStays
    <2>. QED
      BY <1>1, <1>3, <2>4, <2>5, OtherStepsTell
  <1>7. CASE PaymentRelays
    <2>1. PICK i \in DOMAIN paymentOutbox : PaymentRelay!Publish(i)
      BY <1>7 DEF PaymentRelays, PaymentRelay!Unpublished
    <2>2. /\ log' = [log EXCEPT ![paymentOutbox[i].type] = Append(@, paymentOutbox[i])]
          /\ paymentPublished' = paymentPublished \cup {i}
          /\ UNCHANGED <<orderPublished, restaurantPublished>>
      BY <1>7, <2>1 DEF PaymentRelays, PaymentRelay!Publish, PaymentRelay!SendRow
    <2>3. paymentOutbox[i] \in Event
      BY <1>2
    <2>4. LogsGrow /\ Sent(paymentOutbox[i])'
      BY <1>1, <1>4, <2>2, <2>3 DEF Sent
    <2>5. PublishedAreSent'
      BY <2>2, <2>4, SentStays
    <2>. QED
      BY <1>1, <1>3, <2>4, <2>5, OtherStepsTell
  <1>8. CASE RelayInterrupted
    <2>1. \/ \E i \in DOMAIN orderOutbox : OrderRelay!SendRow(i)
          \/ \E i \in DOMAIN restaurantOutbox : RestaurantRelay!SendRow(i)
          \/ \E i \in DOMAIN paymentOutbox : PaymentRelay!SendRow(i)
      BY <1>8 DEF RelayInterrupted, OrderRelay!Send, OrderRelay!Unpublished,
         RestaurantRelay!Send, RestaurantRelay!Unpublished, PaymentRelay!Send,
         PaymentRelay!Unpublished
    <2>2. LogsGrow
      BY <1>2, <1>4, <2>1 DEF OrderRelay!SendRow, RestaurantRelay!SendRow, PaymentRelay!SendRow
    <2>3. UNCHANGED publications
      BY <1>8 DEF RelayInterrupted
    <2>4. PublishedAreSent'
      BY <2>2, <2>3, SentStays DEF publications
    <2>. QED
      BY <1>1, <1>3, <2>2, <2>4, OtherStepsTell
  <1>. QED
    BY <1>5, <1>6, <1>7, <1>8

\* The other steps handle nothing and send nothing.
LEMMA StillTells ==
    ASSUME FlowInv, RecordsTell, RowsAreNumbered', OutboxesGrow, AnswersStay,
           UNCHANGED <<log, publications, orderProcessed, restaurantProcessed, paymentProcessed>>,
           \A t \in EventType : position'[t] \in Nat /\ position'[t] <= position[t]
    PROVE  RecordsTell' /\ Lost' \subseteq Lost
  <1>1. LogsGrow
    BY DEF LogsGrow
  <1>2. PublishedAreSent'
    BY <1>1, SentStays DEF publications
  <1>. QED
    BY <1>1, <1>2, OtherStepsTell

\* A handler raises: its consumer goes past the message of one order.
LEMMA RaisingLoses ==
    ASSUME FlowInv, RecordsTell, RowsAreNumbered', OutboxesGrow, AnswersStay, HandlerRaises
    PROVE  RecordsTell' /\ \E o \in Order : Lost' \subseteq Lost \cup {o}
  <1>1. PICK t \in EventType : K!Advance(t)
    BY DEF HandlerRaises
  <1>2. PICK e \in Event : e = K!NextEvent(t) /\ e.payload.order \in Order
    BY <1>1, HandedRow
  <1>3. /\ UNCHANGED <<log, publications>>
        /\ UNCHANGED <<orderProcessed, restaurantProcessed, paymentProcessed>>
    BY <1>1 DEF HandlerRaises, K!Advance, orderDb, restaurantDb, paymentState
  <1>4. LogsGrow /\ PublishedAreSent'
    BY <1>3, SentStays DEF LogsGrow, publications
  <1>5. LedgersTell'
    <2>1. \A u \in EventType : Ledger(u)' = Ledger(u)
      BY <1>3 DEF Ledger
    <2>. QED
      BY <2>1, TellsStay DEF LedgersTell
  <1>6. /\ position[t] \in Nat /\ log[t][position[t] + 1] = e
        /\ \A u \in EventType : position'[u] = IF u = t THEN position[u] + 1 ELSE position[u]
    <2>1. log[t] \in Seq(Event) /\ position \in [EventType -> Nat]
      BY DEF FlowInv, BrokerTypeOK
    <2>. QED
      BY <1>1, <1>2, <2>1 DEF K!Advance, K!HasNext, K!NextEvent
  <1>7. Lost' \subseteq Lost \cup {e.payload.order}
    <2>. SUFFICES ASSUME NEW u \in EventType, NEW k \in 1..position'[u], NEW d \in Event,
                         log'[u][k] = d, ~Answered(d)'
                  PROVE  d.payload.order \in Lost \/ d = e
      BY DEF Lost
    <2>1. CASE k \in 1..position[u]
      BY <1>4, <2>1, PassedBefore
    <2>2. CASE k \notin 1..position[u]
      <3>1. u = t /\ k = position[t] + 1
        BY <1>6, <2>2
      <3>. QED
        BY <1>3, <1>6, <3>1
    <2>. QED
      BY <2>1, <2>2
  <1>. QED
    BY <1>2, <1>4, <1>5, <1>7 DEF RecordsTell

\* While no handler raises, what is written has its effect before its reader
\* goes past it, whatever else fails.
LEMMA TellsStep ==
    ASSUME FlowInv, RecordsTell, [Next]_vars, ~HandlerRaises
    PROVE  RecordsTell' /\ Lost' \subseteq Lost /\ drops' = drops
  <1>1. RowsAreNumbered' /\ OutboxesGrow
    BY OutboxSteps DEF RecordsTell
  <1>2. AnswersStay
    BY <1>1, AnsweredStays
  <1>3. \A t \in EventType : /\ position[t] \in Nat /\ committed[t] \in Nat
                             /\ committed[t] <= position[t]
    BY DEF FlowInv, BrokerTypeOK
  <1>4. drops' = drops
    BY DEF Next, vars, budget, PlaceOrder, OrderConsumes, OrderRelays, RestaurantConsumes,
       RestaurantRelays, PaymentConsumes, PaymentCall, PaymentAges, PaymentSweep, PaymentStep,
       PaymentRelays, Commits, Crash, RelayInterrupted, PaymentTaskFails, Fault
  <1>5. CASE OrderConsumes
    BY <1>4, <1>1, <1>2, <1>5, OrderConsumesAnswers
  <1>6. CASE RestaurantConsumes
    BY <1>4, <1>1, <1>2, <1>6, RestaurantConsumesAnswers
  <1>7. CASE PaymentConsumes
    BY <1>4, <1>1, <1>2, <1>7, PaymentConsumesAnswers
  <1>8. CASE OrderRelays \/ RestaurantRelays \/ PaymentRelays \/ RelayInterrupted
    BY <1>4, <1>1, <1>2, <1>8, RelaysTell
  <1>9. CASE Crash
    <2>1. /\ UNCHANGED <<log, publications>>
          /\ UNCHANGED <<orderProcessed, restaurantProcessed, paymentProcessed>>
      BY <1>9 DEF Crash, K!Rejoin, P!Restart, P!tables, orderDb, restaurantDb, paymentState
    <2>2. PICK topics :
              position' = [t \in EventType |-> IF t \in topics THEN committed[t] ELSE position[t]]
      BY <1>9 DEF Crash, K!Rejoin, K!EventType, EventType, K!OrderEvents, OrderEvents,
         K!RestaurantEvents, RestaurantEvents, K!PaymentEvents, PaymentEvents
    <2>3. \A t \in EventType : position'[t] \in Nat /\ position'[t] <= position[t]
      BY <1>3, <2>2
    <2>. QED
      BY <1>4, <1>1, <1>2, <2>1, <2>3, StillTells
  <1>10. ASSUME UNCHANGED <<log, position, publications>>,
                UNCHANGED <<orderProcessed, restaurantProcessed, paymentProcessed>>
         PROVE  RecordsTell' /\ Lost' \subseteq Lost
    BY <1>1, <1>2, <1>3, <1>10, StillTells
  <1>11. CASE PlaceOrder
    BY <1>4, <1>10, <1>11 DEF PlaceOrder, O!CreateOrder, restaurantDb, paymentState, broker
  <1>12. CASE Commits
    BY <1>4, <1>10, <1>12 DEF Commits, K!Commit, orderDb, restaurantDb, paymentState
  <1>13. CASE PaymentCall \/ PaymentSweep \/ PaymentTaskFails \/ \E o \in Order : PaymentAges(o)
    <2>1. UNCHANGED paymentProcessed
      BY <1>13 DEF PaymentCall, PaymentSweep, PaymentAges, PaymentStep, PaymentTaskFails,
         P!Consume, P!CallGateway, P!RecordOutcome, P!Settle, P!Reconcile, P!FetchStuck,
         P!AskGateway, P!Resolve, P!Age, P!AbandonCall, P!AbandonSweep, P!tables
    <2>. QED
      BY <1>4, <1>10, <1>13, <2>1 DEF PaymentCall, PaymentSweep, PaymentAges, PaymentStep,
         PaymentTaskFails, orderDb, restaurantDb, broker
  <1>14. CASE UNCHANGED vars
    BY <1>4, <1>10, <1>14 DEF vars, orderDb, restaurantDb, paymentState, broker
  <1>. QED
    BY <1>4, <1>5, <1>6, <1>7, <1>8, <1>9, <1>11, <1>12, <1>13, <1>14 DEF Next

\* The lost orders are no more than the handlers that raised.
LEMMA LossStep ==
    ASSUME FlowInv, BudgetOK, RecordsTell, LossesAreDropped, [Next]_vars
    PROVE  RecordsTell' /\ LossesAreDropped'
  <1>1. IsFiniteSet(Lost) /\ Cardinality(Lost) \in Nat /\ drops \in Nat
    <2>1. IsFiniteSet(Lost)
      BY OrderAssumption, FS_Subset DEF Lost
    <2>. QED
      BY <2>1, FS_CardinalityType, FoodFlowAssumption DEF BudgetOK
  <1>2. CASE ~HandlerRaises
    <2>1. RecordsTell' /\ Lost' \subseteq Lost /\ drops' = drops
      BY <1>2, TellsStep
    <2>2. Cardinality(Lost') <= Cardinality(Lost) /\ Cardinality(Lost') \in Nat
      BY <1>1, <2>1, FS_Subset, FS_CardinalityType
    <2>. QED
      BY <1>1, <2>1, <2>2 DEF LossesAreDropped
  <1>3. CASE HandlerRaises
    <2>1. RowsAreNumbered' /\ OutboxesGrow
      BY OutboxSteps DEF RecordsTell
    <2>2. AnswersStay
      BY <2>1, AnsweredStays
    <2>3. PICK o \in Order : RecordsTell' /\ Lost' \subseteq Lost \cup {o}
      BY <1>3, <2>1, <2>2, RaisingLoses
    <2>4. /\ IsFiniteSet(Lost \cup {o}) /\ Cardinality(Lost \cup {o}) \in Nat
          /\ Cardinality(Lost \cup {o}) <= Cardinality(Lost) + 1
      <3>1. /\ IsFiniteSet(Lost \cup {o})
            /\ Cardinality(Lost \cup {o}) = IF o \in Lost THEN Cardinality(Lost) ELSE Cardinality(Lost) + 1
        BY <1>1, FS_AddElement
      <3>. QED
        BY <1>1, <3>1
    <2>5. Cardinality(Lost') <= Cardinality(Lost \cup {o}) /\ Cardinality(Lost') \in Nat
      BY <2>3, <2>4, FS_Subset, FS_CardinalityType
    <2>6. drops' = drops + 1
      BY <1>3 DEF HandlerRaises
    <2>. QED
      BY <1>1, <2>3, <2>4, <2>5, <2>6 DEF LossesAreDropped
  <1>. QED
    BY <1>2, <1>3

\* Nothing is written at first, so nothing can be lost.
LEMMA LossInitially == Init => RecordsTell /\ LossesAreDropped
  <1>. SUFFICES ASSUME Init PROVE RecordsTell /\ LossesAreDropped
    OBVIOUS
  <1>1. /\ orderOutbox = <<>> /\ restaurantOutbox = <<>> /\ paymentOutbox = <<>>
        /\ orderProcessed = {} /\ restaurantProcessed = {} /\ paymentProcessed = {}
        /\ orderPublished = {} /\ restaurantPublished = {} /\ paymentPublished = {}
    BY DEF Init, O!Init, R!Init, P!Init
  <1>2. position = [t \in EventType |-> 0]
    BY DEF Init, K!Init, K!EventType, EventType, K!OrderEvents, OrderEvents,
       K!RestaurantEvents, RestaurantEvents, K!PaymentEvents, PaymentEvents
  <1>3. RowsAreNumbered
    BY <1>1 DEF RowsAreNumbered, Numbered
  <1>4. PublishedAreSent
    BY <1>1 DEF PublishedAreSent
  <1>5. LedgersTell
    BY <1>1 DEF LedgersTell, Ledger
  <1>6. LossesAreDropped
    <2>1. Lost = {}
      BY <1>2 DEF Lost
    <2>2. drops = 0
      BY DEF Init
    <2>. QED
      BY <2>1, <2>2, FS_EmptySet DEF LossesAreDropped
  <1>. QED
    BY <1>3, <1>4, <1>5, <1>6 DEF RecordsTell

\* With every outbox published and every topic read, every row of an order that
\* is not lost has had its effect.
LEMMA RowsAnswered ==
    ASSUME FlowInv, RecordsTell, Quiet, NEW t \in EventType, NEW i \in DOMAIN Writer(t),
           NEW e \in Event, Writer(t)[i] = e, e.type = t, e.payload.order \notin Lost
    PROVE  Answered(e)
  <1>1. /\ DOMAIN orderOutbox \subseteq orderPublished
        /\ DOMAIN restaurantOutbox \subseteq restaurantPublished
        /\ DOMAIN paymentOutbox \subseteq paymentPublished
    BY DEF Quiet, OrderRelay!Unpublished, RestaurantRelay!Unpublished, PaymentRelay!Unpublished
  <1>2. Sent(e)
    BY <1>1 DEF Writer, RecordsTell, PublishedAreSent
  <1>3. PICK k \in DOMAIN log[t] : log[t][k] = e
    BY <1>2 DEF Sent
  <1>4. k \in 1..position[t]
    <2>1. log[t] \in Seq(Event) /\ position[t] \in Nat
      BY DEF FlowInv, BrokerTypeOK
    <2>2. ~(position[t] < Len(log[t]))
      BY DEF Quiet, K!HasNext, K!EventType, EventType, K!OrderEvents, OrderEvents,
         K!RestaurantEvents, RestaurantEvents, K!PaymentEvents, PaymentEvents
    <2>. QED
      BY <2>1, <2>2
  <1>. QED
    BY <1>3, <1>4, EventParts DEF Lost

\* A row of a type about an order, as RowsAnswered wants it.
LEMMA SaidAnswered ==
    ASSUME FlowInv, RecordsTell, Quiet, NEW o \in Order, NEW t \in EventType,
           Said(Writer(t), t, o), o \notin Lost
    PROVE  /\ t = "order.placed" => \/ Said(restaurantOutbox, "stock.reserved", o)
                                    \/ Said(restaurantOutbox, "stock.rejected", o)
           /\ t = "stock.release" => ~R!Held(o)
           /\ t = "stock.reserved" => payments[o] # P!NoPayment
           /\ t \in K!OrderTopics => orders[o].status # "PENDING"
  <1>1. PICK i \in DOMAIN Writer(t) : Writer(t)[i].type = t /\ Writer(t)[i].payload.order = o
    BY DEF Said, Rows
  <1>2. Writer(t)[i] \in Event
    BY OrderFacts, RestaurantFacts, PaymentFacts DEF FlowInv, ServicesInv, Writer
  <1>3. PICK e \in Event : e = Writer(t)[i]
    BY <1>2
  <1>4. Answered(e)
    BY <1>1, <1>3, RowsAnswered
  <1>. QED
    BY <1>1, <1>3, <1>4 DEF Answered

\* What the databases say of one order when nothing is left to do.
LEMMA RestOfOne ==
    ASSUME FlowInv, RecordsTell, Quiet, NEW o \in Order, Placed(o), o \notin Lost
    PROVE  AgreedOn(o)
  <1>1. /\ orders[o].status \in O!Status
        /\ Said(orderOutbox, "order.placed", o)
        /\ orders[o].status = "PAYMENT_FAILED" => Said(orderOutbox, "stock.release", o)
    <2>1. orders[o] \in O!OrderRow /\ \E i : i \in Rows(orderOutbox, "order.placed", o)
      BY OrderFacts DEF FlowInv, ServicesInv
    <2>2. orders[o].status = "PAYMENT_FAILED" => Said(orderOutbox, "stock.release", o)
      BY OrderFacts DEF FlowInv, ServicesInv
    <2>. QED
      BY <2>1, <2>2 DEF O!OrderRow, Said
  <1>2. /\ payments[o] # P!NoPayment <=> payments[o].status # "ABSENT"
        /\ payments[o] # P!NoPayment => payments[o] \in P!PaymentRow
        /\ Said(paymentOutbox, "payment.succeeded", o) <=> payments[o].status = "SUCCEEDED"
        /\ Said(paymentOutbox, "payment.failed", o) <=> payments[o].status = "FAILED"
    BY PaymentFacts DEF FlowInv, ServicesInv
  <1>3. /\ Writer("order.placed") = orderOutbox /\ Writer("stock.release") = orderOutbox
        /\ Writer("stock.reserved") = restaurantOutbox
        /\ Writer("stock.rejected") = restaurantOutbox
        /\ Writer("payment.succeeded") = paymentOutbox
        /\ Writer("payment.failed") = paymentOutbox
    BY TopicTypes DEF Writer
  <1>4. {"order.placed", "stock.release", "stock.reserved", "stock.rejected",
         "payment.succeeded", "payment.failed"} = EventType
    BY TopicTypes
  <1>5. \/ Said(restaurantOutbox, "stock.reserved", o)
        \/ Said(restaurantOutbox, "stock.rejected", o)
    BY <1>1, <1>3, <1>4, SaidAnswered
  <1>6. CASE Said(restaurantOutbox, "stock.rejected", o)
    <2>1. orders[o].status # "PENDING"
      BY <1>3, <1>4, <1>6, SaidAnswered, TopicTypes
    <2>2. ~R!Held(o) /\ payments[o] = P!NoPayment
      BY <1>6, OrderIsConsistent
    <2>. QED
      BY <1>2, <2>1, <2>2, TrueOfOne DEF AgreedOn
  <1>7. CASE Said(restaurantOutbox, "stock.reserved", o)
    <2>1. payments[o] # P!NoPayment
      BY <1>3, <1>4, <1>7, SaidAnswered
    <2>2. payments[o].status \in {"SUCCEEDED", "FAILED"}
      <3>1. payments[o].status # "PROCESSING"
        BY DEF Quiet
      <3>. QED
        BY <1>2, <2>1, <3>1 DEF P!PaymentRow
    <2>3. orders[o].status # "PENDING"
      BY <1>2, <1>3, <1>4, <2>2, SaidAnswered, TopicTypes
    <2>4. CASE payments[o].status = "SUCCEEDED"
      <3>1. orders[o].status = "CONFIRMED"
        BY <1>1, <2>1, <2>3, <2>4, TrueOfOne DEF O!Status
      <3>. QED
        BY <2>4, <3>1, TrueOfOne DEF AgreedOn
    <2>5. CASE payments[o].status = "FAILED"
      <3>1. orders[o].status = "PAYMENT_FAILED"
        BY <1>1, <2>1, <2>3, <2>5, TrueOfOne DEF O!Status
      <3>2. ~R!Held(o)
        BY <1>1, <1>3, <1>4, <3>1, SaidAnswered
      <3>. QED
        BY <2>5, <3>1, <3>2 DEF AgreedOn
    <2>. QED
      BY <2>2, <2>4, <2>5
  <1>. QED
    BY <1>5, <1>6, <1>7 DEF AgreedOn

\* README.md:61: at rest the three databases agree on every order but those that
\* a raising handler has dropped a message of, through any number of crashes,
\* interrupted relays and lost tasks: each such message costs one order at most.
THEOREM RestIsConsistent == Spec => []ConsistentAtRest
  <1>1. Init => BudgetOK
    BY FoodFlowAssumption DEF Init, BudgetOK
  <1>2. FlowInv /\ BudgetOK /\ RecordsTell /\ LossesAreDropped /\ [Next]_vars =>
            RecordsTell' /\ LossesAreDropped'
    BY LossStep
  <1>3. FlowInv /\ BudgetOK /\ RecordsTell /\ LossesAreDropped => ConsistentAtRest
    <2>. SUFFICES ASSUME FlowInv, BudgetOK, RecordsTell, LossesAreDropped, Quiet
                  PROVE  Cardinality({o \in Order : Placed(o) /\ ~AgreedOn(o)}) <= drops
      BY DEF ConsistentAtRest
    <2>. DEFINE S == {o \in Order : Placed(o) /\ ~AgreedOn(o)}
    <2>1. S \subseteq Lost
      BY RestOfOne
    <2>2. IsFiniteSet(Lost)
      BY OrderAssumption, FS_Subset DEF Lost
    <2>. HIDE DEF S
    <2>3. Cardinality(S) <= Cardinality(Lost) /\ IsFiniteSet(S)
      BY <2>1, <2>2, FS_Subset
    <2>4. Cardinality(S) \in Nat /\ Cardinality(Lost) \in Nat /\ drops \in Nat
      BY <2>2, <2>3, FS_CardinalityType, FoodFlowAssumption DEF BudgetOK
    <2>5. Cardinality(S) <= drops
      BY <2>3, <2>4 DEF LossesAreDropped
    <2>. QED
      BY <2>5 DEF S
  <1>. QED
    BY <1>1, <1>2, <1>3, LossInitially, BudgetKept, FlowInvariant, PTL DEF Spec

-----------------------------------------------------------------------------
(* The services, as they are without the others *)

\* What the composition does is, for each service, one of its own steps or none.
LEMMA ServicesTakeTheirSteps ==
    ASSUME FlowInv, [Next]_vars
    PROVE  [OS!Next]_(OS!vars) /\ [RS!Next]_(RS!vars) /\ [PS!Next]_(PS!vars)
  <1>1. UNCHANGED orderDb => UNCHANGED OS!vars
    BY DEF orderDb, OS!vars
  <1>2. UNCHANGED restaurantDb => UNCHANGED RS!vars
    BY DEF restaurantDb, RS!vars
  <1>3. UNCHANGED paymentState => UNCHANGED PS!vars
    BY DEF paymentState, PS!vars
  <1>4. ASSUME NEW t \in EventType, K!Advance(t)
        PROVE  \E e \in Event : e = K!NextEvent(t) /\ e.type = t
    BY <1>4, HandedRow
  <1>5. CASE PlaceOrder
    BY <1>2, <1>3, <1>5, OrderCreates DEF PlaceOrder
  <1>6. CASE OrderConsumes
    <2>1. PICK t \in K!OrderTopics : K!Advance(t) /\ O!Handle(K!NextEvent(t))
      BY <1>6 DEF OrderConsumes
    <2>2. OS!Next
      BY <1>4, <2>1, OrderHandles, TopicTypes
    <2>. QED
      BY <1>2, <1>3, <1>6, <2>2 DEF OrderConsumes
  <1>7. CASE RestaurantConsumes
    <2>1. PICK t \in K!RestaurantTopics : K!Advance(t) /\ R!Handle(K!NextEvent(t))
      BY <1>7 DEF RestaurantConsumes
    <2>2. RS!Next
      BY <1>4, <2>1, RestaurantHandles, TopicTypes
    <2>. QED
      BY <1>1, <1>3, <1>7, <2>2 DEF RestaurantConsumes
  <1>8. CASE PaymentConsumes
    <2>1. PICK t \in K!PaymentTopics : K!Advance(t) /\ P!Handle(K!NextEvent(t))
      BY <1>8 DEF PaymentConsumes
    <2>2. PS!Next
      BY <1>4, <2>1, PaymentHandles, TopicTypes
    <2>. QED
      BY <1>1, <1>2, <1>8, <2>2 DEF PaymentConsumes
  <1>9. CASE PaymentActs /\ UNCHANGED <<orderDb, restaurantDb>>
    BY <1>1, <1>2, <1>9, PaymentTasks
  <1>10. CASE PaymentCall \/ PaymentSweep \/ PaymentTaskFails \/ \E o \in Order : PaymentAges(o)
    BY <1>9, <1>10 DEF PaymentCall, PaymentSweep, PaymentAges, PaymentStep, PaymentTaskFails,
       PaymentActs, P!Lose
  <1>11. CASE Crash
    BY <1>1, <1>2, <1>3, <1>9, <1>11 DEF Crash, PaymentActs, P!Lose
  <1>12. CASE \/ OrderRelays \/ RestaurantRelays \/ PaymentRelays \/ RelayInterrupted
              \/ Commits \/ HandlerRaises \/ UNCHANGED vars
    <2>1. UNCHANGED <<orderDb, restaurantDb, paymentState>>
      BY <1>12 DEF OrderRelays, OrderRelay!Publish, RestaurantRelays, RestaurantRelay!Publish,
         PaymentRelays, PaymentRelay!Publish, RelayInterrupted, Commits, HandlerRaises, vars,
         orderDb, restaurantDb, paymentState
    <2>. QED
      BY <1>1, <1>2, <1>3, <2>1
  <1>. QED
    BY <1>5, <1>6, <1>7, <1>8, <1>10, <1>11, <1>12 DEF Next

\* Each service behaves here as its own module says: what is proved of
\* OrderService, RestaurantService and PaymentService holds in the saga.
THEOREM ServicesAreImplemented == Spec => OS!Spec /\ RS!Spec /\ PS!Spec
  <1>1. Init => OS!Init /\ RS!Init /\ PS!Init
    BY DEF Init, O!Init, OS!Init, O!NoOrder, OS!NoOrder, R!Init, RS!Init, R!NoReservation,
       RS!NoReservation, P!Init, PS!Init, P!NoPayment, PS!NoPayment
  <1>2. FlowInv /\ [Next]_vars => [OS!Next]_(OS!vars) /\ [RS!Next]_(RS!vars) /\ [PS!Next]_(PS!vars)
    BY ServicesTakeTheirSteps
  <1>. QED
    BY <1>1, <1>2, FlowInvariant, PTL DEF Spec, OS!Spec, RS!Spec, PS!Spec

\* What the client has read as the end of an order stays so, whatever message
\* comes late, again or from before a crash.
THEOREM TerminalStays == Spec => OS!TerminalIsFinal
  <1>1. OS!Spec => OS!TerminalIsFinal
    BY Assumptions, OS!TerminalStays
  <1>. QED
    BY <1>1, ServicesAreImplemented, PTL

\* The order service is told the outcome of a payment by two events at most, through
\* any faults: what comes more often is a copy, which its ledger knows.
THEOREM OutcomesAreBounded == Spec => []PS!ToldTwiceAtMost
  <1>1. PS!Spec => []PS!ToldTwiceAtMost
    BY Assumptions, PS!TwoOutcomesAtMost
  <1>. QED
    BY <1>1, ServicesAreImplemented, PTL

=============================================================================
