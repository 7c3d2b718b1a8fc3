------------------------------- MODULE Events -------------------------------
(***************************************************************************)
(* The vocabulary the services share: what a client asks for, the event    *)
(* types (each is also the name of its Kafka topic) and the envelope that  *)
(* wrap_event of shared/events.py puts around a payload.                   *)
(*                                                                         *)
(* Data is abstracted to what the saga tells apart.  An order's item list  *)
(* is a basket, the quantity asked of every item; prices and amounts are   *)
(* carried along by the code and never compared, so they are left out.     *)
(***************************************************************************)
EXTENDS Naturals, Sequences, FiniteSets

CONSTANTS
    Order,      \* order ids (uuid4, chosen by the order service)
    Item,       \* menu items
    User,       \* user ids, from the access token
    Key,        \* Idempotency-Key values
    NoKey,      \* the header is absent
    Request     \* the bodies and headers clients send to POST /orders

\* X-Payment-Simulate, with "none" for an absent header.
Directive == {"success", "failure", "none"}

Basket == [Item -> Nat]

\* There are as many ids as a uuid4 has values.
ASSUME OrderAssumption == IsFiniteSet(Order)

ASSUME RequestAssumption ==
    /\ NoKey \notin Key
    /\ \A r \in Request :
          r \in [user : User, key : Key \cup {NoKey}, items : Basket,
                  simulate : Directive]

NoRequest == [key |-> NoKey]

OrderEvents      == {"order.placed", "stock.release"}
RestaurantEvents == {"stock.reserved", "stock.rejected"}
PaymentEvents    == {"payment.succeeded", "payment.failed"}
EventType        == OrderEvents \cup RestaurantEvents \cup PaymentEvents

\* What the run_consumer of each service subscribes to.
OrderTopics      == PaymentEvents \cup {"stock.rejected"}
RestaurantTopics == OrderEvents
PaymentTopics    == {"stock.reserved"}

\* order.placed carries the whole order and stock.reserved repeats it; every
\* other event names the order only.
FullPayload == [order : Order, items : Basket, simulate : Directive]
BarePayload == [order : Order]

FullTypes == {"order.placed", "stock.reserved"}

EventId == EventType \X (Nat \ {0})

Event == [id : EventId, type : FullTypes, payload : FullPayload]
            \cup [id : EventId, type : EventType \ FullTypes, payload : BarePayload]

\* Mutant: the directive of the header stays behind.
PlacementWithoutDirective(o, r) == [order |-> o, items |-> r.items]

Placement(o, r) == [order |-> o, items |-> r.items, simulate |-> r.simulate]

Bare(o) == [order |-> o]

(***************************************************************************)
(* wrap_event draws a fresh uuid4.  Every event is written to the outbox   *)
(* of the service that wraps it, in the transaction that wraps it, and an  *)
(* outbox only grows, so type and row number make a fresh id.              *)
(***************************************************************************)
WrapEvent(type, payload, outbox) ==
    [id |-> <<type, Len(outbox) + 1>>, type |-> type, payload |-> payload]

\* The outbox with one more row: INSERT INTO outbox_events.
Emit(outbox, type, payload) ==
    Append(outbox, WrapEvent(type, payload, outbox))

\* The rows of an outbox (or of a topic) of a type for an order.
Rows(seq, type, o) ==
    {i \in DOMAIN seq : seq[i].type = type /\ seq[i].payload.order = o}

\* Some event of that type has been written for the order.
Said(seq, type, o) == Rows(seq, type, o) # {}

=============================================================================
