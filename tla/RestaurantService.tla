-------------------------- MODULE RestaurantService --------------------------
(***************************************************************************)
(* The restaurant service (services/restaurant): menu item stock, the      *)
(* reservations taken from it, the ledger of processed events and the      *)
(* outbox, all in restaurant_db.  A handler is one transaction, hence one  *)
(* step; the savepoint around reserve_stock makes the deductions of a      *)
(* basket all or nothing.                                                  *)
(*                                                                         *)
(* On its own the module is driven by an environment that delivers any     *)
(* event of Delivery, any number of times and in any order.                *)
(***************************************************************************)
EXTENDS Events, FiniteSetsExt

CONSTANTS
    Delivery,         \* the events the consumer may be handed
    InitialStock      \* the seeded quantities

ASSUME DeliveryAssumption == Delivery \subseteq Event
ASSUME StockAssumption == InitialStock \in [Item -> Nat]

VARIABLES
    stock,            \* table menu_item_stock; an item that has no row, which
                      \* is refused like one that is short, counts 0
    reservations,     \* table stock_reservations, by its UNIQUE order_id
    processed,        \* table processed_events
    outbox            \* table outbox_events, in insertion order

vars == <<stock, reservations, processed, outbox>>

NoReservation  == [held |-> FALSE]
ReservationRow == [held : {TRUE}, items : Basket]

Held(o) == reservations[o].held

Init ==
    /\ stock = InitialStock
    /\ reservations = [o \in Order |-> NoReservation]
    /\ processed = {}
    /\ outbox = <<>>

-----------------------------------------------------------------------------
(* stock.py *)

\* No line raises InsufficientStockError.
Sufficient(basket) == \A i \in Item : basket[i] <= stock[i]

\* reserve_stock: deduct every line, then insert the reservation.
Reserve(o, basket) ==
    /\ Sufficient(basket)
    /\ ~Held(o)
    /\ stock' = [i \in Item |-> stock[i] - basket[i]]
    /\ reservations' = [reservations EXCEPT ![o] = [held |-> TRUE, items |-> basket]]

\* Mutant: the stock comes back and the reservation row stays.
ReleaseKeepsRow(o) ==
    /\ stock' = IF Held(o)
                THEN [i \in Item |-> stock[i] + reservations[o].items[i]]
                ELSE stock
    /\ UNCHANGED reservations

\* release_stock: give every line back and delete the reservation; without a
\* reservation it only logs a warning.
Release(o) ==
    /\ stock' = IF Held(o)
                THEN [i \in Item |-> stock[i] + reservations[o].items[i]]
                ELSE stock
    /\ reservations' = [reservations EXCEPT ![o] = NoReservation]

-----------------------------------------------------------------------------
(* consumers.py *)

MarkProcessed(e) ==
    /\ e.id \notin processed
    /\ processed' = processed \cup {e.id}

PlacedReserved(e) ==
    /\ e.type = "order.placed"
    /\ MarkProcessed(e)
    /\ Reserve(e.payload.order, e.payload.items)
    /\ outbox' = Emit(outbox, "stock.reserved", e.payload)

\* Mutant: the rejection is not entered in the ledger.
PlacedRejectedUnrecorded(e) ==
    /\ e.type = "order.placed"
    /\ e.id \notin processed
    /\ ~Sufficient(e.payload.items)
    /\ outbox' = Emit(outbox, "stock.rejected", Bare(e.payload.order))
    /\ UNCHANGED <<stock, reservations, processed>>

\* The savepoint rolls back; the rejection commits.
PlacedRejected(e) ==
    /\ e.type = "order.placed"
    /\ MarkProcessed(e)
    /\ ~Sufficient(e.payload.items)
    /\ outbox' = Emit(outbox, "stock.rejected", Bare(e.payload.order))
    /\ UNCHANGED <<stock, reservations>>

\* A reservation row exists: its INSERT raises UniqueViolationError, the whole
\* transaction rolls back and the error is swallowed.  Nothing is recorded.
PlacedAgain(e) ==
    /\ e.type = "order.placed"
    /\ e.id \notin processed
    /\ Sufficient(e.payload.items)
    /\ Held(e.payload.order)
    /\ UNCHANGED vars

ReleaseOrdered(e) ==
    /\ e.type = "stock.release"
    /\ MarkProcessed(e)
    /\ Release(e.payload.order)
    /\ UNCHANGED outbox

Duplicate(e) ==
    /\ e.id \in processed
    /\ UNCHANGED vars

\* Any other event type returns before the ledger is written.
UnknownType(e) ==
    /\ e.type \notin {"order.placed", "stock.release"}
    /\ e.id \notin processed
    /\ UNCHANGED vars

Handle(e) ==
    \/ PlacedReserved(e)
    \/ PlacedRejected(e)
    \/ PlacedAgain(e)
    \/ ReleaseOrdered(e)
    \/ Duplicate(e)
    \/ UnknownType(e)

Next == \E e \in Delivery : Handle(e)

Spec == Init /\ [][Next]_vars

-----------------------------------------------------------------------------
(* Properties *)

HeldOf(o, i) == IF Held(o) THEN reservations[o].items[i] ELSE 0

\* Every table holds rows of its schema; the CHECK (quantity >= 0) of
\* menu_item_stock never has to fire.
TypeOK ==
    /\ stock \in [Item -> Nat]
    /\ reservations \in [Order -> ReservationRow \cup {NoReservation}]
    /\ processed \subseteq EventId
    /\ outbox \in Seq(Event)

\* A reservation is never held in secret: the event that makes the payment
\* service charge for it is in the outbox, with the same basket.
HeldIsAnnounced ==
    \A o \in Order : Held(o) =>
        \E i \in Rows(outbox, "stock.reserved", o) :
            outbox[i].payload.items = reservations[o].items

\* What leaves the stock of an item enters one reservation and back again, in
\* one step: no step loses, duplicates or moves stock between two orders.
StockMovesWithOneReservation ==
    [][\E o \in Order :
          /\ \A p \in Order \ {o} : reservations'[p] = reservations[p]
          /\ \A i \in Item : stock'[i] + HeldOf(o, i)' = stock[i] + HeldOf(o, i)]_vars

HeldTotal(i) == MapThenSumSet(LAMBDA o : HeldOf(o, i), Order)

\* No portion is sold twice and none is lost: what the items were seeded with
\* is in stock or in a reservation, through any replay and compensation.
StockConserved == \A i \in Item : stock[i] + HeldTotal(i) = InitialStock[i]

=============================================================================
