---------------------------- MODULE EventLemmas ----------------------------
(***************************************************************************)
(* What the proofs of the services need to know of envelopes and outboxes. *)
(***************************************************************************)
EXTENDS Events, TLAPS

\* An envelope of a bare payload is an event: what every emitter but two sends.
LEMMA WrapBare ==
    ASSUME NEW seq \in Seq(Event), NEW type \in EventType \ FullTypes, NEW o \in Order
    PROVE  /\ WrapEvent(type, Bare(o), seq) \in Event
           /\ WrapEvent(type, Bare(o), seq).type = type
           /\ WrapEvent(type, Bare(o), seq).payload.order = o
  <1>1. Len(seq) \in Nat
    OBVIOUS
  <1>2. <<type, Len(seq) + 1>> \in EventId
    BY <1>1 DEF EventId
  <1>. QED
    BY <1>2 DEF WrapEvent, Bare, BarePayload, Event

\* An envelope of a whole order is an event: order.placed and stock.reserved.
LEMMA WrapFull ==
    ASSUME NEW seq \in Seq(Event), NEW type \in FullTypes, NEW payload \in FullPayload
    PROVE  /\ WrapEvent(type, payload, seq) \in Event
           /\ WrapEvent(type, payload, seq).type = type
           /\ WrapEvent(type, payload, seq).payload = payload
  <1>1. Len(seq) \in Nat
    OBVIOUS
  <1>2. type \in EventType
    BY DEF FullTypes, EventType, OrderEvents, RestaurantEvents
  <1>3. <<type, Len(seq) + 1>> \in EventId
    BY <1>1, <1>2 DEF EventId
  <1>. QED
    BY <1>3 DEF WrapEvent, Event

\* An outbox with one more row: the old rows keep their place.
LEMMA AppendRow ==
    ASSUME NEW seq \in Seq(Event), NEW e \in Event
    PROVE  /\ Append(seq, e) \in Seq(Event)
           /\ Len(Append(seq, e)) = Len(seq) + 1
           /\ DOMAIN seq = 1..Len(seq)
           /\ DOMAIN Append(seq, e) = 1..(Len(seq) + 1)
           /\ \A i \in DOMAIN seq : Append(seq, e)[i] = seq[i]
           /\ Append(seq, e)[Len(seq) + 1] = e
           /\ Len(seq) + 1 \notin DOMAIN seq
  OBVIOUS

\* Inserting a row adds it to the rows of its own type and order, and to no other.
LEMMA RowsAppend ==
    ASSUME NEW seq \in Seq(Event), NEW e \in Event, NEW type, NEW o
    PROVE  Rows(Append(seq, e), type, o) =
              IF e.type = type /\ e.payload.order = o
              THEN Rows(seq, type, o) \cup {Len(seq) + 1}
              ELSE Rows(seq, type, o)
  BY AppendRow DEF Rows

\* In particular, what has been said stays said.
LEMMA SaidAppend ==
    ASSUME NEW seq \in Seq(Event), NEW e \in Event, NEW type, NEW o
    PROVE  Said(Append(seq, e), type, o) <=>
              Said(seq, type, o) \/ (e.type = type /\ e.payload.order = o)
  <1>1. CASE e.type = type /\ e.payload.order = o
    <2>1. Len(seq) + 1 \in Rows(Append(seq, e), type, o)
      BY <1>1, RowsAppend
    <2>. QED
      BY <1>1, <2>1 DEF Said
  <1>2. CASE ~(e.type = type /\ e.payload.order = o)
    <2>1. Rows(Append(seq, e), type, o) = Rows(seq, type, o)
      BY <1>2, RowsAppend
    <2>. QED
      BY <1>2, <2>1 DEF Said
  <1>. QED
    BY <1>1, <1>2

\* The order of a delivered event, and its id.
LEMMA EventParts ==
    ASSUME NEW e \in Event
    PROVE  /\ e.id \in EventId
           /\ e.type \in EventType
           /\ e.payload.order \in Order
           /\ e.type \in FullTypes => e.payload \in FullPayload
  BY DEF Event, FullPayload, BarePayload, FullTypes, EventType, OrderEvents,
         RestaurantEvents

=============================================================================
