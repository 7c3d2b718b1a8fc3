--------------------------- MODULE OrderApiProofs ---------------------------
(***************************************************************************)
(* The order service keeps its invariants for any set of orders, requests  *)
(* and delivered events: whatever arrives, in whatever order, however      *)
(* often.  And however many calls of POST /orders overlap, fail and are    *)
(* repeated, a key stands for one order, and what they do to the tables is *)
(* what OrderService does.                                                 *)
(***************************************************************************)
EXTENDS OrderApi, EventLemmas

-----------------------------------------------------------------------------
(* The tables and the consumer: OrderService *)

\* The inductive invariant.  CompensationOnce needs CompensationIffFailed: a
\* second stock.release would have to come from an order that is PENDING and
\* PAYMENT_FAILED at once.
IInv ==
    /\ TypeOK
    /\ CompensationIffFailed
    /\ CompensationOnce
    /\ AnnouncedIffCreated

USE DeliveryAssumption

-----------------------------------------------------------------------------

\* An order that exists has a row with a status.
LEMMA StatusOf ==
    ASSUME TypeOK, NEW o \in Order
    PROVE  /\ orders[o] = NoOrder \/ orders[o] \in OrderRow
           /\ orders[o] # NoOrder => orders[o].status \in Status
           /\ orders[o] # NoOrder <=> orders[o].status # "ABSENT"
  BY DEF TypeOK, OrderRow, NoOrder, Status

\* transition_order changes the status of one PENDING order and nothing else.
LEMMA TransitionEffect ==
    ASSUME TypeOK, NEW o \in Order, NEW status \in Status, Transition(o, status)
    PROVE  /\ orders' \in [Order -> OrderRow \cup {NoOrder}]
           /\ orders[o].status = "PENDING" /\ orders[o] # NoOrder
           /\ orders'[o] = [status |-> status, request |-> orders[o].request]
           /\ status # "PENDING"
           /\ \A p \in Order \ {o} : orders'[p] = orders[p]
  <1>1. orders[o] # NoOrder /\ status \in AllowedTransitions(orders[o].status)
    BY DEF Transition, CanTransition
  <1>2. orders[o].status = "PENDING" /\ status # "PENDING"
    BY <1>1 DEF AllowedTransitions
  <1>3. orders[o] \in OrderRow
    BY <1>1, StatusOf
  <1>4. orders' = [orders EXCEPT ![o].status = status]
    BY DEF Transition
  <1>5. orders \in [Order -> OrderRow \cup {NoOrder}]
    BY DEF TypeOK
  <1>6. orders'[o] = [status |-> status, request |-> orders[o].request]
    BY <1>3, <1>4, <1>5 DEF OrderRow
  <1>7. orders'[o] \in OrderRow
    BY <1>3, <1>6 DEF OrderRow
  <1>. QED
    BY <1>1, <1>2, <1>4, <1>5, <1>6, <1>7

-----------------------------------------------------------------------------
(* One lemma per action that changes something *)

\* A transition without a word in the outbox: CONFIRMED and STOCK_UNAVAILABLE.
LEMMA SilentTransitionKeepsIInv ==
    ASSUME IInv, NEW e \in Delivery, NEW status \in Status,
           status # "PAYMENT_FAILED",
           MarkProcessed(e), Transition(e.payload.order, status), UNCHANGED outbox
    PROVE  IInv'
  <1>. DEFINE o == e.payload.order
  <1>1. TypeOK /\ o \in Order /\ e.id \in EventId
    BY EventParts DEF IInv
  <1>2. /\ orders' \in [Order -> OrderRow \cup {NoOrder}]
        /\ orders[o].status = "PENDING" /\ orders[o] # NoOrder
        /\ orders'[o] = [status |-> status, request |-> orders[o].request]
        /\ \A p \in Order \ {o} : orders'[p] = orders[p]
    BY <1>1, TransitionEffect
  <1>3. TypeOK'
    BY <1>1, <1>2 DEF TypeOK, MarkProcessed
  <1>4. CompensationIffFailed'
    BY <1>1, <1>2 DEF IInv, CompensationIffFailed
  <1>5. CompensationOnce'
    BY DEF IInv, CompensationOnce
  <1>6. AnnouncedIffCreated'
    <2>. SUFFICES ASSUME NEW p \in Order
                  PROVE  IF orders'[p] = NoOrder
                         THEN Rows(outbox, "order.placed", p) = {}
                         ELSE \E i \in DOMAIN outbox :
                                 /\ Rows(outbox, "order.placed", p) = {i}
                                 /\ outbox[i].payload = Placement(p, orders'[p].request)
      BY DEF AnnouncedIffCreated
    <2>1. orders'[p] = NoOrder <=> orders[p] = NoOrder
      BY <1>1, <1>2 DEF NoOrder
    <2>2. orders'[p] # NoOrder => orders'[p].request = orders[p].request
      BY <1>1, <1>2, <2>1
    <2>. QED
      BY <2>1, <2>2 DEF IInv, AnnouncedIffCreated
  <1>. QED
    BY <1>3, <1>4, <1>5, <1>6 DEF IInv

\* A failed payment keeps the invariant: failure and compensation are one commit.
LEMMA PaymentFailedKeepsIInv ==
    ASSUME IInv, NEW e \in Delivery, PaymentFailed(e)
    PROVE  IInv'
  <1>. DEFINE o == e.payload.order
              release == WrapEvent("stock.release", Bare(o), outbox)
  <1>1. TypeOK /\ o \in Order /\ e.id \in EventId
    BY EventParts DEF IInv
  <1>2. Transition(o, "PAYMENT_FAILED")
    BY DEF PaymentFailed
  <1>3. /\ orders' \in [Order -> OrderRow \cup {NoOrder}]
        /\ orders[o].status = "PENDING" /\ orders[o] # NoOrder
        /\ orders'[o] = [status |-> "PAYMENT_FAILED", request |-> orders[o].request]
        /\ \A p \in Order \ {o} : orders'[p] = orders[p]
    BY <1>1, <1>2, TransitionEffect DEF Status
  <1>4. outbox \in Seq(Event) /\ outbox' = Append(outbox, release)
    BY <1>1 DEF TypeOK, PaymentFailed, Emit
  <1>5. release \in Event /\ release.type = "stock.release" /\ release.payload.order = o
    <2>1. "stock.release" \in EventType \ FullTypes
      BY DEF EventType, OrderEvents, FullTypes
    <2>. QED
      BY <1>1, <1>4, <2>1, WrapBare
  <1>. HIDE DEF release
  <1>6. TypeOK'
    <2>1. outbox' \in Seq(Event)
      BY <1>4, <1>5, AppendRow
    <2>2. processed' = processed \cup {e.id}
      BY DEF PaymentFailed, MarkProcessed
    <2>. QED
      BY <1>1, <1>3, <2>1, <2>2 DEF TypeOK
  <1>7. CompensationIffFailed'
    <2>. SUFFICES ASSUME NEW p \in Order
                  PROVE  Said(outbox', "stock.release", p) <=>
                            orders'[p].status = "PAYMENT_FAILED"
      BY DEF CompensationIffFailed
    <2>1. Said(outbox', "stock.release", p) <=> Said(outbox, "stock.release", p) \/ p = o
      BY <1>4, <1>5, SaidAppend
    <2>. QED
      BY <1>1, <1>3, <2>1 DEF IInv, CompensationIffFailed
  <1>8. CompensationOnce'
    <2>1. ~Said(outbox, "stock.release", o)
      BY <1>1, <1>3 DEF IInv, CompensationIffFailed
    <2>2. ~\E i \in DOMAIN outbox :
              outbox[i].type = "stock.release" /\ outbox[i].payload.order = o
      BY <2>1 DEF Said, Rows
    <2>3. \A i \in DOMAIN outbox' :
              \/ i \in DOMAIN outbox /\ outbox'[i] = outbox[i]
              \/ i = Len(outbox) + 1 /\ outbox'[i] = release
      BY <1>4, <1>5, AppendRow
    <2>. QED
      BY <1>5, <2>2, <2>3 DEF IInv, CompensationOnce
  <1>9. AnnouncedIffCreated'
    <2>. SUFFICES ASSUME NEW p \in Order
                  PROVE  IF orders'[p] = NoOrder
                         THEN Rows(outbox', "order.placed", p) = {}
                         ELSE \E i \in DOMAIN outbox' :
                                 /\ Rows(outbox', "order.placed", p) = {i}
                                 /\ outbox'[i].payload = Placement(p, orders'[p].request)
      BY DEF AnnouncedIffCreated
    <2>1. Rows(outbox', "order.placed", p) = Rows(outbox, "order.placed", p)
      BY <1>4, <1>5, RowsAppend
    <2>2. orders'[p] = NoOrder <=> orders[p] = NoOrder
      BY <1>1, <1>3 DEF NoOrder
    <2>3. orders'[p] # NoOrder => orders'[p].request = orders[p].request
      BY <1>1, <1>3, <2>2
    <2>4. \A i \in DOMAIN outbox : i \in DOMAIN outbox' /\ outbox'[i] = outbox[i]
      BY <1>4, <1>5, AppendRow
    <2>. QED
      BY <2>1, <2>2, <2>3, <2>4 DEF IInv, AnnouncedIffCreated
  <1>. QED
    BY <1>6, <1>7, <1>8, <1>9 DEF IInv

\* The commit of create_order keeps the invariant: order and announcement are one.
LEMMA CreateOrderKeepsIInv ==
    ASSUME IInv, NEW o \in Order, NEW r \in Request, CreateOrder(o, r)
    PROVE  IInv'
  <1>. DEFINE row == [status |-> "PENDING", request |-> r]
              placed == WrapEvent("order.placed", Placement(o, r), outbox)
  <1>1. TypeOK
    BY DEF IInv
  <1>2. row \in OrderRow /\ row # NoOrder
    BY DEF OrderRow, NoOrder, Status
  <1>3. /\ orders \in [Order -> OrderRow \cup {NoOrder}]
        /\ orders[o] = NoOrder
        /\ orders' = [orders EXCEPT ![o] = row]
    BY <1>1 DEF TypeOK, CreateOrder
  <1>4. Placement(o, r) \in FullPayload
    BY RequestAssumption DEF Placement, FullPayload
  <1>5. outbox \in Seq(Event) /\ outbox' = Append(outbox, placed)
    BY <1>1 DEF TypeOK, CreateOrder, Emit
  <1>6. /\ placed \in Event /\ placed.type = "order.placed"
        /\ placed.payload = Placement(o, r) /\ placed.payload.order = o
    BY <1>4, <1>5, WrapFull DEF FullTypes, Placement
  <1>. HIDE DEF row, placed
  <1>7. /\ \A i \in DOMAIN outbox : i \in DOMAIN outbox' /\ outbox'[i] = outbox[i]
        /\ \A i \in DOMAIN outbox' : i \in DOMAIN outbox \/ outbox'[i] = placed
        /\ Len(outbox) + 1 \in DOMAIN outbox' /\ outbox'[Len(outbox) + 1] = placed
    BY <1>5, <1>6, AppendRow
  <1>8. TypeOK'
    <2>1. outbox' \in Seq(Event)
      BY <1>5, <1>6, AppendRow
    <2>2. processed' = processed
      BY DEF CreateOrder
    <2>. QED
      BY <1>1, <1>2, <1>3, <2>1, <2>2 DEF TypeOK
  <1>9. CompensationIffFailed'
    <2>. SUFFICES ASSUME NEW p \in Order
                  PROVE  Said(outbox', "stock.release", p) <=>
                            orders'[p].status = "PAYMENT_FAILED"
      BY DEF CompensationIffFailed
    <2>1. Said(outbox', "stock.release", p) <=> Said(outbox, "stock.release", p)
      BY <1>5, <1>6, SaidAppend
    <2>2. orders'[p].status = "PAYMENT_FAILED" <=> orders[p].status = "PAYMENT_FAILED"
      BY <1>3 DEF row, NoOrder
    <2>. QED
      BY <2>1, <2>2 DEF IInv, CompensationIffFailed
  <1>10. CompensationOnce'
    BY <1>6, <1>7 DEF IInv, CompensationOnce
  <1>11. AnnouncedIffCreated'
    <2>. SUFFICES ASSUME NEW p \in Order
                  PROVE  IF orders'[p] = NoOrder
                         THEN Rows(outbox', "order.placed", p) = {}
                         ELSE \E i \in DOMAIN outbox' :
                                 /\ Rows(outbox', "order.placed", p) = {i}
                                 /\ outbox'[i].payload = Placement(p, orders'[p].request)
      BY DEF AnnouncedIffCreated
    <2>1. CASE p = o
      <3>1. Rows(outbox, "order.placed", o) = {}
        BY <1>3 DEF IInv, AnnouncedIffCreated
      <3>2. Rows(outbox', "order.placed", o) = {Len(outbox) + 1}
        BY <1>5, <1>6, <3>1, RowsAppend
      <3>3. orders'[o].request = r /\ orders'[o] # NoOrder
        BY <1>2, <1>3 DEF row
      <3>. QED
        BY <1>6, <1>7, <2>1, <3>2, <3>3
    <2>2. CASE p # o
      <3>1. Rows(outbox', "order.placed", p) = Rows(outbox, "order.placed", p)
        BY <1>5, <1>6, <2>2, RowsAppend
      <3>2. orders'[p] = orders[p]
        BY <1>3, <2>2
      <3>. QED
        BY <1>7, <3>1, <3>2 DEF IInv, AnnouncedIffCreated
    <2>. QED
      BY <2>1, <2>2
  <1>. QED
    BY <1>8, <1>9, <1>10, <1>11 DEF IInv

-----------------------------------------------------------------------------

\* An empty database satisfies the invariant.
LEMMA InitIInv == Init => IInv
  <1>. SUFFICES ASSUME Init PROVE IInv
    OBVIOUS
  <1>1. TypeOK
    BY DEF Init, TypeOK
  <1>2. DOMAIN outbox = {} /\ \A o \in Order : orders[o] = NoOrder
    BY DEF Init
  <1>3. CompensationIffFailed
    <2>. SUFFICES ASSUME NEW o \in Order
                  PROVE  Said(outbox, "stock.release", o) <=>
                            orders[o].status = "PAYMENT_FAILED"
      BY DEF CompensationIffFailed
    <2>1. ~Said(outbox, "stock.release", o)
      BY <1>2 DEF Said, Rows
    <2>2. orders[o].status # "PAYMENT_FAILED"
      BY <1>2 DEF NoOrder
    <2>. QED
      BY <2>1, <2>2
  <1>4. CompensationOnce
    BY <1>2 DEF CompensationOnce
  <1>5. AnnouncedIffCreated
    BY <1>2 DEF AnnouncedIffCreated, Rows
  <1>. QED
    BY <1>1, <1>3, <1>4, <1>5 DEF IInv

\* The invariant is inductive, whatever is delivered.
LEMMA StepIInv == IInv /\ [Next]_vars => IInv'
  <1>. SUFFICES ASSUME IInv, [Next]_vars PROVE IInv'
    OBVIOUS
  <1>1. ASSUME NEW o \in Order, NEW r \in Request, CreateOrder(o, r)
        PROVE  IInv'
    BY <1>1, CreateOrderKeepsIInv
  <1>2. ASSUME NEW e \in Delivery, PaymentSucceeded(e)
        PROVE  IInv'
    BY <1>2, SilentTransitionKeepsIInv DEF PaymentSucceeded, Status
  <1>3. ASSUME NEW e \in Delivery, PaymentFailed(e)
        PROVE  IInv'
    BY <1>3, PaymentFailedKeepsIInv
  <1>4. ASSUME NEW e \in Delivery, StockRejected(e)
        PROVE  IInv'
    BY <1>4, SilentTransitionKeepsIInv DEF StockRejected, Status
  <1>5. CASE UNCHANGED vars
    BY <1>5 DEF vars, IInv, TypeOK, CompensationIffFailed, CompensationOnce,
                AnnouncedIffCreated
  <1>6. ASSUME NEW e \in Delivery, Duplicate(e) \/ Refused(e) \/ UnknownType(e)
        PROVE  IInv'
    BY <1>5, <1>6 DEF Duplicate, Refused, UnknownType
  <1>. QED
    BY <1>1, <1>2, <1>3, <1>4, <1>5, <1>6 DEF Next, Handle

\* Every table always holds rows of its schema.
THEOREM TypeCorrect == Spec => []TypeOK
  <1>1. IInv => TypeOK
    BY DEF IInv
  <1>. QED
    BY <1>1, InitIInv, StepIInv, PTL DEF Spec

\* The compensation is as durable as the failure: a stock.release is in the
\* outbox for exactly the orders that are PAYMENT_FAILED.
THEOREM FailureCompensated == Spec => []CompensationIffFailed
  <1>1. IInv => CompensationIffFailed
    BY DEF IInv
  <1>. QED
    BY <1>1, InitIInv, StepIInv, PTL DEF Spec

\* No order is ever compensated twice.
THEOREM CompensatedOnce == Spec => []CompensationOnce
  <1>1. IInv => CompensationOnce
    BY DEF IInv
  <1>. QED
    BY <1>1, InitIInv, StepIInv, PTL DEF Spec

\* An order and its order.placed are committed together, once, and agree.
THEOREM OutboxIsTransactional == Spec => []AnnouncedIffCreated
  <1>1. IInv => AnnouncedIffCreated
    BY DEF IInv
  <1>. QED
    BY <1>1, InitIInv, StepIInv, PTL DEF Spec

\* A terminal status is final, whatever outcome events are delivered.
THEOREM TerminalStays == Spec => TerminalIsFinal
  <1>. DEFINE Final == \A o \in Order :
                  orders[o].status \in Status \ {"PENDING"} => orders'[o] = orders[o]
  <1>1. IInv /\ [Next]_vars => [Final]_vars
    <2>. SUFFICES ASSUME IInv, Next PROVE Final
      OBVIOUS
    <2>. TypeOK
      BY DEF IInv
    <2>1. ASSUME NEW o \in Order, NEW r \in Request, CreateOrder(o, r)
          PROVE  Final
      BY <2>1 DEF CreateOrder, TypeOK, NoOrder, Status
    <2>2. ASSUME NEW e \in Delivery, NEW status \in Status,
                 Transition(e.payload.order, status)
          PROVE  Final
      <3>1. e.payload.order \in Order
        BY EventParts
      <3>. QED
        BY <2>2, <3>1, TransitionEffect
    <2>3. ASSUME NEW e \in Delivery, Handle(e)
          PROVE  Final
      <3>1. CASE PaymentSucceeded(e)
        BY <2>2, <3>1 DEF PaymentSucceeded, Status
      <3>2. CASE PaymentFailed(e)
        BY <2>2, <3>2 DEF PaymentFailed, Status
      <3>3. CASE StockRejected(e)
        BY <2>2, <3>3 DEF StockRejected, Status
      <3>4. CASE UNCHANGED vars
        BY <3>4 DEF vars
      <3>. QED
        BY <2>3, <3>1, <3>2, <3>3, <3>4 DEF Handle, Duplicate, Refused, UnknownType
    <2>. QED
      BY <2>1, <2>3 DEF Next
  <1>. QED
    BY <1>1, InitIInv, StepIInv, PTL DEF Spec, TerminalIsFinal

-----------------------------------------------------------------------------
(* The calls: OrderApi *)

\* The UNIQUE constraint.
KeysAreUnique ==
    \A o, p \in Order :
        /\ orders[o] # NoOrder /\ orders[p] # NoOrder
        /\ orders[o].request.key = orders[p].request.key
        /\ orders[o].request.key # NoKey
        => o = p

\* A call has asked for something once it is under way, and its answer is in
\* the table.
AnswersExist ==
    \A c \in Call :
        /\ phase[c] # "idle" => asked[c] \in Request
        /\ phase[c] = "answered" => answer[c] \in Order /\ orders[answer[c]] # NoOrder

\* The inductive invariant.
ApiInv ==
    /\ IInv
    /\ ApiTypeOK
    /\ KeysAreUnique
    /\ AnswersExist
    /\ AnswerIsOwn

USE OrderApiAssumption

-----------------------------------------------------------------------------

\* No call, no row: the invariant of the API holds.
LEMMA ApiInitially == ApiInit => ApiInv
  <1>. SUFFICES ASSUME ApiInit PROVE ApiInv
    OBVIOUS
  <1>1. IInv
    BY InitIInv DEF ApiInit
  <1>2. /\ \A o \in Order : orders[o] = NoOrder
        /\ \A c \in Call : phase[c] = "idle"
    BY DEF ApiInit, Init
  <1>3. ApiTypeOK
    BY <1>1 DEF ApiInit, ApiTypeOK, Phase, IInv
  <1>. QED
    BY <1>1, <1>2, <1>3 DEF ApiInv, KeysAreUnique, AnswersExist, AnswerIsOwn

\* The consumer moves orders on; what was asked for stays in their rows.
LEMMA HandleKeepsRequests ==
    ASSUME IInv, NEW e \in Delivery, Handle(e)
    PROVE  \A o \in Order :
              /\ orders'[o] = NoOrder <=> orders[o] = NoOrder
              /\ orders[o] # NoOrder => orders'[o].request = orders[o].request
  <1>1. TypeOK /\ e.payload.order \in Order
    <2>1. e \in Event
      BY DeliveryAssumption
    <2>. QED
      BY <2>1, EventParts DEF IInv
  <1>2. ASSUME NEW status \in Status, Transition(e.payload.order, status)
        PROVE  \A o \in Order :
                  /\ orders'[o] = NoOrder <=> orders[o] = NoOrder
                  /\ orders[o] # NoOrder => orders'[o].request = orders[o].request
    <2>. DEFINE p == e.payload.order
    <2>1. /\ orders[p] # NoOrder
          /\ orders'[p] = [status |-> status, request |-> orders[p].request]
          /\ \A o \in Order \ {p} : orders'[o] = orders[o]
      BY <1>1, <1>2, TransitionEffect
    <2>2. orders'[p].status # "ABSENT" /\ orders'[p].request = orders[p].request
      BY <1>2, <2>1 DEF Status
    <2>. HIDE DEF p
    <2>3. orders'[p] # NoOrder
      BY <2>2 DEF NoOrder
    <2>. QED
      BY <2>1, <2>2, <2>3
  <1>3. CASE PaymentSucceeded(e) \/ PaymentFailed(e) \/ StockRejected(e)
    BY <1>2, <1>3 DEF PaymentSucceeded, PaymentFailed, StockRejected, Status
  <1>4. CASE Duplicate(e) \/ Refused(e) \/ UnknownType(e)
    BY <1>4 DEF Duplicate, Refused, UnknownType, vars
  <1>. QED
    BY <1>3, <1>4 DEF Handle

\* The INSERT of a call: a row with what it asked for, and a key of its own.
LEMMA InsertKeeps ==
    ASSUME ApiInv, NEW c \in Call, NEW o \in Order, Insert(c, o)
    PROVE  ApiInv' /\ Next
  <1>1. /\ phase[c] = "clear" /\ CreateOrder(o, asked[c]) /\ asked' = asked
        /\ phase' = [phase EXCEPT ![c] = "answered"]
        /\ answer' = [answer EXCEPT ![c] = o]
    BY DEF Insert, Go
  <1>2. asked[c] \in Request
    BY <1>1 DEF ApiInv, AnswersExist
  <1>3. Next
    BY <1>1, <1>2 DEF Next
  <1>4. IInv'
    BY <1>1, <1>2, CreateOrderKeepsIInv DEF ApiInv
  <1>. DEFINE row == [status |-> "PENDING", request |-> asked[c]]
  <1>5. /\ orders \in [Order -> OrderRow \cup {NoOrder}]
        /\ orders[o] = NoOrder
        /\ orders' = [orders EXCEPT ![o] = row]
        /\ KeyFree(asked[c].key)
    BY <1>1 DEF ApiInv, IInv, TypeOK, CreateOrder
  <1>6. row # NoOrder /\ row.request = asked[c]
    BY DEF NoOrder
  <1>. HIDE DEF row
  <1>7. orders'[o] = row /\ \A p \in Order \ {o} : orders'[p] = orders[p]
    BY <1>5
  <1>8. /\ phase'[c] = "answered" /\ answer'[c] = o
        /\ \A d \in Call \ {c} : phase'[d] = phase[d] /\ answer'[d] = answer[d]
    BY <1>1 DEF ApiInv, ApiTypeOK
  <1>9. ApiTypeOK'
    BY <1>1, <1>4 DEF ApiInv, ApiTypeOK, Phase, IInv
  <1>10. KeysAreUnique'
    BY <1>5, <1>6, <1>7 DEF ApiInv, KeysAreUnique, KeyFree
  <1>11. AnswersExist'
    BY <1>1, <1>2, <1>6, <1>7, <1>8 DEF ApiInv, AnswersExist
  <1>12. AnswerIsOwn'
    <2>. SUFFICES ASSUME NEW d \in Call, phase'[d] = "answered"
                  PROVE  /\ orders'[answer'[d]].request.user = asked[d].user
                         /\ orders'[answer'[d]].request.key = asked[d].key
      BY <1>1 DEF AnswerIsOwn
    <2>1. CASE d = c
      BY <1>6, <1>7, <1>8, <2>1
    <2>2. CASE d # c
      <3>1. phase[d] = "answered" /\ answer'[d] = answer[d]
        BY <1>8, <2>2
      <3>2. answer[d] \in Order /\ orders[answer[d]] # NoOrder
        BY <3>1 DEF ApiInv, AnswersExist
      <3>3. orders'[answer[d]] = orders[answer[d]]
        BY <1>5, <1>7, <3>2
      <3>. QED
        BY <3>1, <3>3 DEF ApiInv, AnswerIsOwn
    <2>. QED
      BY <2>1, <2>2
  <1>. QED
    BY <1>3, <1>4, <1>9, <1>10, <1>11, <1>12 DEF ApiInv

\* The steps of a call that do not touch the tables.
LEMMA AsideKeeps ==
    ASSUME ApiInv, NEW c \in Call,
           \/ \E r \in Request : Receive(c, r)
           \/ LookupHit(c) \/ LookupMiss(c) \/ InsertConflict(c) \/ Lose(c)
    PROVE  ApiInv' /\ UNCHANGED vars
  <1>1. UNCHANGED vars /\ UNCHANGED <<orders, processed, outbox>>
    BY DEF Receive, LookupHit, LookupMiss, InsertConflict, Lose, vars
  <1>2. IInv'
    BY <1>1, StepIInv DEF ApiInv
  <1>3. KeysAreUnique'
    BY <1>1 DEF ApiInv, KeysAreUnique
  <1>4. CASE \E r \in Request : Receive(c, r)
    <2>1. PICK r \in Request : Receive(c, r)
      BY <1>4
    <2>2. /\ phase[c] = "idle" /\ answer' = answer
          /\ asked' = [asked EXCEPT ![c] = r]
          /\ phase' = [phase EXCEPT ![c] = "received"]
      BY <2>1 DEF Receive, Go
    <2>3. ApiTypeOK'
      BY <1>2, <2>2 DEF ApiInv, ApiTypeOK, Phase, IInv
    <2>4. AnswersExist' /\ AnswerIsOwn'
      BY <1>1, <2>2 DEF ApiInv, ApiTypeOK, AnswersExist, AnswerIsOwn
    <2>. QED
      BY <1>1, <1>2, <1>3, <2>3, <2>4 DEF ApiInv
  <1>5. CASE LookupHit(c)
    <2>1. /\ phase[c] = "received" /\ asked' = asked
          /\ phase' = [phase EXCEPT ![c] = "answered"]
      BY <1>5 DEF LookupHit, Go
    <2>2. PICK o \in Order : Matches(o, asked[c]) /\ answer' = [answer EXCEPT ![c] = o]
      BY <1>5 DEF LookupHit
    <2>3. ApiTypeOK'
      BY <1>2, <2>1, <2>2 DEF ApiInv, ApiTypeOK, Phase, IInv
    <2>4. AnswersExist' /\ AnswerIsOwn'
      BY <1>1, <2>1, <2>2 DEF ApiInv, ApiTypeOK, AnswersExist, AnswerIsOwn, Matches
    <2>. QED
      BY <1>1, <1>2, <1>3, <2>3, <2>4 DEF ApiInv
  <1>6. CASE LookupMiss(c) \/ InsertConflict(c) \/ Lose(c)
    <2>1. /\ phase[c] \in {"received", "clear"} /\ asked' = asked /\ answer' = answer
          /\ \E to \in {"clear", "conflict", "lost"} : phase' = [phase EXCEPT ![c] = to]
      BY <1>6 DEF LookupMiss, InsertConflict, Lose, Go
    <2>2. ApiTypeOK'
      BY <1>2, <2>1 DEF ApiInv, ApiTypeOK, Phase, IInv
    <2>3. AnswersExist' /\ AnswerIsOwn'
      BY <1>1, <2>1 DEF ApiInv, ApiTypeOK, AnswersExist, AnswerIsOwn
    <2>. QED
      BY <1>1, <1>2, <1>3, <2>2, <2>3 DEF ApiInv
  <1>. QED
    BY <1>4, <1>5, <1>6

\* The consumer at work between two statements of a call does not disturb it.
LEMMA ConsumerKeeps ==
    ASSUME ApiInv, Consumer
    PROVE  ApiInv' /\ [Next]_vars
  <1>1. PICK e \in Delivery : Handle(e)
    BY DEF Consumer
  <1>2. Next /\ UNCHANGED <<asked, phase, answer>>
    BY <1>1 DEF Consumer, Next
  <1>3. IInv'
    BY <1>2, StepIInv DEF ApiInv
  <1>4. \A o \in Order :
            /\ orders'[o] = NoOrder <=> orders[o] = NoOrder
            /\ orders[o] # NoOrder => orders'[o].request = orders[o].request
    BY <1>1, HandleKeepsRequests DEF ApiInv
  <1>5. ApiTypeOK'
    BY <1>2, <1>3 DEF ApiInv, ApiTypeOK, IInv
  <1>6. KeysAreUnique'
    BY <1>4 DEF ApiInv, KeysAreUnique
  <1>7. AnswersExist' /\ AnswerIsOwn'
    BY <1>2, <1>4 DEF ApiInv, AnswersExist, AnswerIsOwn
  <1>. QED
    BY <1>2, <1>3, <1>5, <1>6, <1>7 DEF ApiInv

\* Every step of the API keeps its invariant and is one of OrderService.
LEMMA ApiStep == ApiInv /\ [ApiNext]_apiVars => ApiInv' /\ [Next]_vars
  <1>. SUFFICES ASSUME ApiInv, [ApiNext]_apiVars PROVE ApiInv' /\ [Next]_vars
    OBVIOUS
  <1>1. CASE Consumer
    BY <1>1, ConsumerKeeps
  <1>2. ASSUME NEW c \in Call, NEW o \in Order, Insert(c, o)
        PROVE  ApiInv' /\ [Next]_vars
    BY <1>2, InsertKeeps
  <1>3. ASSUME NEW c \in Call,
               \/ \E r \in Request : Receive(c, r)
               \/ LookupHit(c) \/ LookupMiss(c) \/ InsertConflict(c) \/ Lose(c)
        PROVE  ApiInv' /\ [Next]_vars
    BY <1>3, AsideKeeps
  <1>4. CASE UNCHANGED apiVars
    <2>1. UNCHANGED vars /\ UNCHANGED <<orders, asked, phase, answer>>
      BY <1>4 DEF apiVars, vars
    <2>2. IInv'
      BY <2>1, StepIInv DEF ApiInv
    <2>. QED
      BY <2>1, <2>2 DEF ApiInv, ApiTypeOK, KeysAreUnique, AnswersExist, AnswerIsOwn, IInv
  <1>. QED
    BY <1>1, <1>2, <1>3, <1>4 DEF ApiNext

-----------------------------------------------------------------------------

\* Calls in every phase have their types, and the tables their rows.
THEOREM ApiTypes == ApiSpec => []ApiTypeOK
  <1>1. ApiInv => ApiTypeOK
    BY DEF ApiInv
  <1>. QED
    BY <1>1, ApiInitially, ApiStep, PTL DEF ApiSpec

\* Nobody is answered with another user's order, or with another key's.
THEOREM AnswersAreOwn == ApiSpec => []AnswerIsOwn
  <1>1. ApiInv => AnswerIsOwn
    BY DEF ApiInv
  <1>. QED
    BY <1>1, ApiInitially, ApiStep, PTL DEF ApiSpec

\* A retry never orders twice.
THEOREM RetriesOrderOnce == ApiSpec => []SameKeySameOrder
  <1>1. ApiInv => SameKeySameOrder
    BY DEF ApiInv, AnswersExist, AnswerIsOwn, KeysAreUnique, SameKeySameOrder, SameKey
  <1>. QED
    BY <1>1, ApiInitially, ApiStep, PTL DEF ApiSpec

\* Whatever the calls do among themselves, the tables see OrderService, and
\* its theorems hold of them.
THEOREM ApiImplementsOrderService == ApiSpec => Spec
  <1>1. ApiInit => Init
    BY DEF ApiInit
  <1>. QED
    BY <1>1, ApiInitially, ApiStep, PTL DEF ApiSpec, Spec

=============================================================================
