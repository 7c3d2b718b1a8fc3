--------------------------- MODULE PipelineProofs ---------------------------
(***************************************************************************)
(* The relays and the consumer loop keep their promises for any number of  *)
(* relays, topics, messages, failures and restarts.  Nothing here is about *)
(* fairness: that an event arrives in the end is left to TLC.              *)
(***************************************************************************)
EXTENDS Pipeline, EventLemmas, FiniteSetTheorems

\* The inductive invariant of the loop: a commit writes the offsets of every
\* topic, and those outside the subscription must not move.
LoopInv ==
    /\ TypeOK
    /\ log \in [EventType -> Seq(Message)]
    /\ \A t \in EventType \ Topic : committed[t] = 0 /\ done[t] = 0 /\ fetched[t] = 0

\* Rows and orders are one to one, so an event has the number of its row.
RowsAreNumbered ==
    /\ \A i \in DOMAIN outbox :
          /\ outbox[i].type \in PaymentEvents
          /\ outbox[i].payload.order \in Order
          /\ outbox[i] = [id |-> <<outbox[i].type, i>>, type |-> outbox[i].type,
                          payload |-> Bare(outbox[i].payload.order)]
          /\ outbox[i].payload.order \notin open
    /\ \A i, j \in DOMAIN outbox :
          outbox[i].payload.order = outbox[j].payload.order => i = j
    /\ \A o \in open \cup {outbox[i].payload.order : i \in DOMAIN outbox} :
          \E n \in DOMAIN began : began[n] = o

\* The topics hold rows of the outbox and nothing else.
TopicsHoldRows ==
    \A t \in EventType : \A k \in DOMAIN log[t] :
        \E i \in DOMAIN outbox : log[t][k] = outbox[i]

\* FOR UPDATE SKIP LOCKED.
LocksAreExclusive ==
    \A r \in Relay : locked[r] # NoRow =>
        /\ locked[r] \notin published
        /\ \A s \in Relay \ {r} : locked[s] # locked[r]

SentIsSent == \A r \in sent : Relays!Copies(locked[r]) # {}

\* The first copy of a row belongs to who has marked it or is about to.
Settled(i) == i \in published \/ \E r \in sent : locked[r] = i

CopiesArePaid ==
    \A i \in DOMAIN outbox :
        Cardinality(Relays!Copies(i)) <= failures + (IF Settled(i) THEN 1 ELSE 0)

\* The inductive invariant of the relays.
RelayInv ==
    /\ Relays!TypeOK
    /\ RowsAreNumbered
    /\ TopicsHoldRows
    /\ LocksAreExclusive
    /\ SentIsSent
    /\ CopiesArePaid

USE ConsumerAssumption, RelayAssumption, WrittenAssumption

-----------------------------------------------------------------------------
(* The loop *)

LEMMA TopicsAreTypes ==
    /\ Topic \subseteq EventType
    /\ \A e \in Message : e.type \in Topic
    /\ \E group \in {OrderTopics, RestaurantTopics, PaymentTopics} : Topic \subseteq group
  BY DEF EventType, OrderEvents, RestaurantEvents, PaymentEvents, OrderTopics,
         RestaurantTopics, PaymentTopics

\* Events is one module, whoever instantiates it.
LEMMA KafkaVocabulary ==
    /\ OneAtATime!EventType = EventType
    /\ OneAtATime!OrderTopics = OrderTopics
    /\ OneAtATime!RestaurantTopics = RestaurantTopics
    /\ OneAtATime!PaymentTopics = PaymentTopics
  BY DEF EventType, OrderEvents, RestaurantEvents, PaymentEvents, OrderTopics,
         RestaurantTopics, PaymentTopics,
         OneAtATime!EventType, OneAtATime!OrderEvents, OneAtATime!RestaurantEvents,
         OneAtATime!PaymentEvents, OneAtATime!OrderTopics, OneAtATime!RestaurantTopics,
         OneAtATime!PaymentTopics

LEMMA LoopInitially == Init => LoopInv /\ OneAtATime!Init
  <1>. SUFFICES ASSUME Init PROVE LoopInv /\ OneAtATime!Init
    OBVIOUS
  <1>1. \A t \in EventType : log[t] = <<>> /\ committed[t] = 0 /\ done[t] = 0 /\ fetched[t] = 0
    BY DEF Init, Zero
  <1>2. log \in [EventType -> Seq(Message)]
    BY DEF Init
  <1>3. TypeOK
    BY <1>1 DEF Init, Zero, TypeOK
  <1>4. OneAtATime!Init
    BY KafkaVocabulary DEF Init, Zero, OneAtATime!Init
  <1>. QED
    BY <1>1, <1>2, <1>3, <1>4, TopicsAreTypes DEF LoopInv

\* A record more on a topic, whoever sent it.
Grows(e) == log' = [log EXCEPT ![e.type] = Append(@, e)] /\ UNCHANGED loopVars

LEMMA GrowKeepsLoop ==
    ASSUME LoopInv, NEW e \in Message, Grows(e)
    PROVE  LoopInv' /\ OneAtATime!Next
  <1>. DEFINE u == e.type
  <1>1. u \in EventType
    BY TopicsAreTypes
  <1>2. /\ log' = [log EXCEPT ![u] = Append(@, e)] /\ UNCHANGED loopVars
        /\ log \in [EventType -> Seq(Message)]
    BY DEF Grows, LoopInv
  <1>3. OneAtATime!Next
    BY <1>2 DEF OneAtATime!Next, OneAtATime!Produce, loopVars
  <1>. HIDE DEF u
  <1>4. log' \in [EventType -> Seq(Message)]
    BY <1>1, <1>2
  <1>5. Len(log'[u]) = Len(log[u]) + 1 /\ Len(log[u]) \in Nat
    BY <1>1, <1>2
  <1>6. \A t \in EventType \ {u} : log'[t] = log[t]
    BY <1>1, <1>2
  <1>7. /\ committed' = committed /\ fetched' = fetched /\ done' = done
        /\ running' = running /\ restarts' = restarts /\ processed' = processed
    BY <1>2 DEF loopVars
  <1>8. \A t \in EventType : fetched[t] <= Len(log'[t])
    <2>1. \A t \in EventType : fetched[t] <= Len(log[t]) /\ fetched[t] \in Nat
      BY DEF LoopInv, TypeOK
    <2>2. fetched[u] <= Len(log'[u])
      BY <1>1, <1>5, <2>1
    <2>. QED
      BY <1>6, <2>1, <2>2
  <1>9. TypeOK'
    BY <1>7, <1>8 DEF LoopInv, TypeOK
  <1>. QED
    BY <1>3, <1>4, <1>7, <1>9 DEF LoopInv

LEMMA GetManyKeepsLoop ==
    ASSUME LoopInv, GetMany
    PROVE  LoopInv' /\ UNCHANGED OneAtATime!vars
  <1>1. PICK batch \in [Topic -> 0..MaxMessages] :
          /\ \A t \in Topic : batch[t] \in committed[t]..Len(log[t])
          /\ fetched' = [t \in EventType |-> IF t \in Topic THEN batch[t] ELSE 0]
    BY DEF GetMany
  <1>2. /\ log' = log /\ committed' = committed /\ done' = done /\ running' = running
        /\ restarts' = restarts /\ processed' = processed
        /\ done = committed
    BY DEF GetMany, AtTop
  <1>3. \A t \in EventType : Len(log[t]) \in Nat /\ committed[t] \in Nat /\ committed[t] <= Len(log[t])
    BY DEF LoopInv, TypeOK
  <1>4. \A t \in Topic : /\ fetched'[t] = batch[t] /\ batch[t] \in Nat
                         /\ committed[t] <= batch[t] /\ batch[t] <= Len(log[t])
    BY <1>1, <1>3, TopicsAreTypes
  <1>5. \A t \in EventType \ Topic : fetched'[t] = 0 /\ committed[t] = 0
    BY <1>1 DEF LoopInv
  <1>6. fetched' \in [EventType -> Nat]
    BY <1>1, <1>4
  <1>7. \A t \in EventType : done[t] <= fetched'[t] /\ fetched'[t] <= Len(log[t])
    BY <1>2, <1>3, <1>4, <1>5
  <1>8. TypeOK'
    BY <1>2, <1>6, <1>7 DEF LoopInv, TypeOK
  <1>. QED
    BY <1>2, <1>5, <1>8 DEF LoopInv, OneAtATime!vars

LEMMA HandlerKeepsLoop ==
    ASSUME LoopInv, NEW t \in Topic, Return(t) \/ Raise(t)
    PROVE  LoopInv' /\ OneAtATime!Next
  <1>1. /\ t \in EventType
        /\ done[t] < fetched[t]
        /\ done' = [done EXCEPT ![t] = @ + 1]
        /\ log' = log /\ committed' = committed /\ fetched' = fetched
        /\ running' = running /\ restarts' = restarts
        /\ processed' \subseteq processed \cup {<<t, done[t] + 1>>}
    BY TopicsAreTypes DEF Return, Raise, Current
  <1>2. \A u \in EventType : /\ committed[u] \in Nat /\ done[u] \in Nat /\ fetched[u] \in Nat
                             /\ Len(log[u]) \in Nat
                             /\ committed[u] <= done[u] /\ done[u] <= fetched[u]
                             /\ fetched[u] <= Len(log[u])
    BY DEF LoopInv, TypeOK
  <1>3. done'[t] = done[t] + 1 /\ \A u \in EventType \ {t} : done'[u] = done[u]
    BY <1>1 DEF LoopInv, TypeOK
  <1>4. done' \in [EventType -> Nat]
    BY <1>1, <1>2 DEF LoopInv, TypeOK
  <1>5. \A u \in EventType : committed[u] <= done'[u] /\ done'[u] <= fetched[u]
    BY <1>1, <1>2, <1>3
  <1>6. processed' \subseteq Topic \X Nat
    BY <1>1, <1>2 DEF LoopInv, TypeOK
  <1>7. TypeOK'
    BY <1>1, <1>4, <1>5, <1>6 DEF LoopInv, TypeOK
  <1>8. done[t] < Len(log[t])
    BY <1>1, <1>2
  <1>9. OneAtATime!Advance(t)
    BY <1>1, <1>8 DEF OneAtATime!Advance, OneAtATime!HasNext
  <1>. QED
    BY <1>1, <1>3, <1>7, <1>9, KafkaVocabulary DEF LoopInv, OneAtATime!Next

\* The commit of a batch is the commit of the group between two messages.
LEMMA CommitKeepsLoop ==
    ASSUME LoopInv, Commit
    PROVE  LoopInv' /\ OneAtATime!Next
  <1>1. /\ done = fetched /\ committed' = fetched /\ fetched # committed
        /\ log' = log /\ done' = done /\ fetched' = fetched
        /\ running' = running /\ restarts' = restarts /\ processed' = processed
    BY DEF Commit
  <1>2. LoopInv'
    BY <1>1 DEF LoopInv, TypeOK
  <1>3. PICK group \in {OrderTopics, RestaurantTopics, PaymentTopics} : Topic \subseteq group
    BY TopicsAreTypes
  <1>4. /\ committed \in [EventType -> Nat] /\ done \in [EventType -> Nat]
        /\ \A t \in EventType \ group : committed[t] = done[t]
    BY <1>1, <1>3 DEF LoopInv, TypeOK
  <1>5. \E t \in group : committed[t] # done[t]
    BY <1>1, <1>4
  <1>6. committed' = [t \in EventType |-> IF t \in group THEN done[t] ELSE committed[t]]
    BY <1>1, <1>4
  <1>7. OneAtATime!Commit(group)
    BY <1>1, <1>5, <1>6, KafkaVocabulary DEF OneAtATime!Commit
  <1>. QED
    BY <1>2, <1>3, <1>7, KafkaVocabulary DEF OneAtATime!Next

LEMMA DieKeepsLoop ==
    ASSUME LoopInv, Die
    PROVE  LoopInv' /\ UNCHANGED OneAtATime!vars
  BY DEF LoopInv, TypeOK, Die, OneAtATime!vars

LEMMA RestartKeepsLoop ==
    ASSUME LoopInv, Restart
    PROVE  LoopInv' /\ OneAtATime!Next
  <1>1. /\ fetched' = committed /\ done' = committed
        /\ log' = log /\ committed' = committed /\ processed' = processed
        /\ running' = TRUE /\ restarts' = restarts + 1 /\ restarts < MaxRestarts
    BY DEF Restart
  <1>2. \A t \in EventType : /\ committed[t] \in Nat /\ done[t] \in Nat /\ fetched[t] \in Nat
                             /\ Len(log[t]) \in Nat
                             /\ committed[t] <= done[t] /\ done[t] <= fetched[t]
                             /\ fetched[t] <= Len(log[t])
    BY DEF LoopInv, TypeOK
  <1>3. \A t \in EventType : committed[t] <= committed[t] /\ committed[t] <= Len(log[t])
    BY <1>2
  <1>4. restarts' \in 0..MaxRestarts
    BY <1>1 DEF LoopInv, TypeOK
  <1>5. TypeOK'
    BY <1>1, <1>3, <1>4 DEF LoopInv, TypeOK
  <1>6. PICK group \in {OrderTopics, RestaurantTopics, PaymentTopics} : Topic \subseteq group
    BY TopicsAreTypes
  <1>7. /\ committed \in [EventType -> Nat] /\ done \in [EventType -> Nat]
        /\ \A t \in EventType \ group : committed[t] = done[t]
    BY <1>6 DEF LoopInv, TypeOK
  <1>8. done' = [t \in EventType |-> IF t \in group THEN committed[t] ELSE done[t]]
    BY <1>1, <1>7
  <1>9. OneAtATime!Rejoin(group)
    BY <1>1, <1>8, KafkaVocabulary DEF OneAtATime!Rejoin
  <1>. QED
    BY <1>1, <1>5, <1>6, <1>9, KafkaVocabulary DEF LoopInv, OneAtATime!Next

LEMMA LoopKeepsLoop ==
    ASSUME LoopInv, LoopStep \/ Die \/ Restart
    PROVE  LoopInv' /\ [OneAtATime!Next]_OneAtATime!vars
  BY GetManyKeepsLoop, HandlerKeepsLoop, CommitKeepsLoop, DieKeepsLoop, RestartKeepsLoop
     DEF LoopStep

LEMMA NextKeepsLoop ==
    ASSUME LoopInv, [Next]_vars
    PROVE  LoopInv' /\ [OneAtATime!Next]_OneAtATime!vars
  <1>1. CASE \E e \in Message : Produce(e)
    <2>1. PICK e \in Message : Produce(e)
      BY <1>1
    <2>2. Grows(e)
      BY <2>1 DEF Produce, Grows, loopVars
    <2>. QED
      BY <2>2, GrowKeepsLoop
  <1>2. CASE LoopStep \/ Die \/ Restart
    BY <1>2, LoopKeepsLoop
  <1>3. CASE UNCHANGED vars
    BY <1>3 DEF vars, LoopInv, TypeOK, OneAtATime!vars
  <1>. QED
    BY <1>1, <1>2, <1>3 DEF Next

\* ConsumerLoop.TypeOK, for whatever is produced: what is committed has been
\* handled, and what was handled has been fetched (run_consumer).
THEOREM LoopTypes == Spec => []TypeOK
  <1>1. Init => LoopInv
    BY LoopInitially
  <1>2. LoopInv /\ [Next]_vars => LoopInv'
    BY NextKeepsLoop
  <1>3. LoopInv => TypeOK
    BY DEF LoopInv
  <1>. QED
    BY <1>1, <1>2, <1>3, PTL DEF Spec

\* The batches of run_consumer are one message at a time: none is passed over,
\* none is handled out of order, wherever the loop or the process ends.
THEOREM LoopImplementsKafka == Spec => ImplementsKafka
  <1>1. Init => LoopInv /\ OneAtATime!Init
    BY LoopInitially
  <1>2. LoopInv /\ [Next]_vars => LoopInv' /\ [OneAtATime!Next]_OneAtATime!vars
    BY NextKeepsLoop
  <1>. QED
    BY <1>1, <1>2, PTL DEF Spec, ImplementsKafka, OneAtATime!Spec

-----------------------------------------------------------------------------
(* The relays *)

LEMMA RelayVocabulary ==
    /\ Relays!EventType = EventType
    /\ Relays!PaymentEvents = PaymentEvents
    /\ Relays!Event = Event
    /\ \A o : Relays!Bare(o) = Bare(o)
    /\ \A t, p, seq : Relays!Emit(seq, t, p) = Append(seq, WrapEvent(t, p, seq))
    /\ Relays!Promise!EventType = EventType
  BY DEF EventType, OrderEvents, RestaurantEvents, PaymentEvents, Event, EventId, FullTypes,
         FullPayload, BarePayload, Basket, Directive, Bare, WrapEvent,
         Relays!EventType, Relays!OrderEvents, Relays!RestaurantEvents, Relays!PaymentEvents,
         Relays!Event, Relays!EventId, Relays!FullTypes, Relays!FullPayload,
         Relays!BarePayload, Relays!Basket, Relays!Directive, Relays!Bare, Relays!Emit,
         Relays!WrapEvent, Relays!Promise!EventType, Relays!Promise!OrderEvents,
         Relays!Promise!RestaurantEvents, Relays!Promise!PaymentEvents

\* Cardinality, of FiniteSets, is one operator as well.
LEMMA RelayCardinality == \A S : Relays!Cardinality(S) = Cardinality(S)
  BY Zenon DEF Relays!Cardinality, Cardinality

LEMMA RowFacts ==
    ASSUME RelayInv
    PROVE  /\ outbox \in Seq(Event)
           /\ DOMAIN outbox = 1..Len(outbox) /\ Len(outbox) \in Nat
           /\ log \in [EventType -> Seq(Event)]
           /\ \A i \in DOMAIN outbox : outbox[i].type \in EventType
           /\ \A i, j \in DOMAIN outbox : outbox[i] = outbox[j] => i = j
           /\ failures \in Nat
  <1>1. /\ outbox \in Seq(Event) /\ log \in [EventType -> Seq(Event)] /\ failures \in Nat
    BY RelayVocabulary DEF RelayInv, Relays!TypeOK
  <1>2. DOMAIN outbox = 1..Len(outbox) /\ Len(outbox) \in Nat
    BY <1>1
  <1>3. \A i \in DOMAIN outbox : outbox[i].type \in EventType
    BY DEF RelayInv, RowsAreNumbered, EventType
  <1>4. \A i \in DOMAIN outbox : outbox[i].id = <<outbox[i].type, i>>
    BY DEF RelayInv, RowsAreNumbered
  <1>5. ASSUME NEW i \in DOMAIN outbox, NEW j \in DOMAIN outbox, outbox[i] = outbox[j]
        PROVE  i = j
    BY <1>4, <1>5
  <1>. QED
    BY <1>1, <1>2, <1>3, <1>5

\* Every row has an order of its own.
LEMMA RowsAreFew ==
    ASSUME NEW seq \in Seq(Event),
           \A i \in DOMAIN seq : seq[i].payload.order \in Order,
           \A i, j \in DOMAIN seq : seq[i].payload.order = seq[j].payload.order => i = j
    PROVE  Len(seq) <= Cardinality(Order)
  <1>. DEFINE f == [i \in 1..Len(seq) |-> seq[i].payload.order]
  <1>1. DOMAIN seq = 1..Len(seq) /\ Len(seq) \in Nat
    OBVIOUS
  <1>2. f \in Injection(1..Len(seq), Order)
    BY <1>1 DEF Injection, IsInjective
  <1>3. Cardinality(1..Len(seq)) = Len(seq)
    BY <1>1, FS_Interval
  <1>. QED
    BY <1>2, <1>3, FS_Injection

LEMMA RowIsWritten ==
    ASSUME RelayInv, NEW i \in DOMAIN outbox
    PROVE  outbox[i] \in Relays!Written /\ outbox[i] \in Message
  <1>1. Len(outbox) <= Cardinality(Order)
    BY RowFacts, RowsAreFew DEF RelayInv, RowsAreNumbered
  <1>2. i \in 1..Cardinality(Order)
    BY <1>1, RowFacts, FS_CardinalityType
  <1>. QED
    BY <1>2, RelayVocabulary, RelayCardinality DEF RelayInv, RowsAreNumbered, Relays!Written

LEMMA CopiesAreFinite ==
    ASSUME RelayInv, NEW i \in DOMAIN outbox
    PROVE  IsFiniteSet(Relays!Copies(i)) /\ Cardinality(Relays!Copies(i)) \in Nat
  <1>. DEFINE t == outbox[i].type
  <1>1. log[t] \in Seq(Event)
    BY RowFacts
  <1>2. Len(log[t]) \in Nat /\ DOMAIN log[t] = 1..Len(log[t])
    BY <1>1
  <1>3. Relays!Copies(i) \subseteq 1..Len(log[t])
    BY <1>2 DEF Relays!Copies
  <1>4. IsFiniteSet(1..Len(log[t]))
    BY <1>2, FS_Interval
  <1>5. IsFiniteSet(Relays!Copies(i))
    BY <1>3, <1>4, FS_Subset
  <1>. QED
    BY <1>5, FS_CardinalityType

\* A send adds one copy of its row and none of any other.
LEMMA SendAddsACopy ==
    ASSUME RelayInv, NEW i \in DOMAIN outbox, Relays!AppendRow(i), outbox' = outbox
    PROVE  /\ log' \in [EventType -> Seq(Event)]
           /\ TopicsHoldRows'
           /\ Relays!Copies(i)' # {}
           /\ Cardinality(Relays!Copies(i)') = Cardinality(Relays!Copies(i)) + 1
           /\ \A j \in DOMAIN outbox \ {i} : Relays!Copies(j)' = Relays!Copies(j)
           /\ \A j \in DOMAIN outbox : Relays!Copies(j) \subseteq Relays!Copies(j)'
  <1>. DEFINE t == outbox[i].type
              e == outbox[i]
  <1>1. t \in EventType /\ log' = [log EXCEPT ![t] = Append(@, e)]
    BY RowFacts DEF Relays!AppendRow
  <1>2. e \in Event /\ log \in [EventType -> Seq(Event)]
    BY RowFacts
  <1>3. \A j \in DOMAIN outbox \ {i} : outbox[j] # e
    BY RowFacts
  <1>4. /\ Relays!Copies(i) = {k \in DOMAIN log[t] : log[t][k] = e}
        /\ Relays!Copies(i)' = {k \in DOMAIN log'[t] : log'[t][k] = e}
    BY DEF Relays!Copies
  <1>5. IsFiniteSet(Relays!Copies(i))
    BY CopiesAreFinite
  <1>. HIDE DEF t, e
  <1>6. log' \in [EventType -> Seq(Event)]
    BY <1>1, <1>2
  <1>7. \A u \in EventType \ {t} : log'[u] = log[u]
    BY <1>1, <1>2
  <1>8. log'[t] = Append(log[t], e) /\ log[t] \in Seq(Event)
    BY <1>1, <1>2
  <1>9. /\ DOMAIN log'[t] = DOMAIN log[t] \cup {Len(log[t]) + 1}
        /\ Len(log[t]) + 1 \notin DOMAIN log[t]
        /\ log'[t][Len(log[t]) + 1] = e
        /\ \A k \in DOMAIN log[t] : log'[t][k] = log[t][k]
    BY <1>2, <1>8, AppendRow
  <1>10. Relays!Copies(i)' = Relays!Copies(i) \cup {Len(log[t]) + 1}
    BY <1>4, <1>9
  <1>11. Len(log[t]) + 1 \notin Relays!Copies(i)
    BY <1>4, <1>9
  <1>12. Cardinality(Relays!Copies(i)') = Cardinality(Relays!Copies(i)) + 1
    BY <1>5, <1>10, <1>11, FS_AddElement
  <1>13. ASSUME NEW j \in DOMAIN outbox \ {i}
         PROVE  Relays!Copies(j)' = Relays!Copies(j)
    <2>. DEFINE u == outbox[j].type
    <2>1. /\ Relays!Copies(j) = {k \in DOMAIN log[u] : log[u][k] = outbox[j]}
          /\ Relays!Copies(j)' = {k \in DOMAIN log'[u] : log'[u][k] = outbox[j]}
      BY DEF Relays!Copies
    <2>2. u \in EventType
      BY RowFacts
    <2>. HIDE DEF u
    <2>3. CASE u = t
      BY <1>3, <1>9, <2>1, <2>3
    <2>4. CASE u # t
      BY <1>7, <2>1, <2>2, <2>4
    <2>. QED
      BY <2>3, <2>4
  <1>14. TopicsHoldRows'
    <2>. SUFFICES ASSUME NEW u \in EventType, NEW k \in DOMAIN log'[u]
                  PROVE  \E j \in DOMAIN outbox : log'[u][k] = outbox[j]
      BY DEF TopicsHoldRows
    <2>1. CASE u = t /\ k = Len(log[t]) + 1
      BY <1>9, <2>1 DEF e
    <2>2. CASE u = t /\ k # Len(log[t]) + 1
      BY <1>1, <1>9, <2>2 DEF RelayInv, TopicsHoldRows
    <2>3. CASE u # t
      BY <1>7, <2>3 DEF RelayInv, TopicsHoldRows
    <2>. QED
      BY <2>1, <2>2, <2>3
  <1>. QED
    BY <1>6, <1>10, <1>12, <1>13, <1>14

\* What the outbox promises of a step of the writers or of a relay.
Promised == [Relays!Promise!Next]_Relays!Promise!vars

LEMMA BeginKeepsRelays ==
    ASSUME RelayInv, NEW o \in Order, Relays!Begin(o)
    PROVE  RelayInv' /\ UNCHANGED <<outbox, published, log>>
  <1>1. /\ \A n \in DOMAIN began : began[n] # o
        /\ began' = Append(began, o) /\ open' = open \cup {o}
        /\ outbox' = outbox /\ published' = published /\ log' = log
        /\ locked' = locked /\ sent' = sent /\ failures' = failures
    BY DEF Relays!Begin
  <1>2. began \in Seq(Order)
    BY DEF RelayInv, Relays!TypeOK
  <1>3. Relays!TypeOK'
    BY <1>1, <1>2 DEF RelayInv, Relays!TypeOK
  <1>4. /\ \A n \in DOMAIN began : n \in DOMAIN began' /\ began'[n] = began[n]
        /\ \E n \in DOMAIN began' : began'[n] = o
    BY <1>1, <1>2
  <1>5. RowsAreNumbered'
    BY <1>1, <1>4 DEF RelayInv, RowsAreNumbered
  <1>6. (TopicsHoldRows /\ LocksAreExclusive /\ SentIsSent /\ CopiesArePaid)'
    BY <1>1 DEF RelayInv, TopicsHoldRows, LocksAreExclusive, SentIsSent, CopiesArePaid,
                Settled, Relays!Copies
  <1>. QED
    BY <1>1, <1>3, <1>5, <1>6 DEF RelayInv

LEMMA RollbackKeepsRelays ==
    ASSUME RelayInv, NEW o \in Order, Relays!Rollback(o)
    PROVE  RelayInv' /\ UNCHANGED <<outbox, published, log>>
  <1>1. /\ open' = open \ {o} /\ began' = began
        /\ outbox' = outbox /\ published' = published /\ log' = log
        /\ locked' = locked /\ sent' = sent /\ failures' = failures
    BY DEF Relays!Rollback
  <1>2. Relays!TypeOK'
    BY <1>1 DEF RelayInv, Relays!TypeOK
  <1>3. RowsAreNumbered'
    BY <1>1 DEF RelayInv, RowsAreNumbered
  <1>4. (TopicsHoldRows /\ LocksAreExclusive /\ SentIsSent /\ CopiesArePaid)'
    BY <1>1 DEF RelayInv, TopicsHoldRows, LocksAreExclusive, SentIsSent, CopiesArePaid,
                Settled, Relays!Copies
  <1>. QED
    BY <1>1, <1>2, <1>3, <1>4 DEF RelayInv

\* The row of a transaction: a new number, an order no other row has.
LEMMA CommitKeepsRelays ==
    ASSUME RelayInv, NEW o \in Order, Relays!CommitWriter(o)
    PROVE  RelayInv' /\ Promised /\ UNCHANGED log
  <1>1. PICK t \in PaymentEvents : outbox' = Append(outbox, WrapEvent(t, Bare(o), outbox))
    BY RelayVocabulary DEF Relays!CommitWriter
  <1>2. /\ o \in open /\ open' = open \ {o} /\ began' = began
        /\ published' = published /\ log' = log
        /\ locked' = locked /\ sent' = sent /\ failures' = failures
    BY DEF Relays!CommitWriter
  <1>. DEFINE e == WrapEvent(t, Bare(o), outbox)
  <1>0. PICK n \in Nat : n = Len(outbox) + 1
    BY RowFacts
  <1>3. t \in EventType \ FullTypes
    BY DEF EventType, FullTypes, PaymentEvents
  <1>4. outbox \in Seq(Event)
    BY RowFacts
  <1>5. e \in Event /\ e.type = t /\ e.payload.order = o
    BY <1>3, <1>4, WrapBare
  <1>6. e = [id |-> <<t, n>>, type |-> t, payload |-> Bare(o)]
    BY <1>0 DEF WrapEvent
  <1>7. e = [id |-> <<e.type, n>>, type |-> e.type, payload |-> Bare(e.payload.order)]
    BY <1>5, <1>6
  <1>8. e.id = <<t, n>>
    BY <1>6
  <1>. HIDE DEF e
  <1>9. /\ outbox' \in Seq(Event)
        /\ Len(outbox') = n /\ n \in Nat
        /\ DOMAIN outbox = 1..Len(outbox) /\ DOMAIN outbox' = DOMAIN outbox \cup {n}
        /\ n \notin DOMAIN outbox
        /\ outbox'[n] = e
        /\ \A i \in DOMAIN outbox : outbox'[i] = outbox[i]
    BY <1>0, <1>1, <1>4, <1>5, AppendRow DEF e
  <1>10. \A i \in DOMAIN outbox : outbox[i].payload.order # o /\ outbox[i].payload.order \in Order
    BY <1>2 DEF RelayInv, RowsAreNumbered
  <1>11. RowsAreNumbered'
    <2>1. ASSUME NEW i \in DOMAIN outbox'
          PROVE  /\ outbox'[i].type \in PaymentEvents
                 /\ outbox'[i].payload.order \in Order
                 /\ outbox'[i] = [id |-> <<outbox'[i].type, i>>, type |-> outbox'[i].type,
                                  payload |-> Bare(outbox'[i].payload.order)]
                 /\ outbox'[i].payload.order \notin open'
      <3>1. CASE i = n
        BY <1>2, <1>5, <1>7, <1>9, <3>1
      <3>2. CASE i \in DOMAIN outbox
        BY <1>2, <1>9, <3>2 DEF RelayInv, RowsAreNumbered
      <3>. QED
        BY <1>9, <3>1, <3>2
    <2>2. ASSUME NEW i \in DOMAIN outbox', NEW j \in DOMAIN outbox',
                 outbox'[i].payload.order = outbox'[j].payload.order
          PROVE  i = j
      BY <1>5, <1>9, <1>10, <2>2 DEF RelayInv, RowsAreNumbered
    <2>3. ASSUME NEW p \in open' \cup {outbox'[i].payload.order : i \in DOMAIN outbox'}
          PROVE  \E k \in DOMAIN began' : began'[k] = p
      <3>1. p \in open \cup {outbox[i].payload.order : i \in DOMAIN outbox}
        BY <1>2, <1>5, <1>9
      <3>. QED
        BY <1>2, <3>1 DEF RelayInv, RowsAreNumbered
    <2>. QED
      BY <2>1, <2>2, <2>3 DEF RowsAreNumbered
  <1>12. Relays!TypeOK'
    <2>1. /\ published \subseteq DOMAIN outbox
          /\ log \in [EventType -> Seq(Event)]
          /\ began \in Seq(Order) /\ open \subseteq Order
          /\ locked \in [Relay -> DOMAIN outbox \cup {NoRow}]
          /\ sent \subseteq {r \in Relay : locked[r] # NoRow}
          /\ failures \in 0..MaxFailures
      BY RelayVocabulary DEF RelayInv, Relays!TypeOK
    <2>2. locked \in [Relay -> DOMAIN outbox' \cup {NoRow}]
      BY <1>9, <2>1
    <2>3. published \subseteq DOMAIN outbox'
      BY <1>9, <2>1
    <2>. QED
      BY <1>2, <1>9, <2>1, <2>2, <2>3, RelayVocabulary DEF Relays!TypeOK
  <1>13. TopicsHoldRows'
    BY <1>2, <1>9 DEF RelayInv, TopicsHoldRows
  <1>14. \A i \in DOMAIN outbox : Relays!Copies(i)' = Relays!Copies(i)
    BY <1>2, <1>9 DEF Relays!Copies
  <1>15. Relays!Copies(n)' = {}
    <2>1. \A i \in DOMAIN outbox : outbox[i] # e
      <3>1. \A i \in DOMAIN outbox : outbox[i].id = <<outbox[i].type, i>>
        BY DEF RelayInv, RowsAreNumbered
      <3>. QED
        BY <1>8, <1>9, <3>1
    <2>2. t \in EventType
      BY <1>3
    <2>3. \A k \in DOMAIN log[t] : log[t][k] # e
      BY <2>1, <2>2 DEF RelayInv, TopicsHoldRows
    <2>. QED
      BY <1>2, <1>5, <1>9, <2>3 DEF Relays!Copies
  <1>16. LocksAreExclusive'
    BY <1>2 DEF RelayInv, LocksAreExclusive
  <1>17. SentIsSent'
    <2>1. \A r \in sent : locked[r] \in DOMAIN outbox
      BY DEF RelayInv, Relays!TypeOK
    <2>. QED
      BY <1>2, <1>14, <2>1 DEF RelayInv, SentIsSent
  <1>18. CopiesArePaid'
    <2>1. \A i : Settled(i)' <=> Settled(i)
      BY <1>2 DEF Settled
    <2>2. \A i \in DOMAIN outbox :
              Cardinality(Relays!Copies(i)') <= failures' + (IF Settled(i)' THEN 1 ELSE 0)
      BY <1>2, <1>14, <2>1 DEF RelayInv, CopiesArePaid
    <2>3. Cardinality(Relays!Copies(n)') = 0
      BY <1>15, FS_EmptySet
    <2>4. Cardinality(Relays!Copies(n)') <= failures' + (IF Settled(n)' THEN 1 ELSE 0)
      BY <1>2, <2>3, RowFacts
    <2>. QED
      BY <1>9, <2>2, <2>4 DEF CopiesArePaid
  <1>19. e \in Relays!Written
    <2>1. Len(outbox') <= Cardinality(Order)
      BY <1>9, <1>11, RowsAreFew DEF RowsAreNumbered
    <2>2. n \in 1..Cardinality(Order)
      BY <1>0, <1>9, <2>1, FS_CardinalityType
    <2>. QED
      BY <1>6, <2>2, RelayVocabulary, RelayCardinality DEF Relays!Written
  <1>20. Relays!Promise!Insert(e)
    BY <1>1, <1>2 DEF e, Relays!Promise!Insert
  <1>. QED
    BY <1>2, <1>11, <1>12, <1>13, <1>16, <1>17, <1>18, <1>19, <1>20
       DEF RelayInv, Promised, Relays!Promise!Next

-----------------------------------------------------------------------------

LEMMA LockFacts ==
    ASSUME RelayInv
    PROVE  /\ \A r \in Relay : locked[r] \in DOMAIN outbox \cup {NoRow}
           /\ locked \in [Relay -> DOMAIN outbox \cup {NoRow}]
           /\ \A r \in sent : r \in Relay /\ locked[r] # NoRow /\ locked[r] \in DOMAIN outbox
           /\ NoRow \notin DOMAIN outbox
  BY RowFacts DEF RelayInv, Relays!TypeOK

LEMMA SelectKeepsRelays ==
    ASSUME RelayInv, NEW r \in Relay, Relays!SelectRow(r)
    PROVE  RelayInv' /\ UNCHANGED <<outbox, published, log>>
  <1>1. PICK i \in Relays!Visible : locked' = [locked EXCEPT ![r] = i]
    BY DEF Relays!SelectRow
  <1>2. /\ locked[r] = NoRow /\ open' = open /\ began' = began
        /\ outbox' = outbox /\ published' = published /\ log' = log
        /\ sent' = sent /\ failures' = failures
    BY DEF Relays!SelectRow
  <1>3. i \in DOMAIN outbox /\ i \notin published /\ \A s \in Relay : locked[s] # i
    BY <1>1 DEF Relays!Visible
  <1>4. locked'[r] = i /\ \A s \in Relay \ {r} : locked'[s] = locked[s]
    BY <1>1, LockFacts
  <1>5. r \notin sent
    BY <1>2, LockFacts
  <1>6. locked' \in [Relay -> DOMAIN outbox \cup {NoRow}]
    BY <1>1, <1>3, LockFacts
  <1>7. i # NoRow
    BY <1>3, LockFacts
  <1>8. \A s \in sent : s \in Relay /\ locked'[s] = locked[s]
    BY <1>4, <1>5, LockFacts
  <1>9. sent' \subseteq {s \in Relay : locked'[s] # NoRow}
    BY <1>2, <1>8, LockFacts
  <1>10. Relays!TypeOK'
    BY <1>2, <1>6, <1>9 DEF RelayInv, Relays!TypeOK
  <1>11. LocksAreExclusive'
    BY <1>2, <1>3, <1>4 DEF RelayInv, LocksAreExclusive
  <1>12. (RowsAreNumbered /\ TopicsHoldRows)'
    BY <1>2 DEF RelayInv, RowsAreNumbered, TopicsHoldRows
  <1>13. \A j : Relays!Copies(j)' = Relays!Copies(j) /\ (Settled(j)' <=> Settled(j))
    BY <1>2, <1>8 DEF Relays!Copies, Settled
  <1>14. SentIsSent'
    BY <1>2, <1>8, <1>13 DEF RelayInv, SentIsSent, Relays!Copies
  <1>15. CopiesArePaid'
    BY <1>2, <1>13 DEF RelayInv, CopiesArePaid
  <1>. QED
    BY <1>2, <1>10, <1>11, <1>12, <1>14, <1>15 DEF RelayInv

\* The row this relay has locked is settled by no other.
LEMMA SendKeepsRelays ==
    ASSUME RelayInv, NEW r \in Relay, Relays!Send(r)
    PROVE  /\ RelayInv' /\ Promised
           /\ \E i \in DOMAIN outbox : Relays!AppendRow(i)
  <1>1. PICK i \in DOMAIN outbox : i = locked[r]
    BY LockFacts DEF Relays!Send
  <1>2. /\ locked[r] # NoRow /\ r \notin sent /\ Relays!AppendRow(i)
        /\ sent' = sent \cup {r} /\ open' = open /\ began' = began
        /\ outbox' = outbox /\ published' = published /\ locked' = locked
        /\ failures' = failures
    BY <1>1 DEF Relays!Send
  <1>3. i \notin published /\ \A s \in Relay \ {r} : locked[s] # i
    BY <1>1, <1>2 DEF RelayInv, LocksAreExclusive
  <1>4. /\ log' \in [EventType -> Seq(Event)]
        /\ TopicsHoldRows'
        /\ Relays!Copies(i)' # {}
        /\ Cardinality(Relays!Copies(i)') = Cardinality(Relays!Copies(i)) + 1
        /\ \A j \in DOMAIN outbox \ {i} : Relays!Copies(j)' = Relays!Copies(j)
    BY <1>2, SendAddsACopy
  <1>5. Relays!TypeOK'
    BY <1>2, <1>4, RelayVocabulary DEF RelayInv, Relays!TypeOK
  <1>6. (RowsAreNumbered /\ LocksAreExclusive)'
    BY <1>2 DEF RelayInv, RowsAreNumbered, LocksAreExclusive
  <1>7. ASSUME NEW s \in sent'
        PROVE  Relays!Copies(locked[s])' # {}
    <2>1. PICK j \in DOMAIN outbox : j = locked[s]
      BY <1>1, <1>2, LockFacts
    <2>2. Relays!Copies(j)' # {}
      <3>1. CASE s = r
        BY <1>1, <1>4, <2>1, <3>1
      <3>2. CASE s # r
        <4>1. s \in sent /\ s \in Relay \ {r}
          BY <1>2, <3>2, LockFacts
        <4>2. j # i
          BY <1>3, <2>1, <4>1
        <4>. QED
          BY <1>4, <2>1, <4>1, <4>2 DEF RelayInv, SentIsSent
      <3>. QED
        BY <3>1, <3>2
    <2>. QED
      BY <1>2, <2>1, <2>2 DEF Relays!Copies
  <1>8. SentIsSent'
    BY <1>7 DEF SentIsSent
  <1>9. ~Settled(i) /\ Settled(i)'
    BY <1>1, <1>2, <1>3, LockFacts DEF Settled
  <1>10. \A j \in DOMAIN outbox \ {i} : Settled(j)' <=> Settled(j)
    BY <1>1, <1>2 DEF Settled
  <1>11. CopiesArePaid'
    <2>1. Cardinality(Relays!Copies(i)') <= failures' + (IF Settled(i)' THEN 1 ELSE 0)
      <3>1. Cardinality(Relays!Copies(i)) <= failures
        BY <1>9, RowFacts DEF RelayInv, CopiesArePaid
      <3>2. Cardinality(Relays!Copies(i)) \in Nat
        BY CopiesAreFinite
      <3>. QED
        BY <1>2, <1>4, <1>9, <3>1, <3>2, RowFacts
    <2>2. ASSUME NEW j \in DOMAIN outbox \ {i}
          PROVE  Cardinality(Relays!Copies(j)') <= failures' + (IF Settled(j)' THEN 1 ELSE 0)
      BY <1>2, <1>4, <1>10 DEF RelayInv, CopiesArePaid
    <2>3. \A j \in DOMAIN outbox :
              Cardinality(Relays!Copies(j)') <= failures' + (IF Settled(j)' THEN 1 ELSE 0)
      BY <2>1, <2>2
    <2>. QED
      BY <1>2, <2>3 DEF CopiesArePaid
  <1>12. Relays!Promise!Send(i)
    BY <1>1, <1>2, <1>3 DEF Relays!AppendRow, Relays!Promise!Send, Relays!Promise!SendRow,
                       Relays!Promise!Unpublished
  <1>. QED
    BY <1>2, <1>4, <1>5, <1>6, <1>8, <1>11, <1>12 DEF RelayInv, Promised, Relays!Promise!Next

\* The UPDATE, of a row that the broker has.
LEMMA MarkKeepsRelays ==
    ASSUME RelayInv, NEW r \in Relay, Relays!Mark(r)
    PROVE  RelayInv' /\ Promised /\ UNCHANGED log
  <1>1. PICK i \in DOMAIN outbox : i = locked[r]
    BY LockFacts DEF Relays!Mark
  <1>2. /\ r \in sent /\ published' = published \cup {i}
        /\ locked' = [locked EXCEPT ![r] = NoRow] /\ sent' = sent \ {r}
        /\ outbox' = outbox /\ log' = log /\ began' = began /\ open' = open
        /\ failures' = failures
    BY <1>1 DEF Relays!Mark
  <1>3. locked'[r] = NoRow /\ \A s \in Relay \ {r} : locked'[s] = locked[s]
    BY <1>2, LockFacts
  <1>4. i \notin published /\ \A s \in Relay \ {r} : locked[s] # i
    BY <1>1, <1>2, LockFacts DEF RelayInv, LocksAreExclusive
  <1>5. locked' \in [Relay -> DOMAIN outbox \cup {NoRow}]
    BY <1>2, LockFacts
  <1>6. \A s \in sent' : s \in sent /\ s \in Relay \ {r} /\ locked'[s] = locked[s]
    BY <1>2, <1>3, LockFacts
  <1>7. sent' \subseteq {s \in Relay : locked'[s] # NoRow}
    BY <1>6, LockFacts
  <1>8. published' \subseteq DOMAIN outbox
    BY <1>2 DEF RelayInv, Relays!TypeOK
  <1>9. Relays!TypeOK'
    BY <1>2, <1>5, <1>7, <1>8 DEF RelayInv, Relays!TypeOK
  <1>10. (RowsAreNumbered /\ TopicsHoldRows)'
    BY <1>2 DEF RelayInv, RowsAreNumbered, TopicsHoldRows
  <1>11. LocksAreExclusive'
    BY <1>2, <1>3, <1>4 DEF RelayInv, LocksAreExclusive
  <1>12. \A j \in DOMAIN outbox : Relays!Copies(j)' = Relays!Copies(j)
    BY <1>2 DEF Relays!Copies
  <1>13. SentIsSent'
    BY <1>2, <1>6 DEF RelayInv, SentIsSent, Relays!Copies
  <1>14. \A j \in DOMAIN outbox : Settled(j)' <=> Settled(j)
    BY <1>1, <1>2, <1>3, <1>6, LockFacts DEF Settled
  <1>15. CopiesArePaid'
    BY <1>2, <1>12, <1>14 DEF RelayInv, CopiesArePaid
  <1>16. Relays!Copies(i) # {}
    BY <1>1, <1>2 DEF RelayInv, SentIsSent
  <1>17. Relays!Promise!Mark(i)
    BY <1>2, <1>4, <1>16 DEF Relays!Copies, Relays!Promise!Mark, Relays!Promise!IsSent,
                             Relays!Promise!Unpublished
  <1>. QED
    BY <1>2, <1>9, <1>10, <1>11, <1>13, <1>15, <1>17 DEF RelayInv, Promised, Relays!Promise!Next

\* A failure pays for a copy: the one it left behind, or the one to come.
LEMMA FailKeepsRelays ==
    ASSUME RelayInv, NEW r \in Relay, Relays!Fail(r)
    PROVE  /\ RelayInv' /\ Promised
           /\ log' = log \/ \E i \in DOMAIN outbox : Relays!AppendRow(i)
  <1>1. PICK i \in DOMAIN outbox : i = locked[r]
    BY LockFacts DEF Relays!Fail
  <1>2. /\ failures < MaxFailures /\ failures' = failures + 1 /\ locked[r] # NoRow
        /\ locked' = [locked EXCEPT ![r] = NoRow] /\ sent' = sent \ {r}
        /\ log' = log \/ (r \notin sent /\ Relays!AppendRow(i))
        /\ outbox' = outbox /\ published' = published /\ began' = began /\ open' = open
    BY <1>1 DEF Relays!Fail
  <1>3. locked'[r] = NoRow /\ \A s \in Relay \ {r} : locked'[s] = locked[s]
    BY <1>2, LockFacts
  <1>4. i \notin published /\ \A s \in Relay \ {r} : locked[s] # i
    BY <1>1, <1>2 DEF RelayInv, LocksAreExclusive
  <1>5. \A s \in sent' : s \in sent /\ s \in Relay \ {r} /\ locked'[s] = locked[s]
    BY <1>2, <1>3, LockFacts
  <1>6. /\ log' \in [EventType -> Seq(Event)]
        /\ TopicsHoldRows'
        /\ \A j \in DOMAIN outbox : Relays!Copies(j) \subseteq Relays!Copies(j)'
        /\ \A j \in DOMAIN outbox \ {i} : Relays!Copies(j)' = Relays!Copies(j)
        /\ \/ Cardinality(Relays!Copies(i)') = Cardinality(Relays!Copies(i))
           \/ /\ Cardinality(Relays!Copies(i)') = Cardinality(Relays!Copies(i)) + 1
              /\ r \notin sent
    <2>1. CASE log' = log
      <3>1. \A j \in DOMAIN outbox : Relays!Copies(j)' = Relays!Copies(j)
        BY <1>2, <2>1 DEF Relays!Copies
      <3>2. TopicsHoldRows'
        BY <1>2, <2>1 DEF RelayInv, TopicsHoldRows
      <3>. QED
        BY <2>1, <3>1, <3>2, RowFacts
    <2>2. CASE r \notin sent /\ Relays!AppendRow(i)
      BY <1>2, <2>2, SendAddsACopy
    <2>. QED
      BY <1>2, <2>1, <2>2
  <1>7. locked' \in [Relay -> DOMAIN outbox \cup {NoRow}]
    BY <1>2, LockFacts
  <1>8. sent' \subseteq {s \in Relay : locked'[s] # NoRow}
    BY <1>5, LockFacts
  <1>9. failures' \in 0..MaxFailures
    BY <1>2 DEF RelayInv, Relays!TypeOK
  <1>10. Relays!TypeOK'
    BY <1>2, <1>6, <1>7, <1>8, <1>9, RelayVocabulary DEF RelayInv, Relays!TypeOK
  <1>11. RowsAreNumbered'
    BY <1>2 DEF RelayInv, RowsAreNumbered
  <1>12. LocksAreExclusive'
    BY <1>2, <1>3 DEF RelayInv, LocksAreExclusive
  <1>13. ASSUME NEW s \in sent'
         PROVE  Relays!Copies(locked[s])' # {}
    <2>1. PICK j \in DOMAIN outbox : j = locked[s]
      BY <1>5, LockFacts
    <2>2. Relays!Copies(j) # {} /\ j = locked'[s]
      BY <1>5, <2>1 DEF RelayInv, SentIsSent
    <2>3. Relays!Copies(j)' # {}
      BY <1>6, <2>2
    <2>. QED
      BY <1>2, <2>2, <2>3 DEF Relays!Copies
  <1>14. SentIsSent'
    BY <1>13 DEF SentIsSent
  <1>15. \A j \in DOMAIN outbox \ {i} : Settled(j)' <=> Settled(j)
    BY <1>1, <1>2, <1>3, <1>5, LockFacts DEF Settled
  <1>16. r \notin sent => ~Settled(i)
    BY <1>1, <1>4, LockFacts DEF Settled
  <1>17. CopiesArePaid'
    <2>1. Cardinality(Relays!Copies(i)) \in Nat /\ failures \in Nat
      BY CopiesAreFinite, RowFacts
    <2>2. Cardinality(Relays!Copies(i)) <= failures + (IF Settled(i) THEN 1 ELSE 0)
      BY DEF RelayInv, CopiesArePaid
    <2>3. Cardinality(Relays!Copies(i)') <= failures'
      <3>1. CASE r \notin sent
        <4>1. Cardinality(Relays!Copies(i)) <= failures
          BY <1>16, <2>1, <2>2, <3>1
        <4>. QED
          BY <1>2, <1>6, <2>1, <4>1
      <3>2. CASE r \in sent
        <4>1. Cardinality(Relays!Copies(i)) <= failures + 1
          BY <2>1, <2>2
        <4>. QED
          BY <1>2, <1>6, <2>1, <3>2, <4>1
      <3>. QED
        BY <3>1, <3>2
    <2>4. Cardinality(Relays!Copies(i)') <= failures' + (IF Settled(i)' THEN 1 ELSE 0)
      BY <1>2, <1>6, <2>1, <2>3
    <2>5. ASSUME NEW j \in DOMAIN outbox \ {i}
          PROVE  Cardinality(Relays!Copies(j)') <= failures' + (IF Settled(j)' THEN 1 ELSE 0)
      <3>1. Cardinality(Relays!Copies(j)) \in Nat
        BY CopiesAreFinite
      <3>2. Cardinality(Relays!Copies(j)) <= failures + (IF Settled(j) THEN 1 ELSE 0)
        BY DEF RelayInv, CopiesArePaid
      <3>. QED
        BY <1>2, <1>6, <1>15, <2>1, <3>1, <3>2
    <2>6. \A j \in DOMAIN outbox :
              Cardinality(Relays!Copies(j)') <= failures' + (IF Settled(j)' THEN 1 ELSE 0)
      BY <2>4, <2>5
    <2>. QED
      BY <1>2, <2>6 DEF CopiesArePaid
  <1>18. Promised
    <2>1. CASE log' = log
      BY <1>2, <2>1 DEF Promised, Relays!Promise!vars
    <2>2. CASE Relays!AppendRow(i)
      <3>1. Relays!Promise!Send(i)
        BY <1>2, <1>4, <2>2 DEF Relays!AppendRow, Relays!Promise!Send,
                                Relays!Promise!SendRow, Relays!Promise!Unpublished
      <3>. QED
        BY <3>1 DEF Promised, Relays!Promise!Next
    <2>. QED
      BY <1>2, <2>1, <2>2
  <1>. QED
    BY <1>2, <1>6, <1>10, <1>11, <1>12, <1>14, <1>17, <1>18 DEF RelayInv

-----------------------------------------------------------------------------
(* The pipeline *)

LEMMA RelaysInitially == Relays!Init => RelayInv /\ Relays!Promise!Init
  <1>. SUFFICES ASSUME Relays!Init PROVE RelayInv /\ Relays!Promise!Init
    OBVIOUS
  <1>1. /\ outbox = <<>> /\ published = {} /\ log = [t \in EventType |-> <<>>]
        /\ began = <<>> /\ open = {} /\ locked = [r \in Relay |-> NoRow]
        /\ sent = {} /\ failures = 0
    BY RelayVocabulary DEF Relays!Init
  <1>2. DOMAIN outbox = {} /\ \A t \in EventType : DOMAIN log[t] = {}
    BY <1>1
  <1>3. Relays!TypeOK
    BY <1>1, RelayVocabulary DEF Relays!TypeOK
  <1>4. RowsAreNumbered
    BY <1>1, <1>2 DEF RowsAreNumbered
  <1>5. TopicsHoldRows /\ SentIsSent /\ CopiesArePaid
    BY <1>1, <1>2 DEF TopicsHoldRows, SentIsSent, CopiesArePaid
  <1>6. LocksAreExclusive
    BY <1>1 DEF LocksAreExclusive
  <1>7. Relays!Promise!Init
    BY <1>1, RelayVocabulary DEF Relays!Promise!Init
  <1>. QED
    BY <1>3, <1>4, <1>5, <1>6, <1>7 DEF RelayInv

\* A step of the writers or of a relay, and what the topics have of it.
LEMMA RelaysKeepRelays ==
    ASSUME RelayInv, Relays!Next
    PROVE  /\ RelayInv' /\ Promised
           /\ log' = log \/ \E i \in DOMAIN outbox : Relays!AppendRow(i)
  <1>1. CASE \E o \in Order : Relays!Begin(o) \/ Relays!CommitWriter(o) \/ Relays!Rollback(o)
    BY <1>1, BeginKeepsRelays, CommitKeepsRelays, RollbackKeepsRelays
       DEF Promised, Relays!Promise!vars
  <1>2. CASE \E r \in Relay : Relays!RelayStep(r) \/ Relays!Fail(r)
    BY <1>2, SelectKeepsRelays, SendKeepsRelays, MarkKeepsRelays, FailKeepsRelays
       DEF Relays!RelayStep, Promised, Relays!Promise!vars
  <1>. QED
    BY <1>1, <1>2 DEF Relays!Next

LEMMA StillRelays ==
    ASSUME RelayInv, UNCHANGED relayVars, log' = log
    PROVE  RelayInv' /\ UNCHANGED <<outbox, published>>
  <1>1. /\ outbox' = outbox /\ published' = published /\ began' = began /\ open' = open
        /\ locked' = locked /\ sent' = sent /\ failures' = failures
    BY DEF relayVars
  <1>2. Relays!TypeOK'
    BY <1>1 DEF RelayInv, Relays!TypeOK
  <1>3. (RowsAreNumbered /\ TopicsHoldRows /\ LocksAreExclusive)'
    BY <1>1 DEF RelayInv, RowsAreNumbered, TopicsHoldRows, LocksAreExclusive
  <1>4. \A i : Relays!Copies(i)' = Relays!Copies(i) /\ (Settled(i)' <=> Settled(i))
    BY <1>1 DEF Relays!Copies, Settled
  <1>5. SentIsSent'
    BY <1>1 DEF RelayInv, SentIsSent, Relays!Copies
  <1>6. CopiesArePaid'
    BY <1>1, <1>4 DEF RelayInv, CopiesArePaid
  <1>. QED
    BY <1>1, <1>2, <1>3, <1>5, <1>6 DEF RelayInv

LEMMA StillLoop ==
    ASSUME LoopInv, UNCHANGED loopVars, log' = log
    PROVE  LoopInv' /\ UNCHANGED OneAtATime!vars
  BY DEF loopVars, LoopInv, TypeOK, OneAtATime!vars

\* The two ends meet in the topics: the loop reads what the relays have sent.
LEMMA PipelineKeepsBoth ==
    ASSUME LoopInv, RelayInv, [PipelineNext]_pipelineVars
    PROVE  /\ LoopInv' /\ RelayInv' /\ Promised
           /\ [OneAtATime!Next]_OneAtATime!vars
  <1>1. CASE Relays!Next /\ UNCHANGED loopVars
    <2>1. /\ RelayInv' /\ Promised
          /\ log' = log \/ \E i \in DOMAIN outbox : Relays!AppendRow(i)
      BY <1>1, RelaysKeepRelays
    <2>2. CASE log' = log
      BY <1>1, <2>1, <2>2, StillLoop
    <2>3. CASE \E i \in DOMAIN outbox : Relays!AppendRow(i)
      <3>1. PICK i \in DOMAIN outbox : Relays!AppendRow(i)
        BY <2>3
      <3>2. outbox[i] \in Message
        BY RowIsWritten
      <3>3. Grows(outbox[i])
        BY <1>1, <3>1 DEF Grows, Relays!AppendRow
      <3>. QED
        BY <2>1, <3>2, <3>3, GrowKeepsLoop
    <2>. QED
      BY <2>1, <2>2, <2>3
  <1>2. CASE (LoopStep \/ Die \/ Restart) /\ UNCHANGED relayVars
    <2>1. log' = log
      BY <1>2 DEF LoopStep, GetMany, Commit, Return, Raise, Die, Restart
    <2>. QED
      BY <1>2, <2>1, LoopKeepsLoop, StillRelays DEF Promised, Relays!Promise!vars
  <1>3. CASE UNCHANGED pipelineVars
    BY <1>3, StillRelays, StillLoop DEF pipelineVars, Promised, Relays!Promise!vars
  <1>. QED
    BY <1>1, <1>2, <1>3 DEF PipelineNext

LEMMA PipelineInitially ==
    PipelineInit => LoopInv /\ RelayInv /\ Relays!Promise!Init /\ OneAtATime!Init
  BY LoopInitially, RelaysInitially DEF PipelineInit

LEMMA RelayInvPays == RelayInv => DuplicatesNeedFailures
  <1>. SUFFICES ASSUME RelayInv, NEW i \in DOMAIN outbox
                PROVE  Relays!Cardinality(Relays!Copies(i)) <= 1 + failures
    BY DEF DuplicatesNeedFailures, Relays!DuplicatesNeedFailures
  <1>1. Cardinality(Relays!Copies(i)) \in Nat /\ failures \in Nat
    BY CopiesAreFinite, RowFacts
  <1>2. Cardinality(Relays!Copies(i)) <= failures + (IF Settled(i) THEN 1 ELSE 0)
    BY DEF RelayInv, CopiesArePaid
  <1>3. Cardinality(Relays!Copies(i)) <= 1 + failures
    BY <1>1, <1>2
  <1>. QED
    BY <1>3, RelayCardinality

\* The types of the outbox, of the topics, of the relays and of the loop.
THEOREM PipelineTypes == PipelineSpec => []PipelineTypeOK
  <1>1. PipelineInit => LoopInv /\ RelayInv
    BY PipelineInitially
  <1>2. (LoopInv /\ RelayInv) /\ [PipelineNext]_pipelineVars => (LoopInv /\ RelayInv)'
    BY PipelineKeepsBoth
  <1>3. LoopInv /\ RelayInv => PipelineTypeOK
    BY DEF LoopInv, RelayInv, PipelineTypeOK
  <1>. QED
    BY <1>1, <1>2, <1>3, PTL DEF PipelineSpec

\* FOR UPDATE SKIP LOCKED keeps any number of relays from sending a row twice:
\* there are no more copies of it than failures, and the one it is meant to have.
THEOREM CopiesNeedFailures == PipelineSpec => []DuplicatesNeedFailures
  <1>1. PipelineInit => LoopInv /\ RelayInv
    BY PipelineInitially
  <1>2. (LoopInv /\ RelayInv) /\ [PipelineNext]_pipelineVars => (LoopInv /\ RelayInv)'
    BY PipelineKeepsBoth
  <1>3. RelayInv => DuplicatesNeedFailures
    BY RelayInvPays
  <1>. QED
    BY <1>1, <1>2, <1>3, PTL DEF PipelineSpec

\* Whatever fails, a row is marked only once the broker has it, and nothing but
\* committed rows is sent (run_outbox_relay and _poll_and_publish).
THEOREM RelaysKeepThePromise == PipelineSpec => ImplementsOutbox
  <1>1. PipelineInit => LoopInv /\ RelayInv /\ Relays!Promise!Init
    BY PipelineInitially
  <1>2. (LoopInv /\ RelayInv) /\ [PipelineNext]_pipelineVars
            => (LoopInv /\ RelayInv)' /\ [Relays!Promise!Next]_Relays!Promise!vars
    BY PipelineKeepsBoth DEF Promised
  <1>. QED
    BY <1>1, <1>2, PTL DEF PipelineSpec, ImplementsOutbox, Relays!ImplementsOutbox,
                           Relays!Promise!Spec

\* The consumer group of Kafka, with the outbox as its producer.
THEOREM PipelineIsKafka == PipelineSpec => ImplementsKafka
  <1>1. PipelineInit => LoopInv /\ RelayInv /\ OneAtATime!Init
    BY PipelineInitially
  <1>2. (LoopInv /\ RelayInv) /\ [PipelineNext]_pipelineVars
            => (LoopInv /\ RelayInv)' /\ [OneAtATime!Next]_OneAtATime!vars
    BY PipelineKeepsBoth
  <1>. QED
    BY <1>1, <1>2, PTL DEF PipelineSpec, ImplementsKafka, OneAtATime!Spec

=============================================================================
