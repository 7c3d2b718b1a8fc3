---------------------------- MODULE ConsumerLoop ----------------------------
(***************************************************************************)
(* run_consumer, the same loop in the order, restaurant and payment        *)
(* services: getmany, a handler call per message of the batch with every   *)
(* exception swallowed, and one commit for the batch.  An exception of     *)
(* getmany or of commit is not swallowed: it ends the task, and nothing    *)
(* but a restart of the process brings it back.                            *)
(***************************************************************************)
EXTENDS Events

CONSTANTS
    Topic,            \* the topics of the subscription
    Message,          \* the records that may be produced; a type names a topic
    MaxMessages,      \* bound: messages per topic
    MaxRestarts       \* bound: restarts of the process

ASSUME ConsumerAssumption ==
    /\ \E group \in {OrderTopics, RestaurantTopics, PaymentTopics} : Topic \subseteq group
    /\ \A e \in Message : e.type \in Topic
    /\ MaxMessages \in Nat /\ MaxRestarts \in Nat

VARIABLES
    log,              \* the topics
    committed,        \* the group's committed offset per topic
    fetched,          \* the position of the aiokafka consumer: the end of the batch
    done,             \* how far the handlers got, per topic
    running,          \* the consumer task is alive
    restarts,
    processed         \* ghost: the messages a handler completed, as <<topic, offset>>

vars == <<log, committed, fetched, done, running, restarts, processed>>

Zero == [t \in EventType |-> 0]

Init ==
    /\ log = [t \in EventType |-> <<>>]
    /\ committed = Zero /\ fetched = Zero /\ done = Zero
    /\ running = TRUE
    /\ restarts = 0
    /\ processed = {}

\* Some producer appends to a topic.
Produce(e) ==
    /\ Len(log[e.type]) < MaxMessages
    /\ log' = [log EXCEPT ![e.type] = Append(@, e)]
    /\ UNCHANGED <<committed, fetched, done, running, restarts, processed>>

\* Between two batches the loop has handled and committed what it fetched.
AtTop == running /\ done = fetched /\ fetched = committed

\* getmany: any non-empty prefix of what the topics hold.
GetMany ==
    /\ AtTop
    /\ \E batch \in [Topic -> 0..MaxMessages] :
          /\ \A t \in Topic : batch[t] \in committed[t]..Len(log[t])
          /\ \E t \in Topic : batch[t] > committed[t]
          /\ fetched' = [t \in EventType |-> IF t \in Topic THEN batch[t] ELSE 0]
    /\ UNCHANGED <<log, committed, done, running, restarts, processed>>

\* for tp, messages in result.items(): one topic after the other.
Current(t) ==
    /\ running
    /\ done[t] < fetched[t]
    /\ \A u \in Topic \ {t} : done[u] \in {committed[u], fetched[u]}

Return(t) ==
    /\ Current(t)
    /\ done' = [done EXCEPT ![t] = @ + 1]
    /\ processed' = processed \cup {<<t, done[t] + 1>>}
    /\ UNCHANGED <<log, committed, fetched, running, restarts>>

\* except Exception: logged, counted, and on to the next message.
Raise(t) ==
    /\ Current(t)
    /\ done' = [done EXCEPT ![t] = @ + 1]
    /\ UNCHANGED <<log, committed, fetched, running, restarts, processed>>

\* Mutant: the commit does not wait for the batch.
CommitEarly ==
    /\ running
    /\ fetched # committed
    /\ committed' = fetched
    /\ UNCHANGED <<log, fetched, done, running, restarts, processed>>

Commit ==
    /\ running
    /\ done = fetched
    /\ fetched # committed
    /\ committed' = fetched
    /\ UNCHANGED <<log, fetched, done, running, restarts, processed>>

\* getmany or commit raises: run_consumer ends.
Die ==
    /\ running
    /\ done = fetched
    /\ running' = FALSE
    /\ UNCHANGED <<log, committed, fetched, done, restarts, processed>>

\* The process starts again, wherever the loop was.
Restart ==
    /\ restarts < MaxRestarts
    /\ restarts' = restarts + 1
    /\ running' = TRUE
    /\ fetched' = committed
    /\ done' = committed
    /\ UNCHANGED <<log, committed, processed>>

LoopStep == GetMany \/ Commit \/ \E t \in Topic : Return(t) \/ Raise(t)

Next ==
    \/ \E e \in Message : Produce(e)
    \/ LoopStep
    \/ Die
    \/ Restart

Spec == Init /\ [][Next]_vars

-----------------------------------------------------------------------------
(* Properties *)

TypeOK ==
    /\ committed \in [EventType -> Nat] /\ fetched \in [EventType -> Nat]
    /\ done \in [EventType -> Nat]
    /\ \A t \in EventType :
          committed[t] <= done[t] /\ done[t] <= fetched[t] /\ fetched[t] <= Len(log[t])
    /\ running \in BOOLEAN
    /\ restarts \in 0..MaxRestarts
    /\ processed \subseteq Topic \X Nat

\* shared/kafka.py:32: consumers only commit after successful processing.
CommittedImpliesProcessed ==
    \A t \in Topic : \A k \in 1..committed[t] : <<t, k>> \in processed

\* A batch, a restart and a death of the loop at any point are no more than
\* one message at a time, a commit between two messages and a return to the
\* committed offset: no message is passed over, none is handled out of order.
OneAtATime == INSTANCE Kafka WITH position <- done

ImplementsKafka == OneAtATime!Spec

=============================================================================
