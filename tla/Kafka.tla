-------------------------------- MODULE Kafka --------------------------------
(***************************************************************************)
(* The broker as the services use it (shared/kafka.py, docker-compose.yml): *)
(* a topic per event type, of one partition, and the three consumer groups *)
(* with a read position and a committed offset on each topic they          *)
(* subscribe to.  No topic is read by two groups, so both are indexed by   *)
(* topic.                                                                  *)
(*                                                                         *)
(* A group is handed one message at a time; ConsumerLoop has the batches   *)
(* of the code and implements this module.                                 *)
(***************************************************************************)
EXTENDS Events

CONSTANT Message      \* the records that may be produced; a type names a topic

VARIABLES log, position, committed

vars == <<log, position, committed>>

Init ==
    /\ log = [t \in EventType |-> <<>>]
    /\ position = [t \in EventType |-> 0]      \* auto_offset_reset="earliest"
    /\ committed = [t \in EventType |-> 0]

\* A record is appended to the topic of its event type.
Produce(e) ==
    /\ log' = [log EXCEPT ![e.type] = Append(@, e)]
    /\ UNCHANGED <<position, committed>>

HasNext(t) == position[t] < Len(log[t])

NextEvent(t) == log[t][position[t] + 1]

\* The handler of a message is over, whether it returned or raised.
Advance(t) ==
    /\ HasNext(t)
    /\ position' = [position EXCEPT ![t] = @ + 1]
    /\ UNCHANGED <<log, committed>>

\* Mutant: the end of the topics is committed, not the positions.
CommitEnd(topics) ==
    /\ \E t \in topics : committed[t] # Len(log[t])
    /\ committed' = [t \in EventType |-> IF t \in topics THEN Len(log[t]) ELSE committed[t]]
    /\ UNCHANGED <<log, position>>

\* consumer.commit(): the positions of every topic of the group.
Commit(topics) ==
    /\ \E t \in topics : committed[t] # position[t]
    /\ committed' = [t \in EventType |-> IF t \in topics THEN position[t] ELSE committed[t]]
    /\ UNCHANGED <<log, position>>

\* The process starts again and its group resumes at the committed offsets.
Rejoin(topics) ==
    /\ position' = [t \in EventType |-> IF t \in topics THEN committed[t] ELSE position[t]]
    /\ UNCHANGED <<log, committed>>

Next ==
    \/ \E e \in Message : Produce(e)
    \/ \E t \in EventType : Advance(t)
    \/ \E topics \in {OrderTopics, RestaurantTopics, PaymentTopics} :
          Commit(topics) \/ Rejoin(topics)

Spec == Init /\ [][Next]_vars

=============================================================================
