------------------------------- MODULE Outbox -------------------------------
(***************************************************************************)
(* What the transactional outbox of a service promises: a committed row is *)
(* sent to Kafka before it is marked published, no more than that.  It may *)
(* be sent again until it is marked, and rows go out in any order.         *)
(* OutboxRelay has the relays and their locks and implements this module.  *)
(***************************************************************************)
EXTENDS Events

CONSTANT Message      \* the events that may be committed

VARIABLES
    outbox,           \* the committed rows, in insertion order
    published,        \* the rows with a published_at
    log               \* the topics, as far as this outbox fills them

vars == <<outbox, published, log>>

Init ==
    /\ outbox = <<>>
    /\ published = {}
    /\ log = [t \in EventType |-> <<>>]

Unpublished == DOMAIN outbox \ published

Insert(e) == outbox' = Append(outbox, e) /\ UNCHANGED <<published, log>>

SendRow(i) == log' = [log EXCEPT ![outbox[i].type] = Append(@, outbox[i])]

IsSent(i) == \E k \in DOMAIN log[outbox[i].type] : log[outbox[i].type][k] = outbox[i]

\* The broker has the event and the relay was interrupted before its UPDATE.
Send(i) ==
    /\ i \in Unpublished
    /\ SendRow(i)
    /\ UNCHANGED <<outbox, published>>

\* The UPDATE of published_at commits.
Mark(i) ==
    /\ i \in Unpublished
    /\ IsSent(i)
    /\ published' = published \cup {i}
    /\ UNCHANGED <<outbox, log>>

\* A Send and its Mark with nothing of interest in between: published is read
\* by the relay alone.
Publish(i) ==
    /\ i \in Unpublished
    /\ SendRow(i)
    /\ published' = published \cup {i}
    /\ UNCHANGED outbox

Next ==
    \/ \E e \in Message : Insert(e)
    \/ \E i \in DOMAIN outbox : Send(i) \/ Mark(i)

Spec == Init /\ [][Next]_vars

=============================================================================
