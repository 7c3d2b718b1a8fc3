------------------------------ MODULE Pipeline ------------------------------
(***************************************************************************)
(* The way of an event from the payment service's outbox to the consumer   *)
(* of the order service: transactions that write rows, the relays          *)
(* (OutboxRelay), two topics, and the loop that calls the handlers         *)
(* (ConsumerLoop), with the failures of both ends.                         *)
(***************************************************************************)
EXTENDS ConsumerLoop, FiniteSets

CONSTANTS Relay, NoRow, MaxFailures

ASSUME RelayAssumption ==
    MaxFailures \in Nat /\ NoRow \notin Nat /\ IsFiniteSet(Order)

VARIABLES outbox, published, began, open, locked, sent, failures

Relays == INSTANCE OutboxRelay

ASSUME WrittenAssumption == Relays!Written \subseteq Message

relayVars    == <<outbox, published, began, open, locked, sent, failures>>
loopVars     == <<committed, fetched, done, running, restarts, processed>>
pipelineVars == <<log, relayVars, loopVars>>

PipelineInit == Init /\ Relays!Init

PipelineNext ==
    \/ Relays!Next /\ UNCHANGED loopVars
    \/ (LoopStep \/ Die \/ Restart) /\ UNCHANGED relayVars

PipelineSpec ==
    /\ PipelineInit /\ [][PipelineNext]_pipelineVars
    /\ \A r \in Relay : WF_pipelineVars(Relays!RelayStep(r) /\ UNCHANGED loopVars)
    /\ WF_pipelineVars(LoopStep /\ UNCHANGED relayVars)

-----------------------------------------------------------------------------
(* Properties *)

PipelineTypeOK == Relays!TypeOK /\ TypeOK

\* outbox.py:8: the row locks keep concurrent relays from publishing a row
\* twice.  Every copy but the first is paid for by a failure.
DuplicatesNeedFailures == Relays!DuplicatesNeedFailures

\* The relays do what the outbox promises, outbox.py:11, whoever reads the topics.
ImplementsOutbox == Relays!ImplementsOutbox

\* The loop has called the handler with row n, and is past it: ImplementsKafka
\* says that it passes messages one by one.
Passed(n) ==
    /\ n \in DOMAIN outbox
    /\ LET t == outbox[n].type
       IN  \E k \in DOMAIN log[t] : log[t][k] = outbox[n] /\ k <= done[t]

\* outbox.py:15, README.md:58: a committed row comes to a handler, whatever
\* fails on the way.  The exception is a loop that has died (consumers.py:48),
\* which nothing but a restart of the process revives.
EventsReachHandlers ==
    \A n \in 1..Cardinality(Order) : n \in DOMAIN outbox ~> ~running \/ Passed(n)

=============================================================================
