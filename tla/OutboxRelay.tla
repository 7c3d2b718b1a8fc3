----------------------------- MODULE OutboxRelay -----------------------------
(***************************************************************************)
(* run_outbox_relay and _poll_and_publish of shared/outbox.py, with the    *)
(* transactions that write the table.  Every order has one transaction,    *)
(* which writes one row; created_at is the NOW() of that transaction, the  *)
(* time it began, so rows may be committed in another order than theirs.   *)
(* The rows are those of the payment service, which name the order only.   *)
(*                                                                         *)
(* A relay holds the lock of a row from its SELECT to the end of its       *)
(* transaction, across the await of the broker.  Several relays run when   *)
(* a service has replicas.                                                 *)
(***************************************************************************)
EXTENDS Events, FiniteSets

CONSTANTS
    Relay,            \* the relay tasks on this outbox
    NoRow,            \* "no row is locked"
    MaxFailures       \* bound: sends that raise and relays that die

VARIABLES
    outbox,           \* the committed rows, in commit order
    published,        \* the rows with a published_at
    log,              \* the topics
    began,            \* the orders whose transaction began, in that order
    open,             \* the transactions that are not over
    locked,           \* the row a relay holds FOR UPDATE
    sent,             \* the relays whose send the broker has acknowledged
    failures

vars == <<outbox, published, log, began, open, locked, sent, failures>>

Init ==
    /\ outbox = <<>>
    /\ published = {}
    /\ log = [t \in EventType |-> <<>>]
    /\ began = <<>> /\ open = {}
    /\ locked = [r \in Relay |-> NoRow]
    /\ sent = {}
    /\ failures = 0

-----------------------------------------------------------------------------
(* The writers: any handler that emits an event *)

Begin(o) ==
    /\ \A i \in DOMAIN began : began[i] # o
    /\ began' = Append(began, o)
    /\ open' = open \cup {o}
    /\ UNCHANGED <<outbox, published, log, locked, sent, failures>>

CommitWriter(o) ==
    /\ o \in open
    /\ \E t \in PaymentEvents : outbox' = Emit(outbox, t, Bare(o))
    /\ open' = open \ {o}
    /\ UNCHANGED <<published, log, began, locked, sent, failures>>

Rollback(o) ==
    /\ o \in open
    /\ open' = open \ {o}
    /\ UNCHANGED <<outbox, published, log, began, locked, sent, failures>>

\* The rank of a row's transaction: its created_at.
CreatedAt(i) == CHOOSE n \in DOMAIN began : began[n] = outbox[i].payload.order

-----------------------------------------------------------------------------
(* The relays *)

\* Mutant: a plain SELECT, which sees the rows that others have locked.
VisibleUnlocked == DOMAIN outbox \ published

\* WHERE published_at IS NULL ... FOR UPDATE SKIP LOCKED.
Visible == (DOMAIN outbox \ published) \ {locked[r] : r \in Relay}

\* ORDER BY created_at LIMIT 1.
Oldest(i) == \A j \in Visible : CreatedAt(i) <= CreatedAt(j)

SelectRow(r) ==
    /\ locked[r] = NoRow
    /\ \E i \in Visible : Oldest(i) /\ locked' = [locked EXCEPT ![r] = i]
    /\ UNCHANGED <<outbox, published, log, began, open, sent, failures>>

AppendRow(i) == log' = [log EXCEPT ![outbox[i].type] = Append(@, outbox[i])]

\* send_and_wait returns.
Send(r) ==
    /\ locked[r] # NoRow /\ r \notin sent
    /\ AppendRow(locked[r])
    /\ sent' = sent \cup {r}
    /\ UNCHANGED <<outbox, published, began, open, locked, failures>>

\* Mutant: the row is marked as soon as it is selected, before the send.
MarkBeforeSend(r) ==
    /\ locked[r] # NoRow
    /\ published' = published \cup {locked[r]}
    /\ locked' = [locked EXCEPT ![r] = NoRow]
    /\ sent' = sent \ {r}
    /\ UNCHANGED <<outbox, log, began, open, failures>>

\* The UPDATE, and the commit that releases the lock.
Mark(r) ==
    /\ r \in sent
    /\ published' = published \cup {locked[r]}
    /\ locked' = [locked EXCEPT ![r] = NoRow]
    /\ sent' = sent \ {r}
    /\ UNCHANGED <<outbox, log, began, open, failures>>

\* Mutant: what the relay remembers outlives its transaction.
FailRemembers(r) ==
    /\ locked[r] # NoRow
    /\ failures < MaxFailures
    /\ failures' = failures + 1
    /\ locked' = [locked EXCEPT ![r] = NoRow]
    /\ UNCHANGED <<outbox, published, log, began, open, sent>>

\* The send or the UPDATE raises, or the process dies: the transaction rolls
\* back and the lock goes.  A send that raised may have reached the broker.
Fail(r) ==
    /\ locked[r] # NoRow
    /\ failures < MaxFailures
    /\ failures' = failures + 1
    /\ locked' = [locked EXCEPT ![r] = NoRow]
    /\ sent' = sent \ {r}
    /\ log' = log \/ (r \notin sent /\ AppendRow(locked[r]))
    /\ UNCHANGED <<outbox, published, began, open>>

-----------------------------------------------------------------------------

RelayStep(r) == SelectRow(r) \/ Send(r) \/ Mark(r)

Next ==
    \/ \E o \in Order : Begin(o) \/ CommitWriter(o) \/ Rollback(o)
    \/ \E r \in Relay : RelayStep(r) \/ Fail(r)

Spec == Init /\ [][Next]_vars

\* The loop polls for as long as the service runs, and survives what raises.
FairSpec == Spec /\ \A r \in Relay : WF_vars(RelayStep(r))

-----------------------------------------------------------------------------
(* Properties *)

TypeOK ==
    /\ outbox \in Seq(Event)
    /\ published \subseteq DOMAIN outbox
    /\ log \in [EventType -> Seq(Event)]
    /\ began \in Seq(Order) /\ open \subseteq Order
    /\ locked \in [Relay -> DOMAIN outbox \cup {NoRow}]
    /\ sent \subseteq {r \in Relay : locked[r] # NoRow}
    /\ failures \in 0..MaxFailures

Copies(i) ==
    {k \in DOMAIN log[outbox[i].type] : log[outbox[i].type][k] = outbox[i]}

\* outbox.py:8: the row locks keep concurrent relays from publishing a row
\* twice.  Every copy but the first is paid for by a failure.
DuplicatesNeedFailures ==
    \A i \in DOMAIN outbox : Cardinality(Copies(i)) <= 1 + failures

\* What the writers may commit.
Written ==
    {[id |-> <<t, n>>, type |-> t, payload |-> Bare(o)] :
        t \in PaymentEvents, n \in 1..Cardinality(Order), o \in Order}

\* The relays do what the outbox promises.
Promise == INSTANCE Outbox WITH Message <- Written

ImplementsOutbox == Promise!Spec

=============================================================================
