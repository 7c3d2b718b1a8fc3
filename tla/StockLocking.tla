---------------------------- MODULE StockLocking ----------------------------
(***************************************************************************)
(* The handlers of RestaurantService statement by statement, for several   *)
(* transactions at once: replicas of the service, or an instance that is   *)
(* still at work on a message its group has handed to another one.         *)
(* PostgreSQL runs them under READ COMMITTED.  A row that one transaction  *)
(* has locked or updated makes the others wait until its end; a statement  *)
(* that waited sees what was committed meanwhile.                          *)
(*                                                                         *)
(* The tables of RestaurantService hold the committed rows.  From the      *)
(* INSERT into stock_reservations, or the DELETE, to COMMIT is one step: a *)
(* transaction there waits only for one that is as far, and has the same   *)
(* outcome whether it arrives before or after that one's end.              *)
(***************************************************************************)
EXTENDS RestaurantService

CONSTANTS
    Replica,          \* the consumers that may be in a transaction
    Lines,            \* the items of an order, as its item list names them
    NoJob

ASSUME LinesAssumption ==
    /\ Lines \in [Order -> Seq(Item)]
    /\ \A o \in Order : \A j, k \in DOMAIN Lines[o] : Lines[o][j] = Lines[o][k] => j = k
    /\ \A e \in Delivery : e.type = "order.placed" =>
          \A i \in Item : e.payload.items[i] > 0 =>
              \E k \in DOMAIN Lines[e.payload.order] : Lines[e.payload.order][k] = i

\* The order service compensates an order once (CompensationOnce): what is
\* delivered again is the same event.
ASSUME ReleaseAssumption ==
    \A d, e \in Delivery :
        /\ d.type = "stock.release" /\ e.type = "stock.release"
        /\ d.payload.order = e.payload.order
        => d = e

ASSUME NoJobAssumption == NoJob \notin Delivery

VARIABLES
    job,              \* the event a replica handles
    phase,            \* how far its handler is
    basket,           \* the quantities it reserves or gives back
    line,             \* the line of the list its loop is at
    locked,           \* the rows of menu_item_stock it has locked
    draft             \* its uncommitted quantities, for the rows it has locked

txnVars     == <<job, phase, basket, line, locked, draft>>
lockingVars == <<vars, txnVars>>

Phase == {"idle", "reserving", "rejecting", "reading", "releasing", "noting"}

NoDraft == [i \in Item |-> 0]

LockingInit ==
    /\ Init
    /\ job = [w \in Replica |-> NoJob]
    /\ phase = [w \in Replica |-> "idle"]
    /\ basket = [w \in Replica |-> NoDraft]
    /\ line = [w \in Replica |-> 1]
    /\ locked = [w \in Replica |-> {}]
    /\ draft = [w \in Replica |-> NoDraft]

OrderOf(w)  == job[w].payload.order
Looping(w)  == phase[w] \in {"reserving", "releasing"}
AtLine(w)   == Looping(w) /\ line[w] \in DOMAIN Lines[OrderOf(w)]
LoopOver(w) == line[w] \notin DOMAIN Lines[OrderOf(w)]

\* Mutant: the release undoes the lines last to first.
ItemAtUndoing(w) ==
    LET list == Lines[OrderOf(w)]
    IN  IF phase[w] = "releasing" THEN list[Len(list) + 1 - line[w]] ELSE list[line[w]]

ItemAt(w) == Lines[OrderOf(w)][line[w]]

\* COMMIT or ROLLBACK: the locks go and the connection returns to the pool.
End(w) ==
    /\ job' = [job EXCEPT ![w] = NoJob]
    /\ phase' = [phase EXCEPT ![w] = "idle"]
    /\ basket' = [basket EXCEPT ![w] = NoDraft]
    /\ line' = [line EXCEPT ![w] = 1]
    /\ locked' = [locked EXCEPT ![w] = {}]
    /\ draft' = [draft EXCEPT ![w] = NoDraft]

-----------------------------------------------------------------------------
(* BEGIN and the idempotency check *)

Begin(w, e) ==
    /\ phase[w] = "idle"
    /\ e.id \notin processed
    /\ job' = [job EXCEPT ![w] = e]
    /\ \/ /\ e.type = "order.placed"
          /\ phase' = [phase EXCEPT ![w] = "reserving"]
          /\ basket' = [basket EXCEPT ![w] = e.payload.items]
       \/ /\ e.type = "stock.release"
          /\ phase' = [phase EXCEPT ![w] = "reading"]
          /\ UNCHANGED basket
    /\ UNCHANGED <<vars, line, locked, draft>>

\* A duplicate, or an event of another type: the handler returns.
Skip(w, e) ==
    /\ phase[w] = "idle"
    /\ e.id \in processed \/ e.type \notin {"order.placed", "stock.release"}
    /\ UNCHANGED lockingVars

-----------------------------------------------------------------------------
(* stock.py *)

LockedByOther(w, i) == \E v \in Replica \ {w} : i \in locked[v]

\* The row of the current line is updated to quantity q.
Take(w, q) ==
    /\ locked' = [locked EXCEPT ![w] = @ \cup {ItemAt(w)}]
    /\ draft' = [draft EXCEPT ![w][ItemAt(w)] = q]
    /\ line' = [line EXCEPT ![w] = @ + 1]
    /\ UNCHANGED <<vars, job, phase, basket>>

\* Mutant: the quantity is not compared with what is asked.
ReserveLineUnchecked(w) ==
    /\ phase[w] = "reserving" /\ AtLine(w)
    /\ ~LockedByOther(w, ItemAt(w))
    /\ Take(w, stock[ItemAt(w)] - basket[w][ItemAt(w)])

\* Mutant: SELECT without FOR UPDATE.
ReserveLineUnlocked(w) ==
    /\ phase[w] = "reserving" /\ AtLine(w)
    /\ basket[w][ItemAt(w)] <= stock[ItemAt(w)]
    /\ Take(w, stock[ItemAt(w)] - basket[w][ItemAt(w)])

\* SELECT ... FOR UPDATE, enough of the item, UPDATE.
ReserveLine(w) ==
    /\ phase[w] = "reserving" /\ AtLine(w)
    /\ ~LockedByOther(w, ItemAt(w))
    /\ basket[w][ItemAt(w)] <= stock[ItemAt(w)]
    /\ Take(w, stock[ItemAt(w)] - basket[w][ItemAt(w)])

\* InsufficientStockError: the savepoint rolls back and gives up the locks
\* taken in it.
ShortLine(w) ==
    /\ phase[w] = "reserving" /\ AtLine(w)
    /\ ~LockedByOther(w, ItemAt(w))
    /\ basket[w][ItemAt(w)] > stock[ItemAt(w)]
    /\ phase' = [phase EXCEPT ![w] = "rejecting"]
    /\ locked' = [locked EXCEPT ![w] = {}]
    /\ draft' = [draft EXCEPT ![w] = NoDraft]
    /\ UNCHANGED <<vars, job, basket, line>>

\* SELECT items FROM stock_reservations, without a lock.
ReadReservation(w) ==
    /\ phase[w] = "reading"
    /\ IF Held(OrderOf(w))
       THEN /\ phase' = [phase EXCEPT ![w] = "releasing"]
            /\ basket' = [basket EXCEPT ![w] = reservations[OrderOf(w)].items]
       ELSE /\ phase' = [phase EXCEPT ![w] = "noting"]
            /\ UNCHANGED basket
    /\ UNCHANGED <<vars, job, line, locked, draft>>

\* UPDATE ... SET quantity = quantity + $1, which waits for the row.
ReleaseLine(w) ==
    /\ phase[w] = "releasing" /\ AtLine(w)
    /\ ~LockedByOther(w, ItemAt(w))
    /\ Take(w, stock[ItemAt(w)] + basket[w][ItemAt(w)])

-----------------------------------------------------------------------------
(* The writes that end a handler, and COMMIT *)

Apply(w) == stock' = [i \in Item |-> IF i \in locked[w] THEN draft[w][i] ELSE stock[i]]

\* Mutant: stock.reserved is published before the transaction, and lost with it.
CommitReservedSilent(w) ==
    /\ phase[w] = "reserving" /\ LoopOver(w)
    /\ ~Held(OrderOf(w))
    /\ MarkProcessed(job[w])
    /\ Apply(w)
    /\ reservations' = [reservations EXCEPT ![OrderOf(w)] = [held |-> TRUE, items |-> basket[w]]]
    /\ UNCHANGED outbox
    /\ End(w)

CommitReserved(w) ==
    /\ phase[w] = "reserving" /\ LoopOver(w)
    /\ ~Held(OrderOf(w))
    /\ MarkProcessed(job[w])
    /\ Apply(w)
    /\ reservations' = [reservations EXCEPT ![OrderOf(w)] = [held |-> TRUE, items |-> basket[w]]]
    /\ outbox' = Emit(outbox, "stock.reserved", job[w].payload)
    /\ End(w)

\* The locks are gone since ShortLine: by now the stock may suffice, and the
\* order is rejected all the same.  RestaurantService, where a handler is one
\* step, does not have this behaviour.
CommitRejected(w) ==
    /\ phase[w] = "rejecting"
    /\ MarkProcessed(job[w])
    /\ outbox' = Emit(outbox, "stock.rejected", Bare(OrderOf(w)))
    /\ UNCHANGED <<stock, reservations>>
    /\ End(w)

\* Mutant: ON CONFLICT DO NOTHING on the ledger.
CommitReleasedTwice(w) ==
    /\ phase[w] = "releasing" /\ LoopOver(w)
    /\ processed' = processed \cup {job[w].id}
    /\ Apply(w)
    /\ reservations' = [reservations EXCEPT ![OrderOf(w)] = NoReservation]
    /\ UNCHANGED outbox
    /\ End(w)

\* Mutant: the ledger entry is forgotten.
CommitReleasedUnrecorded(w) ==
    /\ phase[w] = "releasing" /\ LoopOver(w)
    /\ job[w].id \notin processed
    /\ Apply(w)
    /\ reservations' = [reservations EXCEPT ![OrderOf(w)] = NoReservation]
    /\ UNCHANGED <<processed, outbox>>
    /\ End(w)

CommitReleased(w) ==
    /\ phase[w] = "releasing" /\ LoopOver(w)
    /\ MarkProcessed(job[w])
    /\ Apply(w)
    /\ reservations' = [reservations EXCEPT ![OrderOf(w)] = NoReservation]
    /\ UNCHANGED outbox
    /\ End(w)

\* stock.release without a reservation: the ledger only.
CommitNoted(w) ==
    /\ phase[w] = "noting"
    /\ MarkProcessed(job[w])
    /\ UNCHANGED <<stock, reservations, outbox>>
    /\ End(w)

Commit(w) == CommitReserved(w) \/ CommitRejected(w) \/ CommitReleased(w) \/ CommitNoted(w)

\* A row is there already: UniqueViolationError rolls everything back.  That of
\* stock_reservations is swallowed, that of processed_events logged by the loop.
Violates(w) ==
    \/ phase[w] = "reserving" /\ LoopOver(w) /\ Held(OrderOf(w))
    \/ /\ phase[w] \in {"rejecting", "noting"} \/ (Looping(w) /\ LoopOver(w))
       /\ job[w].id \in processed

\* Mutant: nothing closes a transaction that failed.
ConflictLeaks(w) ==
    /\ Violates(w)
    /\ phase' = [phase EXCEPT ![w] = "idle"]
    /\ job' = [job EXCEPT ![w] = NoJob]
    /\ line' = [line EXCEPT ![w] = 1]
    /\ UNCHANGED <<vars, basket, locked, draft>>

Conflict(w) == Violates(w) /\ End(w) /\ UNCHANGED vars

\* The database fails, or the process dies.
Rollback(w) == phase[w] # "idle" /\ End(w) /\ UNCHANGED vars

\* w waits for a row that v has locked.
WaitsFor(w, v) == v # w /\ AtLine(w) /\ ItemAt(w) \in locked[v]

\* Every member of S waits for another one, and is waited for.
WaitCycle(S) ==
    /\ S # {}
    /\ \A w \in S : \E v \in S : WaitsFor(w, v)
    /\ \A v \in S : \E w \in S : WaitsFor(w, v)

\* PostgreSQL ends one transaction of a cycle with an error, which the loop
\* of the consumer logs.
DeadlockVictim(w) ==
    /\ \E S \in SUBSET Replica : w \in S /\ WaitCycle(S)
    /\ End(w)
    /\ UNCHANGED vars

-----------------------------------------------------------------------------

Statement(w) ==
    \/ ReserveLine(w) \/ ShortLine(w)
    \/ ReadReservation(w) \/ ReleaseLine(w)
    \/ Commit(w) \/ Conflict(w)
    \/ DeadlockVictim(w)

LockingNext ==
    \E w \in Replica :
        \/ \E e \in Delivery : Begin(w, e) \/ Skip(w, e)
        \/ Statement(w)
        \/ Rollback(w)

LockingSpec == LockingInit /\ [][LockingNext]_lockingVars

\* A statement returns; PostgreSQL queues those that wait for a row.
LockingFairSpec == LockingSpec /\ \A w \in Replica : SF_lockingVars(Statement(w))

-----------------------------------------------------------------------------
(* Properties *)

HandlersTypeOK ==
    /\ job \in [Replica -> Delivery \cup {NoJob}]
    /\ phase \in [Replica -> Phase]
    /\ basket \in [Replica -> Basket]
    /\ line \in [Replica -> Nat \ {0}]
    /\ locked \in [Replica -> SUBSET Item]
    /\ draft \in [Replica -> [Item -> Nat]]
    /\ \A w \in Replica : phase[w] # "idle" <=> job[w] # NoJob

\* No quantity is negative, in a table or in a draft.
LockingTypeOK == TypeOK /\ HandlersTypeOK

\* FOR UPDATE, stock.py:27: a row is in the hands of one transaction, and what
\* that one will write differs from the row that everyone else reads by its
\* own quantity.  So no deduction is lost and nothing is sold twice, however
\* many transactions overlap.
DraftsAreCurrent ==
    \A w \in Replica : \A i \in locked[w] :
        /\ \A v \in Replica \ {w} : i \notin locked[v]
        /\ phase[w] = "reserving" => draft[w][i] + basket[w][i] = stock[i]
        /\ phase[w] = "releasing" => draft[w][i] = stock[i] + basket[w][i]

\* release_stock reads the reservation without a lock, stock.py:63.  Until its
\* handler ends the reservation is still the one it read, or its event has
\* been processed by another replica, and its own commit will fail.
ReadStaysTrue ==
    \A w \in Replica : phase[w] = "releasing" =>
        \/ reservations[OrderOf(w)] = [held |-> TRUE, items |-> basket[w]]
        \/ job[w].id \in processed

Precedes(o, i, k) ==
    \E m, n \in DOMAIN Lines[o] : m < n /\ Lines[o][m] = i /\ Lines[o][n] = k

\* README.md:151: it takes two baskets that name two items in opposite orders to
\* deadlock two handlers.  Sorted lists would rule that out.
DeadlockNeedsOpposedLines ==
    \A v, w \in Replica :
        WaitsFor(v, w) /\ WaitsFor(w, v) =>
            \E i, k \in Item : Precedes(OrderOf(v), i, k) /\ Precedes(OrderOf(w), k, i)

\* Every handler comes to an end: no lock outlives its transaction, and a cycle
\* is broken.
HandlersReturn == \A w \in Replica : phase[w] # "idle" ~> phase[w] = "idle"

=============================================================================
