------------------------- MODULE StockLockingProofs -------------------------
(***************************************************************************)
(* The row locks make the handlers of any number of replicas as good as    *)
(* one after the other: a transaction that moves stock commits a step of   *)
(* RestaurantService, whose proofs then speak for it.                      *)
(***************************************************************************)
EXTENDS StockLocking, RestaurantServiceProofs

\* A handler is where the type of its event brings it.
JobsMatch ==
    \A w \in Replica :
        /\ phase[w] \in {"reserving", "rejecting"} => job[w].type = "order.placed"
        /\ phase[w] = "reserving" => basket[w] = job[w].payload.items
        /\ phase[w] \in {"reading", "releasing", "noting"} => job[w].type = "stock.release"
        /\ phase[w] \in {"idle", "reading"} => line[w] = 1

\* A loop has locked the rows of the lines it has passed, and no other; no one
\* else has locked any.
LocksFollowLines ==
    \A w \in Replica :
        /\ Looping(w) =>
              /\ line[w] \in 1..Len(Lines[OrderOf(w)]) + 1
              /\ locked[w] = {Lines[OrderOf(w)][k] : k \in 1..line[w] - 1}
        /\ ~Looping(w) => locked[w] = {}

\* What is reserved is on the item list of its order.
ReservationsFitLines ==
    \A o \in Order : Held(o) =>
        \A i \in Item : reservations[o].items[i] > 0 =>
            \E k \in DOMAIN Lines[o] : Lines[o][k] = i

\* The inductive invariant.
LockInv ==
    /\ IInv
    /\ HandlersTypeOK
    /\ JobsMatch
    /\ LocksFollowLines
    /\ DraftsAreCurrent
    /\ ReservationsFitLines
    /\ ReadStaysTrue

USE DeliveryAssumption, LinesAssumption, ReleaseAssumption, NoJobAssumption

-----------------------------------------------------------------------------

\* What the steps below need of the types of a handler that is under way.
LEMMA JobOf ==
    ASSUME LockInv, NEW w \in Replica, phase[w] # "idle"
    PROVE  /\ job[w] \in Delivery /\ job[w] \in Event
           /\ OrderOf(w) \in Order
           /\ job[w].id \in EventId
           /\ Lines[OrderOf(w)] \in Seq(Item)
           /\ basket[w] \in [Item -> Nat]
           /\ phase[w] = "reserving" => job[w].payload \in FullPayload
  <1>1. job[w] \in Delivery /\ job[w] \in Event
    BY DEF LockInv, HandlersTypeOK
  <1>2. /\ OrderOf(w) \in Order /\ job[w].id \in EventId
        /\ phase[w] = "reserving" => job[w].payload \in FullPayload
    BY <1>1, EventParts DEF OrderOf, LockInv, JobsMatch, FullTypes
  <1>. QED
    BY <1>1, <1>2 DEF LockInv, HandlersTypeOK, Basket

LEMMA LineOf ==
    ASSUME LockInv, NEW w \in Replica, AtLine(w)
    PROVE  /\ Looping(w) /\ phase[w] # "idle"
           /\ ItemAt(w) \in Item
           /\ line[w] \in 1..Len(Lines[OrderOf(w)])
           /\ ItemAt(w) = Lines[OrderOf(w)][line[w]]
  <1>1. Looping(w) /\ phase[w] # "idle" /\ line[w] \in DOMAIN Lines[OrderOf(w)]
    BY DEF AtLine, Looping
  <1>2. Lines[OrderOf(w)] \in Seq(Item)
    BY <1>1, JobOf
  <1>. QED
    BY <1>1, <1>2 DEF ItemAt

\* The tables are as they were, and one handler has moved on without them.
LEMMA TablesStay ==
    ASSUME IInv, UNCHANGED vars
    PROVE  IInv'
  BY DEF vars, IInv, TypeOK, HeldIsAnnounced, Held

LEMMA LockInitially == LockingInit => LockInv
  <1>. SUFFICES ASSUME LockingInit PROVE LockInv
    OBVIOUS
  <1>1. IInv
    BY InitIInv DEF LockingInit
  <1>2. \A w \in Replica : phase[w] = "idle" /\ job[w] = NoJob /\ line[w] = 1 /\ locked[w] = {}
    BY DEF LockingInit
  <1>3. HandlersTypeOK
    BY DEF LockingInit, HandlersTypeOK, Phase, NoDraft, Basket
  <1>4. JobsMatch /\ LocksFollowLines /\ DraftsAreCurrent /\ ReadStaysTrue
    BY <1>2 DEF JobsMatch, LocksFollowLines, Looping, DraftsAreCurrent, ReadStaysTrue
  <1>5. ReservationsFitLines
    BY DEF LockingInit, Init, ReservationsFitLines, Held, NoReservation
  <1>. QED
    BY <1>1, <1>3, <1>4, <1>5 DEF LockInv

\* COMMIT or ROLLBACK of w, whatever it leaves in the tables: the others must
\* still hold what they have read.
LEMMA EndKeeps ==
    ASSUME LockInv, NEW w \in Replica, End(w), IInv', ReservationsFitLines',
           processed \subseteq processed',
           \A v \in Replica \ {w} : \A i \in locked[v] : stock'[i] = stock[i],
           \A v \in Replica \ {w} : phase[v] = "releasing" =>
              \/ reservations'[OrderOf(v)] = reservations[OrderOf(v)]
              \/ job[v].id \in processed'
    PROVE  LockInv'
  <1>1. /\ job' = [job EXCEPT ![w] = NoJob]
        /\ phase' = [phase EXCEPT ![w] = "idle"]
        /\ basket' = [basket EXCEPT ![w] = NoDraft]
        /\ line' = [line EXCEPT ![w] = 1]
        /\ locked' = [locked EXCEPT ![w] = {}]
        /\ draft' = [draft EXCEPT ![w] = NoDraft]
    BY DEF End
  <1>2. HandlersTypeOK
    BY DEF LockInv
  <1>3. /\ phase'[w] = "idle" /\ line'[w] = 1 /\ locked'[w] = {}
        /\ \A v \in Replica \ {w} :
              /\ phase'[v] = phase[v] /\ job'[v] = job[v] /\ basket'[v] = basket[v]
              /\ line'[v] = line[v] /\ locked'[v] = locked[v] /\ draft'[v] = draft[v]
    BY <1>1, <1>2 DEF HandlersTypeOK
  <1>4. HandlersTypeOK'
    <2>1. NoDraft \in Basket /\ NoDraft \in [Item -> Nat]
      BY DEF NoDraft, Basket
    <2>. QED
      BY <1>1, <1>2, <2>1 DEF HandlersTypeOK, Phase
  <1>5. JobsMatch'
    BY <1>3 DEF LockInv, JobsMatch
  <1>6. LocksFollowLines'
    <2>1. ~Looping(w)'
      BY <1>3 DEF Looping
    <2>2. \A v \in Replica \ {w} : Looping(v)' = Looping(v) /\ OrderOf(v)' = OrderOf(v)
      BY <1>3 DEF Looping, OrderOf
    <2>. QED
      BY <1>3, <2>1, <2>2 DEF LockInv, LocksFollowLines
  <1>7. DraftsAreCurrent'
    BY <1>3 DEF LockInv, DraftsAreCurrent
  <1>8. ReadStaysTrue'
    <2>1. \A v \in Replica \ {w} : OrderOf(v)' = OrderOf(v)
      BY <1>3 DEF OrderOf
    <2>. QED
      BY <1>3, <2>1 DEF LockInv, ReadStaysTrue
  <1>. QED
    BY <1>4, <1>5, <1>6, <1>7, <1>8 DEF LockInv

\* A transaction that leaves nothing behind.
LEMMA RollbackKeeps ==
    ASSUME LockInv, NEW w \in Replica, End(w), UNCHANGED vars
    PROVE  LockInv'
  <1>1. IInv'
    BY TablesStay DEF LockInv
  <1>2. ReservationsFitLines'
    BY DEF LockInv, ReservationsFitLines, Held, vars
  <1>. QED
    BY <1>1, <1>2, EndKeeps DEF vars

-----------------------------------------------------------------------------
(* The statements of a handler before its end *)

LEMMA BeginKeeps ==
    ASSUME LockInv, NEW w \in Replica, NEW e \in Delivery, Begin(w, e)
    PROVE  LockInv'
  <1>1. /\ phase[w] = "idle" /\ UNCHANGED <<line, locked, draft>> /\ UNCHANGED vars
        /\ job' = [job EXCEPT ![w] = e]
        /\ \/ /\ e.type = "order.placed"
              /\ phase' = [phase EXCEPT ![w] = "reserving"]
              /\ basket' = [basket EXCEPT ![w] = e.payload.items]
           \/ /\ e.type = "stock.release"
              /\ phase' = [phase EXCEPT ![w] = "reading"]
              /\ basket' = basket
    BY DEF Begin
  <1>2. HandlersTypeOK /\ locked[w] = {} /\ line[w] = 1
    BY <1>1 DEF LockInv, LocksFollowLines, Looping, JobsMatch
  <1>3. /\ job'[w] = e /\ e # NoJob
        /\ e.type = "order.placed" => phase'[w] = "reserving" /\ basket'[w] = e.payload.items
        /\ e.type = "stock.release" => phase'[w] = "reading"
        /\ phase'[w] \in {"reserving", "reading"}
        /\ e.type \in {"order.placed", "stock.release"}
        /\ \A v \in Replica \ {w} :
              phase'[v] = phase[v] /\ job'[v] = job[v] /\ basket'[v] = basket[v]
    BY <1>1, <1>2 DEF HandlersTypeOK
  <1>4. e \in Event
    OBVIOUS
  <1>5. /\ e.payload.order \in Order
        /\ e.type = "order.placed" => e.payload.items \in Basket
    BY <1>4, EventParts DEF FullTypes, FullPayload
  <1>6. HandlersTypeOK'
    <2>1. job' \in [Replica -> Delivery \cup {NoJob}] /\ phase' \in [Replica -> Phase]
      BY <1>1, <1>2 DEF HandlersTypeOK, Phase
    <2>2. basket' \in [Replica -> Basket]
      BY <1>1, <1>2, <1>5 DEF HandlersTypeOK
    <2>3. \A v \in Replica : phase'[v] # "idle" <=> job'[v] # NoJob
      <3>1. phase'[w] # "idle" /\ job'[w] # NoJob
        BY <1>3
      <3>2. \A v \in Replica \ {w} : phase'[v] # "idle" <=> job'[v] # NoJob
        BY <1>2, <1>3 DEF HandlersTypeOK
      <3>. QED
        BY <3>1, <3>2
    <2>. QED
      BY <1>1, <1>2, <2>1, <2>2, <2>3 DEF HandlersTypeOK
  <1>7. JobsMatch'
    BY <1>1, <1>2, <1>3 DEF LockInv, JobsMatch
  <1>8. LocksFollowLines'
    <2>1. line'[w] \in 1..Len(Lines[e.payload.order]) + 1 /\ locked'[w] = {} /\ line'[w] = 1
      BY <1>1, <1>2, <1>5
    <2>2. OrderOf(w)' = e.payload.order
      BY <1>3 DEF OrderOf
    <2>3. locked'[w] = {Lines[OrderOf(w)'][k] : k \in 1..line'[w] - 1}
      BY <2>1
    <2>4. \A v \in Replica \ {w} : OrderOf(v)' = OrderOf(v) /\ Looping(v)' = Looping(v)
      BY <1>3 DEF OrderOf, Looping
    <2>. QED
      BY <1>1, <2>1, <2>2, <2>3, <2>4 DEF LockInv, LocksFollowLines
  <1>9. DraftsAreCurrent'
    BY <1>1, <1>2, <1>3 DEF LockInv, DraftsAreCurrent, vars
  <1>10. ReadStaysTrue'
    BY <1>1, <1>3 DEF LockInv, ReadStaysTrue, OrderOf, vars
  <1>11. IInv' /\ ReservationsFitLines'
    BY <1>1, TablesStay DEF LockInv, ReservationsFitLines, Held, vars
  <1>. QED
    BY <1>6, <1>7, <1>8, <1>9, <1>10, <1>11 DEF LockInv

\* The row of the current line comes into the hands of w alone.
LEMMA TakeKeeps ==
    ASSUME LockInv, NEW w \in Replica, AtLine(w), ~LockedByOther(w, ItemAt(w)),
           NEW q \in Nat, Take(w, q),
           phase[w] = "reserving" => q + basket[w][ItemAt(w)] = stock[ItemAt(w)],
           phase[w] = "releasing" => q = stock[ItemAt(w)] + basket[w][ItemAt(w)]
    PROVE  LockInv'
  <1>. DEFINE row == ItemAt(w)
  <1>1. /\ locked' = [locked EXCEPT ![w] = @ \cup {row}]
        /\ draft' = [draft EXCEPT ![w][row] = q]
        /\ line' = [line EXCEPT ![w] = @ + 1]
        /\ UNCHANGED vars /\ UNCHANGED <<job, phase, basket>>
    BY DEF Take
  <1>2. /\ Looping(w) /\ phase[w] # "idle" /\ row \in Item
        /\ line[w] \in 1..Len(Lines[OrderOf(w)])
        /\ row = Lines[OrderOf(w)][line[w]]
        /\ Lines[OrderOf(w)] \in Seq(Item)
    BY LineOf, JobOf
  <1>3. \A v \in Replica \ {w} : row \notin locked[v]
    BY DEF LockedByOther
  <1>. HIDE DEF row
  <1>4. HandlersTypeOK
    BY DEF LockInv
  <1>5. /\ locked'[w] = locked[w] \cup {row} /\ line'[w] = line[w] + 1
        /\ draft'[w][row] = q /\ \A i \in Item \ {row} : draft'[w][i] = draft[w][i]
        /\ \A v \in Replica \ {w} :
              locked'[v] = locked[v] /\ line'[v] = line[v] /\ draft'[v] = draft[v]
    BY <1>1, <1>2, <1>4 DEF HandlersTypeOK
  <1>6. HandlersTypeOK'
    <2>1. line' \in [Replica -> Nat \ {0}]
      BY <1>1, <1>4 DEF HandlersTypeOK
    <2>2. locked' \in [Replica -> SUBSET Item] /\ draft' \in [Replica -> [Item -> Nat]]
      BY <1>1, <1>2, <1>4 DEF HandlersTypeOK
    <2>. QED
      BY <1>1, <1>4, <2>1, <2>2 DEF HandlersTypeOK
  <1>7. JobsMatch'
    BY <1>1, <1>2, <1>5 DEF LockInv, JobsMatch, Looping
  <1>8. \A v \in Replica : OrderOf(v)' = OrderOf(v) /\ Looping(v)' = Looping(v)
    BY <1>1 DEF OrderOf, Looping
  <1>9. LocksFollowLines'
    <2>1. locked[w] = {Lines[OrderOf(w)][k] : k \in 1..line[w] - 1}
      BY <1>2 DEF LockInv, LocksFollowLines
    <2>2. locked'[w] = {Lines[OrderOf(w)][k] : k \in 1..line'[w] - 1}
      BY <1>2, <1>5, <2>1
    <2>3. line'[w] \in 1..Len(Lines[OrderOf(w)]) + 1
      BY <1>2, <1>5
    <2>4. \A v \in Replica \ {w} :
              /\ Looping(v) =>
                    /\ line'[v] \in 1..Len(Lines[OrderOf(v)]) + 1
                    /\ locked'[v] = {Lines[OrderOf(v)][k] : k \in 1..line'[v] - 1}
              /\ ~Looping(v) => locked'[v] = {}
      BY <1>5 DEF LockInv, LocksFollowLines
    <2>. QED
      BY <1>2, <1>8, <2>2, <2>3, <2>4 DEF LocksFollowLines
  <1>10. DraftsAreCurrent'
    <2>. SUFFICES ASSUME NEW v \in Replica, NEW i \in locked'[v]
                  PROVE  /\ \A u \in Replica \ {v} : i \notin locked'[u]
                         /\ phase[v] = "reserving" => draft'[v][i] + basket[v][i] = stock[i]
                         /\ phase[v] = "releasing" => draft'[v][i] = stock[i] + basket[v][i]
      BY <1>1 DEF DraftsAreCurrent, vars
    <2>1. CASE v = w /\ i = row
      BY <1>3, <1>5, <2>1 DEF row
    <2>2. CASE v = w /\ i # row
      <3>1. i \in locked[v] /\ i \in Item
        BY <1>4, <1>5, <2>2 DEF HandlersTypeOK
      <3>. QED
        BY <1>5, <2>2, <3>1 DEF LockInv, DraftsAreCurrent
    <2>3. CASE v # w
      <3>1. i \in locked[v] /\ i # row
        BY <1>3, <1>5, <2>3
      <3>. QED
        BY <1>5, <2>3, <3>1 DEF LockInv, DraftsAreCurrent
    <2>. QED
      BY <2>1, <2>2, <2>3
  <1>11. ReadStaysTrue' /\ ReservationsFitLines' /\ IInv'
    BY <1>1, <1>8, TablesStay DEF LockInv, ReadStaysTrue, ReservationsFitLines, Held, vars
  <1>. QED
    BY <1>6, <1>7, <1>9, <1>10, <1>11 DEF LockInv

LEMMA ReserveLineKeeps ==
    ASSUME LockInv, NEW w \in Replica, ReserveLine(w)
    PROVE  LockInv'
  <1>1. /\ phase[w] = "reserving" /\ AtLine(w) /\ ~LockedByOther(w, ItemAt(w))
        /\ basket[w][ItemAt(w)] <= stock[ItemAt(w)]
        /\ Take(w, stock[ItemAt(w)] - basket[w][ItemAt(w)])
    BY DEF ReserveLine
  <1>2. stock[ItemAt(w)] \in Nat /\ basket[w][ItemAt(w)] \in Nat
    BY <1>1, LineOf, JobOf DEF LockInv, IInv, TypeOK
  <1>3. /\ stock[ItemAt(w)] - basket[w][ItemAt(w)] \in Nat
        /\ (stock[ItemAt(w)] - basket[w][ItemAt(w)]) + basket[w][ItemAt(w)] = stock[ItemAt(w)]
    BY <1>1, <1>2
  <1>. QED
    BY <1>1, <1>3, TakeKeeps

LEMMA ReleaseLineKeeps ==
    ASSUME LockInv, NEW w \in Replica, ReleaseLine(w)
    PROVE  LockInv'
  <1>1. /\ phase[w] = "releasing" /\ AtLine(w) /\ ~LockedByOther(w, ItemAt(w))
        /\ Take(w, stock[ItemAt(w)] + basket[w][ItemAt(w)])
    BY DEF ReleaseLine
  <1>2. stock[ItemAt(w)] + basket[w][ItemAt(w)] \in Nat
    BY <1>1, LineOf, JobOf DEF LockInv, IInv, TypeOK
  <1>. QED
    BY <1>1, <1>2, TakeKeeps

\* The savepoint rolls back: the locks go, the handler stays.
LEMMA ShortLineKeeps ==
    ASSUME LockInv, NEW w \in Replica, ShortLine(w)
    PROVE  LockInv'
  <1>1. /\ phase[w] = "reserving"
        /\ phase' = [phase EXCEPT ![w] = "rejecting"]
        /\ locked' = [locked EXCEPT ![w] = {}]
        /\ draft' = [draft EXCEPT ![w] = NoDraft]
        /\ UNCHANGED vars /\ UNCHANGED <<job, basket, line>>
    BY DEF ShortLine
  <1>2. HandlersTypeOK
    BY DEF LockInv
  <1>3. /\ phase'[w] = "rejecting" /\ locked'[w] = {}
        /\ \A v \in Replica \ {w} :
              phase'[v] = phase[v] /\ locked'[v] = locked[v] /\ draft'[v] = draft[v]
    BY <1>1, <1>2 DEF HandlersTypeOK
  <1>4. HandlersTypeOK'
    <2>1. NoDraft \in [Item -> Nat]
      BY DEF NoDraft
    <2>. QED
      BY <1>1, <1>2, <2>1 DEF HandlersTypeOK, Phase
  <1>5. JobsMatch'
    BY <1>1, <1>3 DEF LockInv, JobsMatch
  <1>6. LocksFollowLines'
    <2>1. ~Looping(w)' /\ \A v \in Replica : OrderOf(v)' = OrderOf(v)
      BY <1>1, <1>3 DEF Looping, OrderOf
    <2>2. \A v \in Replica \ {w} : Looping(v)' = Looping(v)
      BY <1>3 DEF Looping
    <2>3. \A v \in Replica \ {w} :
              /\ Looping(v) =>
                    /\ line'[v] \in 1..Len(Lines[OrderOf(v)]) + 1
                    /\ locked'[v] = {Lines[OrderOf(v)][k] : k \in 1..line'[v] - 1}
              /\ ~Looping(v) => locked'[v] = {}
      BY <1>1, <1>3 DEF LockInv, LocksFollowLines
    <2>. QED
      BY <1>3, <2>1, <2>2, <2>3 DEF LocksFollowLines
  <1>7. DraftsAreCurrent'
    BY <1>1, <1>3 DEF LockInv, DraftsAreCurrent, vars
  <1>8. ReadStaysTrue' /\ ReservationsFitLines' /\ IInv'
    BY <1>1, <1>3, TablesStay DEF LockInv, ReadStaysTrue, ReservationsFitLines, Held, OrderOf, vars
  <1>. QED
    BY <1>4, <1>5, <1>6, <1>7, <1>8 DEF LockInv

LEMMA ReadReservationKeeps ==
    ASSUME LockInv, NEW w \in Replica, ReadReservation(w)
    PROVE  LockInv'
  <1>. DEFINE o == OrderOf(w)
  <1>1. /\ phase[w] = "reading" /\ UNCHANGED vars /\ UNCHANGED <<job, line, locked, draft>>
        /\ \/ /\ Held(o)
              /\ phase' = [phase EXCEPT ![w] = "releasing"]
              /\ basket' = [basket EXCEPT ![w] = reservations[o].items]
           \/ /\ ~Held(o)
              /\ phase' = [phase EXCEPT ![w] = "noting"]
              /\ basket' = basket
    BY DEF ReadReservation
  <1>2. HandlersTypeOK /\ IInv /\ o \in Order /\ Lines[o] \in Seq(Item)
    BY <1>1, JobOf DEF LockInv
  <1>3. Held(o) => reservations[o].items \in Basket
    BY <1>2, RowOf DEF IInv
  <1>4. Held(o) => reservations[o] = [held |-> TRUE, items |-> reservations[o].items]
    BY <1>2, RowOf DEF IInv, ReservationRow
  <1>5. /\ Held(o) => phase'[w] = "releasing" /\ basket'[w] = reservations[o].items
        /\ ~Held(o) => phase'[w] = "noting"
        /\ \A v \in Replica \ {w} : phase'[v] = phase[v] /\ basket'[v] = basket[v]
        /\ \A v \in Replica : OrderOf(v)' = OrderOf(v)
    BY <1>1, <1>2 DEF HandlersTypeOK, OrderOf
  <1>. HIDE DEF o
  <1>6. line[w] = 1 /\ locked[w] = {} /\ job[w].type = "stock.release"
    BY <1>1 DEF LockInv, JobsMatch, LocksFollowLines, Looping
  <1>7. HandlersTypeOK'
    <2>1. phase' \in [Replica -> Phase] /\ basket' \in [Replica -> Basket]
      BY <1>1, <1>2, <1>3 DEF HandlersTypeOK, Phase
    <2>2. phase[w] # "idle" /\ phase'[w] # "idle"
      BY <1>1, <1>5
    <2>. QED
      BY <1>1, <1>2, <1>5, <2>1, <2>2 DEF HandlersTypeOK
  <1>8. JobsMatch'
    BY <1>1, <1>5, <1>6 DEF LockInv, JobsMatch
  <1>9. LocksFollowLines'
    <2>1. line[w] \in 1..Len(Lines[o]) + 1 /\ locked[w] = {Lines[o][k] : k \in 1..line[w] - 1}
      <3>1. Len(Lines[o]) \in Nat /\ line[w] - 1 = 0
        BY <1>2, <1>6
      <3>. QED
        BY <1>6, <3>1
    <2>2. \A v \in Replica \ {w} : Looping(v)' = Looping(v)
      BY <1>5 DEF Looping
    <2>3. ASSUME NEW v \in Replica
          PROVE  /\ Looping(v)' => /\ line'[v] \in 1..Len(Lines[OrderOf(v)']) + 1
                                   /\ locked'[v] = {Lines[OrderOf(v)'][k] : k \in 1..line'[v] - 1}
                 /\ ~Looping(v)' => locked'[v] = {}
      <3>1. CASE v = w
        BY <1>1, <1>5, <1>6, <2>1, <3>1 DEF o
      <3>2. CASE v # w
        <4>1. Looping(v)' = Looping(v) /\ OrderOf(v)' = OrderOf(v)
          BY <1>5, <2>2, <3>2
        <4>2. line'[v] = line[v] /\ locked'[v] = locked[v]
          BY <1>1
        <4>. QED
          BY <4>1, <4>2 DEF LockInv, LocksFollowLines
      <3>. QED
        BY <3>1, <3>2
    <2>. QED
      BY <2>3 DEF LocksFollowLines
  <1>10. DraftsAreCurrent'
    BY <1>1, <1>5, <1>6 DEF LockInv, DraftsAreCurrent, vars
  <1>11. ReadStaysTrue'
    <2>1. phase'[w] = "releasing" => reservations[o] = [held |-> TRUE, items |-> basket'[w]]
      BY <1>4, <1>5
    <2>2. \A v \in Replica \ {w} : phase'[v] = "releasing" =>
              \/ reservations[OrderOf(v)] = [held |-> TRUE, items |-> basket'[v]]
              \/ job[v].id \in processed
      BY <1>5 DEF LockInv, ReadStaysTrue
    <2>3. UNCHANGED <<job, reservations, processed>>
      BY <1>1 DEF vars
    <2>. SUFFICES ASSUME NEW v \in Replica, phase'[v] = "releasing"
                  PROVE  \/ reservations[OrderOf(v)] = [held |-> TRUE, items |-> basket'[v]]
                         \/ job[v].id \in processed
      BY <1>5, <2>3 DEF ReadStaysTrue
    <2>4. CASE v = w
      BY <2>1, <2>4 DEF o
    <2>5. CASE v # w
      BY <2>2, <2>5
    <2>. QED
      BY <2>4, <2>5
  <1>12. ReservationsFitLines' /\ IInv'
    BY <1>1, TablesStay DEF LockInv, ReservationsFitLines, Held, vars
  <1>. QED
    BY <1>7, <1>8, <1>9, <1>10, <1>11, <1>12 DEF LockInv

-----------------------------------------------------------------------------
(* Commits *)

\* What nobody else has locked is all that a commit changes.
LEMMA ApplyOwn ==
    ASSUME LockInv, NEW w \in Replica, Apply(w)
    PROVE  \A v \in Replica \ {w} : \A i \in locked[v] : stock'[i] = stock[i]
  <1>1. \A v \in Replica \ {w} : \A i \in locked[v] : i \in Item /\ i \notin locked[w]
    BY DEF LockInv, HandlersTypeOK, DraftsAreCurrent
  <1>. QED
    BY <1>1 DEF Apply

\* At the end of its loop a handler has locked every item of its basket.
LEMMA AllLocked ==
    ASSUME LockInv, NEW w \in Replica, Looping(w), LoopOver(w)
    PROVE  locked[w] = {Lines[OrderOf(w)][k] : k \in DOMAIN Lines[OrderOf(w)]}
  <1>1. /\ line[w] \in 1..Len(Lines[OrderOf(w)]) + 1
        /\ locked[w] = {Lines[OrderOf(w)][k] : k \in 1..line[w] - 1}
    BY DEF LockInv, LocksFollowLines
  <1>2. Lines[OrderOf(w)] \in Seq(Item)
    BY JobOf DEF Looping
  <1>3. line[w] = Len(Lines[OrderOf(w)]) + 1
    BY <1>1, <1>2 DEF LoopOver
  <1>. QED
    BY <1>1, <1>2, <1>3

LEMMA PlacedOnLines ==
    ASSUME NEW e \in Delivery, e.type = "order.placed",
           NEW i \in Item, e.payload.items[i] > 0
    PROVE  \E k \in DOMAIN Lines[e.payload.order] : Lines[e.payload.order][k] = i
  BY LinesAssumption

\* A reservation that commits is the one that RestaurantService makes of the
\* event in one step.
LEMMA ReservedIsSerial ==
    ASSUME LockInv, NEW w \in Replica, CommitReserved(w)
    PROVE  PlacedReserved(job[w])
  <1>. DEFINE e == job[w]
              o == OrderOf(w)
  <1>1. /\ phase[w] = "reserving" /\ Looping(w) /\ LoopOver(w) /\ ~Held(o)
        /\ MarkProcessed(e) /\ Apply(w)
        /\ reservations' = [reservations EXCEPT ![o] = [held |-> TRUE, items |-> basket[w]]]
        /\ outbox' = Emit(outbox, "stock.reserved", e.payload)
    BY DEF CommitReserved, Looping
  <1>2. e.type = "order.placed" /\ basket[w] = e.payload.items /\ o = e.payload.order
    BY <1>1 DEF LockInv, JobsMatch, OrderOf
  <1>3. e \in Delivery /\ basket[w] \in [Item -> Nat] /\ stock \in [Item -> Nat]
    BY <1>1, JobOf DEF LockInv, IInv, TypeOK
  <1>4. \A i \in Item \ locked[w] : basket[w][i] = 0
    <2>. SUFFICES ASSUME NEW i \in Item, basket[w][i] # 0
                  PROVE  i \in locked[w]
      OBVIOUS
    <2>1. e.payload.items[i] > 0
      BY <1>2, <1>3
    <2>2. \E k \in DOMAIN Lines[o] : Lines[o][k] = i
      <3>. HIDE DEF e, o
      <3>1. \E k \in DOMAIN Lines[e.payload.order] : Lines[e.payload.order][k] = i
        BY ONLY <1>2, <1>3, <2>1, PlacedOnLines, i \in Item
      <3>. QED
        BY <1>2, <3>1
    <2>. QED
      BY <1>1, <2>2, AllLocked
  <1>5. \A i \in locked[w] : draft[w][i] \in Nat /\ draft[w][i] + basket[w][i] = stock[i]
    BY <1>1 DEF LockInv, DraftsAreCurrent, HandlersTypeOK
  <1>6. \A i \in Item :
            /\ basket[w][i] <= stock[i]
            /\ stock[i] - basket[w][i] = IF i \in locked[w] THEN draft[w][i] ELSE stock[i]
    BY <1>3, <1>4, <1>5
  <1>7. stock' = [i \in Item |-> stock[i] - basket[w][i]]
    BY <1>1, <1>6 DEF Apply
  <1>. QED
    BY <1>1, <1>2, <1>6, <1>7 DEF PlacedReserved, Reserve, Sufficient

\* And so is a release, because what it read is still true.
LEMMA ReleasedIsSerial ==
    ASSUME LockInv, NEW w \in Replica, CommitReleased(w)
    PROVE  /\ ReleaseOrdered(job[w])
           /\ reservations[OrderOf(w)] = [held |-> TRUE, items |-> basket[w]]
  <1>. DEFINE e == job[w]
              o == OrderOf(w)
  <1>1. /\ phase[w] = "releasing" /\ Looping(w) /\ LoopOver(w)
        /\ MarkProcessed(e) /\ Apply(w) /\ outbox' = outbox
        /\ reservations' = [reservations EXCEPT ![o] = NoReservation]
    BY DEF CommitReleased, Looping
  <1>2. e.type = "stock.release" /\ o = e.payload.order /\ o \in Order
    BY <1>1, JobOf DEF LockInv, JobsMatch, OrderOf
  <1>3. basket[w] \in [Item -> Nat] /\ stock \in [Item -> Nat]
    BY <1>1, JobOf DEF LockInv, IInv, TypeOK
  <1>4. e.id \notin processed
    BY <1>1 DEF MarkProcessed
  <1>5. reservations[o] = [held |-> TRUE, items |-> basket[w]]
    BY <1>1, <1>4 DEF LockInv, ReadStaysTrue
  <1>6. Held(o) /\ reservations[o].items = basket[w]
    BY <1>5 DEF Held
  <1>7. \A i \in Item \ locked[w] : basket[w][i] = 0
    <2>. SUFFICES ASSUME NEW i \in Item, basket[w][i] # 0
                  PROVE  i \in locked[w]
      OBVIOUS
    <2>1. \E k \in DOMAIN Lines[o] : Lines[o][k] = i
      <3>1. reservations[o].items[i] > 0
        BY <1>3, <1>6
      <3>2. ReservationsFitLines
        BY DEF LockInv
      <3>. QED
        BY <1>2, <1>6, <3>1, <3>2 DEF ReservationsFitLines
    <2>. QED
      BY <1>1, <2>1, AllLocked
  <1>8. \A i \in locked[w] : draft[w][i] = stock[i] + basket[w][i]
    BY <1>1 DEF LockInv, DraftsAreCurrent
  <1>9. \A i \in Item :
            stock[i] + basket[w][i] = IF i \in locked[w] THEN draft[w][i] ELSE stock[i]
    BY <1>3, <1>7, <1>8
  <1>10. stock' = [i \in Item |-> stock[i] + reservations[o].items[i]]
    BY <1>1, <1>6, <1>9 DEF Apply
  <1>. QED
    BY <1>1, <1>2, <1>5, <1>6, <1>10 DEF ReleaseOrdered, Release

LEMMA CommitReservedKeeps ==
    ASSUME LockInv, NEW w \in Replica, CommitReserved(w)
    PROVE  LockInv' /\ MovesWithOne
  <1>. DEFINE o == OrderOf(w)
  <1>1. /\ phase[w] = "reserving" /\ ~Held(o) /\ Apply(w) /\ End(w)
        /\ processed \subseteq processed'
        /\ reservations' = [reservations EXCEPT ![o] = [held |-> TRUE, items |-> basket[w]]]
    BY DEF CommitReserved, MarkProcessed
  <1>2. /\ job[w] \in Delivery /\ o \in Order /\ o = job[w].payload.order
        /\ job[w].type = "order.placed" /\ basket[w] = job[w].payload.items
    BY <1>1, JobOf DEF LockInv, JobsMatch, OrderOf
  <1>3. IInv' /\ MovesWithOne
    BY <1>2, ReservedIsSerial, PlacedReservedKeepsIInv DEF LockInv
  <1>. HIDE DEF o
  <1>4. /\ reservations'[o] = [held |-> TRUE, items |-> basket[w]]
        /\ \A p \in Order \ {o} : reservations'[p] = reservations[p]
    BY <1>1, <1>2 DEF LockInv, IInv, TypeOK
  <1>5. ReservationsFitLines'
    <2>. SUFFICES ASSUME NEW p \in Order, Held(p)', NEW i \in Item, reservations'[p].items[i] > 0
                  PROVE  \E k \in DOMAIN Lines[p] : Lines[p][k] = i
      BY DEF ReservationsFitLines
    <2>1. CASE p = o
      BY <1>2, <1>4, <2>1, PlacedOnLines
    <2>2. CASE p # o
      BY <1>4, <2>2 DEF LockInv, ReservationsFitLines, Held
    <2>. QED
      BY <2>1, <2>2
  <1>6. ASSUME NEW v \in Replica \ {w}, phase[v] = "releasing"
        PROVE  \/ reservations'[OrderOf(v)] = reservations[OrderOf(v)]
               \/ job[v].id \in processed'
    <2>1. OrderOf(v) \in Order
      BY <1>6, JobOf
    <2>2. reservations[OrderOf(v)] = [held |-> TRUE, items |-> basket[v]] \/ job[v].id \in processed
      BY <1>6 DEF LockInv, ReadStaysTrue
    <2>3. CASE OrderOf(v) = o
      BY <1>1, <2>2, <2>3 DEF Held, o
    <2>4. CASE OrderOf(v) # o
      BY <1>4, <2>1, <2>4
    <2>. QED
      BY <2>3, <2>4
  <1>. QED
    BY <1>1, <1>3, <1>5, <1>6, ApplyOwn, EndKeeps

LEMMA OneRelease ==
    ASSUME NEW d \in Delivery, NEW e \in Delivery,
           d.type = "stock.release", e.type = "stock.release",
           d.payload.order = e.payload.order
    PROVE  d = e
  BY ReleaseAssumption

\* Two releases of one order are the same event, so the reader that comes late
\* finds its event processed.
LEMMA CommitReleasedKeeps ==
    ASSUME LockInv, NEW w \in Replica, CommitReleased(w)
    PROVE  LockInv' /\ MovesWithOne
  <1>. DEFINE o == OrderOf(w)
  <1>1. /\ phase[w] = "releasing" /\ Apply(w) /\ End(w)
        /\ processed' = processed \cup {job[w].id}
        /\ reservations' = [reservations EXCEPT ![o] = NoReservation]
    BY DEF CommitReleased, MarkProcessed
  <1>2. /\ job[w] \in Delivery /\ o \in Order /\ o = job[w].payload.order
        /\ job[w].type = "stock.release"
    BY <1>1, JobOf DEF LockInv, JobsMatch, OrderOf
  <1>3. IInv' /\ MovesWithOne
    BY <1>2, ReleasedIsSerial, ReleaseOrderedKeepsIInv DEF LockInv
  <1>. HIDE DEF o
  <1>4. /\ reservations'[o] = NoReservation
        /\ \A p \in Order \ {o} : reservations'[p] = reservations[p]
    BY <1>1, <1>2 DEF LockInv, IInv, TypeOK
  <1>5. ReservationsFitLines'
    <2>. SUFFICES ASSUME NEW p \in Order, Held(p)', NEW i \in Item, reservations'[p].items[i] > 0
                  PROVE  \E k \in DOMAIN Lines[p] : Lines[p][k] = i
      BY DEF ReservationsFitLines
    <2>1. p # o
      BY <1>4 DEF Held, NoReservation
    <2>. QED
      BY <1>4, <2>1 DEF LockInv, ReservationsFitLines, Held
  <1>6. ASSUME NEW v \in Replica \ {w}, phase[v] = "releasing"
        PROVE  \/ reservations'[OrderOf(v)] = reservations[OrderOf(v)]
               \/ job[v].id \in processed'
    <2>1. /\ OrderOf(v) \in Order /\ job[v] \in Delivery
          /\ OrderOf(v) = job[v].payload.order /\ job[v].type = "stock.release"
      BY <1>6, JobOf DEF LockInv, JobsMatch, OrderOf
    <2>2. CASE OrderOf(v) = o
      <3>1. job[v].payload.order = job[w].payload.order
        BY <1>2, <2>1, <2>2
      <3>2. job[v] = job[w]
        BY <1>2, <2>1, <3>1, OneRelease
      <3>. QED
        BY <1>1, <3>2
    <2>3. CASE OrderOf(v) # o
      BY <1>4, <2>1, <2>3
    <2>. QED
      BY <2>2, <2>3
  <1>. QED
    BY <1>1, <1>3, <1>5, <1>6, ApplyOwn, EndKeeps

\* The commits that leave stock and reservations alone.
LEMMA CommitAsideKeeps ==
    ASSUME LockInv, NEW w \in Replica, CommitRejected(w) \/ CommitNoted(w)
    PROVE  LockInv' /\ MovesWithOne
  <1>. DEFINE o == OrderOf(w)
              said == WrapEvent("stock.rejected", Bare(o), outbox)
  <1>1. /\ phase[w] \in {"rejecting", "noting"} /\ End(w)
        /\ processed' = processed \cup {job[w].id}
        /\ UNCHANGED <<stock, reservations>>
        /\ outbox' = Append(outbox, said) \/ outbox' = outbox
    BY DEF CommitRejected, CommitNoted, MarkProcessed, Emit
  <1>2. IInv /\ o \in Order /\ job[w].id \in EventId
    BY <1>1, JobOf DEF LockInv
  <1>3. outbox \in Seq(Event)
    BY <1>2 DEF IInv, TypeOK
  <1>4. said \in Event
    <2>1. "stock.rejected" \in EventType \ FullTypes
      BY DEF EventType, RestaurantEvents, FullTypes
    <2>. QED
      BY <1>2, <1>3, <2>1, WrapBare
  <1>. HIDE DEF said, o
  <1>5. TypeOK'
    <2>1. outbox' \in Seq(Event)
      BY <1>1, <1>3, <1>4, AppendRow
    <2>. QED
      BY <1>1, <1>2, <2>1 DEF IInv, TypeOK
  <1>6. HeldIsAnnounced'
    BY <1>1, <1>2, <1>4, StaysAnnounced DEF HeldIsAnnounced
  <1>7. MovesWithOne
    BY <1>1, <1>2 DEF MovesWithOne, HeldOf, Held
  <1>8. ReservationsFitLines'
    BY <1>1 DEF LockInv, ReservationsFitLines, Held
  <1>9. LockInv'
    BY <1>1, <1>5, <1>6, <1>8, EndKeeps DEF IInv
  <1>. QED
    BY <1>7, <1>9

-----------------------------------------------------------------------------

\* What a step does to the tables: it is a handler of RestaurantService, or a
\* commit that stays aside.
SerialStep == Next \/ \E w \in Replica : CommitRejected(w) \/ CommitNoted(w)

LEMMA LockStep ==
    LockInv /\ [LockingNext]_lockingVars =>
        LockInv' /\ [MovesWithOne]_vars /\ [SerialStep]_vars
  <1>. SUFFICES ASSUME LockInv, [LockingNext]_lockingVars
                PROVE  LockInv' /\ [MovesWithOne]_vars /\ [SerialStep]_vars
    OBVIOUS
  <1>1. ASSUME NEW w \in Replica, NEW e \in Delivery, Begin(w, e)
        PROVE  LockInv' /\ UNCHANGED vars
    BY <1>1, BeginKeeps DEF Begin
  <1>2. ASSUME NEW w \in Replica, Statement(w)
        PROVE  LockInv' /\ [MovesWithOne]_vars /\ [SerialStep]_vars
    <2>1. CASE ReserveLine(w)
      BY <2>1, ReserveLineKeeps DEF ReserveLine, Take
    <2>2. CASE ReleaseLine(w)
      BY <2>2, ReleaseLineKeeps DEF ReleaseLine, Take
    <2>3. CASE ShortLine(w)
      BY <2>3, ShortLineKeeps DEF ShortLine
    <2>4. CASE ReadReservation(w)
      BY <2>4, ReadReservationKeeps DEF ReadReservation
    <2>5. CASE CommitReserved(w)
      <3>1. job[w] \in Delivery
        BY <2>5, JobOf DEF CommitReserved
      <3>. QED
        BY <2>5, <3>1, CommitReservedKeeps, ReservedIsSerial DEF SerialStep, Next, Handle
    <2>6. CASE CommitReleased(w)
      <3>1. job[w] \in Delivery
        BY <2>6, JobOf DEF CommitReleased
      <3>. QED
        BY <2>6, <3>1, CommitReleasedKeeps, ReleasedIsSerial DEF SerialStep, Next, Handle
    <2>7. CASE CommitRejected(w) \/ CommitNoted(w)
      BY <2>7, CommitAsideKeeps DEF SerialStep
    <2>8. CASE Conflict(w) \/ DeadlockVictim(w)
      BY <2>8, RollbackKeeps DEF Conflict, DeadlockVictim
    <2>. QED
      BY <1>2, <2>1, <2>2, <2>3, <2>4, <2>5, <2>6, <2>7, <2>8 DEF Statement, Commit
  <1>3. ASSUME NEW w \in Replica, Rollback(w)
        PROVE  LockInv' /\ UNCHANGED vars
    BY <1>3, RollbackKeeps DEF Rollback
  <1>4. CASE UNCHANGED lockingVars
    <2>1. UNCHANGED vars /\ UNCHANGED <<job, phase, basket, line, locked, draft>>
      BY <1>4 DEF lockingVars, txnVars
    <2>. QED
      BY <2>1, TablesStay DEF LockInv, HandlersTypeOK, JobsMatch, LocksFollowLines, Looping,
         DraftsAreCurrent, ReservationsFitLines, Held, ReadStaysTrue, OrderOf, vars
  <1>5. ASSUME NEW w \in Replica, NEW e \in Delivery, Skip(w, e)
        PROVE  UNCHANGED lockingVars
    BY <1>5 DEF Skip
  <1>. QED
    BY <1>1, <1>2, <1>3, <1>4, <1>5 DEF LockingNext

-----------------------------------------------------------------------------

\* The tables hold rows of their schema, no quantity is negative, however many
\* replicas overlap; a handler that is under way has an event and quantities, and
\* what it is about to write to menu_item_stock would pass its CHECK.
THEOREM LockingTypeCorrect == LockingSpec => []LockingTypeOK
  <1>1. LockInv => LockingTypeOK
    BY DEF LockInv, IInv, LockingTypeOK
  <1>. QED
    BY <1>1, LockInitially, LockStep, PTL DEF LockingSpec

\* Two-phase locking at work: whatever the replicas interleave, the tables see
\* one handler of RestaurantService after the other, but for rejections and
\* notes that are decided on an older snapshot.
THEOREM Serializable == LockingSpec => Init /\ [][SerialStep]_vars
  <1>1. LockingInit => Init
    BY DEF LockingInit
  <1>. QED
    BY <1>1, LockInitially, LockStep, PTL DEF LockingSpec

\* No deduction is lost and no row is sold twice, for any number of replicas.
THEOREM NoLostUpdate == LockingSpec => []DraftsAreCurrent
  <1>1. LockInv => DraftsAreCurrent
    BY DEF LockInv
  <1>. QED
    BY <1>1, LockInitially, LockStep, PTL DEF LockingSpec

\* A release gives back what is still reserved, although it reads without a
\* lock, or does not commit.
THEOREM UnlockedReadIsSafe == LockingSpec => []ReadStaysTrue
  <1>1. LockInv => ReadStaysTrue
    BY DEF LockInv
  <1>. QED
    BY <1>1, LockInitially, LockStep, PTL DEF LockingSpec

\* The promise of a reservation's event survives the interleaving.
THEOREM LockingAnnounces == LockingSpec => []HeldIsAnnounced
  <1>1. LockInv => HeldIsAnnounced
    BY DEF LockInv, IInv
  <1>. QED
    BY <1>1, LockInitially, LockStep, PTL DEF LockingSpec

\* Stock moves between the menu and one reservation at a time here too.
THEOREM LockingMovesStock == LockingSpec => StockMovesWithOneReservation
  <1>. QED
    BY LockInitially, LockStep, PTL DEF LockingSpec, StockMovesWithOneReservation, MovesWithOne

\* And so it adds up: stock and reservations are together what was seeded, for
\* any number of replicas, rollbacks and deadlock victims.
THEOREM LockingConservesStock == LockingSpec => []StockConserved
  <1>1. LockInv => TypeOK
    BY DEF LockInv, IInv
  <1>2. StockConserved /\ TypeOK /\ TypeOK' /\ [MovesWithOne]_vars => StockConserved'
    BY MovesConserve, RestConserves DEF vars
  <1>3. LockingInit => StockConserved
    BY NothingHeldFirst DEF LockingInit
  <1>. QED
    BY <1>1, <1>2, <1>3, LockInitially, LockStep, PTL DEF LockingSpec

\* v waits for a row on its list after the rows it has locked.
LEMMA LockedComesBefore ==
    ASSUME LockInv, NEW v \in Replica, AtLine(v), NEW i \in locked[v]
    PROVE  \E n \in DOMAIN Lines[OrderOf(v)] :
              n < line[v] /\ line[v] \in DOMAIN Lines[OrderOf(v)] /\ Lines[OrderOf(v)][n] = i
  <1>1. /\ Looping(v) /\ Lines[OrderOf(v)] \in Seq(Item)
        /\ line[v] \in 1..Len(Lines[OrderOf(v)])
    BY LineOf, JobOf
  <1>2. locked[v] = {Lines[OrderOf(v)][n] : n \in 1..line[v] - 1}
    BY <1>1 DEF LockInv, LocksFollowLines
  <1>3. PICK n \in 1..line[v] - 1 : Lines[OrderOf(v)][n] = i
    BY <1>2
  <1>. QED
    BY <1>1, <1>3

\* Handlers whose item lists are in the same order never wait for each other
\* in pairs.
THEOREM DeadlockIsOpposition == LockingSpec => []DeadlockNeedsOpposedLines
  <1>1. LockInv => DeadlockNeedsOpposedLines
    <2>. SUFFICES ASSUME LockInv, NEW v \in Replica, NEW w \in Replica,
                         WaitsFor(v, w), WaitsFor(w, v)
                  PROVE  \E i, k \in Item :
                            Precedes(OrderOf(v), i, k) /\ Precedes(OrderOf(w), k, i)
      BY DEF DeadlockNeedsOpposedLines
    <2>1. ASSUME NEW x \in Replica, NEW y \in Replica, WaitsFor(x, y), WaitsFor(y, x)
          PROVE  ItemAt(y) \in Item /\ Precedes(OrderOf(x), ItemAt(y), ItemAt(x))
      <3>1. /\ ItemAt(x) = Lines[OrderOf(x)][line[x]]
            /\ AtLine(x) /\ ItemAt(y) \in Item /\ ItemAt(y) \in locked[x]
        BY <2>1, LineOf DEF WaitsFor
      <3>. QED
        BY <3>1, LockedComesBefore DEF Precedes
    <2>. QED
      BY <2>1
  <1>. QED
    BY <1>1, LockInitially, LockStep, PTL DEF LockingSpec

\* The improvement README.md:151 asks for is enough: if every list names its
\* items in one order, whichever it is, no set of transactions of any size waits
\* in a cycle, and PostgreSQL has no victim to choose.  Of a cycle, the one that
\* waits for the least item would hold a lesser one.
THEOREM SortedLinesNeverDeadlock ==
    ASSUME NEW rank \in [Item -> Nat],
           \A o \in Order : \A j, k \in DOMAIN Lines[o] :
              j < k => rank[Lines[o][j]] < rank[Lines[o][k]]
    PROVE  LockingSpec => [](~\E S \in SUBSET Replica : WaitCycle(S))
  <1>1. LockInv => ~\E S \in SUBSET Replica : WaitCycle(S)
    <2>. SUFFICES ASSUME LockInv, NEW S \in SUBSET Replica, WaitCycle(S)
                  PROVE  FALSE
      OBVIOUS
    <2>1. ASSUME NEW v \in S
          PROVE  /\ ItemAt(v) \in Item
                 /\ \E w \in S : ItemAt(w) \in Item /\ rank[ItemAt(w)] < rank[ItemAt(v)]
      <3>1. AtLine(v)
        BY <2>1 DEF WaitCycle, WaitsFor
      <3>2. PICK w \in S : AtLine(w) /\ ItemAt(w) \in locked[v]
        BY <2>1 DEF WaitCycle, WaitsFor
      <3>3. ItemAt(w) \in Item /\ ItemAt(v) \in Item /\ ItemAt(v) = Lines[OrderOf(v)][line[v]]
        BY <3>1, <3>2, LineOf
      <3>4. PICK n \in DOMAIN Lines[OrderOf(v)] :
               /\ n < line[v] /\ line[v] \in DOMAIN Lines[OrderOf(v)]
               /\ Lines[OrderOf(v)][n] = ItemAt(w)
        BY <3>1, <3>2, LockedComesBefore
      <3>5. OrderOf(v) \in Order
        BY <3>1, LineOf, JobOf
      <3>6. rank[ItemAt(w)] < rank[ItemAt(v)]
        BY <3>3, <3>4, <3>5
      <3>. QED
        BY <3>3, <3>6
    <2>. DEFINE least(n) == \A v \in S : rank[ItemAt(v)] >= n
                D == {n \in Nat : least(n)}
    <2>2. 0 \in D
      BY <2>1
    <2>3. ASSUME NEW n \in Nat, n \in D PROVE n + 1 \in D
      <3>1. ASSUME NEW v \in S PROVE rank[ItemAt(v)] >= n + 1
        <4>1. PICK w \in S : ItemAt(w) \in Item /\ rank[ItemAt(w)] < rank[ItemAt(v)]
          BY <2>1
        <4>. QED
          BY <2>1, <2>3, <4>1
      <3>. QED
        BY <3>1
    <2>4. Nat \subseteq D
      <3>. HIDE DEF D
      <3>. QED
        BY <2>2, <2>3, NumberInduction
    <2>5. PICK v \in S : TRUE
      BY DEF WaitCycle
    <2>6. rank[ItemAt(v)] \in Nat /\ rank[ItemAt(v)] + 1 \in D
      BY <2>1, <2>4
    <2>. QED
      BY <2>5, <2>6
  <1>. QED
    BY <1>1, LockInitially, LockStep, PTL DEF LockingSpec

-----------------------------------------------------------------------------
(* Waiting comes to an end *)

\* w cannot go on: the row of its line is locked by another handler.
Blocked(w) == AtLine(w) /\ LockedByOther(w, ItemAt(w))

\* PostgreSQL may end w with an error, and go on with the others.
MayBeVictim(w) == \E S \in SUBSET Replica : w \in S /\ WaitCycle(S)

\* As long as a handler is under way, one of them can execute its next statement
\* or be picked as a victim.
SomeoneGoesOn ==
    (\E w \in Replica : phase[w] # "idle") =>
        \E w \in Replica : phase[w] # "idle" /\ (~Blocked(w) \/ MayBeVictim(w))

\* Where everyone waits for someone, some wait in a cycle: leave out whoever
\* nobody waits for, one after the other.
LEMMA WaitersMeetInACycle ==
    ASSUME IsFiniteSet(Replica), NEW W \in SUBSET Replica, W # {},
           \A w \in W : \E v \in W : WaitsFor(w, v)
    PROVE  \E S \in SUBSET W : WaitCycle(S)
  <1>. DEFINE waiting(s) == s # {} /\ \A w \in s : \E v \in s : WaitsFor(w, v)
              D == {s \in SUBSET Replica : waiting(s) => \E S \in SUBSET s : WaitCycle(S)}
  <1>1. ASSUME NEW s \in SUBSET Replica, \A x \in s : s \ {x} \in D
        PROVE  s \in D
    <2>. SUFFICES ASSUME waiting(s) PROVE \E S \in SUBSET s : WaitCycle(S)
      OBVIOUS
    <2>1. CASE \A v \in s : \E w \in s : WaitsFor(w, v)
      BY <2>1 DEF WaitCycle
    <2>2. ASSUME NEW x \in s, \A w \in s : ~WaitsFor(w, x)
          PROVE  \E S \in SUBSET s : WaitCycle(S)
      <3>1. waiting(s \ {x})
        BY <2>2
      <3>2. \E S \in SUBSET (s \ {x}) : WaitCycle(S)
        BY <1>1, <3>1
      <3>. QED
        BY <3>2
    <2>. QED
      BY <2>1, <2>2
  <1>2. SUBSET Replica \subseteq D
    <2>. HIDE DEF D
    <2>. QED
      BY <1>1, SubsetInduction
  <1>. QED
    BY <1>2

\* No deadlock goes unnoticed: any number of replicas that all wait have a cycle
\* among them, which PostgreSQL detects, so the handlers never stop for good.
THEOREM NoSilentDeadlock ==
    ASSUME IsFiniteSet(Replica)
    PROVE  LockingSpec => []SomeoneGoesOn
  <1>1. LockInv => SomeoneGoesOn
    <2>. SUFFICES ASSUME LockInv, \E w \in Replica : phase[w] # "idle",
                         \A w \in Replica : phase[w] # "idle" => Blocked(w)
                  PROVE  \E w \in Replica : phase[w] # "idle" /\ MayBeVictim(w)
      BY DEF SomeoneGoesOn
    <2>. DEFINE W == {w \in Replica : phase[w] # "idle"}
    <2>1. ASSUME NEW w \in W PROVE \E v \in W : WaitsFor(w, v)
      <3>1. AtLine(w) /\ LockedByOther(w, ItemAt(w))
        BY <2>1 DEF Blocked
      <3>2. PICK v \in Replica : v # w /\ ItemAt(w) \in locked[v]
        BY <3>1 DEF LockedByOther
      <3>3. Looping(v)
        BY <3>2 DEF LockInv, LocksFollowLines
      <3>. QED
        BY <3>1, <3>2, <3>3 DEF Looping, WaitsFor
    <2>2. W # {} /\ W \in SUBSET Replica
      OBVIOUS
    <2>. HIDE DEF W
    <2>3. PICK S \in SUBSET W : WaitCycle(S)
      BY <2>1, <2>2, WaitersMeetInACycle
    <2>4. PICK w : w \in S
      BY <2>3 DEF WaitCycle
    <2>5. MayBeVictim(w) /\ w \in W
      BY <2>2, <2>3, <2>4 DEF MayBeVictim
    <2>. QED
      BY <2>5 DEF W
  <1>. QED
    BY <1>1, LockInitially, LockStep, PTL DEF LockingSpec

=============================================================================
