----------------------- MODULE RestaurantServiceProofs -----------------------
(***************************************************************************)
(* The restaurant service keeps its books for any menu, any seed and any   *)
(* set of delivered events: whatever arrives, in whatever order, however   *)
(* often.                                                                  *)
(***************************************************************************)
EXTENDS RestaurantService, EventLemmas, FiniteSetTheorems, WellFoundedInduction

\* The inductive invariant.
IInv ==
    /\ TypeOK
    /\ HeldIsAnnounced

\* What a step does to the stock, in the words of StockMovesWithOneReservation.
MovesWithOne ==
    \E o \in Order :
        /\ \A p \in Order \ {o} : reservations'[p] = reservations[p]
        /\ \A i \in Item : stock'[i] + HeldOf(o, i)' = stock[i] + HeldOf(o, i)

USE DeliveryAssumption, StockAssumption

-----------------------------------------------------------------------------
(* Sums over a finite set, as MapThenSumSet folds them *)

\* Induction, for a set of numbers.
LEMMA NumberInduction ==
    ASSUME NEW D, 0 \in D, \A n \in Nat : n \in D => n + 1 \in D
    PROVE  Nat \subseteq D
  <1>. DEFINE below == {m \in Nat \X Nat : m[1] < m[2]}
  <1>. SUFFICES ASSUME Nat \ D # {} PROVE FALSE
    OBVIOUS
  <1>1. IsWellFoundedOn(below, Nat)
    BY NatLessThanWellFounded DEF OpToRel
  <1>2. PICK n \in Nat \ D : \A m \in Nat \ D : ~(<<m, n>> \in below)
    <2>. HIDE DEF below
    <2>. QED
      BY <1>1, WFMin
  <1>3. n - 1 \in Nat /\ n - 1 < n /\ (n - 1) + 1 = n
    OBVIOUS
  <1>4. <<n - 1, n>> \in below
    BY <1>3
  <1>5. n - 1 \in D
    <2>. HIDE DEF below
    <2>. QED
      BY <1>2, <1>3, <1>4
  <1>. QED
    BY <1>3, <1>5

\* The element a fold takes first.
Pick(s) == CHOOSE x \in s : TRUE
\* g adds up f over the subsets of S, an element at a time.
IsSum(g, f, S) == g = [s \in SUBSET S |-> IF s = {} THEN 0 ELSE f[Pick(s)] + g[s \ {Pick(s)}]]

\* Induction over the subsets of a finite set, one element smaller at a time.
LEMMA SubsetInduction ==
    ASSUME NEW S, IsFiniteSet(S), NEW D,
           \A s \in SUBSET S : (\A x \in s : s \ {x} \in D) => s \in D
    PROVE  SUBSET S \subseteq D
  <1>. DEFINE sized(n) == \A s \in SUBSET S : Cardinality(s) <= n => s \in D
              E == {n \in Nat : sized(n)}
  <1>1. \A s \in SUBSET S : IsFiniteSet(s) /\ Cardinality(s) \in Nat
    BY FS_Subset, FS_CardinalityType
  <1>2. \A s \in SUBSET S : \A x \in s :
           s \ {x} \in SUBSET S /\ Cardinality(s \ {x}) = Cardinality(s) - 1
    BY <1>1, FS_RemoveElement
  <1>3. 0 \in E
    <2>1. \A s \in SUBSET S : Cardinality(s) <= 0 => s = {}
      BY <1>1, FS_EmptySet
    <2>. QED
      BY <2>1
  <1>4. ASSUME NEW n \in Nat, n \in E PROVE n + 1 \in E
    <2>. SUFFICES ASSUME NEW s \in SUBSET S, Cardinality(s) <= n + 1 PROVE s \in D
      OBVIOUS
    <2>1. \A x \in s : s \ {x} \in D
      BY <1>1, <1>2, <1>4
    <2>. QED
      BY <2>1
  <1>5. Nat \subseteq E
    <2>. HIDE DEF E
    <2>. QED
      BY <1>3, <1>4, NumberInduction
  <1>. QED
    BY <1>1, <1>5

\* The recursion of a fold has a solution.
LEMMA SumExists ==
    ASSUME NEW S, IsFiniteSet(S), NEW f
    PROVE  \E g : IsSum(g, f, S)
  <1>. DEFINE small(n) == {s \in SUBSET S : Cardinality(s) <= n}
              sums(g, n) == g = [s \in small(n) |-> IF s = {} THEN 0 ELSE f[Pick(s)] + g[s \ {Pick(s)}]]
              E == {n \in Nat : \E g : sums(g, n)}
  <1>1. \A s \in SUBSET S : IsFiniteSet(s) /\ Cardinality(s) \in Nat /\ Cardinality(s) <= Cardinality(S)
    BY FS_Subset, FS_CardinalityType
  <1>2. \A s \in SUBSET S : s # {} =>
           /\ Pick(s) \in s /\ s \ {Pick(s)} \in SUBSET S
           /\ Cardinality(s \ {Pick(s)}) = Cardinality(s) - 1
    BY <1>1, FS_RemoveElement DEF Pick
  <1>3. 0 \in E
    <2>1. \A s \in small(0) : s = {}
      BY <1>1, FS_EmptySet
    <2>2. sums([s \in small(0) |-> 0], 0)
      BY <2>1
    <2>. QED
      BY <2>2
  <1>4. ASSUME NEW n \in Nat, n \in E PROVE n + 1 \in E
    <2>1. PICK g : sums(g, n)
      BY <1>4
    <2>. DEFINE h == [s \in small(n + 1) |-> IF s = {} THEN 0 ELSE f[Pick(s)] + g[s \ {Pick(s)}]]
    <2>2. \A s \in small(n) : s \in small(n + 1)
      BY <1>1
    <2>3. \A s \in small(n) : h[s] = g[s]
      BY <2>1, <2>2
    <2>4. \A s \in small(n + 1) : s # {} => s \ {Pick(s)} \in small(n)
      BY <1>1, <1>2
    <2>5. \A s \in small(n + 1) :
             h[s] = IF s = {} THEN 0 ELSE f[Pick(s)] + h[s \ {Pick(s)}]
      BY <2>3, <2>4
    <2>6. sums(h, n + 1)
      BY <2>5
    <2>7. \E k : sums(k, n + 1)
      BY <2>6
    <2>. HIDE DEF sums
    <2>. QED
      BY <2>7
  <1>5. Nat \subseteq E
    <2>. HIDE DEF E
    <2>. QED
      BY <1>3, <1>4, NumberInduction
  <1>6. small(Cardinality(S)) = SUBSET S
    BY <1>1
  <1>7. PICK g : sums(g, Cardinality(S))
    BY <1>1, <1>5
  <1>. QED
    BY <1>6, <1>7 DEF IsSum

\* A sum of naturals is one, and a sum of zeros is zero.
LEMMA SumTyped ==
    ASSUME NEW S, IsFiniteSet(S), NEW f, \A x \in S : f[x] \in Nat, NEW g, IsSum(g, f, S)
    PROVE  /\ \A s \in SUBSET S : g[s] \in Nat
           /\ (\A x \in S : f[x] = 0) => g[S] = 0
  <1>. DEFINE D == {s \in SUBSET S : g[s] \in Nat /\ ((\A x \in S : f[x] = 0) => g[s] = 0)}
  <1>1. ASSUME NEW s \in SUBSET S, \A x \in s : s \ {x} \in D PROVE s \in D
    <2>1. CASE s = {}
      BY <2>1 DEF IsSum
    <2>2. CASE s # {}
      <3>1. Pick(s) \in s
        BY <2>2 DEF Pick
      <3>2. g[s] = f[Pick(s)] + g[s \ {Pick(s)}]
        BY <2>2 DEF IsSum
      <3>. QED
        BY <1>1, <3>1, <3>2
    <2>. QED
      BY <2>1, <2>2
  <1>2. SUBSET S \subseteq D
    <2>. HIDE DEF D
    <2>. QED
      BY <1>1, SubsetInduction
  <1>. QED
    BY <1>2

\* When one summand changes, the sum changes by as much.
LEMMA SumMoves ==
    ASSUME NEW S, IsFiniteSet(S), NEW f, NEW g, IsSum(g, f, S), NEW k, NEW h, IsSum(h, k, S),
           \A x \in S : f[x] \in Nat /\ k[x] \in Nat,
           NEW o \in S, \A x \in S \ {o} : k[x] = f[x]
    PROVE  h[S] + f[o] = g[S] + k[o]
  <1>. DEFINE D == {s \in SUBSET S : IF o \in s THEN h[s] + f[o] = g[s] + k[o] ELSE h[s] = g[s]}
  <1>1. \A s \in SUBSET S : g[s] \in Nat /\ h[s] \in Nat
    BY SumTyped
  <1>2. ASSUME NEW s \in SUBSET S, \A x \in s : s \ {x} \in D PROVE s \in D
    <2>1. CASE s = {}
      BY <2>1 DEF IsSum
    <2>2. CASE s # {}
      <3>1. Pick(s) \in s /\ s \ {Pick(s)} \in D /\ s \ {Pick(s)} \in SUBSET S /\ Pick(s) \in S
        BY <1>2, <2>2 DEF Pick
      <3>2. g[s] = f[Pick(s)] + g[s \ {Pick(s)}] /\ h[s] = k[Pick(s)] + h[s \ {Pick(s)}]
        BY <2>2 DEF IsSum
      <3>3. CASE Pick(s) = o
        <4>1. h[s \ {o}] = g[s \ {o}]
          BY <3>1, <3>3
        <4>. QED
          BY <1>1, <3>1, <3>2, <3>3, <4>1
      <3>4. CASE Pick(s) # o
        <4>1. k[Pick(s)] = f[Pick(s)]
          BY <3>1, <3>4
        <4>2. o \in s <=> o \in s \ {Pick(s)}
          BY <3>4
        <4>. HIDE DEF Pick
        <4>. QED
          BY <1>1, <3>1, <3>2, <3>4, <4>1, <4>2
      <3>. QED
        BY <3>3, <3>4
    <2>. QED
      BY <2>1, <2>2
  <1>3. SUBSET S \subseteq D
    <2>. HIDE DEF D
    <2>. QED
      BY <1>2, SubsetInduction
  <1>. QED
    BY <1>3
-----------------------------------------------------------------------------

LEMMA RowOf ==
    ASSUME TypeOK, NEW o \in Order
    PROVE  /\ Held(o) \in BOOLEAN
           /\ Held(o) => reservations[o] \in ReservationRow /\ reservations[o].items \in Basket
           /\ ~Held(o) => reservations[o] = NoReservation
           /\ \A i \in Item : HeldOf(o, i) \in Nat
  <1>1. reservations[o] \in ReservationRow \/ reservations[o] = NoReservation
    BY DEF TypeOK
  <1>2. CASE reservations[o] \in ReservationRow
    BY <1>2 DEF Held, HeldOf, ReservationRow, Basket
  <1>3. CASE reservations[o] = NoReservation
    BY <1>3 DEF Held, HeldOf, NoReservation
  <1>. QED
    BY <1>1, <1>2, <1>3

\* reserve_stock: no quantity becomes negative, and what is deducted is held.
LEMMA ReserveEffect ==
    ASSUME TypeOK, NEW o \in Order, NEW basket \in Basket, Reserve(o, basket)
    PROVE  /\ stock' \in [Item -> Nat]
           /\ reservations' \in [Order -> ReservationRow \cup {NoReservation}]
           /\ reservations'[o] = [held |-> TRUE, items |-> basket]
           /\ \A p \in Order \ {o} : reservations'[p] = reservations[p]
           /\ \A i \in Item : stock'[i] + HeldOf(o, i)' = stock[i] + HeldOf(o, i)
  <1>1. /\ stock' = [i \in Item |-> stock[i] - basket[i]]
        /\ \A i \in Item : basket[i] <= stock[i]
        /\ reservations' = [reservations EXCEPT ![o] = [held |-> TRUE, items |-> basket]]
        /\ ~Held(o)
    BY DEF Reserve, Sufficient
  <1>2. \A i \in Item : stock[i] \in Nat /\ basket[i] \in Nat
    BY DEF TypeOK, Basket
  <1>3. \A i \in Item : stock'[i] \in Nat /\ stock'[i] + basket[i] = stock[i]
    BY <1>1, <1>2
  <1>4. stock' \in [Item -> Nat]
    BY <1>1, <1>3
  <1>5. [held |-> TRUE, items |-> basket] \in ReservationRow
    BY DEF ReservationRow
  <1>6. /\ reservations' \in [Order -> ReservationRow \cup {NoReservation}]
        /\ reservations'[o] = [held |-> TRUE, items |-> basket]
        /\ \A p \in Order \ {o} : reservations'[p] = reservations[p]
    BY <1>1, <1>5 DEF TypeOK
  <1>7. \A i \in Item : HeldOf(o, i) = 0 /\ HeldOf(o, i)' = basket[i]
    BY <1>1, <1>6 DEF HeldOf, Held
  <1>8. \A i \in Item : stock'[i] + HeldOf(o, i)' = stock[i] + HeldOf(o, i)
    BY <1>2, <1>3, <1>7
  <1>. QED
    BY <1>4, <1>6, <1>8

\* release_stock: the reservation is gone and its stock is back.
LEMMA ReleaseEffect ==
    ASSUME TypeOK, NEW o \in Order, Release(o)
    PROVE  /\ stock' \in [Item -> Nat]
           /\ reservations' \in [Order -> ReservationRow \cup {NoReservation}]
           /\ reservations'[o] = NoReservation
           /\ \A p \in Order \ {o} : reservations'[p] = reservations[p]
           /\ \A i \in Item : stock'[i] + HeldOf(o, i)' = stock[i] + HeldOf(o, i)
  <1>1. \A i \in Item : stock[i] \in Nat /\ HeldOf(o, i) \in Nat
    BY RowOf DEF TypeOK
  <1>2. \A i \in Item : stock'[i] = stock[i] + HeldOf(o, i)
    <2>1. CASE Held(o)
      BY <2>1 DEF Release, HeldOf
    <2>2. CASE ~Held(o)
      BY <1>1, <2>2 DEF Release, HeldOf
    <2>. QED
      BY <2>1, <2>2
  <1>3. stock' \in [Item -> Nat]
    <2>1. CASE Held(o)
      BY <1>1, <2>1 DEF Release, HeldOf
    <2>2. CASE ~Held(o)
      BY <2>2 DEF Release, TypeOK
    <2>. QED
      BY <2>1, <2>2
  <1>4. /\ reservations' \in [Order -> ReservationRow \cup {NoReservation}]
        /\ reservations'[o] = NoReservation
        /\ \A p \in Order \ {o} : reservations'[p] = reservations[p]
    BY DEF Release, TypeOK
  <1>5. \A i \in Item : HeldOf(o, i)' = 0
    BY <1>4 DEF HeldOf, Held, NoReservation
  <1>6. \A i \in Item : stock'[i] + HeldOf(o, i)' = stock[i] + HeldOf(o, i)
    BY <1>1, <1>2, <1>5
  <1>. QED
    BY <1>3, <1>4, <1>6

-----------------------------------------------------------------------------
(* One lemma per handler that changes something *)

\* What has been announced stays announced, for every reservation a step keeps.
LEMMA StaysAnnounced ==
    ASSUME IInv, NEW e \in Event, outbox' = Append(outbox, e) \/ outbox' = outbox,
           NEW p \in Order, reservations'[p] = reservations[p], Held(p)'
    PROVE  \E i \in Rows(outbox', "stock.reserved", p) :
              outbox'[i].payload.items = reservations'[p].items
  <1>1. Held(p)
    BY DEF Held
  <1>2. PICK i \in Rows(outbox, "stock.reserved", p) :
              outbox[i].payload.items = reservations[p].items
    BY <1>1 DEF IInv, HeldIsAnnounced
  <1>3. outbox \in Seq(Event)
    BY DEF IInv, TypeOK
  <1>4. i \in DOMAIN outbox
    BY <1>2 DEF Rows
  <1>5. i \in DOMAIN outbox' /\ outbox'[i] = outbox[i]
    BY <1>3, <1>4, AppendRow
  <1>6. i \in Rows(outbox', "stock.reserved", p)
    BY <1>2, <1>5 DEF Rows
  <1>. QED
    BY <1>2, <1>5, <1>6

LEMMA PlacedReservedKeepsIInv ==
    ASSUME IInv, NEW e \in Delivery, PlacedReserved(e)
    PROVE  IInv' /\ MovesWithOne
  <1>. DEFINE o == e.payload.order
              said == WrapEvent("stock.reserved", e.payload, outbox)
  <1>1. TypeOK /\ e \in Event /\ e.type = "order.placed"
    BY DEF IInv, PlacedReserved
  <1>2. o \in Order /\ e.id \in EventId /\ e.payload \in FullPayload
    BY <1>1, EventParts DEF FullTypes
  <1>3. e.payload.items \in Basket
    BY <1>2 DEF FullPayload
  <1>4. Reserve(o, e.payload.items)
    BY DEF PlacedReserved
  <1>5. /\ stock' \in [Item -> Nat]
        /\ reservations' \in [Order -> ReservationRow \cup {NoReservation}]
        /\ reservations'[o] = [held |-> TRUE, items |-> e.payload.items]
        /\ \A p \in Order \ {o} : reservations'[p] = reservations[p]
        /\ \A i \in Item : stock'[i] + HeldOf(o, i)' = stock[i] + HeldOf(o, i)
    BY <1>1, <1>2, <1>3, <1>4, ReserveEffect
  <1>6. outbox \in Seq(Event) /\ outbox' = Append(outbox, said)
    BY <1>1 DEF TypeOK, PlacedReserved, Emit
  <1>7. said \in Event /\ said.type = "stock.reserved" /\ said.payload = e.payload
    BY <1>2, <1>6, WrapFull DEF FullTypes
  <1>. HIDE DEF said
  <1>8. TypeOK'
    <2>1. outbox' \in Seq(Event)
      BY <1>6, <1>7, AppendRow
    <2>2. processed' = processed \cup {e.id}
      BY DEF PlacedReserved, MarkProcessed
    <2>. QED
      BY <1>1, <1>2, <1>5, <2>1, <2>2 DEF TypeOK
  <1>9. HeldIsAnnounced'
    <2>. SUFFICES ASSUME NEW p \in Order, Held(p)'
                  PROVE  \E i \in Rows(outbox', "stock.reserved", p) :
                            outbox'[i].payload.items = reservations'[p].items
      BY DEF HeldIsAnnounced
    <2>1. CASE p = o
      <3>1. Len(outbox) + 1 \in Rows(outbox', "stock.reserved", o)
        BY <1>6, <1>7, RowsAppend
      <3>2. outbox'[Len(outbox) + 1] = said
        BY <1>6, <1>7, AppendRow
      <3>. QED
        BY <1>5, <1>7, <2>1, <3>1, <3>2
    <2>2. CASE p # o
      BY <1>5, <1>6, <1>7, <2>2, StaysAnnounced
    <2>. QED
      BY <2>1, <2>2
  <1>. QED
    BY <1>2, <1>5, <1>8, <1>9 DEF IInv, MovesWithOne

LEMMA PlacedRejectedKeepsIInv ==
    ASSUME IInv, NEW e \in Delivery, PlacedRejected(e)
    PROVE  IInv' /\ MovesWithOne
  <1>. DEFINE o == e.payload.order
              said == WrapEvent("stock.rejected", Bare(o), outbox)
  <1>1. TypeOK /\ o \in Order /\ e.id \in EventId
    BY EventParts DEF IInv
  <1>2. outbox \in Seq(Event) /\ outbox' = Append(outbox, said)
    BY <1>1 DEF TypeOK, PlacedRejected, Emit
  <1>3. said \in Event
    <2>1. "stock.rejected" \in EventType \ FullTypes
      BY DEF EventType, RestaurantEvents, FullTypes
    <2>. QED
      BY <1>1, <1>2, <2>1, WrapBare
  <1>. HIDE DEF said
  <1>4. UNCHANGED <<stock, reservations>>
    BY DEF PlacedRejected
  <1>5. TypeOK'
    <2>1. outbox' \in Seq(Event)
      BY <1>2, <1>3, AppendRow
    <2>2. processed' = processed \cup {e.id}
      BY DEF PlacedRejected, MarkProcessed
    <2>. QED
      BY <1>1, <1>4, <2>1, <2>2 DEF TypeOK
  <1>6. HeldIsAnnounced'
    BY <1>2, <1>3, <1>4, StaysAnnounced DEF HeldIsAnnounced
  <1>7. MovesWithOne
    BY <1>1, <1>4 DEF MovesWithOne, HeldOf, Held
  <1>. QED
    BY <1>5, <1>6, <1>7 DEF IInv

LEMMA ReleaseOrderedKeepsIInv ==
    ASSUME IInv, NEW e \in Delivery, ReleaseOrdered(e)
    PROVE  IInv' /\ MovesWithOne
  <1>. DEFINE o == e.payload.order
  <1>1. TypeOK /\ e \in Event /\ o \in Order /\ e.id \in EventId
    BY EventParts DEF IInv
  <1>2. Release(o) /\ outbox' = outbox
    BY DEF ReleaseOrdered
  <1>3. /\ stock' \in [Item -> Nat]
        /\ reservations' \in [Order -> ReservationRow \cup {NoReservation}]
        /\ reservations'[o] = NoReservation
        /\ \A p \in Order \ {o} : reservations'[p] = reservations[p]
        /\ \A i \in Item : stock'[i] + HeldOf(o, i)' = stock[i] + HeldOf(o, i)
    BY <1>1, <1>2, ReleaseEffect
  <1>4. TypeOK'
    BY <1>1, <1>2, <1>3 DEF TypeOK, ReleaseOrdered, MarkProcessed
  <1>5. HeldIsAnnounced'
    <2>. SUFFICES ASSUME NEW p \in Order, Held(p)'
                  PROVE  \E i \in Rows(outbox', "stock.reserved", p) :
                            outbox'[i].payload.items = reservations'[p].items
      BY DEF HeldIsAnnounced
    <2>1. p # o
      BY <1>3 DEF Held, NoReservation
    <2>. QED
      BY <1>1, <1>2, <1>3, <2>1, StaysAnnounced
  <1>. QED
    BY <1>1, <1>3, <1>4, <1>5 DEF IInv, MovesWithOne

-----------------------------------------------------------------------------

LEMMA InitIInv == Init => IInv
  <1>. SUFFICES ASSUME Init PROVE IInv
    OBVIOUS
  <1>1. TypeOK
    BY DEF Init, TypeOK
  <1>2. \A o \in Order : ~Held(o)
    BY DEF Init, Held, NoReservation
  <1>3. HeldIsAnnounced
    BY <1>2 DEF HeldIsAnnounced
  <1>. QED
    BY <1>1, <1>3 DEF IInv

LEMMA StepIInv == IInv /\ [Next]_vars => IInv' /\ [MovesWithOne]_vars
  <1>. SUFFICES ASSUME IInv, [Next]_vars PROVE IInv' /\ [MovesWithOne]_vars
    OBVIOUS
  <1>1. CASE UNCHANGED vars
    BY <1>1 DEF vars, IInv, TypeOK, HeldIsAnnounced, Held
  <1>2. ASSUME NEW e \in Delivery, Handle(e)
        PROVE  IInv' /\ [MovesWithOne]_vars
    <2>1. CASE PlacedReserved(e)
      BY <2>1, PlacedReservedKeepsIInv
    <2>2. CASE PlacedRejected(e)
      BY <2>2, PlacedRejectedKeepsIInv
    <2>3. CASE ReleaseOrdered(e)
      BY <2>3, ReleaseOrderedKeepsIInv
    <2>4. CASE PlacedAgain(e) \/ Duplicate(e) \/ UnknownType(e)
      BY <1>1, <2>4 DEF PlacedAgain, Duplicate, UnknownType
    <2>. QED
      BY <1>2, <2>1, <2>2, <2>3, <2>4 DEF Handle
  <1>. QED
    BY <1>1, <1>2 DEF Next

-----------------------------------------------------------------------------
(* The stock that is set aside *)

\* HeldTotal is a sum of naturals over the orders.
HeldTotalsAddUp ==
    \A i \in Item :
        /\ \A o \in Order : HeldOf(o, i) \in Nat
        /\ \E g : /\ IsSum(g, [o \in Order |-> HeldOf(o, i)], Order)
                 /\ HeldTotal(i) = g[Order]

\* The fold of HeldTotal is such a sum.
LEMMA HeldTotalIsSum == TypeOK => HeldTotalsAddUp
  <1>. SUFFICES ASSUME TypeOK, NEW i \in Item
                PROVE  /\ \A o \in Order : HeldOf(o, i) \in Nat
                       /\ \E g : /\ IsSum(g, [o \in Order |-> HeldOf(o, i)], Order)
                                /\ HeldTotal(i) = g[Order]
    BY DEF HeldTotalsAddUp
  <1>. DEFINE f == [o \in Order |-> HeldOf(o, i)]
              adds(g) == g = [s \in SUBSET Order |->
                                IF s = {} THEN 0 ELSE HeldOf(Pick(s), i) + g[s \ {Pick(s)}]]
              total == CHOOSE g : adds(g)
  <1>1. HeldTotal(i) = total[Order]
    BY DEF HeldTotal, MapThenSumSet, MapThenFoldSet, Pick
  <1>2. PICK g : IsSum(g, f, Order)
    BY OrderAssumption, SumExists
  <1>3. \A s \in SUBSET Order : s # {} => f[Pick(s)] = HeldOf(Pick(s), i)
    BY DEF Pick
  <1>4. \A h : adds(h) <=> IsSum(h, f, Order)
    <2>. HIDE DEF f
    <2>1. [s \in SUBSET Order |-> IF s = {} THEN 0 ELSE f[Pick(s)]]
            = [s \in SUBSET Order |-> IF s = {} THEN 0 ELSE HeldOf(Pick(s), i)]
      BY <1>3
    <2>. QED
      BY <1>3 DEF IsSum
  <1>5. IsSum(total, f, Order)
    <2>1. adds(g)
      BY <1>2, <1>4
    <2>2. adds(total)
      <3>. HIDE DEF adds
      <3>. QED
        BY <2>1
    <2>. QED
      BY <1>4, <2>2
  <1>. QED
    BY <1>1, <1>5, RowOf

\* Without a reservation nothing is set aside.
LEMMA NothingHeldFirst == Init => StockConserved
  <1>. SUFFICES ASSUME Init, NEW i \in Item PROVE stock[i] + HeldTotal(i) = InitialStock[i]
    BY DEF StockConserved
  <1>1. TypeOK
    BY InitIInv DEF IInv
  <1>2. PICK g : IsSum(g, [o \in Order |-> HeldOf(o, i)], Order) /\ HeldTotal(i) = g[Order]
    BY <1>1, HeldTotalIsSum DEF HeldTotalsAddUp
  <1>3. \A o \in Order : HeldOf(o, i) = 0
    BY DEF Init, HeldOf, Held, NoReservation
  <1>4. g[Order] = 0
    BY <1>2, <1>3, OrderAssumption, SumTyped
  <1>. QED
    BY <1>2, <1>4 DEF Init

\* What moves between the stock and one reservation stays in the sum.
LEMMA MovesConserve ==
    ASSUME TypeOK, TypeOK', StockConserved, MovesWithOne
    PROVE  StockConserved'
  <1>. SUFFICES ASSUME NEW i \in Item PROVE stock'[i] + HeldTotal(i)' = InitialStock[i]
    BY DEF StockConserved
  <1>1. PICK o \in Order :
           /\ \A p \in Order \ {o} : reservations'[p] = reservations[p]
           /\ stock'[i] + HeldOf(o, i)' = stock[i] + HeldOf(o, i)
    BY DEF MovesWithOne
  <1>. DEFINE f == [p \in Order |-> HeldOf(p, i)]
              k == [p \in Order |-> HeldOf(p, i)']
  <1>2. PICK g : IsSum(g, f, Order) /\ HeldTotal(i) = g[Order]
    BY HeldTotalIsSum DEF HeldTotalsAddUp
  <1>3. PICK h : IsSum(h, k, Order) /\ HeldTotal(i)' = h[Order]
    <2>1. (TypeOK => HeldTotalsAddUp)'
      BY HeldTotalIsSum, PTL
    <2>. QED
      BY <2>1 DEF HeldTotalsAddUp
  <1>4. \A p \in Order : f[p] \in Nat /\ k[p] \in Nat
    <2>1. (TypeOK => HeldTotalsAddUp)'
      BY HeldTotalIsSum, PTL
    <2>. QED
      BY <2>1, HeldTotalIsSum DEF HeldTotalsAddUp
  <1>5. \A p \in Order \ {o} : k[p] = f[p]
    BY <1>1 DEF HeldOf, Held
  <1>6. f[o] = HeldOf(o, i) /\ k[o] = HeldOf(o, i)'
    OBVIOUS
  <1>7. g[Order] \in Nat /\ h[Order] \in Nat
    <2>. HIDE DEF f, k
    <2>. QED
      BY <1>2, <1>3, <1>4, OrderAssumption, SumTyped
  <1>8. h[Order] + f[o] = g[Order] + k[o]
    <2>. HIDE DEF f, k
    <2>. QED
      BY <1>2, <1>3, <1>4, <1>5, OrderAssumption, SumMoves
  <1>9. stock[i] \in Nat /\ stock'[i] \in Nat /\ stock[i] + g[Order] = InitialStock[i]
    BY <1>2 DEF TypeOK, StockConserved
  <1>. HIDE DEF f, k
  <1>. QED
    BY <1>1, <1>3, <1>4, <1>6, <1>7, <1>8, <1>9

\* A step that leaves the tables alone leaves the sum alone.
LEMMA RestConserves ==
    ASSUME StockConserved, UNCHANGED <<stock, reservations>>
    PROVE  StockConserved'
  <1>. SUFFICES ASSUME NEW i \in Item PROVE stock'[i] + HeldTotal(i)' = InitialStock[i]
    BY DEF StockConserved
  <1>1. stock' = stock /\ reservations' = reservations
    OBVIOUS
  <1>2. HeldTotal(i)' = HeldTotal(i)
    <2>1. \A o : HeldOf(o, i)' = HeldOf(o, i)
      BY <1>1 DEF HeldOf, Held
    <2>. QED
      BY <1>1 DEF HeldTotal, HeldOf, Held, MapThenSumSet, MapThenFoldSet
  <1>. QED
    BY <1>1, <1>2 DEF StockConserved

-----------------------------------------------------------------------------

\* Every table always holds rows of its schema; in particular no quantity is
\* ever negative.
THEOREM TypeCorrect == Spec => []TypeOK
  <1>1. IInv => TypeOK
    BY DEF IInv
  <1>. QED
    BY <1>1, InitIInv, StepIInv, PTL DEF Spec

\* Every reservation in the table is in the outbox too, with its basket.
THEOREM ReservationAnnounced == Spec => []HeldIsAnnounced
  <1>1. IInv => HeldIsAnnounced
    BY DEF IInv
  <1>. QED
    BY <1>1, InitIInv, StepIInv, PTL DEF Spec

\* Stock moves between the menu and one reservation at a time, and none is
\* created or lost on the way.
THEOREM StockMoves == Spec => StockMovesWithOneReservation
  <1>. QED
    BY InitIInv, StepIInv, PTL DEF Spec, StockMovesWithOneReservation, MovesWithOne

\* No portion of an item is lost, sold twice or given back twice: what is in
\* stock and in all the reservations together is what the item was seeded with.
THEOREM StockIsConserved == Spec => []StockConserved
  <1>1. IInv => TypeOK
    BY DEF IInv
  <1>2. StockConserved /\ IInv /\ IInv' /\ [MovesWithOne]_vars => StockConserved'
    BY MovesConserve, RestConserves DEF IInv, vars
  <1>. QED
    BY <1>2, InitIInv, StepIInv, NothingHeldFirst, PTL DEF Spec

=============================================================================
