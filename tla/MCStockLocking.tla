--------------------------- MODULE MCStockLocking ---------------------------
(* StockLocking with two replicas and two orders that compete for two items *)
(* and name them in opposite orders.  Any event may be delivered to any      *)
(* replica, again and again.                                                *)
EXTENDS StockLocking, TLC

CONSTANTS o1, o2, u1, burger, pizza, w1, w2

MCInitialStock == (burger :> 2) @@ (pizza :> 2)

\* o1 wants a burger and a pizza and leaves enough for itself to come again,
\* o2 wants both pizzas and a burger.
MCBasket(o) == (burger :> 1) @@ (pizza :> IF o = o1 THEN 1 ELSE 2)

MCLines == [o \in Order |-> IF o = o1 THEN <<burger, pizza>> ELSE <<pizza, burger>>]

MCRequest == {[user |-> u1, key |-> NoKey, items |-> MCBasket(o), simulate |-> "none"] : o \in Order}

\* The ids of the events about o; no two events share an id.
FirstId(o) == IF o = o1 THEN 1 ELSE 2

Placed(o, n) ==
    [id |-> <<"order.placed", n>>, type |-> "order.placed",
     payload |-> [order |-> o, items |-> MCBasket(o), simulate |-> "none"]]

Other(t, o) == [id |-> <<t, FirstId(o)>>, type |-> t, payload |-> Bare(o)]

\* o1 is placed by two events, everything else by one.
MCDelivery ==
    {Placed(o1, 1), Placed(o2, 2), Placed(o1, 3)}
    \cup {Other("stock.release", o) : o \in Order}
    \cup {Other("stock.rejected", o1)}

=============================================================================
