----------------------------- MODULE MCFoodFlow -----------------------------
(* FoodFlow with two orders for the one pizza in stock.                     *)
EXTENDS FoodFlow, TLC

CONSTANTS o1, o2, u1, pizza

MCStock == pizza :> 1

Ask(d) == [user |-> u1, key |-> NoKey, items |-> (pizza :> 1), simulate |-> d]

MCRequest == {Ask("failure"), Ask("none")}

FailingRequest == {Ask("failure")}

\* More than there is in stock.
TooMuch == [Ask("none") EXCEPT !.items = pizza :> 2]

AnyRequest == {Ask(d) : d \in Directive} \cup {TooMuch}

Symmetry == Permutations(Order)

\* An offset is read by a crash alone: once no crash is left in the budget,
\* commits change nothing that any property or any other action can see.
CommitsMatter == faults = MaxFaults => committed' = committed

\* An order that is placed and whose order.placed is not relayed yet is seen by
\* its client alone: a later order may as well be placed early.  The orders are
\* placed before the first event is relayed, or not at all.
PlacedEarly == \A o \in Order : orders'[o] # orders[o] /\ ~Placed(o) => log["order.placed"] = <<>>

\* One failure of either kind.
OneFailure == faults' + drops' <= 1

=============================================================================
