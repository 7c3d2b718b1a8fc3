----------------------------- MODULE MCOrderApi -----------------------------
(* OrderApi with three calls, two users, one key and an empty one, beside a *)
(* consumer that may be handed any outcome event about either order, again  *)
(* and again.                                                               *)
EXTENDS OrderApi, TLC

CONSTANTS o1, o2, c1, c2, c3, u1, u2, k1, k0

MCRequest ==
    {[user |-> u, key |-> k1, items |-> <<>>, simulate |-> "none"] : u \in User}
    \cup {[user |-> u1, key |-> k, items |-> <<>>, simulate |-> "none"] : k \in {NoKey, k0}}

\* The bound on the environment: two events per type and order.
MaxIds == 2

\* The ids of the events about o; no two events share an id.
IdsOf(type, o) == {<<type, IF o = o1 THEN n ELSE MaxIds + n>> : n \in 1..MaxIds}

MCDelivery ==
    UNION {{[id |-> d, type |-> t, payload |-> Bare(o)] : d \in IdsOf(t, o)} :
              t \in {"payment.succeeded", "payment.failed", "stock.rejected",
                     "stock.release"},
              o \in Order}

Symmetry == Permutations(Call)

=============================================================================
