-------------------------- MODULE MCPaymentService --------------------------
(* PaymentService with every order's stock.reserved delivered by two ids,   *)
(* again and again, and at most MaxLosses interruptions of a task.          *)
EXTENDS PaymentService, TLC

CONSTANTS o1, o2, u1, burger, MaxLosses

VARIABLE losses      \* interruptions so far; bounds nothing else

MCRequest ==
    {[user |-> u1, key |-> NoKey, items |-> (burger :> 1), simulate |-> d] : d \in Directive}

\* The directive of the client: o1 asks for a failure, o2 asks for nothing.
MCPayload(o) ==
    [order |-> o, items |-> (burger :> 1), simulate |-> IF o = o1 THEN "failure" ELSE "none"]

\* The bound on the environment: two events per order; no two share an id.
MCDelivery ==
    {[id |-> <<"stock.reserved", n>>, type |-> "stock.reserved",
      payload |-> MCPayload(IF n \in {1, 2} THEN o1 ELSE o2)] : n \in 1..4}

MCInit == Init /\ losses = 0

MCNext ==
    \/ /\ \/ \E e \in Delivery : Handle(e)
          \/ Consume
          \/ \E o \in Order : Age(o)
          \/ Reconcile
       /\ UNCHANGED losses
    \/ /\ losses < MaxLosses
       /\ Lose
       /\ losses' = losses + 1

mcvars == <<vars, losses>>

MCSpec == MCInit /\ [][MCNext]_mcvars

\* The event loop runs every task that can go on, and time passes.
MCFairSpec ==
    /\ MCSpec
    /\ WF_mcvars(Consume /\ UNCHANGED losses)
    /\ WF_mcvars(Reconcile /\ UNCHANGED losses)
    /\ \A o \in Order : WF_mcvars(Age(o) /\ UNCHANGED losses)

=============================================================================
