-------------------------------- MODULE Saga --------------------------------
(***************************************************************************)
(* What the system promises about an order, with one store and no          *)
(* messages: its stage in the world (is stock set aside, is it paid) and   *)
(* the status the client is shown, which follows the stage.  FoodFlow      *)
(* implements this module.                                                 *)
(***************************************************************************)
EXTENDS Events

CONSTANTS InitialStock, PaymentSimulateDefault

VARIABLES
    stage,            \* how far the order really is
    told,             \* the status GET /orders answers
    asked,            \* what the client asked for
    shelf             \* the quantities that can still be sold

vars == <<stage, told, asked, shelf>>

Stage == {"absent", "placed", "reserved", "rejected", "paid", "declined", "returned"}

Init ==
    /\ stage = [o \in Order |-> "absent"]
    /\ told = [o \in Order |-> "ABSENT"]
    /\ asked = [o \in Order |-> NoRequest]
    /\ shelf = InitialStock

Move(o, from, to) ==
    /\ stage[o] = from
    /\ stage' = [stage EXCEPT ![o] = to]

Accept(o, r) ==
    /\ Move(o, "absent", "placed")
    /\ told' = [told EXCEPT ![o] = "PENDING"]
    /\ asked' = [asked EXCEPT ![o] = r]
    /\ UNCHANGED shelf

Available(o) == \A i \in Item : asked[o].items[i] <= shelf[i]

Reserve(o) ==
    /\ Move(o, "placed", "reserved")
    /\ Available(o)
    /\ shelf' = [i \in Item |-> shelf[i] - asked[o].items[i]]
    /\ UNCHANGED <<told, asked>>

Reject(o) ==
    /\ Move(o, "placed", "rejected")
    /\ ~Available(o)
    /\ UNCHANGED <<told, asked, shelf>>

Declines(directive) ==
    directive = "failure" \/ (directive = "none" /\ PaymentSimulateDefault = "failure")

Pay(o) ==
    /\ Move(o, "reserved", "paid")
    /\ ~Declines(asked[o].simulate)
    /\ UNCHANGED <<told, asked, shelf>>

Decline(o) ==
    /\ Move(o, "reserved", "declined")
    /\ Declines(asked[o].simulate)
    /\ UNCHANGED <<told, asked, shelf>>

\* The verdict of a stage; the other stages have none yet.
Verdict == [rejected |-> "STOCK_UNAVAILABLE", paid |-> "CONFIRMED",
            declined |-> "PAYMENT_FAILED"]

Tell(o) ==
    /\ told[o] = "PENDING"
    /\ stage[o] \in DOMAIN Verdict
    /\ told' = [told EXCEPT ![o] = Verdict[stage[o]]]
    /\ UNCHANGED <<stage, asked, shelf>>

\* Stock goes back on the shelf once the client has been told.
Return(o) ==
    /\ told[o] = "PAYMENT_FAILED"
    /\ Move(o, "declined", "returned")
    /\ shelf' = [i \in Item |-> shelf[i] + asked[o].items[i]]
    /\ UNCHANGED <<told, asked>>

Next ==
    \E o \in Order :
        \/ \E r \in Request : Accept(o, r)
        \/ Reserve(o) \/ Reject(o)
        \/ Pay(o) \/ Decline(o)
        \/ Tell(o)
        \/ Return(o)

Spec == Init /\ [][Next]_vars

=============================================================================
