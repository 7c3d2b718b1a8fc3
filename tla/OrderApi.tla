------------------------------ MODULE OrderApi ------------------------------
(***************************************************************************)
(* POST /orders with an Idempotency-Key (services/order/routes.py): calls  *)
(* in progress side by side.  A call looks its key up on one connection    *)
(* and inserts on another, so any other call may come in between; the      *)
(* UNIQUE constraint of migration 002 has the last word.  A client repeats *)
(* a call it got no answer to with the same key; nothing keeps two users   *)
(* from the same key.  Meanwhile the consumer of OrderService works on the *)
(* same tables.                                                            *)
(***************************************************************************)
EXTENDS OrderService

CONSTANTS
    Call,             \* the HTTP requests that reach the service
    NoAnswer,
    EmptyKey          \* the header is there and has no value (NoKey: that never happens)

ASSUME OrderApiAssumption == NoAnswer \notin Order /\ EmptyKey \in Key \cup {NoKey}

VARIABLES
    asked,            \* the body and headers of a call
    phase,            \* how far its handler is
    answer            \* the order id in its 202 response

apiVars == <<vars, asked, phase, answer>>

Phase == {"idle", "received", "clear", "answered", "conflict", "lost"}

ApiInit ==
    /\ Init
    /\ asked = [c \in Call |-> NoRequest]
    /\ phase = [c \in Call |-> "idle"]
    /\ answer = [c \in Call |-> NoAnswer]

Go(c, from, to) ==
    /\ phase[c] = from
    /\ phase' = [phase EXCEPT ![c] = to]

Receive(c, r) ==
    /\ Go(c, "idle", "received")
    /\ asked' = [asked EXCEPT ![c] = r]
    /\ UNCHANGED <<vars, answer>>

\* Mutant: WHERE idempotency_key = $1, whoever's it is.
MatchesAnyUser(o, r) ==
    /\ orders[o] # NoOrder
    /\ orders[o].request.key = r.key

\* WHERE idempotency_key = $1 AND user_id = $2.
Matches(o, r) ==
    /\ orders[o] # NoOrder
    /\ orders[o].request.key = r.key
    /\ orders[o].request.user = r.user

\* if idempotency_key: an empty one is no key here, and is one for the INSERT.
LooksUp(c) == asked[c].key \notin {NoKey, EmptyKey}

\* The lookup finds the order: it is answered as it is.
LookupHit(c) ==
    /\ Go(c, "received", "answered")
    /\ LooksUp(c)
    /\ \E o \in Order : Matches(o, asked[c]) /\ answer' = [answer EXCEPT ![c] = o]
    /\ UNCHANGED <<vars, asked>>

\* No lookup, or no order.
LookupMiss(c) ==
    /\ Go(c, "received", "clear")
    /\ ~LooksUp(c) \/ \A o \in Order : ~Matches(o, asked[c])
    /\ UNCHANGED <<vars, asked, answer>>

\* The transaction commits and the new order is answered.
Insert(c, o) ==
    /\ Go(c, "clear", "answered")
    /\ CreateOrder(o, asked[c])
    /\ answer' = [answer EXCEPT ![c] = o]
    /\ UNCHANGED asked

\* The INSERT raises UniqueViolationError, which nothing catches: 500.
InsertConflict(c) ==
    /\ Go(c, "clear", "conflict")
    /\ ~KeyFree(asked[c].key)
    /\ UNCHANGED <<vars, asked, answer>>

\* The process dies, or the client stops waiting before it is answered.
Lose(c) ==
    /\ phase[c] \in {"received", "clear"}
    /\ phase' = [phase EXCEPT ![c] = "lost"]
    /\ UNCHANGED <<vars, asked, answer>>

\* The consumer, between any two steps of a call.
Consumer ==
    /\ \E e \in Delivery : Handle(e)
    /\ UNCHANGED <<asked, phase, answer>>

ApiNext ==
    \/ \E c \in Call :
          \/ \E r \in Request : Receive(c, r)
          \/ LookupHit(c) \/ LookupMiss(c)
          \/ \E o \in Order : Insert(c, o)
          \/ InsertConflict(c)
          \/ Lose(c)
    \/ Consumer

ApiSpec == ApiInit /\ [][ApiNext]_apiVars

-----------------------------------------------------------------------------
(* Properties *)

ApiTypeOK ==
    /\ TypeOK
    /\ asked \in [Call -> Request \cup {NoRequest}]
    /\ phase \in [Call -> Phase]
    /\ answer \in [Call -> Order \cup {NoAnswer}]

SameKey(c, d) ==
    /\ asked[c] # NoRequest /\ asked[d] # NoRequest
    /\ asked[c].key # NoKey
    /\ asked[c].key = asked[d].key /\ asked[c].user = asked[d].user

\* However the calls of a user with one key overlap and fail, all that are
\* answered name the same order: a retry never orders twice.
SameKeySameOrder ==
    \A c, d \in Call :
        SameKey(c, d) /\ phase[c] = "answered" /\ phase[d] = "answered"
            => answer[c] = answer[d]

\* A call is answered with an order of its own user and its own key, although
\* the key is unique over all users.
AnswerIsOwn ==
    \A c \in Call : phase[c] = "answered" =>
        /\ orders[answer[c]].request.user = asked[c].user
        /\ orders[answer[c]].request.key = asked[c].key

\* INTERVIEW_QA.md:129, on two requests with the same key at once: the second
\* insert fails and the existing order is returned.
LoserIsAnswered ==
    \A c \in Call : phase[c] = "conflict" => \A o \in Order : ~Matches(o, asked[c])

=============================================================================
