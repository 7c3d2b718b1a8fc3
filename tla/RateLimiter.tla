----------------------------- MODULE RateLimiter -----------------------------
(***************************************************************************)
(* RateLimitMiddleware of the auth service: a counter in Redis per client  *)
(* address, which nginx makes one counter for all.  INCR and EXPIRE are    *)
(* two commands with an await in between, and whatever Redis raises lets   *)
(* the request pass.                                                       *)
(***************************************************************************)
EXTENDS Naturals

CONSTANTS
    Call,             \* requests that may be in the middleware at once
    Limit,            \* RATE_LIMIT
    MaxFailures       \* bound: commands that raise and requests that are dropped

VARIABLES
    counter,          \* the key's value, 0 without a key, Limit + 1 for anything
                      \* above the limit: the code tells no more apart
    ttl,              \* the key has an expiry
    stage,            \* where a request is
    failures

vars == <<counter, ttl, stage, failures>>

Stage == {"outside", "counting", "expiring", "admitted", "refused"}

Init ==
    /\ counter = 0 /\ ttl = FALSE
    /\ stage = [c \in Call |-> "outside"]
    /\ failures = 0

Arrive(c) ==
    /\ stage[c] = "outside"
    /\ stage' = [stage EXCEPT ![c] = "counting"]
    /\ UNCHANGED <<counter, ttl, failures>>

Incremented == IF counter > Limit THEN counter ELSE counter + 1

\* current > RATE_LIMIT.
Verdict == IF Incremented > Limit THEN "refused" ELSE "admitted"

\* Mutant: off by one, the expiry is set when the limit is passed.
IncrNoExpiry(c) ==
    /\ stage[c] = "counting"
    /\ counter' = Incremented
    /\ stage' = [stage EXCEPT ![c] = IF Incremented = Limit + 1 THEN "expiring" ELSE Verdict]
    /\ UNCHANGED <<ttl, failures>>

\* INCR; the first request of a window goes on to EXPIRE.
Incr(c) ==
    /\ stage[c] = "counting"
    /\ counter' = Incremented
    /\ stage' = [stage EXCEPT ![c] = IF Incremented = 1 THEN "expiring" ELSE Verdict]
    /\ UNCHANGED <<ttl, failures>>

Expire(c) ==
    /\ stage[c] = "expiring"
    /\ ttl' = TRUE
    /\ stage' = [stage EXCEPT ![c] = "admitted"]
    /\ UNCHANGED <<counter, failures>>

\* There is no connection, or a command raises, possibly after Redis has
\* executed it: fail open.
RedisFails(c) ==
    /\ stage[c] \in {"counting", "expiring"}
    /\ failures < MaxFailures
    /\ failures' = failures + 1
    /\ stage' = [stage EXCEPT ![c] = "admitted"]
    /\ counter' \in IF stage[c] = "counting" THEN {counter, Incremented} ELSE {counter}
    /\ ttl' \in IF stage[c] = "expiring" THEN {ttl, TRUE} ELSE {ttl}

\* The process dies with the request.
Drop(c) ==
    /\ stage[c] \in {"counting", "expiring"}
    /\ failures < MaxFailures
    /\ failures' = failures + 1
    /\ stage' = [stage EXCEPT ![c] = "outside"]
    /\ UNCHANGED <<counter, ttl>>

\* call_next, or the answer 429.
Leave(c) ==
    /\ stage[c] \in {"admitted", "refused"}
    /\ stage' = [stage EXCEPT ![c] = "outside"]
    /\ UNCHANGED <<counter, ttl, failures>>

\* 60 seconds after EXPIRE the key is gone.
WindowEnds ==
    /\ ttl
    /\ counter' = 0 /\ ttl' = FALSE
    /\ UNCHANGED <<stage, failures>>

Next ==
    \/ \E c \in Call : Arrive(c) \/ Incr(c) \/ Expire(c) \/ RedisFails(c) \/ Drop(c) \/ Leave(c)
    \/ WindowEnds

Spec == Init /\ [][Next]_vars

-----------------------------------------------------------------------------
(* Properties *)

TypeOK ==
    /\ counter \in 0..Limit + 1
    /\ ttl \in BOOLEAN
    /\ stage \in [Call -> Stage]
    /\ failures \in 0..MaxFailures

\* rate_limiter.py:50: a key that counts will expire, or the request that
\* created it is about to see to that.  Only a failure between INCR and EXPIRE
\* leaves a key that counts for ever and, in the end, refuses everybody.
CountersExpire ==
    failures = 0 /\ counter > 0 => ttl \/ \E c \in Call : stage[c] = "expiring"

=============================================================================
