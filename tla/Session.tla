------------------------------- MODULE Session -------------------------------
(***************************************************************************)
(* The page in the browser (frontend/src) with the auth service and its    *)
(* rate limiter.  Several asynchronous functions of the page overlap; each *)
(* has the tokens of the render it was created in, and keeps them through  *)
(* all its requests, whatever is stored meanwhile.  A reload of the page   *)
(* ends them all where they are and keeps what is stored; the service goes *)
(* on with the requests it has.                                            *)
(*                                                                         *)
(* The services that the access token opens look at its expiry alone.      *)
(***************************************************************************)
EXTENDS AuthService

CONSTANTS
    Unreadable,       \* the addresses that atob cannot read: the payload of a token
                      \* is base64url, and theirs has a '-' or '_' in it
    Limit,            \* RATE_LIMIT
    MaxFailures,      \* bound: Redis commands that raise, and deaths in the middleware
    MaxLosses         \* bound: requests and responses the network loses

ASSUME UnreadableAssumption == Unreadable \subseteq Email
ASSUME LimiterAssumption ==
    Limit \in Nat \ {0} /\ MaxFailures \in Nat /\ MaxLosses \in Nat

VARIABLES
    counter, ttl, stage, failures,
    stored,           \* the pair of tokens in local storage and in the state of
                      \* AuthProvider, 0 after a logout
    effect,           \* the token of a render whose effect is due and will fail, or 0
    task,             \* what a function of the page waits for
    pair,             \* the tokens its closure has
    losses,           \* requests or responses the network has lost
    severed           \* history: the tokens of refreshes that a reload has cut off

Limiter == INSTANCE RateLimiter

limiterVars == <<counter, ttl, stage, failures>>
pageVars    == <<stored, effect, task, pair, losses, severed>>
sessionVars == <<authVars, limiterVars, pageVars>>

\* "abandoned": nobody waits for the call any more.
Task == {"none", "form", "fetching", "refreshing", "retrying", "abandoned"}

\* The first visit finds local storage empty; every later one is a Reload.
SessionInit ==
    /\ Init /\ Limiter!Init
    /\ stored = 0 /\ effect = 0
    /\ task = [c \in Call |-> "none"]
    /\ pair = [c \in Call |-> 0]
    /\ losses = 0
    /\ severed = {}

Goto(c, t) == task' = [task EXCEPT ![c] = t]

Idle(c) == Goto(c, "none") /\ pair' = [pair EXCEPT ![c] = 0]

-----------------------------------------------------------------------------
(* The auth service behind its middleware *)

\* A request of c arrives.
Post(c, r) == Receive(c, r) /\ Limiter!Arrive(c)

\* The middleware has passed it on to its handler.
Serve(c) ==
    /\ stage[c] = "admitted"
    /\ Handle(c)
    /\ UNCHANGED <<limiterVars, pageVars>>

Reject(c) ==
    /\ stage[c] = "refused"
    /\ Throttle(c)
    /\ UNCHANGED <<limiterVars, pageVars>>

\* The response leaves the middleware and comes to the page.
Take(c) == phase[c] = "answered" /\ Close(c) /\ Limiter!Leave(c) /\ UNCHANGED authDb

Middleware(c) ==
    /\ Limiter!Incr(c) \/ Limiter!Expire(c) \/ Limiter!RedisFails(c)
    /\ UNCHANGED <<authVars, pageVars>>

WindowEnds == Limiter!WindowEnds /\ UNCHANGED <<authVars, pageVars>>

-----------------------------------------------------------------------------
(* Login.jsx, Register.jsx *)

\* The forms are shown to who is logged out.
Submit(c) ==
    /\ task[c] = "none" /\ stored = 0
    /\ \E r \in Request : r.kind # "refresh" /\ Post(c, r)
    /\ Goto(c, "form")
    /\ UNCHANGED <<stored, effect, pair, losses, severed>>

Submitted(c) ==
    /\ task[c] = "form"
    /\ stored' = IF answer[c].status = 200 THEN answer[c].token ELSE stored
    /\ Take(c) /\ Idle(c)
    /\ UNCHANGED <<effect, losses, severed>>

-----------------------------------------------------------------------------
(* authenticatedFetch *)

\* Mutant: the check of the token is gone.
StartAnyway(c) ==
    /\ task[c] = "none"
    /\ pair' = [pair EXCEPT ![c] = stored]
    /\ Goto(c, "fetching")
    /\ UNCHANGED <<authVars, limiterVars, stored, effect, losses, severed>>

\* The page's own requests: with whatever pair the render has.
Start(c) ==
    /\ task[c] = "none" /\ stored # 0
    /\ pair' = [pair EXCEPT ![c] = stored]
    /\ Goto(c, "fetching")
    /\ UNCHANGED <<authVars, limiterVars, stored, effect, losses, severed>>

\* The function is over, or goes on with requests of the same render, as
\* placeOrder and fetchData do.
Continue(c) ==
    \/ Goto(c, "fetching") /\ UNCHANGED pair
    \/ Idle(c)

\* Any answer but 401.
Answered(c) ==
    /\ task[c] = "fetching" /\ age[pair[c]] = "fresh"
    /\ Continue(c)
    /\ UNCHANGED <<authVars, limiterVars, stored, effect, losses, severed>>

\* 401: the refresh token of the closure is sent.
Unauthorized(c) ==
    /\ task[c] = "fetching" /\ age[pair[c]] # "fresh"
    /\ Post(c, [kind |-> "refresh", token |-> pair[c]])
    /\ Goto(c, "refreshing")
    /\ UNCHANGED <<stored, effect, pair, losses, severed>>

\* login(), also if the user has logged out meanwhile, and the retry.
Refreshed(c) ==
    /\ task[c] = "refreshing" /\ answer[c].status = 200
    /\ stored' = answer[c].token
    /\ Take(c) /\ Goto(c, "retrying")
    /\ UNCHANGED <<effect, pair, losses, severed>>

\* logout(), whatever the reason was and whatever is stored by now.
NotRefreshed(c) ==
    /\ task[c] = "refreshing" /\ answer[c].status # 200
    /\ stored' = 0
    /\ Take(c) /\ Idle(c)
    /\ UNCHANGED <<effect, losses, severed>>

\* The response to the retry is returned, whatever it says.
Retried(c) ==
    /\ task[c] = "retrying"
    /\ Continue(c)
    /\ UNCHANGED <<authVars, limiterVars, stored, effect, losses, severed>>

\* fetch() throws.  Inside the try of authenticatedFetch that is a logout: when
\* the request of the refresh does not get through, its answer does not come, or
\* the retry fails.
Throws(c) ==
    \/ task[c] \in {"refreshing", "retrying"} /\ stored' = 0
    \/ task[c] = "fetching" /\ age[pair[c]] # "fresh" /\ stored' = 0
    \/ task[c] \notin {"refreshing", "retrying"} /\ UNCHANGED stored

\* What becomes of c when its function is gone: the service goes on with its call.
Abandoned(c) == IF phase[c] = "idle" THEN "none" ELSE "abandoned"

\* The request or the response is lost.
NetworkFails(c) ==
    /\ task[c] \notin {"none", "abandoned"}
    /\ losses < MaxLosses
    /\ losses' = losses + 1
    /\ Throws(c)
    /\ Goto(c, Abandoned(c)) /\ pair' = [pair EXCEPT ![c] = 0]
    /\ UNCHANGED <<authVars, limiterVars, effect, severed>>

\* The service dies with the request in its middleware.
ServiceFails(c) ==
    /\ Limiter!Drop(c)
    /\ Throws(c)
    /\ Close(c) /\ Idle(c)
    /\ UNCHANGED <<authDb, effect, losses, severed>>

\* The response comes, and the function that asked is gone.
Discard(c) ==
    /\ task[c] = "abandoned"
    /\ Take(c) /\ Idle(c)
    /\ UNCHANGED <<stored, effect, losses, severed>>

-----------------------------------------------------------------------------
(* AuthProvider, handleLogout *)

LogOut ==
    /\ stored # 0
    /\ stored' = 0
    /\ UNCHANGED <<authVars, limiterVars, effect, task, pair, losses, severed>>

\* A render with a token that atob refuses.  The effect of the render before
\* has run.
Render ==
    /\ stored # 0 /\ issued[stored].email \in Unreadable
    /\ effect = 0
    /\ effect' = stored
    /\ UNCHANGED <<authVars, limiterVars, stored, task, pair, losses, severed>>

\* The catch of the effect: logout(), whatever is stored by now.
DecodeFails ==
    /\ effect # 0
    /\ effect' = 0
    /\ stored' = 0
    /\ UNCHANGED <<authVars, limiterVars, task, pair, losses, severed>>

\* The page is reloaded, or closed and opened again: its functions end without
\* their catch, and AuthProvider begins with what is in local storage.
Reload ==
    /\ effect' = 0
    /\ task' = [c \in Call |-> Abandoned(c)]
    /\ pair' = [c \in Call |-> 0]
    /\ severed' = severed \cup {pair[c] : c \in {d \in Call : task[d] = "refreshing"}}
    /\ UNCHANGED <<authVars, limiterVars, stored, losses>>

-----------------------------------------------------------------------------

TimePasses ==
    /\ \E t \in Token : AccessExpires(t) \/ RefreshExpires(t)
    /\ UNCHANGED <<limiterVars, pageVars>>

Page(c) ==
    \/ Submit(c) \/ Submitted(c)
    \/ Start(c) \/ Answered(c) \/ Unauthorized(c)
    \/ Refreshed(c) \/ NotRefreshed(c) \/ Retried(c)
    \/ NetworkFails(c) \/ ServiceFails(c) \/ Discard(c)

SessionNext ==
    \/ \E c \in Call : Page(c) \/ Middleware(c) \/ Reject(c) \/ Serve(c)
    \/ LogOut \/ Render \/ DecodeFails \/ Reload
    \/ WindowEnds \/ TimePasses

SessionSpec == SessionInit /\ [][SessionNext]_sessionVars

-----------------------------------------------------------------------------
(* Properties *)

SessionTypeOK ==
    /\ TypeOK /\ Limiter!TypeOK
    /\ stored \in 0..Len(issued) /\ effect \in 0..Len(issued)
    /\ severed \subseteq 1..Len(issued)
    /\ task \in [Call -> Task]
    /\ pair \in [Call -> 0..Len(issued)]
    /\ losses \in 0..MaxLosses
    /\ \A c \in Call :
          /\ pair[c] # 0 <=> task[c] \in {"fetching", "refreshing", "retrying"}
          /\ phase[c] # "idle" <=> task[c] \in {"form", "refreshing", "abandoned"}
          /\ phase[c] # "idle" <=> stage[c] # "outside"

\* AuthContext.jsx:54: several functions refresh at once, from closures that are
\* out of date, the page is reloaded under them, and each stores or deletes what
\* its own answer says.  Still the page has a token that the service has forgotten
\* only while the answer is on its way that makes the page replace or forget it
\* too, or since a reload has cut off the refresh of this very token.
StoredIsKnown ==
    stored # 0 /\ stored \notin rows =>
        \/ stored \in severed
        \/ \E c \in Call :
              /\ task[c] = "refreshing" /\ pair[c] = stored
              /\ phase[c] = "answered" /\ answer[c].status \in {200, 500}

\* AuthContext.jsx:70: whoever is logged out with a token that would still
\* refresh has pressed the button, or has an address that the page cannot read,
\* or a function of an older render came with a spent token, or a request of his
\* was refused or lost.  "Session expired" is said to all of the last.
LiveSessionsEnd ==
    [][stored # 0 /\ stored' = 0 /\ stored \in rows /\ age[stored] # "expired" =>
          \/ LogOut
          \/ effect # 0 /\ effect' = 0 /\ issued[effect].email \in Unreadable
          \/ \E c \in Call :
                /\ pair[c] # 0 /\ pair'[c] = 0
                /\ \/ pair[c] # stored
                   \/ answer[c].status \in {429, 500}
                   \/ losses' # losses \/ failures' # failures]_sessionVars

\* rate_limiter.py:50: a counter that lasts for ever is the work of a failure.
CountersExpire == Limiter!CountersExpire

=============================================================================
