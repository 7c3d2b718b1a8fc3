----------------------------- MODULE AuthService -----------------------------
(***************************************************************************)
(* The auth service (services/auth/routes.py): register, login and refresh *)
(* as overlapping calls on auth_db.  Within a call every statement is a    *)
(* step, save that refresh's DELETE, INSERT and COMMIT are one: a DELETE   *)
(* that waits for another one of the same row deletes nothing when it is   *)
(* let go, and the code does not look at how many rows it deleted.         *)
(*                                                                         *)
(* A refresh token is the number of its issue, and so is the access token  *)
(* issued with it: the code draws the former at random, and stores its     *)
(* hash.                                                                   *)
(***************************************************************************)
EXTENDS Naturals, Sequences

CONSTANTS
    Call,             \* calls that may be in the service at once
    Email,
    Password,
    NoUser,           \* no row in users
    NoCall,           \* a call that is not in the service
    MaxTokens         \* bound: tokens issued

ASSUME AuthAssumption == NoUser \notin Password /\ MaxTokens \in Nat

VARIABLES
    users,            \* table users, by its UNIQUE email
    issued,           \* the tokens ever issued, with the token they replace, or 0
    rows,             \* table refresh_tokens
    age,              \* "fresh"; "stale" after 15 minutes, when the access token has
                      \* expired; "expired" after 7 days, when both have
    request,          \* what a call asks
    phase,            \* how far it is
    answer            \* its response: a status and, with 200, a token

authDb   == <<users, issued, rows, age>>
calls    == <<request, phase, answer>>
authVars == <<authDb, calls>>

Token == 1..MaxTokens

Request ==
    [kind : {"register", "login"}, email : Email, password : Password]
        \cup [kind : {"refresh"}, token : Token]

Phase == {"idle", "lookup", "write", "answered"}

Answer == [status : {201, 401, 409, 429, 500}] \cup [status : {200}, token : Token]

NoAnswer == [status |-> 0]

Init ==
    /\ users = [e \in Email |-> NoUser]
    /\ issued = <<>>
    /\ rows = {}
    /\ age = [t \in Token |-> "fresh"]
    /\ request = [c \in Call |-> NoCall]
    /\ phase = [c \in Call |-> "idle"]
    /\ answer = [c \in Call |-> NoAnswer]

-----------------------------------------------------------------------------

Receive(c, r) ==
    /\ phase[c] = "idle"
    /\ request' = [request EXCEPT ![c] = r]
    /\ phase' = [phase EXCEPT ![c] = "lookup"]
    /\ UNCHANGED <<authDb, answer>>

Asks(c, kind, at) == phase[c] = at /\ request[c].kind = kind

\* The handler goes on to its writes.
GoOn(c) ==
    /\ phase' = [phase EXCEPT ![c] = "write"]
    /\ UNCHANGED <<authDb, request, answer>>

Respond(c, response) ==
    /\ phase' = [phase EXCEPT ![c] = "answered"]
    /\ answer' = [answer EXCEPT ![c] = response]
    /\ UNCHANGED request

Refuse(c, status) == Respond(c, [status |-> status]) /\ UNCHANGED authDb

\* The client has the answer, or has given up, or the process has died.
Close(c) ==
    /\ request' = [request EXCEPT ![c] = NoCall]
    /\ phase' = [phase EXCEPT ![c] = "idle"]
    /\ answer' = [answer EXCEPT ![c] = NoAnswer]

\* The transaction has committed.  If the connection breaks before it is told so,
\* the handler raises all the same.
Committed(c, response) ==
    Respond(c, response) \/ Respond(c, [status |-> 500])

\* A new row in refresh_tokens, issued to e in place of token old.
Issue(c, e, old) ==
    LET new == Len(issued) + 1
    IN  /\ new \in Token
        /\ issued' = Append(issued, [email |-> e, replaces |-> old])
        /\ rows' = (rows \ {old}) \cup {new}
        /\ Committed(c, [status |-> 200, token |-> new])
        /\ UNCHANGED <<users, age>>

-----------------------------------------------------------------------------
(* register *)

EmailOf(c) == request[c].email

RegisterLookup(c) ==
    /\ Asks(c, "register", "lookup")
    /\ IF users[EmailOf(c)] = NoUser THEN GoOn(c) ELSE Refuse(c, 409)

\* Mutant: ON CONFLICT DO UPDATE.
RegisterInsertUpserts(c) ==
    /\ Asks(c, "register", "write")
    /\ users' = [users EXCEPT ![EmailOf(c)] = request[c].password]
    /\ Respond(c, [status |-> 201])
    /\ UNCHANGED <<issued, rows, age>>

\* UniqueViolationError is not caught: 500.
RegisterInsert(c) ==
    /\ Asks(c, "register", "write")
    /\ IF users[EmailOf(c)] = NoUser
       THEN /\ users' = [users EXCEPT ![EmailOf(c)] = request[c].password]
            /\ Committed(c, [status |-> 201])
            /\ UNCHANGED <<issued, rows, age>>
       ELSE Refuse(c, 500)

-----------------------------------------------------------------------------
(* login *)

LoginLookup(c) ==
    /\ Asks(c, "login", "lookup")
    /\ IF users[EmailOf(c)] = request[c].password THEN GoOn(c) ELSE Refuse(c, 401)

LoginInsert(c) ==
    /\ Asks(c, "login", "write")
    /\ Issue(c, EmailOf(c), 0)

-----------------------------------------------------------------------------
(* refresh *)

TokenOf(c) == request[c].token

\* Mutant: the refresh token expires with its access token.
RefreshLookupFresh(c) ==
    /\ Asks(c, "refresh", "lookup")
    /\ IF TokenOf(c) \in rows /\ age[TokenOf(c)] = "fresh" THEN GoOn(c) ELSE Refuse(c, 401)

\* The DELETE of an expired row is undone by the exception that follows it.
RefreshLookup(c) ==
    /\ Asks(c, "refresh", "lookup")
    /\ IF TokenOf(c) \in rows /\ age[TokenOf(c)] # "expired" THEN GoOn(c) ELSE Refuse(c, 401)

\* Mutant: two transactions, of which the first deletes.
RefreshRotateTwice(c) ==
    /\ Asks(c, "refresh", "write")
    /\ \/ /\ TokenOf(c) \in rows
          /\ rows' = rows \ {TokenOf(c)}
          /\ UNCHANGED <<users, issued, age, calls>>
       \/ /\ TokenOf(c) \notin rows
          /\ Issue(c, issued[TokenOf(c)].email, TokenOf(c))

\* Mutant: DELETE ... WHERE user_id: every session of the user ends.
RefreshRotateAll(c) ==
    LET new == Len(issued) + 1
        e   == issued[TokenOf(c)].email
    IN  /\ Asks(c, "refresh", "write")
        /\ new \in Token
        /\ issued' = Append(issued, [email |-> e, replaces |-> TokenOf(c)])
        /\ rows' = {t \in rows : issued[t].email # e} \cup {new}
        /\ Respond(c, [status |-> 200, token |-> new])
        /\ UNCHANGED <<users, age>>

\* The row may have been deleted since the lookup.
RefreshRotate(c) ==
    /\ Asks(c, "refresh", "write")
    /\ Issue(c, issued[TokenOf(c)].email, TokenOf(c))

-----------------------------------------------------------------------------

\* The database raises, and has rolled back.
Abort(c) ==
    /\ phase[c] \in {"lookup", "write"}
    /\ Refuse(c, 500)

\* The middleware raises its 429 in front of the handlers, where it is for the
\* framework to say whether the client sees that or a 500.
Throttle(c) == phase[c] = "lookup" /\ \E status \in {429, 500} : Refuse(c, status)

\* Time passes.  All tokens live equally long: the older one expires first.
AccessExpires(t) ==
    /\ t \in DOMAIN issued /\ age[t] = "fresh"
    /\ \A s \in 1..t - 1 : age[s] # "fresh"
    /\ age' = [age EXCEPT ![t] = "stale"]
    /\ UNCHANGED <<users, issued, rows, calls>>

RefreshExpires(t) ==
    /\ t \in DOMAIN issued /\ age[t] = "stale"
    /\ \A s \in 1..t - 1 : age[s] = "expired"
    /\ age' = [age EXCEPT ![t] = "expired"]
    /\ UNCHANGED <<users, issued, rows, calls>>

Handle(c) ==
    \/ RegisterLookup(c) \/ RegisterInsert(c)
    \/ LoginLookup(c) \/ LoginInsert(c)
    \/ RefreshLookup(c) \/ RefreshRotate(c)
    \/ Abort(c)

Next ==
    \/ \E c \in Call :
          \/ \E r \in Request : Receive(c, r)
          \/ Handle(c) \/ Throttle(c)
          \/ Close(c) /\ UNCHANGED authDb
    \/ \E t \in Token : AccessExpires(t) \/ RefreshExpires(t)

Spec == Init /\ [][Next]_authVars

-----------------------------------------------------------------------------
(* Properties *)

TypeOK ==
    /\ users \in [Email -> Password \cup {NoUser}]
    /\ issued \in Seq([email : Email, replaces : Nat])
    /\ Len(issued) <= MaxTokens
    /\ \A t \in DOMAIN issued : issued[t].replaces < t
    /\ rows \subseteq DOMAIN issued
    /\ age \in [Token -> {"fresh", "stale", "expired"}]
    /\ request \in [Call -> Request \cup {NoCall}]
    /\ phase \in [Call -> Phase]
    /\ answer \in [Call -> Answer \cup {NoAnswer}]

\* routes.py:45: the lookup and the INSERT are two statements.  Whoever is
\* answered 201 has the account, with his password, whoever else registered
\* the address meanwhile.
RegisteredIsYours ==
    \A c \in Call :
        answer[c].status = 201 => users[EmailOf(c)] = request[c].password

\* SYSTEM_FLOW.md:630: a crash in the middle of a rotation never destroys a
\* token without the one that takes its place.
DestroyedIsReplaced ==
    \A t \in DOMAIN issued : t \in rows \/ \E n \in DOMAIN issued : issued[n].replaces = t

\* SYSTEM_FLOW.md:633: with rotation each token works exactly once.
WorksOnce ==
    \A m, n \in DOMAIN issued :
        issued[m].replaces = issued[n].replaces /\ issued[m].replaces # 0 => m = n

=============================================================================
