---------------------------- MODULE SessionProofs ----------------------------
(***************************************************************************)
(* The auth service keeps its tables true for any number of calls, users   *)
(* and tokens; the page, the limiter and the service together are one of   *)
(* its behaviours, and never lose the token of a session by themselves.    *)
(***************************************************************************)
EXTENDS Session, TLAPS

\* What a call is at follows from what it asked: the lookup vouches for what
\* the write relies on.
CallsAreInOrder ==
    \A c \in Call :
        /\ phase[c] # "idle" => request[c] \in Request
        /\ phase[c] = "write" /\ request[c].kind = "refresh" =>
              request[c].token \in DOMAIN issued
        /\ answer[c] # NoAnswer => phase[c] = "answered"
        /\ answer[c].status = 201 => request[c].kind = "register"

\* The inductive invariant of the auth service.
AuthInv ==
    /\ TypeOK
    /\ CallsAreInOrder
    /\ RegisteredIsYours
    /\ DestroyedIsReplaced

USE AuthAssumption

-----------------------------------------------------------------------------

LEMMA RequestShape ==
    ASSUME NEW r \in Request
    PROVE  /\ r.kind \in {"register", "login", "refresh"}
           /\ r.kind = "refresh" => r.token \in Token
           /\ r.kind # "refresh" => r.email \in Email /\ r.password \in Password
  BY DEF Request

LEMMA IssuedAt ==
    ASSUME NEW list \in Seq([email : Email, replaces : Nat]), NEW t \in DOMAIN list
    PROVE  list[t].email \in Email /\ t \in 1..Len(list)
  <1>. DEFINE Row == [email : Email, replaces : Nat]
  <1>1. list \in Seq(Row)
    OBVIOUS
  <1>. HIDE DEF Row
  <1>2. list[t] \in Row /\ t \in 1..Len(list)
    BY <1>1
  <1>. QED
    BY <1>2 DEF Row

\* A token that is issued takes the place of the one it names, and of nothing
\* else.
LEMMA IssueEffect ==
    ASSUME TypeOK, DestroyedIsReplaced, NEW c \in Call, NEW e \in Email,
           NEW old \in 0..Len(issued), Issue(c, e, old)
    PROVE  /\ issued' \in Seq([email : Email, replaces : Nat])
           /\ Len(issued') = Len(issued) + 1
           /\ Len(issued') \in Token
           /\ \A t \in DOMAIN issued : t \in DOMAIN issued' /\ issued'[t] = issued[t]
           /\ issued'[Len(issued')] = [email |-> e, replaces |-> old]
           /\ \A t \in DOMAIN issued' : issued'[t].replaces < t
           /\ rows' = (rows \ {old}) \cup {Len(issued')}
           /\ rows' \subseteq DOMAIN issued'
           /\ DestroyedIsReplaced'
           /\ users' = users /\ age' = age /\ request' = request
           /\ phase' = [phase EXCEPT ![c] = "answered"]
           /\ \/ answer' = [answer EXCEPT ![c] = [status |-> 200, token |-> Len(issued')]]
              \/ answer' = [answer EXCEPT ![c] = [status |-> 500]]
  <1>. DEFINE new == Len(issued) + 1
              row == [email |-> e, replaces |-> old]
  <1>1. /\ issued \in Seq([email : Email, replaces : Nat])
        /\ row \in [email : Email, replaces : Nat]
    BY DEF TypeOK
  <1>2. /\ new \in Token
        /\ issued' = Append(issued, row)
        /\ rows' = (rows \ {old}) \cup {new}
        /\ users' = users /\ age' = age /\ request' = request
        /\ phase' = [phase EXCEPT ![c] = "answered"]
        /\ \/ answer' = [answer EXCEPT ![c] = [status |-> 200, token |-> new]]
           \/ answer' = [answer EXCEPT ![c] = [status |-> 500]]
    BY DEF Issue, Committed, Respond
  <1>3. /\ issued' \in Seq([email : Email, replaces : Nat])
        /\ Len(issued') = new
        /\ DOMAIN issued' = DOMAIN issued \cup {new}
        /\ new \notin DOMAIN issued
        /\ issued'[new] = row
        /\ \A t \in DOMAIN issued : issued'[t] = issued[t]
    BY <1>1, <1>2
  <1>. HIDE DEF row
  <1>4. \A t \in DOMAIN issued' : issued'[t].replaces < t
    BY <1>1, <1>3 DEF TypeOK, row
  <1>5. rows' \subseteq DOMAIN issued'
    BY <1>2, <1>3 DEF TypeOK
  <1>6. DestroyedIsReplaced'
    <2>. SUFFICES ASSUME NEW t \in DOMAIN issued'
                  PROVE  t \in rows' \/ \E n \in DOMAIN issued' : issued'[n].replaces = t
      BY DEF DestroyedIsReplaced
    <2>1. CASE t = new
      BY <2>1, <1>2
    <2>2. CASE t = old
      BY <2>2, <1>3 DEF row
    <2>3. CASE t \in DOMAIN issued /\ t # old
      BY <2>3, <1>2, <1>3 DEF DestroyedIsReplaced
    <2>. QED
      BY <1>3, <2>1, <2>2, <2>3
  <1>. QED
    BY <1>2, <1>3, <1>4, <1>5, <1>6 DEF row

LEMMA AuthInitially == Init => AuthInv
  <1>. SUFFICES ASSUME Init PROVE AuthInv
    OBVIOUS
  <1>1. \A c \in Call : phase[c] = "idle" /\ answer[c] = NoAnswer /\ answer[c].status = 0
    BY DEF Init, NoAnswer
  <1>2. TypeOK
    BY DEF Init, TypeOK, Phase
  <1>. QED
    BY <1>1, <1>2 DEF Init, AuthInv, CallsAreInOrder, RegisteredIsYours, DestroyedIsReplaced

\* A refusal, or an answer that is no token.
LEMMA RefuseKeeps ==
    ASSUME AuthInv, NEW c \in Call, phase[c] # "idle",
           NEW status \in {401, 409, 429, 500}, Refuse(c, status)
    PROVE  AuthInv'
  <1>1. /\ UNCHANGED <<users, issued, rows, age, request>>
        /\ phase' = [phase EXCEPT ![c] = "answered"]
        /\ answer' = [answer EXCEPT ![c] = [status |-> status]]
    BY DEF Refuse, Respond, authDb
  <1>2. TypeOK'
    BY <1>1 DEF AuthInv, TypeOK, Phase, Answer
  <1>3. CallsAreInOrder'
    BY <1>1 DEF AuthInv, TypeOK, CallsAreInOrder, NoAnswer
  <1>4. RegisteredIsYours'
    BY <1>1 DEF AuthInv, TypeOK, RegisteredIsYours, EmailOf
  <1>5. DestroyedIsReplaced'
    BY <1>1 DEF AuthInv, DestroyedIsReplaced
  <1>. QED
    BY <1>2, <1>3, <1>4, <1>5 DEF AuthInv

\* The handler found what it looked for.
LEMMA GoOnKeeps ==
    ASSUME AuthInv, NEW c \in Call, phase[c] = "lookup", GoOn(c),
           request[c].kind = "refresh" => TokenOf(c) \in rows
    PROVE  AuthInv'
  <1>1. /\ UNCHANGED <<users, issued, rows, age, request, answer>>
        /\ phase' = [phase EXCEPT ![c] = "write"]
    BY DEF GoOn, authDb
  <1>2. answer[c] = NoAnswer
    BY DEF AuthInv, CallsAreInOrder
  <1>3. TypeOK'
    BY <1>1 DEF AuthInv, TypeOK, Phase
  <1>4. CallsAreInOrder'
    BY <1>1, <1>2 DEF AuthInv, TypeOK, CallsAreInOrder, TokenOf
  <1>5. RegisteredIsYours' /\ DestroyedIsReplaced'
    BY <1>1 DEF AuthInv, RegisteredIsYours, DestroyedIsReplaced, EmailOf
  <1>. QED
    BY <1>3, <1>4, <1>5 DEF AuthInv

LEMMA ReceiveKeeps ==
    ASSUME AuthInv, NEW c \in Call, NEW r \in Request, Receive(c, r)
    PROVE  AuthInv'
  <1>1. /\ UNCHANGED <<users, issued, rows, age, answer>>
        /\ phase[c] = "idle"
        /\ request' = [request EXCEPT ![c] = r]
        /\ phase' = [phase EXCEPT ![c] = "lookup"]
    BY DEF Receive, authDb
  <1>2. answer[c] = NoAnswer /\ answer[c].status # 201
    BY <1>1 DEF AuthInv, CallsAreInOrder, NoAnswer
  <1>3. TypeOK'
    BY <1>1 DEF AuthInv, TypeOK, Phase
  <1>4. CallsAreInOrder'
    BY <1>1, <1>2 DEF AuthInv, TypeOK, CallsAreInOrder
  <1>5. RegisteredIsYours' /\ DestroyedIsReplaced'
    BY <1>1, <1>2 DEF AuthInv, TypeOK, RegisteredIsYours, DestroyedIsReplaced, EmailOf
  <1>. QED
    BY <1>3, <1>4, <1>5 DEF AuthInv

LEMMA CloseKeeps ==
    ASSUME AuthInv, NEW c \in Call, Close(c), UNCHANGED authDb
    PROVE  AuthInv'
  <1>1. /\ UNCHANGED <<users, issued, rows, age>>
        /\ request' = [request EXCEPT ![c] = NoCall]
        /\ phase' = [phase EXCEPT ![c] = "idle"]
        /\ answer' = [answer EXCEPT ![c] = NoAnswer]
    BY DEF Close, authDb
  <1>2. NoAnswer.status # 201
    BY DEF NoAnswer
  <1>3. TypeOK'
    BY <1>1 DEF AuthInv, TypeOK, Phase
  <1>4. CallsAreInOrder'
    BY <1>1, <1>2 DEF AuthInv, TypeOK, CallsAreInOrder
  <1>5. RegisteredIsYours' /\ DestroyedIsReplaced'
    BY <1>1, <1>2 DEF AuthInv, TypeOK, RegisteredIsYours, DestroyedIsReplaced, EmailOf
  <1>. QED
    BY <1>3, <1>4, <1>5 DEF AuthInv

\* login and refresh issue a token; no answer speaks of an account.
LEMMA IssueKeeps ==
    ASSUME AuthInv, NEW c \in Call, phase[c] = "write", NEW e \in Email,
           NEW old \in 0..Len(issued), Issue(c, e, old)
    PROVE  AuthInv'
  <1>1. TypeOK /\ DestroyedIsReplaced
    BY DEF AuthInv
  <1>2. /\ issued' \in Seq([email : Email, replaces : Nat])
        /\ Len(issued') \in Token
        /\ \A t \in DOMAIN issued : t \in DOMAIN issued'
        /\ \A t \in DOMAIN issued' : issued'[t].replaces < t
        /\ rows' \subseteq DOMAIN issued'
        /\ DestroyedIsReplaced'
        /\ users' = users /\ age' = age /\ request' = request
        /\ phase' = [phase EXCEPT ![c] = "answered"]
        /\ \/ answer' = [answer EXCEPT ![c] = [status |-> 200, token |-> Len(issued')]]
           \/ answer' = [answer EXCEPT ![c] = [status |-> 500]]
    <2>. DEFINE new == [status |-> 200, token |-> Len(issued')]
                none == [status |-> 500]
    <2>1. answer' = [answer EXCEPT ![c] = new] \/ answer' = [answer EXCEPT ![c] = none]
      BY <1>1, IssueEffect, Zenon
    <2>. HIDE DEF new, none
    <2>2. /\ issued' \in Seq([email : Email, replaces : Nat])
          /\ Len(issued') \in Token
          /\ \A t \in DOMAIN issued : t \in DOMAIN issued'
          /\ \A t \in DOMAIN issued' : issued'[t].replaces < t
          /\ rows' \subseteq DOMAIN issued'
          /\ DestroyedIsReplaced'
          /\ users' = users /\ age' = age /\ request' = request
          /\ phase' = [phase EXCEPT ![c] = "answered"]
      BY <1>1, IssueEffect, Zenon
    <2>. QED
      BY <2>1, <2>2 DEF new, none
  <1>3. PICK response \in Answer : /\ answer' = [answer EXCEPT ![c] = response]
                                  /\ response.status # 201
    <2>1. /\ [status |-> 200, token |-> Len(issued')] \in Answer
          /\ [status |-> 500] \in Answer
      BY <1>2 DEF Answer
    <2>. QED
      BY <1>2, <2>1
  <1>4. TypeOK'
    BY <1>2, <1>3 DEF AuthInv, TypeOK, Phase, Token
  <1>5. CallsAreInOrder'
    BY <1>2, <1>3 DEF AuthInv, TypeOK, CallsAreInOrder
  <1>6. RegisteredIsYours'
    BY <1>2, <1>3 DEF AuthInv, TypeOK, RegisteredIsYours, EmailOf
  <1>. QED
    BY <1>2, <1>4, <1>5, <1>6 DEF AuthInv

\* An account is created once: whoever has one keeps it.
LEMMA RegisterInsertKeeps ==
    ASSUME AuthInv, NEW c \in Call, RegisterInsert(c)
    PROVE  AuthInv'
  <1>. DEFINE e == request[c].email
  <1>1. /\ phase[c] = "write" /\ request[c].kind = "register"
        /\ request[c] \in Request
    BY DEF RegisterInsert, Asks, AuthInv, CallsAreInOrder
  <1>2. e \in Email /\ request[c].password \in Password
    BY <1>1, RequestShape
  <1>3. CASE users[e] # NoUser
    <2>1. Refuse(c, 500)
      BY <1>3 DEF RegisterInsert, EmailOf
    <2>. QED
      BY <2>1, <1>1, RefuseKeeps
  <1>4. CASE users[e] = NoUser
    <2>1. /\ users' = [users EXCEPT ![e] = request[c].password]
          /\ phase' = [phase EXCEPT ![c] = "answered"]
          /\ UNCHANGED <<issued, rows, age, request>>
      BY <1>4 DEF RegisterInsert, EmailOf, Committed, Respond
    <2>0. PICK status \in {201, 500} : answer' = [answer EXCEPT ![c] = [status |-> status]]
      BY <1>4 DEF RegisterInsert, EmailOf, Committed, Respond
    <2>2. TypeOK'
      BY <1>2, <2>0, <2>1 DEF AuthInv, TypeOK, Phase, Answer
    <2>3. CallsAreInOrder'
      BY <1>1, <2>0, <2>1 DEF AuthInv, TypeOK, CallsAreInOrder
    <2>4. RegisteredIsYours'
      <3>. SUFFICES ASSUME NEW d \in Call, answer'[d].status = 201
                    PROVE  users'[request[d].email] = request[d].password
        BY <2>1 DEF RegisteredIsYours, EmailOf
      <3>1. CASE d = c
        BY <3>1, <1>2, <2>1 DEF AuthInv, TypeOK
      <3>2. CASE d # c
        <4>1. answer[d].status = 201
          BY <3>2, <2>0, <2>1 DEF AuthInv, TypeOK
        <4>2. answer[d] # NoAnswer
          BY <4>1 DEF NoAnswer
        <4>3. request[d] \in Request /\ request[d].kind = "register"
          BY <4>1, <4>2 DEF AuthInv, CallsAreInOrder
        <4>4. request[d].email \in Email /\ request[d].password \in Password
          BY <4>3, RequestShape
        <4>5. users[request[d].email] = request[d].password
          BY <4>1 DEF AuthInv, RegisteredIsYours, EmailOf
        <4>6. request[d].email # e
          BY <4>4, <4>5, <1>4
        <4>. QED
          BY <4>4, <4>5, <4>6, <2>1 DEF AuthInv, TypeOK
      <3>. QED
        BY <3>1, <3>2
    <2>5. DestroyedIsReplaced'
      BY <2>1 DEF AuthInv, DestroyedIsReplaced
    <2>. QED
      BY <2>2, <2>3, <2>4, <2>5 DEF AuthInv
  <1>. QED
    BY <1>3, <1>4

\* A token is issued to a user, in place of one that has been issued.
LEMMA IssueArguments ==
    ASSUME AuthInv, NEW c \in Call, LoginInsert(c) \/ RefreshRotate(c)
    PROVE  /\ phase[c] = "write" /\ request[c].kind \in {"login", "refresh"}
           /\ \E e \in Email, old \in 0..Len(issued) :
                 /\ Issue(c, e, old)
                 /\ old = IF request[c].kind = "refresh" THEN request[c].token ELSE 0
  <1>1. CASE LoginInsert(c)
    <2>1. phase[c] = "write" /\ request[c].kind = "login" /\ Issue(c, request[c].email, 0)
      BY <1>1 DEF LoginInsert, Asks, EmailOf
    <2>2. request[c].email \in Email
      BY <2>1, RequestShape DEF AuthInv, CallsAreInOrder
    <2>3. 0 \in 0..Len(issued)
      BY DEF AuthInv, TypeOK
    <2>. QED
      BY <2>1, <2>2, <2>3
  <1>2. CASE RefreshRotate(c)
    <2>1. /\ phase[c] = "write" /\ request[c].kind = "refresh"
          /\ Issue(c, issued[request[c].token].email, request[c].token)
          /\ request[c].token \in DOMAIN issued
      BY <1>2 DEF RefreshRotate, Asks, TokenOf, AuthInv, CallsAreInOrder
    <2>2. issued \in Seq([email : Email, replaces : Nat])
      BY DEF AuthInv, TypeOK
    <2>3. /\ issued[request[c].token].email \in Email
          /\ request[c].token \in 1..Len(issued)
      BY <2>1, <2>2, IssuedAt, Zenon
    <2>4. request[c].token \in 0..Len(issued)
      BY <2>3
    <2>. QED
      BY <2>1, <2>3, <2>4
  <1>. QED
    BY <1>1, <1>2

LEMMA HandleKeeps ==
    ASSUME AuthInv, NEW c \in Call, Handle(c)
    PROVE  AuthInv'
  <1>1. CASE RegisterLookup(c)
    BY <1>1, GoOnKeeps, RefuseKeeps DEF RegisterLookup, Asks
  <1>2. CASE RegisterInsert(c)
    BY <1>2, RegisterInsertKeeps
  <1>3. CASE LoginLookup(c)
    BY <1>3, GoOnKeeps, RefuseKeeps DEF LoginLookup, Asks
  <1>4. CASE LoginInsert(c) \/ RefreshRotate(c)
    BY <1>4, IssueArguments, IssueKeeps
  <1>5. CASE RefreshLookup(c)
    BY <1>5, GoOnKeeps, RefuseKeeps DEF RefreshLookup, Asks
  <1>7. CASE Abort(c)
    BY <1>7, RefuseKeeps DEF Abort
  <1>. QED
    BY <1>1, <1>2, <1>3, <1>4, <1>5, <1>7 DEF Handle

LEMMA AuthStep == AuthInv /\ [Next]_authVars => AuthInv'
  <1>. SUFFICES ASSUME AuthInv, [Next]_authVars PROVE AuthInv'
    OBVIOUS
  <1>1. ASSUME NEW c \in Call, NEW r \in Request, Receive(c, r) PROVE AuthInv'
    BY <1>1, ReceiveKeeps
  <1>2. ASSUME NEW c \in Call, Handle(c) \/ Throttle(c) PROVE AuthInv'
    BY <1>2, HandleKeeps, RefuseKeeps DEF Throttle
  <1>3. ASSUME NEW c \in Call, Close(c), UNCHANGED authDb PROVE AuthInv'
    BY <1>3, CloseKeeps
  <1>4. ASSUME NEW t \in Token, AccessExpires(t) \/ RefreshExpires(t) PROVE AuthInv'
    <2>1. /\ age' \in [Token -> {"fresh", "stale", "expired"}]
          /\ UNCHANGED <<users, issued, rows, request, phase, answer>>
      BY <1>4 DEF AccessExpires, RefreshExpires, calls, AuthInv, TypeOK
    <2>. QED
      BY <2>1 DEF AuthInv, TypeOK, CallsAreInOrder, RegisteredIsYours,
                  DestroyedIsReplaced, EmailOf
  <1>5. CASE UNCHANGED authVars
    BY <1>5 DEF authVars, authDb, calls, AuthInv, TypeOK, CallsAreInOrder,
                RegisteredIsYours, DestroyedIsReplaced, EmailOf
  <1>. QED
    BY <1>1, <1>2, <1>3, <1>4, <1>5 DEF Next

\* What is issued stays issued, to the same user.
LEMMA IssuedGrows ==
    ASSUME AuthInv, [Next]_authVars
    PROVE  \A t \in DOMAIN issued : t \in DOMAIN issued' /\ issued'[t] = issued[t]
  <1>1. ASSUME NEW c \in Call, NEW e \in Email, NEW old \in 0..Len(issued), Issue(c, e, old)
        PROVE  \A t \in DOMAIN issued : t \in DOMAIN issued' /\ issued'[t] = issued[t]
    BY <1>1, IssueEffect, Zenon DEF AuthInv
  <1>2. CASE \E c \in Call : LoginInsert(c) \/ RefreshRotate(c)
    BY <1>1, <1>2, IssueArguments
  <1>3. CASE UNCHANGED issued
    BY <1>3
  <1>. QED
    BY <1>2, <1>3 DEF Next, authVars, authDb, Receive, Handle, RegisterLookup, RegisterInsert,
                      LoginLookup, RefreshLookup, Abort, GoOn, Refuse, Throttle,
                      AccessExpires, RefreshExpires

-----------------------------------------------------------------------------
(* The session *)

\* What a call asks for follows from what its function of the page is at, a call
\* that nobody waits for spends no token the page still has, unless a reload has
\* cut it off, and a refused refresh tells the truth about its token.
FunctionsAreInOrder ==
    \A c \in Call :
        /\ task[c] = "form" => request[c].kind # "refresh"
        /\ task[c] = "refreshing" =>
              request[c].kind = "refresh" /\ request[c].token = pair[c]
        /\ task[c] = "abandoned" /\ request[c].kind = "refresh" =>
              /\ request[c].token \in 1..Len(issued)
              /\ request[c].token # stored \/ stored \in severed
        /\ task[c] = "refreshing" /\ phase[c] = "answered" =>
              \/ answer[c].status \in {200, 429, 500}
              \/ pair[c] \notin rows \/ age[pair[c]] = "expired"

\* A token on its way to the page is good, and nobody but its own answer knows
\* it: no other function can spend it before the page has stored it.
NewTokensAreUnknown ==
    \A c \in Call : answer[c].status = 200 =>
        /\ answer[c].token \in rows
        /\ answer[c].token # stored
        /\ \A d \in Call :
              /\ pair[d] # answer[c].token
              /\ phase[d] # "idle" /\ request[d].kind = "refresh" =>
                    request[d].token # answer[c].token
        /\ \A d \in Call \ {c} : answer[d].status = 200 => answer[d].token # answer[c].token

PageTypeOK ==
    /\ stored \in 0..Len(issued) /\ effect \in 0..Len(issued)
    /\ severed \subseteq 1..Len(issued)
    /\ task \in [Call -> Task]
    /\ pair \in [Call -> 0..Len(issued)]
    /\ losses \in 0..MaxLosses
    /\ \A c \in Call :
          /\ pair[c] # 0 <=> task[c] \in {"fetching", "refreshing", "retrying"}
          /\ phase[c] # "idle" <=> task[c] \in {"form", "refreshing", "abandoned"}
          /\ phase[c] # "idle" <=> stage[c] # "outside"

PageInv == PageTypeOK /\ FunctionsAreInOrder /\ NewTokensAreUnknown /\ StoredIsKnown

\* An effect that is due has a token that atob refuses.
EffectFails == effect # 0 => issued[effect].email \in Unreadable

\* The inductive invariant of the whole.
SessionInv ==
    /\ AuthInv
    /\ Limiter!TypeOK
    /\ CountersExpire
    /\ PageInv
    /\ EffectFails

USE LimiterAssumption

\* What the steps below need of the types.
LEMMA Types ==
    ASSUME SessionInv
    PROVE  /\ Len(issued) \in Nat /\ DOMAIN issued = 1..Len(issued)
           /\ rows \subseteq 1..Len(issued)
           /\ Len(issued) <= MaxTokens
           /\ request \in [Call -> Request \cup {NoCall}]
           /\ phase \in [Call -> Phase]
           /\ answer \in [Call -> Answer \cup {NoAnswer}]
           /\ stage \in [Call -> Limiter!Stage]
           /\ failures \in 0..MaxFailures
           /\ PageTypeOK /\ FunctionsAreInOrder /\ NewTokensAreUnknown /\ StoredIsKnown
           /\ \A c \in Call : phase[c] # "answered" => answer[c] = NoAnswer
  BY DEF SessionInv, AuthInv, TypeOK, Limiter!TypeOK, PageInv, CallsAreInOrder

LEMMA SessionInitially == SessionInit => SessionInv
  <1>. SUFFICES ASSUME SessionInit PROVE SessionInv
    OBVIOUS
  <1>1. AuthInv
    BY AuthInitially DEF SessionInit
  <1>2. Limiter!TypeOK /\ CountersExpire
    <2>1. ttl \in BOOLEAN
      BY Zenon DEF SessionInit, Limiter!Init
    <2>2. counter = 0 /\ failures = 0 /\ stage = [c \in Call |-> "outside"]
      BY DEF SessionInit, Limiter!Init
    <2>. QED
      BY <2>1, <2>2 DEF Limiter!TypeOK, Limiter!Stage, CountersExpire, Limiter!CountersExpire
  <1>3. /\ issued = <<>> /\ stored = 0 /\ effect = 0 /\ losses = 0 /\ severed = {}
        /\ task = [c \in Call |-> "none"] /\ pair = [c \in Call |-> 0]
        /\ phase = [c \in Call |-> "idle"] /\ stage = [c \in Call |-> "outside"]
        /\ answer = [c \in Call |-> NoAnswer]
    BY DEF SessionInit, Init, Limiter!Init
  <1>4. PageTypeOK
    BY <1>3 DEF PageTypeOK, Task
  <1>5. FunctionsAreInOrder /\ NewTokensAreUnknown /\ StoredIsKnown
    BY <1>3 DEF FunctionsAreInOrder, NewTokensAreUnknown, StoredIsKnown, NoAnswer
  <1>. QED
    BY <1>1, <1>2, <1>3, <1>4, <1>5 DEF SessionInv, PageInv, EffectFails

-----------------------------------------------------------------------------
(* A step of the session is a step of the limiter and one of the service *)

LEMMA LimiterStep ==
    ASSUME Limiter!TypeOK, CountersExpire, [Limiter!Next]_(Limiter!vars)
    PROVE  Limiter!TypeOK' /\ CountersExpire'
  <1>. USE DEF Limiter!TypeOK, Limiter!Stage, CountersExpire, Limiter!CountersExpire
  <1>1. ASSUME NEW c \in Call, Limiter!Arrive(c) PROVE Limiter!TypeOK' /\ CountersExpire'
    BY <1>1 DEF Limiter!Arrive
  <1>2. ASSUME NEW c \in Call, Limiter!Incr(c) PROVE Limiter!TypeOK' /\ CountersExpire'
    BY <1>2 DEF Limiter!Incr, Limiter!Incremented, Limiter!Verdict
  <1>3. ASSUME NEW c \in Call, Limiter!Expire(c) PROVE Limiter!TypeOK' /\ CountersExpire'
    BY <1>3 DEF Limiter!Expire
  <1>4. ASSUME NEW c \in Call, Limiter!RedisFails(c) PROVE Limiter!TypeOK' /\ CountersExpire'
    <2>1. ttl' \in BOOLEAN
      BY <1>4, Zenon DEF Limiter!RedisFails
    <2>2. /\ failures' = failures + 1 /\ failures < MaxFailures
          /\ counter' \in {counter, Limiter!Incremented}
          /\ stage' = [stage EXCEPT ![c] = "admitted"]
      BY <1>4 DEF Limiter!RedisFails
    <2>. QED
      BY <2>1, <2>2 DEF Limiter!Incremented
  <1>5. ASSUME NEW c \in Call, Limiter!Drop(c) PROVE Limiter!TypeOK' /\ CountersExpire'
    BY <1>5 DEF Limiter!Drop
  <1>6. ASSUME NEW c \in Call, Limiter!Leave(c) PROVE Limiter!TypeOK' /\ CountersExpire'
    BY <1>6 DEF Limiter!Leave
  <1>7. CASE Limiter!WindowEnds
    <2>1. ttl' \in BOOLEAN
      BY <1>7, Zenon DEF Limiter!WindowEnds
    <2>2. counter' = 0 /\ UNCHANGED <<stage, failures>>
      BY <1>7 DEF Limiter!WindowEnds
    <2>. QED
      BY <2>1, <2>2
  <1>8. CASE UNCHANGED Limiter!vars
    BY <1>8 DEF Limiter!vars
  <1>. QED
    BY <1>1, <1>2, <1>3, <1>4, <1>5, <1>6, <1>7, <1>8 DEF Limiter!Next

\* What the limiter sees of a step is one of its own.
LEMMA LimiterSteps ==
    ASSUME SessionInv, [SessionNext]_sessionVars
    PROVE  [Limiter!Next]_(Limiter!vars)
  <1>. USE DEF Limiter!vars, limiterVars
  <1>1. ASSUME NEW c \in Call, NEW r, Post(c, r) PROVE Limiter!Next
    BY <1>1 DEF Post, Limiter!Next
  <1>2. ASSUME NEW c \in Call, Take(c) PROVE Limiter!Next
    BY <1>2 DEF Take, Limiter!Next
  <1>3. ASSUME NEW c \in Call, Page(c) PROVE [Limiter!Next]_(Limiter!vars)
    <2>1. CASE Submit(c) \/ Unauthorized(c)
      BY <2>1, <1>1 DEF Submit, Unauthorized
    <2>2. CASE Submitted(c) \/ Refreshed(c) \/ NotRefreshed(c) \/ Discard(c)
      BY <2>2, <1>2 DEF Submitted, Refreshed, NotRefreshed, Discard
    <2>3. CASE Start(c) \/ Answered(c) \/ Retried(c) \/ NetworkFails(c)
      BY <2>3 DEF Start, Answered, Retried, NetworkFails
    <2>4. CASE ServiceFails(c)
      BY <2>4 DEF ServiceFails, Limiter!Next
    <2>. QED
      BY <1>3, <2>1, <2>2, <2>3, <2>4 DEF Page
  <1>4. ASSUME NEW c \in Call, Middleware(c) PROVE Limiter!Next
    BY <1>4 DEF Middleware, Limiter!Next
  <1>5. ASSUME NEW c \in Call, Reject(c) \/ Serve(c) PROVE UNCHANGED Limiter!vars
    BY <1>5 DEF Reject, Serve
  <1>6. CASE LogOut \/ Render \/ DecodeFails \/ Reload \/ TimePasses
    BY <1>6 DEF LogOut, Render, DecodeFails, Reload, TimePasses
  <1>7. CASE WindowEnds
    BY <1>7 DEF WindowEnds, Limiter!Next
  <1>8. CASE UNCHANGED sessionVars
    BY <1>8 DEF sessionVars
  <1>. QED
    BY <1>3, <1>4, <1>5, <1>6, <1>7, <1>8 DEF SessionNext

LEMMA RefreshRequest ==
    ASSUME SessionInv, NEW c \in Call, task[c] = "fetching"
    PROVE  /\ pair[c] \in 1..Len(issued)
           /\ [kind |-> "refresh", token |-> pair[c]] \in Request
  <1>1. pair[c] \in 1..Len(issued) /\ pair[c] \in Token
    BY Types DEF PageTypeOK, Token
  <1>. QED
    BY <1>1 DEF Request

LEMMA AuthSteps ==
    ASSUME SessionInv, [SessionNext]_sessionVars
    PROVE  [Next]_authVars
  <1>. USE DEF authVars, calls
  <1>1. ASSUME NEW c \in Call, NEW r \in Request, Post(c, r) PROVE Next
    BY <1>1 DEF Post, Next
  <1>2. ASSUME NEW c \in Call, Close(c), UNCHANGED authDb PROVE Next
    BY <1>2 DEF Next
  <1>3. ASSUME NEW c \in Call, Page(c) PROVE [Next]_authVars
    <2>1. CASE Submit(c)
      BY <2>1, <1>1 DEF Submit
    <2>2. CASE Unauthorized(c)
      BY <2>2, <1>1, RefreshRequest DEF Unauthorized
    <2>3. CASE Submitted(c) \/ Refreshed(c) \/ NotRefreshed(c) \/ Discard(c)
      BY <2>3, <1>2 DEF Submitted, Refreshed, NotRefreshed, Discard, Take
    <2>4. CASE Start(c) \/ Answered(c) \/ Retried(c) \/ NetworkFails(c)
      BY <2>4 DEF Start, Answered, Retried, NetworkFails
    <2>5. CASE ServiceFails(c)
      BY <2>5, <1>2 DEF ServiceFails
    <2>. QED
      BY <1>3, <2>1, <2>2, <2>3, <2>4, <2>5 DEF Page
  <1>4. ASSUME NEW c \in Call, Middleware(c) PROVE UNCHANGED authVars
    BY <1>4 DEF Middleware
  <1>5. ASSUME NEW c \in Call, Reject(c) \/ Serve(c) PROVE Next
    BY <1>5 DEF Reject, Serve, Next
  <1>6. CASE LogOut \/ Render \/ DecodeFails \/ Reload \/ WindowEnds
    BY <1>6 DEF LogOut, Render, DecodeFails, Reload, WindowEnds
  <1>7. CASE TimePasses
    BY <1>7 DEF TimePasses, Next
  <1>8. CASE UNCHANGED sessionVars
    BY <1>8 DEF sessionVars
  <1>. QED
    BY <1>3, <1>4, <1>5, <1>6, <1>7, <1>8 DEF SessionNext

-----------------------------------------------------------------------------
(* What each step does to the tokens the page and the calls have *)

\* A form is sent, or a refresh.
LEMMA PostKeeps ==
    ASSUME SessionInv, NEW c \in Call, NEW r, Post(c, r),
           UNCHANGED <<stored, effect, pair, losses, severed>>,
           \/ /\ r.kind # "refresh" /\ task[c] = "none"
              /\ task' = [task EXCEPT ![c] = "form"]
           \/ /\ r.kind = "refresh" /\ r.token = pair[c] /\ task[c] = "fetching"
              /\ task' = [task EXCEPT ![c] = "refreshing"]
    PROVE  PageInv'
  <1>1. /\ UNCHANGED <<issued, rows, age, answer>>
        /\ request' = [request EXCEPT ![c] = r]
        /\ phase' = [phase EXCEPT ![c] = "lookup"]
        /\ stage' = [stage EXCEPT ![c] = "counting"]
        /\ phase[c] = "idle"
    BY DEF Post, Receive, Limiter!Arrive, authDb
  <1>2. PageTypeOK'
    BY <1>1, Types DEF PageTypeOK, Task
  <1>3. FunctionsAreInOrder'
    BY <1>1, Types DEF PageTypeOK, FunctionsAreInOrder
  <1>4. NewTokensAreUnknown'
    <2>1. \A d \in Call \ {c} : request'[d] = request[d] /\ phase'[d] = phase[d]
      BY <1>1, Types
    <2>2. request'[c] = r
      BY <1>1, Types
    <2>. QED
      BY <1>1, <2>1, <2>2, Types DEF NewTokensAreUnknown
  <1>5. StoredIsKnown'
    <2>1. \A d \in Call \ {c} : task'[d] = task[d] /\ phase'[d] = phase[d]
      BY <1>1, Types DEF PageTypeOK
    <2>. QED
      BY <1>1, <2>1, Types DEF StoredIsKnown
  <1>. QED
    BY <1>2, <1>3, <1>4, <1>5 DEF PageInv

\* The page takes an answer: it stores the token in it, forgets its own, or
\* leaves it.
LEMMA TakeKeeps ==
    ASSUME SessionInv, NEW c \in Call, Take(c), UNCHANGED <<effect, losses, severed>>,
           \/ /\ answer[c].status = 200 /\ stored' = answer[c].token
              /\ \/ Idle(c)
                 \/ task[c] = "refreshing" /\ Goto(c, "retrying") /\ UNCHANGED pair
           \/ /\ Idle(c)
              /\ \/ stored' = 0
                 \/ stored' = stored /\ task[c] # "refreshing"
    PROVE  PageInv'
  <1>1. /\ UNCHANGED <<issued, rows, age>>
        /\ phase[c] = "answered"
        /\ request' = [request EXCEPT ![c] = NoCall]
        /\ phase' = [phase EXCEPT ![c] = "idle"]
        /\ answer' = [answer EXCEPT ![c] = NoAnswer]
        /\ stage' = [stage EXCEPT ![c] = "outside"]
    BY DEF Take, Close, Limiter!Leave, authDb
  <1>2. \/ /\ task' = [task EXCEPT ![c] = "none"]
           /\ pair' = [pair EXCEPT ![c] = 0]
        \/ /\ task[c] = "refreshing" /\ task' = [task EXCEPT ![c] = "retrying"]
           /\ pair' = pair
    BY DEF Idle, Goto
  <1>3. \/ answer[c].status = 200 /\ stored' = answer[c].token /\ stored' \in rows
        \/ stored' = 0
        \/ stored' = stored /\ task[c] # "refreshing"
    BY Types DEF NewTokensAreUnknown
  <1>4. answer'[c].status # 200
    BY <1>1, Types DEF NoAnswer
  <1>5. PageTypeOK'
    <2>1. stored' \in 0..Len(issued)
      BY <1>3, Types DEF PageTypeOK
    <2>. DEFINE Numbers == 0..Len(issued)
    <2>0. /\ task \in [Call -> Task] /\ pair \in [Call -> Numbers]
          /\ 0 \in Numbers /\ stored \in Numbers
          /\ \A d \in Call : pair[d] # 0 <=> task[d] \in {"fetching", "refreshing", "retrying"}
      BY Types DEF PageTypeOK
    <2>. HIDE DEF Numbers
    <2>2. task' \in [Call -> Task] /\ pair' \in [Call -> Numbers]
      BY <1>2, <2>0 DEF Task
    <2>3. \A d \in Call : pair'[d] # 0 <=> task'[d] \in {"fetching", "refreshing", "retrying"}
      BY <1>2, <2>0 DEF Task
    <2>4. \A d \in Call : /\ phase'[d] # "idle" <=> task'[d] \in {"form", "refreshing", "abandoned"}
                          /\ phase'[d] # "idle" <=> stage'[d] # "outside"
      BY <1>1, <1>2, Types DEF PageTypeOK
    <2>5. /\ losses' \in 0..MaxLosses /\ effect' \in 0..Len(issued)
          /\ severed' \subseteq 1..Len(issued)
      BY Types DEF PageTypeOK
    <2>. QED
      BY <1>1, <2>1, <2>2, <2>3, <2>4, <2>5, Types DEF PageTypeOK, Numbers
  <1>6. FunctionsAreInOrder'
    BY <1>1, <1>2, <1>3, Types DEF PageTypeOK, FunctionsAreInOrder, NewTokensAreUnknown
  <1>7. NewTokensAreUnknown'
    BY <1>1, <1>2, <1>3, <1>4, Types DEF PageTypeOK, NewTokensAreUnknown
  <1>8. StoredIsKnown'
    BY <1>1, <1>2, <1>3, Types DEF PageTypeOK, StoredIsKnown
  <1>. QED
    BY <1>5, <1>6, <1>7, <1>8 DEF PageInv

\* A function ends with its service.
LEMMA ServiceFailsKeeps ==
    ASSUME SessionInv, NEW c \in Call, ServiceFails(c)
    PROVE  PageInv'
  <1>1. /\ UNCHANGED <<issued, rows, age, effect, losses, severed>>
        /\ request' = [request EXCEPT ![c] = NoCall]
        /\ phase' = [phase EXCEPT ![c] = "idle"]
        /\ answer' = [answer EXCEPT ![c] = NoAnswer]
        /\ stage' = [stage EXCEPT ![c] = "outside"]
        /\ task' = [task EXCEPT ![c] = "none"]
        /\ pair' = [pair EXCEPT ![c] = 0]
        /\ stored' = 0 \/ (stored' = stored /\ task[c] # "refreshing")
    BY DEF ServiceFails, Limiter!Drop, Throws, Close, Idle, Goto, authDb
  <1>2. answer'[c].status # 200
    BY <1>1, Types DEF NoAnswer
  <1>3. PageTypeOK'
    BY <1>1, Types DEF PageTypeOK, Task
  <1>4. FunctionsAreInOrder'
    BY <1>1, Types DEF PageTypeOK, FunctionsAreInOrder
  <1>5. NewTokensAreUnknown'
    BY <1>1, <1>2, Types DEF PageTypeOK, NewTokensAreUnknown
  <1>6. StoredIsKnown'
    BY <1>1, Types DEF PageTypeOK, StoredIsKnown
  <1>. QED
    BY <1>3, <1>4, <1>5, <1>6 DEF PageInv

\* A function ends with an exception, and its call goes on.
LEMMA NetworkFailsKeeps ==
    ASSUME SessionInv, NEW c \in Call, NetworkFails(c)
    PROVE  PageInv'
  <1>1. /\ UNCHANGED <<issued, rows, age, request, phase, answer, stage, effect, severed>>
        /\ task[c] # "none" /\ task[c] # "abandoned"
        /\ task' = [task EXCEPT ![c] = IF phase[c] = "idle" THEN "none" ELSE "abandoned"]
        /\ pair' = [pair EXCEPT ![c] = 0]
        /\ stored' = 0 \/ (stored' = stored /\ task[c] # "refreshing")
        /\ losses < MaxLosses /\ losses' = losses + 1
    BY DEF NetworkFails, Throws, Abandoned, Goto, authVars, authDb, calls, limiterVars
  <1>2. PageTypeOK'
    BY <1>1, Types DEF PageTypeOK, Task
  <1>3. FunctionsAreInOrder'
    BY <1>1, Types DEF PageTypeOK, FunctionsAreInOrder
  <1>4. NewTokensAreUnknown'
    BY <1>1, Types DEF PageTypeOK, NewTokensAreUnknown
  <1>5. StoredIsKnown'
    BY <1>1, Types DEF PageTypeOK, StoredIsKnown
  <1>. QED
    BY <1>2, <1>3, <1>4, <1>5 DEF PageInv

\* All functions end, and the calls they wait for go on.
LEMMA ReloadKeeps ==
    ASSUME SessionInv, Reload
    PROVE  PageInv'
  <1>1. /\ UNCHANGED <<issued, rows, age, request, phase, answer, stage, stored, losses>>
        /\ effect' = 0
        /\ task' = [c \in Call |-> IF phase[c] = "idle" THEN "none" ELSE "abandoned"]
        /\ pair' = [c \in Call |-> 0]
        /\ severed' = severed \cup {pair[c] : c \in {d \in Call : task[d] = "refreshing"}}
    BY DEF Reload, Abandoned, authVars, authDb, calls, limiterVars
  <1>2. \A c \in Call : task[c] = "refreshing" => pair[c] \in severed' /\ pair[c] \in 1..Len(issued)
    BY <1>1, Types DEF PageTypeOK
  <1>3. severed \subseteq severed' /\ severed' \subseteq 1..Len(issued)
    BY <1>1, <1>2, Types DEF PageTypeOK
  <1>4. PageTypeOK'
    BY <1>1, <1>3, Types DEF PageTypeOK, Task
  <1>5. FunctionsAreInOrder'
    BY <1>1, <1>2, <1>3, Types DEF PageTypeOK, FunctionsAreInOrder
  <1>6. NewTokensAreUnknown'
    BY <1>1, Types DEF PageTypeOK, NewTokensAreUnknown
  <1>7. StoredIsKnown'
    BY <1>1, <1>2, <1>3, Types DEF StoredIsKnown
  <1>. QED
    BY <1>4, <1>5, <1>6, <1>7 DEF PageInv

\* The page works without the auth service.
LEMMA PageAloneKeeps ==
    ASSUME SessionInv, UNCHANGED <<authVars, limiterVars, losses, severed>>,
           \/ \E c \in Call : Start(c) \/ Answered(c) \/ Retried(c)
           \/ LogOut \/ Render \/ DecodeFails
    PROVE  PageInv'
  <1>1. UNCHANGED <<issued, rows, age, request, phase, answer, stage>>
    BY DEF authVars, authDb, calls, limiterVars
  <1>2. \/ stored' \in {0, stored} /\ UNCHANGED <<task, pair>>
        \/ /\ stored' = stored
           /\ \E c \in Call :
                 /\ task[c] \in {"none", "fetching", "retrying"}
                 /\ \/ /\ task' = [task EXCEPT ![c] = "none"]
                       /\ pair' = [pair EXCEPT ![c] = 0]
                    \/ /\ task' = [task EXCEPT ![c] = "fetching"]
                       /\ \/ pair' = pair /\ task[c] # "none"
                          \/ pair' = [pair EXCEPT ![c] = stored] /\ stored # 0
    BY DEF LogOut, Render, DecodeFails, Start, Answered, Retried, Continue, Goto, Idle
  <1>3. PageTypeOK'
    <2>1. /\ stored' \in 0..Len(issued)
          /\ effect' \in {0, stored, effect} /\ effect' \in 0..Len(issued)
      BY <1>2, Types DEF PageTypeOK, LogOut, Render, DecodeFails, Start, Answered, Retried
    <2>. DEFINE Numbers == 0..Len(issued)
    <2>0. /\ task \in [Call -> Task] /\ pair \in [Call -> Numbers]
          /\ 0 \in Numbers /\ stored \in Numbers
          /\ \A d \in Call : pair[d] # 0 <=> task[d] \in {"fetching", "refreshing", "retrying"}
      BY Types DEF PageTypeOK
    <2>. HIDE DEF Numbers
    <2>2. task' \in [Call -> Task] /\ pair' \in [Call -> Numbers]
      BY <1>2, <2>0 DEF Task
    <2>3. \A d \in Call : pair'[d] # 0 <=> task'[d] \in {"fetching", "refreshing", "retrying"}
      BY <1>2, <2>0 DEF Task
    <2>4. \A d \in Call : phase'[d] # "idle" <=> task'[d] \in {"form", "refreshing", "abandoned"}
      BY <1>1, <1>2, Types DEF PageTypeOK
    <2>5. losses' \in 0..MaxLosses /\ severed' \subseteq 1..Len(issued)
      BY Types DEF PageTypeOK
    <2>. QED
      BY <1>1, <2>1, <2>2, <2>3, <2>4, <2>5, Types DEF PageTypeOK, Numbers
  <1>4. FunctionsAreInOrder'
    BY <1>1, <1>2, Types DEF PageTypeOK, FunctionsAreInOrder
  <1>5. NewTokensAreUnknown'
    BY <1>1, <1>2, Types DEF PageTypeOK, NewTokensAreUnknown
  <1>6. StoredIsKnown'
    BY <1>1, <1>2, Types DEF PageTypeOK, StoredIsKnown
  <1>. QED
    BY <1>3, <1>4, <1>5, <1>6 DEF PageInv

LEMMA MiddlewareKeeps ==
    ASSUME SessionInv, NEW c \in Call, Middleware(c)
    PROVE  PageInv'
  <1>1. /\ UNCHANGED <<issued, rows, age, request, phase, answer, stored, effect, task, pair,
                       losses, severed>>
        /\ stage[c] # "outside"
        /\ \E s \in {"expiring", "admitted", "refused"} : stage' = [stage EXCEPT ![c] = s]
    BY DEF Middleware, Limiter!Incr, Limiter!Verdict, Limiter!Expire, Limiter!RedisFails,
           authVars, authDb, calls, pageVars
  <1>2. PageTypeOK'
    BY <1>1, Types DEF PageTypeOK
  <1>. QED
    BY <1>1, <1>2, Types DEF PageInv, FunctionsAreInOrder, NewTokensAreUnknown, StoredIsKnown

\* What a call that the service is working on was sent for.
LEMMA AtWork ==
    ASSUME SessionInv, NEW c \in Call, phase[c] \in {"lookup", "write"}
    PROVE  /\ task[c] \in {"form", "refreshing", "abandoned"}
           /\ task[c] = "form" => request[c].kind # "refresh"
           /\ task[c] = "refreshing" =>
                 request[c].kind = "refresh" /\ request[c].token = pair[c] /\ pair[c] # 0
           /\ task[c] = "abandoned" /\ request[c].kind = "refresh" =>
                 /\ request[c].token \in 1..Len(issued)
                 /\ request[c].token # stored \/ stored \in severed
           /\ answer[c] = NoAnswer
  BY Types DEF PageTypeOK, FunctionsAreInOrder

\* The service goes on, or answers without a token.
LEMMA AnswerKeeps ==
    ASSUME SessionInv, NEW c \in Call, phase[c] \in {"lookup", "write"},
           UNCHANGED <<issued, rows, age, request, stage, pageVars>>,
           \/ GoOn(c)
           \/ \E status \in {201, 401, 409, 429, 500} :
                 /\ Respond(c, [status |-> status])
                 /\ task[c] = "refreshing" =>
                       \/ status \in {429, 500}
                       \/ pair[c] \notin rows \/ age[pair[c]] = "expired"
    PROVE  PageInv'
  <1>1. /\ UNCHANGED <<stored, effect, task, pair, losses, severed>>
        /\ \/ phase' = [phase EXCEPT ![c] = "write"] /\ answer' = answer
           \/ /\ phase' = [phase EXCEPT ![c] = "answered"]
              /\ \E status \in {201, 401, 409, 429, 500} :
                    /\ answer' = [answer EXCEPT ![c] = [status |-> status]]
                    /\ task[c] = "refreshing" =>
                          \/ status \in {429, 500}
                          \/ pair[c] \notin rows \/ age[pair[c]] = "expired"
    BY DEF GoOn, Respond, pageVars
  <1>2. PageTypeOK'
    BY <1>1, Types DEF PageTypeOK
  <1>3. FunctionsAreInOrder'
    BY <1>1, Types DEF FunctionsAreInOrder
  <1>4. /\ answer[c].status # 200 /\ answer'[c].status # 200
        /\ \A d \in Call \ {c} : answer'[d] = answer[d] /\ phase'[d] = phase[d]
    BY <1>1, AtWork, Types DEF NoAnswer
  <1>5. NewTokensAreUnknown'
    BY <1>1, <1>4, Types DEF NewTokensAreUnknown
  <1>6. StoredIsKnown'
    BY <1>1, <1>4, Types DEF StoredIsKnown
  <1>. QED
    BY <1>2, <1>3, <1>5, <1>6 DEF PageInv

\* A token is issued in place of the one the call came with, or of none.
LEMMA IssueIsUnknown ==
    ASSUME SessionInv, NEW c \in Call, phase[c] = "write", NEW e \in Email,
           NEW old \in 0..Len(issued), Issue(c, e, old),
           old = IF request[c].kind = "refresh" THEN request[c].token ELSE 0,
           UNCHANGED <<stage, pageVars>>
    PROVE  PageInv'
  <1>. DEFINE new == Len(issued')
  <1>1. TypeOK /\ DestroyedIsReplaced
    BY DEF SessionInv, AuthInv
  <1>2. /\ new = Len(issued) + 1
        /\ rows' = (rows \ {old}) \cup {new}
        /\ age' = age /\ request' = request
        /\ phase' = [phase EXCEPT ![c] = "answered"]
        /\ \/ answer' = [answer EXCEPT ![c] = [status |-> 200, token |-> new]]
           \/ answer' = [answer EXCEPT ![c] = [status |-> 500]]
    <2>1. Len(issued') = Len(issued) + 1 /\ rows' = (rows \ {old}) \cup {Len(issued')}
      BY <1>1, IssueEffect, Zenon
    <2>2. age' = age /\ request' = request /\ phase' = [phase EXCEPT ![c] = "answered"]
      BY <1>1, IssueEffect, Zenon
    <2>3. \/ answer' = [answer EXCEPT ![c] = [status |-> 200, token |-> Len(issued) + 1]]
          \/ answer' = [answer EXCEPT ![c] = [status |-> 500]]
      BY DEF Issue, Committed, Respond
    <2>. HIDE DEF new
    <2>4. new = Len(issued')
      BY DEF new
    <2>. QED
      BY <2>1, <2>2, <2>3, <2>4
  <1>. HIDE DEF new
  <1>3. UNCHANGED <<stage, stored, effect, task, pair, losses, severed>>
    BY DEF pageVars
  <1>4. /\ answer[c].status # 200
        /\ answer'[c] = [status |-> 200, token |-> new] \/ answer'[c].status = 500
        /\ phase'[c] = "answered"
        /\ \A d \in Call \ {c} : answer'[d] = answer[d] /\ phase'[d] = phase[d]
    BY <1>2, AtWork, Types DEF NoAnswer
  <1>5. PageTypeOK'
    <2>1. /\ stored' \in 0..new /\ effect' \in 0..new /\ severed' \subseteq 1..new
          /\ pair' \in [Call -> 0..new]
          /\ task' \in [Call -> Task] /\ losses' \in 0..MaxLosses
      BY <1>2, <1>3, Types DEF PageTypeOK
    <2>2. \A d \in Call :
              /\ pair'[d] # 0 <=> task'[d] \in {"fetching", "refreshing", "retrying"}
              /\ phase'[d] # "idle" <=> task'[d] \in {"form", "refreshing", "abandoned"}
              /\ phase'[d] # "idle" <=> stage'[d] # "outside"
      BY <1>2, <1>3, <1>4, Types DEF PageTypeOK
    <2>. QED
      BY <2>1, <2>2 DEF PageTypeOK, new
  <1>6. FunctionsAreInOrder'
    <2>1. \A d \in Call : pair[d] \notin rows => pair[d] \notin rows'
      BY <1>2, Types DEF PageTypeOK
    <2>2. 1..Len(issued) \subseteq 1..new
      BY <1>2, Types
    <2>. QED
      BY <1>2, <1>3, <1>4, <2>1, <2>2, Types DEF FunctionsAreInOrder, new
  <1>7. NewTokensAreUnknown'
    <2>1. /\ new \notin rows /\ new # stored
          /\ \A d \in Call : pair[d] # new
      BY <1>2, Types DEF PageTypeOK
    <2>2. ASSUME NEW d \in Call, phase[d] # "idle", request[d].kind = "refresh"
          PROVE  request[d].token # new
      BY <1>2, <2>2, Types DEF PageTypeOK, FunctionsAreInOrder
    <2>3. phase[c] # "idle"
      OBVIOUS
    <2>4. \A d \in Call \ {c} : answer[d].status = 200 =>
              answer[d].token \in rows' /\ answer[d].token # new
      BY <1>2, <2>1, <2>3, Types DEF NewTokensAreUnknown
    <2>5. \A d \in Call : phase'[d] # "idle" <=> phase[d] # "idle"
      BY <1>4
    <2>. QED
      BY <1>2, <1>3, <1>4, <2>1, <2>2, <2>4, <2>5, Types DEF NewTokensAreUnknown
  <1>8. StoredIsKnown'
    <2>. SUFFICES ASSUME stored # 0, stored \notin rows', stored \notin severed
                  PROVE  \E d \in Call :
                            /\ task[d] = "refreshing" /\ pair[d] = stored
                            /\ phase'[d] = "answered" /\ answer'[d].status \in {200, 500}
      BY <1>3 DEF StoredIsKnown
    <2>1. CASE stored \in rows
      <3>1. stored = old
        BY <1>2, <2>1
      <3>2. task[c] = "refreshing" /\ pair[c] = stored
        BY <3>1, AtWork
      <3>. QED
        BY <1>4, <3>2
    <2>2. CASE stored \notin rows
      BY <2>2, <1>4, Types DEF StoredIsKnown
    <2>. QED
      BY <2>1, <2>2
  <1>. QED
    BY <1>5, <1>6, <1>7, <1>8 DEF PageInv

\* Who refreshes is refused with 401 for a spent or expired token only.
LEMMA ServeKeeps ==
    ASSUME SessionInv, NEW c \in Call, Serve(c) \/ Reject(c)
    PROVE  PageInv'
  <1>1. UNCHANGED <<stage, pageVars>>
    BY DEF Serve, Reject, limiterVars
  <1>2. ASSUME phase[c] \in {"lookup", "write"}, NEW status \in {401, 409, 429, 500},
               Refuse(c, status),
               status \in {429, 500} \/ task[c] # "refreshing"
                  \/ pair[c] \notin rows \/ age[pair[c]] = "expired"
        PROVE  PageInv'
    <2>1. Respond(c, [status |-> status]) /\ UNCHANGED authDb
      BY <1>2 DEF Refuse
    <2>2. UNCHANGED <<issued, rows, age, request>>
      BY <2>1 DEF Respond, authDb
    <2>. QED
      BY <1>1, <1>2, <2>1, <2>2, AnswerKeeps
  <1>3. ASSUME phase[c] \in {"lookup", "write"}, GoOn(c) PROVE PageInv'
    BY <1>1, <1>3, AnswerKeeps DEF GoOn, authDb
  <1>4. CASE Reject(c)
    BY <1>2, <1>4 DEF Reject, Throttle
  <1>5. CASE Handle(c)
    <2>1. CASE RegisterLookup(c)
      BY <2>1, <1>2, <1>3, AtWork DEF RegisterLookup, Asks
    <2>2. CASE RegisterInsert(c)
      <3>1. phase[c] \in {"lookup", "write"} /\ task[c] # "refreshing"
        BY <2>2, AtWork DEF RegisterInsert, Asks
      <3>2. CASE Refuse(c, 500)
        BY <3>1, <3>2, <1>2
      <3>3. CASE Committed(c, [status |-> 201]) /\ UNCHANGED <<issued, rows, age>>
        <4>1. /\ UNCHANGED request
              /\ \E status \in {201, 500} : Respond(c, [status |-> status])
          BY <3>3 DEF Committed, Respond
        <4>. QED
          BY <3>1, <3>3, <4>1, <1>1, AnswerKeeps
      <3>. QED
        BY <2>2, <3>2, <3>3 DEF RegisterInsert
    <2>3. CASE LoginLookup(c)
      BY <2>3, <1>2, <1>3, AtWork DEF LoginLookup, Asks
    <2>4. CASE LoginInsert(c) \/ RefreshRotate(c)
      BY <2>4, <1>1, IssueArguments, IssueIsUnknown DEF SessionInv
    <2>5. CASE RefreshLookup(c)
      BY <2>5, <1>2, <1>3, AtWork DEF RefreshLookup, Asks, TokenOf
    <2>7. CASE Abort(c)
      BY <2>7, <1>2 DEF Abort
    <2>. QED
      BY <1>5, <2>1, <2>2, <2>3, <2>4, <2>5, <2>7 DEF Handle
  <1>. QED
    BY <1>4, <1>5 DEF Serve

\* Tokens only get older, and an expired one stays expired.
LEMMA TimeKeeps ==
    ASSUME SessionInv, TimePasses
    PROVE  PageInv'
  <1>1. /\ UNCHANGED <<issued, rows, request, phase, answer, stage, stored, effect, task, pair,
                       losses, severed>>
        /\ \A t : age[t] = "expired" /\ t \in Token => age'[t] = "expired"
    BY DEF TimePasses, AccessExpires, RefreshExpires, calls, limiterVars, pageVars,
           SessionInv, AuthInv, TypeOK
  <1>2. \A c \in Call : task[c] = "refreshing" => pair[c] \in Token
    BY Types DEF PageTypeOK, Token
  <1>3. FunctionsAreInOrder'
    BY <1>1, <1>2, Types DEF FunctionsAreInOrder
  <1>. QED
    BY <1>1, <1>3, Types DEF PageInv, PageTypeOK, NewTokensAreUnknown, StoredIsKnown

LEMMA PageStep ==
    ASSUME SessionInv, [SessionNext]_sessionVars
    PROVE  PageInv'
  <1>1. ASSUME NEW c \in Call, Page(c) PROVE PageInv'
    <2>1. CASE Submit(c)
      BY <2>1, PostKeeps DEF Submit, Goto
    <2>2. CASE Unauthorized(c)
      BY <2>2, PostKeeps DEF Unauthorized, Goto
    <2>3. CASE Submitted(c)
      BY <2>3, TakeKeeps DEF Submitted
    <2>4. CASE Refreshed(c)
      BY <2>4, TakeKeeps DEF Refreshed
    <2>5. CASE NotRefreshed(c) \/ Discard(c)
      BY <2>5, TakeKeeps DEF NotRefreshed, Discard
    <2>6. CASE Start(c) \/ Answered(c) \/ Retried(c)
      <3>1. UNCHANGED <<authVars, limiterVars, losses, severed>>
        BY <2>6 DEF Start, Answered, Retried
      <3>. QED
        BY <2>6, <3>1, PageAloneKeeps
    <2>7. CASE NetworkFails(c) \/ ServiceFails(c)
      BY <2>7, NetworkFailsKeeps, ServiceFailsKeeps
    <2>. QED
      BY <1>1, <2>1, <2>2, <2>3, <2>4, <2>5, <2>6, <2>7 DEF Page
  <1>2. ASSUME NEW c \in Call, Middleware(c) \/ Reject(c) \/ Serve(c) PROVE PageInv'
    BY <1>2, MiddlewareKeeps, ServeKeeps
  <1>3. CASE LogOut \/ Render \/ DecodeFails \/ Reload
    BY <1>3, PageAloneKeeps, ReloadKeeps DEF LogOut, Render, DecodeFails
  <1>4. CASE TimePasses
    BY <1>4, TimeKeeps
  <1>5. CASE WindowEnds \/ UNCHANGED sessionVars
    <2>1. UNCHANGED <<authVars, stage, pageVars>>
      BY <1>5 DEF WindowEnds, Limiter!WindowEnds, sessionVars, limiterVars
    <2>. QED
      BY <2>1, Types DEF PageInv, PageTypeOK, FunctionsAreInOrder, NewTokensAreUnknown,
                         StoredIsKnown, authVars, authDb, calls, pageVars
  <1>. QED
    BY <1>1, <1>2, <1>3, <1>4, <1>5 DEF SessionNext

-----------------------------------------------------------------------------

\* No token changes hands.
LEMMA EffectStep ==
    ASSUME SessionInv, [SessionNext]_sessionVars
    PROVE  EffectFails'
  <1>1. \/ effect' \in {0, effect}
        \/ effect' = stored /\ stored # 0 /\ issued[stored].email \in Unreadable
    BY DEF SessionNext, Page, Submit, Submitted, Start, Answered, Unauthorized, Refreshed,
           NotRefreshed, Retried, NetworkFails, ServiceFails, Discard, Middleware, Reject,
           Serve, LogOut, Render, DecodeFails, Reload, WindowEnds, TimePasses, pageVars,
           sessionVars
  <1>2. \A t \in 1..Len(issued) : issued'[t] = issued[t]
    BY AuthSteps, IssuedGrows, Types DEF SessionInv
  <1>3. stored \in 0..Len(issued) /\ effect \in 0..Len(issued)
    BY Types DEF PageTypeOK
  <1>4. effect' # 0 => effect' \in 1..Len(issued) /\ issued[effect'].email \in Unreadable
    BY <1>1, <1>3, Types DEF SessionInv, EffectFails
  <1>. QED
    BY <1>2, <1>4 DEF EffectFails

\* The step of LiveSessionsEnd.
EndsForAReason ==
    stored # 0 /\ stored' = 0 /\ stored \in rows /\ age[stored] # "expired" =>
          \/ LogOut
          \/ effect # 0 /\ effect' = 0 /\ issued[effect].email \in Unreadable
          \/ \E c \in Call :
                /\ pair[c] # 0 /\ pair'[c] = 0
                /\ \/ pair[c] # stored
                   \/ answer[c].status \in {429, 500}
                   \/ losses' # losses \/ failures' # failures

LEMMA ReasonStep ==
    ASSUME SessionInv, [SessionNext]_sessionVars
    PROVE  [EndsForAReason]_sessionVars
  <1>. SUFFICES ASSUME SessionNext, stored # 0, stored' = 0,
                       stored \in rows, age[stored] # "expired", ~LogOut, ~DecodeFails
                PROVE  \E c \in Call :
                          /\ pair[c] # 0 /\ pair'[c] = 0
                          /\ \/ pair[c] # stored
                             \/ answer[c].status \in {429, 500}
                             \/ losses' # losses \/ failures' # failures
    BY DEF EndsForAReason, DecodeFails, SessionInv, EffectFails
  <1>1. PICK c \in Call : Submitted(c) \/ Refreshed(c) \/ NotRefreshed(c)
                              \/ NetworkFails(c) \/ ServiceFails(c)
    BY DEF SessionNext, Page, Middleware, Reject, Serve, Render, Reload, WindowEnds,
           TimePasses, pageVars, Submit, Start, Answered, Unauthorized, Retried, Discard
  <1>2. CASE Submitted(c) \/ Refreshed(c)
    <2>1. stored' \in {stored, answer[c].token} /\ (answer[c].status = 200 \/ stored' = stored)
      BY <1>2 DEF Submitted, Refreshed
    <2>2. 0 \notin rows
      BY Types
    <2>. QED
      BY <2>1, <2>2, Types DEF NewTokensAreUnknown
  <1>3. CASE NotRefreshed(c)
    <2>1. /\ task[c] = "refreshing" /\ answer[c].status # 200 /\ phase[c] = "answered"
          /\ pair' = [pair EXCEPT ![c] = 0]
      BY <1>3 DEF NotRefreshed, Take, Idle
    <2>. QED
      BY <2>1, Types DEF FunctionsAreInOrder, PageTypeOK
  <1>4. CASE NetworkFails(c) \/ ServiceFails(c)
    <2>1. /\ task[c] \in {"fetching", "refreshing", "retrying"}
          /\ pair' = [pair EXCEPT ![c] = 0]
      BY <1>4 DEF NetworkFails, ServiceFails, Throws, Idle
    <2>2. losses' = losses + 1 \/ failures' = failures + 1
      BY <1>4 DEF NetworkFails, ServiceFails, Limiter!Drop
    <2>3. losses' # losses \/ failures' # failures
      BY <2>2, Types DEF PageTypeOK
    <2>. QED
      BY <2>1, <2>3, Types DEF PageTypeOK
  <1>. QED
    BY <1>1, <1>2, <1>3, <1>4

LEMMA SessionStep ==
    SessionInv /\ [SessionNext]_sessionVars =>
        /\ SessionInv'
        /\ [Next]_authVars
        /\ [Limiter!Next]_(Limiter!vars)
        /\ [EndsForAReason]_sessionVars
  <1>. SUFFICES ASSUME SessionInv, [SessionNext]_sessionVars
                PROVE  /\ SessionInv'
                       /\ [Next]_authVars
                       /\ [Limiter!Next]_(Limiter!vars)
                       /\ [EndsForAReason]_sessionVars
    OBVIOUS
  <1>1. [Next]_authVars /\ [Limiter!Next]_(Limiter!vars)
    BY AuthSteps, LimiterSteps
  <1>2. AuthInv' /\ Limiter!TypeOK' /\ CountersExpire'
    BY <1>1, AuthStep, LimiterStep DEF SessionInv
  <1>. QED
    BY <1>1, <1>2, PageStep, EffectStep, ReasonStep DEF SessionInv

-----------------------------------------------------------------------------

\* The service alone: whoever was told that he is registered has the account
\* with his password.
THEOREM AccountIsOwn == Spec => []RegisteredIsYours
  <1>1. AuthInv => RegisteredIsYours
    BY DEF AuthInv
  <1>. QED
    BY <1>1, AuthInitially, AuthStep, PTL DEF Spec

\* The service alone: a token is destroyed with the step that issues the one
\* in its place.
THEOREM RotationIsAtomic == Spec => []DestroyedIsReplaced
  <1>1. AuthInv => DestroyedIsReplaced
    BY DEF AuthInv
  <1>. QED
    BY <1>1, AuthInitially, AuthStep, PTL DEF Spec

\* Whatever page, network and limiter do, the auth service they are composed
\* with is the auth service.
THEOREM SessionImplementsAuth == SessionSpec => Spec
  <1>1. SessionInit => Init
    BY DEF SessionInit
  <1>. QED
    BY <1>1, SessionInitially, SessionStep, PTL DEF SessionSpec, Spec

\* The same of the limiter.
THEOREM SessionImplementsLimiter == SessionSpec => Limiter!Spec
  <1>1. SessionInit => Limiter!Init
    BY DEF SessionInit
  <1>. QED
    BY <1>1, SessionInitially, SessionStep, PTL DEF SessionSpec, Limiter!Spec

\* Every variable has its type, and a function of the page, its call and its
\* place in the middleware agree.
THEOREM SessionTypes == SessionSpec => []SessionTypeOK
  <1>1. SessionInv => SessionTypeOK
    BY DEF SessionInv, AuthInv, PageInv, PageTypeOK, SessionTypeOK
  <1>. QED
    BY <1>1, SessionInitially, SessionStep, PTL DEF SessionSpec

\* Without a failure no counter outlives its window.
THEOREM LimiterForgets == SessionSpec => []CountersExpire
  <1>1. SessionInv => CountersExpire
    BY DEF SessionInv
  <1>. QED
    BY <1>1, SessionInitially, SessionStep, PTL DEF SessionSpec

\* The page keeps a token that the service has forgotten only while the answer is
\* on its way that ends this, or since a reload has cut off the refresh of it.
THEOREM SessionIsKnown == SessionSpec => []StoredIsKnown
  <1>1. SessionInv => StoredIsKnown
    BY DEF SessionInv, PageInv
  <1>. QED
    BY <1>1, SessionInitially, SessionStep, PTL DEF SessionSpec

\* No session with a good token ends without the user, an address that atob
\* refuses, an outdated function of the page, a refusal or a failure.
THEOREM SessionsEndForAReason == SessionSpec => LiveSessionsEnd
  <1>. QED
    BY SessionInitially, SessionStep, PTL DEF SessionSpec, LiveSessionsEnd, EndsForAReason

=============================================================================
