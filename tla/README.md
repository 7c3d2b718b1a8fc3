# food_flow, verified

This directory holds the TLA+ model of food_flow: the asynchronous saga that takes an
order from `POST /orders` through stock reservation and payment to a final status, over
three services with a database each and a Kafka broker between them. TLC checks the model
on small instances, and TLAPS proves the central theorems for every value of the constants.

## The system

| component | source | state | operations | interacts by |
|---|---|---|---|---|
| order API | `services/order/routes.py` | `orders`, `outbox_events` | `create_order`; `get_order` reads | HTTP in; outbox out |
| order consumer | `services/order/consumers.py`, `state_machine.py` | `orders`, `processed_events`, `outbox_events` | `_handle_message`: confirm, fail and compensate, refuse | `payment.succeeded`, `payment.failed`, `stock.rejected` in; `stock.release` out |
| restaurant | `services/restaurant/consumers.py`, `stock.py` | `menu_item_stock`, `stock_reservations`, `processed_events`, `outbox_events` | reserve, reject, release | `order.placed`, `stock.release` in; `stock.reserved`, `stock.rejected` out |
| payment consumer | `services/payment/consumers.py`, `gateway.py` | `payments`, `processed_events`, `outbox_events` | Transaction 1, gateway, Transaction 2 | `stock.reserved` in; the two outcome events out |
| reconciler | `services/payment/reconciliation.py` | the same tables, a list in memory | fetch the stuck payments, gateway, settle | shares `payment_db` with the payment consumer |
| outbox relay | `shared/outbox.py` | `published_at`, row locks | lock a row, send, mark | one task per service, outbox to topic |
| consumer loop | `run_consumer` of each service, `shared/kafka.py` | position, committed offset | getmany, handle, commit | topic to handler |
| auth | `services/auth/routes.py`, `auth.py`, `models.py` | `users`, `refresh_tokens` | register, login, refresh with rotation | HTTP in; issues the token the order API verifies |
| rate limiter | `services/auth/rate_limiter.py`, `redis_client.py` | one counter in Redis, with an expiry | INCR, EXPIRE, pass on or refuse | middleware in front of auth |
| frontend session | `frontend/src/context/AuthContext.jsx`, the forms, `Dashboard.jsx` | the pair of tokens, in `localStorage` and in closures | log in, fetch, refresh, retry, log out, reload, decode the token after a render | HTTP through nginx |
| frontend cart | `frontend/src/pages/Dashboard.jsx` | cart, idempotency key, in the page | place an order, poll | HTTP through nginx |
| nginx, health, metrics, logging, pools | `nginx`, `shared`, `*/db.py` | none of their own | routing, observation, start-up | |

What is hard about it: two calls that share an idempotency key; duplicate, late and
contradictory events; a relay that dies between the broker's acknowledgement and its
`UPDATE`; a consumer that commits a whole batch whether or not its handlers raised; a
payment that two tasks settle at once; a process that dies between two transactions of
one handler; replicas that lock the same rows in opposite orders; several functions of one
page that refresh with one token, each from a closure that is out of date, and a page that is
reloaded under them. `PROJECT.json` lists each hazard at its line, with the properties that
watch it, or why none does.

What makes each part correct:

- order service: failure and compensation are one commit, a terminal status is final, a
  retried call orders once, an order in the table has been announced;
- restaurant: stock moves between the menu and one reservation, never into thin air, also
  when two replicas work on the same rows, and every handler comes to an end;
- payment: a charge has a durable record, the row and the events say the same, everything
  stuck is settled;
- relay and loop: nothing is lost, duplicates cost a failure, nothing is reordered within
  a topic on the way to a handler;
- session: no rotation destroys a token without putting one in its place, the page keeps a
  forgotten token only while the answer that ends this is on its way or when a reload has
  cut off the refresh, and nobody with a good token is logged out except by one of the known
  causes;
- rate limiter: a counter that never expires needs a failure;
- the whole: what the client reads is true in all three databases, and the system does
  step by step what one store without messages would do.

## The modules

| module | models | notes |
|---|---|---|
| `Events` | `shared/events.py`, the payloads | ids, envelopes, `Emit` = the `INSERT INTO outbox_events` |
| `OrderService` | `order_db` and its consumer, the commit of `create_order` | one action per branch of `_handle_message` |
| `OrderApi` | overlapping `create_order` calls | extends `OrderService`; lookup and insert are two steps |
| `RestaurantService` | `restaurant_db`, its consumer, `stock.py` | one action per branch, as in `FoodFlow` |
| `StockLocking` | the same handlers statement by statement, for several replicas | extends `RestaurantService`; row locks, savepoint, deadlock victims |
| `PaymentService` | `payment_db`, consumer and reconciler | a step per await |
| `Kafka` | topics, positions, offsets | abstract: one message at a time |
| `ConsumerLoop` | `run_consumer` in full | implements `Kafka` |
| `Outbox` | what an outbox promises | abstract: send, then mark |
| `OutboxRelay` | `run_outbox_relay` with its locks and writers | implements `Outbox` |
| `Pipeline` | relays, topics and consumer loop together | extends `ConsumerLoop`, an `INSTANCE` of `OutboxRelay` |
| `FoodFlow` | all of the above together | `INSTANCE`s of the services, of `Kafka` and of three `Outbox`es |
| `Saga` | one store, no messages | what `FoodFlow` implements |
| `AuthService` | `services/auth/routes.py` | a step per statement; calls overlap |
| `RateLimiter` | `RateLimitMiddleware` | INCR and EXPIRE are two steps |
| `Session` | the page with its functions, the limiter and the auth service | extends `AuthService`, an `INSTANCE` of `RateLimiter` |
| `MC*` | constants and bounds for TLC | |
| `EventLemmas`, `*Proofs` | the proofs | |

Names follow the code: tables are variables, branches of a handler are actions. A handler
is one database transaction, so it is one step, except in the payment service where a
handler is two transactions with the gateway between them and hence three steps, and in
`StockLocking`, `AuthService` and `OrderApi`, where overlapping handlers are the point. A handler
that raises changes nothing: in the service modules that is `Refused`, where the code
itself raises, and in the composition `HandlerRaises`, which stands for a failing database
or a bad payload.

Each service module can be run alone, against an environment that delivers any event of
`Delivery`, any number of times and in any order. That is more than Kafka ever does, so
an invariant of a service alone holds in any composition. In `FoodFlow` the events come
from the other services.

A few operators carry the comment "Mutant". They are wrong versions of the definition
below them and are used by nothing: replacing the definition by its mutant must break the
property that `PROJECT.json` names with it.

### Abstractions

- A basket is a function from items to quantities. `reserve_stock` walks a list, but every
  line is checked against what earlier lines left, inside one savepoint, so a list with
  repeated items is reserved exactly when its sum fits.
- Quantities are naturals. The code does not validate them (SYSTEM_FLOW.md:2168), and a
  negative quantity would break `StockConserved`.
- Prices, amounts, e-mail addresses and time stamps are left out. `stale` stands for
  "`updated_at` is more than three minutes ago", and time may pass at any moment.
- Event ids are unique (`uuid4`), and so is the id of an order.
- In `FoodFlow` one instance of each service runs, as in `docker-compose.yml`, with one
  consumer task and one reconciler; topics have one partition. `Pipeline` has several relays
  on an outbox, because the comment of `shared/outbox.py` speaks of concurrent ones, and
  `StockLocking` several consumers, because the `FOR UPDATE` of `stock.py` is there for them.
- `StockLocking` runs under READ COMMITTED, PostgreSQL's default. From the `INSERT` or
  `DELETE` on `stock_reservations` to `COMMIT` is one step: what waits there waits for a
  transaction that is as far, and ends the same way whichever comes first. An item list
  names an item once; the order of the list is the order of the locks.
- A refresh token is the number of its issue, and the access token of the same answer has
  that number too. All tokens of a kind live equally long, so they expire in the order of
  their issue. Passwords are compared as they are: bcrypt is taken at its word.
- The limiter's counter stops at one above the limit: the code tells no more apart. Its
  window ends 60 seconds after an EXPIRE, that is, at any moment once there is an expiry.
  Whether the 429 that the middleware raises reaches the client as such, or as a 500 of the
  framework around it, is left open; the page treats both alike.
- `Session` has one tab. Two functions of the page are at work at once; each keeps the
  tokens of the render it was created in. The services behind the access token look at its
  expiry only. A function that a reload, or the loss of a request, has ended leaves its call
  behind (`"abandoned"`): the service goes on with it, and nobody reads the answer.
- The payload of a token is base64url, and `atob` refuses a `-` or `_`. Whether one is in it
  is for the e-mail address to say: the set `Unreadable`. The failing effect of a render is
  two steps, `Render` and `DecodeFails`, because other functions of the page can come in
  between; an effect that succeeds changes nothing that is modelled.
- A commit of the auth service may lose its acknowledgement, in which case the answer is a
  500 (`Committed`); any statement before it may raise (`Abort`), which rolls back.
- The payment consumer decides by the directive of the event in its hands (`directive`), the
  reconciler by that of the row, which it has in its list; no statement ever changes that column,
  so the list is as good as the row.
- A send that the broker acknowledged is one record; a send that raised is none or one.
- No topic is read by two groups, so positions and offsets are indexed by topic.
- `Outbox!Publish` sends and marks in one step. Between the two only the relay itself
  reads `published`, so the steps commute with everything else; the interrupted case, in
  which the mark never comes, is the separate action `RelayInterrupted`.
- The death of a consumer *loop* (an exception of `getmany` or `commit`) is in
  `ConsumerLoop` only. It is a stutter of `Kafka`. It also ends all progress of the group
  until the process restarts, so the liveness below is about loops that live.
- An empty `Idempotency-Key` is a key like any other for the `INSERT` and none for the
  lookup, as in `routes.py`.

## The runs

| run | question | bounds |
|---|---|---|
| `order_api` | do overlapping, lost and repeated calls and any outcome events leave `order_db` consistent? | 3 calls, 2 users, 1 key and the empty one, 2 orders, 2 ids per event type and order |
| `order_api_race` | is the loser of a race answered with the existing order? **no** | same |
| `stock_locking` | do replicas keep the books, through lock waits, rollbacks and deadlocks, and finish? | 2 replicas, 2 orders that name 2 items in opposite orders, 2 pizzas of which 3 are wanted, one order placed by 2 events |
| `payment` | do the two tasks agree, through interruptions, and finish? | 2 orders with different directives, 2 ids each, 2 interruptions |
| `payment_charges` | is an order charged at most once? **no** | same |
| `pipeline` | do relays and loop implement `Outbox` and `Kafka`, and does every row reach a handler? | 2 relays, 2 writers, 2 topics, 1 failure of a relay, 1 restart of the consumer |
| `consumer_commit` | is an offset committed only after success? **no** | 2 topics, 2 messages each, 2 restarts |
| `contention` | is the status true, stock conserved, the `Saga` implemented? | 2 orders for 1 pizza, a handler that raises once |
| `crash` | do the databases agree at rest after a failure anywhere, and what is lost? | 2 failing orders for 1 pizza, 1 fault or 1 handler that raises |
| `liveness` | is every order decided as asked, and compensated? | 1 order of any directive, also one too large, 2 faults |
| `session` | do page, limiter and auth service keep a session alive that could live? | 2 functions of the page, 1 address, 2 passwords, 3 tokens, limit 1, 1 failure of any kind or 1 reload, 1 unreadable address |
| `refresh_once` | is a refresh token exchanged at most once? **no** | same with limit 2, and without the action constraints |

Why these bounds suffice to be interesting: two orders are the fewest that compete for
stock, two ids the fewest with which an event is both redelivered and contradicted, three
calls the fewest with a winner, a loser of the race and a later retry; two relays make
locks matter, two messages make a batch; two functions of a page are the fewest of which one
is out of date, three tokens the fewest with a token, its successor, and a successor's
successor or rival. A limit of 1 lets the second request of a window be refused, also while
the first is still under way. Services interact about one order at a time, save
through stock. Faults are bounded by `MaxFaults`, `MaxDrops`, `MaxLosses`,
`MaxFailures` and `MaxRestarts`, named in the guards; `MaxTokens` and `MaxMessages` bound
what is issued and fetched. `OneFailure`, an action constraint of the `crash` run, keeps
faults and drops together to one.

The `session` run has four action constraints. `OneFault` allows one failure, loss or severed
refresh, and none of them while a failing effect is due. `Reloads` lets the page be reloaded once,
while a refresh is on its way that can still issue a token; a reload at another time cuts off no
rotation. `Effects` lets the effect fail for the first token only, which leaves two more that may
be stored when it comes to `logout()`. `Forms` puts registrations before the first token and
logins before the second: a session may give way to another login or to refreshes. The
constraints keep the run within minutes; what they leave out (two faults, a third login) TLC
does not see, and the theorems do: they hold without them.

`crash` uses orders that ask for failure: that is the path with every event type but
`payment.succeeded` on it, and the only one with a compensation to lose or repeat.
The others ask for both. It is symmetric in the orders, and checks no liveness.

`CommitsMatter`, an action constraint of the `FoodFlow` runs, drops offset commits once no
crash is left in the budget. An offset is read by a crash alone; from then on the constraint
removes nothing that a property or another action can see. Commits are not fair, so it
removes no progress either.

`PlacedEarly`, an action constraint of the `crash` run, lets an order be placed only while no
`order.placed` is on the log. An order whose event is not relayed yet is seen by its client
alone, and its event can stay unrelayed or unread for any time, so a run that places it later
has a counterpart that places it early. The two differ in the numbers of the outbox rows
alone. The `contention` and `liveness` runs do not use it.

Deadlock checking is off in all runs: every instance is finite and comes to rest when its
orders are decided and its faults used. The liveness properties say what must have
happened by then.

### What the runs show

The properties that hold are stated, with their comments, at the end of each module. The
ones that say most:

- `KeepsPromise`: through contention and a dropped message, every step of the distributed
  system is a step of `Saga` or invisible to it. In particular a client is told
  `PAYMENT_FAILED` before the stock is returned and never told anything the databases
  contradict.
- `ConsistentAtRest`: after a crash, an interrupted relay or a lost task anywhere, when
  nothing is left to do the three databases agree on every order. A handler that raises loses
  one order, and no other with it.
- `OrdersSettle`, `FailuresAreCompensated`: they get there. Both need `MaxDrops = 0`; a
  message whose handler raises is never delivered again, and its order stays `PENDING`
  (SYSTEM_FLOW.md:2166 and 2170 say so).
- `ChargesNeedFaults`: the double charge of README.md:148 stays one. A customer pays twice if
  consumer and reconciler meet without any failure, and once more for every crash or lost task.
  The bound is tight.
- `OutcomesAgree`: a consumer slower than the reconciler settles a payment twice and sends
  two outcome events, one by the directive of the event and one by that of the row. They
  agree, because Transaction 1 persists the one as the other (migration 002).
- `DuplicatesNeedFailures`: the row locks do what the comment of `outbox.py` says.

- `DraftsAreCurrent` and `ReadStaysTrue`: the `FOR UPDATE` of `reserve_stock` is needed and
  enough, and `release_stock` gets by without one because two replicas that read the same
  reservation collide in the ledger. `DeadlockNeedsOpposedLines`: the deadlock of README.md:151
  needs two lists in opposite orders; `HandlersReturn`: PostgreSQL breaks it and both
  handlers end.
- `EventsReachHandlers`: from the commit of a row to a handler, whatever fails on the way,
  unless the loop itself has died.
- `StoredIsKnown`: rotation and stale closures together leave the page with a forgotten token
  only while the answer is on its way that replaces it (200) or ends the session (a 500 of a
  handler whose commit went through). There is one exception, and it stays: the page was
  reloaded while that very token was being exchanged, so that neither the answer nor the
  `catch` came. The next 401 then ends the session.
- `LiveSessionsEnd`: a session with a good token ends only by the user, by an address the
  page cannot read, by a function with a spent token, by a refusal (429 or 500) or by a lost
  request. Two of these causes come without any failure: `a~b@x.com` is logged out right after
  every login (AuthContext.jsx:14 and 18), and `placeOrder` goes on with the tokens of its render
  after a refresh within it (Dashboard.jsx:162).

Some behaviours are modelled and no property forbids them, since no document does. The
savepoint gives up its row locks when it rolls back, so a replica may commit a rejection when
the stock is back already (`CommitRejected`); `RestaurantService`, where a handler is one step,
does not have it. The death of a consumer loop is `Die` of `ConsumerLoop`. A refresh that is
answered after a logout logs the user in again (`Refreshed`). A failure between INCR and EXPIRE
leaves a counter for ever (`RedisFails`, `Drop`); `CountersExpire` says that nothing else does.

Four runs end in a violation; in each the code does not do what the repository says of it.

- `LoserIsAnswered`: the second of two simultaneous calls with one key ends in a 500 rather
  than in the existing order (INTERVIEW_QA.md:129). Nothing is ordered twice, and a third
  try is answered.
- `AtMostOneCharge`: the reconciler charges again (SYSTEM_FLOW.md:1441 and 1644; README.md:148
  names it as an open point). How often at most is `ChargesNeedFaults`.
- `CommittedImpliesProcessed`: a failed message is committed with its batch
  (`shared/kafka.py:32`).
- `WorksOnce`: two refreshes with one token that overlap are both answered with a new pair
  (SYSTEM_FLOW.md:633).

### Fairness

Weak fairness of the relay steps, of handing the next message to a handler, of the payment
consumer's and the reconciler's own steps, and of the clock. The code justifies each by a
`while not shutdown_event.is_set()` loop over awaits that return, on one event loop; none of
these steps is disabled again and again by another, so strong fairness is not needed.
Nothing is assumed of clients, commits, or failures. In `Pipeline` the same holds of the
relays and of the loop while it lives.

`StockLocking` assumes strong fairness of the next statement of a replica. A row may be
locked, released and locked again by others for ever, which disables a waiting statement
again and again; PostgreSQL queues the waiters of a row, so each gets its turn. A rollback
may happen at any time and is not fair.

## The proofs

All theorems hold for every value of the constants that satisfies the assumptions: any sets
of orders, items, requests, events, calls, replicas, relays, topics and any bounds. Three have
a hypothesis of their own, which they state: `TwoChargesAtMost` (no interruptions),
`SortedLinesNeverDeadlock` (sorted lists) and `NoSilentDeadlock` (finitely many replicas).
The assumptions are those named in the modules: requests are well formed, what is delivered is
an event (to the payment service, a `stock.reserved`), the seed is natural, the default
directive is one of two, an item list names what its order asks for, replicas are sent one
`stock.release` per order, every topic belongs to a group, order ids are finitely many (they
are `uuid4`). TLC evaluates them in each run.

- *Order service* (`OrderApiProofs`, first half). The inductive invariant is the conjunction of the
  type invariant, `CompensationIffFailed`, `CompensationOnce` and `AnnouncedIffCreated`.
  `CompensationOnce` is not inductive alone: that a second `stock.release` is impossible
  follows from `CompensationIffFailed`, since the order would have to be `PENDING` and
  `PAYMENT_FAILED` at once. `TransitionEffect` says what `transition_order` does, and
  `TerminalIsFinal` follows from it action by action.
- *Order API* (`OrderApiProofs`, second half). `SameKeySameOrder` follows from what `ApiInv` adds: the
  `UNIQUE` constraint holds of the table, whoever is answered is answered with an order that
  is there and carries his user and key. `ApiImplementsOrderService` makes the theorems above
  hold with any number of calls under way.
- *Restaurant service* (`RestaurantServiceProofs`). `TypeOK` needs the check of `reserve_stock`:
  subtraction stays in the naturals. `HeldIsAnnounced` is inductive with it.
  `StockMovesWithOneReservation` is an action property; `ReserveEffect` and `ReleaseEffect`
  carry its arithmetic. `StockConserved` adds up what all orders hold of an item. The library's
  induction over finite sets takes an operator as a parameter, which the provers cannot
  instantiate; `NumberInduction` and `SubsetInduction` are the same facts about sets, from the
  well-foundedness of `<`. With them `SumExists` and `SumMoves` show that the fold behind
  `MapThenSumSet` is a sum, which changes by what one summand changes by, in whatever order
  `CHOOSE` picks the elements; `MovesConserve` is the step of the invariant.
- *Row locks* (`StockLockingProofs`). `LockInv` says of every transaction which rows it has
  locked (those of the lines behind it), what it has drafted for them, and that nobody else
  has them. From it `Serializable`: each commit is one step of `RestaurantService`, so any
  interleaving of replicas has a serial counterpart, except the two steps that decide on an
  older snapshot, which are named. The properties of `RestaurantService` follow for replicas,
  `StockConserved` among them, and that a deadlock of two needs opposed lists follows from the
  order of the locks (`LockedComesBefore`). `SortedLinesNeverDeadlock` is about the remedy that
  README.md:151 proposes: if there is any ranking of the items along which every list is
  sorted, then no set of replicas, of whatever size, waits in a cycle. In a cycle, whoever
  waits for the item of least rank would hold one of lesser rank. `NoSilentDeadlock` is what
  `HandlersReturn` rests on: if every handler under way waited, each would wait for another
  of them, a finite set of such handlers contains a cycle (`WaitersMeetInACycle`, by
  `SubsetInduction`), and PostgreSQL takes a victim out of it.
- *Payment service* (`PaymentServiceProofs`). `OutcomesAgree` is not inductive, because
  Transaction 2 settles a payment that may be settled. `DirectiveDecides` closes it: a settled
  status is the one the persisted directive asks for, so settling again changes nothing, if
  the consumer asks for the same (`DirectiveInHand`: it handles one event at a time, and what
  it has of it is what the row has).
  `NoChargeWithoutIntent` needs `TasksHaveIntents`: what either task is working on has a row.
  `TwoChargesAtMost` bounds what `AtMostOneCharge` denies. `Bill` counts: the charges made, plus
  one while the consumer may still charge (`ConsumerMay`), plus one while the sweep may
  (`SweepMay`), are two at most. `NothingIsAdded` says that no step of either task raises it,
  since a sweep lists an order once and `Resolve` takes a payment it finds `PROCESSING` out of
  the next; `InterruptionAddsOne` that an interrupted sweep gives one of its orders back.
  `TwoOutcomesAtMost` needs no such hypothesis: the consumer settles without looking, so its
  one call counts until Transaction 2, and the sweep settles only what nobody has settled.
  Hence an interruption may repeat a charge, never a verdict. TLC reaches two.
- *Relays and loop* (`PipelineProofs`). `RelayInv`: rows and orders are one to one, topics hold
  rows only, locks are exclusive, what a relay has sent is in the topic, and `CopiesArePaid`:
  a row has at most as many copies as there were failures, and one more once it is marked or
  a relay that has sent it still holds it. That one is needed since `DuplicatesNeedFailures`
  does not say which copy is free. `LoopInv` adds to the types that topics outside the
  subscription stay at 0, because a commit of the group writes them all. With these every
  step of `Pipeline` is a step of `Outbox` or none, and a step of `Kafka` or none.
- *Session* (`SessionProofs`). `AuthInv` says what a call in each phase knows of the tables.
  `SessionInv` adds the counters (`CountersExpire`) and the page: what the page stores and
  what its functions hold are issued tokens, a refreshing function's request carries its own
  token, a new token on its way to the page is good and known to no other function, and an
  effect that is due is of a token that `atob` refuses (`EffectFails`). `StoredIsKnown` and
  `LiveSessionsEnd` follow: a rotation forgets the token of its own call, so if that token is
  stored, either the function that sent it still waits for the answer, or it is gone, and then
  it was a reload that ended it (`ReloadKeeps`), since a lost request empties the store
  (`NetworkFailsKeeps`). The composition implements `AuthService` and `RateLimiter`.

- *The saga* (`FoodFlowProofs`). A service was proved correct against an environment that
  delivers any event in any order, so it is so here: `ServicesStep` instantiates the three
  proofs above, whose assumptions the lemma `Assumptions` shows. What is left for `FlowInv`
  to say is what the services know of each other. Topics hold rows of the outbox of their
  writer (`TopicsAreWritten`); a verdict answers a placement that is in the restaurant's
  ledger (`VerdictsAnswer`), which is why a replay cannot lead to a second (`VerdictOnce`);
  stock that was set aside is there or the order has failed (`ReservationStays`); a payment
  carries the directive of a reservation, and a status what another service has decided. From
  it follow `StatusIsTrue`, `OneStockVerdict`, `DirectiveHonoured` and
  `StockReturnsOnlyOnFailure`, with any number of failures and of raising handlers.
  `StockConserved` follows from the restaurant's own proof (`StockMovesOrStays`), and
  `ChargesNeedFaults` from `Bill`: every step of the system that adds one is a fault
  (`ChargesStepOrFault`). `ServicesAreImplemented` says it once for all: the composition
  implements the specification of each of the three services, so that their theorems are
  theorems of the saga; `TerminalStays` and `OutcomesAreBounded` are two of them.
- *The refinement* (`SagaIsKept`). Under `StageOf` a step of `PlaceOrder` is an `Accept` of
  `Saga`; the order consumer's is a `Tell` or invisible; the restaurant's is `Reserve`,
  `Reject`, `Return` or invisible; the settling of a payment is `Pay` or `Decline`, unless it
  was settled; everything else is invisible. `FlowInv` shows that each is enabled.
- *What is lost* (`RestIsConsistent`). `RecordsTell` says that a row marked published is in
  its topic, and that what is in a ledger has had its effect (`Answered`): a verdict, a payment
  row, a decided order, or stock given back. `Lost` are the orders of which a consumer has gone
  past a message that had none. Effects are never undone (`OnlyForward`), so the return to a
  committed offset loses nothing, and a step that handles, sends or fails leaves `Lost` as it is
  or smaller (`TellsStep`), but for a handler that raises, which adds the order of its message
  (`RaisingLoses`). Hence `LossesAreDropped`: there are at most `drops` of them. At rest every
  row has been published and passed, so it has been answered or its order is lost, and of the
  others the three databases agree. `CommittedImpliesProcessed` shows that a message can be lost;
  this theorem how much is.

`EventLemmas` has what the services share about envelopes and outboxes.

What is only model-checked is liveness, as the prover does not handle fairness:
`PaymentsSettle`, `HandlersReturn`, `EventsReachHandlers`, `OrdersSettle`,
`FailuresAreCompensated`. Every safety property that a passing run checks is a theorem.

## Not modelled

- The cart and the pages of the frontend: the state of one page that no other part sees. In
  `OrderApi` the client is a set of calls with any keys and baskets, which covers what the
  cart can send.
- nginx: static routing. Its one effect on state, that all clients share one address, is in
  `RateLimiter`: there is one counter.
- Health checks, metrics, logging, connection pools and migrations at start-up: no behaviour
  of an order or a session depends on them.
- The read-only routes (`GET /orders/{id}`, `/restaurants`, `/payments/order/{id}`): they change
  nothing, and what they show is the tables.
- Rebalancing of a consumer group among instances. `StockLocking` has what it leads to: two
  consumers at work at once, also on one message.

## Plan

Done: the services, the relay, the loop and their composition, with the saga they implement;
the row locks; the session with the auth service and its limiter; the proofs above.

Left: `FoodFlow` with the batches of `ConsumerLoop` in place of `Kafka`. `PipelineIsKafka` says
that it would add nothing but deaths of the loop.
