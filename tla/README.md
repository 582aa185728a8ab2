# Kairos Trader: specifications

TLA+ specifications of Kairos Trader, an assistant for investors: what its
parts promise each other, which interleavings and failures they survive, and
what is proved of them. The source is read as it is; where it and its own
comments disagree, the model follows the code and a run shows the disagreement.

Contents: [the system](#the-system) · [hard behaviour](#where-it-is-hard) ·
[modules](#modules) · [correspondence](#correspondence-with-the-code) ·
[runs](#runs) · [bounds](#bounds) · [fairness](#fairness) ·
[disagreements](#disagreements-with-comments-and-tests) · [proofs](#proofs) ·
[not modelled](#not-modelled) · [plan](#plan)

Usage, in this directory:

    tlc -workers 2 -config Outbox.cfg MCOutbox.tla
    tlapm OutboxProofs.tla

## The system

A Python server (`server/kairos`) answers the web client (`web`), reasons with
language models, checks orders against risk rules and queues them. Three Java
services do the rest: `execution-worker` places orders at Interactive Brokers,
`recharge` sells memberships, `analyst-service` serves ratings. RocketMQ
carries the messages, Redis and MySQL/PostgreSQL the state.

    web --HTTP--> server --outbox row--> relay --RocketMQ--> execution-worker --API--> broker
     ^              |                                          |  ^ reports (own thread)
     |  SSE         |--LLM providers (circuit breakers)        |  | delayed message
     +--------------+--HTTP--> recharge <--callback-- payment gateway
                    +--HTTP--> analyst-service (local cache, Redis, MySQL, broadcast)

| Component | State it keeps | Operations | What makes it correct | Status |
| --- | --- | --- | --- | --- |
| trading outbox and relay (`adapters/trading/outbox.py`, `publishers.py`, `runtime/relay.py`) | rows of `order_outbox`, row locks, attempts | submit, cancel, drain, abandon, stop | nothing accepted is lost, nothing uncommitted is sent, duplicates have a cause, every row is closed | modelled |
| execution worker: consuming and placing (`mq/OrderConsumer`, `mq/OrderTimeoutListener`, `idempotency`, `broker/IbkrBrokerAdapter`) | idempotency keys, rows, sessions with their order numbers and connections, delayed messages, locks | consume, place, report, time out | one order per key, a timer ends in a cancel or a closed order or for a known reason, rows tell the market's story | modelled |
| execution worker: order tracking (`service/OrderTracker`, `domain/OrderStateMachine`, `IbStatusMapper`, `repository`) | `execution.orders.status`, calls under way | register, onStatus | a fill is never hidden, statuses follow the table, calls end | modelled |
| order path | the two above and the queue between them | — | one order for one request, accepted orders arrive | modelled |
| circuit breaker and model invoker (`core/resilience/breaker.py`, `adapters/llm/invoker.py`) | circuits per tenant and provider, attempts of a call | allows, record, reset, invoke | circuits change for a cause, no surge on recovery, no silent fallback | modelled |
| reasoning turns and quota (`core/reasoning/engine.py`, `turn.py`, `core/quota/reservation.py`) | phase, budgets, reservation, allowance | run, request_cancel, settle | accounting, no collective overrun, a stop that stops, endings that are told | modelled |
| recharge (`java/recharge`) | orders, memberships, keys, locks, messages | submit, create, callback, time out, refund | money is used once, membership is what was bought | modelled |
| live stream (`core/streaming/events.py`, `api/stream/bridge.py`, `sse.py`, `api/http/threads.py`) | per answer: record, bounded queue, task, response; stored transcripts | send, emit, drop, deliver, leave, replay, delete | what is lost on the way is content, and counted; a turn nobody reads is stopped | modelled |
| web: reading a stream (`useTurnStream.ts`, `lib/stream`, `lib/turn/state.ts`) | connection, cursor, attempts, folded turn | send, stop, read, reconnect, reduce | a page does not wait for ever | partly: not the fold |
| pre-trade risk and order routes (`core/trading`, `api/http/trading.py`, `adapters/trading/orders.py`) | a request's reads between its awaits | propose, assess, cancel, positions | what the limits still mean for requests and fills that overlap; the average cost; truthful answers | modelled |
| model catalogue and resolution (`core/catalog`, `api/http/configuration.py`, `Container.baseline`) | preferences | browse, set, clear, resolve, deploy | a role is what was asked; roles get what they require | modelled |
| credentials (`adapters/llm/credentials.py`) | none; stored keys | resolve, resolve_many | keys pay where they belong | modelled |
| identity: sessions and claims (`adapters/identity`, `core/identity`, `api/http/identity.py`, `middleware.py`) | sessions and their expiry | resolve, slide | a request acts for its caller's tenant | modelled |
| persistence: repositories, migrations | tables | scoped queries | a query is bound to its tenant | partly: preferences, outbox |
| composition, settings, scripts (`runtime`) | none | transaction of a request, baseline, limits | — | partly: those three |
| java login | users, tokens, Bloom filter | register, log in, intercept | one user per name, tokens expire | partly: the session it writes |
| analyst-service cache (`cache/CacheClient`, `store`, `mq/CacheInvalidateConsumer`) | a local cache on each node, the shared one, Bloom filter, mutex, broadcasts | get, update, invalidate, expire | what is cached is the table's unless a named race kept it; one load for an absence; caches converge | modelled |
| pipeline and stages (`core/reasoning/pipeline.py`, `stages.py`) | none | build | order satisfies every declared constraint | not modelled |
| tool registry and workspace (`core/tools`) | none | offer, accept, resolve paths | what is offered is accepted | not modelled |
| clients of the services (`adapters/services`) | none; the breaker's circuits | call | an error is not an answer | not modelled |
| wire formats (`adapters/llm/wire.py`) | none | encode, decode | — | not modelled |
| market data routes | none | — | — | not modelled |
| web: session and API client (`lib/auth.ts`, `api/client.ts`) | token, refresh under way | fetch, refresh, replay | one refresh, one replay | not modelled |
| web: pages, components, query hooks | cached queries of a library | — | — | not modelled |
| execution worker: accumulator and Web API adapter | none | — | — | not modelled: unused, or throws |

### Where it is hard

* **Between two systems that cannot commit together.** The outbox commits after
  RocketMQ has the messages; the worker sets its Redis key before the broker has
  the order; the recharge callback sends its message before MySQL commits. Each
  gap is a step of a model, with a crash, an exception and a concurrent actor in it.
* **At-least-once delivery.** Relays and RocketMQ repeat messages, to either
  worker, before and after a restart; the guards against it (keys, row statuses,
  compare-and-set, refund numbers) are modelled as what they are, not as "exactly once".
* **Threads that report while others write.** The broker's reader thread against
  the consumer that has not inserted its row; callbacks, timeouts and refunds
  against a lock whose lease may run out.
* **Numbers that are reused.** Order numbers of one session mean something else
  in the next.
* **Calls that fail where nobody waits.** A report is handled in a callback of the
  broker's library, and a delayed message under a lock with a lease: a database that
  fails there, a lost connection or a dead holder is seen by no caller.
* **Coroutines.** A breaker is asked, the task awaits, and the breaker is told:
  what happened in between may have changed its meaning. A turn may be stopped,
  dropped or failed at any await while others spend the same allowance.
* **Checked, then used.** An order is measured against positions and a count of
  orders that were read some awaits earlier, and its own row is visible only after
  its commit; a model is checked for a role under one catalogue and used under another;
  a row is read, and changed by its id when it may be gone.
* **A producer that must not wait for its consumer.** The turn's events go through
  a bounded queue that drops, to a reader that may stop, lose its line, or be gone
  before it is noticed.
* **Two caches and a table that share no transaction.** An update saves, tells the
  filter, deletes here, deletes there and tells the other nodes, while readers on each
  node have loaded, copied, or wait for a lock whose lease may end.

PROJECT.json lists the main hazards at their lines, with the properties that cover
them. The parts that are not modelled have others: two registrations of one name
that both find it free (`AuthServiceImpl.java:46`), a token stored before its expiry
(`:77`); requests refused together that each refresh the session (`client.ts:123`); the
fold of the last events, set inside a state updater and read when the stream ends
(`useTurnStream.ts:58`); a namespaced tool looked up by another name
(`registry.py:219`); a broker that is not connected and gives every order the number 0
(`IbkrBrokerAdapter.java:124`).

## Modules

    AtLeastOnceHandoff            what an outbox promises
      ^ implements (checked, proved)
    Outbox  ------------------.
                               OrderDelivery  = Outbox + ExecutionWorker, joined by the queue
    ExecutionWorker  ---------'
      | uses
    OrderStateMachine --- OrderLedger          the histories a row may have
      | uses                ^ implements (checked, proved)
    OrderTracker ----------'

    OrderDesk -------------'   (proposals, measured against the table of orders)

    CircuitBreaker <- ModelInvoker      Quota <- ReasoningTurn      Recharge
    CallerIdentity, ModelCatalog <- ModelSettings       TurnStream      AnalystCache

For a component X: `X.tla` is the specification, `XProperties.tla` its
properties and fairness, `MCX.tla` the constants of small instances,
`X*.cfg` the runs. The theorems are in `XProofs.tla`, or with those of the component
beside it: `OrderProofs` (OrderDesk, OrderTracker), `TurnProofs` (TurnStream,
ReasoningTurn), `ModelProofs` (ModelInvoker, ModelSettings), `JavaServicesProofs`
(Recharge, AnalystCache). `FiniteSums` has the sum that properties use, with its lemmas in
`FiniteSumTheorems`. No module declares a RECURSIVE operator. A definition whose comment starts with `(mutant)` is no part of the
specification: it is a plausible bug of the definition after it, kept there to
show that the property PROJECT.json pairs it with notices it.

## Correspondence with the code

PROJECT.json maps every definition to its lines; this is the short form.

**Outbox.** `status`, `attempts`, `createdAt` are the columns of a committed
row; `inserted` what an open transaction has added (the unique key makes other
inserts wait, so two sessions never hold one key); `accepted` the keys whose
caller was answered. `Enqueue`, `EnqueueDuplicate` are `_enqueue` with its
savepoint; `Commit` and `Rollback` the end of the request's transaction
(`container.py`). A sweep of a relay is `Claim` (the locked select of
`_pending`), `Publish` or `PublishRaises` for each row in order, and
`CommitSweep`, which writes all results at once; `LoseSweep` is an exception, a
kill or a lost database between them. A raising publish may or may not have
reached the broker. `Stop`, `LeaveLoop`, `Start` are the relay's process.

**OrderTracker.** A thread's `call` has the locals of one `onStatus`: find the
row, judge the transition, compare and set, count a lost attempt, give up.
`statusOf` is the table. `refusals` and `located` are the two things an Inactive
report can mean, which the tracker does not tell apart. `OrderStateMachine` has the
transition table and the mapping of the broker's words. The class is made for several
writers and is checked with several; as it is wired, an order's reports all come on one
reader thread, and no more than one thread is in it for an order. The columns filled_qty
and avg_px are never written by the code: OrderDesk has whoever writes them as external.

**ExecutionWorker.** `onMessage` of both listeners, step by step: take, set the
key (SET NX), place, insert the row, schedule the timeout, acknowledge; every
step may throw or the process die. Sessions have their own numbering, and a
restart starts a new one. The broker is external: it accepts or not, holds for a locate,
fills, cancels, and reports each change on the session's reader thread, which runs
`OrderTracker.onStatus` (as one step here, as no other thread writes the row). A hold and
a refusal are the same word, Inactive, and the adapter drops what would tell them apart,
so `Callback` makes both REJECTED (`located`). `CallbackFails` is a database call of
onStatus that throws: the report is lost (`missed`), and ApiController, whose code is not
here, reads on or not (`link` is then "deaf"). `Disconnect` cuts the connection of a
live process, which nothing connects again: no report comes, an order sent after it is
"unsent", a cancel goes nowhere. A listener's lock is a lease of Redisson's: a crash leaves it
(`orphaned`) until `LockLapses`, and a redelivered message that meets it is acknowledged
by `TimeoutMisses`, as by any lock that is held. `TryLockRaises` is an interrupt, after which
the message is acknowledged as well, or Redis raising, possibly after it gave the lock;
`TimeoutThrows` gives the lock back. A message RocketMQ delivers no more is `dropped`.

**OrderDelivery.** Instances of the two, with a publish of the relay *being* a
delivery to the workers' queue; no action of its own.

**CircuitBreaker, ModelInvoker.** A circuit is the record of breaker.py, its
clock reduced to whether the recovery time has passed. An invocation goes
through its candidates: `allows`, credential, attempt, outcome, retry after a
pause (during which the circuit may change, and is not asked again), next
candidate. Cancellation may come at every await.

**Quota, ReasoningTurn.** A turn's `pc` is the await it is at: gate, model, tool.
Between two awaits everything runs in one step, as it does on one event loop:
budgets, transitions of the phase, settlement, what the stream is told. The
ways in which a task ends are the values of `TaskEnded`: it returned ("over"), raised
what ended the turn ("raised"), was dropped at an await, which passes the handlers and
neither settles nor tells ("dropped"), had the gate raise at the reservation, before the
turn was in any handler's care ("unreserved"), or at the settlement, which leaves its
stream open ("unsettled"). A gate that raises, or a task dropped at it, may have been
stored all the same (`GrantUnheard`, `SettlementStored`).

**TurnStream.** One answer per message: `recorded` is the RecordingStream's log, the
bridge a queue of sequence numbers, a count of what it dropped and whether it is
closed; the task and the response have a state each. `Accept` is the route up to the
response, `Start` the first step of its body (which creates the task), `Deliver` and
`EndBody` the rest of it, `Leave` and `Left` its cancellation when the reader has gone.
What a turn does between two events is ReasoningTurn's: here `Says`, `TaskEnds` and
`TaskCancelled` are the ways it can go on, read off `ReasoningEngine.run`. `web` is the
hook: `Send`, `Stop`, `LineBreaks`, and the schedule of reconnects. A reconnect that
reaches the server is refused, as there is no route for its URL. `Replay` is the
route that the transcript is read by.

**OrderDesk.** A `POST /orders` goes from await to await: equity and positions
(`ReadPositions`, of which only the quantity is measured: `Shares`), the orders of the
day and the measuring (`Assess`), the commit; or it fails at one of them. `Running` goes
through the tenant's rows with something filled, whatever their status, in the order of
created_at, with the average cost as a fraction, and `Position` is where it ends. The
worker's table moves as OrderStateMachine allows, without its failures, which are other
modules'. Three things the code keeps apart are apart here: what the broker has filled of
an order and at which price (`fill`; a market order fills at any price, a limit order at
its limit or better), what the columns filled_qty and avg_px say of it (`recorded`, brought up
to date by whoever writes them, at any time or never), and what a request read of them
(`knew`). `Filled` and `Recorded` are external: no code of the repository writes the columns.
The price a proposal is *valued* at is its limit or the caller's reference price, which
is nobody's fill. A cancellation is looked up, answered, and
committed later.

**CallerIdentity, ModelCatalog, ModelSettings.** The first two have the functions: the
three ways in and the tenant they give, with the sessions in Redis; catalogue, menu, chain of
resolution, candidates for a key. A sequence the code goes through for the first that fits
is read by its positions there, and the first is the least of them. ModelSettings has the requests: arrive, look the
session up, slide it (it may be gone by then), then refuse, read the row, write and
commit, or read and resolve. Each request has the session and transaction of
`Container.request`. The repository wires them like that in its tests; the routes
take the repositories as dependencies a deployment provides. The unique key of tenant and
role, and updates by primary key of a row that may be gone, are the database's. `Deploy`
is a process that comes up with another catalogue. `KeptRows` is what the unique key and
the checks of earlier processes leave in the table. `KeyManagement` says
whether a deployment wires a decryption: the source has none, and reading a
stored key fails without.

**Recharge.** Submission and the ordered consumer (key, save, delayed message,
commit); then three handlers under one lock per order: callback, timeout,
refund. A handler's compare-and-set and its commit are separate steps, and a
transaction that updated a row keeps other updates of it waiting (`RowFree`, as
InnoDB's row lock does). A lock has a lease, which may outlive its holder or not.

**AnalystCache.** One symbol, as its key, lock and row are no other's. Its rating is a
version number and 0 the lack of one, so that an entry of 0 is the null marker. Each
call of Redis, of the table and of Caffeine in `getWithMutex` and `updateAnalyst` is a
step; a hit in a node's own cache changes nothing and has no action. `ReadShared` and
`ReadMarker` are the two GETs of one lookup. `WriteThrows`, `ReadThrows`, `Lapse`,
`Restart` and the failing halves of `Load`, `PutShared`, `Unlock` and `Broadcast` are the
faults. `why` of an entry says how one that the table has moved on from came to stay.
Left out: the reply of `tryLock` lost on the way, and the cache seeder, counters and
uncached route, which touch none of it.

## Runs

| Run | Configuration | What it shows |
| --- | --- | --- |
| `outbox` | 2 rows, 2 requests, 2 relays, batch of 2, 2 attempts, 1 lost sweep | no accepted order is lost (`AcceptedIsRecorded`), duplicates are at most the failed publishes plus lost sweeps (`DuplicatesAreExplained`), every row is closed in the end (`EveryRowIsClosed`); refinement of AtLeastOnceHandoff |
| `tracker` | 1 order, 2 threads that call again and again, 3 attempts | a fill dealt with stays, unless the broker had refused the order or held it for a locate; a report is given up only after three changes by others; refinement of OrderLedger |
| `tracker_locate` | 1 order, 1 thread | *violated*: a row says REJECTED only if the broker refused |
| `worker` | 1 proposal, 2 workers, 2 copies, 2 sessions, 2 orders per session, 1 expired key, 1 fault | one order per life of the key; rows tell of their own order, but for a locate; a row behind its order has a reason; delayed messages come to an end in a closed order, a cancel, or for one of five named reasons (`TimersEndForAReason`) |
| `delivery` | 1 proposal, 1 relay, 1 worker, 2 sessions, up to 4 copies, 1 lost sweep | over the whole path: one order for a request at most, none without one; accepted orders reach a worker unless the row ends FAILED; queues drain, whatever is thrown, skipped or delivered again |
| `invoker` | 2 calls of one tenant, one with a fallback, thresholds of 2, 1 probe, 2 attempts | circuits open and close for a cause, slots are held or leaked by a known way, probes do not become a surge |
| `turn` | 2 turns, allowance of 4, 2 iterations, 2 tokens, calls that cost 0 or 5, up to 2 tools | the allowance is the account of the turns, turns do not overrun it together, a stop stops the work, each turn ends, and its reader is told unless the gate raised or the task was dropped (`EndingIsTold`) |
| `recharge` | 2 orders of one user, of one request or two, 2 threads, 2 callbacks, 1 fault | money buys membership or is returned, never both; membership is what was paid; statuses move forward; a request makes one order; timers and refunds are lost only with their message |
| `stream` | 1 message, an answer of up to 5 content events, a queue of 3, 3 reconnects | a reader at the end misses content only, no more than was counted as dropped and two; a turn whose reader is gone is stopped; a page waits for ever only after an answer that is an error |
| `desk` | 2 proposals, 2 tenants, 2 symbols, 7 bodies, 2 prices, equity 6 or 0, limits of 40 and 50 percent, 1 order a day or any number | a holding passes its limit, or falls below zero, only by what a request was not measured with; an average cost lies between the prices paid; what a cancellation was answered stays true |
| `settings` | 2 requests, 2 tenants, 1 session, 4 callers, 9 asks, 5 catalogues (2 refused), 2 key rings | a role has the value its tenant was told last, and one row; a served model has what the role needs but for three named excuses; keys pay where they belong, one by one and for many |
| `cache` | 2 nodes, a reader on each, updates on one, 2 versions, 1 fault | an entry that is not the table's is excused by name; an empty shared cache is filled by one load; in the end all caches agree with the table |

Some properties name what excuses a bad outcome (`early`, `missed`, `orphaned`,
`leaked`, keys that expired, what a request never `knew`, a preference set under another catalogue)
because the code does not prevent it; they say that nothing *else* causes it. The
excuses are history variables, set where the code logs and goes on.

Invariants that are theorems (types, `OneClaimPerRow`, `SentWasPublished`,
`LosersWereOvertaken`, ...) hold on the same instances and need no run of their own.
The largest runs are `worker` (2,305,413 distinct states), `desk` (958,602), `turn`
(877,043), `cache` (628,236), `settings` (560,760), `stream` (353,901), `recharge`
(267,178), `delivery` (161,304) and `tracker` (140,639), each between one and three minutes.

### Bounds

* *Two of each actor* (requests, relays, threads, workers, turns) give every
  pairwise interleaving; the hazards found all need two at most, and the proofs
  cover any number of them, for every component.
* *MaxAttempts 2*, *thresholds 2*, *MaxIterations 2*: the smallest at which
  "not yet" and "now" differ. *MaxCasRetry 3* is the code's own.
* *MaxLost*, *MaxFaults*, *MaxExpiry*, *MaxSession*: how often the rare thing
  happens. One lost sweep already duplicates a batch; one fault among two
  orders and two callbacks already separates key from order, lock from holder,
  refund from mark. In `worker` the fault is a locate, a lost connection, a failed
  callback, a lock left behind by Redis or a message dropped; crashes are not bounded by it.
  `delivery` sets it to 0: what these faults do to reports and timers is asked in
  `worker`, and the theorems along the path hold for any number of them.
  Two sessions are what it takes for a number to mean two things.
* *MaxCopies* counts deliveries of one message: two give the race of copies; the
  composition takes four, so that relay and queue can both repeat.
* *CallCost {0, 5}* with an allowance of 4 and a token limit of 2: a call that is
  free and one that overruns everything. *MaxTools 2*: a stop between two tools.
* *MaxCallbacks 2*: a callback repeated for one order, or one for each.
* *stream*: with 5 content events and 3 places the queue overruns at every place, also
  for the ending and the sentinel, while the reader is at any other. One message: a
  second one only stops the first, as `Stop` does, and the proof covers any number.
* *desk*: with equity 6 an order may be worth 2 and a position 3, so that of the three
  trades each goes through alone, two purchases together do not, and a sale needs a
  recorded fill; a limit order may fill below its price and a market order above the
  price it was valued at. The other bodies are one for each way of being turned down.
* *settings*: two requests for one role give every pair of set and clear. The catalogues
  differ in what the flagship can do and which model is first; the endpoints are a
  family of four kinds of key and a local one.
* *cache*: a reader on the node that updates and one on another; two versions, so that an
  entry may be old, new or older; one fault. Three readers are what it takes
  for an entry to be replaced that nobody wasted: the proof noticed it (see there).
* *MaxClock 0* makes created_at equal for all rows, so that a batch may be in any
  order; the order of rows is no property of these runs (see below).

Every bound is a CONSTANT in a guard of the specification and named there as a bound.

### Fairness

* `outbox`, `delivery`: a relay that is up goes on with its sweep, and is started
  again (weak). `Claim` is strongly fair, as `run()` opens every iteration with a
  sweep: only a stop in each and every start could keep a relay from sweeping.
  Publishing may fail for ever; max_attempts ends that.
  Requests are not fair: nobody has to trade.
* `delivery`: also, RocketMQ redelivers what was not acknowledged and a worker that is
  down is started again. Orders need not fill, timeouts need not come.
* `turn`: the gate, the model and each tool return or raise. The code needs this
  of tools and does not enforce it (see the disagreements below).
* `recharge`: consumers and handlers go on, messages are delivered, the lock of a
  dead holder expires. Nobody has to pay, the gateway need not repeat a callback,
  and a lease need not run out under a live holder.

* `stream`: the event loop runs bodies, callbacks and cancelled tasks that are ready, and
  the server notices a reader that has gone (ASGI's disconnect). `AbandonedTurnsStop`
  rests on no more: a turn may wait for ever for its model, a page may do nothing.
  `OnlyErrorsHoldThePage` names what else it needs (`EverybodyAnswers`) in its premise.
* `cache`: threads that are in a call go on, broadcasts are received, times to live end.
  Nobody has to read or to update, and a lock's lease need not end.

`worker`, `invoker`, `tracker`, `tracker_locate`, `desk` and `settings` check safety
only, under the plain specification. Deadlock is not checked where the system may
rest: all messages consumed, all turns ended.

## Disagreements with comments and tests

Shown by a run:

1. `tracker_locate`: the mapper and its test keep an Inactive order that waits for
   a locate active; the adapter drops `whyHeld`, so its row becomes REJECTED, and
   the later fill is refused as an illegal transition.

Written into a property as its excuse, so that the run shows there is no other:

2. *Foreign cancels.* The session prefix is said to keep rows of the past from being
   matched (`IbkrBrokerAdapter.java:58`); a cancel strips it (`:134`) and cancels the order that
   has the same number in the present session. `TimersEndForAReason` excepts it (`Astray`), and
   `RowTellsTheMarket` holds over several sessions because reports keep the prefix. The order
   that is hit is *truly* cancelled, and its row says so: no row is wrong, but an order ends
   that nobody asked to end.
3. *Leaked slots.* A half-open circuit "admits a limited number of probes"
   (`breaker.py:104`); a probe that ends without an outcome (no credential, cancelled)
   keeps its slot, and no timer, only the unused `reset`, frees the circuit.
   `SlotsAreHeldOrLeaked` counts them.
4. *Skipped refunds.* The refund consumer takes a locked order to be in another
   consumer's hands (`RefundConsumer.java:52`); it may be in those of the callback that just sent
   the message, which is then acknowledged. `RefundsAreMade` excepts it.
5. *Exposure.* `risk.py:174-176` measures a position after the proposed fill so that a
   series of orders does not add up past the limit; the position is of what the columns
   say is filled, and orders that are open, under way or not recorded yet do add up.
   `NoneAloneExceeds` allows a request's limit, at the equity and price it was measured with,
   to be passed by as much as others filled that it was not measured with (`UnseenBy`), and by
   no more. As nothing writes the columns, that is everything: an envelope of this
   deployment measures each order as if it were the first, and refuses every sale.
6. *Text-only models.* `registry.py:142-143` has a role that needs vision never be handed
   a text-only model; the baseline's primary is the first selectable model, whatever
   it can do. `CapableUnlessExcused` names it.
7. *Locates, again.* In the `worker` run as in `tracker_locate`: `RowTellsTheMarket` excepts
   a REJECTED of an order that is held (`located`), and so do the listener that reads it
   (`EndsForAReason`) and a later fill (`FillsStick`).
8. *Dead holders.* A message that meets a held lock is taken to be in another listener's
   hands (`OrderTimeoutListener.java:64-66`); the lock may be one a dead process left for
   its lease, and the redelivered message is acknowledged without a cancel (`orphaned`). So
   is one whose listener is interrupted (`:86`, in `dropped`).
9. *Lost reports.* A database that fails under `onStatus` (`OrderTracker.java:60`, `:74`)
   throws into the broker's library; a connection that is lost is logged
   (`IbkrBrokerAdapter.java:166`) and not made again. `BehindForAReason` names both.
10. *Reconnects.* `Content-Location` and `reconnect.ts` name a URL of the stream that
   the server has no route for; the answer is an error, which `readStream` throws
   through the schedule, and the page stays "reconnecting". `OnlyErrorsHoldThePage`.
11. *Late fills of the cache.* `CacheConfig.java:13-15` bounds a stale local entry by ten
   minutes. A reader that has loaded the old rating may fill Redis with it after the
   deletion (`why = "late"`); it stays there for its half hour, and may be copied to a
   local cache at the end of it. `StaleForAReason` excepts it.
12. *Errors cached as absence.* A query that fails is no rating (`AnalystStore.java`), and
   the null marker says so to every node until it expires (`why = "failed"`).
13. *Untold endings.* `engine.py:247-249` settles a turn before an exception leaves it, so that
   no phase stays live; its stream is ended after that. A gate that raises then (`:251`, or
   `:259` of a turn that ended well) leaves the stream open for ever, and one that raises
   at the reservation (`:279`) the phase as well. `EndingIsTold` names them by their `pc`.

Seen while modelling, with no run of their own:

* *Order per account.* `relay.py:12` asks for it. Three steps break it: a failed
  publish leaves its row for a later sweep while the account's next row leaves in
  this one; a second relay skips the rows the first has locked and sends the next;
  a row that commits after a younger one has the older created_at and is sent later.
* *A key without an order.* The key is set before the order is placed; a placement that
  throws after it leaves a message that every redelivery skips (`OrderConsumer`), so the order
  is lost until nobody asks any more. `AcceptedReachesAWorker` is about the key, and says no
  more than that the message arrived.
* *A price on trust.* `trading.py:79` takes the price that a market order is valued at from
  its caller, without a bound, and what it fills at is the broker's (`avg_px`). What is paid
  for a position is limited by nothing here; `NoneAloneExceeds` is about the valuation.
* *Columns nobody writes.* `orders.py:182` and `:208` read filled_qty and avg_px; onStatus
  writes the status, and the accumulator that would write them is wired to nothing.
* *A stop nobody asks for.* `request_cancel` has no caller in the source but the tests;
  `StopStopsWork` is about turns that a later caller stops.
* *A hung tool.* `turn.py:112-113` gives a time budget against it; the budget is
  looked at between steps only, so a tool that never returns keeps its turn.
* *Dropped turns.* `bridge.py:130-131` has a cancelled turn settle its
  reservation and `reservation.py:259` has it abandoned; `CancelledError` passes
  the engine's handler, so it stays reserved. `AllowanceIsAccounted` says so.
* *A sibling's key.* `credentials.py:210-212` says that the endpoint is the provider's that is
  called, not the sibling's that held the key; a URL stored with the sibling's key is used.
* *Unfilled roles.* `configuration.py:205-210` says that a role nothing fills is
  shown rather than omitted; the loop's `continue` omits it.
* *Cancels of the trading route* are published to a topic no consumer here reads.
* *Cheaper models.* `reservation.py:203-205` expects the caller of an exhausted
  "degrade" allowance to choose one; the turn is told and goes on with its model.
* *degraded* is "more than one attempt": an answer of the first choice after one
  retry is reported as a fallback too. `FallbacksAreReported` is the other direction.
* *Times to live.* The null marker's two minutes are ten in the local cache, which has
  one expiry for all; `CacheInvalidateConsumer.java:22` speaks of two where the code has ten.
* *The filter.* `AnalystServiceImpl.java:44` says it has no false negatives; between a
  save and the add, and after an add that failed, it has one. `StaleForAReason` says when.
* *Cancels.* The key of a cancel row has the order id alone (`outbox.py:95`), so that an
  order's second cancel is taken for the first, also when that one ended FAILED.
* *Recharge statuses.* `billing.py:31` knows four and calls the fourth refunded; the
  service has five and calls it refunding.

## Proofs

Eight modules of theorems, for every value of the constants that satisfies the
named assumptions (`OutboxAssumption`, `TrackerAssumption`, ...: finite or non-empty
sets and positive limits; TLC evaluates each on the instances).

* **OutboxProofs.** `IInv` is inductive: the safety properties and four facts that
  they need — an uncommitted key belongs to one session only
  (`UncommittedIsUnique`), a row marked sent in a sweep was published, one marked
  as an error has a failure not yet counted (`MarkedErrorIsNew`), and a pending row
  has attempts left. Without the marks the commit of a sweep could not be shown
  to write the truth, as the publishes it stands for lie in the past. One lemma
  per operation; from it follow the property theorems, `ClosedRowsAreFinal` as an
  action property, and `OutboxImplementsHandoff`, in which a publish maps to a
  send, a commit of a request to an acceptance, a commit of a sweep to closings,
  and the rest to stuttering.
* **ExecutionWorkerProofs.** A counting argument. Each life of an idempotency key
  is one permission; orders at the broker and a call between key and broker hold
  one each (`PermissionsCounted`). Copies, crashes, restarts and expiries keep the
  count, and `OneOrderEach` is its corollary. A second invariant (`MarketInductive`) is
  about what rows tell: a session numbers its orders without a gap (`Numbered`), so
  that a number is free when it is used; a report of an ending stays true while it is
  on its way (`ReportsAreTrue`), as an ending at the broker does not change, or is an
  Inactive of an order that was held; and each ending is told, announced or excused
  (`EndingsArrive`), by a report that came early, one that a callback failed on, or a session
  that nobody hears. A crash takes a session's reports and, as no two processes share a
  session, its only reader; a cut takes the last of the reports and every later one. The
  third (`TimerInv`) makes `TimersEnd` an action property: what a timer or a lock is about is
  an order that was placed, as onMessage schedules after placing (`TimersArePlaced`), and each
  way for the last message to go is one of `EndsForAReason`'s.
* **OrderDeliveryProofs.** Each behaviour of the composition is one of its parts',
  so the theorems above hold along the path. `PlacedOnce` joins them: what is at the
  broker was delivered (`PlacedWasDelivered`), what was delivered was published
  (`DeliveredWasPublished`), what was published was committed. The lemmas
  `SameOutbox` and `SameWorkers` only say that the instances of the theorems' modules
  have the actions of the instances that the path is composed of.
* **OrderProofs**, the tracker. The key strengthening is `JudgedBeforeCas`: a thread at
  its compare-and-set has judged the transition from the status it has *seen* to
  be legal; the compare-and-set then makes seen and present equal, whatever
  other threads did. With `RowsReached` (a row holds only what register or a report
  may have written) and `RejectedForAReason` (a REJECTED has a refusal or a locate behind it)
  fills and closings stick, and the table refines OrderLedger.
  `LosersWereOvertaken` counts: attempts lost are at most the changes others made.
* **OrderProofs**, the desk, in three layers.
  `DayOnlyGrows` compares what a request saw of the day when it came with what the day
  is now; the count grows because what is queued stays
  queued, under its tenant (`RowsWereProposed`). A request that passes the limit saw fewer orders
  than there are when it is measured: `DayHolds`. For cancellations, the transition
  table leaves a closed status only from CANCELED, to a fill (`OverButFilled`).
  `MeasuredInv`: the columns, and what a request knew of an order, are no more than is
  filled of it, as the broker only fills more (`FillsAreBounded`, `Sound`); the net of what it
  knew is the quantity it was measured with, and that had room for it when it was accepted
  (`HasRoom`). So `NoRequestExceedsAlone` is arithmetic on sums: what is held splits into what r
  knew, what r filled itself, and what r did not know (`FillsAreSeenOrNot`).
  `AverageHolds` is proved along the book, row by row, by the least row at which it would
  fail (`AlongTheBook`), in one state and not over time, because columns change under rows
  in the middle of the book. Up to each row, the running quantity is the sum of the
  rows so far (`RunsAdd`), and the average is between the lowest and the highest price
  paid (`RunsAverage`): a purchase weights two averages (`WeightedBelow`, `WeightedAbove`), a sale
  changes the quantity only. All that is needed of time is that the book has each row once
  (`Booked`). A run that falls below zero is excluded (`NeverShort`), as the
  next purchase would then weight with a negative quantity, and does in the code.
* **ModelProofs**, the breaker. The invariant counts the slots of a half-open circuit
  against the calls that hold one and those that leaked theirs, and the calls under
  way against slots and successes. It needs `Holders` (who is counted as probing is
  under way, at that circuit), `Places` (a call is within its chain and has an entry
  for each candidate it passed) and `Backed` (the circuit's counters are no more
  than the calls' own history). `ChangesTheorem` is an
  action property: a circuit opens after as many failures in a row as its
  threshold, by this tenant, and closes after successes or a reset.
* **ModelProofs**, the settings. What a request has found stays what it was found for until
  it writes (`Findings`), a request that is alone with a setting has found all there is of
  it, and an insert beside another is the unique key's to refuse. That gives one row, and of the
  value told last (`SettingsAreAsAsked`). A kept row was acceptable under the
  catalogue of its setting; what is served comes from the chain, link by link
  (`ServedAreCapable`); keys by the rank of their kind (`KeysAreTheRightOnes`). What
  the code finds first in a sequence is here the least of a set of positions, and a set of
  numbers has a least one: no induction over the catalogue.
* **JavaServicesProofs**, the recharge service. The lock is in no conjunct: its lease may run out
  under a holder at work. What carries the proof is `OneUpdater` — a transaction that
  updated a row keeps others from it until it ends — and hence `FoundHolds`: what a
  handler found is so until it writes. `PaidFor` (no order is PAID, REFUNDING
  or REFUNDED without a callback) makes refunds those of paid orders, and `TimeoutDone` lets
  a delayed message be acknowledged. `MoneyIsUsedOnce`, `UnpaidIsTimed` and
  `OrdersMoveForward` follow.
  `OneOrderForARequest` has an invariant of its own, of orders that have a row or are being
  created (`OneExists`, `KeysHaveOrders`). It assumes that users do not share request
  ids (`RequestsAreOneUsers`): the key holds the id alone, as the client chose it, and the
  first sentence of the property would survive the sharing, the second would not.
  `MembersHaveWhatTheyBought` (`MemberInv`): what a grant has read is at most what the user's
  paid orders are worth, because no order leaves PAID; so no grant gives more than was bought.
* **JavaServicesProofs**, the cache. `StaleHasAReason`: what a reader has in its hand goes stale at
  a save, is excused by the writer's progress up to the deletion, and by its mark after it
  (`HandsAreMarked`); a writer past the filter has told it (`FilterIsTold`).
  `LoadsAreAccounted`: a reader that refills without the lock has lost its lease and
  was counted as wasted, and each of these may load once; beyond them the lock allows one
  load while L2 is empty (`LoadsCounted`). The proof found a case the two readers
  of the run do not reach: a load whose PUT replaces an entry that another has put since.
  `wasted` counts it.
* **TurnProofs**, the stream. The proof follows the numbers that are neither read nor waiting
  in a bridge's queue (`Gap`). While the reader holds the line they are what the bridge
  gave up: content, because the opening is taken before the turn has its first step
  and the ending is the last number there is (`InOrder`, `Stage`), and no more than
  the events counted as dropped, one for the ending and one for the sentinel
  (`Spared`). `Ascending` says that the queue continues what was read. Once the line is
  lost, what lies below the cursor is frozen (`Passed`), and a replay gives the rest.
  Emitting, taking, closing and leaving are lemmas about one answer; the actions'
  lemmas put them in their place. `ReaderMissesOnlyContent` follows.
* **TurnProofs**, the turns. The account can tell three kinds of steps apart: `Reserves`,
  `Settles` and `Works`, which stores nothing. `TurnInv` is proved of the kinds, and each
  action is shown to be of one. A step gives, takes or changes one term of each sum, so
  `AllowanceAccounts` and `TurnsDoNotOverrun` hold for any number of turns and any
  costs. `EndingsAreTold` has
  an invariant of its own: a task's place determines what its phase, its claim and its stream
  can be, and each exception on the way to the settlement finds the turn in a live
  phase or closed for its reason. `StopsStopWork`
  is an action property: every check of the stop stands before a call begins.

The sums are cardinalities: `SumOver` counts the units of a finite set, and
FiniteSumTheorems has what one more, one less and one changed element do to it. A
recursive function (`Running`, of the positions) is shown to be what its equation says,
row by row, by the least row where it would not be (`LeastExists`).

Only model-checked: everything under fairness, as neither fairness nor ENABLED is in the
prover's reach: `EveryRowIsClosed`, `QueuesDrain`,
`AcceptedReachesAWorker`, `CachesConverge`, `TurnsEnd`, `RefundsAreMade`, `AbandonedTurnsStop`,
`OnlyErrorsHoldThePage`. Every safety property and action property that a passing run checks
is a theorem.

## Not modelled

* Registration, the services' clients, the web client's refresh
  and the pure algorithms of pipeline, registry and workspace: see the plan.
* The fold of events into the page's view (`lib/turn/state.ts`), and the ref it is kept in.
* Threads, messages, artifacts and usage rows beyond an answer's transcript; `get_usage`
  and the routes that list change nothing.
* Rendering, routing, settings, schema, wire formats: no protocol of their own.
* `FillAccumulator` and `IbkrWebApiAdapter`: wired to nothing, or a stub that throws.
* `createPayment`, `checkPaymentStatus` (recharge), `abandon` of a reservation,
  `plan_fallbacks`, `state_of`: nothing calls them, or they change nothing.
* What ApiController does without a connection, or after a callback has raised, is not in
  the repository: `placeOrder` without one throws or places an order that is never sent, and
  its reader goes on or ends.
* A cache entry that Redis holds and that cannot be deserialised, and `l1Enabled=false`.
* Expiry of the recharge keys: they outlive the messages they guard.

## Plan

In order of weight:

1. **Login**: registration with the Bloom filter, tokens and their expiry. **Clients**:
   ServiceCall over CircuitBreaker, the billing statuses, the web client's refresh and replay.
2. **Pure algorithms** as operators against reference definitions: pipeline order,
   registry naming, path resolution, the fold of `state.ts`.

Runs are to stay few: as these come, `tracker_locate` gives way to the
new questions first.
