# QuickBite order service: specifications, model checking and proofs

TLA+ modules for the order service (`src/src/`), TLC configurations that check
them on small instances, and TLAPS proofs about them. Source paths below are
relative to the repository unless they start with `app/`, `lib/` or `pkg/`,
which are short for `src/app/`, `src/lib/` and `src/pkg/`.

## 1. The system

The service takes orders from basket to door. It keeps one Postgres per region,
one Redis, publishes to and consumes from RabbitMQ, calls the core service over
HTTP and is called back by the payment provider Kashier. Server processes run the
routes, worker processes the cron jobs (assignment, outbox drain, archival); both
consume core's events.

| Part | Code | State | Operations | Talks to |
|---|---|---|---|---|
| Status machine | `app/order/service/order-status.service.ts` | none (a table) | `assertTransition` | every status update through PATCH |
| Orders | `app/order/service/order.service.ts`, `app/order/repository/` | `orders`, `order_items` | `placeOrder`, `updateStatus`, reads | core (stock, branch), payments, outbox, WebSocket |
| Payments | `app/payment/` | `payment_sessions`, `payment_webhook_events`, `transactions` | `initOnlinePayment`, `processKashierWebhook` | Kashier, orders, outbox |
| Assignment | `app/assignment/` | Redis: `offer:order:*`, `claim:order:*`, `assign:attempts:*` | `tickRegion`, `claim`, `reject`, `adminAssign` | orders, presence |
| Agents | `app/agent/` | Redis: `presence:*`; `agent_earnings` | `upsert`, `goOffline`, `transition`, `settleDelivered` | orders, finance, assignment |
| Finance | `app/finance/` | `restaurant_balances`, `transactions` | `upsertIncrement`, `recordPayout` | settlement, idempotency |
| Idempotency | `lib/idempotency/` | Redis: `idempotency:*` | lookup, store | every write route |
| Outbox | `lib/events/` | `events_outbox` | `insertOutboxEvent`, `drainOutboxForRegion` | all writers, RabbitMQ |
| Scheduler | `lib/jobs/scheduler.ts` | the set of running jobs | `startAll`, `stopAll` | all jobs |
| Archival | `lib/jobs/archival.worker.ts` | hot and archive databases, a Redis lock | `runArchivalWithLock`, `archiveRegion` | the six archived tables |
| Core cache and events | `app/order/service/core-data-cache.service.ts`, `app/order/core-events.handlers.ts`, `lib/core-client/`, `lib/core-events/`, `lib/rbac/permission-cache.service.ts` | Redis: `core:*`, `branch:reject-new-orders:*`, `core-events:dedupe:*`; a Map per process | read-through, `handleMessage` and its handlers | core, RabbitMQ |
| Plumbing | auth, RBAC, routing, validation, DTOs, WebSocket, configuration, migrations | none of its own | | |

What is hard here is that almost nothing spans two steps:

* **Check, then write.** `updateStatus`, `transition`, `settleDelivered` and
  `reconcile` read a row, decide, and write in a later transaction whose `UPDATE`
  does not repeat the check. Only `claimReadyOrderForAgent` and
  `decrementIfSufficient` check in the statement that writes.
* **Two stores.** Postgres and Redis are updated one after the other; keys of
  Redis expire on their own.
* **Calls that fail half way**: stock reserved in core, then an order row, then
  a Kashier session, with compensations that may fail themselves.
* **Repetition**: Kashier retries webhooks, clients retry payouts, the outbox
  publishes again, several workers run the same job.
* **Acknowledgements**: a commit or a remote call may take effect and throw.
* **Caches** that events delete or patch while read-throughs fill them, with events
  handled concurrently, out of order and again.

What makes the parts correct: an online order reaches the kitchen only when paid;
stock is released exactly when an order does not live on; an order has at most
one courier, and only one who had it is paid; every delivered order is settled; the
balance is accounted for to the unit and never negative; every committed event reaches
the exchange and nothing else does; a row leaves the hot database only when the archive
has a row with its key; caches come back to what core says; and what should happen in
the end does happen. Where the code falls short of what its documents promise, section 5
says so, and the properties say what is left of the promise.

## 2. The modules

```
OrderStatus <- Orders <- Checkout   <- MCCheckout     CheckoutOutcomeProofs -> CheckoutProofs -> OrdersProofs
                      <- Delivery   <- MCDelivery     DeliveryProofs  -> OrdersProofs
Sale        <- Checkout (refines)
Channel     <- Outbox (refines)                       OutboxProofs
Account     <- Finance (refines)    <- MCFinance      FinanceProofs
Shelf       <- Archival (refines)   <- MCArchival     ArchivalProofs
               CoreEvents                             CoreEventsProofs
```

Actions carry the names of the functions they model. A handler is cut at every
`await` that touches shared state; what happens between two awaits is one step.
A database transaction whose statements nobody else can see is one step, at its
commit. Operators whose comment begins with "Slip:" are not part of a
specification: each is a plausible mistake in the operator that follows it, and
shows that the property aimed at it can fail.

### OrderStatus
The table `TRANSITIONS` row by row, the stamps, the reasons, the cancellation
window, and `AssertTransition` as the set of rules that let a caller through.

### Orders
`orders` (status, payment method, courier, the stamps that are set), the outbox
of each order as a sequence of event types, and `updateStatus`:
`BeginUpdateStatus` (read, `resolveStatusActor`, `assertTransition`), then
`CommitUpdateStatus` or `AbortUpdateStatus`. Left out: item rows, amounts,
addresses, reads and lists, WebSocket emits. `EventForStatus` lists the rows of
`OUTBOX_EVENT_FOR_STATUS`. Agents can reach the customers' PATCH route, and
`resolveStatusActor` knows them, so `Callers` may contain agents.

### Checkout (extends Orders, refines Sale)
`placing[o]` says where `placeOrder` stands: reserve, insert, pay, void, release. Each
step has its failure, and `Faults` switches on the rare ones: `crash`, `begin` (no
connection for a transaction), `compensation`, `ack` (takes effect, throws) and
`webhook`. Two variables are history: `unsure`, the orders whose commit took effect
while `placeOrder` saw an error, and `mishaps`, those with a failure that nobody
compensates (no connection, a lost answer, a compensation that fails, a crash). Core's
stock and Kashier are outside: stock is what core keeps under the order's idempotency
key, and Kashier is a customer who attempts to pay (any number of declined attempts, at
most one successful one per session) and a sender that repeats a webhook, also
concurrently, until it is answered 200. The webhook handler is `RecordWebhook` or
`SkipDuplicate`, `ReadOrder`, `ReadSession`, one of `IgnoreWebhook`, `CaptureSession`
and `FailSession`, `MarkProcessed`. Left out: signatures, amounts, the expiry of
sessions (no code sets it). `Sale` is the promise: a payment that was made is booked at
most once, as what it was, in the step that tells of it; an order is told of at most
once, when it is taken to be paid at the door or in the step that books its payment;
only an order that was told of is ever on. The mapping counts the events in the outbox;
reservations, sessions, webhook rows and handlers are not part of it.

### Delivery (extends Orders)
Starts with orders in preparation, paid (`Methods`) or to be paid at the door. The
worker's tick reads its batch once and goes through it (`CheckOffer`, `CheckAttempts`,
`FindCandidates` with its overscan, `SetOffer`, `CountAttempt`), and the handling of an
order may fail (`tick`). Calls in flight are records with a program counter: claim and
admin assignment share `LockClaim`, `CommitClaim`, and the catch that deletes the lock
whoever holds it (`ReleaseClaim`); then `reject`, the pick, the settlement, and
`goOffline` in three steps. Keys expire at any time, the attempts counter too. Two
variables are history: `carriers`, who has had each order, and `patched`, the orders an
agent set to delivered through the customers' route. Distances are left out: any choice
of the right size may be the nearest candidates. The lookups of the candidates are one
step. Amounts are left to Finance.

### Outbox (refines Channel)
Rows of `events_outbox` in the states none, open (inserted in a transaction that
has not ended), aborted, pending, dispatched. Ids are taken at the insert, so rows
become visible out of order. A drain holds the locks of its batch; another drain's
`ClaimBatch` skips them. `Publish` is a confirmed publication, `PublishUnconfirmed`
one that arrives and is not confirmed (sent again by the channel, or the loop is
left), `PublishFails` leaves the loop after `markFailed`, `CommitDrain` makes the
stamps visible, `RollbackDrain` loses them. `redo` counts publications that no
stamp will stand for. `attempts` and `last_error` are never read and left out.
`Channel` is the promise: what is delivered has been sent, and stays delivered.

### Finance (refines Account)
One restaurant, one currency. A settlement reads the branch (rounded commission, 0 when
core is out of reach), then commits its ledger rows (only those whose key is new and
whose amount is not 0) and its credit, which is not conditional: an order may be settled
again, or twice at once. `surplus` is history: what such settlements credited beyond the
rows they wrote. A payout request goes through the idempotency middleware (`LookUp`),
the handler (`RecordPayout`, `PayoutFails`, `RecordPayoutAckLost`), and the wrapped
`res.json`, which stores and sends the answer in either order. The key of a payout is
taken not to be that of a settlement row (`commission:<id>` and the like), though both
are in one column. Settlements and payouts are made of the repositories' statements
(`UpsertIncrement`, `DecrementIfSufficient`, `CreateTransaction`,
`CreateTransactionsIdempotent`), each one conjunct of its transaction. The cache forgets
at any time; requests and answers get lost. `Account` is the promise: an order is
credited with at most its subtotal, what it is credited with again is counted as
surplus, a key is debited at most once and never with more than there is.

### Archival (refines Shelf)
The six tables of `ARCHIVAL_TABLES`, children before parents, with their rows as version
numbers in the hot database and in the archive. A worker's run is `TakeLock`, then
`SelectBatch`, `CopyBatch` (`ON CONFLICT DO NOTHING`, on the id and on the other unique
column four of the tables have: `KeyOf`) and `DeleteBatch` (by id, whatever the version
is by now) until no row is left (`NextTable`) or the runtime is over (`MaxRuntime`),
then `ReleaseLock`, which deletes the lock whoever holds it. The lock may expire under
its sweep, a statement may fail, a process may die at any point. Beside the sweeps the
service inserts orders with their items, and later sessions, webhook rows, ledger rows
and earnings of them (whose order was read before, and may have been swept since; a
unique key is free again once its row has left), and updates the rows of the tables it
updates. `raced` is history: the rows updated after a sweep had read them. Left out:
columns, and the numbers of rows logged. `Shelf` is the promise: rows of this year stay
hot, and a row leaves the hot database only when the archive has a row with its key, its
own copy or an earlier row's.

### CoreEvents
One branch, one product of it and one role, each value known by the number of the
event that announced it. The consumer's `handleMessage` is `Deliver`, `BeginWork` (the
dedupe key is set before the work) or `SkipDuplicate`, the handler in the steps its
Redis calls make (`GetProduct`, `SetProduct`; `DeleteBranch`, `SetRejectFlag`;
`InvalidatePermissions`), and the ack inside the last of them. `HandlerFails` sends the
message to the dead-letter queue, `ProcessDies` back to the queue; core or the
broker sends it again (`Redeliver`), an operator replays it (`Replay`). The
read-throughs are `Miss`, `Fetch` (core answers) and `Store`, or `ReadFails` when the
retries of `pkg/utils/retry.ts` are used up or the write fails. Entries, the flag,
the dedupe keys and the permission Maps expire. `overlapped` is history: the
entries two parties were at work on at once, or whose events were handled out of order.
Left out: the parsing of envelopes (a malformed message goes to the dead-letter queue
and touches no cache), addresses (never cached), the prices' and
branches' other fields.

## 3. What the runs check

| Run | Question | Instance |
|---|---|---|
| CheckoutFaults | Is an online order in the kitchen always paid for? Is `order.placed` told once and first? Does a live order keep its stock? Does a failed checkout leave nothing? Does checkout implement `Sale`? Is Kashier answered in the end? Does a payment place the order, or leave the trace it can be found by? | 1 order, 2 payment attempts, declined or not, 1 PATCH, all faults |
| DeliveryOffline | Do assigned orders have a courier? Who is paid, if couriers go offline meanwhile? Does an order change hands only through ready or a cancellation? | 1 order, 2 couriers, 2 calls beside `goOffline` and 1 PATCH of the restaurant, all faults |
| DeliveryLocks | Are delivered orders settled, though couriers can PATCH them to delivered? Does an order change hands only through ready, though the lock expires, and whom does a lock name? | 1 order, 2 couriers, 3 calls, 1 PATCH by anybody, couriers included, lost answers |
| Assignment | Is a waiting order dealt with in the end, though rejections write back old offers and ticks overlap and fail? By how much is the cap exceeded? | 1 order, 2 couriers, 2 workers, 1 call accepting or rejecting, a cap of 1 |
| OutboxDrains | Is the outbox an at-least-once channel that drains? | 4 events, 2 workers, batches of 2, 1 undone publication per event |
| FinancePayouts | Do concurrent and repeated settlements and payouts amount to the abstract account? Is the balance accounted for? | 2 orders, 2 settlements and 2 payout requests at once, 2 keys |
| ArchivalSweeps | Has the archive a row for every key that left, are children swept first, is no update lost but those that race a sweep? Do old rows leave? | an order, an item, an earning and one of a second settlement with the same key; 2 workers, batches of 1, 2 years of writes, 2 versions, 1 fault |
| CoreEvents | Does an event vanish? Do caches agree with core once all is settled, does a closed branch get orders, does what is stale go? | 2 processes, 1 of them a server, 2 events and 1 read at once about one entry, 1 fault |
| WebhookResurrects | "no jumping back": is every status change an edge of the table? **No** | 1 order, 1 attempt, 1 PATCH |
| WebhookRetryLost | "rethrow → 500 → Kashier will retry": is an acknowledged payment in the ledger? **No** | 1 order, 1 attempt, a failing reconciliation |
| OfflineStrandsOrder | Has every picked order a courier? **No** | 1 order, 1 courier |
| SettledTwice | "a re-run never double-charges/-credits": is the balance the net of the ledger? **No** | 1 order, 2 settlements |

Why the bounds are enough. The races of Checkout are between two handlers of one order:
a second attempt gives two webhooks and a retry, a PATCH gives the third writer. Orders
do not share state there, except the transaction ids, and those an attempt takes are
new. In Delivery, three calls let one courier's lock expire under a second one while the
first goes on; two couriers are needed for a handover and a third would only repeat the
second's part; in DeliveryOffline a settlement that read one courier, and a claim by
another after `goOffline`, are the two calls. In Assignment two workers read one
counter, and two is how many it takes. `MaxCredits` bounds the settlements: none of an
order is begun once it has been credited so often, those under way go on, so that with
the bound at 1 two settlements at once still credit an order twice. Four events and
batches of two let a drain break off in its middle while another has the rest; `MaxRedo`
bounds faults, not events. In Finance, the first order's commission is rounded (half of
3), the second has no delivery fee and is paid at the door; one settlement may or may
not allow a payout, and two payouts take more than one settlement. In Archival, one row
per batch lets a run stop between any two rows, two workers are what an expired lock
allows to overlap, and `MaxVersion` 2 gives an update that races the sweep. `MaxYear` 2
is the number of years with writes: one more passes. That is what a row refused by the
archive takes: the earning is swept in the second year, the order is settled again in
it, and the second earning is old in the third. `MaxFaults` 1 lets any one run fail or
die. `YearPasses` only while no sweep is under way: sweeps start at 03:00 and run for an
hour at most. In CoreEvents, entries share no state (`OneEntry` makes a behaviour choose
one), two events give every order of handling, an overlap and, with a fault, a
redelivery behind a younger event; the one read meets either. Symmetry is used in the
Delivery runs without liveness and in FinancePayouts, over sets whose members the
modules do not tell apart and which no property names; runs with liveness use none.
Deadlock is checked in FinancePayouts; in the other modules orders and events end and
everything may be done.

Fairness, in the runs that check liveness:

* Checkout: a handler that has begun runs on, and Kashier delivers again what was not
  answered 200 (its retry contract, and `process_error` exists for it). Not fair:
  customers, PATCH requests, faults.
* Delivery: cron fires every `assignmentTickSec`, `tickRegion` catches the errors of a
  row and goes on (`scheduler.ts` runs the next tick even after a throw); calls run on;
  offers and locks expire. Ticks may fail any number of times, but not for ever: from
  some point on a failing tick does no more than one that does not fail could. And from
  some point on the counter of an order that waits below the cap does not expire: its
  hour is renewed by every attempt, and ticks are seconds apart. Not fair: couriers
  coming online or accepting, the restaurant.
* Archival: cron fires every night, `scheduler.ts` runs the next tick after a throw, the
  loop of a run goes on, a lock left behind expires. Not fair: the service's writes.
  `MaxFaults` bounds failures and deaths of processes: a night without them comes.
* CoreEvents: the broker delivers what is queued, handlers and requests run on, keys
  expire. A dedupe key outlasts the handlers of its event (a day), and the reject flag
  (seven days) what was read of the branch before it was set (an hour). Not fair: core's
  changes, requests, redeliveries, replays by an operator.
* Outbox: weak fairness of the drain's own steps for the same reason, and strong
  fairness of `Publish`: a broker asked again and again confirms at last.
  Transactions of the services need not end.

## 4. What is proved

`tlapm` checks every proof; each theorem holds for all values of the constants that
satisfy the named assumptions in the modules and the theorem's own.

* **CheckoutProofs.** `TypeCorrect`. `OnlineOrdersArePaid`: the inductive invariant
  `PaidInv` adds to the property that orders not yet inserted have no row, that a
  payment attempt is one of an order that was placed, and that a PATCH waiting to
  commit a live status was checked against a live order (only the system may leave
  `pending_payment` for `placed`, and no caller acts as the system). The same
  argument covers a void or a cancel that is overwritten: a webhook writes
  `placed` and the charge in one transaction. `LiveOrdersHoldStock`, under every fault:
  stock is held until a compensation begins, and a compensated order was never live,
  save one whose commit was taken to have failed (`StockInv`; `unsure` is the
  exception the property makes).
* **CheckoutOutcomeProofs.** Three more invariants on top of `PaidInv`.
  `PlacedIsToldOnceAndFirst`, under every fault, from `TellInv`: the row of
  `payment_webhook_events` lets one handler at a payment, an order has one successful
  attempt, so no second handler that read `pending_payment` is left when the first
  tells `order.placed`; and an order has been told of before it is live, so before
  anybody may decide on it. The bare property is not inductive: it says nothing of
  handlers and PATCH requests on their way.
  `FailedCheckoutsAreUndone`, under every fault, from `UndoInv`: before `placeOrder`
  succeeds a PATCH can only cancel, and every failure but the mishaps goes through the
  void and the release. The property excepts the mishaps, each of which is a step of the
  model; section 5 says what they leave behind.
  `LostPaymentsLeaveTraces`, under every fault and with declined attempts, from
  `LedgerInv`: a session leaves `initialized` only with an entry in the ledger, and a
  webhook row is processed only when its order has one. That an acknowledged payment is
  itself in the ledger is false (`WebhookRetryLost` is the failing handler, section 5 has
  the declined attempt before it); the theorem says what can still be found.
  `CheckoutIsASale`, under every fault, from `PaidInv` and
  `TellInv`: the insert of an order paid at the door takes it, the two transactions of the
  webhook book a payment, `updateStatus` and the void of `placeOrder` stop an order or let
  it go on, and every other step is a stutter. That one event inserted is counted once
  more, and no other is, is proved for every sequence of events (`CountOfOneMore`). The
  mapping needs one fact more, that an order not yet inserted has no payment method.
* **DeliveryProofs.** `DeliveryTypeCorrect`. `AssignedOrdersHaveAgents` and
  `HandoverOnlyThroughReady` from `AssignInv`: no PATCH in flight carries the rule to
  `assigned`, so only the guarded `UPDATE` of a claim assigns. The lock in Redis plays
  no part in the argument, which is the point. `DeliveredOrdersAreSettled`, for every
  set of callers, and with `goOffline`, which its run leaves out: only a settlement and an agent's own PATCH deliver, and ledger rows,
  credits, earnings and events are never taken back. `EarnersHaveCarried`, from
  `EarnInv`: the order's courier and whoever is about to settle are among those who have
  had it, and nobody leaves that set. That the earner is the courier is false once
  couriers go offline (section 5). `LocksHaveHolders`, without `goOffline`, crashes and
  lost connections (section 5 again: `goOffline` leaves locks behind): a lock names the
  order's courier or a claim before its commit or in its catch. `AttemptsStayCapped`,
  for any number of workers, from `CappedInv`: the counter and the workers past their
  check together stay below the cap plus the number of workers.
* **OutboxProofs.** `OutboxTypeCorrect`, `StampsAreTrue`, `NoNeedlessDuplicates` and
  `OutboxIsAChannel` from `OutboxInv`: batches are disjoint sets of pending rows, what
  is unrecorded belongs to one drain, and publications beyond `redo` are stamped or
  about to be. The bare property is not inductive: without disjoint batches two
  drains could publish the same row.
* **FinanceProofs.** `FinanceTypeCorrect`, `BalanceStaysSolvent` (no commission exceeds
  its subtotal; needs rates of at most 10000, which core is trusted for),
  `AnswersAreTrue` (handlers, cache and clients hold copies of true answers), and
  `FinanceIsAnAccount`: concurrent requests, retries and cached answers are stutters, a
  repeated settlement is a credit the account counts as surplus. `BalanceAccountedFor`,
  from `Books`, however often orders are settled: the balance is the sum of the rows of
  settled orders less that of the payouts, plus the surplus; the rows of an order's
  first settlement and its charge come to what it credits, and a repeated one may still
  write its commission, if the first had none, which the surplus allows for. Without
  repetitions the surplus is 0 and the balance is the net of the ledger; with them it is
  not (`SettledTwice`). That a sum grows by the row that is added is proved here too,
  for every finite ledger: of the sets a sum is not additive on there would be a
  smallest one (`SmallestExists`).
* **ArchivalProofs.** `ArchivalTypeCorrect`, `ChildrenGoFirst`, `LossNeedsARace` and
  `ArchivalIsAShelf` from `ArchivalInv`: once a row is inserted, it is hot or the
  archive has a row with its key; no two rows with one key are hot, or archived,
  together (`Keys`); a batch under way holds versions that were read and, once copied,
  is in the archive or refused for a row that is; and behind the table a sweep has
  reached no row of a past year is hot. The lock plays no part here either: sweeps may
  overlap.
* **CoreEventsProofs.** `CoreEventsTypeCorrect` and `EventsDoNotVanish` from `CoreInv`:
  a dedupe key stands for a handler that has begun, ended or been cut short, so a
  duplicate is never the only delivery of its event. `SettledCachesAreCurrent` and
  `ClosedBranchesTakeNoOrders` from `CacheInv`, which says of every entry that nothing
  overlapped on who is at work on it and what they carry: one handler, with no older
  event than those that are done (`InOrder`), or answers of core, never both (`Apart`);
  what is kept, answered or half written is as new as every event that is done
  (`FreshBranch`, `ProductInv`, `PermissionsInv`); and where the last event that is done
  closes the branch, the flag is up or nobody has or brings an older branch (`FlagInv`).
  The bare properties speak of settled states only. The lemmas `Aside`, `Begins`,
  `Moves`, `Ends` and `Answers` say once what a step means for an entry, and every
  invariant is carried over those five kinds of step.

Only model-checked: every liveness property, since the proof system has no ENABLED.
The lemmas about sequences and tables that several proofs need are in OrdersProofs.

## 5. Disagreements between the code and what it says

Four have a run (section 3). Others met while modelling, reproduced by changing the
configurations or read off the code, and not kept as runs:

* Two PATCH requests checked against one status both commit, and the second takes an
  edge the table does not have (`order.service.ts:293`).
* A declined attempt sets the session to failed; the successful one after it finds no
  active session and is dropped (`kashier-webhook.service.ts:104`; `payments.md:82`).
* A declined webhook that read the session before the capture overwrites `captured`
  (`kashier-webhook.service.ts:202`; `payments.md:147`).
* When the payment session cannot be created the order is voided and its stock released
  (`order.service.ts:193`; the comment at line 179 says so), while `orders.md:105`,
  `payments.md:51` and `system-design.md:337` say that it remains in `pending_payment` and
  may be retried. There is no `POST /payments/init` and no sweep after 15 minutes.
  `FailedCheckoutLeavesNothing` states what the code does.
* `conn.transaction()` throws after the reservation and before the `try`: the stock
  stays reserved (`order.service.ts:119`). `FailedCheckoutLeavesNothing` excepts it with
  the other failures nobody compensates (`mishaps`): a reservation core made and whose
  answer was lost, a compensation that fails, a crash. An order whose process dies
  before its session exists waits in `pending_payment` for ever.
* A commit that took effect and threw is compensated: the order lives on without its
  stock (`order.service.ts:172`). `LiveOrderHoldsStock` excepts these orders (`unsure`).
* A courier moves an order to delivered by the customers' PATCH route, past the
  settlement that `deliveries.md` (section 5, invariant 2) requires
  (`app/order/routes.ts:39`; `order-status.service.ts`, `resolveStatusActor`).
  `DeliveredIsSettled` excepts exactly the orders that were delivered so (`patched`).
* `settleDelivered` accepts an order in any status, assigned and cancelled included,
  and a second report credits the restaurant again beside the ledger rows of the first
  (run SettledTwice; `transaction.repo.ts:73`, `restaurant-finance.md:92`,
  `system-design.md:364`). `BalanceIsExplained` says by how much.
* The earning goes to the courier read before the transaction
  (`settlement.service.ts:165`), who may have gone offline since, with the order in
  other hands; `EarnerCarried` bounds who that can be.
* Cancelling an assigned order keeps its `delivery_agent_id` and leaves its courier busy
  (`order.service.ts:293`; `deliveries.md:105` says both are cleared). `AgentHandover`
  allows both what the code does and what the document says.
* The cap on broadcasts is a cap per life of a Redis counter, an hour after the last
  attempt (`assignment.service.ts:98`): then broadcasting resumes, where
  `deliveries.md:73` and its invariant 4 let the order stay ready until an admin
  decides. Workers that read the counter together exceed it, by fewer than there are
  workers.
* Orders at the attempts cap keep their places in the worker's batch, so that
  younger ones are never tried (`assignment.service.ts:72`). Assignment has one order.
* Two couriers who reject together write back what each had read: one stays in the
  offer (`assignment.service.ts:202`). The offer expires, and the next round mends it.
* `goOffline` leaves the claim lock of the order it gives back (`deliveries.md:71`).
  This is why DeliveryLocks has no `offline`.
* `balance.integration.test.ts:9` counts rows with `dst = owner` as credits; payouts
  are such rows and debit the balance. `LedgerNet` follows `restaurant-finance.md:92`
  instead.
* Archival: the copy ignores a conflict on any unique column (`archival.worker.ts:98`
  names no target), `provider_event_id`, `idempotency_key`, `order_id` and
  `provider_session_id` included, and line 99 deletes the row all the same. A webhook
  redelivered, or an order settled again, after the first row has been swept, writes a
  row that leaves the hot database a year later without a copy of its own, though
  `archival.worker.ts:16` calls the copy committed before the delete. `ImplementsShelf`
  promises no more than a row with the key.
* Archival: an update between the SELECT and the DELETE, or after a run that died
  between copy and delete, is lost, though a comment calls the order of the
  statements safe (`archival.worker.ts:18`); nothing validates the copy
  (`system-design.md:374`). A child born after New Year outlives its parent
  (`archival.worker.ts:16`), the webhook rows that deduplicate Kashier's retries
  are swept, and so are last year's orders that are still open. The lock is deleted
  without a look at its owner (`archival.worker.ts:146`).
* Reads: "We don't straddle: a single `year` is wholly hot or wholly archived"
  (`order.service.ts:241`) does not hold between New Year and the end of the sweeps,
  and `getOrder` looks in the hot database only (`order.service.ts:227`).
* Core events: the dedupe key is set before the handler runs, so a process that dies in
  between loses the event, though `system-design.md:214` says at least once. The keys
  are "safe to expire: all handlers are idempotent cache invalidations"
  (`consumer.ts:9`), but the product handlers merge: overlapping or late ones leave an
  old price for an hour. A branch read before its event and stored after it stays for an
  hour, not an event-loop cycle (`branch.client.ts:33`), and an open branch may be
  rejected for seven days when its two events are handled out of order.
* Permissions are cached in each process for an hour, not in a shared Redis key for five
  minutes (`rbac.md:45`), and an event reaches one process.

## 6. Not modelled, and the plan

1. *Outbox order*: what one worker guarantees per aggregate, and what two do not. The
   code promises none, and consumers are outside the repository.
2. *An abstract delivery* for the Delivery module, as `Sale` is for Checkout, and the
   composition of the two in one state space; today they share Orders. What Delivery
   promises of an order's couriers and settlement is stated by its own invariants and
   action properties.

Partly modelled: the scheduler, as its jobs meet it; `startAll` and `stopAll` are not.

Left out for good: authentication, the checks of RBAC, validation and DTOs
(stateless); lists, cursors and `withCache` (reads; the cached answer of a list is up to
ten seconds old, and how Postgres parses a cursor is not in this code); WebSocket
emits (change nothing here); configuration, logging, DI and sharding (set-up; an
order lives in one region, so one region is modelled); migrations (their unique keys
and checks appear as guards).
