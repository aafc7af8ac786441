# Verification of the Cardstack hub

TLA+ models of the parts of this repository whose correctness depends on what
happens in which order: the hub's jobs, callbacks and database transactions.
The centre is **scheduled payments**, where money moves: a user schedules a
payment once, and from then on cron jobs, waiter jobs, an RPC node and a
contract must between them pay it exactly as often as it should be paid. Around
it stand the other services of the hub whose handlers and jobs overlap: wallet
orders, the e-mail card drop, profile purchases, notifications, reward roots,
the Discord bots, and the way a scheduled payment gets to the chain.

* [1. The system](#1-the-system)
* [2. What is modelled, and where](#2-what-is-modelled-and-where)
* [3. What the runs show](#3-what-the-runs-show)
* [4. Bounds](#4-bounds)
* [5. Fairness and time](#5-fairness-and-time)
* [6. What is proved](#6-what-is-proved)
* [7. Abstractions and what is not modelled](#7-abstractions-and-what-is-not-modelled)
* [8. Plan](#8-plan)

Paths below are relative to `src/packages/`. `hub/` is the server and its
worker; both share one Postgres database.

## 1. The system

The repository is a monorepo. The hub (`hub/`) has an HTTP server and a
graphile-worker process that runs jobs from a Postgres queue: queued by routes
and by other jobs, or started by cron (`hub/worker.ts`). Jobs are delivered at
least once, fail and are retried, and several may run at a time. Everything
else in the monorepo is a client of the hub, a wrapper of contracts, or a batch
program.

### Components

**Scheduled payment execution** (`hub/services/scheduled-payments/executor.ts`,
`hub/tasks/execute-scheduled-payments.ts`,
`hub/tasks/scheduled-payment-on-chain-execution-waiter.ts`).
*State*: the rows of `scheduled_payments` (payAt, canceledAt,
nextRetryAttemptAt, the count of attempts in the last payment cycle) and of
`scheduled_payment_attempts` (status, startedAt, endedAt, transactionHash), and
the locals of every job that runs.
*Operations*: cron's executor fetches due payments and works through them one
by one: check that no attempt is in progress, check the last success, get a
gas price and a token rate, create an attempt, count, record, submit through
the SDK under the nonce lock, save the hash, queue a waiter; on an error mark
the attempt failed and schedule a retry. The waiter waits for the transaction,
then records success (reset the retry counter, move payAt one month on) or
failure (schedule a retry), or adds itself to the queue again.
*Hard*: every database or RPC call is an `await` and none is in a common
transaction; executor runs may overlap with each other, with waiters, with the
user's cancelation; a process may die between any two of them.
*Correct when*: the contract's payments and the recorded successes agree, a
payment has one attempt in progress at a time, retries respect the backoff, and
no payment is lost.

**Fetcher and retry schedule** (`hub/services/scheduled-payments/fetcher.ts`).
*State*: none; it decides, from a payment's row, its attempts and the clock,
which payments are due, when a failed one is retried and how many retries are
left. *Hard*: three expressions of the end of validity, minutes against days,
attempt counts that include the one that failed.
*Correct when*: each retry waits for what the schedule has for its failure, retries
go on until the end of validForDays and not past it, and the retries left that the
API shows agree with what the fetcher will do.

**Recurring calendar** (`calculateNextPayAt` in `hub/utils/scheduled-payments.ts`,
and the executor's `minDaysBetweenPayments`). *Hard*: months of 28 to 31 days, a
guard in days against a period in months.
*Correct when*: every month is paid on its day and only once.

**Crank nonce lock** (`hub/services/crank-nonce-lock.ts`). *State*: one row per
chain with the last nonce and when it was given out, behind a Postgres advisory
lock held by a database transaction. *Operations*: `withNonce(chainId, callback)`.
*Hard*: the database transaction times out while the callback goes on, the
answer to a sent transaction is lost, the node forgets transactions, the stored
nonce expires.
*Correct when*: concurrent calls use different nonces, in sequence and without
holes, and a transaction that waits in the pool is not replaced too early.

**Scheduled payment routes** (`hub/routes/scheduled-payments.ts`,
`scheduled-payment-attempts.ts`): create, patch (creation hash, cancelation),
list, delete.

**Registration and cancelation jobs**
(`hub/tasks/scheduled-payment-on-chain-creation-waiter.ts`, `...-cancelation-waiter.ts`):
set creationBlockNumber or cancelationBlockNumber once mined; a day-old one is
given up. *Correct when* a payment that exists on the chain becomes executable,
once.

**SDK scheduled payment module** (`cardpay-sdk/sdk/scheduled-payment-module.ts`):
estimates, signs and sends; `waitUntilTransactionMined` polls for a receipt and
throws "took too long". The contract itself is outside the repository.

**Data integrity checks** (`hub/services/data-integrity-checks/`): read-only
queries that report stuck payments and attempts.

**Worker and queue** (`hub/worker.ts`, `hub/services/worker-client.ts`): cron
table, retries of jobs. The queue is graphile-worker.

**Wallet orders, Wyre callbacks, reservations** (`hub/services/order.ts`,
`hub/routes/orders.ts`, `wyre-callback.ts`, `reservations.ts`,
`hub/tasks/wyre-transfer.ts`). *State*: `wallet_orders.status`,
`reservations`. *Operations*: three sources of events (the wallet's POST, the
"received" callback through its transfer job, the "sent" callback) drive
`nextOrderStatus`, whose result each caller writes in a second query.
*Hard*: events in any order or twice, read and write not atomic, a transfer made
before it is recorded. *Correct when* each order that has funds and a
reservation ends provisioned, once.

**Email card drop** (`hub/routes/email-card-drop-requests.ts`, `...-verify.ts`).
*State*: `email_card_drop_requests`, a rate-limit flag. *Correct when* an owner
and an email get at most one card.

**Discord bots** (`discord-bot/bot.ts`,
`hub/services/discord-bots/discord-bots-db-gateway.ts`): several bot processes,
one of which is the listener; on silence another takes over. *Correct when* at
most one listens, and each message is processed.

**Profile purchases and job tickets** (`hub/routes/profile-purchases.ts`,
`job-tickets.ts`, `hub/tasks/create-profile.ts`). *State*: `profiles`,
`job_tickets`. *Operations*: a purchase looks for a ticket with its receipt,
validates the receipt with the store, records a profile and a ticket and adds
the job that registers the profile; a failed ticket is retried.
*Hard*: the check of the receipt and the ticket are far apart; the job has one
attempt. *Correct when* a receipt buys one profile.

**Notifications** (`hub/contract-subscription-event-handler.ts`, the
`notify-*` tasks, `hub/tasks/send-notifications.ts`,
`remove-old-sent-notifications.ts`). *State*: `latest_event_block`, the queue,
`sent_push_notifications`. *Operations*: the listener subscribes from the block
it recorded, raises the record and adds a job for each event; the job adds one
that is keyed by the notification; that one sends and records.
*Hard*: restarts of the listener, events taken out of order, a send that is
repeated because it was not recorded. *Correct when* an event is told once.

**Reward root indexing** (`hub/tasks/check-reward-roots.ts`,
`process-reward-root.ts`, `hub/services/subgraph.ts`). *State*:
`reward_root_index`, `reward_proofs`, the queue, and the one database
connection of the worker with its transaction. *Hard*: overlapping checks, jobs
with one attempt, and a transaction that all tasks of the worker take part in.
*Correct when* every root is indexed, and indexing disturbs no other task.

**Gas station and exchange rates**, **sessions**: caches of prices, and signed
tokens.

**The rest**: card compiler and card services, dependency injection, other SDK
modules, subgraphs, DID resolver, reward programs (Python), web clients,
command line, infrastructure.

### Interactions

```
 cron --every 5 min--> executor --fetch--> scheduled_payments / ..._attempts
                          |  withNonce --> crank_nonces (advisory lock) --> RPC node --> contract
                          '--queue--> execution waiter --poll receipt--> RPC node
                                          '--success / failure--> the same two tables
 user --PATCH canceled--> scheduled_payments        user --cancel tx--> contract
```

Executor and waiter share no lock: they meet only in the two tables, and the
contract, which pays each cycle at most once, is the last line of defence.

```
 SDK --POST, PATCH, DELETE--> scheduled_payments <--creation / cancelation waiter--> RPC node
  '---tx--> relay server --> contract
 wallet --POST--> reservations, wallet_orders <-- Wyre's callbacks --> wyre-transfer job
                                '--provision--> relay server --> chain --> subgraph
 chain --events--> listener --> notify jobs --> send job --> Firebase
 Discord --message--> every bot;  bots meet in discord_bots and in NOTIFY of Postgres
```

The services share the database but, payments and their registration apart, no
tables. One thing they share without meaning to is the worker's connection
(`RR_redundant` below).

## 2. What is modelled, and where

| Module | Models |
|---|---|
| `ScheduledPayments` | executor job, fetcher query, execution waiter job, cancelation, crashes and failed writes, the chain and contract (external) |
| `PaymentPromise` | the abstract promise to one payment, with no jobs, tables or chain |
| `RetrySchedule` | the schedule of retries of one payment in real minutes |
| `RecurringCalendar` | the days of a recurring payment and the guard against paying a month twice |
| `CrankNonce` | `withNonce` of concurrent callers, Prisma's timeout, the node's pool (external) |
| `PaymentRegistration` | creation and cancelation of a payment: the SDK's flow, the routes, both waiter jobs, the integrity check |
| `WalletOrders` | orders, reservations, Wyre's two callbacks, the transfer job, provisioning |
| `EmailCardDrop` | requests, the link's job, verification, the rate limit |
| `ProfilePurchases` | the purchase request, the profile's job, job tickets |
| `EventNotifications` | the event listener, the notify and send jobs, restarts |
| `NotificationPromise` | the abstract promise of notifications: an event is told once |
| `RewardRoots` | the check, the roots' jobs, the transaction of the worker's connection |
| `DiscordBots` | the election of the listening bot, its takeover, messages and timers |
| `ScheduledPaymentsProofs`, `RecurringCalendarProofs`, `CrankNonceProofs`, `DiscordBotsProofs`, `WalletOrdersProofs` | theorems about the module of that name |
| `PaymentRegistrationProofs` | theorems about `PaymentRegistration` and `RetrySchedule`, which share no variable |
| `DropAndPurchaseProofs` | theorems about `EmailCardDrop` and `ProfilePurchases`, likewise |
| `WorkerProofs` | theorems about `EventNotifications` and `RewardRoots`, two parts of the worker that do not meet |
| `MC*` | instances for TLC |

### ScheduledPayments

`payment` and `attempt` are the two tables; `exec[e]` is the control state and
the locals of one run of the executor, `waiter[a]` the job of attempt `a`; `tx`
and `paid` are the chain. Every `await` of the code is a step boundary, so the
control states are the places where another process may get in:

| `exec[e].pc` | The executor is about to | Actions |
|---|---|---|
| `idle` | run the fetcher's query for the due ids (`executeScheduledPayments`) | `Fetch` |
| `rows` | read the rows of these ids | `ReadRows` |
| `next` | take the next payment of the batch | `PickNext` |
| `check` | look for an attempt in progress | `CheckInProgress` |
| `recent` | look for the last success (recurring only) | `CheckLastSuccess` |
| `create` | get gas price and token rate, insert the attempt | `NoQuote`, `CreateAttempt` |
| `count`, `record` | count the cycle's attempts, write the count | `CountAttempts`, `RecordAttempt` |
| `submit` | `withNonce` around `executeScheduledPayment` | `Submit` |
| `save`, `enqueue` | write the hash, queue the waiter | `SaveHash`, `EnqueueWaiter` |
| `fail`, `backoff` | the two writes of the catch block | `FailAttempt`, `ScheduleRetry` |

The waiter has `StartWaiter` (with its early returns), the four results of the
wait (`TxConfirmed`, `TxRefused`, `TookTooLong`, `UnknownError`; only refusal
and a wait of more than a day are final) and then one action per write:
`MarkSucceeded`, `ResetRetries`, `AdvancePayAt`, or `MarkFailed`,
`WaiterScheduleRetry`. Locals that go stale are kept as locals: the executor's
`payAt` is that of the fetched row (which a waiter may have moved since the ids
were selected) until `RecordAttempt` returns a fresh one,
the waiter's `payAt` and `count` are those it read before it waited.

`ExecutorError`, `ExecutorCrash` and `WaiterFault` are a failed database call or
a dead process at each of these places. They follow the code's own error
handling: only what the `try` block covers reaches the catch; a crashed executor
is not resumed (cron starts another), a crashed waiter is (its job stays in the
queue).

The contract (external) pays each cycle at most once, from its payAt for
validForDays, until the payment is canceled on the chain.

### RetrySchedule, RecurringCalendar, CrankNonce

`RetrySchedule` takes time seriously where `ScheduledPayments` takes
interleavings seriously: minutes, the real backoffs (0, 5, 60, 360, then 720
each), cron every five minutes, outages of cron, attempts that fail at once or
only when the waiter gives up. `Attempt` and `Fail` are one step each.

`RecurringCalendar` has a calendar of months with their real lengths and leap
Februaries. `Execute` is a successful execution; `ExecuteAndDie` one whose
process died before payAt was moved, so that the payment is fetched again and
only the guard on the last success can stop it.

`CrankNonce` models `withNonce`: begin the database transaction, take the lock,
read the row (`getNonce`), ask the chain if the row is missing, holds 0 or is
expired, upsert, run the callback (`Send`), commit. `tx` says whether the
database transaction is still open: `Timeout` closes it, which frees the lock
and forgets the upsert but does not stop a callback that has begun.

### PaymentRegistration

`hub` is the row, `client` and `canceler[c]` are the SDK's flows on the user's
devices, which go through the same places: record in the hub, submit, tell the
hash, have the job added, poll. `createTx`, `cancelTx` and `contract` are the
chain. Times matter only where the code compares them: `age` and `cancelAge`
tell less than 2 minutes, 3 hours, a day, and more. The jobs end with the two
outcomes they can record or queue themselves again. `Reported` is the union of
the integrity checks' conditions. `overlap` remembers that two devices were
canceling at a time, `mishaps` counts lost requests, answers and transactions.

### WalletOrders

Each request, callback or run of the transfer job takes a `handler`, whose `pc`
names its next query. `Follows` is `nextOrderStatus`. Every handler reads the
status in one query (`ReadStatus`) and writes what follows in another
(`WriteOrder`), so `stale` marks a handler that will write on the ground of a row
that another has written since, and `raced` the orders such a write was made to:
it is what separates "this goes wrong when requests overlap just so" from "this
goes wrong". `transfers` and `cards` count what left the hub. The transfer job
moves the funds first and looks at the order afterwards, as the code does.

### EmailCardDrop, ProfilePurchases

The same shape: `visit[h]` and `request[q]` are the requests, one step per
query. In `EmailCardDrop` a claim marks stale what others have checked about its
owner, its address or the supply; `doubleClaim` and `overdrawn` remember writes
made on such grounds. `made` orders the requests, since only the latest of an
owner can be verified. In `ProfilePurchases` a request's profile, ticket and job
have the request's name, and `concurrent` says that two requests were between
their check and their ticket at a time.

### EventNotifications

`undelivered` is the subscription, `callback` the listener's handling of an
event, `notifyJobs` and `sendJob` the two queues, `recorded` the rows of
sent notifications. The notify job adds a *keyed* send job, which replaces a
queued one with the same key but not a running one. `disturbed` collects the
events that something got in the way of, each at the step where it does: a fault,
nobody who wants it, sendBy passed, a listener that died before the event was
handled when a later block had been recorded, or blocks too old at a restart.

### RewardRoots

`open` is the transaction on the connection that `getClient` gives all tasks:
whether it is active or aborted, and the writes in it, other tasks' writes
included. `kept` are the other tasks' writes that are in the database, `done`
those that were acknowledged. The queue runs one job at a time, once.

### DiscordBots

`row` is the table, `local` what a bot believes it is, `election` its place in
the election, `task[b][m]` what it does with a message: keep it and set a timer,
look up the listener, find at the timer whether the message was processed, take
over if not. `statusNotice` and `messageNotice` are Postgres notifications on
their way. `overlapped` says that two bots were electing themselves at a time.

## 3. What the runs show

Twelve runs; every property has a mutant of a mapped definition that breaks it.
`HS_services`, `HP_purchases`, `HL_progress` and `CO_alike` each check several modules whose
components do not meet: a variable `part`, chosen at the start, says which of them
takes the steps, so a behaviour is one of a part and the states of the parts add
up instead of multiplying.

| Run | Shows |
|---|---|
| `SP_core` | With one executor run at a time, waiters, cancelation and one fault anywhere: no success is recorded that the contract did not pay (`SuccessesArePaid`); one attempt in progress per payment (`OneInProgress`); without faults no payment is lost (`NotForgotten`); payAt is never ahead of what was paid (`NeverAheadOfPaid`); no attempt follows a success that forbids it (`NoAttemptAfterSuccess`); an attempt starts when its payment is due and not after what the fetcher takes for its validity, and one run (`AttemptsInTime`); each payment behaves as `PaymentPromise` says (`KeepsPromise`, a refinement). |
| `SP_overlap` | *Violation.* Two overlapping executor runs both pass the in-progress check and both create an attempt. |
| `SP_backoff` | *Violation.* The waiter records a failure before it writes nextRetryAttemptAt; an executor in between retries at once. |
| `SP_stuck` | *Violation.* A waiter that dies after recording a success never moves payAt: its second run returns at once. |
| `HS_services` | *Nonces*: stored nonces leave no hole (`NoHole`), commit in sequence although callbacks outlive their transactions (`CommitsInSequence`), and a pooled transaction is replaced only after nonceTTL less one call's time (`PatientReplacement`). *Registration*: a payment that is scheduled on the chain is in the hub unless something was lost (`ScheduledIsKnown`); a cancelation recorded as failed did fail, unless two devices canceled at a time (`CancelErrorIsTrue`); a waiter never gives up silently (`NoSilentGiveUp`). *Roots*: one is skipped only after its job failed (`RootSkippedOnlyAfterFailure`). |
| `RS_validity` | *Violation.* A retry starts after payAt + validForDays. |
| `RS_documented` | *Violation.* The comment beside the schedule says "retry immediately, then after 5 minutes, 1 hour, 6 hours". The first retry waits 5 minutes, so that each comes one place late: the wait is looked up by a count that includes the failed attempt. |
| `HP_purchases` | *Orders*: a card is provisioned only for funds and a reservation (`CardIsPaidFor`); of all the posts and callbacks of an order at least one provisions nothing, however they overlap (`OneRequestSpare`), and a second card needs a write on a stale read (`OneCardUnlessRaced`); funds are moved once unless something fails (`TransferredOnce`); a reservation is not deleted under a handler that is about to use it (`ReservationKept`); statuses follow the diagram of `order.ts` (`FollowsDiagram`). *Drop*: one card per owner and address unless verifications passed the checks together (`OneDropUnlessStale`); open requests are covered by the market's cards unless one was recorded on stale numbers (`PromisesCovered`). *Profiles*: one per receipt, unless two requests were checked together (`OneProfilePerReceipt`). *Notifications*: they behave as `NotificationPromise` says (`TellsOnce`, a refinement). *Schedule* of retries: no retry comes before the wait that the unit test expects after its failure, nor, without outages, later than cron's next run (`RetryAfterWait`); attempts that fail at once go on until twelve hours more would be past validForDays (`ScheduleFillsValidity`); and `retriesLeft` is positive while a retry is scheduled, zero without one unless the payment expired, and in the end zero where nothing delayed a retry (`RetriesLeftIsTrue`). |
| `HL_progress` | Liveness. *Payments*: every attempt is recorded as succeeded or failed, although its transaction may never be mined (`EveryAttemptEnds`). *Orders*: an order in provisioning ends complete or in error (`ProvisioningEnds`). *Bots*: a message that reached some bots is run, or left as no business of theirs, or these bots are gone (`NothingForgotten`). |
| `RR_redundant` | *Violation.* The redundant job of a root that is indexed already rolls back a write of another task. |
| `CO_alike` | *Executor runs* that overlap, and of which one may die: a payment has no more attempts in progress than there are runs (`OnePerRun`). *Bots*: one listens, unless two elected themselves at a time (`OneListenerUnlessOverlap`); a message is run at most once by each bot that has listened (`RunOncePerListener`). *Calendar*: payments fall on their day or the last day of a short month and return to their day (`OnRecurringDay`); no month is skipped or doubled (`EveryMonthOnce`); the guard stops every second payment of a month (`NotPaidTwice`) and never holds up the next month until it expires (`GuardLeavesTime`). |
| `CN_rollback` | *Violation.* A nonce is rolled back although its transaction was sent. |

The seven violations are findings: each property is a sentence from a comment in
the code, and the run shows a behaviour of the code that contradicts it.
`PROJECT.json` quotes the lines. What softens them in practice is also in the
models: the contract pays a cycle once, so `SP_overlap` costs gas and not money
(`SuccessesArePaid` is proved for any number of overlapping executors), and after
`SP_stuck` the guard on the last success prevents a second payment of the month
(`NotPaidTwice`) until the payment expires.

Several properties say "unless" and name a history variable. Each such variable
(`raced`, `doubleClaim`, `overdrawn`, `overlapped`, `concurrent`, `overlap`,
`disturbed`, `failed`) is set at the one step where the code acts on a read that
has become stale, or where a fault strikes, and never by the bad outcome itself.
The property then says that this is the *only* way to the bad outcome: a
mutant that drops one of the code's checks reaches it another way.

Met while modelling, and without a run of its own:

* With two overlapping runs a retry can be lost, so `NotForgotten` is about one: the
  run that counted more attempts may find that there is no retry left and write its
  null after the other has written the date of one, while the count that is stored
  is the other's. Nor does `AttemptsInTime` hold for two: the attempt of one may
  succeed, and its waiter move payAt, between the other's check and its creation.
* `fetcher.ts:20` speaks of "maximum 8 failed attempts". For validForDays = 3 the
  schedule has 9 entries, so a payment that fails each time is attempted 9 times; the
  unit test counts 9 attempts and 8 retries. `ScheduleFillsValidity` follows the other
  comment (`fetcher.ts:117`, "every 12 hours until we reach the end of validForDays"),
  which these 9 attempts fulfil and 8 would not.
* `executor.ts:92` calls 28 days the maximum length of a month; it is the minimum,
  and the minimum is what the guard needs.
* The guard of the calendar holds for validForDays up to 13, which is the value
  checked beside the deployed 3; from 14 on a month could be paid
  twice after a crash.
* A stored nonce of 0 counts as none, so nonce 0 is asked for twice; the unit
  tests say so too. `PatientReplacement` excepts it.
* The error of the relay server goes to the first order that has the reservation
  (`order.ts`), which may be another one when two orders share it;
  `ProvisioningEnds` excepts sharing. The order that asked stays in provisioning.
* Wyre's "sent" callback is ignored when it arrives before the transfer job has
  recorded the transfer's id; nothing then moves the order on.
* The market's supply is tested with `quantity === 0`, which a negative supply
  passes.
* A cancelation that reverts leaves `canceledAt` set: the payment is not executed
  although the contract still has it.
* A root whose proofs are missing in S3 (NoSuchKey) is remembered as indexed.
* `hub/routes/email-card-drop-requests.ts:257` opens a transaction on the shared
  connection of the server too, around an insert that Prisma makes on another one:
  it protects nothing, and its ROLLBACK can undo what other requests wrote.
* `notify-merchant-claim` looks at the preference for `customer_payment`.
* Retrying a failed job ticket creates a new ticket; the job's outcome is written
  to the old one and the new one stays pending.

## 4. Bounds

*Counters have a bound in a guard; every bound is a CONSTANT.*

**SP_core**: one payment at a time, of either kind (`OnePaymentInit`: rows of
different payments never meet except in the batch, so both together are the
product of the two); `MaxAttempts` 3 is a first attempt, a retry and one more
after a success or in the next cycle; a day is one tick, `MaxTime` 5 covers a
cycle of 3 with retries on both sides of the expiry; `MaxFaults` 1, since the
findings need only one and each further fault acts as an independent one.
`RetryBackoffs` has a zero-length and a one-tick wait. A run of a job lasts at
most `MaxJobTime` 1, so it can span midnight and an expiry. `HL_progress` has 2
attempts, time for both to be given up, and no fault: `EveryAttemptEnds` excuses all
behaviours with one. `SP_overlap` needs two executors,
`SP_backoff` a backoff longer than a tick, `SP_stuck` a recurring payment.

**Schedule** (`HP_purchases`, `RS_validity`, `RS_documented`): real minutes. validForDays 1 to 3 (3
is deployed); payAt at midnight, in the morning off cron's grid and just before
midnight, since the code truncates to the day; failures at once, after 7 minutes
and after the waiter's day; up to two outages of almost half a day and two days.

**Calendar** (`CO_alike`): 16 months with Februaries of 28 and of 29 days and a
change of year; days 1, 15, 29, 30, 31; created before, on and after the day,
morning or evening (2 ticks a day); the executor runs at once, later on the day,
at the end of the validity, or long after; validForDays 3 and 13.

**Executor runs** (`CO_alike`): two symmetric ones, a recurring payment that is due at
once, and three attempts, one more than `OnePerRun` allows; one fault, so that a run can
die, start again and look at what it left beside the other's. Retries would use up an
attempt each and have a backoff that is not over in time.

**Nonces** (`HS_services`, `CN_rollback`): two callers (symmetric), the account fresh or
with one transaction (a stored nonce of 0 is special); nonceTTL of 2 ticks against a timeout of 1, the
order the code has (120 s and 10 s); nonces up to 3: enough for an expiry, a
replacement and a commit on either side of it.

**Registration** (`HS_services`): two devices that cancel, one mishap; every age
the code compares with.

**Roots** (`HS_services`, `RR_redundant`): three cycles in the blocks 2, 1, 2, so
that the last indexed block holds a root that is not indexed; a limit of two
recent rows, below the number of cycles, so that the memory overflows; three
checks of which two may overlap; one failure. The violation needs one check
at a time and no failure.

**Bots**: two bots and two messages, one of which the listener leaves alone; in
`CO_alike` all bots start, in `HL_progress` one listens already. A third bot
would only be one more follower: the theorem `OneListener` has any number.

**Orders** (`HP_purchases`): one order with two posts, two callbacks of each kind
and two transfers, two reservations, two handlers, one failure. Two overlapping
handlers are what a stale read needs, and a second post or callback what a second
card needs. `HL_progress` has the same order with one transfer and no failures; orders
that share a reservation are excepted from `ProvisioningEnds`.

**Drop**: two owners, two addresses, two requests, a supply of one or two cards,
a rate limit of one claim: each limit is reached. **Profiles**: three requests (a
purchase, a competing one and a retry), two buyers, two slugs, one loss.

**Notifications**: three events in the blocks 1, 2, 2 of contracts 1, 2, 1: two of
one contract in order and two of one block out of order; three blocks, of which
two are available at a restart and kept for two; two jobs at a time; one fault.

Symmetry: model values are permuted only within sets that the modules treat
alike; parts that never meet share them.

`CHECK_DEADLOCK FALSE` is set where the system may stop: the schedule and the
calendar end, and handlers and bots wait for requests that nobody has to send.
In the other runs some job can always run. `HS_services` says so of the nonces, whose
lock and timeouts could leave everyone waiting, and lets the other two parts stop.

## 5. Fairness and time

`FairSpec` of `ScheduledPayments` assumes weak fairness of each job's next step
(graphile-worker runs what is queued; cron starts the executor again and
again), weak fairness of the chain settling a transaction (mined, reverted or
dropped), and strong fairness of the three final results of a wait, which says
that the RPC node does not fail for ever: `UnknownError` puts the job back in the
queue, so these results are enabled again and again and never continuously.
Time advances under strong fairness because a job's run holds it back: a run of
a job lasts at most `MaxJobTime`, which is the ten-minute limit of
`waitUntilTransactionMined` and the timeouts of RPC calls; a *queued* job may wait
for ever as far as time goes. Nothing is assumed of the user, and faults are never
required to happen.

`HL_progress` has this fairness of an attempt's steps and of the executor in
`PaymentFairness`, where each action is restricted to the behaviours of its part: in
those of the orders and bots the clock of the payments could run and does not.

`OrdersFairness` is weak fairness of each handler's next step and `BotsFairness`
that of each bot's: Node runs every continuation and every timer. Nobody has to
send a request, callback or message, and nobody has to start or stop a bot. That
the relay server and the subgraph answer is part of a handler's step; that they
may fail is `RelayError` and `Trouble`.

`CrankNonce` needs no fairness. Its clock does not pass an open transaction's
timeout, as Prisma closes it then.

## 6. What is proved

The theorems hold for every value of the constants that the named assumptions
allow: any number of payments, attempts, callers, any backoffs, timeouts and
bounds.

**ScheduledPaymentsProofs**

* `TypeCorrect`: `Spec => []TypeOK`. `TypeOK` alone is not inductive: the
  executor writes rows through its locals. `TypeInv` adds `ExecutorLocals` (past
  the loop head it has a payment; past creation it has that payment's attempt) and
  `AttemptRows` (a used row belongs to a payment; only used rows have a
  transaction or a running waiter). One lemma per action says it keeps them.
* `OneAtATime`: with at most one executor, `Spec => []OneInProgress`. The check
  and the creation are separate steps, so the invariant must remember the check:
  `OneInv` adds `ClearToCreate`, that an executor between them has a payment with
  no attempt in progress. No other action creates an attempt
  (`OnlyCreateAttemptCreates`), hence the waiters, crashes and failed writes cannot
  spoil it; a second executor could, which is `SP_overlap`.
* `SuccessesPaid`: `Spec => []SuccessesArePaid`, for any number of executor runs
  that overlap. Counting is what makes it hard: the hub's successes and the
  contract's payments are of different kinds. `PaidInv` relates them through
  the transactions: `Owned`, an attempt that may still be submitted is held by one
  executor and has no transaction yet; `Confirmed`, a success is recorded, or
  about to be, only for a mined transaction; `Funded`, there are at most as many
  mined transactions of a payment as cycles the contract paid. Lemmas
  say how the two cardinalities move with each kind of update.
* `NeverAhead`: `Spec => []NeverAheadOfPaid`, for overlapping executors too. A
  waiter moves `payAt` by the value it read when it started, so what counts is the
  number of cycles that a job may still move it to: `PayAtInv` adds `Handed`, that
  an attempt is in the hands of the run that created it and then of one waiter, whose
  place agrees with the attempt's status, and `WithinReach`, which bounds `payAt`
  by the attempts that have advanced it and each job's stored `payAt` likewise. A
  job that runs again finds its attempt ended; two jobs that read the same `payAt`
  write the same date.
* `NoAttemptAfterASuccess`: `Spec => NoAttemptAfterSuccess`, an action property, with
  at most one executor. The batch is fetched in one step, its rows are read in another
  and each check is a third, so `OrderInv` says what stays true in between: the
  payments of the batch are `Clear` (`RunClear`), successes that were found old enough
  stay so (`LongAgo`), and attempts are used in order, one of a payment starting when
  those before it have ended (`Orderly`): the last success that the code looks for is
  then the latest.
* `ImplementsPromise`: `Spec => KeepsPromise`, with at most one executor: initial
  states map to initial states of `PaymentPromise`, and by `OrderInv` each step that
  creates or ends an attempt to a step of the promise, every other one to a stutter.
* `NoPaymentForgotten`: `Spec => []NotForgotten`, with at most one executor and
  `FarApart`: the time for which a payment can be tried (`Window`: the days of its
  validity to the end of the last one, and one run of a job) fits in a cycle and in
  the guard's gap between two payments. Without it TLC finds payments that are
  forgotten: a waiter that is late with its last write then writes a retry of an
  older cycle, or a success of one cycle counts for the next. The code keeps far from
  it: a job may run for minutes, a payment is valid for days, and dates are 28 days
  apart. `RestInv` follows a payment from hand to hand: what a run fetched is due until
  it gets to it or has had a success that it will find too recent (`RunDue`); a run
  that has an attempt has the only live one and knows its row (`RunAlone`); so does
  the job that gets the attempt, and it ends within the attempt's own cycle (`Cycled`);
  a job that is late with a retry writes the current cycle's, or one that a later
  success makes pointless (`Backing`). What remains is that somebody sees to each
  attempt (`InHands`), each next date (`Advanced`) and each retry (`Retried`).
* `OneForEachRun`: `Spec => []OnePerRun`, for any finite number of runs. `SlotsInv`
  counts, for each payment, the attempts in progress and the runs between the check
  and the creation (`AboutTo`): together they are no more than the runs there are. A run
  that passes the check has found no attempt in progress, so only the other runs
  count (`NewcomerFindsNone`); a creation turns a run that counted into an attempt
  that does (`CreationTakesASlot`); nothing else adds to either.
* `AttemptsStartInTime`: `Spec => AttemptsInTime`, an action property, with at most one
  executor and `FarApart`, whatever fails. What makes it more than the fetcher's
  guard is that payAt is moved by waiters that started at any time. `TimelyInv` says
  that what a run fetched is still due, or has had a success since that it will find
  (`Awaited`), and that a live attempt started in the cycle of the date its job will
  move (`InCycle`), so that a job which moves payAt has the success that stops the run.

**PaymentRegistrationProofs**

The theorems `RegistrationTyped` (`RegistrationTypeOK`), `ScheduledKnown`
(`ScheduledIsKnown`), `CancelErrorsTrue` (`CancelErrorIsTrue`) and `NoSilence`
(`NoSilentGiveUp`) follow from `RegistrationInv`, for any number of devices and mishaps.
It ties the place of each flow to the transaction that it sent: `Creation` and
`Cancelation` hold always (a device or job that has got that far has sent, and a
recorded error was a reverted transaction); `Deletion` and `CancelWait` need that
nothing was lost (what is deleted never got to the chain; a canceled payment has a
result or a job under way, or is a day old); `OneCancelation` needs in addition that
no two devices canceled at a time, since the code looks for a cancelation under way
and sends its own in separate steps.

The module also holds the theorems about `RetrySchedule`, which shares no variable
with it: `ScheduleTyped` (`TypeOK`), `RetriesShownAreTrue` (`RetriesLeftIsTrue`),
`RetriesWait` (`RetryAfterWait`, an action property) and `ValidityFilled`
(`ScheduleFillsValidity`), for any payAt, days of validity, failure delays and
outages. The code builds the list of backoffs and sums what is left of it to find the
first that does not fit; the proofs need what that list is for every number of days,
which `BackoffsOf` states: four fixed entries and as many twelve hours as fit after
them. `RetryInv` says that a failure is followed by a retry after its wait
or by a reason for none (`Scheduled`) and, as long as cron runs and attempts fail at
once, at which minute each attempt starts (`OnSchedule`, `Offset`). From that
`ScheduleUsedUp` concludes that such a payment is given up only after as many attempts
as the schedule has entries: `retriesLeft` is 0 then, and the validity is filled. What
the comments say beside this (an immediate retry, at most 8 failed attempts) is neither
proved nor true (section 3).

**RecurringCalendarProofs**

The theorems `CalendarTyped` (`CalendarTypeOK`), `AlwaysOnItsDay` (`OnRecurringDay`),
`NoMonthSkipped` (`EveryMonthOnce`), `GuardIsShort` (`GuardLeavesTime`) and
`GuardIsLong` (`NotPaidTwice`, an action property) hold for any recurring day, times,
leap years, length of a day and bound on the months. The last is under `ShortValidity`
(at most 13 days): with 14, the guard on a payment that is made at once ends 14 days
later, and the fetcher still finds the payment until the end of that day. Half of the
work is the calendar. Its months are found by `CHOOSE` and its leap days are counted, so the
lemmas show that each month starts where the one before it ends (`NextMonth`), that a
day is in one month (`SomeMonth`, `OneMonth`) and that the recurring days of
consecutive months are four weeks apart at least (`FourWeeks`), which the 28 days in
the executor rely on. `CalendarInv` then says that all months before payAt's are
paid, and payAt's possibly, and that the last success was within its payment's
validity: it is payAt's own or four weeks older.

**CrankNonceProofs**

* `TypeCorrect`: `Spec => []TypeOK`.
* `LeavesNoHole`: `Spec => []NoHole`. `HoleInv` adds that all mined and all
  pooled nonces were sent, and `SendsAbove`: a call that is about to send relies
  only on nonces below its own that were sent. The lock plays no part: the
  absence of holes survives rollbacks and timeouts because what was sent stays
  sent.
* `InSequence`: `Spec => CommitsInSequence`, an action property. Here the lock is
  what matters: `KeepsOrder` says that a call whose database transaction is open
  and that is past the lock holds it, so the row it has read is the row its
  commit replaces. A callback that outlives its transaction has no open one and
  never commits.
* `ReplacesPatiently`: `Spec => PatientReplacement`, an action property, on top of
  `OrderInv`. The lock decides by the age of the row, the property speaks of the age of
  a transaction in the pool: `PatientInv` says that one that has not waited is at most
  the stored nonce and at most `TxTimeout` younger than the row (`Stored`), or is that
  of the call about to store it (`Storing`). That needs each call to be younger than
  its timeout (`Timely`), hence the condition that nothing is rolled back.

**DiscordBotsProofs**

* `OneListener`: `BotsSpec => []OneListenerUnlessOverlap`. `ElectionInv` adds, as
  long as no two elections overlapped, that at most one bot is electing itself
  and that while one is nobody else listens: it has seen that nobody does, or
  has made the listener disconnect. The other bots cannot start to listen without
  an election of their own, which would set `overlapped`.
* `OncePerListener`: `BotsSpec => []RunOncePerListener`. A count again: `Counted`
  bounds the runs of a message by the listeners that may have run it, which are
  those that are past running it and those that are gone. A bot is only ever once
  past a message, because a message that is emitted again is one it was still
  verifying; and `Lively` says that one that is gone does nothing more.
* `BotsTyped`: `BotsSpec => []BotsTypeOK`, from both invariants and the types of the
  notifications on their way (`NoticeTypes`).

**WalletOrdersProofs**

The theorems follow from one invariant, `OrdersInv`, for any number of orders,
users, reservations and handlers and any failures; the last two need one more each:

* `StatusesFollow`: `OrdersSpec => FollowsDiagram`, an action property. `Current`
  says that a write which is not stale is still what the diagram asks of the row.
* `PaidFor`: `OrdersSpec => []CardIsPaidFor`. `FundsMoved` follows the money: the
  transfer job moves the funds before it reads the order, so every status from
  received-order on, and every handler about to write one, has a transfer behind
  it. This holds for raced orders as well.
* `ReservationsKept`: `OrdersSpec => []ReservationKept`. `Attachments` says that a
  reservation with an order stays live, which is what the deleting query spares,
  and `Known` that a send write still knows the reservation of the row it read.
* `OneCard`: `OrdersSpec => []OneCardUnlessRaced`. `OneProvision` says that for an
  order that was not raced one handler at most is about to provision, has had
  no card yet, and that a card leaves the order at or past provisioning. A
  handler gets there only by a write that is not stale, from a status before
  provisioning, hence no other one is there and no card either.
* `OrdersTyped`: `OrdersSpec => []OrdersTypeOK`.
* `MovesOnce`: `OrdersSpec => []TransferredOnce`. `MovedOnce` says that after the first
  callback the funds are about to be moved in one place: the handler that will add
  the job, the job, or a handler that records the transfer and still finds the order
  not received.
* `OneSpared`: `OrdersSpec => []OneRequestSpare`. A count that holds for raced orders
  too: the cards of an order, the handlers on the way to one (`EngagedIn`), and one
  more once a request was spent without a card (`Spent`), are no more than its posts
  and callbacks. The first to provision has found a reservation or a waiting
  order that another one left behind, so one is always spent.

The lemmas have two parts: what keeps `OrdersInv` by the kind of step (`Quiet`, a
handler that only moves; `Writes`, a handler that writes a row and makes the
others' reads stale), then one lemma per action that shows which kind it is.

**DropAndPurchaseProofs**

About `EmailCardDrop`:

* `OneDrop`: `DropSpec => []OneDropUnlessStale`. `Checked` says what a verification
  that is not stale still knows at each of its steps: neither its owner nor its
  address has claimed. `OneClaim` then has it claim first of its kind, so that
  nothing was provisioned or is about to be; `Recorded` adds that only claimed
  requests have cards. `Claim` is the one action that can disturb all three.
* `DropTyped`: `DropSpec => []DropTypeOK`.
* `DropCovered`: `DropSpec => []PromisesCovered`. What is owed (owners with an open
  request, and claims that are not provisioned) is at most the supply. `CoverInv`
  adds what a request knows while nothing made it stale: no claim was under way
  when it read the supply, and once it has compared the numbers one card more is left
  (`Supplied`). A claim turns an open request into a claim, so what is owed stays.

About `ProfilePurchases`:

* `PurchasesTypeCorrect`: `PurchasesSpec => []PurchasesTypeOK`.
* `ReceiptBuysOnce`: `PurchasesSpec => []OneProfilePerReceipt`, for any finite set of
  requests. `Fits` says which ticket and job belong to which request; `Counted`
  bounds the registrations of a profile by the jobs that have run for it, which are
  its own and one for each retry; `InTurn` holds while purchases are checked one at a
  time and nothing dies: a profile has its ticket, or its request is about to create
  it, and a request past the check of the receipt finds no profile.

**WorkerProofs**

* `ImplementsTelling`: `NotificationsSpec => TellsOnce`. Each step of the listener, the
  jobs, the chain and time, and each fault, is a step of `NotificationPromise` or a
  stutter. That an event is not told twice needs `TellInv`: of an event that nothing
  got in the way of, one job at most is past the check of the rows (`Alone`; the job's
  key), and once it was told, its row, or the job that will write it, keeps the next
  from it, until `Gone`: the row was removed, but then nothing is left that would
  tell it, and the blocks a restarted listener asks for are past it. This is where the
  assumption `Historic <= Week` matters: rows are kept at least as long as the
  listener looks back, as in the code.
* `SkipsNoRoot`: `RootsSpec => []RootSkippedOnlyAfterFailure`. `RootsInv` says that roots
  come into somebody's hands (the index, the queue, the job, a check, or `failed`) in
  the order of their blocks (`HandledInOrder`), and that no check asks from a block
  past a root that nobody has (`AskedFromHandled`), also when checks overlap and
  the query's limit cuts a block off.
* `NotificationsTyped`, `RootsTyped`: the types of both.

The type invariant of each module but `PaymentPromise` and `NotificationPromise` is proved
(the promises are only ever instantiated); runs check those of `ScheduledPayments`,
`CrankNonce` and `RecurringCalendar` as well.

The assumptions used are the `ASSUME`s of the modules, which TLC evaluates in each
run, and `OneExecutor` (no two runs of the executor at a time), `FarApart` and
`ShortValidity` where they are named; the constants of `SP_core` satisfy the first two,
those of `CO_alike` the third. The inductive invariants were checked by TLC on the
instances of section 4 before they were proved.

Only model-checked:

* the liveness properties of `HL_progress`: fairness and `ENABLED` are
  beyond the prover;
* the properties that are expected to fail, which are findings (section 3).

## 7. Abstractions and what is not modelled

* **LIMIT** is modelled (`FetchLimit`), but with one payment at a time the run does
  not exercise a batch that is full of failing payments.
* **Quotes**: gas price and exchange rate are there or not (`NoQuote`); their caches
  are not modelled.
* **Creation**: in `ScheduledPayments` a payment is created on the chain (`created`)
  from the start, or never, and its cancelation transaction may be mined or not;
  how it gets there is `PaymentRegistration`.
* **The contract** is external and modelled from how the hub relies on it.
* **Nonce and execution** are separate modules: `Submit` allows a transaction to be
  dropped, which is what a reused nonce does to it.
* **Nonce lock**: one chain. The lock's key is the same for all chains, so calls for
  another chain only make a caller wait longer, and the timeout already
  covers any wait.
* **Calendar**: all times are UTC, as where the hub runs; executions are mined at
  once, since retries and waiters are in the other modules.
* **Read-only routes**, the validation of requests and authentication are not
  modelled.
* **Orders**: the count of the inventory and the availability of the relay server
  in `POST /reservations` are not modelled: a reservation may be made whenever a
  user asks.
* **Bots**: one type of bot. The types share the table but filter by it.
* **Notifications**: an event concerns one client at most; with several, the jobs
  of the others are independent, since the key contains the client. Wording and
  preferences are left out.
* **Roots**: one reward program, whose limit on recent rows is per program.

Components without a module, and why, are in `PROJECT.json`: gas station and
exchange rates (caches whose staleness costs requests or a little gas and reaches
no state of a payment); sessions and dependency injection (no interleavings of
interest); data transformation (card compiler, subgraphs, reward programs);
user interfaces and tooling. Most lines of the repository belong to these:
generated contract interfaces, wrappers of contract calls and Ember components.

## 8. Plan

Done: execution with its promise, the retry schedule, the calendar, nonces,
registration, wallet orders, the e-mail card drop, profile purchases,
notifications with their promise, reward roots, Discord bots.

Left to model:

* A batch of failing payments: `LIMIT 10` puts payments that have not failed
  first, so those whose execution throws before an attempt is created can hold
  back all others. It needs several payments in one run and fair quotes.
* The inventory of `POST /reservations`, which is counted in one query and
  reserved from in another.

Theorems: every safety property that a run checks is proved. What is left is liveness,
which is out of the prover's reach, and a bound for overlapping runs that is finer than
`OnePerRun`: what the contract refuses and what it costs.
