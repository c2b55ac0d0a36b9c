# Verification of the cross-border payments service

TLA+ models of the payment service in this repository, the configurations that
check them with TLC, and theorems about them that TLAPS checks. Source paths are
relative to the repository; every definition that models code is listed with its
lines in `PROJECT.json` under `map`.

## 1. The system

An API process (FastAPI), a Celery worker with `--concurrency=2`, a beat process
and a PostgreSQL database that all of them share. There is no in-memory state:
processes interact through rows and through messages on the Redis broker.

| Component | State | Operations | Interacts by |
|---|---|---|---|
| Payments (`services/payment_service.py`, `api/routes/payments.py`) | `transactions`: status, locked rate, rate used, amounts | `initiate_payment`, `process_upi_webhook` | commits; enqueues the pipeline after its commit |
| Settlement pipeline (`workers/payment_worker.py`, `services/settlement_service.py`) | the same rows; one session per task; retries of the message | collect, sleep, settle, log | reads and blindly writes the row; FX look-up; inserts a log entry |
| Reconciliation (`workers/reconciliation_worker.py`) | `reconciliation_logs` | a periodic run over settled payments | reads both tables, one commit at the end |
| Merchants and KYB (`services/merchant_service.py`, `workers/kyb_worker.py`) | `merchants.kyb_status`, `.status`, virtual accounts | create, onboard, review | enqueues the review; `initiate_payment` checks the approval |
| FX rates (`services/fx_service.py`, `workers/fx_worker.py`, `api/routes/fx_rates.py`) | `fx_rates`, a cache of 60 seconds | `get_rate`, periodic refresh, mock fallback | commits the session of its caller; calls the rate provider |
| Amounts (in the two services above) | `inr_amount`, `fee_inr`, `settlement_amount`, the amounts of an entry | cap check, fee, conversion, variance | pure `Decimal` arithmetic |
| Broker and worker processes (`workers/celery_app.py`) | queue, running tasks | late acknowledgement, redelivery of a lost worker's message, retries, beat | |
| Migrations (`migrations/`) | the schema, `alembic_version` | two revisions, up and down | DDL on the tables the others use |
| Seeds (`seeds.py`) | merchants, accounts, sample payments | one run of the script | inserts beside the endpoints |
| Read-only routes, configuration, containers | – | no state change at run time | |

What makes it hard:

* The database runs READ COMMITTED, the code takes no row lock, and every UPDATE
  names the row by its id only. A handler decides on the status it selected and
  overwrites the status the row has when it commits.
* SQLAlchemy keeps one object per row and session (`expire_on_commit=False`): the
  second SELECT of a row in one session answers with the attributes loaded by the
  first. So `simulate_inr_collection` and `process_settlement` check the status
  their session has loaded before, and only `db.refresh` looks again. For the same
  reason a column whose value the session thinks unchanged is left out of the UPDATE.
* Several pipeline tasks can run for one payment: `POST /payments` enqueues one and
  each SUCCESS webhook another.
* Messages are acknowledged late: a crash makes the broker deliver again, after any
  of the task's commits. Exceptions make the task start over, at most `max_retries` times;
  the retry is a message of its own, sent before the old one is acknowledged.
* `.delay` happens after the commit; its failure is swallowed.
* `fx_rates.fetched_at` is PostgreSQL's `now()`, the begin of the transaction: earlier
  than the fetch in a payment, later than the first fetches of a refresh.
* `get_rate` commits its caller's session on a cache miss and not on a hit; a payment
  calls it twice, and again when its lock has expired.
* The settlement and its log entry are two transactions; the reconciliation task looks
  up entries long before it commits its own.

What makes each component correct:

* Payments and pipeline: nobody forgets an open payment; a closed payment does not
  move; the locked rate is honoured; a payment is paid out once.
* Reconciliation: each settled payment gets an entry, one entry, of an amount that
  was really settled.
* Merchants: only approved merchants are paid; every review ends.
* FX: the cap and the lock use rates of the cache that are fresh; a mock is not
  taken for a live rate.
* Amounts: fee, gross and net amounts agree, the cap holds, the limit a refusal names is
  one, and a variance is judged by its size.
* Migrations: whatever was installed, head fits the code, and no approval is lost on the
  way up. Seeds: they may run at any time, again and beside others.

The hazards, each at its line with the properties that cover it, are in
`PROJECT.json` under `hazards`.

## 2. Modules

| Module | Content |
|---|---|
| `PaymentPipeline` | webhook handler, pipeline tasks and reconciliation runs over the two tables |
| `PaymentLifecycle` | the abstract specification: what `README.md` and `requirement.md` promise of a payment |
| `PaymentPipelineProofs` | theorems about `PaymentPipeline` |
| `MCPaymentPipeline` | fault limits and symmetry for TLC |
| `ReconciliationProofs` | theorems about the log of `PaymentPipeline` |
| `RateQuotes` | the abstract specification of the rate cache: what a quoted rate may be |
| `FxRates` | `get_rate`, the refresh task and the mock fallback over `fx_rates`; checked through `PaymentRates`, whose payments are its callers |
| `PaymentRates` | a payment's look-ups for cap, lock and settlement, composed over `FxRates` |
| `FxRatesProofs`, `PaymentRatesProofs` | theorems about the two, and that `FxRates` implements `RateQuotes` |
| `SettlementMath` | the `Decimal` arithmetic as operators on integers |
| `SettlementAmounts`, `SettlementAmountsProofs` | the amounts of one payment from request to entry, and theorems |
| `SchemaMigrations`, `SchemaMigrationsProofs` | both alembic revisions over fresh and older databases, and theorems |
| `SeedData`, `SeedDataProofs` | runs of the seed script beside each other and beside the endpoints, and theorems |
| `MCPaymentRates`, `MCSettlementAmounts`, `MCSchemaMigrations`, `MCSeedData` | values of their constants for TLC |
| `MerchantOnboarding` | creation of merchants, the KYB review task, the approval check of payments |
| `MerchantOnboardingProofs` | theorems about `MerchantOnboarding` |
| `MCMerchantOnboarding` | fault limits for TLC |

An operator `X_Mutation` just before `X` is a plausible bug of that piece of code. No
specification uses it: it documents what the properties are sensitive to.

### PaymentPipeline

A task is named after what sent its message: the payment (for `POST /payments`), the
webhook delivery, or a retry (`Resends`, a payment with a name of `Copies`; a retry may also
take a name that has become free). Each handler is split at every SELECT, refresh and commit:

| Code | Actions |
|---|---|
| `initiate_payment`: commit, then the background `.delay` | `Initiate`; `Enqueue` or `LoseEnqueue` |
| the passing of `fx_rate_expires_at` | `ExpireLock` |
| `process_upi_webhook`: SELECT and status check; commit; `.delay` | `HookRead`; `HookConfirm`, `HookFail`, `HookPending`; `Enqueue`, `LoseEnqueue` |
| rollback of the session in `get_db` | `HookRollback` |
| the worker takes the message; first SELECT | `TaskDeliver`; `TaskFetch` |
| `simulate_inr_collection`: commit; refresh and sleep | `TaskCollect`; `TaskRefresh` |
| `process_settlement`: choice of the rate; flush and commit; entry | `TaskPrice`; `TaskSettle`; `TaskLog` or, for a net amount of zero, `TaskDustLog` |
| an exception of a session | `TaskError` |
| `self.retry`: the retry is sent; it cannot be; it was the last | `TaskRetry`; `TaskRetryLost`; `TaskGiveUp` |
| return or `Retry`, then the acknowledgement | `TaskAck` |
| loss of the worker process before the acknowledgement | `TaskCrash` |
| `reconcile_settlements`: SELECT; look-up per payment; commit | `ReconSelect`; `ReconCheck`, `ReconAbort`; `ReconCommit` |
| loss of its worker process | `ReconCrash` |

`pc[k]` is the position of a task: `deferred` (committed, not yet enqueued), `queued`,
the positions of the code (`fetch`, `collect`, `refresh`, `price`, `settle`, `log`,
`ack`, `retry` for an exception on its way out, `retried` for a message whose retry is sent
and which is not acknowledged), `done`. `loaded[k]` and `quoted[k]` are the rate columns of its session.
`todo`, `adds` and `snap` are the list, the pending inserts and the loaded amounts of a
reconciliation run. `faults`, `paid`, `dropped`, `doubled` and `contested` are history
variables. A handler *holds a view* of a payment from a SELECT whose status it acts on to its
commit; a payment is `contested` once two handlers have held views of it at the same time, and
`doubled` once a worker was lost at `retried`, so that both messages are delivered.

Abstractions:

* The amount and the fee of a payment never change, so the rate determines its
  settlement amount: `rate` stands for `fx_rate` and `settlement_amount`, and an entry's
  `amount` for its expected amount. `matched` and `mismatch` differ by a random number
  and are one status, `checked`.
* The flush of `fx_converted` and the commit of `settled` are one transaction; nobody
  else ever sees `fx_converted`. Timestamps are left out; so is the commit that a cache
  miss of `get_rate` makes in the middle of `process_settlement`, which writes only
  `settlement_initiated_at`.
* A refused webhook (401, 404, 409) changes nothing: 409 is the `ELSE` of `HookRead`,
  the others are not enabled. Which notification a delivery carries is chosen in `Init`.
* Between `HookRead` and its commit nothing else of that handler is visible; the same
  holds for the other handlers between two actions.
* The 24 hour window of `reconcile_settlements` never closes: a behaviour plays within a
  day. `EverySettledLogged` therefore reads "if a run gets through within the day".
* Worker slots (`SlotFree`) are shared by pipelines and reconciliation runs. The FX
  refresh and KYB tasks, which also use them, end by themselves and are not counted.
* Redis redelivers a message that is not acknowledged within an hour; tasks take seconds,
  so this duplicate is not modelled.
* Payments start at `POST /payments`. The sample payments of `seeds.py` are not among them:
  they are inserted as settled, `inr_collected`, `fx_converted` and `initiated` with no pipeline
  task (`seeds.py:108-114`), so that nothing ever settles the open ones, and the reconciliation
  task adds entries for the settled ones, which nobody paid out.

### MerchantOnboarding

`kyb` and `account` are `merchants.kyb_status` and `.status`, a merchant being named by
its unique e-mail (a second creation is rolled back). `CreateMerchant` and
`OnboardMerchant` are the two endpoints up to their commit, `EnqueueReview` and
`LoseReview` the `.delay` whose failure is swallowed. `ReviewDeliver`, `ReviewRead`,
`ReviewOpen`, `ReviewApprove`, `ReviewAck` are `auto_approve_kyb` split at its sleeps and
commits; `ReviewError` ends it (the task has no retry), `ReviewCrash` requeues it.
`PaymentGate` is `check_merchant_approved` inside `initiate_payment`, whose commit
(`PaymentCommit`) or refusal (`PaymentOverCap`) comes later. A merchant in India is
refused before anything is written, and so is not a step. `REJECTED` is written nowhere.
`abandoned` is a history variable: a fault cut the merchant's review short.

### RateQuotes, FxRates and PaymentRates

A rate carries the time it was obtained (`got`) beside the time its row shows (`at`).
`Fetched` counts the currencies of the list that are refreshed.

| Code | Actions |
|---|---|
| first statement of a caller's session | `OpenSession` (`began` is its `now()`) |
| `get_rate`: SELECT that finds a row, or none; request; INSERT and commit | `Hit`, `Miss`; `Fetch`; `Store`, which ends the transaction |
| commit or rollback of the caller | `Leave` |
| `refresh_fx_rates`: start; one request per currency; the only commit | `RunStart`; `RunFetch`; `RunCommit` |
| a lost worker or an error, before the commit | `RunFail` |
| `_fetch_from_frankfurter`: live answer or mock | `FetchFromFrankfurter`; `SourceFails`, `SourceRecovers` are the provider |
| `initiate_payment`: merchant; cap; lock; commit; failure | `PayBegin`; `CapCheck`; `Lock`; `PayCommit`; `PayFail` |
| `process_settlement`: at the locked rate; expired lock; new rate; commit; failure | `SettleLocked`; `SettleExpired`; `SettlePrice`; `SettleCommit`; `SettleFail` |

`PaymentRates` extends `FxRates`: a payment is a caller, and its actions are conjunctions
with the actions of the cache. `quote[c]` is what `get_rate` returned last.

Abstractions: time is a counter; the clocks of PostgreSQL and of the Python processes
agree, and the commit that follows a fetch takes less than one unit of it (`Tick` waits for
it). A refresh takes at most `RunLimit` units, as every request has a timeout of ten
seconds. An outage stands for any failure of a request, also of a single one while the provider
answers others (a 404, a key that is missing): `SourceFails` and `SourceRecovers` may surround
one `Fetch`. Every currency has a mock, so `FXRateUnavailableError` is never raised. That a
rate is the inverse of the provider's answer, quantised, does not matter to any property.

### SettlementMath and SettlementAmounts

Amounts are integers in units of 0.0001, rates in units of 0.000001: each `quantize` is
`HalfEven` of an exact quotient (28 digits carry every amount the columns hold).
`Request`, `Refuse`, `Initiate` are `initiate_payment`; `Webhook` stores the reported
amount; `Settle` is `process_settlement` at the locked or any later rate; `LogEntry` its
entry, with any variance. Which task does so, and when, is `PaymentPipeline`'s. An amount
may be zero or negative: route and service set no lower bound.

### SchemaMigrations

A revision is a sequence of statements, `d $ s` is the database `d` after the statement `s`,
and `Execute` what PostgreSQL does with one: create or drop a type, table or column, or fail. A revision that fails is rolled back as a
whole. `Older0001` is the schema that 0002's docstring speaks of, from before its columns
moved into 0001. `Onboard` and `Review` are the application, which raises when a column of
its models is missing. Indexes and the offline mode, which prints SQL, are left out.

### SeedData

A run is split at the look-up of each merchant (`Look`, `Fetch`), its flush (`Insert`) and
the two commits (`CommitMerchants`, `CommitSamples`); `Crash` kills it. `CallInsert`,
`CallCommit`, `CallFail` are the two endpoints that create merchants. `holder` says who has
inserted an e-mail and not committed: an INSERT of the same e-mail waits for that
transaction, which is how PostgreSQL checks a unique index. Review of a merchant is one
step. The random account numbers never clash.

## 3. Properties and runs

| Run | Instance | Shows |
|---|---|---|
| `core_safety` | 1 payment, 2 webhooks of any outcome, 2 reconciliation runs, 2 rates, 2 workers, 1 retry; a crash and an error | `NotStranded`, `LockHonoured`, `DirectFlowPaysOnce`, `LogBacked`, `RateWasPaid`, `OnePendingPerRun`, `FewerStrayEntriesThanSlots`, `TerminalStable`, and `LifecycleSpec`: the pipeline implements `PaymentLifecycle` |
| `direct_flow` | 2 payments, one netting to zero, no webhook, a reconciliation run, 2 workers; a crash and an error; fair | `TypeOK`, `EverySettledLogged`, `RunEndsExplained` |
| `liveness` | 1 payment, 2 webhooks, 1 worker, one fault of each kind; fair | `EventuallyClosed` |
| `onboarding` | 2 merchants, 2 payments, 2 crashes, an error, a lost enqueue; fair | `TypeOK`, `PayeeApproved`, `ReviewOwned`, `ReviewEnds` |
| `payment_rates` | 1 payment in another currency than USD, which is refreshed, an outage, TTL 1, refresh 1, lock 1, clock to 3 | `MockExplained`, `PayTypeOK`, `SettledRateAge`, `RatesOnRecord`, and `QuotesSpec`: `FxRates` implements `RateQuotes` |
| `amounts` | 1 payment, amounts about the cap and the smallest ones, zero and negative, 5 rates | `TypeOK`, `NetNonNegative`, `CapHeld`, `AdvertisedMax`, `StatusFollowsVariance` |
| `migrations` | 3 merchants, both starting schemas, any sequence of revisions | `TypeOK`, `HeadComplete`, `NeverStuck`, `UpgradesKeepApprovals` |
| `seeds` | 3 runs, 2 calls for any e-mails | `TypeOK`, `AccountsFound`, `SamplesWhole`, `NoneWaitsForEver`, `SeedsSkipExisting` |

* **NotStranded**: an open payment has a task that has yet to settle it, or `dropped`
  records why not. It needs every stale write to come with a task of its own: a webhook
  that reopens a settled payment also enqueues; `simulate_inr_collection` that overwrites
  a confirmation goes on to settle; a retry is sent before its message is acknowledged. What
  `dropped` records - an enqueue or a retry that was lost, a task out of retries - does strand a
  payment.
* **TerminalStable**: a settled or failed payment is stable *once no handler that read it
  earlier is in flight* (`Quiet`), and stays quiet. The condition is the code's real
  guarantee; without it the property is false (run `settles_after_failure`).
* **LockHonoured**: row, payouts and entries carry the locked rate until it expires.
* **LifecycleSpec**: the pipeline implements the documented life of a payment, webhooks
  included and with two workers, until the payment is contested. From then on nothing is
  promised of it, and rightly so: two handlers with views of one payment overwrite each other
  and may pay it twice (run `settles_after_failure`). What the refinement shows is that nothing
  less does: not a redelivery, a retry or a crash at any commit, and not a late webhook.
* **DirectFlowPaysOnce**: as long as no webhook has read a payment it is paid at most once,
  through crashes and retries before and after the commit, unless it is `doubled`: then its two
  messages may be run side by side and both settle it.
* **LogBacked**, **OnePendingPerRun**: entries are backed by payouts; overlapping runs add at
  most one entry each.
* **FewerStrayEntriesThanSlots**: the periodic task may look between a settlement and its entry,
  and two of its runs at once, so a payment may get more entries than settlements. It is fewer
  too many than there are workers: none with one, one with the two of the compose file.
* **RateWasPaid**: the rate in the row of a settled payment is one it was really paid at,
  although the ORM leaves columns out of the UPDATE and webhooks reopen settled payments.
* **EverySettledLogged**: a settled payment gets an entry in the end, also after a crash or a
  zero amount between its settlement and its entry, unless some payment has two entries, on which
  every run ends (run `run_aborts`).
* **RunEndsExplained**: that is the only thing, besides a crash, that keeps a payment a run has
  selected out of the log.
* **PayeeApproved**, **ReviewOwned**, **ReviewEnds**: the approval check made early is still
  true at the commit; only recorded faults leave a review unfinished.
* **QuotesSpec**: every rate `get_rate` returns was obtained for its currency, and at most
  TTL plus the length of a refresh ago. The TTL alone is not what the code keeps: a refresh
  commits after its last fetch, and all its rows show one time.
* **MockExplained**: mocks are cached like live rates, but reach callers only within that
  same age of an outage.
* **SettledRateAge**, **RatesOnRecord**: a settlement pays at a rate of its currency of
  bounded age, through expiry and retries, and the rate is in `fx_rates` for audit although
  it was fetched in a session that may later roll back.
* **NetNonNegative**, **CapHeld**, **AdvertisedMax**, **StatusFollowsVariance**: what half-even
  rounding of several steps may do to an amount. `AdvertisedMax` leaves open whether the limit
  itself is accepted (section 4), `StatusFollowsVariance` speaks of positive net amounts.
* **HeadComplete**, **NeverStuck**, **UpgradesKeepApprovals**: any way to head is a way to a
  schema the code runs on, and every revision can be applied wherever it can be asked for.
* **AccountsFound**, **SamplesWhole**, **NoneWaitsForEver**, **SeedsSkipExisting**: runs of the
  seeds neither deadlock nor half-finish their samples nor touch a merchant that exists. That
  they do not wait in a circle hangs on the common order of the list.

The bounds: one payment suffices where payments do not interact. They share only worker
slots and reconciliation runs, hence two payments in `direct_flow` and `run_aborts`. Two
webhooks and the payment's own task give three pipelines, one more than the workers. One error
with one retry already gives two messages at once, one crash the redelivery of either of them; a
task runs out of retries in `direct_flow`, where the zero amount is a second exception, and a
message or retry is lost in `liveness`. One name for a retry suffices for one retry in flight
(`Copies`). Without reconciliation runs `liveness` has a single worker that three messages
contend for. Hooks and runs are symmetric in `core_safety`; runs of liveness properties use no
symmetry. The models have no other counters: tasks, hooks and runs are the constant sets, a
webhook is delivered once, a reconciliation run may start any number of times. `liveness` and
`onboarding` do not check deadlock: when all payments are closed or all merchants reviewed,
nothing is left to do.

Bounds of the other models. With TTL, refresh and lock of one unit each, a clock to 3 goes one past
`MaxAge`; one caller opens any number of sessions and one run is repeated any number of times.
A second caller or a second payment passes five minutes; the
theorems about these modules have no bound. `amounts` scales the constants down
(`RateScale` 4, paisa 2 units, fee 3/32, cap 24 units) so that ties, remainders and both sides
of the cap are near each other. Three merchants suffice for the three review states at once;
three runs of the seeds give two that wait for one another's merchants and a third that finds
them. The clocked models, `amounts` and `seeds` end, so they do not check deadlock; for
`seeds`, `NoneWaitsForEver` does. A behaviour of `migrations` never ends.

Fairness (`Fairness` in `PaymentPipeline`): a handler or task that has started runs on, so
its steps are weakly fair; `TaskDeliver` and `ReconSelect` are strongly fair because the
broker's list is first in first out and beat sends a run every minute, while a free slot
comes and goes. Payments, webhooks, expiries and faults are never forced. A lost enqueue
or retry and an exhausted one are visible in `dropped`, so the liveness properties do not assume
that faults stop by fairness, only that they are finitely many (`FaultLimit`).
`MerchantOnboarding` counts no slots, so weak fairness suffices.

## 4. Where code and documents disagree

Each run below checks one statement of a document or comment and TLC finds it violated.

| Run | Statement | What happens |
|---|---|---|
| `settles_after_failure` | `SettlesOnlyCollected`: a settlement is of a payment "in inr_collected or upi_confirmed state" (`services/settlement_service.py:23`) | A FAILED webhook commits while the pipeline sleeps. `process_settlement` checks the status its session loaded before the sleep and settles the failed payment. |
| `run_aborts` | `RunLogsAll`: "find settled transactions from last 24h without a reconciliation log and create pending entries for them" (`workers/reconciliation_worker.py:14`) | A payment with two entries raises `MultipleResultsFound` and ends the run before its commit: no other payment gets its entry, in this and in every later run as long as the payment is in the window. |
| `cap_rate_moves` | `CapAtLockedRate`: "Each payment is capped at **USD 10,000 equivalent**" (`README.md:66`) | Between the two look-ups of a payment in USD the cache changes: the cap is checked at one rate, and the payment locked at another at which it is above the cap. |
| `webhook_amount` | `PaysWhatWasCollected`: "Settlement computed: INR collected ÷ locked FX rate − 1.5% fee" (`README.md:47`) | A webhook reports another amount than was asked for. It is stored in `amount_inr_collected`, and the settlement divides `inr_amount`. |

`RunEndsExplained` says how far the second one reaches: nothing but a payment with two entries
makes a run do so, and `FewerStrayEntriesThanSlots` that with a single worker no payment that is
settled once gets one.

Seen while reading the code for the models, and shown by no run:

* The reconciliation task looks after a settlement's commit and before its entry, then commits
  a second entry (`workers/reconciliation_worker.py:43`).
* A task that had loaded the rate it uses leaves that column out of the UPDATE, and the row
  keeps the rate of another task's settlement (`services/settlement_service.py:71`).
* A worker lost between UNDER_REVIEW and APPROVED leaves the merchant there: the redelivered
  task accepts only PENDING (`workers/kyb_worker.py:26`). An approved merchant's `status` stays
  `pending_kyc`, as nothing writes it after onboarding (`services/merchant_service.py:61`).
* A refresh stamps all rows with one time, so that the first of them are served for longer than
  the TTL, and mocks are served after the provider has recovered. The listing of `GET /fx-rates`
  goes through five of the seven currencies (`services/fx_service.py:113`).
* The lock counts from before a look-up that may be slow (`services/payment_service.py:64`).
* Gross and fee are rounded separately: 102 INR at 83.5 settle for 1.2033, the formula of
  `tests/test_settlement.py:48` gives 1.2032, and so does `requirement.md:38`. Theorem `NetIsNear`
  says that one unit is the most.
* A payment of exactly the cap is accepted (`services/payment_service.py:56` compares with `>`);
  a comment of the tests says of 835,000 INR at 83.5 that it "should be rejected (> not >=)"
  (`tests/test_payments.py:136`), and tests 834,900.
* A worker that is lost after `self.retry` has sent the retry and before the old message is
  acknowledged leaves two messages of the payment (`workers/payment_worker.py:53`,
  `workers/celery_app.py:19-20`); two workers may then settle it twice.
* The downgrade of 0002 drops columns that 0001 had created on a fresh database, with the
  approvals in them; on an older database `kyb_status` becomes a VARCHAR.
* Each run of the seeds adds five more sample payments, although they are called idempotent.

## 5. What is proved

The theorems hold for every value of the constants: any number of payments, webhooks,
reconciliation runs, workers, rates, retries and faults. They rest on the named
assumptions of the modules only (identifiers of payments and webhooks differ and are
finitely many; the locked rate is a rate and NULL is none; limits are natural numbers; runs
of the seeds and calls differ and none is called `Nobody`; there is a worker). No theorem
assumes a single worker or that there are no webhooks.

`PaymentPipelineProofs`:

* **TypeCorrect**. `TypeOK` is not inductive: that an entry or a payout has an amount needs
  `RatesKnown` (a settled row has a rate, a task about to settle has quoted one, a run holds
  amounts of what it will insert, a resting run holds nothing). `TypeInv` is both.
* **NeverStranded**: `StrandInv` adds that at a task's refresh the payment has left
  `initiated`, so the refresh finds every open payment settleable.
* **TerminalStays**: an action property; each action that writes the row is impossible while
  the payment is `Quiet`, and no action on a closed payment leads out of `Quiet`.
* **LockIsHonoured**: `LockInv` adds the rates in flight, in sessions and in runs.
* **ViewsAreSerial**: `SerialInv` says of every payment that is not contested that at most one
  handler holds a view of it (`OneView`), and that the row is still as that handler saw it
  (`ViewHolds`).
* **PipelineImplementsLifecycle**: refinement, with webhooks and at any concurrency. `SerialInv`
  gives that each commit on a payment that is not contested is the step of `PaymentLifecycle`
  the handler's view allows; on one that is, it is `Stray`.
* **DirectFlowOnce**: `DirectInv` says that a payment which no webhook has read and which is not
  `doubled` has one message in the broker or at a worker and is not contested, whatever was
  retried and redelivered; with `SerialInv` it is settled once.

`MerchantOnboardingProofs`: **TypeCorrect**, **PayeeStaysApproved**, **ReviewsAreOwned**, the
latter two from `KybInv` (the session of a running review agrees with the row; a payment
past the gate has an approved payee).

`ReconciliationProofs`: **LogIsBacked**, **OnePendingEach**, **RateIsPaid**,
**StrayEntriesBounded**, from `LogInv`. None of these is inductive: the count of checked entries is
bounded by that of payouts only together with the tasks that have settled and not logged yet
(`CheckedOwed`), the pending ones only together with the runs about to commit one
(`PendingOwed`), and amounts are followed from the payout through sessions and runs into the log
(`AmountsPaid`). `StrayOwed` counts the entries, the runs about to add one and the tasks about to
log together: a run that adds one takes a slot and has seen no entry, so all others it may race
with sit in the remaining slots, which `SlotInv` bounds. Steps that neither settle, log nor
commit a run are shown once to keep all of these (`QuietTask`, `QuietRecon`).

The same module has **RunEndsAreExplained**: `Scanned` says that each payment a run selected is
yet to look up, about to be added, or has an entry, and no step but a crash ends a run otherwise
than by its commit or on a payment with two entries.

`SeedDataProofs`: **TypeCorrect**, **NoMerchantWithoutAccount**, **SamplesAreWhole**,
**NoCircleOfWaits**, **RunsSkipExisting**, from `SeedInv`. Its core is `Through`, the merchants a
run has behind it: it holds no others, and each of these is in the table or held by the run,
so that at the second commit all of them are there. Every step is shown once to be of the
kind `Effects`, which disturbs neither the other runs nor the calls. That nobody waits in a
circle is no invariant of its own: a run that waits for a run that waits is less far in the
list (`HolderAhead`), so that a chain of waits would have to climb past the end of it. The
theorem is about this list of three merchants, for any number of runs and calls.

`SchemaMigrationsProofs`: **TypeCorrect**, **HeadIsComplete**, **NoRevisionFails**,
**ApprovalsSurviveUpgrades**, for any set of merchants, from `SchemaInv`: without a version the
database has no tables (`Vacant`), at 0001 and 0002 it has all of them, with the references
and columns no revision takes away (`Installed`), at 0002 all the application names as well
(`Complete`), and rows have a `kyb_status` when the column exists (`KybFits`). Each kind of
statement has a lemma about what it leaves, each revision one that chains them; `Creation`
is shared by both editions of 0001. Revisions are chains of `$` and not folds over
sequences, since what a fold computes cannot be proved here.

`FxRatesProofs`: **TypeCorrect**, **MocksExplained** and the refinement **QuotesImplemented**, from
`FxInv`: `Ages` bounds how much younger a row looks than it is by what its run may take,
`Mocks` that whatever is on its way into the table was obtained no later than the last outage
if it is a mock. The refinement maps rows, batches and what callers hold to `known`.

`PaymentRatesProofs`: **PaymentsCallGetRate** (a behaviour of payments is one of `FxRates`, so
its theorems hold of them), **PayTypeCorrect**, **SettledAtBoundedAge**, **RatesFound**, from
`PayInv`, which says per stage of a payment what its lock, session and rate satisfy.

`SettlementAmountsProofs`: all invariants of `SettlementAmounts` for any scale, fee rate up to
one half, cap of whole paise (`CapAssumption`: 10,000 USD at any rate of six digits is one),
amounts and rates: **TypeCorrect**, **NetIsNear**, **NetStaysNonNegative**, **CapIsHeld**,
**LimitIsNamed**, **StatusIsOfVariance**. They rest on lemmas about `HalfEven`: it is within half
a unit (`Nearest`), monotone (`Monotone`), and exact on multiples (`Exact`).

Every invariant and every safety property of a passing run is thus a theorem; `NetWithinUnit` is
one that no run checks (section 4). Only model-checked are the liveness properties
`EventuallyClosed`, `EverySettledLogged` and `ReviewEnds`: liveness under fairness is beyond the
prover. `RunLogsAll`, `SettlesOnlyCollected`, `CapAtLockedRate` and `PaysWhatWasCollected` are
false of the code and occur in the runs of section 4 only. The fairness that `FairSpec` adds
plays no part in the theorems, which are about `Spec`.

## 6. Not modelled

* Read-only routes and exception handlers change no state. The HMAC check of the webhook:
  a rejected call changes nothing.
* Containers declare the processes; their number is a constant of `PaymentPipeline`.
* The engines and connection pools that tasks leave behind; the expiry `payment_expires_at`,
  which nothing reads; the VPA of eight digits and random account numbers, whose clashes a
  small model cannot weigh.
* `NUMERIC(18,4)` rounds an amount with more digits than it stores; models start from amounts
  that are stored as they came. The Tax Collected at Source of `requirement.md:34-38` is not
  in the code.
* Indexes and the offline mode of the migrations; the 24 hour window of the reconciliation.

What could be added: the rate cache below the pipeline instead of the pipeline's free choice of
a rate.
