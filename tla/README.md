# Gripe in TLA+

Gripe is a small payments platform: merchants take payments, refund them and are
settled; subscriptions charge on a schedule; one API runs on Postgres or on MongoDB.
This directory holds TLA+ models of its core, the TLC configurations that check
them, and TLAPS proofs of their safety properties: the money tables and their reports, both
backends and that they implement the store interface, the idempotency keys, the write routes,
the listings and the merchant dashboard, the cycler and the fee-worker. Paths below are relative
to `src/`.

    tlc -workers 2 -config MCPostgres.cfg MCPostgres     # model-check one run
    tlapm PostgresProofs.tla                             # check the proofs of one module

(the modules with proofs are `SumLemmas`, `LedgerProofs`, `PostgresProofs`, `MongoProofs`,
`IdempotencyProofs`, `ApiProofs`, `WorkerProofs` and `DashboardProofs`).

`PROJECT.json` lists the runs with their properties, a mutant of the code for every
property of a passing run (a changed definition under which TLC finds the property
violated; each stands in its module just before the definition it changes), the source
lines behind every definition, the hazards, the findings and the theorems.

## The system

| Part | State it keeps | Operations | Talks to |
|---|---|---|---|
| Domain (`internal/domain`) | none | fee formula, statuses, `Cadence.Advance` | everyone |
| Store interface (`internal/store/store.go`) | payments, refunds, merchant balances, subscriptions | create, capture, settle, refund, settle refund, network fee; listings, reports | both backends implement it |
| Postgres backend (`store/postgres/store.go`) | the tables; a pool of connections; the `seen` cache of onboarded parties | the same, as transactions | PostgreSQL |
| MongoDB backend (`store/mongo/store.go`) | collections, with refunds embedded in payments and balances in merchants; the `seen` cache | the same, as single-document writes | MongoDB |
| Idempotency middleware (`internal/api/idempotency.go`) | `idempotency_keys`, 24 h per record | look up, run the handler, insert the record | wraps five POST routes |
| Handlers (`internal/api`) | none | decode, scope by actor, call the store, publish; page through listings | store, SQS |
| Merchant dashboard (`web/app/merchant/page.tsx`) | rows, cursor, balances, `loading`, the merchant acted for | load, load more, switch merchant | API |
| Cycler (`internal/cycler`, `cmd/cycler`) | a batch read from `subscriptions` | tick: charge each due subscription, move it on | store |
| Events and fee-worker (`internal/events`, `cmd/fee-worker`) | messages on SQS; a batch received | publish after the commit; receive, set the fee, delete | SQS, store |
| Fraud worker, seed, the rest of web, config, deployment, perf | | | not modelled, see below |

What is hard about it:

* **Concurrency.** HTTP handlers run side by side; nothing serialises two requests on one
  payment but the database's conditional updates. Postgres adds row locks and a pool in
  which requests can wait for each other; MongoDB, without transactions, lets others in
  between the two writes of a settlement.
* **Partial failure.** A request context is cancelled when its client leaves, at any
  statement. A commit may happen although its answer is lost. The handler may commit and its
  idempotency record not be written; the cycler may charge and not move on; the publish may
  fail after the payment is durable.
* **Ordering.** A payment's `created_at` is drawn before its insert commits, so a listing's
  rows do not appear in its order; the dashboard's answers arrive in any order, and are
  applied whichever merchant is chosen by then.
* **Check, then act.** Handlers read a payment's owner in one query and write it in another.
* **Stale state.** Batches of due subscriptions, the `seen` caches, idempotency lookups and
  the "why did nothing match" probes are all read first and used later.
* **Redelivery.** SQS delivers at least once, to any worker, and a visibility timeout may
  end while its message is still being worked on.
* **Arithmetic.** Fees are rounded half-even per posting, so refunds in slices need not give
  back the fee that was taken; month arithmetic rolls over.

What makes each part correct:

* *money tables*: refunds never exceed the payment and add up to `refunded_minor`; every
  balance is explained by the settlements behind it; payments only move forward;
* *each backend*: its many-step operations look atomic, or (MongoDB) are off by nameable
  whole postings; success means it is done; nobody waits for ever; parents exist before
  children;
* *idempotency*: a replay is the response to the same request; a recorded key writes nothing;
* *cycler*: no cycle skipped, none charged early, none charged twice, all charged in the end;
* *fee-worker*: no event lost, first fee stays, every published payment gets one;
* *handlers*: nobody writes what is not theirs; who is told of success has what was asked for, once;
* *listings and reports*: each payment shown once, counted once; balances and revenue make up
  the money settled;
* *dashboard*: the screen is one merchant's listing.

## The modules

    GripeDomain --- LedgerRows --+-- Ledger --- Reports              Calendar --- Cycler
                                 |     ^                             GripeDomain --- FeeWorker
                        Sums ----+     |  implements                 Sums --- Paging --- Dashboard
                                 +-- PostgresStore, MongoStore
                                 +-- Api  (uses Ledger, implements Idempotency)

    Reports --- LedgerProofs (SumLemmas)             Cycler, FeeWorker --- WorkerProofs (SumLemmas)
    Idempotency --- IdempotencyProofs                Dashboard --- DashboardProofs (SumLemmas)
    PostgresStore --- PostgresProofs (over LedgerProofs)
    MongoStore --- MongoProofs (over LedgerProofs, SumLemmas)
    Api --- ApiProofs (over LedgerProofs, IdempotencyProofs, SumLemmas)

| Module | Models | State and actions, and the code |
|---|---|---|
| `GripeDomain` | `domain.go`, `money.go`, the mock acquirer, the mock network fee | constants and pure operators; `FixedWidthFee` is the fee in integers that wrap |
| `LedgerRows` | rows, and what one write does to a row | `Refundable`/`Refunded`: the conditional refund update; `Settleable`; `Credit`/`Debit`: `creditBalance` and `applyBalanceDelta` with the arguments they are given |
| `Sums`, `SumLemmas` | totals over numbered rows, sums over sets | recursive functions and folds, with proved lemmas |
| `Ledger` | the `Store` interface: the abstract specification | `payment`, `refund`, `balance`; one atomic action per money operation; `credited` is history |
| `PostgresStore` | every write of `store/postgres/store.go` but those of single statements on subscriptions | committed tables, and `tx`: each session's place, request and locks. One action per statement (`UpsertFirst`, `TxUpdate`, `CreditBalance`, `Commit`, ...), `Abort` for a cancelled context or failed statement, `Restart` for the process |
| `MongoStore` | the same of `store/mongo/store.go` | documents, and `tx`; one action per write or read of a document (`SettlePayment`, `ApplyBalanceDelta`, `Probe`, ...); `owed` is history |
| `Idempotency` | the middleware | `record`: the key table; `call`: each request; `effects`: the calls whose handler committed |
| `Calendar` | `Cadence.Advance` over whole UTC days | a finite calendar of months |
| `Cycler` | `Tick`, `chargeOne`, `DueSubscriptions`, `AdvanceSubscription`, create and cancel | `sub`: the table; `worker`: the batch as it was read; `charges`: the payments made per cycle |
| `FeeWorker` | `createPayment`'s publish, the queue, the receive loop | `payment`, `fee`, `queue`, `feeWorker`; the names it would share with `Cycler` say `Fee`, so that `WorkerProofs` can extend both |
| `Api` | the five write routes and the settlement routes: `payments.go`, `subscriptions.go`, `settlement.go`, the scoped `GetPayment` | the variables of `Idempotency` and `Ledger`, the subscriptions, and for each call what it asked and whether its owner check is done. `CheckPayment` and `Write` are the two steps of a merchant's capture or refund; `Write` and `Cut` commit the ledger's own step |
| `Paging` | `listPayments` and `AdminVolumeReport` of both stores, a client that pages | `payment` and `drawn`: inserts committed and on their way; `walk`: the client's cursor; history `steady`, `shown` |
| `Dashboard` | `web/app/merchant/page.tsx` over `Paging` | `screen`: the component's state; `load`: the calls of `load()` in flight, one action per answer |
| `Reports` | `GetMerchantBalances`, `AdminBalanceReport`, `AdminRevenueReport` over `Ledger` | operators on the ledger's balances |
| `MC*` | the small instances TLC runs | values for the constants |

`PostgresStore` and `MongoStore` EXTEND `LedgerRows` and INSTANCE `Ledger`: in Postgres the
refinement mapping is the identity on the committed tables; in MongoDB the ledger's balance
is the stored balance plus the postings still `owed`. `Api` takes its store steps from
`INSTANCE Ledger` and shows that it implements `INSTANCE Idempotency`, whose handler is any
step that commits, refuses or fails.

How the code is abstracted:

* Rows are numbered; the program draws random ids, so a request names an existing row or
  `NoSuchId`. An account is a (merchant, currency) pair. A missing balance row reads 0, and
  `networkFee` 0 stands for NULL or absent.
* Inputs are those that pass validation. Formatting, logging and wording are left out; an
  answer is one of `ok`, `notFound`, `invalidState`, `overRefund`, `error`.
* A Postgres statement waits while another transaction holds its row and then judges the
  latest committed row (READ COMMITTED re-evaluates the WHERE clause), so a transaction in
  `tx` carries its request and locks and no row image; what it writes appears at `Commit`.
  The last statement before a COMMIT and the COMMIT are one step: nobody can see between
  them, and `Abort` covers a failure there. Foreign-key checks take share locks on rows that
  are never updated or deleted, and are not modelled as waits.
* `FOR UPDATE SKIP LOCKED` in `DueSubscriptions` runs outside a transaction: its locks end with the
  statement, so the whole query is one atomic read.
* `Cycler` treats `CreatePayment` as one step that succeeds, fails, or succeeds and is reported
  as failed. Neither store uses the idempotency key it is passed.
* In `Idempotency` a handler commits or not and answers with success, a refusal or an error, a response is named by the call that produced
  it. A record expires at any time, under any calls: the lookup compares its `ExpiresAt` with the clock, so
  one that runs out on a call's way there lets the call through. `Purges` is MongoDB's TTL index; the purge is
  never forced, so the behaviours of Postgres, where expired rows stay, are among those checked.
* `Api` takes the store's operations as atomic, which is what `postgres` shows of its backend
  (on MongoDB a settlement's posting may come later or never, which no property of `Api` looks at); the statuses that matter are those of a direct debit, the method that has to be captured. The body a
  key is compared by is what the middleware hashes: the JSON body, not the path.
* In `Paging` a filter on method, currency and amount is a set of kinds; an empty time filter is
  the whole range. Pages hold `PageSize` rows instead of 50. A cursor is the key of the last row shown:
  its base64 form is opaque to everybody but the store.
* In `Dashboard` every call of `load()` keeps the merchant and cursor of the render that made
  it. An error shows a message and leaves the rest of the screen alone.
* SQS is external: at-least-once, any order, visibility timeouts, retention longer than any outage. Beside the
  payments' events it may be given messages that do not decode (`Junk`) and messages that decode but name no
  payment (`Strays`).

## What is checked

Every passing run explores its whole state space. "Fault" bounds count failed calls and crashes.

| Run | Instance | What it shows |
|---|---|---|
| `ledger` | a merchant with two currencies and one with one, 2 payments of 50, 100 or 113, 2 refunds of 50 or 100, all methods | The rules of the money tables: `RefundsAddUp`, `Reconciled` (every posting once, nothing else), `FeeDriftBounded`, `CreditMatchesStatus`, `PaymentsOnlyMoveForward`. `BooksBalance`: in each currency the balances, read merchant by merchant, and Gripe's revenue make up the money settled. 50 has a fee on the half (1.5), 113 is declined for cards, so every rounding branch and status occurs |
| `postgres` | 2 sessions, 1 payment, 2 refunds, 2 connections | `ImplementsLedger`: whatever the interleaving, aborts, lost commit answers and restarts, the committed tables make ledger steps. `OkMeansCommitted`; `ForeignKeysHold` (the cache); `OnlyProbesWaitInACircle`: row locks and connections are waited for in a circle in one way only, by probes that have used up the pool |
| `mongo` | 2 sessions, 1 payment, 2 refunds | `ImplementsLedgerWithDebts`: books are off only by whole postings, each owed to a settled row and posted at most once. `OkMeansDone`: both writes. `NeverPointsAtNothing` |
| `idempotency` | 4 calls, 2 keys, 2 bodies | `ReplaysAreGenuine`, `KnownKeysWriteNothing`, `LiveRecordsAreFinal`, through races, refusals, 5xx after a commit, disconnects and expiry at any moment |
| `cycler` | 2 workers, 2 subscriptions daily or monthly from Jan 31, batch 1, 2 cycles, 1 fault | `NeverSkipsACycle`, `OnSchedule`, `ChargesBounded`, `CancelledSkipped`, `CyclesOnlyGoForward`; `DueGetsCharged` (liveness) |
| `fee_worker` | 2 workers on 2 releases, an accepted and a declined payment, a message that does not decode and one that names no payment, batch 2, 3 faults | `NoEventLost`, `OnlyPublishedPay`, `FirstFeeStays`; `PublishedGetsFee`, and `QueueDrains` (what is a payment's or does not decode is deleted, though the stray goes round for ever): liveness |
| `api` | 3 calls, 2 keys, 6 requests of a customer, an admin and two merchants; 2 payments and 1 subscription to begin with | `EffectsAreEntitled`: no write by who may not, except cancellations; `SuccessMeansDone`: first-hand or replayed, success is a row of one's own; `ImplementsIdempotency` |
| `paging` | 3 payments, 2 merchants, 2 timestamps each a day, pages of 1, 5 filters; then a dashboard with 2 loads in flight | `EachShownOnce`; `VolumesAddUp`; `ScreenIsOneListing` |

Why these bounds: every hazard above is a conflict of two actors over one row, and the
instances make them meet: two sessions share the only payment, balance and merchant; two refunds are
the least that can exceed a payment together (50 and 100 of 100) and be settled apart; two
workers share a batch of one, so that a subscription can be starved; four calls allow a race,
a retry of each loser and a call after expiry. In `api` three calls on
one payment are a race and a third party, and two keys allow a replay beside it; the requests are
one of each kind and a foreign one, with the shop owning payment 1 in one initial state and not in the
other. Three payments in pages of one make two page boundaries with rows before, between and
after them; two timestamps make equal and different keys; ids and times are
drawn independently. Two loads are the least that overtake each other. Two more bounds keep the dashboard
small, and `Dashboard.tla` names them: it opens where nobody else pages, on a table that has come to rest with
one status, because a moving table is the business of `EachShownOnce`. Merchants,
calls and keys are interchangeable where a configuration declares symmetry: the requests of `api`
name accounts and ids, never calls or keys. The pool in `postgres` has as many
connections as there are sessions, so that the one circle the code does allow, two probes after missed updates,
occurs there and `OnlyProbesWaitInACircle` tells it from every other; `postgres_pool` asks for an answer to
those two. What lies beyond the bounds is covered by the proofs below,
which hold for every number of rows, sessions, workers, calls and faults; only liveness rests on
the instances alone.

Deadlock checking is off where the system really comes to rest: when the bounded rows,
calls or cycles are used up.

**Fairness.** `PostgresStore`: strong fairness of each session's next statement: Postgres and
pgxpool both queue their waiters, so a lock or connection that keeps becoming free reaches each of
them; aborts are not assumed. `Cycler`: weak fairness of each worker: `Run` loops for ever and the
container is restarted; faults are bounded, so that "always failing" is excluded, and nothing is assumed of
creations, cancellations or the clock. `FeeWorker`: weak fairness of each worker
and of the visibility timeout of a message nobody holds, and strong fairness of each message's delivery:
SQS does not pass one over for ever in favour of others, which matters because a stray message is back
on the queue again and again. Early timeouts, crashes and publishing are not assumed to happen.

## What disagrees with the code's own words

Each is a run of its own that TLC refutes; `findings` in `PROJECT.json` quotes the lines.

* `postgres_pool`: a settle or refund that finds nothing to update probes through the pool
  while its transaction keeps a connection. As many of those as the pool has
  connections (pgxpool defaults to about four) wait for each other.
* `mongo_crash`: the flip and the `$inc` are two writes, so "atomically with the flip"
  (`store.go`) fails when the process or the request ends between them. The
  source names the crash window; a client's disconnect opens it as well.
* `idempotency_race`: the loser of a race for a fresh key has already committed its write;
  "second write loses harmlessly" is true of the record only.
* `cycler_double_charge`: the stores ignore the cycle's idempotency key, so a failure between
  `CreatePayment` and `AdvanceSubscription` charges the cycle again. `ChargesBounded`
  says by how much: once per worker and once per fault.

More were met and are not runs of their own; the models follow the code:

* *Cancellation.* `cancelSubscription` commits before it compares the actor with the row, so anybody
  can cancel any subscription and is then told 403, as its own comment admits. `EffectsAreEntitled`
  makes this the only exception.
* *Keys.* The middleware compares the key and the hash of the body. A key reused on another path with the same
  body (captures and cancellations all have an empty one) replays the other path's answer;
  `SuccessMeansDone` says what holds for clients that do not do so.
* *Dashboard.* `ScreenIsOneListing` needs two conditions the code does not enforce. If a load is in flight when
  another merchant is chosen (each keystroke in "Acting as" is a merchant), its late answer replaces the
  new merchant's rows, and a late "Load more" is appended to them. If the first load of a
  merchant fails, the rows, the cursor and the button of the one before stay: "Load more" then sends
  its cursor with the new merchant's id and mixes both; if only the balances fail, the old merchant's
  balances stay beside the new one's rows. `usecases.md` UC-5 wants a merchant to see only its own; each answer of
  the API is scoped, it is the screen that mixes them.
* *Fees.* A payment refunded in full before it settles can never settle, but its refund can: the
  merchant is debited for money never credited, and `fees_minor`, "the lifetime fee total the
  merchant has paid" (`domain.go`), can go below zero. `usecases.md` UC-11 says
  "Fees are not returned to the merchant on refund", and that the balance is the sum less the rounded fee
  of the sum; the store interface and the code return the fee and round per posting, and
  `FeeDriftBounded` says how far that can drift.
* *Diagnosis.* On MongoDB a refund that arrives while the payment is still authorized can be
  answered `ErrOverRefund` although it fits, because a capture commits before the probe. Nothing is written.
* *Calendar.* The comment on `Cadence.Advance` says "Jan 31 -> Feb 28/29", where
  `AddDate` rolls over to March (`Calendar` models the rollover, and `OnSchedule` holds of it).
* *Stray messages.* A message that decodes but names no payment (`{}`, say) gets `ErrNotFound` from
  `SettleNetworkFee` and is left in flight, "SQS redelivers" (`cmd/fee-worker/main.go:85-89`): it is never
  deleted and comes back until its retention ends. `QueueDrains` leaves it out, and says with
  `PublishedGetsFee` that it keeps nobody else waiting for ever.
* *Expired keys.* On Postgres an expired key stays in the table, so the new response can never be
  recorded under it (`idempotency.go:72` says "re-insert below").
* *Cycler.* Its payments are created through the store, not the handler: no event is published for them, and they
  never get a network fee.

## What is proved

`LedgerProofs` proves, for every finite set of accounts, every set of positive amounts,
any number of payments and refunds and any merchants and currencies, as theorems of `Ledger!Spec`:

| Theorem | States |
|---|---|
| `TypeCorrect` | `[]TypeOK` |
| `BalancesReconcile` | `[]Reconciled`: each balance is the sum of its settlements, each counted once |
| `FeesDoNotDrift` | `[]FeeDriftBounded`: fees stay within half a unit per posting of 3% of the money moved |
| `RefundsNeverExceed` | `[]RefundsAddUp` |
| `SettledIsCredited` | `[]CreditMatchesStatus` |
| `LifeGoesForward` | `PaymentsOnlyMoveForward` |
| `ReportsAddUp` | `[]BooksBalance`: the merchants' balances and Gripe's revenue, as the reports show them, are the money settled in each currency |

and of the fee formula, in integers of any width: `FeesFitTheirWidth` (the fee is that of the models
if 300 times the amount fits: for int64, up to 30,744,573,456,182,586 minor units) and
`OverflowedFeesAreNotPositive` (just above, it is zero or negative).

From the assumptions in `LedgerRows`: accounts are finite, bounds are naturals, amounts are
positive (the stores refuse others).

The inductive invariant `LedgerInv` is the conjunction of the type invariant, `CreditMatchesStatus`,
`RefundsAddUp`, `Reconciled` and `FeeDriftBounded`. None of the last three is inductive
alone: that a settlement adds a *new* entry to the credits needs that a
settleable payment was not credited before, which is `CreditMatchesStatus`; and that one is kept because a payment
leaves `settled` only for `refunded`. That a refund fits needs `refunded_minor` to be the exact sum. The
proof has one lemma per kind of step: either it leaves every column of postings as it was
(`SameBooks`) or it fills one entry of one column by the amount it posts
(`SettleFillsCredits`, `SettleFillsDebits`, `RefundPaymentRefunds`), and `SumLemmas` says what that
does to a total. `FeeFacts` is the arithmetic of the half-even rounding.

`ReportsAddUp` follows from `Reconciled`. What an account's balance and fees add up to is the full amount
of its settlements, whatever the rounding, since net and fee of one posting make its amount
(`GrossOfAccount`); a payment belongs to one account, so the settlements of a set of accounts are those of
its accounts together (`GrossOfAccounts`); an account without a balance row has no settlements
(`SettledByAccounts`), and the rows of a currency, grouped by merchant, are counted once each (`HoldingsAddUp`).

`SumLemmas` rests on one induction, done by least counterexample: `LeastElement` comes from the
well-foundedness of strict inclusion on finite sets, since induction theorems that take a
predicate as parameter cannot be instantiated by the installed provers. `SetSumsExist` and its neighbours do
the same for the sums of the reports, which fold over sets: there is one function that gives every finite subset
its sum, and the fold is it.

`IdempotencyProofs` proves, for any sets of calls, keys and bodies, with and without the purge
of expired records, as theorems of `Idempotency!Spec`:

| Theorem | States |
|---|---|
| `TypeCorrect` | `[]TypeOK`: among it, each record was left by a request that succeeded under its key and body |
| `ReplaysRepeat` | `[]ReplaysAreGenuine` |
| `RetriesWriteNothing` | `[]KnownKeysWriteNothing`: a request sent onto a live record that does not run out before the lookup |
| `RecordsAreFinal` | `LiveRecordsAreFinal` |

From the assumptions that a missing header is not a key and a missing row not a record. The inductive
invariant `IdempotencyInv` adds four facts. A record's author is over and its write committed
(`RecordsOfTheDone`), so nothing changes its answer afterwards, nor the answer a replay repeats
(`ReplaysOfTheDone`). A call sent onto a live record still finds it at its lookup and therefore stops there, unless
the record has run out in between (`KnownCallsStop`): an expiry takes the claim back from every call on its way to
that key, and nothing else can remove the record. `FreshCalls` and `CallsOnTheWay` say what a
call carries at each point. `StepOfCall` covers the steps that leave the records alone: it is enough
that the row the call moves to is good (`GoodRow`); `PutKeeps`, `ExpireKeeps` and
`PurgeKeeps` are the three that change a record.

`PostgresProofs` proves, for any number of sessions, accounts, parties and rows, as theorems of
`PostgresStore!Spec`:

| Theorem | States |
|---|---|
| `TypeCorrect` | `[]TypeOK`: among it, no row is locked twice or between requests, and the pool is never overdrawn |
| `ParentsPresent` | `[]ForeignKeysHold` |
| `BackendImplementsLedger` | `ImplementsLedger` |
| `OkIsCommitted` | `OkMeansCommitted` |
| `CirclesAreProbes` | `[]OnlyProbesWaitInACircle`, for any number of sessions and any pool |
| `BackendKeepsTheBooks` | the committed tables reconcile, their reports add up, and the other invariants of `Ledger`, carried over the refinement |

From the assumptions that sessions are finite, merchants and customers are different parties, the
pool has a connection and the methods offered are among the program's. `IInv` rests on
`RowsStillMatch`: a transaction whose UPDATE found its row still finds it so at its commit, which is
why a commit is one step of `Ledger`. It is kept because whoever would change the row must lock it,
`LocksHeld` says that the transaction has that lock, and `LocksApart` that nobody else has. `NamesKnown`
and `ReadsBackDone` say what a request carries to its probe or read-back, and are what "ok" rests on;
`PartiesOnboarded` says that the cache never runs ahead of the tables. There is a lemma for each kind of step:
one that commits nothing, and one per commit, which is matched with the ledger's action of its name. For the
circle: locks are taken in one order (merchant before customer, the row before the balance), so a session that
holds a lock and waits for another never waits for one that waits itself (`ChainsAreShort`), and who waits for a
connection holds no lock. What is left is a set of sessions that all want a connection and hold all there are:
these are probes.

`MongoProofs` proves the same questions of `MongoStore!Spec`, where there are no locks:

| Theorem | States |
|---|---|
| `TypeCorrect` | `[]TypeOK` |
| `NothingPointedAt` | `[]NeverPointsAtNothing` |
| `BackendImplementsLedger` | `ImplementsLedgerWithDebts` |
| `OkIsDone` | `OkMeansDone` |
| `BackendKeepsTheBooks` | balances plus debts reconcile and their reports add up; with nothing owed, these are the stored balances |

Its `IInv` rests on `OwedIsSettled` and `CreditedStays`: the conditional flip finds a row that was not flipped
before, hence owes nothing, so the debt it leaves is new; and on `CreditsPending`: a session about to
`$inc` owns its debt and no two own the same one, so each is posted at most once. Paying a debt moves a posting from one total to
another and leaves their sum, the ledger's balance, as it was (`ChooseOne` and the lemmas after it).

`ApiProofs` proves of `Api!Spec`, for any set of requests, actors, calls and keys:

| Theorem | States |
|---|---|
| `HandlersFitTheMiddleware` | `ImplementsIdempotency`: the real handlers are among those `Idempotency` allows |
| `WritesAreEntitled` | `[]EffectsAreEntitled` |
| `SuccessIsKept` | `[]SuccessMeansDone` |
| `RoutesKeepTheBooks` | every step of the routes is a step of `Ledger` or leaves its tables alone, so its invariants hold under them and the reports add up |

From the assumptions that the requests sent are among those of the routes, that there is room for the rows of the
initial state, and those of `Idempotency` about keys and records. `ApiInv` contains the
invariant of `Idempotency` and adds: a call that has checked its owner still owns the row when it writes, since rows
never go away and never change hands (`CheckedOwn`); each committed call's row is still there, in a status from
which no other call could have written it (`EffectsDone`, `RowsOfTheirOwn`); and a success is that of a
committed call (`SuccessesCommitted`). A replay is then covered by `IdempotencyInv`: the record's
author is committed and asked for the same body.

`WorkerProofs` proves of `Cycler!Spec`, for any number of workers, subscriptions, cycles and
faults, and any calendar of months of 28 to 31 days:

| Theorem | States |
|---|---|
| `TypeCorrect` | `[]TypeOK` |
| `NoCycleSkipped` | `[]NeverSkipsACycle` |
| `ScheduleKept` | `[]OnSchedule` |
| `ChargesAccountedFor` | `[]ChargesBounded` |
| `CancelledIsSkipped` | `[]CancelledSkipped` |
| `CyclesForward` | `CyclesOnlyGoForward` |

From the assumptions that workers and subscriptions are finite and that the calendar covers the days in use. `BatchesHold`
says what a stale batch may hold (a row the table has had, no newer than the table's), and `PaidFirst` that a worker
moves on only what it has charged. The bound on charges is not inductive: `ChargesCounted` counts with each
cycle's charges the workers that may still charge it, and each fault lets one worker back in; `LateCounted` is
the same count for a cancelled subscription. That `Cadence.Advance` always moves forward (`AdvanceFacts` and the
lemmas of the calendar before it) includes the rollover at the end of a month.

and of `FeeSpec`, the specification of `FeeWorker`, for any number of payments, other messages, workers,
releases and faults:

| Theorem | States |
|---|---|
| `FeeTypeCorrect` | `[]FeeTypeOK` |
| `EventsKept` | `[]NoEventLost` |
| `OnlySentPay` | `[]OnlyPublishedPay` |
| `FeeSetOnce` | `FirstFeeStays` |

From the assumptions that payments are finite, amounts positive, surcharges naturals, and neither an undecodable nor a stray message is one of
a payment. `NoEventLost` is kept because a worker reaches a message's delete only with its fee on record
(`SettledFirst`); `OnlyPublishedPay` because a message on the queue or in a batch is one that was sent
(`Traced`). Both have to survive a visibility timeout that puts a message on the queue again
while a worker still has it.

`DashboardProofs` proves, for any number of payments, merchants, timestamps and kinds of payments, pages of any
size, any filters and any number of loads in flight, of `Paging!Spec` and of `DashboardSpec`:

| Theorem | States |
|---|---|
| `StayersShownOnce` | `Spec => []EachShownOnce` |
| `AdjoiningVolumesAddUp` | `Spec => []VolumesAddUp` |
| `TypeCorrect` | `DashboardSpec => []DashboardTypeOK` |
| `ScreenListsOneMerchant` | `DashboardSpec => []ScreenIsOneListing` |

From the assumptions that a page has a row, bounds and amounts are naturals, filters are among those the query
parameters can express, the empty cursor is no row's key and the empty merchant filter no merchant.
`PagingInv` says that what a walk has shown it has shown once and lies at or above its cursor (`ShownAbove`), and
that the steady rows still match the filter (`SteadyMatch`). The argument: rows get their key when they are drawn
and keep it, keys are totally ordered (`OlderIsAnOrder`), so a steady row stays on its side of the cursor, and the next
page begins strictly below it; a row committed late, behind the cursor, is not a steady one.
`PageFacts` says what a page is. A dashboard only reads (the lemma `DashboardOnlyReads`), so that what holds of `Spec`
holds behind a screen too. For the screen, `CleanScreen` adds what holds after a merchant was chosen with no load in
flight: at most one load is, it is the chosen merchant's and asks for what lies below the rows (`Current`), and unless the
first page is on its way the rows are exactly the listing down to the cursor (`Listing`).

What the recursive functions compute (totals, the starts of months, the dates of a schedule) is proved by least
counterexample as in `SumLemmas`; the theorems of `Ledger` and `Idempotency` are used by the other modules
through `INSTANCE LedgerProofs` and `INSTANCE IdempotencyProofs`, and are not proved twice.

Only model-checked:

* liveness: `DueGetsCharged`, `PublishedGetsFee` and `QueueDrains` rest on fairness and ENABLED, which the prover does not
  handle;
* the four runs that show a violation, of course: TLC's traces are their evidence.

## Not modelled

* Validation of request fields and query parameters; the handlers of the reports (a role check and a
  default range around the queries of `Paging` and `Reports`).
* The checkout form and the admin and detail pages of `web/`: a request per click, no state kept over it.
* 64-bit overflow of balances and totals: amounts are mathematical integers. That of the fee, `amountMinor * 300`, is
  the subject of `FeesFitTheirWidth` and `OverflowedFeesAreNotPositive`; no action of a model uses the wrapped fee.
* `cmd/fraud-worker` (a stub that idles), `internal/seed` (a sequential caller of the store),
  `internal/config`, `internal/bootstrap`, `deploy/`, `perf/`: no state of their own after start, or
  no logic.
* Migrations other than the shape of the tables; index definitions.

## Plan

Done, in this order: `GripeDomain`, `LedgerRows`, `Ledger` and its proofs; `PostgresStore` and
`MongoStore` with their refinements of `Ledger`; `Idempotency` and its proofs; `Cycler`; `FeeWorker`;
`Paging` and `Dashboard`; `Reports`; `Api`, which composes the middleware with the store;
and the proofs of `PostgresStore`, `MongoStore`, `FeeWorker`, `Cycler`, `Api`, `Paging`, `Dashboard` and `Reports`.

Next:

1. `Money64`: postings and balances modulo 2^64 as well, with the bounds under which they agree with `Ledger`.
2. Compositions: the cycler and the fee-worker over a store whose writes are the steps of
   `PostgresStore` or `MongoStore`.
