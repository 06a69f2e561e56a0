# Formal model of the WasteFi backend

TLA+ modules, TLC configurations and TLAPS proofs for the backend in `src/`
(TypeScript, Express, Prisma on PostgreSQL, Redis, Stellar/Soroban, mobile
money). Paths below are relative to the repository, so the pipeline is
`src/services/onchain-collection.service.ts`; `PROJECT.json` maps every
definition to its source lines.

## 1. Inventory

One Node.js process serves HTTP requests and runs one timer; a second process
may run during a deployment. Nothing is transactional: services read a row,
await something, and write a row.

| Component | State it keeps | Operations | Talks to | What is hard |
| --- | --- | --- | --- | --- |
| On-chain pipeline (`onchain-collection.service.ts`) | `inFlight`, `preparing`, `workPending`, the timer; `chain*` fields of `WasteCollection` | `start`, `kick`, `tick`, `sweep`, `process`, `run` | Soroban client, database | crash between any two of its steps, overlapping sweeps, retries against a ledger that already acted |
| Soroban client (`soroban.service.ts`) | `queues`: one promise chain per signer | `invoke`, `lookup`, `read`, `ensureAccount`, `serialize` | RPC node | sequence numbers, a transaction accepted and not confirmed |
| Collections (`waste-collection.service.ts`) | `WasteCollection` rows | `recordCollection`, `verifyCollection`, `addImages`, `deleteCollection`, reports | pipeline, cache | check-then-write by two reviewers, deletion under the pipeline |
| Collector readiness (`readyCollector`, `ensureRegistered`, `ensurePointAddress`, `createUserWallet`, `ensureAccount`) | `User.stellar*`, `CollectionPoint.stellarAddress`, the registry | create wallet, fund, register, activate | Horizon, RPC node, database | two wallets for one user, half a registration |
| Payments (`payment.service.ts`, `stellar.service.ts`) | `Transaction` rows, `paymentStatus` | pay, retry, withdraw, cancel, callback | Stellar, mobile money | double payment, late and duplicate callbacks, no reservation |
| Mobile money (`mobile-money/`) | provider tokens | pay, withdraw, query, callback formats | three HTTP APIs | which reference the callback carries back |
| Users and authentication (`user.service.ts`, `auth.service.ts`) | `User`, `ApiKey` rows | register, log in, profile, KYC, status | JWT | two statuses in one row, tokens that outlive it, a profile update that may write any column |
| Bootstrap (`bootstrap.service.ts`) | none of its own | first admin, demo data, wallet secrets | all rows | check-then-create at boot |
| Material passports (`material-passport.service.ts`, `recyclegraph.service.ts`) | `MaterialPassport` rows | create, custody, verify | RecycleGraph | read-modify-write of JSON, two systems that disagree |
| Collection points | `CollectionPoint` rows | CRUD | - | deletion while in use |
| Backups (`backup.service.ts`) | metadata file, backup files | create, restore, delete, clean up | disk | read-modify-write of a file, retention |
| Cache, locks, limits (`redis.service.ts`, `cache.util.ts`, the limiters) | Redis keys | get, set, lock, count | Redis | stale entries, lock without ownership, counter at its limit |
| Public figures (`public-stats.service.ts`) | `cache` in the process | `getStats` | database | queries that end in any order fill one cache |
| Controllers and routes | none | authorise, call one service, format | services | in the model of the service they call |
| WebSocket, notifications, SMS, email, metrics, admin reports | connections, counters | send, count, format | clients | nothing reads their state back; not modelled |

What makes each correct:

* pipeline: at most one call of `process()` per collection; a row never claims
  more than the ledger holds; its ledger id is never replaced; WASTE is minted
  for one record of a collection; PAID is not lost to a call that knows of it; an
  idle server stops querying;
* Soroban client: one submission per signer at a time, and a failed one does
  not block the next;
* collector readiness: a stored secret belongs to the stored public key unless its
  user wrote one of them, a collector that is called ready is funded and active,
  and a second registration follows a failure or a restart only;
* payments: what was paid is booked and what is COMPLETED was paid; a callback
  settles the row of its own order or of its retry; a withdrawal that is reported was
  paid out, or is a retry;
* users: a role, a status and an approval are changed by the staff, and otherwise by
  the user's own profile update only; a token tells the role its account has;
* passports, images: an entry is lost only to a request of its own kind that
  overlaps; RecycleGraph lags only when it failed;
* backups: the catalog lists what is there, what is restored was whole;
* cache and limits: no key stays for good, a limit limits, figures are recent.

`PROJECT.json` lists the hazards with their lines.

## 2. Plan

| Order | Module | Content | State |
| --- | --- | --- | --- |
| 1 | `SorobanLedger` | network and contracts as the backend uses them (external) | done |
| 2 | `OnChainCollection` (extends 1) | pipeline, client, review and deletion | done |
| 3 | `CollectionPayout` | abstract specification, implemented by 2 | done |
| 4 | `OnChainCollection_proofs` | invariants of 2, and that it implements 3, for every constant | done |
| 5 | `MobileMoney`, `Payments` (extends it), `MCPayments` | rows under payment, review, withdrawal, retry, cancellation, callbacks; the providers' orders | done |
| 6 | `Service` | what the next five share: requests being served, and the bounds | done |
| 7 | `Wallets` | wallets, funding, registration, point addresses, re-encryption, and the updates that write the same columns | done |
| 8 | `Accounts` | registration, tokens, profiles, KYC, status, pictures, API keys, first administrator | done |
| 9 | `Custody` | collections at points, images, demo queue, passports and RecycleGraph | done |
| 10 | `Platform` | rate limiters, public figures, cache-aside, lock | done |
| 11 | `Backups` | dumps, metadata file, cleanup, restore | done |
| 12 | `MCAccounts` (extends 8), `MCServices` (extends 7 and 9-11) | an instance of each | done |
| 13 | `Payments_proofs`, `Wallets_proofs`, `Accounts_proofs`, `Custody_proofs`, `Platform_proofs`, `Backups_proofs` | every safety and action property of 5 and 7-11 that a run checks, for every constant | done |
| 14 | `MCServices_proofs` | that `MCServices` is its parts, so that 13 holds of it | done |

A module of proofs extends the module it is about and holds nothing but
invariants, lemmas and theorems. No module of the project declares a RECURSIVE
operator.

## 3. The modules

**`SorobanLedger`**. The contracts are not in the repository, so this module
says no more than the callers rely on: a transaction is pending until it is
included, overtaken (another one used its sequence number) or past its 60
second bound; inclusion, successful or reverted, uses the sequence number up;
`waste_transaction` refuses the same collector, material and weight within five
minutes (`bootstrap.service.ts:202-203` relies on that). Where a contract may
refuse or tolerate a call that is already in effect (`Repeats`), it may do
either. A ledger id is written as the index of the transaction that made the
record, a hash as an index into `txs`.

**`OnChainCollection`**. JavaScript runs to the next `await` without
interruption, so an action is what happens between two awaits. A *worker* is
one running call of `process()`: each timer tick awaits at most one, so it has
the slot named after the sweep, and each approval starts one with `kick()`, in
the slot named after the collection.

| Code | Model |
| --- | --- |
| `inFlight`, `workPending`, `SorobanService.queues` | `inFlight`, `workPending`, `queue` |
| local variables of `process`/`run` and the await they wait at | `worker[w]` (`at`, `coll`, `call`, `id`, `hash`) |
| `tick()` and its list | `sweep[s]` (`Tick`, `List`, `ListFails`, `SweepNext`, `SweepEnds`) |
| `process()`: `inFlight` check, `findUnique`, catch, finally | `Process`, `ReadRow`, `Throw` with `CatchSave`/`CatchFails`, `Release` |
| `run()` step by step | `Resume`, `SaveRecorded`, `SaveVerified`, `SavePaymentId`, `SavePaid`, `SaveFails` |
| `invoke()` | `Enqueue`, `Submit`, `SubmitRefused`, `SubmitUnanswered`, `SaveHash`, `Confirmed`, `NotConfirmed`, `Dequeue` |
| `verifyCollection`, `deleteCollection` | `VerifyRead`, then `Approve`/`Reject`/`ReviewFails`; `Delete` |
| `orderBy updatedAt`, `take` | `newer`: which rows were written later; `IsDueList` |
| process exit and `start()` | `CrashRestart` |
| a rejected promise of any awaited call | `Fault` |

Awaits that share an action (no other step can tell them apart, each action says
why): `getAccount`, `prepareTransaction` and `sendTransaction`; a read-only
simulation and the save beside it; the write of an approval and `kick()`.
`readyCollector` and `ensurePointAddress` succeed or fail as one step. Amounts,
weights, error texts and the two hashes nobody reads back are left out.

**`CollectionPayout`**. The promise free of mechanism: a collection takes one
ledger record that no other has, the record is verified before WASTE is minted
for it, WASTE is minted once and for nothing else, and the reported status is
never ahead of it. `OnChainCollection!ImplementsPayout` states the refinement;
the mapping is in the last lines of that module.

**`MCOnChainCollection`** adds the functions a cfg cannot write.

The other modules follow one pattern. A *call* is a request being served: its
operation, the await it waits at, and the local variables it still needs. An
action is what happens between two awaits: a row is read, something is awaited,
a row is written, and nothing in the code spans them with a transaction. A
handler that fails ends its call, a restart ends all of them. **`Service`** has
the set of calls and the bounds.

**`MobileMoney`** is external: an accepted request becomes an order, the
provider settles it once and may call back never, once or more often. What the
module takes from the code is by which key the callback names the transaction,
for each of the six requests: M-Pesa's collection by the reference it answered
with, MTN's collection and both of Airtel's by the transaction's id, M-Pesa's
and MTN's payouts by nothing the backend kept.

**`Payments`** (`payment.service.ts`, `payment.controller.ts`)

| Code | Model |
| --- | --- |
| `WasteCollection.paymentStatus`, `verifiedAt`, `transactionId`; `Transaction` | `collection`, `rows` |
| payments submitted to Horizon | `sent` |
| `processCollectionPayment` | `CheckPayable`, `SendPayment`, `BookPayment`, `MarkPaid`, `MarkUnpaid` |
| `processWithdrawal` | `CheckBalance`, `CreateWithdrawal`, `Disburse`, `WritePending`, `WriteFailed` |
| `retryPayment`, then `processPayment` | `CheckFailed`, `ResetRow`, `CreatePayment`, `Collect`, `WriteReference`, `WriteOutcome` |
| `cancelTransaction` | `CheckPending`, `WriteCancelled` |
| `processMobileMoneyCallback` | `ReceiveCallback`, `MatchReference`, `FindTransaction`, `WriteSettled` |
| `getPaymentStatistics` | `Statistics` |

The type of a row is kept, because the statistics group by it and a retry copies it:
a withdrawal that failed is retried as a row of type WITHDRAWAL for which the
provider is asked to collect. Two history fields say which operation created a row
and which row its retries began with.

A balance is a choice: enough or not. Amounts, currencies and exchange rates are
left out, and so is `processStellarPayment`, which no request reaches (a STELLAR
row is created COMPLETED, and only failed rows are retried).

**`Wallets`** (`stellar.service.ts`, `onchain-collection.service.ts`,
`bootstrap.service.ts`). A key is the number of the key pair made for a user. The
three callers of `createUserWallet` differ in what they do before and after
(`FetchWallet`, `WithWallet`); `readyCollector` goes on with `EnsureAccount`,
`CheckActive`, `CheckExists`, `RegisterCollector`, `ActivateCollector`, and its
`preparing` map is `preparing`: a call that finds an entry shares the answer.
`migrateWalletSecrets` reads the old secrets and re-encrypts them one by one
while requests are served, perhaps under another JWT secret than they were sealed
with. The network is a testnet, where Friendbot funds. An invocation is simulated and
sent (`Invoke`), then confirmed or given up (`Confirm`, `GiveUp`); what was given up,
or left by a restart, may be included at any later time or never (`Settle`), as it is
until its time bound. `EditWallet` and `EditPoint` are the two updates that spread the
request's body into a row: a user may write `stellarPublicKey` (null, a key of its
own, one of its former keys) or `stellarSecretKey` (anything, which decrypts to no
key), an administrator the point's `stellarAddress`.

**`Accounts`** (`auth.service.ts`, `auth.middleware.ts`, `user.service.ts`,
`bootstrap.service.ts`). A user is a phone number; a token is what is read back
from it. Every protected request passes `Authenticate` (status of the row, role
of the token) before its handler reads the row, checks it, writes and logs.
`updateProfile` reads nothing: `WriteProfile` writes the column its body names, role,
status, KYC status or picture, to any value of its type, because neither `validate`
nor the service takes out what the route does not expect. `edited` is a history of who
wrote what, by which the properties excuse what a user did to its own row.
`ensureInitialAdmin` runs as a request, since a second server may start at any
time.

**`Custody`** (`waste-collection.service.ts`, `collection-point.service.ts`,
`material-passport.service.ts`, `recyclegraph.service.ts`, `topUpDemoQueue`).
Images and entries of a chain of custody are the numbers of the requests that
added them, so that a lost one can be named. RecycleGraph is a second copy that
may fail before or after it acted.

**`Platform`** (the limiters, `public-stats.service.ts`, `cache.util.ts`,
`redis.service.ts`) has a clock. Commands to Redis may fail, the connection may
come and go, and what the process holds is lost by a restart.

**`Backups`** (`backup.service.ts`). A dump is named by its number. The metadata
is a set of entries: each reader of the file sorts or filters it, and a dump is
entered once. The file is emptied before it is written, and two writes at once may
leave what cannot be parsed (`Truncate`, `WriteOutcomes`).

**`MCServices`** puts wallets, custody, platform and backups side by side. They share
no variable but the bounds, so an execution picks one of them (`component`) and runs
it alone. **`MCAccounts`** is an instance of the accounts, which have a run of their
own.

A definition whose name extends another one's and whose comment begins with
"Mutant of" is a plausible mistake in the code; `PROJECT.json` says which
property refutes it, and no specification uses it.

## 4. Runs

| Run | Expect | Instance | Shows |
| --- | --- | --- | --- |
| `two_collections` | pass | two bags of one collector, one queued at the start, one review each, one restart | mutual exclusion per collection and per signer, PAID is final without failures, refinement of `CollectionPayout` |
| `lone_collection` | pass | one bag, two reviewers, deletion, two failures of any kind, one restart | the row is backed by the ledger, one record is paid, the ledger id is kept, PAID is lost to an approval or to a call that never saw the row |
| `progress` | pass | two identical bags, two overlapping sweeps of one row each, no failures | with fairness the server comes to rest |
| `payments` | pass | one collection, two requests at a time of three, M-Pesa and Airtel configured, two deliveries of a callback, one failure or one restart | what is COMPLETED was paid and is booked, callbacks settle their own row or its retry, an answer of success is true, what is reported as withdrawn was paid out or is a retry |
| `services` | pass | for each of four parts: two requests at a time of three, one failure or one restart | see below |
| `accounts` | pass | the accounts, with the same bounds | see below |
| `recorded_twice` | violation | one bag, one restart | finding 1 |
| `lost_wakeup` | violation | one bag approved while a sweep finds nothing, one failure | finding 2 |
| `attempts_exceeded` | violation | one bag, two overlapping sweeps, six failures, the five attempts of the code | finding 3 |
| `callback_overtaken` | violation | one withdrawal and its callback, nothing fails | finding 4 |
| `withdrawn_unpaid` | violation | one withdrawal that fails and is retried | finding 5 |
| `newest_deleted` | violation | two backups, one to be kept, one request at a time | finding 6 |

Bounds, all named constants: `Sweeps` (how many ticks may overlap; two are
enough for every pair of interleaved sweeps), `Batch` (`SWEEP_BATCH`),
`MaxAttempts` (two instead of five except in `attempts_exceeded`: first failure,
retry, limit), `MaxReviews`, `MaxFaults`, `MaxCrashes`. `Collections` has two
members where collections share a signer's queue or the duplicate window, and
one where the run spends its states on failures. The faults of a run may hit any
await, any pending transaction and any query. `CHECK_DEADLOCK` is off: an idle
server waits for requests.

`services` checks, of the wallets: `WalletIsWhole`, `WalletsBounded`,
`ReadyIsActive`, `RegistersOnce`, `PointAddressKept`; of custody: `PassportsBounded`,
`GraphLagsOnlyByFailure`, `LostToOverlapOnly`, `RevokedByOutageOnly`,
`DemoQueueBounded`; of the platform: `LimiterHolds`, `PublicFiguresAreRecent`,
`KeysExpire`; of the backups: `RestoredIsWhole`, `CatalogIsTrue`. `accounts` checks
`RoleIsItsUsers`, `TokensMatchAccounts`, `ActivatedByStaff`, `ApprovalIsKept`,
`PictureExists`, `RevokedForGood`; it has more states than the other four together.
Several say how
far a race the code does not prevent can go: as many wallets or passports as
requests overlap, a lost entry only through another of its kind, and no more.

Bounds of these runs: `Calls` (two: each property is about what one request does
to another between its read and its write), `MaxRequests` (three: two that overlap
and one that set the stage or looks afterwards), `MaxFaults`, `MaxCrashes` and
their sum `MaxTroubles`. `Calls` are alike, hence `SYMMETRY`. `MaxTime` is three
with a `WindowMs` of one and a `TTL` of two, so that windows and entries end within
a run; `MaxPerWindow` and `MaxBackups` are one, `DemoSize` two, so that each limit
is met. There is one user with or without a wallet, one collection point, and of
three phone numbers one is a verifier's, one a collector's and one free, which is
also the administrator's. `MaxDeliveries` is two in `payments`: a callback and its
duplicate, which may find the row of a retry by the reference both have.
`MemoLimit` is 64 there, not the 28 of Stellar: with the real limit no collection is
ever paid (`NothingIsEverPaid`, section 6), and `PaymentsAreBooked` and
`CompletedIsBacked` would hold because nothing is sent. They say what is true once the
memo is repaired; the other properties of the run do not depend on it.

**Fairness** (`FairSpec`, the runs `progress` and `lost_wakeup`):
the event loop never stays idle while some call can go on; `setInterval` keeps
firing; the network keeps including or dropping what is pending. Nothing obliges
a reviewer to act, a fault to happen or the server to restart. Fairness is per
kind, not per worker: that is all a single event loop promises here, and all
that `ComesToRest` needs.

## 5. What the checks found

1. **Recorded twice** (`soroban.service.ts:130`). The hash is stored after
   `sendTransaction` returned. A crash in between loses the only trace of the
   record; when the duplicate window is over, the next attempt records again.
   `MintedForOneRecord` still holds: only the record named by the row is paid.
2. **Lost wake-up** (`onchain-collection.service.ts:109`). `tick()` overwrites
   the `workPending` that `kick()` set while its query was running.
3. **Attempts exceeded** (`onchain-collection.service.ts:133`). `README.md:84-85` and
   the comment at line 48 promise at most five attempts, but only the sweep's query
   looks at their number. A sweep whose calls fail slowly outlasts the minute, and the
   next one lists a row again that the first has yet to try. There is no bound at all
   with two sweeps; a second approval exceeds the limit as well.
4. **Callback overtaken** (`payment.service.ts:540`). `processWithdrawal` writes
   PENDING after the provider answered. A callback that came first is overwritten,
   `completedAt` stays, and the withdrawal remains PENDING.
5. **Withdrawn, not paid out** (`payment.service.ts:184`, `:440`). The retry of a
   withdrawal asks the customer for the money (`processPayment` collects) through a new
   row of type WITHDRAWAL, which is COMPLETED as soon as the request was accepted. The
   statistics group by type and count it as withdrawn. `ReportedIsPaidOut` says that
   this is the only way.
6. **Newest deleted** (`backup.service.ts:217`). The list is sorted newest first
   and the loop deletes from its beginning until few enough are left: a backup in
   excess is deleted as soon as it was made.

Also proved, in general: **paid, then failed** (`onchain-collection.service.ts:154`;
the catch block writes FAILED whatever the status was, and `PaidIsLostUnseen` shows
that a failing `findUnique` with a list older than the payment is the only way), and
**never paid** (`stellar.service.ts:263`; the memo of a payment has 38 bytes, a Stellar
text memo holds 28, so `addMemo` throws and every collection the payment endpoint is
asked for becomes FAILED: `NothingIsEverPaid`. The pipeline pays by another way).

Seen while modelling, without a run of their own:

* pipeline: a transaction given up by the poll, or left by a crash, is still
  pending when the next one of its signer takes the same sequence number
  (`soroban.service.ts:43` says they never race); a lost answer of `sendTransaction`
  leaves a record whose hash is unknown, every retry within the five minute window is
  refused, and five retries take five minutes; a rejection written after an approval
  does not stop the payment;
  two identical bags within five minutes can use up the second one's attempts;
* payments: two payments of one collection at the same time are both sent; a
  rejected collection is payable (`verifiedAt` is set by a rejection); a callback
  is applied to a row of any status, a duplicate like the first, though
  `docs/MOBILE_MONEY.md:350-351` says PENDING ones only and asks for idempotency; the
  callbacks of M-Pesa's and MTN's payouts match nothing; a retry leaves the old row
  PENDING for good; a withdrawal never takes XLM from the wallet;
* wallets: requests that overlap give a user a second wallet, and what is on the
  first one is out of reach; a user whose columns a profile update cleared gets a new
  wallet at the next request; a collector whose registration was given up is
  registered again while the first one may still land;
* accounts: `updateProfile` writes whatever columns its body names, role, status and
  KYC status among them, so that what the routes and `requireRole` promise rests on
  what clients send; `updateUserStatus`, `verifyKYC` and a profile update that was
  authenticated before a ban reactivate a banned account, though
  `docs/USER_MANAGEMENT.md:274` says such a user cannot be reactivated; an
  administrator's update of a collection point may replace its `stellarAddress`;
* custody: verifying a collection point that was deleted brings it back; an inactive
  demo point stops the top-up; an outage of RecycleGraph clears an earlier
  verification and sets carbon credits to zero;
* platform: the Redis limiter and the lock are used by nothing; the limiter's
  `remaining` is never negative, so it would refuse nobody, and the lock is set
  without NX, so it would exclude nobody;
* backups: one torn or failed read of the metadata loses every entry; an entry whose
  file is gone ends every cleanup; `verifyOnly` tests a `pg_dump -F c` file with
  `gzip -t`.

## 6. What is proved

With TLAPS, for every value of the constants: any collections, sweeps, users and
requests at a time, and every bound. The assumptions are those the modules declare,
and TLC evaluates each of them on a run:

* the pipeline: `LedgerAssumption` and `PipelineAssumption` (each collection has a
  collector and a record key, the administrator is no collector, sweeps are not
  collections, the bounds are numbers);
* every other part: `ServiceAssumption` (the bounds are numbers) and
  `CallsAreFinite` (at a time the server serves finitely many requests, and some);
* their own: `ProviderAssumption` and `PaymentAssumption`, `WalletAssumption`,
  `AccountAssumption` and `RowsAssumption`, `CustodyAssumption`,
  `PlatformAssumption` and `WindowsAssumption`, `BackupAssumption`. They say that
  limits are numbers, that `Nil` is none of the values it stands beside, and that
  the accounts of the start are rows without a picture.

A row with a name in its third column states a property that a run checks (one that
is expected to be violated, for `RecordedOnce`): every invariant and every action
property of every run with `pass` is there. The type
invariants of four parts are the cases of `ServicesTypeOK`; the other rows say in
words what they state. A hypothesis beyond the assumptions is in the
last column.

| Module | Theorem | Property | If |
| --- | --- | --- | --- |
| `OnChainCollection_proofs` | `TypeCorrect` | `TypeOK` | |
| | `SignersAreSerialized` | `OneSubmissionPerSigner` | |
| | `CallsAreExclusive` | `OneWorkerPerCollection` | |
| | `PaidIsLostUnseen` | `PaidIsLostBlindly` | |
| | `PaidStaysPaid` | `PaidIsFinal` | `MaxFaults = 0` |
| | `StatusIsBacked` | `StatusBackedByLedger` | |
| | `OneRecordIsPaid` | `MintedForOneRecord` | |
| | `IdsAreKept` | `LedgerIdKept` | |
| | `PipelineImplementsPayout` | `ImplementsPayout` | |
| | `RecordsAreBounded` | a collection has one record, and one more per failed call and restart at most | |
| | `RecordedOnceWithoutMishaps` | `RecordedOnce` | `MaxFaults = 0`, `MaxCrashes = 0` |
| `Payments_proofs` | `PaymentsTypes` | `TypeOK` | |
| | `CompletedIsAlwaysBacked` | `CompletedIsBacked` | |
| | `PaymentsAreAlwaysBooked` | `PaymentsAreBooked` | |
| | `RowsAreOrderedOnce` | `OneOrderPerRow` | |
| | `ReportedIsAlwaysPaidOut` | `ReportedIsPaidOut` | |
| | `SuccessIsAlwaysTrue` | `SuccessIsTrue` | |
| | `CallbacksSettleTheirRows` | `CallbackSettlesItsRow` | |
| | `NothingIsEverPaid` | no collection is paid or COMPLETED | `MemoLimit = 28` |
| | `OnlyAirtelWithdrawalsComplete` | a row of type WITHDRAWAL that is COMPLETED is Airtel's, and Airtel is configured, or it is a retry that was accepted | |
| `Wallets_proofs` | `WalletTypes` | `WalletTypeOK` | |
| | `WalletsStayWhole` | `WalletIsWhole` | |
| | `WalletsStayBounded` | `WalletsBounded` | |
| | `AnsweredIsActive` | `ReadyIsActive` | |
| | `RegisteredOnceOnly` | `RegistersOnce` | |
| | `OneAddressPerPoint` | `PointAddressKept` | |
| `Accounts_proofs` | `AccountTypes` | `AccountTypeOK` | |
| | `TokensAreTrue` | `TokensMatchAccounts` | |
| | `PicturesAreThere` | `PictureExists` | |
| | `RolesAreTheirUsers` | `RoleIsItsUsers` | |
| | `StaffActivates` | `ActivatedByStaff` | |
| | `ApprovalsAreKept` | `ApprovalIsKept` | |
| | `RevokedStaysRevoked` | `RevokedForGood` | |
| `Custody_proofs` | `CustodyTypes` | `CustodyTypeOK` | |
| | `PassportsStayBounded` | `PassportsBounded` | |
| | `CopiesAreTold` | `GraphLagsOnlyByFailure` | |
| | `LossesAreOverlaps` | `LostToOverlapOnly` | |
| | `RevocationsFollowOutages` | `RevokedByOutageOnly` | |
| | `DemoQueueStaysBounded` | `DemoQueueBounded` | |
| `Platform_proofs` | `PlatformTypes` | `PlatformTypeOK` | |
| | `LimiterAlwaysHolds` | `LimiterHolds` | |
| | `FiguresAreRecent` | `PublicFiguresAreRecent` | |
| | `EveryKeyExpires` | `KeysExpire` | |
| `Backups_proofs` | `BackupTypes` | `BackupTypeOK` | |
| | `RestoredAreWhole` | `RestoredIsWhole` | |
| | `CatalogIsAlwaysTrue` | `CatalogIsTrue` | |
| `MCServices_proofs` | `ServicesAreParts` | an execution of `MCServices` is one of one of its four parts | |
| | `ServicesTypes` | `ServicesTypeOK` | |

The hypotheses, none of which the code guarantees:

* `MaxFaults = 0`: no awaited call fails. A single failure refutes `PaidIsFinal`;
  restarts, deletions and overlapping sweeps do not.
  `PaidIsLostUnseen` needs no hypothesis: whatever else fails, only a catch block that
  never saw the row writes over PAID.
* `MaxCrashes = 0`, with `MaxFaults = 0`: the server stays up too. One restart
  refutes `RecordedOnce` (finding 1). `RecordsAreBounded` needs no hypothesis and
  counts what the mishaps can cost: a second record for one of them, a third for two.
* `MemoLimit = 28`: Stellar's real limit, which the code does meet. The theorem says
  that then nothing is ever paid, in any instance.

### Inductive invariants of the pipeline

None of the properties is inductive. `IInv == TypeInv /\ CallInv /\ MoneyInv`:

* `TypeInv`: `TypeOK` and `WorkerShape`. That `Confirmed` leaves a worker in a
  stage needs its call to be one of the four, and that `Dequeue` keeps a sequence
  needs the worker to be the head of a nonempty queue. `WorkerShape` says both,
  and so contains the exclusion of submissions.
* `CallInv`: where each call is counted in `inFlight`, and that the slot of
  `kick(c)` only ever runs `c`, which is why it is free whenever `c` is not in
  flight. Three lemmas (a call starts, goes on, returns) carry every action.
* `MoneyInv`: what each of the three parties knows of the ledger. A *row*
  (`RowOK`) names a record of its own collection and is backed by it. A
  *transaction* (`TxOK`) that is not a record is about the record its row names,
  even when its sender has crashed and it is included long afterwards. A *worker*
  (`WorkerOK`) that waits between two awaits holds the id its row has; this is
  where a stale local variable would show, and it holds because `inFlight` lets
  no second call write the row's id meanwhile (`CallInv`). `OwnRecords` says that
  only records named by rows are verified or paid, which the rest needs when a
  collection is recorded a second time (finding 1).

The refinement takes one more case split: a step of the pipeline writes a row
with a new ledger id (`Record`), writes one whose status is true (`Report`), is
the inclusion of a verification (`Verify`) or of a payment's completion
(`Mint`), or changes nothing `CollectionPayout` sees. That a new id is no other
row's, and was not verified before, is `RowOK` with `OwnRecords`.

`BusyInv` (for `PaidIsLostUnseen`, and so for `PaidIsFinal`; relative to `TypeInv` and
`CallInv`) says that a call past its reading found its row unpaid, and the row stays
so, because only that call pays it; or the call is *blind*: its `findUnique` threw,
which costs a failure, and all it does is write FAILED. Since such a call may come at
any time, what remains of `PaidIsFinal` in general is who takes PAID away.

`RecordInv` (for `RecordsAreBounded`, relative to `IInv`) counts the records of a
collection that are on the ledger or pending (`Live`). There are never more than one
and the mishaps so far, and no more than the mishaps unless the row shows the last one
or a call is still recording it (`RowCounts`). A call that is about to record knows
the latter of its own row (`WorkerCounts`): what it does not see was paid for by the
failure or the restart that lost its hash.

### Inductive invariants of the other parts

They have one form: what each waiting request knows, stated by the await it waits
at (`CallsFit`, `WalletCallsFit`, `InPlace`, ...), beside what the rows promise. Each
was checked by TLC as an invariant before it was proved.

* `Payments`: `IInv` has the types, what each row, order and request fits, and that
  a row has one order, asked for by one request (`AskAlone`): a retry makes a new
  row before it asks. `TraceInv` follows the retries: which row a reference was placed
  for (`PlacedFor`), to which chain of retries a row and a callback that has found it
  belong (`CallTraced`), that a *mute* row (a payout whose callback matches nothing) is
  never settled, and that a completed retry was asked for by `Collect`. From it come
  `CallbackSettlesItsRow`, `ReportedIsPaidOut` and `OnlyAirtelWithdrawalsComplete`.
  `PaymentsAreBooked` is a count: payments of a collection that have no row are as many
  as the requests about to book one and those that failed, at most.
* `Wallets`: `WInv` says what a request that has looked at a user's columns may rely
  on when it writes them, and that a user's `preparing` entry is the one call that
  registers it (`PreparedBy`), and that an invocation that may still land was left by a failure or a restart
  (`LateFits`): together they give `RegistersOnce`. A user that never wrote its columns
  has a whole wallet; of one that did nothing is promised. `KeysFit` counts: each write
  of its own may cost a user as many keys as there are requests at a time, and one more
  (`Spent`).
* `Accounts`: `AInv` carries the role from the row to the token of a request that
  waits in between, unless its user wrote the column (`edited`). `PicInv` keeps the file
  a pending upload is about to name apart from every other, of files and of names.
* `Custody`: `CInv` has the types and what rows and requests fit. `GraphInv` says
  without failures which entries a request still has to tell RecycleGraph.
  `PassportsFit` and `QueueFits` are counts of what is there and what requests that
  have already looked are still about to add.
* `Platform`: `RecentInv` dates what a query reads no earlier than its start.
  `OthersEnd` and `ExpiryInv`: a key has no expiry only between the two commands of
  `incrementRateLimit`. `LimitInv` counts the requests let pass in every interval of
  a window's length, by windows that begin in it.
* `Backups`: `BInv` says that no list and no request names a dump that was never
  made. `WholeInv` follows a success from `pg_dump` into the metadata, a copy of it
  in a request's memory, and back. `TrueInv` is about a request that is alone
  (`InPlace`): by its await, how the metadata and the files differ, and how many
  dumps too many there are. A cleanup begins with at most one too many, so it ends
  with none, although it need not know which one it should delete (finding 6).

## 7. Only model-checked

Liveness (`ComesToRest`) and the violated properties stay with TLC: the proof
system does not treat fairness and ENABLED here, and a counterexample is a run.
No liveness is stated of the request-driven parts: a request ends by itself as soon
as what it awaits does, and nothing in the code retries it. `RecordedOnce`, which one
run violates, is proved under the hypothesis that excludes its finding.

## 8. Not modelled

* WebSocket, notifications, SMS and email: the senders have no caller, and nothing
  reads their state back. Metrics, logging, administration reports: observation only.
* Validation, formatting and API documentation.
* Pricing, distances, password rules, carbon figures, exchange rates: floating-point
  arithmetic and character classes.
* Of the modelled parts: listings and statistics that only read (but for the two
  that are cached), `createCollectionPoint` (it only adds a point), `ensureDemoData`'s
  accounts and points, the status queries of the providers and the Redis operations
  nobody calls (sessions, hashes, lists, publish/subscribe). The Redis limiter and the
  lock have no caller either, and are modelled.
* Of a profile update: bodies that name more than one of the modelled columns, the id
  or the phone number, relations, or a key or file of another account; the columns no
  modelled decision reads (name, address, e-mail, password hash).
* Of the pipeline: `materialType`, `grams`, `pseudonym`.
* A second server process, but for what `Boot` and the two calls of each part show:
  `preparing` and the caches are one process's.
* The parts are checked apart where they share no decision. Payments meet the
  reviews in `Payments`, the pipeline meets reviews and deletions in
  `OnChainCollection`, which has `readyCollector` as one step; `Wallets` has its
  steps and no pipeline.
