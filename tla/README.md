# FangaBase: formal models

FangaBase is a generator of application bases. A generated project has one
authority for its data, either a standalone Next.js backend
(`packages/backend-next`) or a Laravel server (`apps/server`); both implement the
same contracts (`packages/contracts`). The logic worth specifying is in the
transactional domains: withdrawals and payouts, payments and refunds, outboxes,
sessions, organizations, credits.

Paths below are relative to the repository root. TLA+ names are in `code`.

## 1. Inventory

### Laravel server (`apps/server`)

| Component | State | Operations | What is hard | Correct when |
|---|---|---|---|---|
| Withdrawals (`app/Domain/Withdrawals`) | `withdrawals`, `money_ledger_entries`, `payout_accounts`, `payout_callbacks`, `reconciliation_anomalies`, `outbox_events` | request, cancel, startVerification, approve, suspend, payout worker (claim, process, catch), signed callback, poll and reconcile | several workers with leases of 60 s for a whole batch, rows read without a lock before a provider call, lost replies, crashes between the call and the record, repeated and late callbacks | the ledger tells the same story as the status; final is final; PAID only if the provider paid; money returned is not also paid, unless something went wrong around that withdrawal; only refunds overdraw the balance; an approved withdrawal is resolved |
| Payments (`app/Domain/Payments`) | orders, attempts, refunds, webhook inbox, ledger | checkout, refund, webhook, reconciliation, expiry | provider called inside a transaction, expiry racing a webhook, concurrent partial refunds | paid once, never refunded beyond the payment, credits and subscriptions follow |
| Billing (`app/Domain/Billing`) | credits, subscriptions, entitlements, idempotency records | grant, consume, expire, subscribe, cancel | concurrent consumption, replays, expiry | credits conserved, one effect per idempotency key |
| Mail outbox (`app/Domain/Infrastructure/Mail`) | `email_jobs`, `email_job_attempts` | insert with the request, claim, deliver, record, replay of a DEAD job | counter read before a send and written back after it, overlapping workers, crashes | sent at least once or given up, SENT for ever, history complete |
| Identity (`app/Domain/Identity`) | sessions, one-time tokens, OAuth states, rate limits | login, refresh rotation, logout, token use | two requests with one refresh token, replay of a rotated token | one live descendant, replay ends the family, one-time tokens used once |
| Organizations, administration (`app/Domain/Organizations`, `app/Domain/Administration`) | members, invitations, roles, user status | invite, accept, change role, suspend | concurrent role changes | an organization keeps an owner, the platform a superadmin |

`routes/console.php` schedules the workers every minute (with
`withoutOverlapping`, on one server); the same commands can run as daemons, so
several processes of each kind may be active.

### Next.js backend (`packages/backend-next/src`)

| Component | State | Operations | What is hard | Correct when |
|---|---|---|---|---|
| Transactional store (`store.ts`) | the whole `BackendState`, a promise queue (memory) or a locked row with a revision (PostgreSQL) | transaction, read | a failing or rejected operation in the middle of the queue | all or nothing, one after the other, queue never stuck |
| Outbox worker (`infrastructure.ts`, `common.ts`) | `state.outbox` | enqueue, runOnce (claim, deliver), finish | `finish` does not check the lease, its own failure is taken for a failed delivery | as for the mail outbox |
| Payments (`payments.ts`, `orange-money-ml.ts`) | payments, webhook events, idempotency records | checkout, two webhooks, return page, refund | provider called inside the transaction, reordered notifications | Orange's payments follow what Orange says, refunds match their keys |
| Billing (`billing.ts`) | catalogue, lots of credits, ledger, subscriptions, entitlements, idempotency records | grant, purchase, consume, subscribe, cancel, archive | a consumption spread over lots that expire, two subscriptions of one price | lots agree with the ledger, nobody is entitled without an active subscription |
| Withdrawals (`withdrawals.ts`) | payout accounts, withdrawals, payout events | request, verify, approve, cancel, batch of the scheduler, callback | callbacks of any provider from any status, between requests against the balance | never more promised and paid than earned, but for outcomes a callback overturned |
| Identity (`identity.ts`, `crypto.ts`) | users, sessions with the hashes of their earlier tokens, one-time tokens, rate limits, links with Google | register, login, refresh, logout, reset, change, verify, sign in with Google, change of a user by an administrator, cleanup | rotation and replay, suspension and password change under open sessions, administrators that demote and suspend each other | sessions follow the account, families keep one valid token, a superadmin remains |
| Organizations (`organizations.ts`) | organizations, members, invitations | create, invite, accept, change a role, remove, leave, suspend | an invitation that outlives a change of role | one owner, who only steps down in person |

`router.ts` runs each request in one `store.transaction`; an exception rolls the
whole state back. It finds out whose session a request shows, compares the CSRF
token and asks for the role the contract of the route names
(`packages/contracts/src/index.ts`) before it calls a service. Jobs (`jobs.ts`)
run the outbox worker and the scheduler.

### Generator (`tools/cli/src`)

| Component | State | Operations | What is hard | Correct when |
|---|---|---|---|---|
| Questionnaire (`questions.ts`, `agent-questionnaire.ts`, `config.ts`) | the file of answers | ask, validate, convert, accept | four sets of rules over the same combinations of answers | what passes one passes the next |
| Guided journey (`student-journey.ts`) | the session file | validate, decide, override, quit and resume, technical answers, record generation and evidence | read, change and write of one file by commands that overlap a generation | nothing is generated without a validation and a decision, nothing claimed that does not exist |
| Project generator (`project-generator.ts`) | staging directory, destination, backup | fill, validate, set aside, install, restore | failures and the death of the process between renames | the user's files are not lost (one window apart), a project is complete |
| Commands (`index.ts`) | none | create, journey | several invocations at a time | as above |

### The rest

`packages/core` is an in-memory reference of the same rules. `tools/release`
packages the repository; `apps/web` is a proxy; `packages/conformance` is a test
harness. `PROJECT.json` lists every component with its status, and under `hazards`
each place where the code could go wrong in a way a test would hardly reach, with
the properties that cover it or the reason why none does yet.

Components interact through the database: a domain transaction writes its rows,
its ledger entries and its outbox record together. Workers later read those
rows in transactions of their own; between two transactions they call providers.
Those gaps are where the interleavings of the models come from.

## 2. Modules

| Module | What it is |
|---|---|
| `ReserveContract` | what the withdrawal subsystem promises: an amount is held out of what is free, then returned or spent, once |
| `Payouts` | the Laravel withdrawals: requests, administrators, workers, provider, callbacks, reconciliation |
| `MCPayouts` | amounts and what a behaviour is about, for TLC |
| `Payouts_proofs` | theorems about `Payouts` |
| `DeliveryContract` | what an outbox promises about a message |
| `NextOutbox` | the outbox of the Next.js backend and its workers |
| `NextOutbox_proofs` | theorems about `NextOutbox` |
| `MailWorker`, `MailWorker_proofs` | the e-mail outbox of the Laravel server; theorems about it |
| `NextPayments` | payments of the Next.js backend: checkout, notifications, refund, with Orange Money, Stripe and the local simulator |
| `MCNextPayments` | providers of the payments and symmetry for TLC |
| `FamilyContract` | what rotating sessions promise: one valid token in a family |
| `ServerSessions` | the sessions of the Laravel server: logins, rotation, replay, logout, new passwords, suspension |
| `MCServerSessions` | symmetry for TLC |
| `ServerSessions_proofs` | theorems about `ServerSessions` |
| `ServerBilling` | billing of the Laravel server: lots of credits, their ledger and reservations, subscriptions |
| `ServerPayments` | payments of the Laravel server over its billing: checkout, webhooks, reconciliation, expiry, refunds |
| `MCServerPayments` | what a behaviour is about, the refunds that are asked for and symmetry, for TLC |
| `ServerPayments_proofs` | theorems about `ServerPayments` and `ServerBilling` |
| `NextCommon` | the people the services of the Next.js backend know |
| `NextIdentity` | accounts, sessions, one-time tokens, roles |
| `NextOrganizations` | organizations, members, invitations |
| `NextBilling` | catalogue, credits, subscriptions, entitlements |
| `NextWithdrawals` | withdrawals against what billing's ledger says was earned |
| `NextRoutes` | the contract of the routes that change something: who may call, and whether with a CSRF token |
| `NextRouter` | the composition: requests, authenticated and admitted, the scheduler and time |
| `MCNextRouter` | symmetry for TLC |
| `Next_proofs` | theorems about the Next.js backend: its payments, its services, and the router that composes these |
| `Questionnaire` | the answers, their rules and the configuration they stand for |
| `ProjectGenerator` | the directories of a generation and the steps on them |
| `GuidedJourney` | the session file |
| `CreateCommand` | the composition: the commands create and journey |
| `MCCreateCommand` | files of answers for TLC |
| `CreateCommand_proofs` | theorems about the generator, the journey and the questionnaire |
| `SumLemmas` | lemmas about sums over finite sets, which the proofs about money and credits rest on |

`Payouts` implements `ReserveContract`; `NextOutbox` and `MailWorker` implement
`DeliveryContract`, `ServerSessions` and `NextIdentity` implement `FamilyContract`
(in each of them `Contract == INSTANCE ... WITH ...` and `KeepsContract ==
Contract!Spec`; in `NextIdentity` they are called `Families` and `SessionFamilies`).
`NextRouter` composes `NextIdentity`, `NextOrganizations` and `NextWithdrawals`
(which builds on `NextBilling`), `CreateCommand` composes `Questionnaire`,
`GuidedJourney` and `ProjectGenerator`. `ServerPayments` extends `ServerBilling`: a
payment delivers its credits or its subscription in the transaction that books it,
so billing's steps are part of its own.

### `Payouts`

One owner with one payout account. `status` is the column of that name, `NONE`
before the request; `ledger` is the set of pairs of withdrawal and entry type
(the code's unique idempotency key of an entry makes it a set). The owner's other
entries, of the kinds PAYMENT, ADJUSTMENT_CREDIT and REFUND, only matter by their
sum, `income`; together they are the `Available` of `WithdrawalLedger.php`, which
may fall below zero, since `confirm` of a refund does not look at it. `leased` and
`ready` stand for `claimed_until > now()` and `available_at <= now()`, and the
passage of time is `LeaseExpires` and `BackoffElapses`. Every `DB::transaction`
is one step, because it locks the row it decides on; what the code does between
transactions is a step of its own:

| Code | Actions |
|---|---|
| `WithdrawalService` | `Request`, `Cancel`, `StartVerification`, `Approve`; `ApplyResult` for `applyResult` |
| `PayoutWorker::runOnce` | `Claim`, `ItemDone` |
| `PayoutWorker::process` | `Read` (unlocked), `MarkSent`, `Call` / `CallFails`, `Apply`, `Catch` |
| `PayoutCallbackProcessor` | `Callback` |
| `WithdrawalReconciliationService::run`, `PayoutPollingService` | `ReconPoll`, `ReconApply`, `ReconFresh`, `ReconCompare` |
| `PayoutAccountService`, `PlatformAdministrationService` | `SetAccountStatus`, `SetOwnerActive` |
| `PaymentWebhookProcessor`, `RefundService::confirm` | `IncomeBooked`, `RefundConfirmed`, as far as the balance sees them |
| the provider (external) | `Accept`, `Settle`, `ResultOf`, `SwitchProvider` |

`Hazards` selects what may go wrong around the code: lost replies, refusals,
deactivation, slow workers, cancellation of a claimed withdrawal, suspension.
`mishap` is history: the withdrawals whose accepted payout lost its reply, which a
worker found switched off, whose lease expired in a worker's hands, or which were
cancelled in them; no guard of the code reads it. Crashes of workers are bounded by
`MaxCrashes`. The provider is idempotent on the key the code sends
(`withdrawal:<id>`), and settles what it accepted once.

### `NextOutbox`

`Enqueue` is the part of a request that concerns the outbox. `runOnce` is
`Claim`, then for each message `Deliver` outside any transaction and
`FinishSent` or `FinishFailed`. When the transaction of a successful `finish`
fails, the code's `catch` records a failed delivery (`FinishSentThrows`, then
`FinishFailed`); when the transaction in the `catch` fails, or the process
dies, the rest of the batch waits for the lease (`Abort`). `copies` counts what
the delivery port accepted, `calls` how often it was called. `calls` and
`mishap` are history: no guard reads them.

### `MailWorker`

As above, with the differences of the Laravel code: `deliver` reads the job
without a lock (`Read`) and `Record` writes `attempts` as it was read plus one,
guarded by the status alone. A worker that was overtaken may therefore set the
counter back, so that a job may be sent more often than the maximum; the model
keeps this, and the properties do not claim otherwise. `ReplayDead` is the
administrator's replay.

### `NextPayments`

A request is one transaction of the store (`router.ts`, `store.ts`), which works
on a copy of the state and holds the store, a queue of promises or a locked row,
until it commits or throws. Requests that do not call a provider are one step.
Those that call Orange Money do so in the middle of their transaction; they are
three steps, and `tx` is what the server that runs one has learnt so far.
`StoreFree` is the lock, `Rollback` an exception or the death of the process.

| Code | Actions |
|---|---|
| `PaymentService.checkout` | `CheckoutDirect` (local, Stripe); `CheckoutBegin`, `CheckoutAsk`, `CheckoutCommit` (Orange) |
| `orangeMoneyMlWebhook`, `orangeMoneyMlReturn` | `StatusBegin` (with a body, or `Nothing` for the return page), `StatusAsk`, `StatusCommit` |
| `stripeWebhook` | `StripeWebhook` |
| `refund` | `Refund` |
| the statuses of `OrangeMoneyMlClient` | `Normalized` |
| Orange, Stripe (external) | `Settle`, what is answered in `CheckoutAsk` and `StatusAsk` |

Each payment has one of the three providers, so an application that has several is
one instance. `remote` is what Orange has of a payment: it is final once settled.
`vouched` is history: the payments a completed session of Stripe has named, of
whatever provider, paid or not, since `stripeWebhook` tests neither. Anybody may
send a notification with any body for any payment, which is why the code asks the
provider before it believes one. The model also lets Orange answer something the
client does not know, or an amount or a currency that differs; both become
NEEDS_REVIEW. PROCESSING is counted as PENDING, CANCELLED and EXPIRED as FAILED: no
guard of the code tells them apart.

### `ServerSessions`

One user with the rows of `refresh_sessions` and of `password_reset_codes`. A
row stands for its token, which is stored as a hash only. `phase` of a row sums
up `rotated_at` and `revoked_at` (a rotated row has both), `version` is
`users.session_version`, `stamp` the column of that name in a row, `family` is
`family_id`. `password` numbers the passwords the user has had. `proof` (which
password was shown at the login a row goes back to) and `replayed` (families of
which a replay was answered) are history: no guard reads them.

| Code | Actions |
|---|---|
| `LoginService::login` | `LoginRead` (unlocked), `LoginIssue` |
| `GoogleAccountLinker::link` | `GoogleLogin` |
| `RefreshSessionService::rotate` | `Rotate`; `ReplayBegin`, `ReplayFinish` for a rotated token; `SweepBegin`, `SweepFinish` for a suspended user |
| `logoutCurrent`, `logoutAll` | `Logout`; `LogoutAllBegin`, `Everything` |
| `PasswordResetService::request`, `reset` | `ForgotBegin`, `ForgotFinish`; `ResetBegin`, `Everything` |
| `AuthenticatedAccountService::changePassword` | `ChangeBegin`, `Everything` |
| `PlatformAdministrationService::updateUser` | `SuspendBegin`, `Everything`; `Reactivate` |
| `cleanupExpired`, the clock | `Cleanup`; `SessionExpires`, `ResetExpires` |
| an exception, a deadlock, the death of a process | `Rollback` |

A transaction that only decides on rows it has locked is one step. Those that
end with an UPDATE of all rows of a family or of the user have two, because
which rows such an UPDATE finds is up to the database: with PostgreSQL and READ
COMMITTED those of a snapshot that still match (`isolation` is "snapshot"), with
MySQL or SQLite those that are there (`"current"`); `config/database.php` offers
all three. The first step takes the locks and the snapshot, the second is the
UPDATE with the commit. `tx` is what each request in progress has locked and
read, `UserFree` and `RowFree` are the locks. `isolation` is chosen in `Init`,
so that one run covers both.

### `ServerBilling` and `ServerPayments`

One owner and one price. Credits come in lots with an expiry; `balance` is the sum
of `credit_ledger_entries`, which every operation extends, and `expired` the lots
that have an entry of the scope `expire:<lot>`, which is unique. The moments
`0 .. Horizon` stand for the dates, and one more for no expiry. A lot is named
after the grant or the order it comes from, a subscription after the order or
the request it was created for; `opened` is their order of creation, because
payments and refunds act on the latest one. `touched` is
`last_event_sequence > 0`: an event may then be older than the last, as Stripe's
come in any order.

| Code | Actions |
|---|---|
| `CatalogService::archivePrice`, `serverPrice` | `ArchivePrice`, the guard `offered` |
| `CreditService::purchase`, `administrativeGrant` | `Purchase`, `AdministrativeGrant` (`NewLot`) |
| `reserve`, `settle` | `Reserve` (`Allocations`, `Hold`), `Settle` (`SettleHold`) |
| `summary` with `expire` | `Summary`, `Tick` for the clock |
| `SubscriptionService` | `CreatePending`, `ApplyVerifiedEvent`, `ScheduleCancellation`, `Allowed` for its table |
| `CheckoutService::create` | `Checkout` |
| `PaymentWebhookProcessor::process` | `Process` (`Book`, `Deliver`, `Fail`) |
| `PaymentController::stripeWebhook` | `StripeWebhook` |
| `PaymentReconciliationService::reconcile` | `Ask`, then `Review`, `Reconcile` or `ReconcileEnds` |
| `PaymentMaintenanceService::expirePending` | `CollectOverdue`, then `WriteExpired` or `ExpiryDies` |
| `RefundService::request`, `confirm` | `RequestRefund`, `RefundFails`, `RefundDies`; `Confirm`, `ConfirmFailed` |
| Stripe, Orange Money (external) | `StripeMoves`, `OrangeMoves`, `AnswersOf`, `Returns` |

A transaction that locks the rows it decides on is one step. `reconcile` reads the
order and asks Orange without a lock, and `expirePending` collects orders
without one, so these have a step before and a step after; a reconciliation is
one of `Callers`. An exception leaves nothing and is no step: a webhook whose
success can neither be booked nor was booked is not enabled, and Stripe sends it
again (`sent` keeps it). Stripe sends `completed` for a session that is paid and
for one whose delayed payment was only ordered (`remote` is "ordered"). Nothing
in the repository calls `confirm` but its tests; the model calls it as these do.

### The services of the Next.js backend

A request to these services calls no provider, apart from Google's sign-in,
whose failure throws. It is one transaction of the store, hence one step; one
that throws leaves the state as it was and is no step. Every action below is
such a request seen from the service; `NextRouter` adds what comes before it.

`NextIdentity`. An account is its normalised e-mail address. A session record
keeps the hash of its current token and those of the tokens it had before, so
`session[s]` has `token` and `previous`; the CSRF token is drawn with the refresh
token and shares its name. `proof` (the password a session goes back to) is
history. Sessions that ended and tokens that are spent become "removed" in
`Cleanup`, so that a late replay finds nothing, as in the code.

| Code | Actions |
|---|---|
| `register`, `login`, `changePassword`, `resetPassword`, `confirmEmail` | `Register`, `Login`, `ChangePassword`, `ResetPassword`, `ConfirmEmail` |
| `requestOneTimeToken`, `consumeRateLimit` | `RequestOneTimeToken`, `ConsumeRateLimit`, `WindowPasses` |
| `refresh` | `Refresh`; `Replay` for a token the session had before |
| `logout`, `logoutAll` | `Logout`, `LogoutAll` |
| `startGoogle`, `finishGoogle` | `StartGoogle`, `FinishGoogle` |
| `updateUserStatus` of `organizations.ts` | `UpdateUserStatus` |
| `Scheduler.run`, the clock | `Cleanup`; `SessionExpires`, `LinkExpires` |

`NextOrganizations`. An organization is its slug, which is unique, an invitation
its token. `member[o][u]` is the role of the membership that is not revoked.
`answered` names the invitation the last step accepted and is history. An
invitation replaces the role of whoever accepts it, an owner's too.

`NextBilling` and `NextWithdrawals`. `lots` is in the order of creation, a lot's
place stands for its identifier, and days stand for its expiry. `Used` is what
the loop of `consume` takes from a lot: those that expire first, then the
oldest. `replies` are the scopes of idempotency records; a request that finds
its own is answered from it, which is no step. `Balance` is computed anew for
each request from the credits of the ledger and the withdrawals. `Callback`
takes any outcome for any status from any provider that signs, as the code does;
`overturned` is history: withdrawals that a callback completed after they had been
given up, or failed after they had been completed. `balance()` adds up entries and
withdrawals of every currency and calls the sum XOF, hence there are no currencies
in `Balance`; that of a request is only stored with it (`withdrawals.ts:109`).

`NextRouter`. `Authenticates` is the look-up of a session token, `CsrfMatches`
and `RefreshCsrfMatches` the double submission, `Admitted` what the route's
contract asks for. `area` is a bound of the model and not of the code: it names
the part of the API a behaviour uses, because the services only share accounts
and sessions, and their free product is out of TLC's reach. The theorems of
`Next_proofs` do not depend on it being small: `area` only restricts.

### The generator

`Questionnaire`. `answers` maps each question to a choice, to "undefined" or to
"nonsense". `Asks` is the one question the command asks of those that miss, the
first in `Registry`. `asked` is a bound: either the agent answers what it is asked, or it
writes what it likes (`Rewrite`). `Verdict` is what the command replies.

`ProjectGenerator`. Each `await` of `generateProject` that writes to the
destination or its backup is a step, as are the two looks at the destination
(`Begin`, and `LookAgain`, `SetAside` or `Refuse`); `Fill` sums up all writes to
the staging directory, which nobody else reads. Every step may fail, a removal
half-way, and the process may die at any of them (`Crash`). `UserWrites` is the
user, or a program of his, who writes into an absent or empty destination at any
time, also between the second look at it and its removal (`Clear`). `had` and
`overlooked` are history: that the user had files there, and that those were
removed without having been seen. `SetAside` joins its look to its rename: a
destination that has files keeps some, and nobody else makes backups.

`GuidedJourney`. `status`, `decision`, `override`, `started` (of the technical
questionnaire), `technical`, `generated` and the evidence are the fields that
decide; those that are only reported are left out. A command that reads, changes
and writes the file is a step.

`CreateCommand`. `CreateBegins`, `CreateGoesOn` and `CreateFinishes` are one
generation, with other commands in between: the session is read again when the
result is recorded (`RecordGeneration`).

## 3. What the runs show

| Run | Instance | Properties |
|---|---|---|
| `payouts` | 2 withdrawals of 1, income up to 1 that is booked and refunded, 2 workers, 2 attempts, batches of 2, lost replies, refusals, slow workers, cancellations; or 1 of them with suspensions, deactivations, 2 crashes and 1 reconciliation run besides | `LedgerMatchesStatus`, `PaidOnlyByProvider`, `ContactOnlyAfterApproval`, `OutboxTellsOutcome`, `NoLedgerAnomaly`, `ReturnedIsNotPaid`, `OnlyRefundsOverdraw`, `FinalIsFinal`, `KeepsContract`, `ApprovedIsResolved` |
| `payouts_confirmed` | 1 withdrawal, 1 worker, cancellation after the claim | `ConfirmedPaymentIsRecorded`, violated |
| `next_outbox` | 2 messages, 2 workers, 2 attempts, batches of 2, 1 fault | `CleanDelivery`, `GivenUpAfterAllAttempts`, `KeepsContract`, `EveryMessageSettles` |
| `mail_worker` | 1 job, 2 workers, 3 attempts, 2 crashes | `CleanDelivery`, `AttemptsAreLogged`, `KeepsContract`, `EveryMessageSettles` |
| `next_payments` | 2 orders with Orange, 1 payment with Stripe, 1 local, each of 2; 2 keys for checkouts, 2 for refunds, 1 body, 2 servers | `PaidIsCollected`, `RefundsMatchRecords`, `RecordsAgree`, `NoStaleAnswer` |
| `server_sessions` | 3 rows, 1 token for a new password, 2 requests at a time, 3 versions, both isolations | `UsableHasProof`, `ReplayEndsFamily`, `KeepsContract` |
| `server_sessions_replay` | the same with snapshots only | `ReplayRevokesFamily`, violated |
| `server_payments` | credits: 2 lots, quantities up to 2, 2 reservations, moments 0 to 2; orders: 2 orders of 3 for 2 credits, each with either provider and any purpose, 1 reconciliation, 1 full refund; refunds: 1 order with refunds of 1, 2 and 3, 1 reservation, 1 subscription without an order | `BookedOnce`, `CreditsConserved`, `RefundsMatchBooks`, `ActivationsArePaid` |
| `server_payments_expired` | the same without a reconciliation | `BookedStaysPaid`, violated |
| `next_router` | 2 people, 2 passwords, 3 sessions, 4 tokens, 2 links; 1 organization, 2 names, 2 invitations; 1 price, amounts 1 and 2, 2 subscriptions, 2 keys, 2 lots, 2 days; 1 payout account, 2 providers, 2 withdrawals, 1 event | `SessionsFollowAccount`, `EntitlementsBacked`, `LotsMatchLedger`, `WalletCovered`, `KeepsSuperadmin`, `OwnerDecides`, `SessionFamilies` |
| `create_command` | every answer to the 6 questions that decide a profile, 2 blocks of validation, 4 steps of evidence, 3 files of answers, any number of runs and crashes | `GenerationWasDecided`, `DestinationNeverLost`, `AnswersMakeConfig` |
| `create_command_decision` | the same | `BlockedByDecision`, violated |

**Bounds.** Two withdrawals with the income of one make the second request
compete for what the first returns, or for what is booked while a refund has
taken back what the first relies on. Two workers are enough for a takeover, and
batches of two for an item whose lease expires while its predecessor is being
processed. Two attempts distinguish the last attempt from one before it. A
crash leaves a batch behind; the bound exists because an unbounded number of
crashes refutes every liveness property. `area` in `MCPayouts` is a bound of the
model: a behaviour is about the "pair", of which at most one has a mishap and
whose accounts, contract and workers stay up, or about a "single" withdrawal with
everything that can happen to it. It restricts the environment only, never a
step of a worker or of a clock, on which the fairness is. The mail run has three
attempts, so that a counter set back can be told from a fresh one; it has one
job because jobs share only a worker's batch, and batches are covered by
`next_outbox`.
`attempts` (in `Payouts`), `calls` and `logged` saturate at the maximum, since
the code only asks whether it was reached; `copies` saturates at 2.

In `next_payments` two orders compete for a key, and two keys let both exist; an
amount of 2 allows a partial refund, a second one and one that is too much; two
keys for refunds distinguish a replay from another refund; a session of Stripe may
name each of the four payments; one body is sent
again or is new, and a second server is one more than the store admits. The
orders with Orange, the keys and the servers are interchangeable (`Symmetry`):
no definition names one of them.

In `server_sessions` three rows are a login with two rotations, or two families
of which one rotates; two requests are a replay or a login in progress and
whatever ends all sessions meanwhile (what takes one step, such as a rotation, needs
no request of its own). `MaxVersion` 3 allows two events that raise the
version, so that a suspension may precede a new password; the code has no such
bound.

In `server_payments` `area` is a bound as in `next_router`: what a behaviour is about
(`Within` in `MCServerPayments`). "credits": two lots let a reservation take
from one that expires first and from another, and two reservations share a lot;
two moments after the first tell lots that expire apart. "orders": two orders of
one price are what makes the latest subscription another than the one that was
paid; the price is not archived there, but in the other two. "refunds": an
amount of 3 and 2 credits, so that the share of a partial refund is rounded, and
three refunds of which no two but the parts fit together, against a reservation
that spends the credits. One reconciliation at a time is enough to be overtaken
by webhooks, the expiry and refunds. `Symmetry` is over lots that are granted,
which no definition names.

In `next_router` two people are an administrator and another, or two
administrators, once one promotes the other, who may then suspend each other;
u1 is the bootstrap address. Three sessions and four tokens are two families of
which one rotates twice, or a login after a suspension. Two links let one
supersede the other, `RateLimit` 1 lets a request be refused. Two invitations of
one address let the second replace the first, or an owner be invited. Two
subscriptions of one price are the case of interest of `EntitlementsBacked`; two
lots and two days let a consumption take from a lot that expires and from one
that does not. Two withdrawals compete for one grant, and one event from each of
two providers lets a callback contradict another. Behaviours about "sessions"
and "links" start from nothing, in the others everybody first signs in, once
(`Uses`); in "wallet" one grant is made (`FirstGrant`). Passwords, sessions,
tokens and links are interchangeable.

In `create_command` `Rewritten` are the questions whose answers decide target,
base and payment; the others are copied into the configuration, and keep two
choices. `Files` has one file that lacks an answer, one with a base that is
refused and one that is complete. Two blocks tell a complete validation from an
incomplete one; the code has eight. Of the seven steps of evidence, smoke and
report have rules of their own, and two others stand for the rest. Nothing
bounds the number of generations, failures or crashes.

**What is exempted, and why.** Some properties hold up to what the code allows
and a reader may not expect. The exception is part of each property.

- `ReturnedIsNotPaid` is about withdrawals outside `mishap`. A reply that is lost, a
  contract that is switched off, a lease that expires under its holder and the
  cancellation of what a worker has claimed each let the code return an amount
  that the provider pays: the `catch` block marks FAILED after the last attempt
  whatever the provider did with it, and `process` calls the provider for a row
  whose status it read before. The exemption is of the withdrawal it happened to,
  not of the run; the other properties of `payouts` exempt nothing, so even then
  the books agree with the status.
- `OnlyRefundsOverdraw`: `RefundService.php:68` writes the REFUND of an order whatever
  became of its amount, so a balance that covered a request may be negative later.
  Requests are made from one payout account. Two requests through two accounts of
  one owner wait for different rows (`WithdrawalService.php:33`), may both read the
  balance before either reserves, and may overdraw it; see sections 5 and 6.
- `PaidIsCollected`: `stripeWebhook` looks for any payment of the given identifier
  (`payments.ts:324`) and tests the type of the event only (325), while Stripe also
  completes sessions that are not paid. What such an event named (`vouched`) may
  be SUCCEEDED unpaid, a payment with Orange too.
- `NoStaleAnswer` is what the lock of the store gives and no more. The webhooks are
  not monotone, as `docs/security/model.md:5` calls them: a late notification makes
  a REFUNDED payment SUCCEEDED again (`payments.ts:207`), and an answer the adapter does
  not know puts a SUCCEEDED one under review.
- `EntitlementsBacked` does not speak of money. `createSubscription` (`billing.ts:218`)
  makes a subscription ACTIVE at its user's request, though
  `docs/finance/billing.md:15` lets a front end create pending ones only, as the
  Laravel server does.
- `WalletCovered` leaves out withdrawals that a callback overturned
  (`withdrawals.ts:249` tests no status): one that was completed and then failed
  frees what was paid, one that was given up and then completed takes what may be
  promised again. The final states of `docs/finance/withdrawals.md:9` are those of
  the Laravel server, whose `FinalIsFinal` is checked.
- `DestinationNeverLost` leaves out what is written into an empty destination between
  `readdir` (`project-generator.ts:290`) and the recursive `rm` (305), which removes
  it, with `--force` or without. The tests only have a destination that is not empty
  from the start.
- `BookedOnce` says what is booked, not what the status is or that money came. Stripe
  completes a session whose delayed payment was only ordered
  (`<<o, "completed">> \in sent`), the order is booked and its credits are delivered,
  and the failure that may follow changes nothing. `BookedStaysPaid` has the rest.

**Findings.** `docs/finance/withdrawals.md:3` says that a confirmed payment
produces a release of the reserve and then `WITHDRAWAL_PAID`.
`payouts_confirmed` shows a behaviour in which it does not: a worker claims an
APPROVED withdrawal, the owner cancels it, `process` reads it as CANCELLED
(`PayoutWorker.php:29`), tests only for APPROVED (line 32) and calls the
provider; the provider pays, and `applyResult` ignores the signed PAID callback
because the status is final (line 51). No ledger entry records the payment.

`docs/security/model.md:11` says that a replay revokes the whole family.
`server_sessions_replay` shows a session that survives one with PostgreSQL: a
login issues s1, which is rotated to s2; s1 is presented again and the UPDATE of
`revokeFamily` (`RefreshSessionService.php:126`) starts with s2 in its snapshot,
while a rotation of s2 holds that row and inserts s3; the rotation commits, the
UPDATE skips s2, which is revoked by now, and never sees s3. `ReplayEndsFamily`
shows that the family does end where an UPDATE finds the rows of the moment.
The contract holds either way: s3 is the only valid token of its family.

`docs/payments/providers.md:14` says that only a verified webhook or an official
reconciliation applies a transition. `server_payments_expired` shows one that the
clock applies: the hourly expiry reads that an order is PENDING
(`PaymentMaintenanceService.php:14`), a webhook books and delivers it, and then the
expiry writes EXPIRED (line 17 tests no status, line 16 does). The order keeps its
entry and its credits and cannot be refunded. A reconciliation does something
similar with the review it calls for after an unlocked look
(`PaymentReconciliationService.php:28`); the run has none, so that it shows the
expiry.

`docs/testing/guided-journey-regression.md:18` says that NO_GO_TEMPORAIRE and PIVOT
prevent a guided generation. `create_command_decision` shows that they do not: a
GO_CONDITIONNEL sets `technical_questionnaire_started`, nothing unsets it, the
journey is resumed with PIVOT, and answers that leave no question open make the
session READY_FOR_DRY_RUN (`student-journey.ts:404` and `418`), without an override.
`GenerationWasDecided` says what does hold: there was a complete validation and a
decision.

**What the runs tell about the code** without contradicting a property.

- `ActivationsArePaid` counts. A payment activates the latest subscription to its
  price (`PaymentWebhookProcessor.php:42`): with two orders the first may stay
  PENDING for ever, and the second payment, meeting ACTIVE, throws and is not
  booked; so does a payment whose subscription was cancelled meanwhile. A full
  refund cancels the latest subscription, not the refunded one.
- The credits of partial refunds are rounded down: refunds of one and two thirds
  of a payment take one of its two credits. After a partial refund the order is
  no longer SUCCEEDED, so only refunds requested before it can follow.
- A refund whose answer is lost is FAILED and its credits are back, though Stripe
  returned the money; `RefundsMatchBooks` only says that what is confirmed was
  returned. Outside tests nothing calls `confirm`, so refunds stay PROCESSING.
- A lot can expire once: the entry of its expiry has the unique scope
  `expire:<lot>` (`CreditService.php:132`). If a part was reserved then and is
  released later, it is due again, the entry is refused and the summary of this
  owner fails from then on. `CreditsConserved` holds, because nothing is written.
- `grantPaidOrder` looks the price up with `serverPrice` (`CreditService.php:81`),
  which refuses archived ones: an order of credits whose price is archived before
  the payment is never booked, although `docs/finance/billing.md:5` keeps
  archived prices for their orders.
- Both backends call the provider before the order is committed
  (`CheckoutService.php:40`, `payments.ts:96`), although
  `docs/payments/providers.md:14` and `docs/payments/orange-money-mali.md:74` say that
  order and attempt exist before the call: a transaction rolled back after it
  leaves an order at the provider that the application does not know.
- CANCEL_AT_PERIOD_END has no end: no period is recorded and nothing looks for it.
- `OwnerDecides` holds with an exception: an owner who accepts an invitation of
  the own organization loses ownership, and then nobody can change roles.
- `EntitlementsBacked` holds, its converse does not: cancelling one of two
  subscriptions of a price takes the entitlement from the other.
- Technical answers also revive a session that was ABANDONED.
- A PASS is kept when a later piece of evidence is `not_available`, and evidence
  may be recorded before a generation.
- A process that dies after the rename, or fails to remove the backup, leaves a
  complete project that the session does not know; a backup left behind makes
  every later replacement refuse.
- A second generation of the same destination is, to the first one, a program that
  writes there: the removal of an empty destination may remove its project. The
  model has one generation at a time.
- PostgreSQL is what a Laravel profile on a VPS gets for the answers neon and
  supabase, which its compatibility rules accept when a file contains them,
  though the command does not offer them.

**Fairness.** `FairSpec` (in `MCPayouts`, `MCSpec`) assumes weak fairness of the
steps of each worker (the commands are scheduled every minute, and calls return or
time out) and of the expiry of leases and back-offs (bounded times). Nothing is
assumed of the owner, the administrators, the provider, the reconciliation or of
requests. Under it `ApprovedIsResolved` and `EveryMessageSettles` hold: the provider
is not needed, because every failure counts an attempt. The other systems are
checked for safety only.

`CHECK_DEADLOCK FALSE` appears in each configuration because the systems may
stop: everything settled and nobody asks for more.

## 4. What is proved

Every safety property that a passing run checks is a theorem, as is every
refinement. Listed by module, with the inductive invariant each rests on.

The books are about sums: of entries, of lots, of refunds, of what is promised.
They are written with the sums over functions of the community modules
(`SumFunction`, `SumFunctionOnSet`), and `SumLemmas` derives what the proofs need
of them. A sum is defined by a recursion over subsets that picks an element;
`OneSolution` and `SomeSolution` say that this recursion has exactly one solution
on a finite set, `SumTake` that any element may be taken out, whichever was
picked. Each is proved without an induction over data, by a set of least size
that would be a counterexample (`Minimal`, from the well-foundedness of strict
inclusion). `SumChange` (a change at one point), `SumInsert`, `SumAdd`,
`SumDisjoint`, `SumWithin`, `SumNat` and `SumAtMost` follow. For this the models
assume that the rows a sum is over are finitely many (`Withdrawals`, `Payments`,
`Grants`, `Orders`, `Uses`, `Refunds`), as the rows of a table are; how many is
left open. Where rows are created as the system goes (`ledger`, `lots` and
`refunds` of the Next.js backend), that they are finitely many is proved with
the invariant.

`Payouts_proofs`, for every finite set of withdrawals, any workers, amounts,
limits and hazards (assumption `PayoutsAssumption`: types of the constants):

- `TypeCorrect`. `Typed` adds `InFocus` to the type invariant: a worker inside
  `process` works on a withdrawal.
- `LedgerConsistency`, `PaidByProvider`, `OutboxIsRight`, from `BooksInv`:
  `Informed` says that each answer in flight (a worker's reply, a processed
  callback, a poll) is one the provider has given, which stays true because
  what the provider did only progresses (`PayoutStep`); `Books` is the
  conjunction of the three properties. They need each other: posting for PAID is
  right only if the answer is truthful and the status was open.
- `Finality`, an action property: each action that writes a status is guarded by
  a status that is not final.
- `ContactAfterApproval`, from `Approvals`: a status past APPROVED, and a worker
  with a withdrawal in hand, imply that it was approved once.
- `Refinement`: `Spec => KeepsContract`. The step of `Request` needs
  `AvailableIsFree`: the balance recomputed from the ledger equals the
  contract's free amount whenever the ledger matches the status.
- `ReturnedStaysHome`: `ReturnedIsNotPaid`, from `Reliable`: of a withdrawal outside
  `mishap` (`Sound`) at most one worker has it in hand, that worker's lease holds and
  what it read of it is still so, and the provider knows of it only if it is SENT or
  further. This is so withdrawal by withdrawal, whatever happens to the others of
  its batch, and for any hazards and any number of crashes.
- `NothingToReport`: a final status is read before the entries are, and stays
  (`Compared`, from `FinalStep`), so that with books that agree `Discrepancy` finds
  nothing but a provider that does not answer.
- `Solvency`: `OnlyRefundsOverdraw`. The balance is the income and a sum of weights,
  and is the free amount of the contract (`AvailableIsWeighed`). Each step is one of
  the contract, by the refinement; it changes one weight, and only `Hold` lowers
  the sum, by at most what is free, or it changes the income, which only a
  confirmed refund lowers. Nothing is assumed of the amounts; that requests come from one
  payout account is part of the model.

`NextOutbox_proofs` (assumption `NextOutboxAssumption`: finitely many workers,
positive limits):

- `TypeCorrect`, with `InFocus` and `Waiting` (a waiting message has attempts left).
- `GivenUpLast`, from `CountInv`: the attempts of a message plus the workers
  that stand before its `finish` never exceed the calls of the port.
- `DeliveredCleanly`, from `CleanInv`: as long as nothing went wrong around a
  message, at most one worker has it, under a valid lease, and what was
  accepted is known to that worker or recorded as SENT.
- `Refinement`: `Spec => KeepsContract`.

`MailWorker_proofs` (assumption `MailWorkerAssumption`: positive limits, `None`
is no job):

- `TypeCorrect`, with `InFocus` and `Waiting` as above; the bound on `attempts`
  rests on what each worker read (`seen`), since workers write that plus one.
- `LoggedCorrect`, from `SeenIsLogged`: what a worker read of a counter is never
  more than the rows of the history, so writing it plus one beside a new row
  keeps the history ahead, whoever wrote in between.
- `DeliveryIsClean`, from `AllClean`: unless something went wrong around a job,
  one worker at most has it, under a valid lease (`Held`), and what the provider
  took is SENT or owed by the worker that is about to record it (`Counted`).
- `Refinement`: `Spec => KeepsContract`.

`Next_proofs` has the whole Next.js backend. First the payments (assumption
`NextPaymentsAssumption`: finitely many payments, a positive amount, `Nothing` is
no value):

- `PaymentsTypeCorrect`. `PaymentsTyped` adds `InService` (a request that asks has a
  payment with Orange, which exists for a notification and does not for a checkout)
  and `Locked` (at most one server holds the store).
- `PaidWasCollected`, from `Informed`: `Truthful` says that the answer a request
  holds is what Orange has given and `Faithful` that a status never says
  more than the provider does, unless a session of Stripe has named the payment.
- `NoAnswerIsStale`, an action property, from the same invariant: the request holds the
  store while it asks, so an answer is never older than the status it replaces.
- `OnePaymentPerKey`, from `Recorded`: the records and messages agree
  (`RecordsAgree`), they come from payments that exist (`Sources`), and the key a
  checkout in progress is about to record is still free (`Unused`).
- `RefundsProved`, with `FewRefunds` (finitely many are recorded): a refund adds one
  record, whose key is new because `Replayed` is tested first, and its amount
  (`RefundStep`); whatever else happens touches neither (`RefundsKept`).

`ServerSessions_proofs` (assumption `ServerSessionsAssumption`: `None` is no
row, at least one version), for any rows and requests and either isolation:

- `TypeCorrect`. `Typed` adds `UserLocked` (one transaction at a time holds the
  user) and `Families` (a row in use has the family of a row in use, and a
  replay is about such a row).
- `UsableProved`, from `Stamped`: no row and no login in progress is newer than
  the user's version, and those as new as it have the present password. A new
  password comes with a new version, so all others fall behind at once, found by
  the UPDATE or not.
- `ReplayProved`, which is inductive with `Typed`: a row joins a family only by
  the rotation of a live row of it.
- `Refinement`: `Spec => KeepsContract`, from `OneLive` (a family has one live
  row at most).

`StepKinds` serves the last two: every step logs in, rotates, or leaves fewer
sessions than before (`Fewer`).

Then the identity (assumptions `NextCommonAssumption`, `NextIdentityAssumption`:
finitely many users, `None` is no user, password or token):

- `TypeCorrect`. `Typed` adds `Rows`, what a row has in each of its states.
- `SessionsProved`, inductive with `Typed`: every step that changes a password
  or suspends ends the sessions of that account (`FollowStep`), no other step
  makes a live session of an account that is not active.
- `OneLinkProved`: a new token closes the open ones of its account and purpose.
- `SuperadminStays`, an action property: `SuperadminLeft` counts. With two active
  superadmins, one request leaves one, because it changes one account.
- `FamiliesKept`: `IdentitySpec => SessionFamilies`, step by step.

Then the organizations, without assumptions but that of `NextCommon`:

- `OrganizationsTyped`, with `OpenInvitations` (open invitations are to a role
  other than owner).
- `OwnersDecide`, an action property: a step that sets the role of another
  finds no owner there (`SetsOther`).
- `OneOwnerProved`, from `MembersExist`: an organization has members only once
  it was created, and is created once.

Then the wallet, which is billing with withdrawals (assumptions
`NextBillingAssumption`: amounts are positive; `NextWithdrawalsAssumption`:
finitely many withdrawals):

- `WalletTyped`, with `Accounted` (a withdrawal has a payout account): the types
  of catalogue, subscriptions, accounts and withdrawals.
- `EntitlementsProved` ([]`EntitlementsBacked`, which asks for no payment): the
  subscription behind an entitlement is another than the one a step opens or
  cancels.
- `LotsAddUp`, with `CreditsTyped` (the types of lots and ledger, which are finite):
  a grant or a purchase adds one lot and one entry, a consumption one entry and
  what `Used` takes of each lot. That this adds up to the quantity asked for is
  the point, since `Used` is given lot by lot: the usable lots have an order
  (`BeforeOrders`), the last of them gets what is left over (`LastLot`), and a
  minimal set of lots for which it failed would have a last one (`Spread`).
- `NeverPromisedTwice`, from `OwnersKnown` and `Covered`: what an owner claims, paid
  or promised, with the withdrawals that no callback overturned is at most what was
  earned. `ClaimsStep`: a claim only grows by a request, within a balance that
  subtracts these claims and more; the ledger never shrinks.

And the API:

- `RouterKeepsIdentity`, `RouterKeepsOrganizations`, `RouterKeepsWallet`: each
  group of requests is a step of one service and a stutter of the others.
- `RouterGuarantees`: with these, what is proved of the services holds of the API.

`ServerPayments_proofs` (assumptions `ServerBillingAssumption`,
`ServerPaymentsAssumption`: finitely many grants, orders, reservations and refunds,
a name for one kind of row only; a positive number of credits and amount; a refund
is of an order and at most its amount), for any number of reconciliations at a time
and any moments of expiry. `TypeCorrect` comes first; it includes that no lot falls
below zero and that no order is refunded beyond its amount. The rest is one
inductive invariant, `Inv`, because its parts need each other:

- `BookedAtMostOnce` ([]`BookedOnce`), with `HeardOf`: what was heard of a payment,
  in an event on its way or an answer in the hands of a reconciliation, is what the
  provider has. A late answer is therefore never better than the truth, and
  `Payable` admits an order once.
- `NoCreditLost` ([]`CreditsConserved`): whatever the server does to credits is a
  new lot, a hold, the end of a hold or the expiries of a summary
  (`AnyStepCredits`), each of which keeps the balance of each lot. That a
  refund which fails in the request that made it leaves no hold behind needs
  `RefundsMatchBooks`, which says that it had none before.
- `RefundsAddUp` ([]`RefundsMatchBooks`), with `RefundsOfBooked` (only what was booked
  is refunded, and what is in progress was returned by the provider): a
  confirmation adds one part, which fits in the amount together with those
  confirmed and in progress, as `RequestRefund` made sure.
- `ActiveOnlyIfPaid` ([]`ActivationsArePaid`), from `ActivationsCounted`: a step that
  activates one more subscription books one more order, never booked before, so
  that no pairing of orders and subscriptions is needed.

`CreateCommand_proofs`:

- `GeneratorTyped` and `NothingLost`, from `Disk`: `Placed` says what the
  directories hold at each step of a run, so that a complete project replaces
  the old one in one rename and the backup is removed after it only. The user writes
  at any step; what he writes is at the destination as long as no removal of a run
  that found it empty has met it (`overlooked`).
- `GeneratorImplemented`: the command uses the destination as specified.
- `JourneyTyped` and `GenerationDecided`, from `Decided` (a decision comes after
  a complete validation, technical questions after a decision) and
  `ProjectKept` (a project that was generated is at the destination or in the
  backup), which rests on `Disk`.
- `AnswersSuffice`, for any files and any changes an agent makes to them. A
  complete file (`CompleteAnswers`) becomes a configuration whose fields are those
  the schema asks for, family by family (`ConfigFields`, `Components`,
  `CompleteMakesConfig`). Who answers what is asked never meets a refusal, because
  the family is asked before what depends on it (`AsksInOrder`): in answers given
  that way (`InOrder`) the choices shown for a variant or a base are those that its
  rules accept later (`AskedStep`).

Only model-checked: liveness (`ApprovedIsResolved`, `EveryMessageSettles`), which
is outside the prover's reach, since it needs ENABLED and fairness; and the four
properties the code violates, for which TLC has the counterexamples. The type
invariants are proved, and so are `OneOpenLink` and `OneOwner`; the runs leave
them out. That TLC's instances are small matters for these theorems in one way
only: the bounds named in section 3 (`MaxLots`, `Horizon`, `MaxVersion`,
`MaxCrashes` and the like) are constants of any value in the theorems, guards
that switch actions off; no invariant uses that they are small.

## 5. What is not modelled

- In `Payouts`: other currencies (each has a balance of its own), the history table,
  rate limits, the replay of an idempotency key, a callback with a
  `provider_reference` that does not match, the creation of accounts, the resolution
  of anomalies. RECONCILED is never entered by the code. Two accounts of one owner:
  `request` locks the account row, so two requests through different accounts may
  both read the balance before either writes; the model makes a request one step.
- In the outboxes: payloads, the length of delays, the order among eligible
  messages (any batch of eligible messages may be claimed, which includes the
  ones the code picks).
- In `NextPayments`: the audit trail, rate limits, the cache of the OAuth token,
  the validation of prices and of return addresses, FedaPay (whose payments stay
  PENDING). A body of a request that differs under one key is refused by the
  code and has no effect; a key of the model stands for a key with its actor and
  body.
- Three observations about `payments.ts` that no run states. `refund` does not
  look at the provider, although `orange-money-mali.md:84` says that refunds are
  disabled. The return page changes the status without an outbox message. After
  a notification that made a REFUNDED payment SUCCEEDED again, `RefundsMatchRecords`
  shows that the amount refunded survives, so that nothing is refunded twice.
- In `ServerSessions`: several users, the CSRF token, rate limits, registration
  and the verification of addresses, the OAuth states before a login with
  Google, the mail of a token, the refusal to suspend the last superadmin. An
  UPDATE and the locks before it are taken to be all a transaction of that kind
  does; that PostgreSQL runs at READ COMMITTED and that MySQL and SQLite find
  the current rows is an assumption about these systems.
- In the services of the Next.js backend: validation of bodies, audit,
  notifications, preferences, uploads, intervals of prices, the
  verification of an e-mail address (recorded and read nowhere). A withdrawal
  batch takes every eligible withdrawal, not the first 25.
- In the generator: the contents of files, the interactive prompts, the fields of
  the session that are only reported (`fangabase_active`, `final_status`, the state
  of the terrain, warnings, scores), two generations of one destination at a
  time, the deployment, doctor, smoke and recovery commands, the release tools.
- In `ServerBilling` and `ServerPayments`: FedaPay, whose payments nothing confirms,
  the simulator, which production closes, events that are ignored, other
  currencies, several owners and prices, the audit and the outbox messages, the
  resolver of entitlements, which only reads. A key that is used again gets the
  answer that was recorded, which is no step. The provider may know a checkout
  that was rolled back; in the model such an order is not there at all.
- The organizations of the Laravel server and `packages/core`: see the plan.
- Cryptography is opaque everywhere. Formatting, logging and metrics are left out.

## 6. Plan

What is left, most important first:

1. `WithdrawalRequests`: the statements of two requests under READ COMMITTED.
2. `TransactionalStore`: the statements of `store.ts`.
3. Two generations of one destination.
4. `CoreDomain`: the asynchronous gap of `process` and the queue of the reference.
5. Theorems about whatever these add.
