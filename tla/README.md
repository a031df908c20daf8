# FINX in TLA+

FINX (`src/apps/api`) is a Fastify API over PostgreSQL (Prisma) and Redis
(sessions, BullMQ queues), with a React client (`src/apps/web`). Money lives in
`Wallet` rows (`availableBalance`, `reservedBalance`); each deposit or
withdrawal has a `PaymentIntent` row whose status follows `payment-state.ts`;
every economic event leaves a `LedgerTransaction`. Paystack collects deposits
and pays withdrawals out, answers calls and sends webhooks. The application
serves a second wallet over the same rows, `wallet-mock/`, which posts deposits
and withdrawals itself.

The code has two test files, for the status table and for the metrics. Nothing
tests what several requests, webhooks, retries, workers and crashes do
together. That is what these modules are about.

Below, `wallet/`, `webhooks/` and so on are directories under
`src/apps/api/src/modules/`.

## Inventory

| Component | State | Operations | Works with |
|---|---|---|---|
| Payment status machine, `payments/payment-state.ts` | none | `assertPaymentTransition` | every writer of a status |
| Wallet, `wallet/` | `Wallet`, `PaymentIntent`, `LedgerTransaction`/`LedgerEntry` rows | deposit, verify, withdraw, transfer, provider webhook | provider client, worker |
| Provider client, `wallet/external/paystack.provider.ts` | none (Paystack keeps charges and transfers) | `initiateDeposit`, `verifyTransaction`, `transferToBank` | wallet service |
| Mock wallet, `wallet-mock/` | the same rows | deposit with immediate posting, withdrawal, transfer | email; the routes the app mounts today |
| Webhook intake, `webhooks/` | `WebhookEvent` rows (PENDING, PROCESSED) | record an event once, queue a job | queues |
| Queues and workers, `queues/`, `workers/` | BullMQ jobs in Redis, three attempts each | `capturePaymentWorker`, email, KYC (does nothing) | wallet repository |
| Savings, `savings/` | `SavingsPlan`, `Wallet`, ledger rows | create, fund, withdraw, cancel | wallet rows |
| Authentication, `auth/`, `app.ts` | `User`, `Session`, `PasswordResetToken` rows; session cache in Redis | register, login, refresh, logout, forgot and reset password | every authenticated route |
| KYC, `kyc/` | `KycVerification` and `KycProfile` rows | submit a BVN, status, identification webhook (its job does nothing) | both wallets ask for a verified profile |
| Web client, `src/apps/web` | the session in a store and in localStorage, kept answers, mutations under way | sign in and out, KYC, deposit, transfer, savings | every route, through one axios client |
| Profile, observability, bootstrap, email | rows, counters | | |

The real wallet's HTTP routes (`wallet/http`) and its webhook endpoint
(`payments/http`) are written but not reachable in the app as it is assembled:
`app.ts:12` imports `walletRoutes` without registering it, and the webhook
route asks for a user's session and for a raw body that nothing sets. The intake
that Paystack does reach (`webhooks/`) answers the transfer events and does
nothing with them. `WalletRepository` itself is live through the
payment worker. `WalletPayments` models the service and the repository as
written, with the webhooks its handler is for.

### What is hard, and what makes each part correct

- **Wallet.** Requests interleave at every `await`; some repository
  transactions lock their rows first, two of them do not; provider calls may
  take effect and still throw; a transaction may fail after the provider has
  answered; webhooks repeat, come late and out of order; the
  process may stop between two steps. Correct means: balances agree with the
  ledger, reserves with the withdrawals that hold them, money comes in only
  when collected and goes out at most once, statuses follow the table, and
  every reserve ends.
- **Webhook intake and worker.** At-least-once delivery, jobs with a bounded
  number of attempts, an event marked processed after its effect. Correct: an
  event takes effect once, and a collected deposit is credited in the end.
- **Savings.** Statement-level races inside READ COMMITTED transactions.
  Correct: no update of a balance or a plan is lost, nothing is made or lost
  between them, neither goes below zero, and a locked plan keeps its money.
- **Mock wallet.** The same races as in the wallet, without a provider: two
  rows are locked one after the other, an intent and its posting are two
  transactions. Correct: the wallets behave like a bank that does one operation
  at a time.
- **Sessions.** Concurrent refreshes of one token, reuse detection, a cache
  that is never invalidated. Correct: what is over stays over, only a login
  signs in, and a revocation takes effect.
- **Registration, KYC, password reset.** Uniqueness, final verdicts and
  one-time use under concurrency and stops.
- **Web client.** Answers come late, out of order or not at all, and meet a
  session, a page or a balance other than the one they were asked for. Correct:
  what the page shows has happened on the server, and the session is lost only
  for a reason.

`PROJECT.json` lists every hazard at its line.

## Modules

| Module | Models |
|---|---|
| `PaymentState` | `payment-state.ts` |
| `WalletPayments` | `wallet.service.ts` over `wallet.repository.ts`, with Paystack as its environment |
| `WebhookCapture` | the webhook controller, the payment queue and its worker, over `postSuccessfulFiatDeposit`, beside the verify request |
| `Savings` | `savings.service.ts` over `savings.repository.ts`, statement by statement |
| `WalletMock` | `wallet-mock.service.ts` over `wallet-mock.repository.ts` |
| `Bank` | what the wallets promise: whole operations, one after the other |
| `Sessions` | `auth.service.ts` over `auth.repository.ts`, and `authenticate` in `app.ts` with its cache |
| `Onboarding` | `register` and FINX tags (`auth/`), `verifyMockKyc` (`kyc/`) |
| `Client` | one tab of the web client, and the server as far as the client sees it |
| `Sums` | the sum of amounts over a set of rows, as the properties use it |
| `SumsProofs` | how such a sum changes and what it bounds, for every finite set |
| `...Proofs` | the inductive invariant of each module but `PaymentState`, `Bank` and `Sums`, and the theorems about it |
| `MC...` | constants for TLC |

`PaymentState` is extended by `WalletPayments` and `WebhookCapture`. Both
describe deposits: `WalletPayments` the API's side, with all its requests and
both kinds of intents, `WebhookCapture` the road of one event from Paystack to
the wallet, with the API reduced to the verify request that posts the same
deposits. `Savings` meets the wallet component in the `Wallet` rows, which its
`Spend` stands for. `WalletMock` is shown to implement `Bank`. The modules meet
where one component relies on another: a verified profile, which `Onboarding`
says is backed by an approved verification, is what `WalletMock` asks for; the
sessions whose end `Sessions` describes are the tokens that `Client`'s server
refuses from some moment on; and what `Client` calls posted is one operation of
`WalletMock`.

### WalletPayments: correspondence

`Refs` are the initiating requests, one payment reference each (the code draws
a `randomUUID` per request); `Handlers` are the processes that work on
somebody else's reference: verify requests and webhook deliveries.

| Variable | Code |
|---|---|
| `available`, `reserved` | `Wallet.availableBalance`, `Wallet.reservedBalance` |
| `input` | request body and idempotency key, and the same columns of the intent |
| `status`, `authorizationUrl` | `PaymentIntent` columns; `"NONE"` is no row |
| `ledger` | the `LedgerTransaction` with this `externalReference`, as a move from one side to the other; `NoPosting` is no row |
| `charge`, `transfer` | Paystack's records |
| `pc`, `target` | the `await` at which a request stands, and the reference it works on |

Steps are cut where another request can get in. A transaction that locks its
rows before it decides (`SELECT ... FOR UPDATE` in `lockPaymentIntent` and
`lockWallet`, or a conditional `UPDATE`) is one action, effects and rollback
included. `markDepositInitialized` and `markPaymentFailed` read without a lock,
assert on what they read and update by id: two actions each (`ReadFor...`,
then the write). The lookup of an idempotency key comes before the locks, so it
is a step of its own (`InitiateFiatDeposit`, `WithdrawFiat`), and the unique
index decides at the insert (`KeyRejected`). Each provider call has three
outcomes: an answer, an error without effect, and, for the references in
`Lossy`, an effect whose answer is lost. `Throw` is the exception: from a step
inside a `try` block (`DepositTry`, `WithdrawalTry`) it leads to the `catch`
block, from any other it ends the request.

For the requests in `Failing`, any transaction may fail in the database instead
of taking effect (`TransactionFails`): an error, no free connection, Prisma's
limit on a transaction's time. The rollback changes no row, and the exception
goes where `Throw` says. That a transaction commits and its answer is lost is
left out. In `withdrawFiat` it adds nothing to the rows: after a settlement or
a release the `catch` block finds SUCCEEDED or FAILED and changes nothing, a
lost answer of the attach is `TransactionFails` as it changes no column modelled
here, and after a reserve it leaves what a crash there leaves. In
`initiateFiatDeposit` it would make an AWAITING_CUSTOMER deposit FAILED, which
the status table allows.

A crash stops every request in flight and keeps the rows. Requests that had not
arrived still can.

Left out: audit events (`PaymentIntentEvent`), the stored provider
identifiers, currencies, inactive wallets (every wallet is active), and the
amounts' decimal form. A verify can only name a reference its client knows
(`ReferenceKnown`): from the answer to the request, or from the answer to a
repeat of its idempotency key.

### WebhookCapture: correspondence

| Variable | Code |
|---|---|
| `status`, `credits` | `PaymentIntent.status`; how many `LedgerTransaction`s carry the reference |
| `verifying` | a verify request between `markPaymentFailed`'s unlocked read and its write |
| `paid`, `acknowledged` | Paystack: the charge, in kobo, and whether its event has been answered with 200 |
| `event` | `WebhookEvent.status` |
| `delivery` | the `await` at which a webhook request stands in `processIdempotentChargeWebhook` |
| `job` | a BullMQ job: its state (`"post"` and `"mark"` are the two stages of the handler at work), attempts, stalls and last error |

The lookup, the upsert and the queue's `add` are three actions, and the answer
a fourth, which may be lost. The worker reads the intent (`StartJob`), posts
(`CapturePayment`, one locked transaction) and marks the event
(`MarkProcessed`). An error counts one attempt; the queue's defaults give
three. A crash ends all deliveries; a job that was at work is taken up again by
BullMQ's stall recovery, once (`MaxStalls`, the library's default). An error in
the controller ends the process too, since `webhook.route.ts:29` drops the
promise, so it is a `Crash`. Left out: the intent's other columns, other event
types (none reaches a deposit), the delays between attempts.

`CustomerPays` collects what `initiateDeposit` asked for (`InitiatedAmount`),
the price times 100, and the worker hands this number on as it is. So the
worker, alone, never posts a deposit: every credit in this model comes from `VerifyPosts`, and a job
completes when the deposit has been posted already. This is what the code does
(see `amount_mismatch` below); `CreditedOnce` and `ProcessedMeansCredited`
hold whichever of the two posts: the proof never expands `MappedAmount`.

### Savings: correspondence

| Variable | Code |
|---|---|
| `balance`, `saved` | `Wallet.availableBalance`, `SavingsPlan.currentAmount`, as committed |
| `plan` | the other columns of `SavingsPlan`; `unlockDate` is absent, to come or past |
| `lock` | the holder of PostgreSQL's lock on a row |
| `request` | a transaction: its next statement and the uncommitted versions it has written |
| `recorded` | the sum of the plan's `SavingsTransaction` rows, deposits less withdrawals |
| `spent` | what withdrawals and transfers have taken from a wallet, so that sums can be stated |

The `$transaction` callbacks run at READ COMMITTED and take no lock when they
read. `Check` is the reads at their head, which see committed rows; an update
waits for the row's lock, reads the committed version, and keeps lock and new
version to itself until `Commit` (with the inserts, which meet no one).
`Rollback` is any failure, timeout or crash before that. The other components
debit a wallet by a conditional `UPDATE`: `Spend`. What they add to a wallet is
left out; it could only postpone an overdraft.

`withdrawFromSavingsPlan` compares two decimal numerals with `>`, as
strings. Amounts are whole numbers here and `TextExceeds` is the lexicographic
order of their numerals. The repository compares again, as numbers, so text
order only refuses too much (a withdrawal of 9 from a plan of 10): the run's
amounts are 9 and 10 to have that case. Left out: names, targets, interest,
categories and the notes of transactions, and the client's reference, which the
code neither checks nor stores: its rows get references made on the spot
(`savings.repository.ts:205`, `:321`).

### WalletMock: correspondence

| Variable | Code |
|---|---|
| `available`, `reserved` | the columns of `Wallet`, as committed |
| `lock` | the holder of PostgreSQL's lock on a wallet's row |
| `intent`, `ledger` | `PaymentIntent` and `LedgerTransaction` rows by reference |
| `verified` | `KycProfile.verified` |
| `request` | the next transaction or, in a transfer, the next update of a request |

A transaction that locks one row is one step, at its commit; a transfer locks
the sender's row in its conditional update and the receiver's in the next, so
it takes three (`DebitSender`, `CreditReceiver`, `CommitTransfer`), and two
transfers in opposite directions can wait for each other. `Rollback` is the
timeout of 15 seconds that every transaction is given, a statement that fails
or a process that stops. A deposit or withdrawal is two transactions and may
stop between them: its intent stays INITIATED or its funds reserved, and
nothing takes them up again. `withdrawFiat` is in the service and the
controller; its route is commented out. The controller demands an idempotency
key for a deposit and does not pass it on, so deposits have none. The lookup of a withdrawal's
key is the first statement of its transaction, before any lock
(`FindIntentByKey`): two requests with one key can both find nothing, and the
unique index at the insert decides (`KeyRejected` in `ReserveFiatWithdrawal`).
Left out: the reads, currencies and audit events.

The refinement maps a user's balance to `available + reserved` and the bank's
operations to the references on the ledger: only the step that posts is a step
of the bank, everything else stutters.

### Sessions: correspondence

`session`, `replacedBy`, `reuseDetected` and `resetToken` are columns of
`Session` and `PasswordResetToken`; `cache` is the Redis key
`session:<userId>`, which holds one session; `request` says at which `await` a
request stands and what it has read. `RefreshStep` is the decision
`refreshSession` takes on the row it has read; `RotateSessionForUser`,
`FlagRefreshTokenReuse` and `RevokeExpired` act on it later, whatever the row
has become. `authenticate` is `CacheHit`, or `CacheDel`, `FindSession` and
`CacheSet`, and then the handler (`Handle`), of which logout is the one that
matters here. `Enter` leads from an accepted request to `forgotPassword` and
`resetPassword`, which `auth.routes.ts` puts behind `authenticate`. Left out:
what tokens and passwords look like, and suspended or deleted users, as no code
of the repository makes a user either.

### Onboarding: correspondence

`user` holds the committed `User` rows with the three values that have a unique
index. `request` walks through the lookups of `register`; `"commit"` is the
open transaction after `user.create`, whose row makes another insert with one
of its values wait (`Waits`). A phone number is a number in one of four
spellings (`Phones`). `normalizePhone` forgets the spelling, and it is what
format and network are judged on; lookup, column and unique index have the text
as it was typed. `TagRefused` is the `catch` of the loop in
`register`: if the driver names the tag's index, another candidate is chosen,
otherwise the request ends in an error; both are possible, as `meta.target`
depends on the driver. `check` and `verified` are the rows of `verifyMockKyc`;
its three awaits are steps and a submission may stop at each. A BVN is its
first digit and whether its digits are all alike, which is what `mockVerifyBvn`
looks at.

### Client: correspondence

| Variable | Code |
|---|---|
| `auth`, `stored` | the auth slice and `localStorage["finx.session"]` |
| `kyc`, `balance` | the answers TanStack Query keeps under `["kyc","status"]` and `["wallet","balance"]`; `balance.seen` says which postings it includes |
| `call` | the three calls of the pages and one for each click, with the token they were sent with |
| `click` | a mutation of the deposit or the transfer dialog, and whether its dialog is open |
| `issued`, `revoked`, `verified`, `paid` | the server |
| `signedIn` | history: who has signed in since the page was last loaded without a session |

`Handle` is the server: `authenticate`, then the handler. `Lose` ends a call
that the server or the network has lost or that takes more than the 20 seconds
of `apiClient`; whether the server has done its work by then is open. The
answers are `Receive...`: the response interceptor (`Intercept`) ends whatever
session there is on a 401. A deposit's mutation calls again (`retry: 2`, with a
new key each time); a transfer's does not. `onSuccess` invalidates the balance
and, when a page uses it, replaces a fetch under way. A deposit waits for the
refetch (`"refreshing"`), a transfer does not. Left out: the other tabs, the
savings and profile pages, the lists of activity, form validation, layout.

### Runs

| Run | Shows |
|---|---|
| `wallet_safety` | nine properties over two wallets, two requests, two handlers, one idempotency key, amounts 1 and 2, crashes, lost answers for one of the requests, and transactions of every request and handler that may fail |
| `transitions` | violated: a `FAILED` deposit returns to `AWAITING_CUSTOMER` |
| `payout_lost` | violated: an accepted payout is released, as its answer is lost or a transaction after it fails |
| `webhook_capture` | an event is posted once, marked processed only when posted and acknowledged only when kept, and worked on to an end, under repeated deliveries, lost answers, retries and crashes |
| `amount_mismatch` | violated: a job fails for a wrong amount although the right one was paid |
| `savings` | overlapping transactions lose no update and no money (`MoneyConserved`, in `Inv`), keep plans equal to their transactions, overdraw by no more than one amount each, and do not block one another |
| `savings_overdraft` | violated: two requests that have both seen enough money leave a negative balance |
| `sessions` | no stale read, cache entry or late rotation revives a session or a token that is over; a revocation takes effect in the end |
| `wallet_mock` | transfers, deposits and withdrawals implement `Bank`, agree with the ledger and end, through overlaps, timeouts and stops |
| `onboarding` | identities stay unique as they are written, a profile is verified exactly when a verification was approved, verdicts are final, every request ends |
| `phone_spellings` | violated: two accounts with one number in two spellings |
| `client` | what the tab shows as done is done and in the balance beside it; nothing is posted more often than its mutation may call; nobody is shown as verified in vain; a session is not lost without a reason; every click is answered |

**Bounds.** Two requests are what a race over one wallet or one key needs; with
two handlers, a verify and a webhook, or two deliveries, meet each other and
the initiating request. The properties compare at most two references. An
opening balance of 3 with amounts 1 and 2 has one withdrawal that excludes the
other and two that fit together. The two wallets allow transfers both ways
while a withdrawal of either is under way. Handlers return to idle, so webhooks
and verifies repeat without bound. Wallets, handlers and the requests with the
same kind of answers are interchangeable, hence the symmetry set of
`wallet_safety`; runs with liveness properties use none.

`webhook_capture` has one deposit: events and jobs of different deposits share
nothing but the workers. Two deliveries and two jobs are what duplicates need,
three attempts and one stall are the code's values, and two crashes use up the
stall of a job and then fail it. A delivery starts only while a job is left for
it (the size of `Jobs` is a bound): after the last job the provider is not
followed any further, so `PaidIsWorkedOn` asks that some job ends, which the
first one does. `savings` has two overlapping requests on one plan and its
wallet, which is the most that a pair of rows can be contended for, with
payments from the same wallet beside them; a balance of 10 has room for one of
the amounts.

`sessions` has one user: sessions of different users share nothing, not even a
cache entry. Two sessions let one be rotated into the other or be presented
while the other is cached; two requests are two at one token; three reset
tokens let two outstanding ones meet a third. `wallet_mock` has two users,
amounts 1 and 2, three references (three operations, so that two fill a wallet
and a third contends for it) and one key. `onboarding` has four forms, of which
two have one e-mail address, two one number in one spelling, all one name, and
one has a number that is not accepted; `phone_spellings` has two forms that
differ but for the number they spell. With one suffix and two attempts the candidates for a tag run
out. `client` has one click and one retry where the code has two, and two
tokens of one user, so that an answer can meet the next session; that two users
share a tab only the theorems cover.

`CHECK_DEADLOCK FALSE`: when all requests have been answered and nothing is
left to deliver, the system rests.

**Fairness.** `WalletPayments` has none. What would have to happen in the end is
that a withdrawal under way is settled or released, and only webhooks do that,
which in the assembled application never get to the service. In
`webhook_capture` the provider sends an event until it is acknowledged, a
delivery goes on and a waiting job is taken by a worker (`WF` of each; crashes
are bounded). In `savings` a request's reads and commit are weakly fair; its
two updates are strongly fair, as others may hold the row again and again, but
PostgreSQL hands a row's lock to its waiters in turn. Both transactions update
the wallet before the plan, and this order is what `RequestEnds` rests on: its
mutant, with the plan first in withdrawals, deadlocks.

In `wallet_mock` a request's next step or its rollback is weakly fair: Prisma
ends a transaction after its 15 seconds, so that one of two transfers that wait
for each other goes on. In `onboarding` the same holds of the insert that
waits. In `sessions` every await ends, in a result or an error, and Redis drops
an entry an hour after it was set, whatever reads it. In `client` a call ends,
by an answer or by the timeout, and the page runs its callbacks and timers; the
server, the user and the network owe nothing.

### Findings

- `transitions`. The status assertion runs on an unlocked read in
  `markDepositInitialized` (`wallet.repository.ts:313`) and `markPaymentFailed`
  (`:358`). A delayed write overwrites a terminal status. By the second of the
  two, a credited deposit can end `FAILED` with its money in the wallet.
- `payout_lost`. The `catch` block of `withdrawFiat` takes every error for a
  refusal by the provider (`wallet.service.ts:229`). When the transfer was
  accepted and its answer lost, the customer gets the money twice.
  The same happens without a lost answer when one of the transactions that
  follow it, `attachWithdrawalProviderResult` (`:180`) or
  `settleSuccessfulFiatWithdrawal` (`:202`), fails in the database: TLC finds
  this trace when `Lossy` is empty in `MCPayoutLost.cfg`.
- `amount_mismatch`. `initiateDeposit` and `verifyTransaction` convert between
  naira and kobo, the webhook's way to the worker does not. The worker compares
  kobo with naira, and a deposit that was paid in full uses up its job's three
  attempts with "Verified payment amount does not match the payment intent."
  Its event stays PENDING; the customer gets the money by a verify request.
- `savings_overdraft`. "Insufficient wallet balance" and "Insufficient savings
  balance" are decided on an unlocked read (`savings.repository.ts:116`,
  `:228`), and the updates that follow are not conditional.
- `phone_spellings`. "An account already exists with this Phone Number."
  (`auth.service.ts:46`) is decided on the text, while `normalizePhone` takes
  0803..., 234803... and +234803... for one number (`auth.helpers.ts:8`).

### Observations

Where the repository says nothing of what should happen, the following is no
finding; it is what the models do, and worth knowing.

- A verify request before the customer has paid moves the intent to `FAILED`
  (`wallet.service.ts:265`) while it answers "not successful yet"; a payment
  made afterwards is collected and never credited.
- A stop between `reserveFiatWithdrawal` and the transfer, or the settlement in
  the mock wallet, leaves funds reserved for good: nothing sweeps old intents.
- "Withdrawal is processing." (`wallet.service.ts:218`) leaves the rest to
  `handlePaystackWebhook`, and no event gets there: its route always answers
  401, and the live intake acknowledges transfer events without acting
  (`webhooks.controllers.ts:79`). The reserve stays.
- A `transfer.reversed` after settlement is refused by the status table, which
  knows `SUCCEEDED -> REVERSED` but no operation that writes `REVERSED`.
- A LOCKED plan is locked only if the request sets `locked` too, which defaults
  to false (`savings.repository.ts:231`).
- The `runningBalanceSnapshot` of a savings ledger entry is computed from the
  balance of the first, unlocked read.
- `rotateSessionForUser` updates the session by its id and does not ask whether
  it has been revoked since it was read (`auth.repository.ts:268`): a refresh
  that races a logout, or the detection of its token's reuse, ends with a new
  live session; two refreshes with one token can both rotate it, and no reuse is
  detected. `OverStaysOver` and `OnlyLoginSignsIn` therefore speak of
  sessions that no request has in hand.
- `POST /auth/forgot-password` and `/auth/reset-password` demand a session
  (`auth.routes.ts`), while the client shows their pages to the signed-out
  only.
- A password reset token that two requests have both found sets two passwords
  (`auth.service.ts:304`): `SpentStaysSpent` holds once they have ended. In the
  same way `VerifiedSettles` leaves out the submissions that have passed their
  look at the profile.
- Overlapping KYC submissions of one user may each be approved.
- In the client, the kept KYC status has no end (`staleTime: Infinity`) and
  survives a sign-out; a mutation that is tried again after a sign-out uses the
  next session's token; a late 401 ends a session it does not belong to. Hence
  the condition `OneUser` in two properties and the exception in `SessionKept`.
- A deposit whose answers time out is credited up to three times, since
  every try makes a new idempotency key (`features/wallet/api.ts`). A transfer
  is not tried again, but one that has timed out is shown as an error although
  it may have been done, and a dialog closed while its transfer is pending can
  send it again.

## Proofs

The theorems hold for every value of the constants that the module's named
assumptions admit. Sums are over all references, requests or plans, so these
sets are assumed finite (`RefsAssumption` in `WalletPayments`,
`ConstantsAssumption` elsewhere), as only so many requests are ever made; how
many there are is open. Each proof module has its own `Invariance`.

### SumsProofs

What a wallet's row says is compared with sums over other rows, and `SumOver`
is a fold, that is a recursion over a finite set. The library's induction
theorems take an operator, which the provers at hand cannot instantiate; its
theorem that the strict subsets of a finite set are well-founded takes none.
`Smallest` draws from it that among any subsets of a finite set one has no
smaller one beside it, and each lemma takes the sets that refute it and leads a
smallest one to a contradiction: that the fold has one value and depends on the
elements' values only (`TableExists`, `SumAgrees`), and not on their order
(`SumSplit`). The other modules use `SumChange` (when one element's part in a
sum changes, by its value or by joining or leaving, the sum changes by the
difference), `SumCovers` (a sum of natural numbers is no less than each of
them), `SumAtMost` and `SumOfNone`.

### WalletPaymentsProofs

| Theorem | States |
|---|---|
| `Invariance` | `Spec => []Inv` |
| `TypeCorrect` | `[]TypeOK` |
| `DepositsBacked` | `[]DepositBacked` |
| `SettlementExcludesRelease` | `[]SettledXorReleased` |
| `PayoutOncePerKey` | `[]OnePayoutPerKey` |
| `WithdrawalsStayLegal` | `WithdrawalTransitionsLegal` |
| `FundsMoveWithLedger` | `HeldMovesWithLedger` |
| `ReserveBacked` | `[]ReservedBacked` |
| `LedgerAlwaysBalances` | `[]LedgerBalances` |
| `ProviderDecides` | `PayoutDecides` |
| `ReserveNeverNegative` | `reserved` is never negative |
| `SettlementNeverRefused` | a PROCESSING withdrawal can always be settled |
| `UnpaidUnlessFailed` | `[]ReleasedMeansUnpaid`, if `Lossy` and `Failing` are empty |
| `LegalWhenAlone` | `TransitionsLegal`, if there are no handlers |

None of the properties is inductive by itself: what a request may do at a step
depends on what it found earlier. `Inv` says, for each step, what the request
relies on (`CallStage` for an initiating request, `SharedStage` for the steps
handlers share), where each request's `target` points (`Routing`), how an
intent, its posting and its charge fit together (`RowAgrees`), and that
existing intents have distinct keys (`KeysUnique`).

The argument has three parts. `RowSteps` reduces `Next` to the nine things a
step can do to one reference's row (`RowStep`); `RowKept` draws from it what no
step can take away. `StageKept` shows that a request's assumptions survive the
steps of others; `CallPlaced`, `SharedPlaced`, `HandlerPlaced`,
`HandlerStarts` and `CrashPlaced` that each step establishes the assumptions of
the next. `RowsAgreeStep` and `KeysUniqueStep` do the same for the rows.
`WithdrawalTransitionsLegal` follows from `RowStep`.

**Money.** `MoneySteps` says what any step does to the money: nothing, or all
that the change of one row and its posting entails (`MovesWith`: the reserve
moves by what the row holds, `Hold`, and the wallet's total by what the posting
moves, `Entry`). With `SumChange` the sums over all rows move by the same
amounts (`HeldMoves`, `PostedMoves`), so `ReservedBacked` and `LedgerBalances`
are kept; `HeldMovesWithLedger` is the step itself.

**Payouts.** `PayoutDecides` is about the step that ends a withdrawal, and what
that step may rely on was found out earlier: `PayoutStages` says what each step
knows of the provider's transfer (a settlement follows a success, a release
follows a failure or a reversal), and no other request, failed transaction or
crash takes that away. It holds whatever is lost or fails; the one release that
knows nothing is that of the `catch` block.

`UnpaidUnlessFailed` says when that release is right too. `Sound` are the
requests that lose no answer and have no transaction fail: one of these reaches
the `catch` block with no payout under way. For this a settlement must not be refused, as one that throws runs into the
`catch` block. `ProcessingSettles` shows it: a sum of amounts is no less than
each of them, so by `ReservedBacked` the reserve covers every PROCESSING
withdrawal, and by `KeysUnique` no posting has its key. A settlement therefore
throws only for a withdrawal that has FAILED, of which `PayoutBacked`, inductive
together with `PayoutStages`, says that nothing is paid out.

`UnpaidUnlessFailed` and `LegalWhenAlone` say what the violations in the runs
`payout_lost` and `transitions` depend on: a lost answer,
a failed transaction, and a verify request or webhook between an unlocked read
and its write (`StatusWriters`, `Asserted`).

### WebhookCaptureProofs

| Theorem | States |
|---|---|
| `Invariance` | `Spec => []Inv` |
| `TypeCorrect` | `[]TypeOK` |
| `PostedAtMostOnce` | `[]CreditedOnce` |
| `NeverLost` | `[]ProcessedMeansCredited` |
| `NeverAcknowledgedEarly` | `[]AcknowledgedMeansKept` |

`CreditedOnce` is not inductive: that a deposit is not posted again follows
from its status, and `markPaymentFailed` overwrites a `SUCCEEDED` status. `Inv`
has what the code relies on instead: an intent that can still be posted has no
posting, and one that has a posting is `SUCCEEDED` or `FAILED`, both of which
keep it from being posted again (`CreditAgrees`). It also says that a job at
its second stage has found its deposit posted (`JobAgrees`), and that a
delivery that is about to answer has its event processed or its job queued
(`DeliveryAgrees`).

### SavingsProofs

| Theorem | States |
|---|---|
| `Invariance` | `Spec => []Inv` |
| `NothingMade` | `[]MoneyConserved` |
| `OverdraftIsBounded` | `[]OverdraftBounded` |
| `NothingLost` | `MovesBalanced` |

`Inv` holds `TypeOK`, `Fresh`, `RecordsAgree`, `MoneyConserved` and
`ClaimsBounded`: a request that has updated a row holds its lock and its version
is one amount away from the committed one; a plan's balance is what its
transactions add up to; and the two facts about sums. `Fresh` is kept because
every other writer of a row, another request's commit or a payment, needs the
lock. `MovesBalanced` follows at `Commit`: the amounts by which wallet and plan
change are the same although they were read at different times, and with it
`MoneyConserved`, by `SumChange` over the wallet's plans.

`OverdraftBounded` alone is not inductive, since a request that has passed its
check debits whatever the row holds by then. `ClaimsBounded` counts what the
requests past their checks may still take from a row (`Claimed`): even when all
of it is taken, the row is overdrawn by `Most` at most. A request that passes
its check adds its claim to a row that covers this claim, and the others'
claims are at most one greatest amount each; a commit takes amount and claim
away together; a payment looks at the balance first.

### SessionsProofs

| Theorem | States |
|---|---|
| `Invariance` | `Spec => []Inv` |
| `TokensOutstanding` | `[]OutstandingBounded` |
| `OverFinal` | `OverStaysOver` |
| `SignOutFinal` | `OnlyLoginSignsIn` |
| `TokenFinal` | `SpentStaysSpent` |

`Inv` is `TypeOK` and what requests and the cache know: a request past its
lookup, and a cache entry, name a session of their user that exists; and a
session that has been replaced is revoked, so that reuse is always detected on
a row that is over already. Its last part, `SentApart`, is what bounds the
tokens outstanding: they can be told to come from different requests, as each
insert adds one token of a request that has invalidated all it could see, so
there are no more of them than requests. A session is over (`Over`) when it is revoked or
expired, no cache entry names it and no request is about to cache, accept or
rotate it (`Drained`). The action properties then follow case by case: a step
that makes a session live makes a new one, and its request has come from a
login or from a session that is not over.

### WalletMockProofs

| Theorem | States |
|---|---|
| `Invariance` | `Spec => []Inv` |
| `PostedIffSucceeded` | `[]PostedMeansSucceeded` |
| `OneWithdrawal` | `[]OneWithdrawalPerKey` |
| `WalletsAlwaysAgree` | `[]WalletsAgree` |
| `Implementation` | `ImplementsBank`, the refinement |

`Inv` has two parts. `Held`: a transfer that has debited holds the sender's row
and the funds are still there, because every other writer needs the lock.
`Works`: a request that is to post works on an intent of its own with the
status its transaction asserts. With these each step of `Next` is shown to be a
step of `Bank` or to leave its variables alone. `WalletsAgree` is kept because
a step that moves a balance adds one posting, and one that moves a reserve
changes one intent, so that the sums over both move with the wallet
(`LedgerMoves`, `ReserveMoves`). `OneWithdrawal` rests on the unique index alone:
nothing is assumed of what a request past its lookup has seen.

### OnboardingProofs

| Theorem | States |
|---|---|
| `Invariance` | `Spec => []Inv` |
| `IdentitiesStayUnique` | `[]IdentitiesUnique` |
| `NumbersUniqueAsSpelled` | `[]NumbersUnique`, if every number is always sent in one spelling |
| `VerifiedIffApproved` | `[]VerifiedBacked` |
| `VerdictsStay` | `VerdictsFinal` |
| `SettledStays` | `VerifiedSettles` |

Uniqueness is not inductive, as rows become visible after they were checked:
`Claims` adds that an open insert clashes with no committed row and with no
other open insert, which is what the unique indexes and `Waits` achieve.
It is uniqueness as written: what it means for phone numbers depends on
their spelling, and `NumbersUniqueAsSpelled` says how.
`Submits` says that a submission's row is its own and pending.

### ClientProofs

| Theorem | States |
|---|---|
| `Invariance` | `Spec => []Inv` |
| `PostedSeldom` | `[]TypeOK`, with its bound on postings |
| `NotVerifiedInVain` | `[]VerifiedIsTrue` |
| `SuccessShows` | `[]PostedIsShown` |
| `SessionStays` | `SessionKept` |

What the page shows depends on answers under way, so `Inv` says what these
know: `CallKnows` (a positive KYC answer is true of the user; a 401 is about a
token that is refused) and `ClickKnows` (the postings so far and the calls left
stay within the mutation's tries; a balance kept as valid, and one about to
arrive, include a posting that is shown or about to be). The last part is what
the replacement of a fetch under way is for: without it an older balance
arrives after the success. One lemma for each action shows that `Inv` is kept;
`AnswerKeeps` does what all the server's answers have in common.

### What is only model-checked

Liveness: `PaidIsWorkedOn`, `RequestEnds`, `RequestsEnd` (of `WalletMock` and of
`Onboarding`), `RevocationTakesEffect` and `ClicksAnswered`. They hold under
fairness, and the prover has no rules for `ENABLED`. Every invariant and action
property that a passing run checks is a theorem. The five findings are
counterexamples of runs; three of them have a theorem that says without what
they cannot happen.

## Not modelled

- **Profile**: one row read and updated by its id, no protocol.
- **Observability**: counters in memory that nothing reads back.
- **Bootstrap and HTTP plumbing**: start-up, validation, error formatting. A
  stop of the process at any point is part of the modules.
- **Email**: templates, and a send whose errors are swallowed; nothing depends
  on it.
- `recordFiatWithdrawal` in both wallets, `markPaymentFailed` and the release of
  a withdrawal in the mock wallet, `markPlanCompleted`: no caller.
- The identification webhooks: the controller records and queues them as it does
  `charge.success`, and the job's handler does nothing.
- The savings pages of the client, whose cached plans are written from answers
  that may arrive out of order (`savings-detail-page.tsx`), and more than one
  tab.
