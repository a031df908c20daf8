--------------------------- MODULE WalletPayments ---------------------------
(***************************************************************************)
(* Wallet balances, payment intents and the ledger: the operations of      *)
(* WalletService (modules/wallet/wallet.service.ts) over WalletRepository  *)
(* (wallet.repository.ts), with the payment provider and the webhooks it   *)
(* sends back.                                                             *)
(*                                                                         *)
(* Requests run concurrently and interleave at every await.  A repository  *)
(* transaction that locks its rows (SELECT ... FOR UPDATE, or a            *)
(* conditional UPDATE) before it decides is one action; a transaction that *)
(* reads without a lock and writes later is two.  Any of them may fail in  *)
(* the database instead, at any step, and roll back (TransactionFails).    *)
(***************************************************************************)
EXTENDS Integers, FiniteSets, Sums, PaymentState

CONSTANTS
  Wallets,            \* wallet rows, one fiat wallet per user
  Refs,               \* references: one initiating request each (randomUUID)
  Handlers,           \* concurrent verify requests and webhook deliveries
  Keys,               \* client idempotency keys
  Amounts,            \* money amounts, in the smallest unit
  InitialBalance,     \* opening available balance of each wallet
  Paystack,           \* the provider's side of a ledger posting
  NoRef, NoKey,       \* a handler without work, a request without a key
  Lossy,              \* requests whose provider calls may take effect and then throw
  Failing,            \* requests whose transactions may fail in the database
  ProcessMayCrash     \* may the API process stop and restart?

ASSUME ConstantsAssumption ==
  /\ Amounts \subseteq Nat \ {0}
  /\ InitialBalance \in [Wallets -> Nat]
  /\ Paystack \notin Wallets
  /\ NoKey \notin Keys
  /\ NoRef \notin Refs
  /\ Refs \cap Handlers = {}
  /\ Lossy \subseteq Refs
  /\ Failing \subseteq Refs \cup Handlers
  /\ ProcessMayCrash \in BOOLEAN

\* Only so many requests are ever made.
ASSUME RefsAssumption == IsFiniteSet(Refs)

VARIABLES
  available, reserved, \* Wallet.availableBalance and Wallet.reservedBalance
  input,               \* the initiating request's body and idempotency key
  status,              \* PaymentIntent.status, "NONE" when there is no row
  authorizationUrl,    \* is PaymentIntent.authorizationUrl set?
  ledger,              \* the LedgerTransaction posted under a reference
  charge, transfer,    \* the provider's records of deposits and payouts
  pc, target           \* where a request is, and the reference it works on

rows == <<available, reserved, status, ledger>>
provider == <<charge, transfer>>
vars == <<available, reserved, input, status, authorizationUrl, ledger,
          charge, transfer, pc, target>>

Requests == Refs \cup Handlers

NoInput   == [kind |-> "NONE", wallet |-> Paystack, amount |-> 0, key |-> NoKey]
NoPosting == [from |-> Paystack, to |-> Paystack, amount |-> 0]

Inputs == [kind : {"FIAT_DEPOSIT", "FIAT_WITHDRAWAL"}, wallet : Wallets,
           amount : Amounts, key : Keys \cup {NoKey}]
Postings == [from : Wallets \cup {Paystack}, to : Wallets \cup {Paystack},
             amount : Amounts]

CallSteps ==
  {"createDeposit", "initiate", "readInit", "writeInit",
   "reserve", "transfer", "attachPending", "attachSuccess", "attachFailed", "catch"}
HandlerSteps == {"verify", "hookVerify", "post"}
SharedSteps  == {"readFailed", "writeFailed", "settle", "release"}

TypeOK ==
  /\ available \in [Wallets -> Nat]
  /\ reserved \in [Wallets -> Int]
  /\ input \in [Refs -> Inputs \cup {NoInput}]
  /\ status \in [Refs -> PaymentStatus \cup {"NONE"}]
  /\ authorizationUrl \in [Refs -> BOOLEAN]
  /\ ledger \in [Refs -> Postings \cup {NoPosting}]
  /\ charge \in [Refs -> [status : {"none", "pending", "failed", "success"},
                          amount : Amounts \cup {0}]]
  /\ transfer \in [Refs -> {"none", "pending", "success", "failed", "reversed"}]
  /\ pc \in [Requests -> CallSteps \cup HandlerSteps \cup SharedSteps \cup {"new", "done"}]
  /\ target \in [Requests -> Refs \cup {NoRef}]

Init ==
  /\ available = InitialBalance
  /\ reserved = [w \in Wallets |-> 0]
  /\ input = [r \in Refs |-> NoInput]
  /\ status = [r \in Refs |-> "NONE"]
  /\ authorizationUrl = [r \in Refs |-> FALSE]
  /\ ledger = [r \in Refs |-> NoPosting]
  /\ charge = [r \in Refs |-> [status |-> "none", amount |-> 0]]
  /\ transfer = [r \in Refs |-> "none"]
  /\ pc = [p \in Requests |-> IF p \in Refs THEN "new" ELSE "done"]
  /\ target = [p \in Requests |-> IF p \in Refs THEN p ELSE NoRef]
-----------------------------------------------------------------------------
(* Control flow of a request.                                              *)

Goto(p, step) ==
  /\ pc' = [pc EXCEPT ![p] = step]
  /\ UNCHANGED target

\* The request answers, with a result or an error.
Return(p) ==
  /\ pc' = [pc EXCEPT ![p] = "done"]
  /\ target' = [target EXCEPT ![p] = IF p \in Refs THEN p ELSE NoRef]

\* The steps inside the try block of initiateFiatDeposit and of withdrawFiat.
DepositTry    == {"initiate", "readInit", "writeInit"}
WithdrawalTry == {"transfer", "attachPending", "attachSuccess", "attachFailed", "settle", "release"}

\* An exception inside a try block goes to its catch block, whatever threw it;
\* before the block, in the catch block, or in a handler, it ends the request.
Throw(p) ==
  \/ p \in Refs /\ pc[p] \in DepositTry /\ Goto(p, "readFailed")
  \/ p \in Refs /\ pc[p] \in WithdrawalTry /\ Goto(p, "catch")
  \/ ~(p \in Refs /\ pc[p] \in DepositTry \cup WithdrawalTry) /\ Return(p)
-----------------------------------------------------------------------------
(* Rows and unique indexes.                                                *)

Exists(r)     == status[r] # "NONE"
IsDeposit(r)  == Exists(r) /\ input[r].kind = "FIAT_DEPOSIT"
IsWithdrawal(r) == Exists(r) /\ input[r].kind = "FIAT_WITHDRAWAL"
Posted(r)     == ledger[r] # NoPosting

\* findUnique({ where: { idempotencyKey } }) finds a payment intent.
KeyFound(k) == k # NoKey /\ \E q \in Refs : Exists(q) /\ input[q].key = k

\* Mutant: no unique index, the lookup alone keeps keys apart.
KeyNeverRejected(k) == FALSE

\* An insert of this key fails on the unique index of the column.
KeyRejected(k) == KeyFound(k)

\* LedgerTransaction.externalReference and .idempotencyKey are unique.
LedgerAccepts(r) ==
  /\ ~Posted(r)
  /\ input[r].key # NoKey =>
       \A q \in Refs : Posted(q) => input[q].key # input[r].key

\* Mutant: the debited and the credited side are swapped.
MoveReversed(from, to, amount) == [from |-> to, to |-> from, amount |-> amount]

\* The entries of a posting: what leaves one side enters the other.
Move(from, to, amount) == [from |-> from, to |-> to, amount |-> amount]
-----------------------------------------------------------------------------
(* Deposits: WalletService.initiateFiatDeposit.                            *)

\* The request arrives and createFiatDepositIntent looks its key up: a known
\* key answers with the existing intent and changes nothing.
InitiateFiatDeposit(r, w, a, k) ==
  /\ pc[r] = "new"
  /\ input' = [input EXCEPT ![r] = [kind |-> "FIAT_DEPOSIT", wallet |-> w,
                                    amount |-> a, key |-> k]]
  /\ IF KeyFound(k) THEN Return(r) ELSE Goto(r, "createDeposit")
  /\ UNCHANGED <<rows, authorizationUrl, provider>>

\* The insert that ends createFiatDepositIntent's transaction.
CreateFiatDepositIntent(r) ==
  /\ pc[r] = "createDeposit"
  /\ \/ /\ ~KeyRejected(input[r].key)
        /\ status' = [status EXCEPT ![r] = "INITIATED"]
        /\ Goto(r, "initiate")
     \/ KeyRejected(input[r].key) /\ Return(r) /\ UNCHANGED status
  /\ UNCHANGED <<available, reserved, input, authorizationUrl, ledger, provider>>

\* paymentProvider.initiateDeposit: a session, an error, or an error after the
\* provider has created the session.
InitiateDeposit(r) ==
  /\ pc[r] = "initiate"
  /\ \/ charge' = [charge EXCEPT ![r].status = "pending"] /\ Goto(r, "readInit")
     \/ UNCHANGED charge /\ Throw(r)
     \/ /\ r \in Lossy
        /\ charge' = [charge EXCEPT ![r].status = "pending"]
        /\ Throw(r)
  /\ UNCHANGED <<rows, input, authorizationUrl, transfer>>

\* markDepositInitialized reads the intent without a lock and asserts the
\* transition; an exception is caught and the payment is marked failed.
ReadForInitialized(r) ==
  /\ pc[r] = "readInit"
  /\ IF assertPaymentTransition(status[r], "AWAITING_CUSTOMER")
     THEN Goto(r, "writeInit") ELSE Throw(r)
  /\ UNCHANGED <<rows, input, authorizationUrl, provider>>

\* ... and then updates the row by id, whatever its status is by now.
MarkDepositInitialized(r) ==
  /\ pc[r] = "writeInit"
  /\ status' = [status EXCEPT ![r] = "AWAITING_CUSTOMER"]
  /\ authorizationUrl' = [authorizationUrl EXCEPT ![r] = TRUE]
  /\ Return(r)
  /\ UNCHANGED <<available, reserved, input, ledger, provider>>

\* markPaymentFailed, called by initiateFiatDeposit and by verifyFiatDeposit,
\* also reads without a lock: FAILED returns, an illegal transition throws.
ReadForFailed(p) ==
  LET s == status[target[p]] IN
  /\ pc[p] = "readFailed"
  /\ IF s # "FAILED" /\ assertPaymentTransition(s, "FAILED")
     THEN Goto(p, "writeFailed") ELSE Return(p)
  /\ UNCHANGED <<rows, input, authorizationUrl, provider>>

\* ... and writes FAILED by id.
MarkPaymentFailed(p) ==
  /\ pc[p] = "writeFailed"
  /\ status' = [status EXCEPT ![target[p]] = "FAILED"]
  /\ Return(p)
  /\ UNCHANGED <<available, reserved, input, authorizationUrl, ledger, provider>>

\* The client has the reference from the answer to its request, or from the
\* answer to a repeat of the request's idempotency key.
ReferenceKnown(r) ==
  \/ authorizationUrl[r]
  \/ \E q \in Refs \ {r} :
       input[r].key # NoKey /\ input[q].key = input[r].key /\ pc[q] = "done"

\* verifyFiatDeposit finds the caller's deposit intent.
VerifyFiatDeposit(h, r) ==
  /\ pc[h] = "done"
  /\ IsDeposit(r) /\ ReferenceKnown(r)
  /\ pc' = [pc EXCEPT ![h] = "verify"]
  /\ target' = [target EXCEPT ![h] = r]
  /\ UNCHANGED <<rows, input, authorizationUrl, provider>>

\* paymentProvider.verifyTransaction, for a user's request and for a
\* charge.success webhook: only the user's request acts on a failed charge.
VerifyTransaction(h) ==
  LET s == charge[target[h]].status IN
  /\ pc[h] \in {"verify", "hookVerify"}
  /\ \/ s = "success" /\ Goto(h, "post")
     \/ s = "failed" /\ pc[h] = "verify" /\ Goto(h, "readFailed")
     \/ Return(h)  \* pending, or the call throws
  /\ UNCHANGED <<rows, input, authorizationUrl, provider>>

\* Mutant: the amount the provider reports is not compared.
AmountUnchecked(r) == TRUE

\* assertProviderAmountMatches against the verified charge.
ProviderAmountMatches(r) == charge[r].amount = input[r].amount

\* Mutant: neither the early return for a settled deposit nor the unique
\* external reference of its posting.
CreditRepeated(r) == assertPaymentTransition(status[r], "SUCCEEDED") /\ ProviderAmountMatches(r)

\* A deposit is credited: it has not been before, the transition is legal, the
\* amounts agree and the ledger takes the posting.
CanCredit(r) ==
  /\ status[r] # "SUCCEEDED"
  /\ assertPaymentTransition(status[r], "SUCCEEDED")
  /\ ProviderAmountMatches(r)
  /\ LedgerAccepts(r)

\* postSuccessfulFiatDeposit, under the row locks of the intent and the wallet:
\* otherwise it answers from the row or throws, and changes nothing.
PostSuccessfulFiatDeposit(h) ==
  LET r == target[h]
      w == input[r].wallet
      a == input[r].amount
  IN
  /\ pc[h] = "post"
  /\ \/ /\ CanCredit(r)
        /\ available' = [available EXCEPT ![w] = @ + a]
        /\ ledger' = [ledger EXCEPT ![r] = Move(Paystack, w, a)]
        /\ status' = [status EXCEPT ![r] = "SUCCEEDED"]
     \/ ~CanCredit(r) /\ UNCHANGED <<available, ledger, status>>
  /\ Return(h)
  /\ UNCHANGED <<reserved, input, authorizationUrl, provider>>
-----------------------------------------------------------------------------
(* Withdrawals: WalletService.withdrawFiat.                                *)

\* The request arrives and reserveFiatWithdrawal looks its key up.
WithdrawFiat(r, w, a, k) ==
  /\ pc[r] = "new"
  /\ input' = [input EXCEPT ![r] = [kind |-> "FIAT_WITHDRAWAL", wallet |-> w,
                                    amount |-> a, key |-> k]]
  /\ IF KeyFound(k) THEN Return(r) ELSE Goto(r, "reserve")
  /\ UNCHANGED <<rows, authorizationUrl, provider>>

\* Mutant: the balance condition left out of the reserving update.
FundsUnchecked(w, a) == TRUE

\* The where clause of the reserving update, evaluated under the row lock.
FundsSuffice(w, a) == available[w] >= a

\* The rest of reserveFiatWithdrawal's transaction: it holds the wallet's row
\* lock, and rolls back on insufficient funds or a key inserted meanwhile.
ReserveFiatWithdrawal(r) ==
  LET w == input[r].wallet
      a == input[r].amount
  IN
  /\ pc[r] = "reserve"
  /\ \/ /\ FundsSuffice(w, a)
        /\ ~KeyRejected(input[r].key)
        /\ available' = [available EXCEPT ![w] = @ - a]
        /\ reserved' = [reserved EXCEPT ![w] = @ + a]
        /\ status' = [status EXCEPT ![r] = "PROCESSING"]
        /\ Goto(r, "transfer")
     \/ /\ ~FundsSuffice(w, a) \/ KeyRejected(input[r].key)
        /\ Return(r)
        /\ UNCHANGED <<available, reserved, status>>
  /\ UNCHANGED <<input, authorizationUrl, ledger, provider>>

\* paymentProvider.transferToBank: an answer with the normalized status, an
\* error, or an error although the provider has accepted the transfer.
TransferToBank(r) ==
  /\ pc[r] = "transfer"
  /\ \/ transfer' = [transfer EXCEPT ![r] = "pending"] /\ Goto(r, "attachPending")
     \/ transfer' = [transfer EXCEPT ![r] = "success"] /\ Goto(r, "attachSuccess")
     \/ transfer' = [transfer EXCEPT ![r] = "failed"]  /\ Goto(r, "attachFailed")
     \/ UNCHANGED transfer /\ Throw(r)
     \/ /\ r \in Lossy
        /\ transfer' = [transfer EXCEPT ![r] = "pending"]
        /\ Throw(r)
  /\ UNCHANGED <<rows, input, authorizationUrl, charge>>

\* Mutant: every answer but success is taken for a failure.
PendingTakenForFailed ==
  [attachPending |-> "release", attachSuccess |-> "settle", attachFailed |-> "release"]

\* What withdrawFiat does once the provider's answer is on the row.
AfterAttach ==
  [attachPending |-> "done", attachSuccess |-> "settle", attachFailed |-> "release"]

\* attachWithdrawalProviderResult stores the provider's identifiers on the
\* locked row (not modelled) and leaves its status alone.
AttachWithdrawalProviderResult(r) ==
  /\ pc[r] \in {"attachPending", "attachSuccess", "attachFailed"}
  /\ Goto(r, AfterAttach[pc[r]])
  /\ UNCHANGED <<rows, input, authorizationUrl, provider>>

\* Mutant: the transition is not asserted before a settlement.
SettleUnasserted(r) == reserved[input[r].wallet] >= input[r].amount /\ LedgerAccepts(r)

\* A settlement goes through: the transition is legal, the wallet's reserve
\* covers the amount and the ledger takes the posting.
CanSettle(r) ==
  /\ assertPaymentTransition(status[r], "SUCCEEDED")
  /\ reserved[input[r].wallet] >= input[r].amount
  /\ LedgerAccepts(r)

\* settleSuccessfulFiatWithdrawal, under the row locks of intent and wallet.
SettleSuccessfulFiatWithdrawal(p) ==
  LET r == target[p]
      w == input[r].wallet
      a == input[r].amount
  IN
  /\ pc[p] = "settle"
  /\ \/ status[r] = "SUCCEEDED" /\ Return(p) /\ UNCHANGED rows
     \/ /\ status[r] # "SUCCEEDED" /\ CanSettle(r)
        /\ reserved' = [reserved EXCEPT ![w] = @ - a]
        /\ ledger' = [ledger EXCEPT ![r] = Move(w, Paystack, a)]
        /\ status' = [status EXCEPT ![r] = "SUCCEEDED"]
        /\ Return(p)
        /\ UNCHANGED available
     \/ status[r] # "SUCCEEDED" /\ ~CanSettle(r) /\ Throw(p) /\ UNCHANGED rows
  /\ UNCHANGED <<input, authorizationUrl, provider>>

\* Mutant: no early return for a withdrawal that was released before.
ReleaseRepeated(r) == FALSE

\* releaseFailedFiatWithdrawal answers from the row without touching it.
AlreadyReleased(r) == status[r] = "FAILED"

\* Mutant: the transition is not asserted before a release.
ReleaseUnasserted(r) == TRUE

CanRelease(r) == assertPaymentTransition(status[r], "FAILED")

\* releaseFailedFiatWithdrawal, under the row locks of intent and wallet.  The
\* update of the wallet does not look at the reserve.
ReleaseFailedFiatWithdrawal(p) ==
  LET r == target[p]
      w == input[r].wallet
      a == input[r].amount
  IN
  /\ pc[p] \in {"release", "catch"}
  /\ \/ AlreadyReleased(r) /\ Return(p) /\ UNCHANGED rows
     \/ /\ ~AlreadyReleased(r) /\ CanRelease(r)
        /\ available' = [available EXCEPT ![w] = @ + a]
        /\ reserved' = [reserved EXCEPT ![w] = @ - a]
        /\ status' = [status EXCEPT ![r] = "FAILED"]
        /\ Return(p)
        /\ UNCHANGED ledger
     \/ ~AlreadyReleased(r) /\ ~CanRelease(r) /\ Throw(p) /\ UNCHANGED rows
  /\ UNCHANGED <<input, authorizationUrl, provider>>
-----------------------------------------------------------------------------
(* Transfers between wallets and webhooks.                                 *)

\* transferP2P (its self-transfer check) and executeP2PTransfer: a conditional
\* debit, a credit and the posting in one transaction.
ExecuteP2PTransfer(r, sender, receiver, a) ==
  /\ pc[r] = "new"
  /\ sender # receiver
  /\ FundsSuffice(sender, a)
  /\ available' = [available EXCEPT ![sender] = @ - a, ![receiver] = @ + a]
  /\ ledger' = [ledger EXCEPT ![r] = Move(sender, receiver, a)]
  /\ Return(r)
  /\ UNCHANGED <<reserved, input, status, authorizationUrl, provider>>

\* The webhook events the provider has reason to send for r.  It may send each
\* of them any number of times, in any order.
Emitted(r) ==
  {e \in {"charge.success", "transfer.success", "transfer.failed", "transfer.reversed"} :
     \/ e = "charge.success"    /\ charge[r].status = "success"
     \/ e = "transfer.success"  /\ transfer[r] \in {"success", "reversed"}
     \/ e = "transfer.failed"   /\ transfer[r] = "failed"
     \/ e = "transfer.reversed" /\ transfer[r] = "reversed"}

\* What handlePaystackWebhook calls for an event.
HookStep(e) ==
  CASE e = "charge.success"    -> "hookVerify"
    [] e = "transfer.success"  -> "settle"
    [] e = "transfer.failed"   -> "release"
    [] e = "transfer.reversed" -> "release"

\* A delivery reaches handlePaystackWebhook, which records it and, when the
\* intent is of the event's type, goes on to act on it.  Its route asks for a
\* user's session and for a raw body that nothing sets, so that in the app as
\* it is assembled none gets there; the intake of the webhooks module answers
\* the transfer events with 200 and does nothing with them.  So no property says
\* that a withdrawal under way ends.
HandlePaystackWebhook(h, r, e) ==
  /\ pc[h] = "done"
  /\ e \in Emitted(r)
  /\ IF e = "charge.success" THEN IsDeposit(r) ELSE IsWithdrawal(r)
  /\ pc' = [pc EXCEPT ![h] = HookStep(e)]
  /\ target' = [target EXCEPT ![h] = r]
  /\ UNCHANGED <<rows, input, authorizationUrl, provider>>
-----------------------------------------------------------------------------
(* The provider, the database and the process.                             *)

\* The customer pays at the authorization URL, possibly after a failed
\* attempt, and possibly another amount than the intent's.
CustomerPays(r, a) ==
  /\ authorizationUrl[r]
  /\ charge[r].status \in {"pending", "failed"}
  /\ charge' = [charge EXCEPT ![r] = [status |-> "success", amount |-> a]]
  /\ UNCHANGED <<rows, input, authorizationUrl, transfer, pc, target>>

\* A payment attempt fails or is abandoned.
ChargeFails(r) ==
  /\ charge[r].status = "pending"
  /\ charge' = [charge EXCEPT ![r].status = "failed"]
  /\ UNCHANGED <<rows, input, authorizationUrl, transfer, pc, target>>

\* A pending payout ends; a successful one may still be reversed by the bank.
TransferConcludes(r) ==
  /\ transfer[r] = "pending"
  /\ \E result \in {"success", "failed"} : transfer' = [transfer EXCEPT ![r] = result]
  /\ UNCHANGED <<rows, input, authorizationUrl, charge, pc, target>>

TransferReversed(r) ==
  /\ transfer[r] = "success"
  /\ transfer' = [transfer EXCEPT ![r] = "reversed"]
  /\ UNCHANGED <<rows, input, authorizationUrl, charge, pc, target>>

\* The steps that wait for the database.
TransactionSteps ==
  {"createDeposit", "readInit", "writeInit", "readFailed", "writeFailed", "reserve",
   "attachPending", "attachSuccess", "attachFailed", "settle", "release", "catch", "post"}

\* The transaction of a step fails before its commit (a database error, no
\* connection free, Prisma's limit on its time): it rolls back and throws.
TransactionFails(p) ==
  /\ p \in Failing
  /\ pc[p] \in TransactionSteps
  /\ Throw(p)
  /\ UNCHANGED <<rows, input, authorizationUrl, provider>>

\* The process stops: every request in flight is gone, the database remains.
Crash ==
  /\ ProcessMayCrash
  /\ \E p \in Requests : pc[p] \notin {"new", "done"}
  /\ pc' = [p \in Requests |-> IF pc[p] = "new" THEN "new" ELSE "done"]
  /\ target' = [p \in Requests |-> IF p \in Refs THEN p ELSE NoRef]
  /\ UNCHANGED <<rows, input, authorizationUrl, provider>>
-----------------------------------------------------------------------------
Arrive(r) ==
  \/ \E w \in Wallets, a \in Amounts, k \in Keys \cup {NoKey} :
       InitiateFiatDeposit(r, w, a, k) \/ WithdrawFiat(r, w, a, k)
  \/ \E sender, receiver \in Wallets, a \in Amounts :
       ExecuteP2PTransfer(r, sender, receiver, a)

\* The next step of a request that is under way.
CallStep(r) ==
  \/ CreateFiatDepositIntent(r) \/ InitiateDeposit(r)
  \/ ReadForInitialized(r) \/ MarkDepositInitialized(r)
  \/ ReserveFiatWithdrawal(r) \/ TransferToBank(r) \/ AttachWithdrawalProviderResult(r)

HandlerStep(h) == VerifyTransaction(h) \/ PostSuccessfulFiatDeposit(h)

SharedStep(p) ==
  \/ ReadForFailed(p) \/ MarkPaymentFailed(p)
  \/ SettleSuccessfulFiatWithdrawal(p) \/ ReleaseFailedFiatWithdrawal(p)

ProviderStep(r) ==
  \/ \E a \in Amounts : CustomerPays(r, a)
  \/ ChargeFails(r) \/ TransferConcludes(r) \/ TransferReversed(r)

Next ==
  \/ \E r \in Refs : Arrive(r) \/ CallStep(r) \/ ProviderStep(r)
  \/ \E h \in Handlers : HandlerStep(h)
  \/ \E p \in Requests : SharedStep(p)
  \/ \E h \in Handlers, r \in Refs : VerifyFiatDeposit(h, r)
  \/ \E h \in Handlers, r \in Refs : \E e \in Emitted(r) : HandlePaystackWebhook(h, r, e)
  \/ \E p \in Requests : TransactionFails(p)
  \/ Crash

Spec == Init /\ [][Next]_vars
-----------------------------------------------------------------------------
(* Properties.                                                             *)

AmountsOf(S) == SumOver([r \in Refs |-> input[r].amount], S)
PostedAmounts(S) == SumOver([r \in Refs |-> ledger[r].amount], S)

\* The reserve of a wallet is exactly what its unfinished withdrawals hold:
\* no repeated webhook, error path or race releases or settles a withdrawal
\* twice, and none forgets it.  The release's update has no condition on the
\* reserve (wallet.repository.ts:987), so only this keeps it from going negative.
ReservedBacked ==
  \A w \in Wallets :
    reserved[w] = AmountsOf({r \in Refs : status[r] = "PROCESSING" /\ input[r].wallet = w})

\* A wallet holds what the ledger says it holds: its opening balance plus the
\* postings to it minus the postings from it, whatever has been retried,
\* redelivered or cut off on the way.
LedgerBalances ==
  \A w \in Wallets :
    available[w] + reserved[w] =
      InitialBalance[w] + PostedAmounts({r \in Refs : ledger[r].to = w})
                        - PostedAmounts({r \in Refs : ledger[r].from = w})

\* Money enters a wallet only for a charge the provider has collected, and in
\* the amount it has collected, though a charge may fail first and be paid
\* later, or in another amount than the intent's (ProviderAmountMatches).
DepositBacked ==
  \A r \in Refs :
    (Posted(r) /\ ledger[r].from = Paystack) =>
      /\ charge[r] = [status |-> "success", amount |-> ledger[r].amount]
      /\ ledger[r].to = input[r].wallet

\* A withdrawal leaves the wallet through exactly one of settlement and
\* release: it is posted if and only if its intent has SUCCEEDED.
SettledXorReleased ==
  \A r \in Refs : IsWithdrawal(r) => (Posted(r) <=> status[r] = "SUCCEEDED")

\* Requests that repeat an idempotency key, even concurrently, reach the
\* provider's transfer at most once between them.
OnePayoutPerKey ==
  \A q, r \in Refs :
    (transfer[q] # "none" /\ transfer[r] # "none" /\ input[q].key = input[r].key)
      => q = r \/ input[q].key = NoKey

\* A withdrawal is settled only when the provider has paid it out, and released
\* only when the provider has refused it or sent it back: but for the release
\* of its own request's catch block, which asks nobody.  No webhook, repeated or
\* late, no crash and no failed transaction gives back what is being paid out.
PayoutDecides ==
  [][\A r \in Refs : (IsWithdrawal(r) /\ status'[r] # status[r]) =>
       \/ status'[r] = "SUCCEEDED" /\ transfer[r] \in {"success", "reversed"}
       \/ status'[r] = "FAILED" /\ transfer[r] \in {"failed", "reversed"}
       \/ status'[r] = "FAILED" /\ pc[r] = "catch" /\ pc'[r] = "done"]_vars

\* Funds are released only for a withdrawal that has failed ("Withdrawal failed
\* and reserved funds were released.", wallet.service.ts:190): no payout that is
\* pending or made belongs to one that has given its reserve back.
ReleasedMeansUnpaid ==
  \A r \in Refs : transfer[r] \in {"pending", "success"} => status[r] # "FAILED"

\* The funds a step adds to or takes from a wallet are those of the ledger
\* posting it makes: no operation moves money off the books.
Entry(posting, w) ==
  (IF posting.to = w THEN posting.amount ELSE 0) - (IF posting.from = w THEN posting.amount ELSE 0)

HeldMovesWithLedger ==
  [][\A w \in Wallets :
       \/ (available[w] + reserved[w])' = available[w] + reserved[w]
       \/ \E r \in Refs :
            /\ ~Posted(r)
            /\ (available[w] + reserved[w])' = available[w] + reserved[w] + Entry(ledger'[r], w)]_vars

\* The status of a withdrawal changes only as the transition table allows, so
\* a late answer, a webhook and the catch block cannot overwrite each other.
WithdrawalTransitionsLegal ==
  [][\A r \in Refs : IsWithdrawal(r) => assertPaymentTransition(status[r], status'[r])]_vars

\* The same for every payment, as payment-state.test.ts:19 has it ("rejects
\* illegal payment state transitions").
TransitionsLegal ==
  [][\A r \in Refs : Exists(r) => assertPaymentTransition(status[r], status'[r])]_vars
=============================================================================
