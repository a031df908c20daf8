----------------------------- MODULE WalletMock -----------------------------
(***************************************************************************)
(* The wallet that the application serves: WalletMockService               *)
(* (modules/wallet-mock/wallet-mock.service.ts) over WalletMockRpository   *)
(* (wallet-mock.repository.ts).                                            *)
(*                                                                         *)
(* Transactions run at READ COMMITTED.  An update waits for the row's lock *)
(* and works on the committed version; lock and new version stay with the  *)
(* transaction until it commits.  A transaction that locks one row only is *)
(* one step, at its commit; a transfer locks two, and goes step by step.   *)
(***************************************************************************)
EXTENDS Integers, FiniteSets, Sums

CONSTANTS
  Users,      \* each with the one NGN wallet that registration has made
  Amounts,    \* money amounts
  Refs,       \* references, each of one operation
  Keys,       \* idempotency keys of clients
  Requests,   \* concurrent requests
  Outside,    \* the other side of a deposit or withdrawal
  Nobody,     \* the holder of a free row lock
  NoKey, NoRef

ASSUME ConstantsAssumption ==
  /\ Users # {} /\ Amounts # {}
  /\ Amounts \subseteq Nat \ {0}
  /\ Outside \notin Users
  /\ Nobody \notin Requests
  /\ NoKey \notin Keys
  /\ NoRef \notin Refs /\ IsFiniteSet(Refs)

VARIABLES
  available,   \* Wallet.availableBalance, committed
  reserved,    \* Wallet.reservedBalance, committed
  lock,        \* who holds the lock of a wallet's row
  intent,      \* PaymentIntent rows by reference
  ledger,      \* LedgerTransaction rows with their entries, by reference
  verified,    \* users with KycProfile.verified
  request      \* where a request is and what it works on

wallets == <<available, reserved>>
rows    == <<available, reserved, intent, ledger>>
vars    == <<available, reserved, lock, intent, ledger, verified, request>>

Intents == [type : {"FIAT_DEPOSIT", "FIAT_WITHDRAWAL"}, user : Users, amount : Amounts,
            key : Keys \cup {NoKey}, status : {"INITIATED", "PROCESSING", "SUCCEEDED"}]
NoIntent == [status |-> "none"]

Entries == [from : Users \cup {Outside}, to : Users \cup {Outside}, amount : Amounts]
NoEntry == [amount |-> 0]

Steps == {"idle", "debit", "credit", "commit", "createIntent", "post", "lookup", "reserve",
          "settle"}
RequestStates == [at : Steps, user : Users, to : Users, amount : Amounts,
                  key : Keys \cup {NoKey}, ref : Refs \cup {NoRef}]

TypeOK ==
  /\ available \in [Users -> Nat]
  /\ reserved \in [Users -> Nat]
  /\ lock \in [Users -> Requests \cup {Nobody}]
  /\ intent \in [Refs -> Intents \cup {NoIntent}]
  /\ ledger \in [Refs -> Entries \cup {NoEntry}]
  /\ verified \subseteq Users
  /\ request \in [Requests -> RequestStates]

SomeUser == CHOOSE u \in Users : TRUE
Idle == [at |-> "idle", user |-> SomeUser, to |-> SomeUser,
         amount |-> CHOOSE a \in Amounts : TRUE, key |-> NoKey, ref |-> NoRef]

Init ==
  /\ available = [u \in Users |-> 0]
  /\ reserved = [u \in Users |-> 0]
  /\ lock = [u \in Users |-> Nobody]
  /\ intent = [ref \in Refs |-> NoIntent]
  /\ ledger = [ref \in Refs |-> NoEntry]
  /\ verified = {}
  /\ request = [q \in Requests |-> Idle]
-----------------------------------------------------------------------------
(* Control flow of a request.                                              *)

Goto(q, step) == request' = [request EXCEPT ![q].at = step]
Answer(q)     == request' = [request EXCEPT ![q] = Idle]

\* verifyUserKycProfile.
KycVerified(u) == u \in verified

\* A request arrives and passes the check of its user's KYC profile.
Arrive(q, step, u, to, a, k) ==
  /\ request[q].at = "idle"
  /\ KycVerified(u)
  /\ request' = [request EXCEPT ![q] = [at |-> step, user |-> u, to |-> to, amount |-> a,
                                        key |-> k, ref |-> NoRef]]
  /\ UNCHANGED <<rows, lock, verified>>

\* Mutant: transactions may last for ever.
Untimed(q) == FALSE

\* Every transaction is given a timeout of 15 seconds.
TimesOut(q) == request[q].at # "idle"

Released(q) == [u \in Users |-> IF lock[u] = q THEN Nobody ELSE lock[u]]

\* The transaction times out, a statement fails or the process stops: the
\* database rolls back what is not committed.
Rollback(q) ==
  /\ TimesOut(q)
  /\ lock' = Released(q)
  /\ Answer(q)
  /\ UNCHANGED <<rows, verified>>
-----------------------------------------------------------------------------
(* Rows.                                                                   *)

\* Mutant: updates do not wait for row locks.
AlwaysFree(u) == TRUE

Free(u) == lock[u] = Nobody

Posted(ref)   == ledger[ref] # NoEntry
Exists(ref)   == intent[ref] # NoIntent
Unused(ref)   == ~Exists(ref) /\ ~Posted(ref)

\* References are random: which of the unused ones is taken makes no
\* difference.  Refs bounds how many operations a behaviour makes.
FreshRefs == {ref \in Refs : Unused(ref)}
NewRef    == CHOOSE ref \in FreshRefs : TRUE

\* The lookup of a key sees the committed intents.
KeyFound(k) == k # NoKey /\ \E ref \in Refs : Exists(ref) /\ intent[ref].key = k

\* Mutant: the column of the key has no unique index.
KeyNeverRejected(k) == FALSE

\* PaymentIntent.idempotencyKey is unique: an insert waits for that of another
\* transaction and fails when it has been committed.
KeyRejected(k) == KeyFound(k)

Entry(from, to, a) == [from |-> from, to |-> to, amount |-> a]

\* completeSuccessfulKycVerification sets KycProfile.verified; nothing unsets it.
CompleteKyc(u) ==
  /\ verified' = verified \cup {u}
  /\ UNCHANGED <<rows, lock, request>>
-----------------------------------------------------------------------------
(* transferP2P and the transaction of executeP2PTransfer.                  *)

TransferP2P(q, u, to, a) == to # u /\ Arrive(q, "debit", u, to, a, NoKey)

\* Mutant: the debit has no condition on the balance.
Unconditional(u, a) == TRUE

\* The condition of an update that takes from availableBalance.
Covers(u, a) == available[u] >= a

\* The debit.  Rows that do not meet its condition it does not wait for.
DebitSender(q) ==
  LET r == request[q] IN
  /\ r.at = "debit"
  /\ \/ /\ Covers(r.user, r.amount) /\ Free(r.user)
        /\ lock' = [lock EXCEPT ![r.user] = q]
        /\ Goto(q, "credit")
     \/ /\ ~Covers(r.user, r.amount)
        /\ Answer(q)
        /\ UNCHANGED lock
  /\ UNCHANGED <<rows, verified>>

CreditReceiver(q) ==
  LET r == request[q] IN
  /\ r.at = "credit"
  /\ Free(r.to)
  /\ lock' = [lock EXCEPT ![r.to] = q]
  /\ Goto(q, "commit")
  /\ UNCHANGED <<rows, verified>>

\* Mutant: the receiver's update overwrites the sender's.
OnlyCredited(r) == [available EXCEPT ![r.to] = @ + r.amount]

Transferred(r) == [available EXCEPT ![r.user] = @ - r.amount, ![r.to] = @ + r.amount]

\* The ledger's inserts and the commit.  The mails that follow change nothing.
CommitTransfer(q) ==
  LET r == request[q] IN
  /\ r.at = "commit" /\ FreshRefs # {}
  /\ available' = Transferred(r)
  /\ ledger' = [ledger EXCEPT ![NewRef] = Entry(r.user, r.to, r.amount)]
  /\ lock' = Released(q)
  /\ Answer(q)
  /\ UNCHANGED <<reserved, intent, verified>>
-----------------------------------------------------------------------------
(* initiateFiatDeposit.  The controller asks for a key but does not pass   *)
(* it on.                                                                  *)

InitiateFiatDeposit(q, u, a) == Arrive(q, "createIntent", u, u, a, NoKey)

CreateIntent(r, type, status) ==
  intent' = [intent EXCEPT ![NewRef] = [type |-> type, user |-> r.user, amount |-> r.amount,
                                        key |-> r.key, status |-> status]]

CreateFiatDepositIntent(q) ==
  LET r == request[q] IN
  /\ r.at = "createIntent" /\ FreshRefs # {}
  /\ CreateIntent(r, "FIAT_DEPOSIT", "INITIATED")
  /\ request' = [request EXCEPT ![q].at = "post", ![q].ref = NewRef]
  /\ UNCHANGED <<wallets, lock, ledger, verified>>

\* Mutant: the posting and the status are committed apart.
Unmarked(ref) == intent

Succeeded(ref) == [intent EXCEPT ![ref].status = "SUCCEEDED"]

PostMockFiatDeposit(q) ==
  LET r == request[q] IN
  /\ r.at = "post" /\ Free(r.user)
  /\ available' = [available EXCEPT ![r.user] = @ + r.amount]
  /\ ledger' = [ledger EXCEPT ![r.ref] = Entry(Outside, r.user, r.amount)]
  /\ intent' = Succeeded(r.ref)
  /\ Answer(q)
  /\ UNCHANGED <<reserved, lock, verified>>
-----------------------------------------------------------------------------
(* withdrawFiat, which the controller offers and no route reaches yet.     *)

WithdrawFiat(q, u, a, k) == Arrive(q, "lookup", u, u, a, k)

\* The transaction looks for its key before it locks anything: two requests
\* with one key may both find nothing.  A key that is found ends the request
\* with the intent that it has made.
FindIntentByKey(q) ==
  /\ request[q].at = "lookup"
  /\ IF KeyFound(request[q].key) THEN Answer(q) ELSE Goto(q, "reserve")
  /\ UNCHANGED <<rows, lock, verified>>

\* The rest of the transaction: wallet lock, conditional update and insert.
ReserveFiatWithdrawal(q) ==
  LET r == request[q]
      refused == KeyRejected(r.key) \/ ~Covers(r.user, r.amount)
  IN
  /\ r.at = "reserve"
  /\ \/ /\ refused
        /\ Answer(q)
        /\ UNCHANGED rows
     \/ /\ ~refused /\ Free(r.user) /\ FreshRefs # {}
        /\ available' = [available EXCEPT ![r.user] = @ - r.amount]
        /\ reserved' = [reserved EXCEPT ![r.user] = @ + r.amount]
        /\ CreateIntent(r, "FIAT_WITHDRAWAL", "PROCESSING")
        /\ request' = [request EXCEPT ![q].at = "settle", ![q].ref = NewRef]
        /\ UNCHANGED ledger
  /\ UNCHANGED <<lock, verified>>

\* Mutant: the settlement takes from the available balance as well.
TakenTwice(r) ==
  /\ reserved' = [reserved EXCEPT ![r.user] = @ - r.amount]
  /\ available' = [available EXCEPT ![r.user] = IF @ >= r.amount THEN @ - r.amount ELSE @]

TakenFromReserve(r) ==
  /\ reserved' = [reserved EXCEPT ![r.user] = @ - r.amount]
  /\ UNCHANGED available

SettleSuccessfulFiatWithdrawal(q) ==
  LET r == request[q] IN
  /\ r.at = "settle" /\ Free(r.user)
  /\ reserved[r.user] >= r.amount
  /\ TakenFromReserve(r)
  /\ ledger' = [ledger EXCEPT ![r.ref] = Entry(r.user, Outside, r.amount)]
  /\ intent' = Succeeded(r.ref)
  /\ Answer(q)
  /\ UNCHANGED <<lock, verified>>
-----------------------------------------------------------------------------
Start(q) ==
  \E u \in Users, a \in Amounts :
    \/ \E to \in Users : TransferP2P(q, u, to, a)
    \/ InitiateFiatDeposit(q, u, a)
    \/ \E k \in Keys : WithdrawFiat(q, u, a, k)

Proceed(q) ==
  \/ DebitSender(q) \/ CreditReceiver(q) \/ CommitTransfer(q)
  \/ CreateFiatDepositIntent(q) \/ PostMockFiatDeposit(q)
  \/ FindIntentByKey(q) \/ ReserveFiatWithdrawal(q) \/ SettleSuccessfulFiatWithdrawal(q)

Next ==
  \/ \E q \in Requests : Start(q) \/ Proceed(q) \/ Rollback(q)
  \/ \E u \in Users : CompleteKyc(u)

Spec == Init /\ [][Next]_vars

\* A transaction goes on or, when it waits too long, times out.
Fairness == \A q \in Requests : WF_vars(Proceed(q) \/ Rollback(q))

FairSpec == Spec /\ Fairness
-----------------------------------------------------------------------------
(* Properties.                                                             *)

\* A transfer holds the rows it has updated, and its debit stays covered until
\* it commits: no other operation takes the funds in between.
Held(q) ==
  LET r == request[q] IN
  /\ r.at \in {"credit", "commit"} => lock[r.user] = q /\ Covers(r.user, r.amount)
  /\ r.at = "commit" => lock[r.to] = q

\* A request under way works on the intent that it has made.
Works(q) ==
  LET r == request[q] IN
  /\ r.at # "idle" => r.user \in verified
  /\ r.at \in {"debit", "credit", "commit"} => r.to # r.user
  /\ r.at = "createIntent" => r.key = NoKey
  /\ r.at \notin {"post", "settle"} => r.ref = NoRef
  /\ r.at \in {"post", "settle"} =>
       /\ r.ref \in Refs /\ Exists(r.ref) /\ ~Posted(r.ref)
       /\ intent[r.ref].user = r.user /\ intent[r.ref].amount = r.amount
       /\ intent[r.ref].status = IF r.at = "post" THEN "INITIATED" ELSE "PROCESSING"
       /\ \A p \in Requests : request[p].ref = r.ref => p = q

\* The inductive invariant.
Inv == TypeOK /\ \A q \in Requests : Held(q) /\ Works(q)

Received(u)  == {ref \in Refs : Posted(ref) /\ ledger[ref].to = u}
Sent(u)      == {ref \in Refs : Posted(ref) /\ ledger[ref].from = u}
AmountsOf(S) == SumOver([ref \in Refs |-> ledger[ref].amount], S)

Reserving(u) == {ref \in Refs : /\ Exists(ref) /\ intent[ref].status = "PROCESSING"
                                /\ intent[ref].user = u}
InReserve(u) == SumOver([ref \in Reserving(u) |-> intent[ref].amount], Reserving(u))

\* A wallet holds what the ledger says, and its reserve is what its unfinished
\* withdrawals hold, wherever requests overlap, time out or stop.
WalletsAgree ==
  \A u \in Users :
    /\ available[u] + reserved[u] = AmountsOf(Received(u)) - AmountsOf(Sent(u))
    /\ reserved[u] = InReserve(u)

\* An intent is posted if and only if it has SUCCEEDED: no stop leaves money
\* moved by an intent that may be posted again.
PostedMeansSucceeded ==
  \A ref \in Refs : Exists(ref) => (Posted(ref) <=> intent[ref].status = "SUCCEEDED")

\* Requests with one key withdraw at most once, also when both have been past
\* the lookup before either has inserted its intent: the unique index decides.
OneWithdrawalPerKey ==
  \A p, ref \in Refs :
    (Exists(p) /\ Exists(ref) /\ intent[p].key = intent[ref].key /\ intent[p].key # NoKey) => p = ref

\* Whatever overlaps, the wallets behave like a bank that does one operation
\* after the other, for verified users and funds they have.
B == INSTANCE Bank WITH
       balance <- [u \in Users |-> available[u] + reserved[u]],
       posted  <- {ref \in Refs : Posted(ref)}

ImplementsBank == B!Spec

\* No request waits for ever: transfers in opposite directions, each holding
\* the row the other one waits for, are ended by their timeouts.
RequestsEnd == \A q \in Requests : request[q].at # "idle" ~> request[q].at = "idle"
=============================================================================
