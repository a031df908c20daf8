------------------------------ MODULE Savings ------------------------------
(***************************************************************************)
(* Savings plans: SavingsService (modules/savings/savings.service.ts) over *)
(* SavingsRepository (savings.repository.ts), on the wallets that other    *)
(* operations debit too.                                                   *)
(*                                                                         *)
(* The transactions run at PostgreSQL's default level, READ COMMITTED, and *)
(* take no lock when they read, so each statement is a step of its own: a  *)
(* read sees the committed row; an update waits for the row's lock, works  *)
(* on the committed version and keeps lock and new version to itself until *)
(* the commit.                                                             *)
(***************************************************************************)
EXTENDS Integers, Sums

CONSTANTS
  Wallets, Plans,    \* rows
  WalletOf,          \* SavingsPlan.walletId
  Requests,          \* concurrent requests to fund or to withdraw
  Amounts,           \* money amounts
  InitialBalance,    \* opening balance of each wallet
  Nobody             \* the holder of a free row lock

ASSUME ConstantsAssumption ==
  /\ Wallets \cap Plans = {}
  /\ IsFiniteSet(Plans) /\ IsFiniteSet(Requests)
  /\ WalletOf \in [Plans -> Wallets]
  /\ Amounts \subseteq Nat \ {0} /\ Amounts # {} /\ IsFiniteSet(Amounts)
  /\ InitialBalance \in [Wallets -> Nat]
  /\ Nobody \notin Requests

VARIABLES
  balance,   \* Wallet.availableBalance, committed
  spent,     \* what other operations have taken from a wallet
  saved,     \* SavingsPlan.currentAmount, committed
  recorded,  \* SavingsTransaction rows of a plan: deposits less withdrawals
  plan,      \* SavingsPlan.type, status, locked and unlockDate
  lock,      \* who holds the lock of a row
  request    \* requests, each inside its transaction

vars == <<balance, spent, saved, recorded, plan, lock, request>>
Rows == Wallets \cup Plans

\* unlockDate: absent, still to come or past.
PlanRows == [type : {"FLEXIBLE", "LOCKED"}, status : {"ACTIVE", "CANCELLED"},
             locked : BOOLEAN, unlockDate : {"none", "future", "past"}]
NoPlan   == [type |-> "FLEXIBLE", status |-> "NONE", locked |-> FALSE, unlockDate |-> "none"]

\* newBalance and newSaved are the versions of the rows a request has updated.
RequestStates ==
  [at : {"check", "updateWallet", "updatePlan", "commit"},
   op : {"fund", "withdraw"}, plan : Plans, amount : Amounts,
   newBalance : Int, newSaved : Int]
NoRequest == [at |-> "idle"]

TypeOK ==
  /\ balance \in [Wallets -> Int]
  /\ spent \in [Wallets -> Nat]
  /\ saved \in [Plans -> Int]
  /\ recorded \in [Plans -> Int]
  /\ plan \in [Plans -> PlanRows \cup {NoPlan}]
  /\ lock \in [Rows -> Requests \cup {Nobody}]
  /\ request \in [Requests -> RequestStates \cup {NoRequest}]

Init ==
  /\ balance = InitialBalance
  /\ spent = [w \in Wallets |-> 0]
  /\ saved = [p \in Plans |-> 0]
  /\ recorded = [p \in Plans |-> 0]
  /\ plan = [p \in Plans |-> NoPlan]
  /\ lock = [row \in Rows |-> Nobody]
  /\ request = [q \in Requests |-> NoRequest]
-----------------------------------------------------------------------------
(* Plans.                                                                  *)

Exists(p) == plan[p] # NoPlan

\* Mutant: updates do not wait for row locks.
AlwaysFree(row) == TRUE

Free(row) == lock[row] = Nobody

\* The schema asks for an unlock date when the type is LOCKED; the locked flag is
\* a field of its own.  (A TARGET plan is a FLEXIBLE one with an amount that
\* nothing reads.)
Offered(type, unlockDate) == type = "LOCKED" => unlockDate # "none"

NewPlan(type, locked, unlockDate) ==
  [type |-> type, status |-> "ACTIVE", locked |-> locked, unlockDate |-> unlockDate]

CreatePlan(p, type, locked, unlockDate) ==
  /\ ~Exists(p)
  /\ Offered(type, unlockDate)
  /\ plan' = [plan EXCEPT ![p] = NewPlan(type, locked, unlockDate)]
  /\ UNCHANGED <<balance, spent, saved, recorded, lock, request>>

\* cancelPlan, one update by id: it waits for the row's lock, and neither the
\* amount nor the present status matters.
CancelPlan(p) ==
  /\ Exists(p) /\ Free(p)
  /\ plan' = [plan EXCEPT ![p].status = "CANCELLED"]
  /\ UNCHANGED <<balance, spent, saved, recorded, lock, request>>

\* The unlock date passes.
UnlockDatePasses(p) ==
  /\ plan[p].unlockDate = "future"
  /\ plan' = [plan EXCEPT ![p].unlockDate = "past"]
  /\ UNCHANGED <<balance, spent, saved, recorded, lock, request>>
-----------------------------------------------------------------------------
(* Requests.                                                               *)

\* JavaScript's > on decimal numerals compares them as text, digit by digit.
\* The columns are Decimal(30, 8): at most 22 digits.
Digits(n) == CHOOSE k \in 1..22 : n < 10^k /\ (k = 1 \/ n >= 10^(k - 1))
TextExceeds(m, n) ==
  LET i == Digits(m)
      j == Digits(n)
  IN m * 10^j > n * 10^i \/ (m * 10^j = n * 10^i /\ i > j)

\* fundSavingsPlan and withdrawFromSavingsPlan find the plan.  A withdrawal is
\* refused here when its amount, as text, exceeds the plan's (any amount
\* exceeds "-1").
Start(q, op, p, amount) ==
  /\ request[q] = NoRequest /\ Exists(p)
  /\ op = "withdraw" => saved[p] >= 0 /\ ~TextExceeds(amount, saved[p])
  /\ request' = [request EXCEPT ![q] =
                   [at |-> "check", op |-> op, plan |-> p, amount |-> amount,
                    newBalance |-> 0, newSaved |-> 0]]
  /\ UNCHANGED <<balance, spent, saved, recorded, plan, lock>>

\* Mutant: funding does not look at the wallet's balance.
PlanSuffices(r) == r.op = "withdraw" => saved[r.plan] >= r.amount

\* The paying side's balance, read without a lock.
Suffices(r) ==
  IF r.op = "fund" THEN balance[WalletOf[r.plan]] >= r.amount
                   ELSE saved[r.plan] >= r.amount

StillLocked(p) == plan[p].locked /\ plan[p].unlockDate = "future"

\* Mutant: a withdrawal updates the plan before the wallet.
PlanFirst(r) ==
  CASE r.at = "check" -> IF r.op = "fund" THEN "updateWallet" ELSE "updatePlan"
    [] r.at = "updateWallet" -> IF r.op = "fund" THEN "updatePlan" ELSE "commit"
    [] r.at = "updatePlan" -> IF r.op = "fund" THEN "commit" ELSE "updateWallet"

\* The statements of both transactions come in the same order.
NextStatement(r) ==
  CASE r.at = "check" -> "updateWallet"
    [] r.at = "updateWallet" -> "updatePlan"
    [] r.at = "updatePlan" -> "commit"

\* The reads at the head of depositIntoSavings and withdrawFromSavings; a
\* request they refuse ends.
Check(q) ==
  LET r == request[q]
      passes == Suffices(r) /\ ~(r.op = "withdraw" /\ StillLocked(r.plan))
  IN
  /\ r.at = "check"
  /\ request' = [request EXCEPT ![q] = IF passes THEN [@ EXCEPT !.at = NextStatement(r)]
                                                 ELSE NoRequest]
  /\ UNCHANGED <<balance, spent, saved, recorded, plan, lock>>

\* Mutant: the row is written back without a lock.
Unlocked(q, row) == Free(row) /\ UNCHANGED lock

\* An update waits until the row is free and locks it.
Acquire(q, row) == Free(row) /\ lock' = [lock EXCEPT ![row] = q]

\* What the request adds to the plan and takes from the wallet.
Gain(r) == IF r.op = "fund" THEN r.amount ELSE -r.amount

\* tx.wallet.update, decrement or increment.
UpdateWallet(q) ==
  LET r == request[q] IN
  /\ r.at = "updateWallet"
  /\ Acquire(q, WalletOf[r.plan])
  /\ request' = [request EXCEPT ![q].at = NextStatement(r),
                                ![q].newBalance = balance[WalletOf[r.plan]] - Gain(r)]
  /\ UNCHANGED <<balance, spent, saved, recorded, plan>>

\* tx.savingsPlan.update, increment or decrement.
UpdatePlan(q) ==
  LET r == request[q] IN
  /\ r.at = "updatePlan"
  /\ Acquire(q, r.plan)
  /\ request' = [request EXCEPT ![q].at = NextStatement(r),
                                ![q].newSaved = saved[r.plan] + Gain(r)]
  /\ UNCHANGED <<balance, spent, saved, recorded, plan>>

Released(q) == [row \in Rows |-> IF lock[row] = q THEN Nobody ELSE lock[row]]

\* The new versions of both rows are committed.
Commit(q) ==
  LET r == request[q] IN
  /\ r.at = "commit"
  /\ balance' = [balance EXCEPT ![WalletOf[r.plan]] = r.newBalance]
  /\ saved' = [saved EXCEPT ![r.plan] = r.newSaved]
  /\ lock' = Released(q)
  /\ request' = [request EXCEPT ![q] = NoRequest]
  /\ UNCHANGED <<spent, plan>>

\* The inserts of the ledger transaction and the savings transaction come first.
CommitFunding(q) ==
  LET r == request[q] IN
  /\ Commit(q) /\ r.op = "fund"
  /\ recorded' = [recorded EXCEPT ![r.plan] = @ + r.amount]

CommitWithdrawal(q) ==
  LET r == request[q] IN
  /\ Commit(q) /\ r.op = "withdraw"
  /\ recorded' = [recorded EXCEPT ![r.plan] = @ - r.amount]

Finish(q) == CommitFunding(q) \/ CommitWithdrawal(q)

\* A statement fails, the transaction times out or the process stops.
Rollback(q) ==
  /\ request[q] # NoRequest
  /\ lock' = Released(q)
  /\ request' = [request EXCEPT ![q] = NoRequest]
  /\ UNCHANGED <<balance, spent, saved, recorded, plan>>

\* A withdrawal or transfer of the wallet component: one conditional update.
Spend(w, amount) ==
  /\ Free(w) /\ balance[w] >= amount
  /\ balance' = [balance EXCEPT ![w] = @ - amount]
  /\ spent' = [spent EXCEPT ![w] = @ + amount]
  /\ UNCHANGED <<saved, recorded, plan, lock, request>>
-----------------------------------------------------------------------------
Proceed(q) == Check(q) \/ UpdateWallet(q) \/ UpdatePlan(q) \/ Finish(q)

Next ==
  \/ \E p \in Plans : CancelPlan(p) \/ UnlockDatePasses(p)
  \/ \E p \in Plans, type \in {"FLEXIBLE", "LOCKED"}, locked \in BOOLEAN,
        unlockDate \in {"none", "future"} : CreatePlan(p, type, locked, unlockDate)
  \/ \E q \in Requests, op \in {"fund", "withdraw"}, p \in Plans, amount \in Amounts :
        Start(q, op, p, amount)
  \/ \E q \in Requests : Proceed(q) \/ Rollback(q)
  \/ \E w \in Wallets, amount \in Amounts : Spend(w, amount)

Spec == Init /\ [][Next]_vars

\* Node runs what is ready, and PostgreSQL hands a row's lock to those who wait
\* for it in turn.
Fairness ==
  \A q \in Requests :
    /\ WF_vars(Check(q)) /\ WF_vars(Finish(q))
    /\ SF_vars(UpdateWallet(q)) /\ SF_vars(UpdatePlan(q))

FairSpec == Spec /\ Fairness
-----------------------------------------------------------------------------
(* Properties.                                                             *)

\* What an update has read stays true until the commit: a request that has
\* updated a row holds its lock, and its version follows the committed one.
Fresh(q) ==
  LET r == request[q]
      w == WalletOf[r.plan]
  IN
  /\ r.at \in {"updatePlan", "commit"} =>
       lock[w] = q /\ r.newBalance = balance[w] - Gain(r)
  /\ r.at = "commit" => lock[r.plan] = q /\ r.newSaved = saved[r.plan] + Gain(r)

\* A plan holds what its list of transactions adds up to, although the amount is
\* a counter of its own.
RecordsAgree == \A p \in Plans : saved[p] = recorded[p]

\* What a request that has passed its check may still take from a row.
Claim(r, row) ==
  IF /\ r.at \in {"updateWallet", "updatePlan", "commit"}
     /\ row = IF r.op = "fund" THEN WalletOf[r.plan] ELSE r.plan
  THEN r.amount ELSE 0
Claimed(row) == SumOver([q \in Requests |-> Claim(request[q], row)], Requests)

\* Every request once, with the greatest amount.
Most == Cardinality(Requests) * Max(Amounts)

\* Even when all claims are met, a wallet or a plan is overdrawn by Most at most.
ClaimsBounded ==
  /\ \A w \in Wallets : balance[w] - Claimed(w) >= -Most
  /\ \A p \in Plans : saved[p] - Claimed(p) >= -Most

\* Nothing is lost or made between a wallet, its plans and its payments,
\* however transactions overlap and roll back.
MoneyConserved ==
  \A w \in Wallets :
    balance[w] + spent[w] + SumOver(saved, {p \in Plans : WalletOf[p] = w}) = InitialBalance[w]

\* The inductive invariant: types; no update of a balance or a plan's amount is
\* lost, although neither transaction locks what it reads; and the two facts
\* about sums.
Inv ==
  /\ TypeOK
  /\ \A q \in Requests : Fresh(q)
  /\ RecordsAgree
  /\ MoneyConserved
  /\ ClaimsBounded

\* The same, step by step: a balance changes only by a payment, or by the
\* amount of a request that its plan gains or gives back in the same step.
MovesBalanced ==
  [][\/ UNCHANGED <<balance, spent, saved>>
     \/ \E w \in Wallets, amount \in Amounts :
          /\ balance' = [balance EXCEPT ![w] = @ - amount]
          /\ spent' = [spent EXCEPT ![w] = @ + amount]
          /\ saved' = saved
     \/ \E q \in Requests :
          /\ request[q].at = "commit"
          /\ balance' = [balance EXCEPT ![WalletOf[request[q].plan]] = @ - Gain(request[q])]
          /\ saved' = [saved EXCEPT ![request[q].plan] = @ + Gain(request[q])]
          /\ spent' = spent]_vars

\* Overlapping requests that have all seen enough money can overdraw a wallet
\* or a plan, but by no more than one amount each.
OverdraftBounded ==
  /\ \A w \in Wallets : balance[w] >= -Most
  /\ \A p \in Plans : saved[p] >= -Most

\* A request that is under way ends: transactions do not wait for one another
\* for ever.
RequestEnds == \A q \in Requests : request[q] # NoRequest ~> request[q] = NoRequest

\* What depositIntoSavings and withdrawFromSavings refuse ("Insufficient wallet
\* balance", "Insufficient savings balance", savings.repository.ts:116, :228)
\* does not happen.
NoOverdraft ==
  /\ \A w \in Wallets : balance[w] >= 0
  /\ \A p \in Plans : saved[p] >= 0
=============================================================================
