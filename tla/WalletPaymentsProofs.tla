------------------------ MODULE WalletPaymentsProofs ------------------------
(***************************************************************************)
(* Theorems about WalletPayments for every set of wallets, requests, keys  *)
(* and amounts.  Inv is the inductive invariant: what is true of a row at  *)
(* each step of the requests that work on it.  On it rest the sums over    *)
(* all rows (MoneyStep) and, on these, what requests know of payouts       *)
(* (PayoutStages).                                                         *)
(***************************************************************************)
EXTENDS WalletPayments, SumsProofs

\* Every request under way works on a reference: an initiating request on its
\* own, a handler on the one it was given.
Routing ==
  /\ \A r \in Refs : /\ target[r] = r
                     /\ pc[r] \in CallSteps \cup SharedSteps \cup {"new", "done"}
  /\ \A h \in Handlers : /\ pc[h] \in HandlerSteps \cup SharedSteps \cup {"done"}
                         /\ pc[h] # "done" => target[h] \in Refs

\* No intent, no posting and no charge yet.
Blank(r) == status[r] = "NONE" /\ ~Posted(r) /\ charge[r].status = "none" /\ transfer[r] = "none"

\* What an initiating request knows of its row at each of its steps.
CallStage(r) ==
  /\ pc[r] = "new" => Blank(r) /\ input[r] = NoInput
  /\ pc[r] = "createDeposit" => Blank(r) /\ input[r].kind = "FIAT_DEPOSIT"
  /\ pc[r] = "reserve" => Blank(r) /\ input[r].kind = "FIAT_WITHDRAWAL"
  /\ pc[r] = "initiate" => charge[r].status = "none"
  /\ pc[r] \in {"initiate", "readInit", "writeInit"} =>
       /\ IsDeposit(r) /\ ~Posted(r)
       /\ status[r] \in {"INITIATED", "FAILED"}
  /\ pc[r] \in {"transfer", "attachPending", "attachSuccess", "attachFailed", "catch"} =>
       IsWithdrawal(r)
  /\ authorizationUrl[r] => pc[r] = "done"

CallStages == \A r \in Refs : CallStage(r)

\* What any request knows of the row it works on at the steps they share.
SharedStage(p) ==
  /\ pc[p] \in {"readFailed", "writeFailed", "verify", "hookVerify", "post"} => IsDeposit(target[p])
  /\ pc[p] \in {"settle", "release"} => IsWithdrawal(target[p])
  /\ pc[p] = "post" => charge[target[p]].status = "success"

SharedStages == \A p \in Requests : SharedStage(p)

\* What the row of a reference, its posting and its charge say of each other.
RowAgrees(r) ==
  /\ Exists(r) => input[r] \in Inputs
  /\ (~Exists(r) /\ Posted(r)) => ledger[r].from # Paystack /\ input[r] = NoInput
  /\ ~Exists(r) => transfer[r] = "none"
  /\ IsWithdrawal(r) =>
       /\ status[r] \in {"PROCESSING", "SUCCEEDED", "FAILED"}
       /\ Posted(r) <=> status[r] = "SUCCEEDED"
       /\ Posted(r) => ledger[r].from # Paystack
  /\ IsDeposit(r) => status[r] # "PROCESSING" /\ transfer[r] = "none"
  /\ (IsDeposit(r) /\ Posted(r)) =>
       /\ ledger[r] = Move(Paystack, input[r].wallet, input[r].amount)
       /\ charge[r] = [status |-> "success", amount |-> input[r].amount]

RowsAgree == \A r \in Refs : RowAgrees(r)

\* The unique index on idempotency keys.
KeysUnique ==
  \A q, r \in Refs :
    (Exists(q) /\ Exists(r) /\ input[q].key = input[r].key) => q = r \/ input[q].key = NoKey

Inv == TypeOK /\ Routing /\ CallStages /\ SharedStages /\ RowsAgree /\ KeysUnique
-----------------------------------------------------------------------------
LEMMA InitInv == Init => Inv
  <1> SUFFICES ASSUME Init PROVE Inv
    OBVIOUS
  <1>1. TypeOK
    BY ConstantsAssumption DEF Init, TypeOK, Requests
  <1>2. Routing /\ CallStages /\ SharedStages
    BY ConstantsAssumption DEF Init, Routing, CallStages, CallStage, SharedStages, SharedStage, Blank, Posted, Requests
  <1>3. RowsAgree /\ KeysUnique
    BY DEF Init, RowsAgree, RowAgrees, KeysUnique, Exists, IsDeposit, IsWithdrawal, Posted
  <1>4. QED
    BY <1>1, <1>2, <1>3 DEF Inv

\* The intent a request works on exists from the step at which it relies on it,
\* and carries a wallet and a positive amount.
LEMMA RowInput ==
  ASSUME Inv, NEW r \in Refs, Exists(r)
  PROVE  /\ input[r] \in Inputs
         /\ input[r].wallet \in Wallets
         /\ input[r].amount \in Amounts
         /\ input[r].amount \in Nat \ {0}
  BY ConstantsAssumption DEF Inv, RowsAgree, RowAgrees, Inputs

\* Where a handler or an initiating request has work to do, its target is a
\* reference.
LEMMA TargetIsRef ==
  ASSUME Inv, NEW p \in Requests, pc[p] # "done"
  PROVE  target[p] \in Refs
  BY DEF Inv, Routing, Requests

\* pc and target keep their types however a request goes on.
ControlType ==
  /\ pc \in [Requests -> CallSteps \cup HandlerSteps \cup SharedSteps \cup {"new", "done"}]
  /\ target \in [Requests -> Refs \cup {NoRef}]

LEMMA ControlStep ==
  ASSUME TypeOK, NEW p \in Requests
  PROVE  /\ \A step \in CallSteps \cup HandlerSteps \cup SharedSteps \cup {"done"} :
              Goto(p, step) => ControlType'
         /\ Return(p) => ControlType'
         /\ Throw(p) => ControlType'
  <1>1. ASSUME NEW step \in CallSteps \cup HandlerSteps \cup SharedSteps \cup {"done"}, Goto(p, step)
        PROVE  ControlType'
    BY <1>1 DEF TypeOK, ControlType, Goto
  <1>2. ASSUME Return(p) PROVE ControlType'
    BY <1>2 DEF TypeOK, ControlType, Return
  <1>3. ASSUME Throw(p) PROVE ControlType'
    BY <1>1, <1>2, <1>3 DEF Throw, CallSteps, SharedSteps
  <1>4. QED
    BY <1>1, <1>2, <1>3

LEMMA TypeStep == Inv /\ [Next]_vars => TypeOK'
  <1> SUFFICES ASSUME Inv, [Next]_vars PROVE TypeOK'
    OBVIOUS
  <1> TypeOK
    BY DEF Inv
  <1> USE ConstantsAssumption DEF TypeOK
  <1>1. ASSUME NEW r \in Refs, Arrive(r) PROVE TypeOK'
    <2>1. ASSUME NEW w \in Wallets, NEW a \in Amounts, NEW k \in Keys \cup {NoKey},
                 InitiateFiatDeposit(r, w, a, k) \/ WithdrawFiat(r, w, a, k)
          PROVE TypeOK'
      <3>1. input' \in [Refs -> Inputs \cup {NoInput}]
        BY <2>1 DEF InitiateFiatDeposit, WithdrawFiat, Inputs
      <3>2. ControlType'
        BY <2>1, ControlStep DEF InitiateFiatDeposit, WithdrawFiat, CallSteps, Requests
      <3>3. UNCHANGED <<rows, authorizationUrl, provider>>
        BY <2>1 DEF InitiateFiatDeposit, WithdrawFiat
      <3>4. QED
        BY <3>1, <3>2, <3>3 DEF ControlType, rows, provider
    <2>2. ASSUME NEW sender \in Wallets, NEW receiver \in Wallets, NEW a \in Amounts,
                 ExecuteP2PTransfer(r, sender, receiver, a)
          PROVE TypeOK'
      <3>1. a \in Nat /\ available[sender] \in Nat /\ available[receiver] \in Nat
        OBVIOUS
      <3>2. available' \in [Wallets -> Nat]
        BY <2>2, <3>1 DEF ExecuteP2PTransfer, FundsSuffice
      <3>3. ledger' \in [Refs -> Postings \cup {NoPosting}]
        BY <2>2 DEF ExecuteP2PTransfer, Move, Postings
      <3>4. QED
        BY <2>2, <3>2, <3>3 DEF ExecuteP2PTransfer, Return, provider, Requests
    <2>3. QED
      BY <1>1, <2>1, <2>2 DEF Arrive

  <1>2. ASSUME NEW r \in Refs, CallStep(r) PROVE TypeOK'
    <2> r \in Requests
      BY DEF Requests
    <2> USE DEF CallSteps, SharedSteps, rows, provider
    <2>1. CASE CreateFiatDepositIntent(r)
      <3>1. ControlType'
        BY <2>1, ControlStep DEF CreateFiatDepositIntent
      <3>2. QED
        BY <2>1, <3>1 DEF CreateFiatDepositIntent, PaymentStatus, ControlType
    <2>2. CASE InitiateDeposit(r)
      <3>1. charge' \in [Refs -> [status : {"none", "pending", "failed", "success"},
                                 amount : Amounts \cup {0}]]
        <4>1. charge' = [charge EXCEPT ![r].status = "pending"] \/ charge' = charge
          BY <2>2 DEF InitiateDeposit
        <4>2. QED
          BY <4>1
      <3>2. ControlType'
        BY <2>2, ControlStep DEF InitiateDeposit
      <3>3. QED
        BY <2>2, <3>1, <3>2 DEF InitiateDeposit, ControlType
    <2>3. CASE ReadForInitialized(r)
      BY <2>3, ControlStep DEF ReadForInitialized, ControlType
    <2>4. CASE MarkDepositInitialized(r)
      <3>1. ControlType'
        BY <2>4, ControlStep DEF MarkDepositInitialized
      <3>2. QED
        BY <2>4, <3>1 DEF MarkDepositInitialized, PaymentStatus, ControlType
    <2>5. CASE ReserveFiatWithdrawal(r)
      <3> DEFINE w == input[r].wallet
                 a == input[r].amount
      <3>1. w \in Wallets /\ a \in Nat
        <4>1. input[r].kind = "FIAT_WITHDRAWAL"
          BY <2>5 DEF ReserveFiatWithdrawal, Inv, CallStages, CallStage
        <4>2. input[r] \in Inputs
          BY <4>1 DEF NoInput
        <4>3. QED
          BY <4>2 DEF Inputs
      <3>2. available' \in [Wallets -> Nat] /\ reserved' \in [Wallets -> Int]
        BY <2>5, <3>1 DEF ReserveFiatWithdrawal, FundsSuffice
      <3>3. status' \in [Refs -> PaymentStatus \cup {"NONE"}]
        BY <2>5 DEF ReserveFiatWithdrawal, PaymentStatus
      <3>4. ControlType'
        BY <2>5, ControlStep DEF ReserveFiatWithdrawal
      <3>5. QED
        BY <2>5, <3>2, <3>3, <3>4 DEF ReserveFiatWithdrawal, ControlType
    <2>6. CASE TransferToBank(r)
      <3>1. transfer' \in [Refs -> {"none", "pending", "success", "failed", "reversed"}]
        BY <2>6 DEF TransferToBank
      <3>2. ControlType'
        BY <2>6, ControlStep DEF TransferToBank
      <3>3. QED
        BY <2>6, <3>1, <3>2 DEF TransferToBank, ControlType
    <2>7. CASE AttachWithdrawalProviderResult(r)
      <3>1. AfterAttach[pc[r]] \in SharedSteps \cup {"done"}
        BY <2>7 DEF AttachWithdrawalProviderResult, AfterAttach
      <3>2. QED
        BY <2>7, <3>1, ControlStep DEF AttachWithdrawalProviderResult, ControlType
    <2>8. QED
      BY <1>2, <2>1, <2>2, <2>3, <2>4, <2>5, <2>6, <2>7 DEF CallStep
  <1>3. ASSUME NEW r \in Refs, ProviderStep(r) PROVE TypeOK'
    <2> USE DEF rows
    <2>1. ASSUME NEW a \in Amounts, CustomerPays(r, a) PROVE TypeOK'
      BY <2>1 DEF CustomerPays
    <2>2. CASE ChargeFails(r)
      BY <2>2 DEF ChargeFails
    <2>3. CASE TransferConcludes(r)
      BY <2>3 DEF TransferConcludes
    <2>4. CASE TransferReversed(r)
      BY <2>4 DEF TransferReversed
    <2>5. QED
      BY <1>3, <2>1, <2>2, <2>3, <2>4 DEF ProviderStep
  <1>4. ASSUME NEW h \in Handlers, HandlerStep(h) PROVE TypeOK'
    <2> USE DEF Requests, HandlerSteps, SharedSteps, Goto, Return, rows, provider
    <2>1. CASE VerifyTransaction(h)
      BY <2>1 DEF VerifyTransaction
    <2>2. CASE PostSuccessfulFiatDeposit(h)
      <3> DEFINE r == target[h]
                 w == input[r].wallet
                 a == input[r].amount
      <3>1. r \in Refs /\ Exists(r)
        BY <2>2, TargetIsRef DEF PostSuccessfulFiatDeposit, Inv, SharedStages, SharedStage, IsDeposit
      <3>2. w \in Wallets /\ a \in Amounts /\ a \in Nat
        BY <3>1, RowInput
      <3>3. Move(Paystack, w, a) \in Postings
        BY <3>2 DEF Move, Postings
      <3>4. /\ available' \in [Wallets -> Nat]
            /\ ledger' \in [Refs -> Postings \cup {NoPosting}]
            /\ status' \in [Refs -> PaymentStatus \cup {"NONE"}]
        <4>1. CASE UNCHANGED <<available, ledger, status>>
          BY <4>1
        <4>2. CASE ~UNCHANGED <<available, ledger, status>>
          <5>1. /\ available' = [available EXCEPT ![w] = @ + a]
                /\ ledger' = [ledger EXCEPT ![r] = Move(Paystack, w, a)]
                /\ status' = [status EXCEPT ![r] = "SUCCEEDED"]
            BY <2>2, <4>2 DEF PostSuccessfulFiatDeposit
          <5>2. "SUCCEEDED" \in PaymentStatus /\ available[w] + a \in Nat
            BY <3>2 DEF PaymentStatus, TERMINAL_PAYMENT_STATUSES
          <5> HIDE DEF r, w, a
          <5>3. QED
            BY <3>1, <3>2, <3>3, <5>1, <5>2
        <4>3. QED
          BY <4>1, <4>2
      <3>5. QED
        BY <2>2, <3>4 DEF PostSuccessfulFiatDeposit
    <2>3. QED
      BY <1>4, <2>1, <2>2 DEF HandlerStep
  <1>5. ASSUME NEW p \in Requests, SharedStep(p) PROVE TypeOK'
    <2> USE DEF CallSteps, SharedSteps, Goto, Return, Throw, rows, provider
    <2>1. CASE ReadForFailed(p)
      BY <2>1 DEF ReadForFailed
    <2>2. CASE MarkPaymentFailed(p)
      BY <2>2 DEF MarkPaymentFailed, PaymentStatus, TERMINAL_PAYMENT_STATUSES
    <2> DEFINE r == target[p]
               w == input[r].wallet
               a == input[r].amount
    <2>3. ASSUME pc[p] \in {"settle", "release", "catch"}
          PROVE  /\ r \in Refs /\ w \in Wallets /\ a \in Amounts /\ a \in Nat
                 /\ Move(w, Paystack, a) \in Postings
      <3>1. r \in Refs
        BY <2>3, TargetIsRef
      <3>2. Exists(r)
        BY <2>3, <3>1 DEF Inv, CallStages, CallStage, SharedStages, SharedStage, IsWithdrawal, Requests, Routing, HandlerSteps
      <3>3. QED
        BY <3>1, <3>2, RowInput DEF Move, Postings
    <2>4. CASE SettleSuccessfulFiatWithdrawal(p)
      <3>1. /\ reserved' \in [Wallets -> Int]
            /\ ledger' \in [Refs -> Postings \cup {NoPosting}]
            /\ status' \in [Refs -> PaymentStatus \cup {"NONE"}]
            /\ available' = available
        <4>1. CASE rows' = rows
          BY <4>1
        <4>2. CASE /\ reserved' = [reserved EXCEPT ![w] = @ - a]
                   /\ ledger' = [ledger EXCEPT ![r] = Move(w, Paystack, a)]
                   /\ status' = [status EXCEPT ![r] = "SUCCEEDED"]
                   /\ available' = available
                   /\ pc[p] = "settle"
          BY <2>3, <4>2 DEF PaymentStatus, TERMINAL_PAYMENT_STATUSES
        <4>3. QED
          BY <2>4, <4>1, <4>2 DEF SettleSuccessfulFiatWithdrawal
      <3>2. pc' \in [Requests -> CallSteps \cup HandlerSteps \cup SharedSteps \cup {"new", "done"}]
            /\ target' \in [Requests -> Refs \cup {NoRef}]
        BY <2>4 DEF SettleSuccessfulFiatWithdrawal
      <3>3. QED
        BY <2>4, <3>1, <3>2 DEF SettleSuccessfulFiatWithdrawal
    <2>5. CASE ReleaseFailedFiatWithdrawal(p)
      <3>1. reserved' \in [Wallets -> Int] /\ available' \in [Wallets -> Nat]
        BY <2>3, <2>5 DEF ReleaseFailedFiatWithdrawal
      <3>2. status' \in [Refs -> PaymentStatus \cup {"NONE"}] /\ ledger' = ledger
        BY <2>3, <2>5 DEF ReleaseFailedFiatWithdrawal, PaymentStatus, TERMINAL_PAYMENT_STATUSES
      <3>3. ControlType'
        BY <2>5, ControlStep DEF ReleaseFailedFiatWithdrawal
      <3>4. QED
        BY <2>5, <3>1, <3>2, <3>3 DEF ReleaseFailedFiatWithdrawal, ControlType
    <2>6. QED
      BY <1>5, <2>1, <2>2, <2>4, <2>5 DEF SharedStep
  <1>6. ASSUME NEW h \in Handlers, NEW r \in Refs, VerifyFiatDeposit(h, r) PROVE TypeOK'
    BY <1>6 DEF VerifyFiatDeposit, Requests, HandlerSteps, rows, provider
  <1>7. ASSUME NEW h \in Handlers, NEW r \in Refs, NEW e \in Emitted(r), HandlePaystackWebhook(h, r, e)
        PROVE  TypeOK'
    <2>1. HookStep(e) \in {"hookVerify", "settle", "release"}
      BY DEF HookStep, Emitted
    <2>2. QED
      BY <1>7, <2>1 DEF HandlePaystackWebhook, Requests, HandlerSteps, SharedSteps, rows, provider
  <1>8. CASE Crash
    BY <1>8 DEF Crash, Requests, rows, provider
  <1>9. ASSUME NEW p \in Requests, TransactionFails(p) PROVE TypeOK'
    BY <1>9, ControlStep DEF TransactionFails, ControlType, rows, provider
  <1>10. CASE UNCHANGED vars
    BY <1>10 DEF vars
  <1>11. QED
    BY <1>1, <1>2, <1>3, <1>4, <1>5, <1>6, <1>7, <1>8, <1>9, <1>10 DEF Next
-----------------------------------------------------------------------------
\* What one step may do to the row of a reference, its posting and the
\* provider's records of it.
Others(r) == UNCHANGED <<ledger[r], charge[r], transfer[r]>>

\* The row of a request that has not arrived changes only as it arrives.
Arrives(r) == pc[r] = "new" /\ pc'[r] # "new"

RowStays(r) == UNCHANGED <<input[r], status[r]>> /\ Others(r)

BodyReceived(r) == Arrives(r) /\ input'[r] \in Inputs /\ UNCHANGED status[r] /\ Others(r)

TransferPosted(r) ==
  /\ Arrives(r)
  /\ \E sender, receiver \in Wallets, a \in Amounts : ledger'[r] = Move(sender, receiver, a)
  /\ UNCHANGED <<input[r], status[r], charge[r], transfer[r]>>

IntentCreated(r) ==
  /\ \/ pc[r] = "createDeposit" /\ status' = [status EXCEPT ![r] = "INITIATED"]
     \/ pc[r] = "reserve" /\ status' = [status EXCEPT ![r] = "PROCESSING"]
  /\ ~KeyRejected(input[r].key)
  /\ pc'[r] \in {"initiate", "transfer"}
  /\ UNCHANGED input /\ Others(r)

StatusWritten(r) ==
  /\ \/ pc[r] = "writeInit" /\ pc'[r] = "done" /\ status'[r] = "AWAITING_CUSTOMER"
     \/ IsDeposit(r) /\ status'[r] = "FAILED"
     \/ IsWithdrawal(r) /\ ~AlreadyReleased(r) /\ CanRelease(r) /\ status'[r] = "FAILED"
  /\ UNCHANGED input[r] /\ Others(r)

DepositCredited(r) ==
  /\ IsDeposit(r) /\ charge[r].status = "success" /\ CanCredit(r)
  /\ status'[r] = "SUCCEEDED"
  /\ ledger'[r] = Move(Paystack, input[r].wallet, input[r].amount)
  /\ UNCHANGED <<input[r], charge[r], transfer[r]>>

WithdrawalSettled(r) ==
  /\ IsWithdrawal(r) /\ status[r] # "SUCCEEDED" /\ CanSettle(r)
  /\ status'[r] = "SUCCEEDED"
  /\ ledger'[r] = Move(input[r].wallet, Paystack, input[r].amount)
  /\ UNCHANGED <<input[r], charge[r], transfer[r]>>

ChargeMoves(r) ==
  /\ \/ pc[r] = "initiate" /\ pc'[r] # "initiate" /\ charge'[r].status = "pending"
     \/ charge[r].status = "pending" /\ charge'[r].status = "failed"
     \/ authorizationUrl[r] /\ charge[r].status \in {"pending", "failed"}
  /\ UNCHANGED <<input[r], status[r], ledger[r], transfer[r]>>

TransferMoves(r) ==
  /\ pc[r] = "transfer" \/ transfer[r] # "none"
  /\ transfer'[r] # "none"
  /\ UNCHANGED <<input[r], status[r], ledger[r], charge[r]>>

RowStep(r) ==
  \/ RowStays(r) \/ BodyReceived(r) \/ TransferPosted(r) \/ IntentCreated(r) \/ StatusWritten(r)
  \/ DepositCredited(r) \/ WithdrawalSettled(r) \/ ChargeMoves(r) \/ TransferMoves(r)

LEMMA RowSteps ==
  ASSUME Inv, [Next]_vars, NEW r \in Refs
  PROVE  RowStep(r)
  <1> TypeOK
    BY DEF Inv
  <1> USE DEF TypeOK, Others, Arrives, Requests, RowStays, BodyReceived, TransferPosted,
              IntentCreated, StatusWritten, DepositCredited, WithdrawalSettled,
              ChargeMoves, TransferMoves
  <1>1. ASSUME NEW q \in Refs, Arrive(q) PROVE RowStep(r)
    <2>1. ASSUME NEW w \in Wallets, NEW a \in Amounts, NEW k \in Keys \cup {NoKey},
                 InitiateFiatDeposit(q, w, a, k) \/ WithdrawFiat(q, w, a, k)
          PROVE RowStep(r)
      <3>1. input'[q] \in Inputs /\ pc[q] = "new" /\ UNCHANGED <<rows, provider>>
        BY <2>1 DEF InitiateFiatDeposit, WithdrawFiat, Inputs
      <3>2. pc'[q] # "new"
        BY <2>1 DEF InitiateFiatDeposit, WithdrawFiat, Goto, Return
      <3>3. r # q => input'[r] = input[r]
        BY <2>1 DEF InitiateFiatDeposit, WithdrawFiat
      <3>4. QED
        BY <3>1, <3>2, <3>3 DEF RowStep, rows, provider
    <2>2. ASSUME NEW sender \in Wallets, NEW receiver \in Wallets, NEW a \in Amounts,
                 ExecuteP2PTransfer(q, sender, receiver, a)
          PROVE RowStep(r)
      BY <2>2 DEF ExecuteP2PTransfer, Return, RowStep, provider
    <2>3. QED
      BY <1>1, <2>1, <2>2 DEF Arrive
  <1>2. ASSUME NEW q \in Refs, CallStep(q) PROVE RowStep(r)
    <2> USE DEF rows, provider
    <2>1. CASE CreateFiatDepositIntent(q)
      BY <2>1 DEF CreateFiatDepositIntent, Goto, RowStep
    <2>2. CASE InitiateDeposit(q)
      BY <2>2 DEF InitiateDeposit, Goto, Throw, DepositTry, RowStep
    <2>3. CASE ReadForInitialized(q) \/ AttachWithdrawalProviderResult(q)
      BY <2>3 DEF ReadForInitialized, AttachWithdrawalProviderResult, RowStep
    <2>4. CASE MarkDepositInitialized(q)
      BY <2>4 DEF MarkDepositInitialized, Return, RowStep
    <2>5. CASE ReserveFiatWithdrawal(q)
      BY <2>5 DEF ReserveFiatWithdrawal, Goto, RowStep
    <2>6. CASE TransferToBank(q)
      BY <2>6 DEF TransferToBank, RowStep
    <2>7. QED
      BY <1>2, <2>1, <2>2, <2>3, <2>4, <2>5, <2>6 DEF CallStep
  <1>3. ASSUME NEW q \in Refs, ProviderStep(q) PROVE RowStep(r)
    <2> USE DEF rows
    <2>1. ASSUME NEW a \in Amounts, CustomerPays(q, a) PROVE RowStep(r)
      BY <2>1 DEF CustomerPays, RowStep
    <2>2. CASE ChargeFails(q)
      BY <2>2 DEF ChargeFails, RowStep
    <2>3. CASE TransferConcludes(q) \/ TransferReversed(q)
      BY <2>3 DEF TransferConcludes, TransferReversed, RowStep
    <2>4. QED
      BY <1>3, <2>1, <2>2, <2>3 DEF ProviderStep
  <1>4. ASSUME NEW h \in Handlers, HandlerStep(h) PROVE RowStep(r)
    <2>1. CASE VerifyTransaction(h)
      BY <2>1 DEF VerifyTransaction, RowStep, rows, provider
    <2>2. CASE PostSuccessfulFiatDeposit(h)
      <3>1. h \in Requests /\ pc[h] = "post"
        BY <2>2 DEF PostSuccessfulFiatDeposit, Requests
      <3>2. target[h] \in Refs /\ IsDeposit(target[h]) /\ charge[target[h]].status = "success"
        BY <3>1, TargetIsRef DEF Inv, SharedStages, SharedStage
      <3>3. QED
        BY <2>2, <3>2 DEF PostSuccessfulFiatDeposit, RowStep, provider
    <2>3. QED
      BY <1>4, <2>1, <2>2 DEF HandlerStep
  <1>5. ASSUME NEW p \in Requests, SharedStep(p) PROVE RowStep(r)
    <2> USE DEF rows, provider
    <2>1. CASE ReadForFailed(p)
      BY <2>1 DEF ReadForFailed, RowStep
    <2>2. CASE MarkPaymentFailed(p)
      <3>1. IsDeposit(target[p])
        BY <2>2 DEF MarkPaymentFailed, Inv, SharedStages, SharedStage
      <3>2. QED
        BY <2>2, <3>1 DEF MarkPaymentFailed, RowStep
    <2>3. ASSUME pc[p] \in {"settle", "release", "catch"}
          PROVE  target[p] \in Refs /\ IsWithdrawal(target[p])
      <3>1. target[p] \in Refs
        BY <2>3, TargetIsRef
      <3>2. CASE pc[p] = "catch"
        <4>1. p \in Refs
          BY <3>2 DEF Inv, Routing, Requests, HandlerSteps, SharedSteps
        <4>2. target[p] = p /\ IsWithdrawal(p)
          BY <3>2, <4>1 DEF Inv, Routing, CallStages, CallStage
        <4>3. QED
          BY <3>1, <4>2
      <3>3. CASE pc[p] # "catch"
        BY <2>3, <3>1, <3>3 DEF Inv, SharedStages, SharedStage
      <3>4. QED
        BY <3>1, <3>2, <3>3
    <2>4. CASE SettleSuccessfulFiatWithdrawal(p)
      BY <2>3, <2>4 DEF SettleSuccessfulFiatWithdrawal, RowStep
    <2>5. CASE ReleaseFailedFiatWithdrawal(p)
      BY <2>3, <2>5 DEF ReleaseFailedFiatWithdrawal, RowStep
    <2>6. QED
      BY <1>5, <2>1, <2>2, <2>4, <2>5 DEF SharedStep
  <1>6. ASSUME NEW h \in Handlers, NEW q \in Refs, VerifyFiatDeposit(h, q) PROVE RowStep(r)
    BY <1>6 DEF VerifyFiatDeposit, RowStep, rows, provider
  <1>7. ASSUME NEW h \in Handlers, NEW q \in Refs, NEW e \in Emitted(q), HandlePaystackWebhook(h, q, e)
        PROVE  RowStep(r)
    BY <1>7 DEF HandlePaystackWebhook, RowStep, rows, provider
  <1>8. CASE Crash
    BY <1>8 DEF Crash, RowStep, rows, provider
  <1>9. ASSUME NEW p \in Requests, TransactionFails(p) PROVE RowStep(r)
    BY <1>9 DEF TransactionFails, RowStep, rows, provider
  <1>10. CASE UNCHANGED vars
    BY <1>10 DEF vars, RowStep
  <1>11. QED
    BY <1>1, <1>2, <1>3, <1>4, <1>5, <1>6, <1>7, <1>8, <1>9, <1>10 DEF Next

\* An intent keeps its kind, wallet, amount and key, a successful charge of it
\* keeps its amount, and neither disappears.
LEMMA RowKept ==
  ASSUME Inv, NEW r \in Refs, RowStep(r)
  PROVE  /\ Exists(r) => Exists(r)' /\ input'[r] = input[r]
         /\ IsDeposit(r) => IsDeposit(r)'
         /\ IsWithdrawal(r) => IsWithdrawal(r)'
         /\ (IsDeposit(r) /\ charge[r].status = "success") => charge'[r] = charge[r]
  <1> TypeOK /\ CallStage(r)
    BY DEF Inv, CallStages
  <1>1. Exists(r) => Exists(r)' /\ input'[r] = input[r]
    BY DEF CallStage, Blank, Exists, RowStep, RowStays, BodyReceived, TransferPosted,
           IntentCreated, StatusWritten, DepositCredited, WithdrawalSettled,
           ChargeMoves, TransferMoves, Arrives
  <1>2. (IsDeposit(r) /\ charge[r].status = "success") => charge'[r] = charge[r]
    BY DEF CallStage, RowStep, RowStays, BodyReceived, TransferPosted,
           IntentCreated, StatusWritten, DepositCredited, WithdrawalSettled,
           ChargeMoves, TransferMoves, Others
  <1>3. QED
    BY <1>1, <1>2 DEF IsDeposit, IsWithdrawal

LEMMA RowsAgreeStep ==
  ASSUME Inv, [Next]_vars
  PROVE  RowsAgree'
  <1> SUFFICES ASSUME NEW r \in Refs PROVE RowAgrees(r)'
    BY DEF RowsAgree
  <1> TypeOK /\ CallStage(r) /\ RowAgrees(r)
    BY DEF Inv, CallStages, RowsAgree
  <1> USE DEF RowAgrees, Exists, IsDeposit, IsWithdrawal, Posted
  <1>1. CASE RowStays(r)
    BY <1>1 DEF RowStays, Others
  <1>2. CASE BodyReceived(r)
    BY <1>2 DEF BodyReceived, Others, Arrives, CallStage, Blank
  <1>3. CASE TransferPosted(r)
    BY <1>3, ConstantsAssumption DEF TransferPosted, Arrives, CallStage, Blank, Move
  <1>4. CASE IntentCreated(r)
    <2>1. /\ ~Posted(r) /\ ~Posted(r)' /\ input'[r] = input[r] /\ input[r] # NoInput
          /\ transfer'[r] = "none"
      BY <1>4 DEF IntentCreated, Others, CallStage, Blank, NoInput
    <2>2. input[r] \in Inputs
      BY <2>1 DEF TypeOK
    <2>3. \/ status'[r] = "INITIATED" /\ input[r].kind = "FIAT_DEPOSIT"
          \/ status'[r] = "PROCESSING" /\ input[r].kind = "FIAT_WITHDRAWAL"
      BY <1>4 DEF IntentCreated, CallStage, TypeOK
    <2>4. QED
      BY <2>1, <2>2, <2>3
  <1>5. CASE StatusWritten(r)
    BY <1>5
    DEF StatusWritten, Others, CallStage, AlreadyReleased, CanRelease,
        assertPaymentTransition, ALLOWED_TRANSITIONS
  <1>6. CASE DepositCredited(r)
    <2>1. input[r] \in Inputs /\ charge[r] = [status |-> "success", amount |-> input[r].amount]
      BY <1>6 DEF DepositCredited, CanCredit, ProviderAmountMatches, TypeOK
    <2>2. QED
      BY <1>6, <2>1 DEF DepositCredited
  <1>7. CASE WithdrawalSettled(r)
    <2>1. input[r] \in Inputs /\ input[r].wallet \in Wallets /\ input[r].wallet # Paystack
      BY <1>7, ConstantsAssumption DEF WithdrawalSettled, Inputs
    <2>2. QED
      BY <1>7, <2>1 DEF WithdrawalSettled, Move, NoPosting
  <1>8. CASE ChargeMoves(r)
    BY <1>8 DEF ChargeMoves, CallStage
  <1>9. CASE TransferMoves(r)
    BY <1>9 DEF TransferMoves, CallStage
  <1>10. QED
    BY RowSteps, <1>1, <1>2, <1>3, <1>4, <1>5, <1>6, <1>7, <1>8, <1>9 DEF RowStep

LEMMA KeysUniqueStep ==
  ASSUME Inv, [Next]_vars
  PROVE  KeysUnique'
  <1> SUFFICES ASSUME NEW q \in Refs, NEW r \in Refs, q # r,
                      Exists(q)', Exists(r)', (input[q].key = input[r].key)'
               PROVE  input'[q].key = NoKey
    BY DEF KeysUnique
  <1> TypeOK /\ KeysUnique /\ RowStep(q) /\ RowStep(r)
    BY RowSteps DEF Inv
  \* The insert of x is refused while another intent has its key.
  <1>1. ASSUME NEW x \in Refs, NEW y \in Refs, x # y, ~Exists(x), Exists(x)', Exists(y)',
               RowStep(x), (input[x].key = input[y].key)'
        PROVE  input'[x].key = NoKey
    <2>1. IntentCreated(x)
      BY <1>1 DEF RowStep, RowStays, BodyReceived, TransferPosted, StatusWritten,
                  DepositCredited, WithdrawalSettled, ChargeMoves, TransferMoves,
                  Exists, IsDeposit, IsWithdrawal, Inv, CallStages, CallStage
    <2>2. Exists(y) /\ input' = input
      BY <1>1, <2>1 DEF IntentCreated, Exists, TypeOK
    <2>3. QED
      BY <1>1, <2>1, <2>2 DEF IntentCreated, KeyRejected, KeyFound
  <1>2. CASE ~Exists(q)
    BY <1>1, <1>2
  <1>3. CASE ~Exists(r)
    BY <1>1, <1>3
  <1>4. CASE Exists(q) /\ Exists(r)
    BY <1>4, RowKept DEF KeysUnique
  <1>5. QED
    BY <1>2, <1>3, <1>4
-----------------------------------------------------------------------------
\* Every step moves one request at most, unless it is a crash.
OnlyMoves(p) == \A q \in Requests \ {p} : pc'[q] = pc[q] /\ target'[q] = target[q]

LEMMA OneMoves ==
  ASSUME TypeOK, NEW p \in Requests
  PROVE  /\ \A step : Goto(p, step) => OnlyMoves(p)
         /\ Return(p) => OnlyMoves(p)
         /\ Throw(p) => OnlyMoves(p)
  BY DEF TypeOK, OnlyMoves, Goto, Return, Throw

LEMMA CallMoves ==
  ASSUME Inv, NEW r \in Refs
  PROVE  /\ Arrive(r) => OnlyMoves(r)
         /\ CallStep(r) => OnlyMoves(r)
         /\ ProviderStep(r) => UNCHANGED <<pc, target>>
  <1> TypeOK /\ r \in Requests
    BY DEF Inv, Requests
  <1>1. ASSUME Arrive(r) PROVE OnlyMoves(r)
    BY <1>1, OneMoves, Zenon DEF Arrive, InitiateFiatDeposit, WithdrawFiat, ExecuteP2PTransfer
  <1>2. ASSUME CallStep(r) PROVE OnlyMoves(r)
    <2>1. CASE CreateFiatDepositIntent(r)
      BY <2>1, OneMoves, Zenon DEF CreateFiatDepositIntent
    <2>2. CASE InitiateDeposit(r)
      BY <2>2, OneMoves, Zenon DEF InitiateDeposit
    <2>3. CASE ReadForInitialized(r)
      BY <2>3, OneMoves, Zenon DEF ReadForInitialized
    <2>4. CASE MarkDepositInitialized(r)
      BY <2>4, OneMoves, Zenon DEF MarkDepositInitialized
    <2>5. CASE ReserveFiatWithdrawal(r)
      BY <2>5, OneMoves, Zenon DEF ReserveFiatWithdrawal
    <2>6. CASE TransferToBank(r)
      BY <2>6, OneMoves, Zenon DEF TransferToBank
    <2>7. CASE AttachWithdrawalProviderResult(r)
      BY <2>7, OneMoves, Zenon DEF AttachWithdrawalProviderResult
    <2>8. QED
      BY <1>2, <2>1, <2>2, <2>3, <2>4, <2>5, <2>6, <2>7 DEF CallStep
  <1>3. ASSUME ProviderStep(r) PROVE UNCHANGED <<pc, target>>
    BY <1>3 DEF ProviderStep, CustomerPays, ChargeFails, TransferConcludes, TransferReversed
  <1>4. QED
    BY <1>1, <1>2, <1>3

LEMMA HandlerMoves ==
  ASSUME Inv, NEW p \in Requests
  PROVE  /\ HandlerStep(p) => OnlyMoves(p)
         /\ SharedStep(p) => OnlyMoves(p)
         /\ TransactionFails(p) => OnlyMoves(p)
         /\ \A r \in Refs : VerifyFiatDeposit(p, r) => OnlyMoves(p)
         /\ \A r \in Refs : \A e \in Emitted(r) : HandlePaystackWebhook(p, r, e) => OnlyMoves(p)
  <1> TypeOK
    BY DEF Inv
  <1>1. ASSUME HandlerStep(p) PROVE OnlyMoves(p)
    BY <1>1, OneMoves, Zenon DEF HandlerStep, VerifyTransaction, PostSuccessfulFiatDeposit
  <1>2. ASSUME SharedStep(p) PROVE OnlyMoves(p)
    <2>1. CASE ReadForFailed(p)
      BY <2>1, OneMoves, Zenon DEF ReadForFailed
    <2>2. CASE MarkPaymentFailed(p)
      BY <2>2, OneMoves, Zenon DEF MarkPaymentFailed
    <2>3. CASE SettleSuccessfulFiatWithdrawal(p)
      BY <2>3, OneMoves, Zenon DEF SettleSuccessfulFiatWithdrawal
    <2>4. CASE ReleaseFailedFiatWithdrawal(p)
      BY <2>4, OneMoves, Zenon DEF ReleaseFailedFiatWithdrawal
    <2>5. QED
      BY <1>2, <2>1, <2>2, <2>3, <2>4 DEF SharedStep
  <1>3. ASSUME NEW r \in Refs, VerifyFiatDeposit(p, r) PROVE OnlyMoves(p)
    BY <1>3 DEF VerifyFiatDeposit, OnlyMoves, TypeOK
  <1>4. ASSUME NEW r \in Refs, NEW e \in Emitted(r), HandlePaystackWebhook(p, r, e)
        PROVE  OnlyMoves(p)
    BY <1>4 DEF HandlePaystackWebhook, OnlyMoves, TypeOK
  <1>5. ASSUME TransactionFails(p) PROVE OnlyMoves(p)
    BY <1>5, OneMoves, Zenon DEF TransactionFails
  <1>6. QED
    BY <1>1, <1>2, <1>3, <1>4, <1>5
-----------------------------------------------------------------------------
\* All that the invariant says of the place where a request is.
Placed(p) ==
  /\ p \in Refs =>
       /\ target[p] = p
       /\ pc[p] \in CallSteps \cup SharedSteps \cup {"new", "done"}
       /\ CallStage(p)
  /\ p \in Handlers =>
       /\ pc[p] \in HandlerSteps \cup SharedSteps \cup {"done"}
       /\ pc[p] # "done" => target[p] \in Refs
  /\ SharedStage(p)

LEMMA PlacedInv ==
  /\ Inv => \A p \in Requests : Placed(p)
  /\ (\A p \in Requests : Placed(p)') => Routing' /\ CallStages' /\ SharedStages'
  BY DEF Inv, Placed, Routing, CallStages, SharedStages, Requests

LEMMA UrlStep ==
  ASSUME Inv, [Next]_vars, NEW r \in Refs, authorizationUrl'[r]
  PROVE  authorizationUrl[r] \/ (pc[r] = "writeInit" /\ pc'[r] = "done")
  <1> TypeOK
    BY DEF Inv
  <1>1. CASE \E q \in Refs : MarkDepositInitialized(q)
    BY <1>1 DEF MarkDepositInitialized, TypeOK, Return, Requests
  <1>2. CASE UNCHANGED authorizationUrl
    BY <1>2
  <1>3. CASE \E q \in Refs : CallStep(q)
    BY <1>1, <1>2, <1>3, Zenon
    DEF CallStep, CreateFiatDepositIntent, InitiateDeposit, ReadForInitialized,
        ReserveFiatWithdrawal, TransferToBank, AttachWithdrawalProviderResult
  <1>4. CASE \E q \in Refs : Arrive(q) \/ ProviderStep(q)
    BY <1>2, <1>4, Zenon
    DEF Arrive, InitiateFiatDeposit, WithdrawFiat, ExecuteP2PTransfer, ProviderStep,
        CustomerPays, ChargeFails, TransferConcludes, TransferReversed
  <1>5. CASE \E p \in Requests : HandlerStep(p) \/ SharedStep(p)
    BY <1>2, <1>5, Zenon
    DEF HandlerStep, VerifyTransaction, PostSuccessfulFiatDeposit, SharedStep, ReadForFailed,
        MarkPaymentFailed, SettleSuccessfulFiatWithdrawal, ReleaseFailedFiatWithdrawal
  <1>6. ASSUME NEW h \in Handlers, NEW q \in Refs, VerifyFiatDeposit(h, q)
        PROVE  UNCHANGED authorizationUrl
    BY <1>6 DEF VerifyFiatDeposit
  <1>7. ASSUME NEW h \in Handlers, NEW q \in Refs, NEW e \in Emitted(q), HandlePaystackWebhook(h, q, e)
        PROVE  UNCHANGED authorizationUrl
    BY <1>7 DEF HandlePaystackWebhook
  <1>8. CASE Crash \/ UNCHANGED vars
    BY <1>2, <1>8 DEF Crash, vars
  <1>9. CASE \E p \in Requests : TransactionFails(p)
    BY <1>2, <1>9 DEF TransactionFails
  <1>10. QED
    BY <1>2, <1>3, <1>4, <1>5, <1>6, <1>7, <1>8, <1>9 DEF Next, Requests

\* What a request relies on stays true while it is where it is.
LEMMA StageKept ==
  ASSUME Inv, [Next]_vars, NEW p \in Requests, pc'[p] = pc[p], target'[p] = target[p]
  PROVE  Placed(p)'
  <1> TypeOK /\ Placed(p)
    BY PlacedInv DEF Inv
  <1>1. ASSUME p \in Refs PROVE CallStage(p)'
    <2> RowStep(p) /\ CallStage(p)
      BY <1>1, RowSteps DEF Placed
    <2>1. pc[p] \in {"new", "createDeposit", "reserve"} => Blank(p)' /\ input'[p] = input[p]
      BY <1>1 DEF CallStage, Blank, Posted, Exists, IsDeposit, IsWithdrawal, RowStep, RowStays,
        BodyReceived, TransferPosted, IntentCreated, StatusWritten, DepositCredited,
        WithdrawalSettled, ChargeMoves, TransferMoves, Others, Arrives
    <2>2. pc[p] = "initiate" => charge'[p].status = "none"
      BY <1>1 DEF CallStage, RowStep, RowStays,
        BodyReceived, TransferPosted, IntentCreated, StatusWritten, DepositCredited,
        WithdrawalSettled, ChargeMoves, TransferMoves, Others
    <2>3. ASSUME pc[p] \in {"initiate", "readInit", "writeInit"}
          PROVE  ~Posted(p)' /\ status'[p] \in {"INITIATED", "FAILED"}
      <3>1. ~IsWithdrawal(p) /\ ~CanCredit(p)
        BY <2>3 DEF CallStage, IsDeposit, IsWithdrawal, CanCredit,
          assertPaymentTransition, ALLOWED_TRANSITIONS
      <3>2. QED
        BY <2>3, <3>1 DEF CallStage, Posted, RowStep, RowStays,
          BodyReceived, TransferPosted, IntentCreated, StatusWritten, DepositCredited,
          WithdrawalSettled, ChargeMoves, TransferMoves, Others, Arrives
    <2>4. /\ IsDeposit(p) => IsDeposit(p)'
          /\ IsWithdrawal(p) => IsWithdrawal(p)'
      BY <1>1, RowKept
    <2>5. authorizationUrl'[p] => pc'[p] = "done"
      BY <1>1, UrlStep DEF CallStage
    <2>6. QED
      BY <2>1, <2>2, <2>3, <2>4, <2>5 DEF CallStage
  <1>2. SharedStage(p)'
    <2>1. CASE target[p] \in Refs
      <3>1. PICK r \in Refs : r = target[p]
        BY <2>1
      <3>2. /\ IsDeposit(r) => IsDeposit(r)'
            /\ IsWithdrawal(r) => IsWithdrawal(r)'
            /\ (IsDeposit(r) /\ charge[r].status = "success") => charge'[r] = charge[r]
        BY RowSteps, RowKept
      <3>3. QED
        BY <3>1, <3>2 DEF Placed, SharedStage, IsDeposit, IsWithdrawal, Exists
    <2>2. CASE target[p] \notin Refs
      BY <2>2 DEF Placed, SharedStage, Requests
    <2>3. QED
      BY <2>1, <2>2
  <1>3. QED
    BY <1>1, <1>2 DEF Placed

\* Where a request goes, what it relies on is true.
LEMMA CallPlaced ==
  ASSUME Inv, [Next]_vars, NEW r \in Refs, Arrive(r) \/ CallStep(r)
  PROVE  Placed(r)'
  <1> TypeOK /\ r \in Requests /\ r \notin Handlers /\ target[r] = r /\ CallStage(r)
    BY ConstantsAssumption DEF Inv, Routing, CallStages, Requests
  <1> RowStep(r)
    BY RowSteps
  <1>1. SUFFICES /\ target'[r] = r
                 /\ pc'[r] \in CallSteps \cup SharedSteps \cup {"done"}
                 /\ CallStage(r)'
                 /\ pc'[r] = "readFailed" => IsDeposit(r)'
                 /\ pc'[r] \in {"settle", "release"} => IsWithdrawal(r)'
                 /\ pc'[r] \notin {"writeFailed", "verify", "hookVerify", "post"}
    BY Zenon DEF Placed, SharedStage, IsDeposit, IsWithdrawal, Exists
  <1>2. /\ IsDeposit(r) => IsDeposit(r)'
        /\ IsWithdrawal(r) => IsWithdrawal(r)'
    BY RowKept
  <1>3. ASSUME pc[r] # "done" PROVE ~authorizationUrl'[r] \/ pc'[r] = "done"
    BY <1>3, UrlStep DEF CallStage
  <1> USE DEF TypeOK, Requests, CallSteps, SharedSteps, Goto, Return, Throw, DepositTry, WithdrawalTry
  <1>4. ASSUME Arrive(r) PROVE <1>1!1
    <2>1. pc[r] = "new" /\ Blank(r)
      BY <1>4 DEF Arrive, InitiateFiatDeposit, WithdrawFiat, ExecuteP2PTransfer, CallStage
    <2>2. ASSUME NEW w \in Wallets, NEW a \in Amounts, NEW k \in Keys \cup {NoKey},
                 InitiateFiatDeposit(r, w, a, k) \/ WithdrawFiat(r, w, a, k)
          PROVE  <1>1!1
      BY <2>1, <2>2, <1>3 DEF InitiateFiatDeposit, WithdrawFiat, rows, provider, CallStage,
        Blank, Posted
    <2>3. ASSUME NEW sender \in Wallets, NEW receiver \in Wallets, NEW a \in Amounts,
                 ExecuteP2PTransfer(r, sender, receiver, a)
          PROVE  <1>1!1
      BY <2>1, <2>3, <1>3 DEF ExecuteP2PTransfer, CallStage
    <2>4. QED
      BY <1>4, <2>2, <2>3 DEF Arrive
  <1>5. ASSUME CallStep(r) PROVE <1>1!1
    <2> USE <1>3 DEF rows, provider
    <2>1. CASE CreateFiatDepositIntent(r)
      BY <2>1 DEF CreateFiatDepositIntent, CallStage, Blank, Posted, IsDeposit, Exists
    <2>2. CASE InitiateDeposit(r)
      BY <1>2, <2>2 DEF InitiateDeposit, CallStage, Posted
    <2>3. CASE ReadForInitialized(r)
      BY <1>2, <2>3 DEF ReadForInitialized, CallStage, Posted
    <2>4. CASE MarkDepositInitialized(r)
      BY <2>4 DEF MarkDepositInitialized, CallStage
    <2>5. CASE ReserveFiatWithdrawal(r)
      BY <2>5 DEF ReserveFiatWithdrawal, CallStage, IsWithdrawal, Exists
    <2>6. CASE TransferToBank(r)
      BY <1>2, <2>6 DEF TransferToBank, CallStage
    <2>7. CASE AttachWithdrawalProviderResult(r)
      BY <1>2, <2>7 DEF AttachWithdrawalProviderResult, AfterAttach, CallStage
    <2>8. QED
      BY <1>5, <2>1, <2>2, <2>3, <2>4, <2>5, <2>6, <2>7 DEF CallStep
  <1>6. QED
    BY <1>4, <1>5

LEMMA SharedPlaced ==
  ASSUME Inv, [Next]_vars, NEW p \in Requests, SharedStep(p)
  PROVE  Placed(p)'
  <1> TypeOK /\ Placed(p)
    BY PlacedInv DEF Inv
  <1> USE DEF TypeOK, SharedSteps, HandlerSteps, CallSteps, Requests, Goto, Return, Throw, DepositTry, WithdrawalTry
  <1>1. pc[p] \in SharedSteps \cup {"catch"}
    BY DEF SharedStep, ReadForFailed, MarkPaymentFailed, SettleSuccessfulFiatWithdrawal,
           ReleaseFailedFiatWithdrawal
  <1>2. PICK r \in Refs : r = target[p]
    BY <1>1, TargetIsRef
  <1>3. /\ IsDeposit(r) => IsDeposit(r)'
        /\ IsWithdrawal(r) => IsWithdrawal(r)'
    BY <1>2, RowSteps, RowKept
  <1>4. p \in Refs => ~authorizationUrl'[p] \/ pc'[p] = "done"
    <2>1. p \in Refs /\ authorizationUrl[p] => pc[p] = "done"
      BY DEF Placed, CallStage
    <2>2. pc[p] # "done"
      BY <1>1
    <2>3. QED
      BY <2>1, <2>2, UrlStep
  <1>5. /\ pc[p] = "readFailed" => pc'[p] \in {"writeFailed", "done"}
        /\ pc[p] = "writeFailed" => pc'[p] = "done"
        /\ pc[p] \in {"settle", "release", "catch"} =>
             pc'[p] = "done" \/ (p \in Refs /\ pc'[p] = "catch")
        /\ target'[p] = IF pc'[p] = "done" /\ p \notin Refs THEN NoRef ELSE target[p]
    <2> p \in Refs => target[p] = p
      BY DEF Placed
    <2>1. CASE ReadForFailed(p)
      BY <2>1 DEF ReadForFailed
    <2>2. CASE MarkPaymentFailed(p)
      BY <2>2 DEF MarkPaymentFailed
    <2>3. CASE SettleSuccessfulFiatWithdrawal(p)
      BY <2>3 DEF SettleSuccessfulFiatWithdrawal
    <2>4. CASE ReleaseFailedFiatWithdrawal(p)
      BY <2>4 DEF ReleaseFailedFiatWithdrawal
    <2>5. QED
      BY <2>1, <2>2, <2>3, <2>4 DEF SharedStep
  <1>6. CASE pc'[p] = "done"
    BY <1>5, <1>6, ConstantsAssumption DEF Placed, CallStage, SharedStage
  <1>7. CASE pc'[p] = "writeFailed"
    <2>1. target'[p] = target[p] /\ IsDeposit(r)
      BY <1>1, <1>2, <1>5, <1>7 DEF Placed, SharedStage
    <2>2. IsDeposit(target[p])'
      BY <1>2, <1>3, <2>1 DEF IsDeposit, Exists
    <2>3. QED
      BY <1>2, <1>4, <1>7, <2>1, <2>2, ConstantsAssumption DEF Placed, CallStage, SharedStage
  <1>8. CASE pc'[p] = "catch" /\ p \in Refs
    <2>1. target'[p] = p /\ target[p] = p
      BY <1>5, <1>8 DEF Placed
    <2>2. IsWithdrawal(p)'
      BY <1>1, <1>2, <1>3, <1>5, <1>8, <2>1 DEF Placed, SharedStage, CallStage
    <2>3. QED
      BY <1>4, <1>8, <2>1, <2>2, ConstantsAssumption DEF Placed, CallStage, SharedStage
  <1>9. QED
    BY <1>1, <1>5, <1>6, <1>7, <1>8

LEMMA HandlerPlaced ==
  ASSUME Inv, [Next]_vars, NEW h \in Handlers, HandlerStep(h)
  PROVE  Placed(h)'
  <1> h \in Requests /\ h \notin Refs /\ TypeOK /\ Placed(h)
    BY PlacedInv, ConstantsAssumption DEF Inv, Requests
  <1> USE DEF TypeOK, SharedSteps, HandlerSteps, Goto, Return
  <1>1. CASE PostSuccessfulFiatDeposit(h)
    BY <1>1 DEF PostSuccessfulFiatDeposit, Placed, SharedStage
  <1>2. CASE VerifyTransaction(h)
    <2>1. target[h] \in Refs /\ IsDeposit(target[h])
      BY <1>2 DEF VerifyTransaction, Placed, SharedStage
    <2>2. IsDeposit(target[h])' \/ pc'[h] = "done"
      BY <1>2, <2>1 DEF VerifyTransaction, IsDeposit, Exists, rows
    <2>3. QED
      BY <1>2, <2>1, <2>2 DEF VerifyTransaction, Placed, SharedStage, rows, provider
  <1>3. QED
    BY <1>1, <1>2 DEF HandlerStep

LEMMA HandlerStarts ==
  ASSUME Inv, [Next]_vars, NEW h \in Handlers, NEW r \in Refs,
         VerifyFiatDeposit(h, r) \/ (\E e \in Emitted(r) : HandlePaystackWebhook(h, r, e))
  PROVE  Placed(h)'
  <1> h \in Requests /\ h \notin Refs /\ TypeOK
    BY ConstantsAssumption DEF Inv, Requests
  <1> USE DEF TypeOK, SharedSteps, HandlerSteps
  <1>1. CASE VerifyFiatDeposit(h, r)
    <2>1. pc'[h] = "verify" /\ target'[h] = r /\ IsDeposit(r)
      BY <1>1 DEF VerifyFiatDeposit
    <2>2. IsDeposit(target[h])'
      BY <1>1, <2>1 DEF VerifyFiatDeposit, IsDeposit, Exists, rows
    <2>3. QED
      BY <2>1, <2>2 DEF Placed, SharedStage
  <1>2. ASSUME NEW e \in Emitted(r), HandlePaystackWebhook(h, r, e) PROVE Placed(h)'
    <2>1. /\ pc'[h] = HookStep(e) /\ target'[h] = r
          /\ e = "charge.success" => IsDeposit(r)
          /\ e # "charge.success" => IsWithdrawal(r)
      BY <1>2 DEF HandlePaystackWebhook
    <2>2. /\ IsDeposit(r) => IsDeposit(target[h])'
          /\ IsWithdrawal(r) => IsWithdrawal(target[h])'
      BY <1>2, <2>1 DEF HandlePaystackWebhook, IsDeposit, IsWithdrawal, Exists, rows
    <2>3. \/ e = "charge.success" /\ HookStep(e) = "hookVerify"
          \/ e # "charge.success" /\ HookStep(e) \in {"settle", "release"}
      BY DEF HookStep, Emitted
    <2>4. QED
      BY <2>1, <2>2, <2>3 DEF Placed, SharedStage
  <1>3. QED
    BY <1>1, <1>2

\* A request whose transaction has failed is in the catch block of its try
\* block, or gone.
LEMMA FailurePlaced ==
  ASSUME Inv, [Next]_vars, NEW p \in Requests, TransactionFails(p)
  PROVE  Placed(p)'
  <1> TypeOK /\ Placed(p)
    BY PlacedInv DEF Inv
  <1>1. CASE p \in Refs /\ pc[p] \in DepositTry
    <2>1. p \notin Handlers /\ pc'[p] = "readFailed" /\ target'[p] = p /\ IsDeposit(p) /\ ~authorizationUrl[p]
      BY <1>1, ConstantsAssumption
      DEF TransactionFails, Throw, Goto, TypeOK, Placed, CallStage, DepositTry, WithdrawalTry
    <2>2. IsDeposit(target[p])' /\ ~authorizationUrl'[p]
      BY <2>1 DEF TransactionFails, IsDeposit, Exists, rows
    <2>3. QED
      BY <2>1, <2>2 DEF Placed, CallStage, SharedStage, SharedSteps
  <1>2. CASE p \in Refs /\ pc[p] \in WithdrawalTry
    <2>1. p \notin Handlers /\ pc'[p] = "catch" /\ target'[p] = p /\ IsWithdrawal(p) /\ ~authorizationUrl[p]
      BY <1>2, ConstantsAssumption
      DEF TransactionFails, Throw, Goto, TypeOK, Placed, CallStage, SharedStage, DepositTry, WithdrawalTry
    <2>2. IsWithdrawal(p)' /\ ~authorizationUrl'[p]
      BY <2>1 DEF TransactionFails, IsWithdrawal, Exists, rows
    <2>3. QED
      BY <2>1, <2>2 DEF Placed, CallStage, SharedStage, CallSteps
  <1>3. CASE ~(p \in Refs /\ pc[p] \in DepositTry \cup WithdrawalTry)
    <2>1. pc'[p] = "done" /\ target'[p] = IF p \in Refs THEN p ELSE NoRef
      BY <1>3 DEF TransactionFails, Throw, Return, TypeOK
    <2>2. QED
      BY <2>1 DEF Placed, CallStage, SharedStage
  <1>4. QED
    BY <1>1, <1>2, <1>3

LEMMA CrashPlaced ==
  ASSUME Inv, [Next]_vars, Crash, NEW p \in Requests
  PROVE  Placed(p)'
  <1>1. Placed(p) /\ TypeOK
    BY PlacedInv DEF Inv
  <1>2. CASE p \in Refs /\ pc[p] = "new"
    BY <1>1, <1>2, StageKept DEF Crash, Placed
  <1>3. CASE ~(p \in Refs /\ pc[p] = "new")
    <2>1. pc'[p] = "done" /\ target'[p] = IF p \in Refs THEN p ELSE NoRef
      BY <1>1, <1>3 DEF Crash, Placed, HandlerSteps, SharedSteps, Requests
    <2>2. QED
      BY <2>1 DEF Placed, CallStage, SharedStage
  <1>4. QED
    BY <1>2, <1>3

LEMMA PlacedStep ==
  ASSUME Inv, [Next]_vars
  PROVE  Routing' /\ CallStages' /\ SharedStages'
  <1> SUFFICES ASSUME NEW p \in Requests PROVE Placed(p)'
    BY PlacedInv
  <1>1. CASE \E r \in Refs : Arrive(r) \/ CallStep(r)
    BY <1>1, CallMoves, CallPlaced, StageKept DEF OnlyMoves
  <1>2. CASE \E r \in Refs : ProviderStep(r)
    BY <1>2, CallMoves, StageKept
  <1>3. CASE \E h \in Handlers : HandlerStep(h)
    BY <1>3, HandlerMoves, HandlerPlaced, StageKept DEF OnlyMoves, Requests
  <1>4. CASE \E q \in Requests : SharedStep(q)
    BY <1>4, HandlerMoves, SharedPlaced, StageKept DEF OnlyMoves
  <1>5. ASSUME NEW h \in Handlers, NEW r \in Refs, VerifyFiatDeposit(h, r) PROVE Placed(p)'
    BY <1>5, HandlerMoves, HandlerStarts, StageKept DEF OnlyMoves, Requests
  <1>6. ASSUME NEW h \in Handlers, NEW r \in Refs, NEW e \in Emitted(r),
               HandlePaystackWebhook(h, r, e)
        PROVE  Placed(p)'
    BY <1>6, HandlerMoves, HandlerStarts, StageKept DEF OnlyMoves, Requests
  <1>7. CASE Crash
    BY <1>7, CrashPlaced
  <1>8. CASE UNCHANGED vars
    BY <1>8, StageKept DEF vars
  <1>9. CASE \E q \in Requests : TransactionFails(q)
    BY <1>9, HandlerMoves, FailurePlaced, StageKept DEF OnlyMoves
  <1>10. QED
    BY <1>1, <1>2, <1>3, <1>4, <1>5, <1>6, <1>7, <1>8, <1>9 DEF Next
-----------------------------------------------------------------------------
LEMMA InvStep == Inv /\ [Next]_vars => Inv'
  BY TypeStep, PlacedStep, RowsAgreeStep, KeysUniqueStep DEF Inv

\* Inv holds of every reachable state, for any wallets, requests, keys and
\* amounts, whatever crashes and lost answers there are.
THEOREM Invariance == Spec => []Inv
  <1>1. Init => Inv
    BY InitInv
  <1>2. Inv /\ [Next]_vars => Inv'
    BY InvStep
  <1>3. QED
    BY <1>1, <1>2, PTL DEF Spec

\* Every variable keeps its type: in particular no available balance is ever
\* negative, which WalletRepository leaves to the conditions of its updates.
THEOREM TypeCorrect == Spec => []TypeOK
  <1>1. Inv => TypeOK
    BY DEF Inv
  <1>2. QED
    BY Invariance, <1>1, PTL

\* A deposit is credited once the provider has collected it, to the intent's
\* wallet and in the collected amount (postSuccessfulFiatDeposit).
THEOREM DepositsBacked == Spec => []DepositBacked
  <1>1. Inv => DepositBacked
    <2> SUFFICES ASSUME Inv, NEW r \in Refs, Posted(r), ledger[r].from = Paystack
                 PROVE  /\ charge[r] = [status |-> "success", amount |-> ledger[r].amount]
                        /\ ledger[r].to = input[r].wallet
      BY DEF DepositBacked
    <2>1. RowAgrees(r) /\ Exists(r) /\ ~IsWithdrawal(r)
      BY DEF Inv, RowsAgree, RowAgrees
    <2>2. IsDeposit(r)
      BY <2>1 DEF RowAgrees, Inputs, IsDeposit, IsWithdrawal
    <2>3. QED
      BY <2>1, <2>2 DEF RowAgrees, Move
  <1>2. QED
    BY Invariance, <1>1, PTL

\* Settlement and release exclude each other: a withdrawal is on the ledger
\* exactly when it has SUCCEEDED, so a released one has left no posting.
THEOREM SettlementExcludesRelease == Spec => []SettledXorReleased
  <1>1. Inv => SettledXorReleased
    BY DEF Inv, RowsAgree, RowAgrees, SettledXorReleased
  <1>2. QED
    BY Invariance, <1>1, PTL

\* Of the requests that share an idempotency key one at most makes the
\* provider move money (the unique index on PaymentIntent.idempotencyKey).
THEOREM PayoutOncePerKey == Spec => []OnePayoutPerKey
  <1>1. Inv => OnePayoutPerKey
    BY DEF Inv, RowsAgree, RowAgrees, KeysUnique, OnePayoutPerKey
  <1>2. QED
    BY Invariance, <1>1, PTL

\* No step takes a withdrawal along a transition that payment-state.ts forbids.
THEOREM WithdrawalsStayLegal == Spec => WithdrawalTransitionsLegal
  <1> DEFINE Legal == \A r \in Refs : IsWithdrawal(r) => assertPaymentTransition(status[r], status'[r])
  <1>1. Inv /\ [Next]_vars => [Legal]_vars
    <2> SUFFICES ASSUME Inv, [Next]_vars, NEW r \in Refs, IsWithdrawal(r)
                 PROVE  assertPaymentTransition(status[r], status'[r])
      OBVIOUS
    <2>1. RowStep(r) /\ CallStage(r)
      BY RowSteps DEF Inv, CallStages
    <2>2. QED
      BY <2>1
      DEF RowStep, RowStays, BodyReceived, TransferPosted, IntentCreated, StatusWritten,
          DepositCredited, WithdrawalSettled, ChargeMoves, TransferMoves, CallStage, Blank,
          IsDeposit, IsWithdrawal, Exists, CanSettle, CanRelease, assertPaymentTransition
  <1>2. QED
    BY Invariance, <1>1, PTL DEF Spec, WithdrawalTransitionsLegal

\* What the row of an intent, with status s and body i, keeps in the reserve of
\* wallet w.
Hold(s, i, w) == IF s = "PROCESSING" /\ i.wallet = w THEN i.amount ELSE 0

SameHold(q) ==
  /\ status'[q] = "PROCESSING" <=> status[q] = "PROCESSING"
  /\ status[q] = "PROCESSING" => input'[q] = input[q]

\* Wallet w moves with the row and the posting of reference r.
MovesWith(r, w) ==
  /\ reserved'[w] = reserved[w] - Hold(status[r], input[r], w) + Hold(status'[r], input'[r], w)
  /\ available'[w] + reserved'[w] =
       available[w] + reserved[w] - Entry(ledger[r], w) + Entry(ledger'[r], w)

\* What a step does to the money: nothing, or all that the change of one row and
\* its posting entails.
MoneyStep ==
  \/ UNCHANGED <<available, reserved, ledger>> /\ \A q \in Refs : SameHold(q)
  \/ \E r \in Refs :
       /\ \A q \in Refs \ {r} : SameHold(q) /\ ledger'[q] = ledger[q]
       /\ ledger'[r] = ledger[r] \/ ~Posted(r)
       /\ \A w \in Wallets : MovesWith(r, w)

\* Amounts are numbers, on rows and postings that are still empty too.
LEMMA Amounted ==
  /\ \A i \in Inputs \cup {NoInput} : i.amount \in Nat
  /\ \A e \in Postings \cup {NoPosting} : e.amount \in Nat
  <1>1. Amounts \subseteq Nat
    BY ConstantsAssumption
  <1>2. (\A i \in Inputs : i.amount \in Nat) /\ \A e \in Postings : e.amount \in Nat
    BY <1>1 DEF Inputs, Postings
  <1>3. NoInput.amount = 0 /\ NoPosting.amount = 0
    BY DEF NoInput, NoPosting
  <1>4. QED
    BY <1>2, <1>3

LEMMA AmountTypes ==
  ASSUME TypeOK, NEW r \in Refs
  PROVE  /\ input[r].amount \in Nat
         /\ ledger[r].amount \in Nat
         /\ \A w \in Wallets : Hold(status[r], input[r], w) \in Int /\ Entry(ledger[r], w) \in Int
  <1>1. input[r].amount \in Nat /\ ledger[r].amount \in Nat
    BY Amounted DEF TypeOK
  <1>2. QED
    BY <1>1 DEF Hold, Entry

\* What a posting moves: nothing where there is none.
LEMMA Entries ==
  ASSUME NEW w \in Wallets
  PROVE  /\ \A r \in Refs : ~Posted(r) => Entry(ledger[r], w) = 0
         /\ \A from, to \in Wallets \cup {Paystack} : \A a \in Nat : from # to =>
              Entry(Move(from, to, a), w) = IF w = to THEN a ELSE IF w = from THEN -a ELSE 0
  <1>1. w # Paystack
    BY ConstantsAssumption
  <1>2. ASSUME NEW r \in Refs, ~Posted(r) PROVE Entry(ledger[r], w) = 0
    BY <1>1, <1>2 DEF Posted, Entry, NoPosting
  <1>3. ASSUME NEW from \in Wallets \cup {Paystack}, NEW to \in Wallets \cup {Paystack}, NEW a \in Nat,
               from # to
        PROVE  Entry(Move(from, to, a), w) = IF w = to THEN a ELSE IF w = from THEN -a ELSE 0
    BY <1>3 DEF Entry, Move
  <1>4. QED
    BY <1>2, <1>3

\* A withdrawal that a request settles or releases is a row with its funds held.
LEMMA WithdrawalRow ==
  ASSUME Inv, NEW p \in Requests, pc[p] \in {"settle", "release", "catch"}
  PROVE  /\ target[p] \in Refs /\ IsWithdrawal(target[p])
         /\ input[target[p]].amount \in Nat /\ input[target[p]].wallet \in Wallets
         /\ status[target[p]] \in {"PROCESSING", "SUCCEEDED", "FAILED"}
         /\ Posted(target[p]) <=> status[target[p]] = "SUCCEEDED"
  <1>1. target[p] \in Refs
    BY TargetIsRef
  <1>2. IsWithdrawal(target[p])
    BY <1>1 DEF Inv, CallStages, CallStage, SharedStages, SharedStage, Requests, Routing,
                HandlerSteps, SharedSteps
  <1>3. QED
    BY <1>1, <1>2, RowInput DEF Inv, RowsAgree, RowAgrees, IsWithdrawal

LEMMA QuietStep ==
  ASSUME Inv, [Next]_vars, UNCHANGED <<available, reserved, ledger>>,
         \A r \in Refs : status'[r] = status[r] \/ "PROCESSING" \notin {status[r], status'[r]}
  PROVE  MoneyStep
  BY RowSteps, RowKept DEF MoneyStep, SameHold, Exists

LEMMA OneRowStep ==
  ASSUME Inv, [Next]_vars, NEW r \in Refs,
         \A q \in Refs \ {r} : status'[q] = status[q] /\ ledger'[q] = ledger[q],
         ledger'[r] = ledger[r] \/ ~Posted(r),
         \A w \in Wallets : MovesWith(r, w)
  PROVE  MoneyStep
  BY RowSteps, RowKept DEF MoneyStep, SameHold, Exists

LEMMA TransferMoney ==
  ASSUME Inv, [Next]_vars, NEW r \in Refs, NEW sender \in Wallets, NEW receiver \in Wallets,
         NEW a \in Amounts, ExecuteP2PTransfer(r, sender, receiver, a)
  PROVE  MoneyStep
  <1>1. /\ ~Posted(r) /\ ledger' = [ledger EXCEPT ![r] = Move(sender, receiver, a)]
        /\ a \in Nat /\ sender # receiver /\ UNCHANGED <<reserved, status, input>>
        /\ available' = [available EXCEPT ![sender] = @ - a, ![receiver] = @ + a]
    BY ConstantsAssumption DEF ExecuteP2PTransfer, Inv, CallStages, CallStage, Blank
  <1>2. \A q \in Refs \ {r} : ledger'[q] = ledger[q]
    BY <1>1 DEF Inv, TypeOK
  <1>3. ASSUME NEW w \in Wallets PROVE MovesWith(r, w)
    <2>1. Hold(status[r], input[r], w) \in Int /\ Entry(ledger[r], w) = 0
      BY <1>1, AmountTypes, Entries DEF Inv
    <2>2. Entry(ledger'[r], w) = IF w = receiver THEN a ELSE IF w = sender THEN -a ELSE 0
      BY <1>1, Entries DEF Inv, TypeOK
    <2>3. available'[w] = available[w] + (IF w = receiver THEN a ELSE IF w = sender THEN -a ELSE 0)
      BY <1>1 DEF Inv, TypeOK
    <2>4. available[w] \in Int /\ reserved[w] \in Int
      BY DEF Inv, TypeOK
    <2>5. QED
      BY <1>1, <2>1, <2>2, <2>3, <2>4 DEF MovesWith
  <1>4. QED
    BY <1>1, <1>2, <1>3, OneRowStep

LEMMA ReserveMoney ==
  ASSUME Inv, [Next]_vars, NEW r \in Refs, ReserveFiatWithdrawal(r)
  PROVE  MoneyStep
  <1> DEFINE v == input[r].wallet
             a == input[r].amount
  <1>1. status[r] = "NONE" /\ input[r] \in Inputs /\ v \in Wallets /\ a \in Nat
    <2>1. status[r] = "NONE" /\ input[r].kind = "FIAT_WITHDRAWAL"
      BY DEF ReserveFiatWithdrawal, Inv, CallStages, CallStage, Blank
    <2>2. input[r] \in Inputs
      BY <2>1 DEF Inv, TypeOK, NoInput
    <2>3. v \in Wallets /\ a \in Amounts
      BY <2>2 DEF Inputs
    <2>4. QED
      BY <2>1, <2>2, <2>3, ConstantsAssumption
  <1>2. CASE UNCHANGED <<available, reserved, status>>
    BY <1>2, QuietStep DEF ReserveFiatWithdrawal
  <1>3. CASE ~UNCHANGED <<available, reserved, status>>
    <2>1. /\ available' = [available EXCEPT ![v] = @ - a] /\ reserved' = [reserved EXCEPT ![v] = @ + a]
          /\ status' = [status EXCEPT ![r] = "PROCESSING"] /\ UNCHANGED <<input, ledger>>
      BY <1>3 DEF ReserveFiatWithdrawal
    <2>2. status'[r] = "PROCESSING" /\ \A q \in Refs \ {r} : status'[q] = status[q]
      BY <2>1 DEF Inv, TypeOK
    <2>3. ASSUME NEW w \in Wallets PROVE MovesWith(r, w)
      <3>1. Hold(status[r], input[r], w) = 0 /\ Hold(status'[r], input'[r], w) = IF v = w THEN a ELSE 0
        BY <1>1, <2>1, <2>2 DEF Hold
      <3>2. Entry(ledger[r], w) \in Int /\ ledger'[r] = ledger[r]
        BY <2>1, AmountTypes DEF Inv
      <3>3. /\ available[w] \in Int /\ reserved[w] \in Int
            /\ available'[w] = IF v = w THEN available[w] - a ELSE available[w]
            /\ reserved'[w] = IF v = w THEN reserved[w] + a ELSE reserved[w]
        BY <1>1, <2>1 DEF Inv, TypeOK
      <3>4. QED
        BY <1>1, <3>1, <3>2, <3>3 DEF MovesWith
    <2>4. QED
      BY <2>1, <2>2, <2>3, OneRowStep
  <1>4. QED
    BY <1>2, <1>3

LEMMA CreditMoney ==
  ASSUME Inv, [Next]_vars, NEW h \in Handlers, PostSuccessfulFiatDeposit(h)
  PROVE  MoneyStep
  <1>1. PICK r \in Refs : r = target[h] /\ IsDeposit(r)
    BY TargetIsRef DEF PostSuccessfulFiatDeposit, Inv, SharedStages, SharedStage, Requests
  <1> DEFINE v == input[r].wallet
             a == input[r].amount
  <1>2. v \in Wallets /\ a \in Nat /\ v # Paystack
    BY <1>1, RowInput, ConstantsAssumption DEF IsDeposit
  <1>3. status[r] # "PROCESSING"
    BY <1>1 DEF Inv, RowsAgree, RowAgrees
  <1>4. CASE UNCHANGED <<available, ledger, status>>
    BY <1>4, QuietStep DEF PostSuccessfulFiatDeposit
  <1>5. CASE ~UNCHANGED <<available, ledger, status>>
    <2>1. /\ available' = [available EXCEPT ![v] = @ + a] /\ ~Posted(r) /\ UNCHANGED <<reserved, input>>
          /\ ledger' = [ledger EXCEPT ![r] = Move(Paystack, v, a)]
          /\ status' = [status EXCEPT ![r] = "SUCCEEDED"]
      BY <1>1, <1>5 DEF PostSuccessfulFiatDeposit, CanCredit, LedgerAccepts
    <2>2. /\ status'[r] = "SUCCEEDED" /\ ledger'[r] = Move(Paystack, v, a)
          /\ \A q \in Refs \ {r} : status'[q] = status[q] /\ ledger'[q] = ledger[q]
      BY <2>1 DEF Inv, TypeOK
    <2>3. ASSUME NEW w \in Wallets PROVE MovesWith(r, w)
      <3>1. Hold(status[r], input[r], w) = 0 /\ Hold(status'[r], input'[r], w) = 0
        BY <1>3, <2>2 DEF Hold
      <3>2. Entry(ledger[r], w) = 0 /\ w # Paystack
        BY <2>1, Entries, ConstantsAssumption
      <3>3. Entry(ledger'[r], w) = IF w = v THEN a ELSE 0
        <4> HIDE DEF v, a
        <4>1. Entry(Move(Paystack, v, a), w) = IF w = v THEN a ELSE IF w = Paystack THEN -a ELSE 0
          BY <1>2, Entries
        <4>2. QED
          BY <2>2, <3>2, <4>1
      <3>4. /\ available[w] \in Int /\ reserved[w] \in Int
            /\ available'[w] = IF w = v THEN available[w] + a ELSE available[w]
            /\ reserved'[w] = reserved[w]
        BY <1>2, <2>1 DEF Inv, TypeOK
      <3>5. QED
        BY <1>2, <3>1, <3>2, <3>3, <3>4 DEF MovesWith
    <2>4. QED
      BY <2>1, <2>2, <2>3, OneRowStep
  <1>6. QED
    BY <1>4, <1>5

LEMMA SettleMoney ==
  ASSUME Inv, [Next]_vars, NEW p \in Requests, SettleSuccessfulFiatWithdrawal(p)
  PROVE  MoneyStep
  <1>1. PICK r \in Refs :
          /\ r = target[p] /\ input[r].amount \in Nat /\ input[r].wallet \in Wallets
          /\ status[r] \in {"PROCESSING", "SUCCEEDED", "FAILED"}
    BY WithdrawalRow DEF SettleSuccessfulFiatWithdrawal
  <1> DEFINE v == input[r].wallet
             a == input[r].amount
  <1>2. v \in Wallets /\ a \in Nat /\ v # Paystack
    BY <1>1, ConstantsAssumption
  <1>3. CASE UNCHANGED rows
    BY <1>3, QuietStep DEF rows
  <1>4. CASE ~UNCHANGED rows
    <2>1. /\ status[r] # "SUCCEEDED" /\ CanSettle(r) /\ UNCHANGED <<available, input>>
          /\ reserved' = [reserved EXCEPT ![v] = @ - a]
          /\ ledger' = [ledger EXCEPT ![r] = Move(v, Paystack, a)]
          /\ status' = [status EXCEPT ![r] = "SUCCEEDED"]
      BY <1>1, <1>4 DEF SettleSuccessfulFiatWithdrawal
    <2>2. status[r] = "PROCESSING" /\ ~Posted(r)
      BY <1>1, <2>1 DEF CanSettle, LedgerAccepts, assertPaymentTransition, ALLOWED_TRANSITIONS
    <2>3. /\ status'[r] = "SUCCEEDED" /\ ledger'[r] = Move(v, Paystack, a)
          /\ \A q \in Refs \ {r} : status'[q] = status[q] /\ ledger'[q] = ledger[q]
      BY <2>1 DEF Inv, TypeOK
    <2>4. ASSUME NEW w \in Wallets PROVE MovesWith(r, w)
      <3>1. Hold(status[r], input[r], w) = (IF w = v THEN a ELSE 0) /\ Hold(status'[r], input'[r], w) = 0
        BY <2>2, <2>3 DEF Hold
      <3>2. Entry(ledger[r], w) = 0 /\ w # Paystack
        BY <2>2, Entries, ConstantsAssumption
      <3>3. Entry(ledger'[r], w) = IF w = v THEN -a ELSE 0
        <4> HIDE DEF v, a
        <4>1. Entry(Move(v, Paystack, a), w) = IF w = Paystack THEN a ELSE IF w = v THEN -a ELSE 0
          BY <1>2, Entries
        <4>2. QED
          BY <2>3, <3>2, <4>1
      <3>4. /\ available[w] \in Int /\ reserved[w] \in Int
            /\ available'[w] = available[w]
            /\ reserved'[w] = IF w = v THEN reserved[w] - a ELSE reserved[w]
        BY <1>2, <2>1 DEF Inv, TypeOK
      <3>5. QED
        BY <1>2, <3>1, <3>2, <3>3, <3>4 DEF MovesWith
    <2>5. QED
      BY <2>2, <2>3, <2>4, OneRowStep
  <1>5. QED
    BY <1>3, <1>4

LEMMA ReleaseMoney ==
  ASSUME Inv, [Next]_vars, NEW p \in Requests, ReleaseFailedFiatWithdrawal(p)
  PROVE  MoneyStep
  <1>1. PICK r \in Refs :
          /\ r = target[p] /\ input[r].amount \in Nat /\ input[r].wallet \in Wallets
          /\ status[r] \in {"PROCESSING", "SUCCEEDED", "FAILED"}
    BY WithdrawalRow DEF ReleaseFailedFiatWithdrawal
  <1> DEFINE v == input[r].wallet
             a == input[r].amount
  <1>2. CASE UNCHANGED rows
    BY <1>2, QuietStep DEF rows
  <1>3. CASE ~UNCHANGED rows
    <2>1. /\ ~AlreadyReleased(r) /\ CanRelease(r) /\ UNCHANGED <<ledger, input>>
          /\ available' = [available EXCEPT ![v] = @ + a] /\ reserved' = [reserved EXCEPT ![v] = @ - a]
          /\ status' = [status EXCEPT ![r] = "FAILED"]
      BY <1>1, <1>3 DEF ReleaseFailedFiatWithdrawal
    <2>2. status[r] = "PROCESSING"
      BY <1>1, <2>1 DEF CanRelease, AlreadyReleased, assertPaymentTransition, ALLOWED_TRANSITIONS
    <2>3. status'[r] = "FAILED" /\ \A q \in Refs \ {r} : status'[q] = status[q]
      BY <2>1 DEF Inv, TypeOK
    <2>4. ASSUME NEW w \in Wallets PROVE MovesWith(r, w)
      <3>1. Hold(status[r], input[r], w) = (IF w = v THEN a ELSE 0) /\ Hold(status'[r], input'[r], w) = 0
        BY <2>2, <2>3 DEF Hold
      <3>2. Entry(ledger[r], w) \in Int /\ ledger'[r] = ledger[r]
        BY <2>1, AmountTypes DEF Inv
      <3>3. /\ available[w] \in Int /\ reserved[w] \in Int
            /\ available'[w] = IF w = v THEN available[w] + a ELSE available[w]
            /\ reserved'[w] = IF w = v THEN reserved[w] - a ELSE reserved[w]
        BY <1>1, <2>1 DEF Inv, TypeOK
      <3>4. QED
        BY <1>1, <3>1, <3>2, <3>3 DEF MovesWith
    <2>5. QED
      BY <2>1, <2>3, <2>4, OneRowStep
  <1>4. QED
    BY <1>2, <1>3

LEMMA MoneySteps == ASSUME Inv, [Next]_vars PROVE MoneyStep
  <1>1. CASE UNCHANGED rows
    BY <1>1, QuietStep DEF rows
  <1>2. ASSUME NEW r \in Refs, Arrive(r) PROVE MoneyStep
    BY <1>1, <1>2, TransferMoney DEF Arrive, InitiateFiatDeposit, WithdrawFiat
  <1>3. ASSUME NEW r \in Refs, CallStep(r) PROVE MoneyStep
    <2>1. CASE CreateFiatDepositIntent(r)
      <3>1. status[r] = "NONE"
        BY <2>1 DEF CreateFiatDepositIntent, Inv, CallStages, CallStage, Blank
      <3>2. QED
        BY <2>1, <3>1, QuietStep DEF CreateFiatDepositIntent, Inv, TypeOK
    <2>2. CASE MarkDepositInitialized(r)
      <3>1. status[r] # "PROCESSING"
        BY <2>2 DEF MarkDepositInitialized, Inv, CallStages, CallStage
      <3>2. QED
        BY <2>2, <3>1, QuietStep DEF MarkDepositInitialized, Inv, TypeOK
    <2>3. CASE ReserveFiatWithdrawal(r)
      BY <2>3, ReserveMoney
    <2>4. QED
      BY <1>1, <1>3, <2>1, <2>2, <2>3, Zenon
      DEF CallStep, InitiateDeposit, ReadForInitialized, TransferToBank, AttachWithdrawalProviderResult
  <1>4. ASSUME NEW r \in Refs, ProviderStep(r) PROVE MoneyStep
    BY <1>1, <1>4 DEF ProviderStep, CustomerPays, ChargeFails, TransferConcludes, TransferReversed
  <1>5. ASSUME NEW h \in Handlers, HandlerStep(h) PROVE MoneyStep
    BY <1>1, <1>5, CreditMoney DEF HandlerStep, VerifyTransaction
  <1>6. ASSUME NEW p \in Requests, SharedStep(p) PROVE MoneyStep
    <2>1. CASE MarkPaymentFailed(p)
      <3>1. target[p] \in Refs /\ status[target[p]] # "PROCESSING"
        BY <2>1, TargetIsRef DEF MarkPaymentFailed, Inv, SharedStages, SharedStage, RowsAgree, RowAgrees
      <3>2. QED
        BY <2>1, <3>1, QuietStep DEF MarkPaymentFailed, Inv, TypeOK
    <2>2. CASE ReadForFailed(p)
      BY <1>1, <2>2 DEF ReadForFailed
    <2>3. QED
      BY <1>6, <2>1, <2>2, SettleMoney, ReleaseMoney DEF SharedStep
  <1>7. ASSUME NEW h \in Handlers, NEW r \in Refs, VerifyFiatDeposit(h, r) PROVE MoneyStep
    BY <1>1, <1>7 DEF VerifyFiatDeposit
  <1>8. ASSUME NEW h \in Handlers, NEW r \in Refs, NEW e \in Emitted(r), HandlePaystackWebhook(h, r, e)
        PROVE  MoneyStep
    BY <1>1, <1>8 DEF HandlePaystackWebhook
  <1>9. CASE Crash \/ UNCHANGED vars
    BY <1>1, <1>9 DEF Crash, vars, rows
  <1>10. CASE \E p \in Requests : TransactionFails(p)
    BY <1>1, <1>10 DEF TransactionFails
  <1>11. QED
    BY <1>2, <1>3, <1>4, <1>5, <1>6, <1>7, <1>8, <1>9, <1>10 DEF Next

\* No operation moves money off the books: a step changes what a wallet holds
\* only by the posting it makes in the same transaction.
THEOREM FundsMoveWithLedger == Spec => HeldMovesWithLedger
  <1> DEFINE OnTheBooks ==
        \A w \in Wallets :
          \/ (available[w] + reserved[w])' = available[w] + reserved[w]
          \/ \E r \in Refs :
               /\ ~Posted(r)
               /\ (available[w] + reserved[w])' = available[w] + reserved[w] + Entry(ledger'[r], w)
  <1>1. Inv /\ [Next]_vars => [OnTheBooks]_vars
    <2> SUFFICES ASSUME Inv, [Next]_vars, NEW w \in Wallets
                 PROVE  \/ (available[w] + reserved[w])' = available[w] + reserved[w]
                        \/ \E r \in Refs :
                             /\ ~Posted(r)
                             /\ (available[w] + reserved[w])' =
                                  available[w] + reserved[w] + Entry(ledger'[r], w)
      OBVIOUS
    <2>1. CASE UNCHANGED <<available, reserved, ledger>>
      BY <2>1
    <2>2. ASSUME NEW r \in Refs, ledger'[r] = ledger[r] \/ ~Posted(r), MovesWith(r, w)
          PROVE  \/ (available[w] + reserved[w])' = available[w] + reserved[w]
                 \/ /\ ~Posted(r)
                    /\ (available[w] + reserved[w])' = available[w] + reserved[w] + Entry(ledger'[r], w)
      <3>1. available[w] \in Int /\ reserved[w] \in Int /\ Entry(ledger[r], w) \in Int
        BY AmountTypes DEF Inv, TypeOK
      <3>2. CASE ledger'[r] = ledger[r]
        BY <2>2, <3>1, <3>2 DEF MovesWith
      <3>3. CASE ~Posted(r)
        BY <2>2, <3>1, <3>3, Entries DEF MovesWith
      <3>4. QED
        BY <2>2, <3>2, <3>3
    <2>3. QED
      BY <2>1, <2>2, MoneySteps DEF MoneyStep
  <1>2. QED
    BY Invariance, <1>1, PTL DEF Spec, HeldMovesWithLedger
-----------------------------------------------------------------------------
(* The sums over all rows, as one row and its posting change.              *)

HeldBy(w) == AmountsOf({r \in Refs : status[r] = "PROCESSING" /\ input[r].wallet = w})
PostedTo(w) == PostedAmounts({r \in Refs : ledger[r].to = w})
PostedFrom(w) == PostedAmounts({r \in Refs : ledger[r].from = w})

\* What unfinished withdrawals hold of a wallet changes by what the row holds.
LEMMA HeldMoves ==
  ASSUME TypeOK, TypeOK', NEW w \in Wallets, NEW r \in Refs, \A q \in Refs \ {r} : SameHold(q)
  PROVE  /\ HeldBy(w) \in Int
         /\ HeldBy(w)' = HeldBy(w) - Hold(status[r], input[r], w) + Hold(status'[r], input'[r], w)
  <1> DEFINE f == [q \in Refs |-> input[q].amount]
             g == [q \in Refs |-> input'[q].amount]
             S == {q \in Refs : status[q] = "PROCESSING" /\ input[q].wallet = w}
             T == {q \in Refs : status'[q] = "PROCESSING" /\ input'[q].wallet = w}
  <1>1. IsFiniteSet(S) /\ IsFiniteSet(T)
    BY RefsAssumption, FS_Subset
  <1>2. \A q \in Refs : f[q] \in Int /\ g[q] \in Int
    <2>1. \A q \in Refs : input[q] \in Inputs \cup {NoInput} /\ input'[q] \in Inputs \cup {NoInput}
      BY DEF TypeOK
    <2>2. QED
      BY <2>1, Amounted
  <1>3. S \ {r} = T \ {r} /\ \A q \in S \ {r} : f[q] = g[q]
    BY DEF SameHold
  <1>4. /\ Part(f, S, r) = Hold(status[r], input[r], w)
        /\ Part(g, T, r) = Hold(status'[r], input'[r], w)
    BY DEF Part, Hold
  <1>5. HeldBy(w) = SumOver(f, S) /\ HeldBy(w)' = SumOver(g, T)
    BY DEF HeldBy, AmountsOf
  <1>6. S \subseteq Refs /\ T \subseteq Refs
    OBVIOUS
  <1> HIDE DEF f, g, S, T
  <1>7. (\A q \in S : f[q] \in Int) /\ (\A q \in T : g[q] \in Int)
    BY <1>2, <1>6
  <1>8. /\ SumOver(f, S) \in Int
        /\ SumOver(g, T) = SumOver(f, S) - Part(f, S, r) + Part(g, T, r)
    BY <1>1, <1>3, <1>7, SumChange
  <1>9. QED
    BY <1>4, <1>5, <1>8

\* The sums of the postings to and from a wallet change by the one posting.
LEMMA PostedMoves ==
  ASSUME TypeOK, TypeOK', NEW w \in Wallets, NEW r \in Refs, \A q \in Refs \ {r} : ledger'[q] = ledger[q]
  PROVE  /\ PostedTo(w) \in Int /\ PostedFrom(w) \in Int
         /\ PostedTo(w)' \in Int /\ PostedFrom(w)' \in Int
         /\ PostedTo(w)' - PostedFrom(w)' =
              PostedTo(w) - PostedFrom(w) - Entry(ledger[r], w) + Entry(ledger'[r], w)
  <1> DEFINE f == [q \in Refs |-> ledger[q].amount]
             g == [q \in Refs |-> ledger'[q].amount]
             To == {q \in Refs : ledger[q].to = w}
             ToNext == {q \in Refs : ledger'[q].to = w}
             From == {q \in Refs : ledger[q].from = w}
             FromNext == {q \in Refs : ledger'[q].from = w}
  <1>1. IsFiniteSet(To) /\ IsFiniteSet(ToNext) /\ IsFiniteSet(From) /\ IsFiniteSet(FromNext)
    BY RefsAssumption, FS_Subset
  <1>2. \A q \in Refs : f[q] \in Int /\ g[q] \in Int
    <2>1. \A q \in Refs : ledger[q] \in Postings \cup {NoPosting} /\ ledger'[q] \in Postings \cup {NoPosting}
      BY DEF TypeOK
    <2>2. QED
      BY <2>1, Amounted
  <1>3. /\ To \ {r} = ToNext \ {r} /\ From \ {r} = FromNext \ {r}
        /\ \A q \in Refs \ {r} : f[q] = g[q]
    OBVIOUS
  <1>4. /\ Entry(ledger[r], w) = Part(f, To, r) - Part(f, From, r)
        /\ Entry(ledger'[r], w) = Part(g, ToNext, r) - Part(g, FromNext, r)
    BY DEF Part, Entry
  <1>5. /\ PostedTo(w) = SumOver(f, To) /\ PostedTo(w)' = SumOver(g, ToNext)
        /\ PostedFrom(w) = SumOver(f, From) /\ PostedFrom(w)' = SumOver(g, FromNext)
    BY DEF PostedTo, PostedFrom, PostedAmounts
  <1>6. To \subseteq Refs /\ ToNext \subseteq Refs /\ From \subseteq Refs /\ FromNext \subseteq Refs
    OBVIOUS
  <1> HIDE DEF f, g, To, ToNext, From, FromNext
  <1>7. /\ (\A q \in To : f[q] \in Int) /\ \A q \in ToNext : g[q] \in Int
        /\ (\A q \in From : f[q] \in Int) /\ \A q \in FromNext : g[q] \in Int
        /\ (\A q \in To \ {r} : f[q] = g[q]) /\ \A q \in From \ {r} : f[q] = g[q]
    BY <1>2, <1>3, <1>6
  <1>8. /\ SumOver(f, To) \in Int /\ SumOver(g, ToNext) \in Int
        /\ Part(f, To, r) \in Int /\ Part(g, ToNext, r) \in Int
        /\ SumOver(g, ToNext) = SumOver(f, To) - Part(f, To, r) + Part(g, ToNext, r)
    BY <1>1, <1>3, <1>7, SumChange
  <1>9. /\ SumOver(f, From) \in Int /\ SumOver(g, FromNext) \in Int
        /\ Part(f, From, r) \in Int /\ Part(g, FromNext, r) \in Int
        /\ SumOver(g, FromNext) = SumOver(f, From) - Part(f, From, r) + Part(g, FromNext, r)
    BY <1>1, <1>3, <1>7, SumChange
  <1>10. QED
    BY <1>4, <1>5, <1>8, <1>9

\* Where no row changes what it holds, nor any posting, the sums stay.
LEMMA SumsStay ==
  ASSUME TypeOK, NEW w \in Wallets, \A q \in Refs : SameHold(q)
  PROVE  HeldBy(w)' = HeldBy(w)
  <1> DEFINE f == [q \in Refs |-> input[q].amount]
             g == [q \in Refs |-> input'[q].amount]
             S == {q \in Refs : status[q] = "PROCESSING" /\ input[q].wallet = w}
  <1>1. IsFiniteSet(S)
    BY RefsAssumption, FS_Subset
  <1>2. S = {q \in Refs : status'[q] = "PROCESSING" /\ input'[q].wallet = w} /\ \A q \in S : f[q] = g[q]
    BY DEF SameHold
  <1>3. HeldBy(w) = SumOver(f, S) /\ HeldBy(w)' = SumOver(g, S)
    <2> HIDE DEF S
    <2> QED  BY <1>2 DEF HeldBy, AmountsOf, S
  <1> HIDE DEF f, g, S
  <1>4. QED
    BY <1>1, <1>2, <1>3, SumAgrees

\* The reserve of every wallet is what its unfinished withdrawals hold: each
\* operation changes a row and the reserve together or not at all.
THEOREM ReserveBacked == Spec => []ReservedBacked
  <1>1. Init => ReservedBacked
    <2> SUFFICES ASSUME Init, NEW w \in Wallets PROVE reserved[w] = HeldBy(w)
      BY DEF ReservedBacked, HeldBy
    <2>1. {r \in Refs : status[r] = "PROCESSING" /\ input[r].wallet = w} = {}
      BY DEF Init
    <2>2. QED
      BY <2>1, SumOfNone DEF Init, HeldBy, AmountsOf
  <1>2. ASSUME Inv, ReservedBacked, [Next]_vars, NEW w \in Wallets PROVE reserved'[w] = HeldBy(w)'
    <2>1. TypeOK /\ TypeOK' /\ reserved[w] = HeldBy(w)
      BY <1>2, InvStep DEF Inv, ReservedBacked, HeldBy
    <2>2. CASE UNCHANGED reserved /\ \A q \in Refs : SameHold(q)
      BY <2>1, <2>2, SumsStay
    <2>3. ASSUME NEW r \in Refs, \A q \in Refs \ {r} : SameHold(q), MovesWith(r, w)
          PROVE  reserved'[w] = HeldBy(w)'
      BY <2>1, <2>3, HeldMoves DEF MovesWith
    <2>4. QED
      BY <1>2, <2>2, <2>3, MoneySteps DEF MoneyStep
  <1>3. Inv /\ ReservedBacked /\ [Next]_vars => ReservedBacked'
    BY <1>2 DEF ReservedBacked, HeldBy
  <1>4. QED
    BY <1>1, <1>3, Invariance, PTL DEF Spec

\* A wallet always holds its opening balance and what the ledger has moved to
\* it and from it since.
THEOREM LedgerAlwaysBalances == Spec => []LedgerBalances
  <1>1. Init => LedgerBalances
    <2> SUFFICES ASSUME Init, NEW w \in Wallets
                 PROVE  available[w] + reserved[w] = InitialBalance[w] + PostedTo(w) - PostedFrom(w)
      BY DEF LedgerBalances, PostedTo, PostedFrom
    <2>1. {r \in Refs : ledger[r].to = w} = {} /\ {r \in Refs : ledger[r].from = w} = {}
      BY ConstantsAssumption DEF Init, NoPosting
    <2>2. PostedTo(w) = 0 /\ PostedFrom(w) = 0
      BY <2>1, SumOfNone DEF PostedTo, PostedFrom, PostedAmounts
    <2>3. available[w] = InitialBalance[w] /\ reserved[w] = 0 /\ InitialBalance[w] \in Nat
      BY ConstantsAssumption DEF Init
    <2>4. QED
      BY <2>2, <2>3
  <1>2. ASSUME Inv, LedgerBalances, [Next]_vars, NEW w \in Wallets
        PROVE  available'[w] + reserved'[w] = InitialBalance[w] + PostedTo(w)' - PostedFrom(w)'
    <2>1. /\ TypeOK /\ TypeOK'
          /\ available[w] + reserved[w] = InitialBalance[w] + PostedTo(w) - PostedFrom(w)
      BY <1>2, InvStep DEF Inv, LedgerBalances, PostedTo, PostedFrom
    <2>2. CASE UNCHANGED <<available, reserved, ledger>>
      BY <2>1, <2>2 DEF PostedTo, PostedFrom, PostedAmounts
    <2>3. ASSUME NEW r \in Refs, \A q \in Refs \ {r} : ledger'[q] = ledger[q], MovesWith(r, w)
          PROVE  available'[w] + reserved'[w] = InitialBalance[w] + PostedTo(w)' - PostedFrom(w)'
      <3>1. /\ PostedTo(w) \in Int /\ PostedFrom(w) \in Int
            /\ PostedTo(w)' \in Int /\ PostedFrom(w)' \in Int
            /\ PostedTo(w)' - PostedFrom(w)' =
                 PostedTo(w) - PostedFrom(w) - Entry(ledger[r], w) + Entry(ledger'[r], w)
        BY <2>1, <2>3, PostedMoves
      <3>2. /\ available[w] \in Int /\ reserved[w] \in Int
            /\ available'[w] \in Int /\ reserved'[w] \in Int /\ InitialBalance[w] \in Int
        BY <2>1, ConstantsAssumption DEF TypeOK
      <3>3. Entry(ledger[r], w) \in Int /\ Entry(ledger'[r], w) \in Int
        <4>1. ledger[r].amount \in Nat /\ ledger'[r].amount \in Nat
          BY <2>1, Amounted DEF TypeOK
        <4>2. QED
          BY <4>1 DEF Entry
      <3>4. QED
        BY <2>1, <2>3, <3>1, <3>2, <3>3 DEF MovesWith
    <2>4. QED
      BY <1>2, <2>2, <2>3, MoneySteps DEF MoneyStep
  <1>3. Inv /\ LedgerBalances /\ [Next]_vars => LedgerBalances'
    BY <1>2 DEF LedgerBalances, PostedTo, PostedFrom
  <1>4. QED
    BY <1>1, <1>3, Invariance, PTL DEF Spec
-----------------------------------------------------------------------------
(* Payouts: what the requests know of the provider's transfer.             *)

\* The requests that neither lose an answer of the provider nor have a
\* transaction fail on them.
Sound == Refs \ (Lossy \cup Failing)

\* A payout that the provider carries out for one of these keeps its funds.
PayoutBacked ==
  \A r \in Sound : transfer[r] \in {"pending", "success"} => status[r] \in {"PROCESSING", "SUCCEEDED"}

\* A withdrawal's request and the webhooks for it settle after a success and
\* release after a failure or a reversal; a request that is sound reaches the
\* catch block only without a payout under way.
PayoutStage(p) ==
  /\ p \in Refs =>
       /\ pc[p] = "transfer" => transfer[p] = "none" /\ status[p] = "PROCESSING"
       /\ pc[p] = "attachSuccess" => transfer[p] \in {"success", "reversed"}
       /\ pc[p] = "attachFailed" => transfer[p] = "failed"
       /\ (pc[p] = "catch" /\ p \in Sound) => transfer[p] \notin {"pending", "success"}
  /\ pc[p] = "settle" => transfer[target[p]] \in {"success", "reversed"}
  /\ pc[p] = "release" => transfer[target[p]] \in {"failed", "reversed"}

PayoutStages == \A p \in Requests : PayoutStage(p)

\* How the provider's record of a transfer moves.
TransferStep(r) ==
  \/ UNCHANGED transfer[r]
  \/ TransferToBank(r)
  \/ transfer[r] = "pending" /\ transfer'[r] \in {"success", "failed"}
  \/ transfer[r] = "success" /\ transfer'[r] = "reversed"

LEMMA TransferSteps ==
  ASSUME Inv, [Next]_vars, NEW r \in Refs
  PROVE  TransferStep(r)
  <1> USE DEF TransferStep
  <1>0. CASE UNCHANGED transfer
    BY <1>0
  <1>1. ASSUME NEW q \in Refs, Arrive(q) PROVE TransferStep(r)
    BY <1>0, <1>1 DEF Arrive, InitiateFiatDeposit, WithdrawFiat, ExecuteP2PTransfer, provider
  <1>2. ASSUME NEW q \in Refs, CallStep(q) PROVE TransferStep(r)
    <2>1. CASE TransferToBank(q)
      BY <2>1 DEF TransferToBank, Inv, TypeOK
    <2>2. QED
      BY <1>0, <1>2, <2>1, Zenon
      DEF CallStep, CreateFiatDepositIntent, InitiateDeposit, ReadForInitialized, MarkDepositInitialized,
          ReserveFiatWithdrawal, AttachWithdrawalProviderResult, provider
  <1>3. ASSUME NEW q \in Refs, ProviderStep(q) PROVE TransferStep(r)
    <2>1. CASE TransferConcludes(q) \/ TransferReversed(q)
      BY <2>1 DEF TransferConcludes, TransferReversed, Inv, TypeOK
    <2>2. QED
      BY <1>0, <1>3, <2>1 DEF ProviderStep, CustomerPays, ChargeFails
  <1>4. ASSUME NEW h \in Handlers, HandlerStep(h) PROVE TransferStep(r)
    BY <1>0, <1>4 DEF HandlerStep, VerifyTransaction, PostSuccessfulFiatDeposit, provider
  <1>5. ASSUME NEW p \in Requests, SharedStep(p) PROVE TransferStep(r)
    BY <1>0, <1>5, Zenon
    DEF SharedStep, ReadForFailed, MarkPaymentFailed, SettleSuccessfulFiatWithdrawal,
        ReleaseFailedFiatWithdrawal, provider
  <1>6. ASSUME NEW h \in Handlers, NEW q \in Refs, VerifyFiatDeposit(h, q) PROVE TransferStep(r)
    BY <1>0, <1>6 DEF VerifyFiatDeposit, provider
  <1>7. ASSUME NEW h \in Handlers, NEW q \in Refs, NEW e \in Emitted(q), HandlePaystackWebhook(h, q, e)
        PROVE  TransferStep(r)
    BY <1>0, <1>7 DEF HandlePaystackWebhook, provider
  <1>8. CASE Crash \/ UNCHANGED vars
    BY <1>0, <1>8 DEF Crash, provider, vars
  <1>9. CASE \E p \in Requests : TransactionFails(p)
    BY <1>0, <1>9 DEF TransactionFails, provider
  <1>10. QED
    BY <1>1, <1>2, <1>3, <1>4, <1>5, <1>6, <1>7, <1>8, <1>9 DEF Next

\* The steps that write the status of a row, each for the row it works on.
StatusWriter(r) ==
  \/ CreateFiatDepositIntent(r) \/ MarkDepositInitialized(r) \/ ReserveFiatWithdrawal(r)
  \/ \E h \in Handlers : target[h] = r /\ PostSuccessfulFiatDeposit(h)
  \/ \E p \in Requests :
       /\ target[p] = r
       /\ MarkPaymentFailed(p) \/ SettleSuccessfulFiatWithdrawal(p) \/ ReleaseFailedFiatWithdrawal(p)

LEMMA StatusWriters ==
  ASSUME Inv, [Next]_vars, NEW r \in Refs, status'[r] # status[r]
  PROVE  StatusWriter(r)
  <1>0. ~UNCHANGED status /\ ~UNCHANGED rows /\ TypeOK
    BY DEF rows, Inv
  <1> USE DEF StatusWriter
  <1>1. ASSUME NEW q \in Refs, Arrive(q) PROVE FALSE
    BY <1>0, <1>1 DEF Arrive, InitiateFiatDeposit, WithdrawFiat, ExecuteP2PTransfer
  <1>2. ASSUME NEW q \in Refs, CallStep(q) PROVE StatusWriter(r)
    <2>1. CASE CreateFiatDepositIntent(q)
      BY <2>1, <1>0 DEF CreateFiatDepositIntent, TypeOK
    <2>2. CASE MarkDepositInitialized(q)
      BY <2>2, <1>0 DEF MarkDepositInitialized, TypeOK
    <2>3. CASE ReserveFiatWithdrawal(q)
      BY <2>3, <1>0 DEF ReserveFiatWithdrawal, TypeOK
    <2>4. QED
      BY <1>0, <1>2, <2>1, <2>2, <2>3, Zenon
      DEF CallStep, InitiateDeposit, ReadForInitialized, TransferToBank, AttachWithdrawalProviderResult
  <1>3. ASSUME NEW q \in Refs, ProviderStep(q) PROVE FALSE
    BY <1>0, <1>3 DEF ProviderStep, CustomerPays, ChargeFails, TransferConcludes, TransferReversed
  <1>4. ASSUME NEW h \in Handlers, HandlerStep(h) PROVE StatusWriter(r)
    <2>1. CASE PostSuccessfulFiatDeposit(h)
      <3>1. target[h] = r
        BY <2>1, <1>0 DEF PostSuccessfulFiatDeposit, TypeOK
      <3>2. QED
        BY <2>1, <3>1
    <2>2. QED
      BY <1>0, <1>4, <2>1 DEF HandlerStep, VerifyTransaction
  <1>5. ASSUME NEW p \in Requests, SharedStep(p) PROVE StatusWriter(r)
    <2>1. ~ReadForFailed(p)
      BY <1>0 DEF ReadForFailed
    <2>2. target[p] = r
      BY <1>5, <2>1, <1>0
      DEF SharedStep, MarkPaymentFailed, SettleSuccessfulFiatWithdrawal, ReleaseFailedFiatWithdrawal, TypeOK, rows
    <2>3. QED
      BY <1>5, <2>1, <2>2 DEF SharedStep
  <1>6. ASSUME NEW h \in Handlers, NEW q \in Refs, VerifyFiatDeposit(h, q) PROVE FALSE
    BY <1>0, <1>6 DEF VerifyFiatDeposit
  <1>7. ASSUME NEW h \in Handlers, NEW q \in Refs, NEW e \in Emitted(q), HandlePaystackWebhook(h, q, e)
        PROVE  FALSE
    BY <1>0, <1>7 DEF HandlePaystackWebhook
  <1>8. CASE Crash \/ UNCHANGED vars
    BY <1>0, <1>8 DEF Crash, vars
  <1>9. CASE \E p \in Requests : TransactionFails(p)
    BY <1>0, <1>9 DEF TransactionFails
  <1>10. QED
    BY <1>1, <1>2, <1>3, <1>4, <1>5, <1>6, <1>7, <1>8, <1>9 DEF Next

\* Only a settlement and a release change the status of a withdrawal.
LEMMA WithdrawalDecided ==
  ASSUME Inv, [Next]_vars, NEW r \in Refs, IsWithdrawal(r), status'[r] # status[r]
  PROVE  \E p \in Requests :
           /\ target[p] = r
           /\ \/ pc[p] = "settle" /\ status'[r] = "SUCCEEDED"
              \/ pc[p] = "release" /\ status'[r] = "FAILED"
              \/ pc[p] = "catch" /\ pc'[p] = "done" /\ status'[r] = "FAILED"
  <1>1. ~CreateFiatDepositIntent(r) /\ ~ReserveFiatWithdrawal(r)
    BY DEF CreateFiatDepositIntent, ReserveFiatWithdrawal, Inv, CallStages, CallStage, Blank,
           IsWithdrawal, Exists
  <1>2. ~MarkDepositInitialized(r)
    BY DEF MarkDepositInitialized, Inv, CallStages, CallStage, IsWithdrawal, IsDeposit
  <1>3. ASSUME NEW p \in Requests, target[p] = r
        PROVE  ~PostSuccessfulFiatDeposit(p) /\ ~MarkPaymentFailed(p)
    BY <1>3
    DEF PostSuccessfulFiatDeposit, MarkPaymentFailed, Inv, SharedStages, SharedStage, IsWithdrawal, IsDeposit
  <1>4. PICK p \in Requests :
          /\ target[p] = r
          /\ SettleSuccessfulFiatWithdrawal(p) \/ ReleaseFailedFiatWithdrawal(p)
    BY <1>1, <1>2, <1>3, StatusWriters DEF StatusWriter, Requests
  <1>5. CASE SettleSuccessfulFiatWithdrawal(p)
    BY <1>4, <1>5 DEF SettleSuccessfulFiatWithdrawal, Inv, TypeOK, rows
  <1>6. CASE ReleaseFailedFiatWithdrawal(p)
    BY <1>4, <1>6 DEF ReleaseFailedFiatWithdrawal, Return, Inv, TypeOK, rows
  <1>7. QED
    BY <1>4, <1>5, <1>6

\* A withdrawal that is still in PROCESSING can be settled: the reserve covers
\* it, and no posting stands in its way.
LEMMA ProcessingSettles ==
  ASSUME Inv, ReservedBacked, NEW r \in Refs, IsWithdrawal(r), status[r] = "PROCESSING"
  PROVE  CanSettle(r)
  <1> DEFINE w == input[r].wallet
             f == [q \in Refs |-> input[q].amount]
             S == {q \in Refs : status[q] = "PROCESSING" /\ input[q].wallet = w}
  <1>1. assertPaymentTransition(status[r], "SUCCEEDED")
    BY DEF assertPaymentTransition, ALLOWED_TRANSITIONS
  <1>2. reserved[w] >= input[r].amount
    <2>1. w \in Wallets
      BY RowInput DEF IsWithdrawal
    <2>2. reserved[w] = SumOver(f, S)
      BY <2>1 DEF ReservedBacked, AmountsOf
    <2>3. IsFiniteSet(S) /\ r \in S /\ f[r] = input[r].amount
      BY RefsAssumption, FS_Subset
    <2>4. \A q \in S : f[q] \in Nat
      BY Amounted DEF Inv, TypeOK
    <2> HIDE DEF f, S
    <2>5. QED
      BY <2>2, <2>3, <2>4, SumCovers
  <1>3. LedgerAccepts(r)
    <2>1. ~Posted(r)
      BY DEF Inv, RowsAgree, RowAgrees
    <2>2. ASSUME NEW q \in Refs, Posted(q), input[r].key # NoKey
          PROVE  input[q].key # input[r].key
      <3>1. CASE Exists(q)
        BY <2>1, <2>2, <3>1 DEF Inv, KeysUnique, IsWithdrawal
      <3>2. CASE ~Exists(q)
        <4>1. input[q] = NoInput /\ NoInput.key = NoKey
          BY <2>2, <3>2 DEF Inv, RowsAgree, RowAgrees, NoInput
        <4>2. QED
          BY <2>2, <4>1
      <3>3. QED
        BY <3>1, <3>2
    <2>3. QED
      BY <2>1, <2>2 DEF LedgerAccepts
  <1>4. QED
    BY <1>1, <1>2, <1>3 DEF CanSettle

\* What a request knows of the payout stays true while others move.
LEMMA PayoutStageKept ==
  ASSUME Inv, PayoutStages, [Next]_vars, NEW p \in Requests, UNCHANGED <<pc[p], target[p]>>
  PROVE  PayoutStage(p)'
  <1>0. PayoutStage(p)
    BY DEF PayoutStages
  <1>1. ASSUME NEW r \in Refs, ~TransferToBank(r)
        PROVE  /\ transfer[r] = "none" => transfer'[r] = "none"
               /\ transfer[r] \in {"success", "reversed"} => transfer'[r] \in {"success", "reversed"}
               /\ transfer[r] = "failed" => transfer'[r] = "failed"
               /\ transfer[r] = "reversed" => transfer'[r] = "reversed"
    BY <1>1, TransferSteps DEF TransferStep
  <1>2. ASSUME NEW r \in Refs, TransferToBank(r)
        PROVE  pc[r] = "transfer" /\ pc'[r] # "transfer"
    BY <1>2 DEF TransferToBank, Goto, Throw, DepositTry, WithdrawalTry, Inv, TypeOK, Requests
  <1>3. p \in Refs => ~TransferToBank(p)
    BY <1>2
  <1>4. ASSUME pc[p] \in {"settle", "release"}
        PROVE  target[p] \in Refs /\ ~TransferToBank(target[p])
    <2>1. target[p] \in Refs /\ transfer[target[p]] # "none"
      BY <1>0, <1>4, TargetIsRef DEF PayoutStage
    <2>2. target[p] \in Requests /\ PayoutStage(target[p])
      BY <2>1 DEF PayoutStages, Requests
    <2>3. QED
      BY <1>2, <2>1, <2>2 DEF PayoutStage
  <1>5. ASSUME p \in Refs, pc[p] = "transfer" PROVE status'[p] = "PROCESSING"
    <2>1. IsWithdrawal(p) /\ status[p] = "PROCESSING" /\ transfer[p] = "none"
      BY <1>0, <1>5 DEF PayoutStage, Inv, CallStages, CallStage
    <2>2. ASSUME NEW q \in Requests, target[q] = p, pc[q] \in {"settle", "release", "catch"}
          PROVE  FALSE
      <3>1. CASE pc[q] = "catch"
        <4>1. q \in Refs /\ target[q] = q
          BY <3>1 DEF Inv, Routing, Requests, HandlerSteps, SharedSteps
        <4>2. QED
          BY <4>1, <2>2, <3>1, <1>5
      <3>2. CASE pc[q] \in {"settle", "release"}
        BY <2>1, <2>2, <3>2 DEF PayoutStages, PayoutStage
      <3>3. QED
        BY <2>2, <3>1, <3>2
    <2>3. status'[p] = status[p]
      BY <1>5, <2>1, <2>2, WithdrawalDecided
    <2>4. QED
      BY <2>1, <2>3
  <1>6. p \in Sound /\ pc[p] = "catch" => transfer'[p] \notin {"pending", "success"}
    BY <1>0, <1>3, TransferSteps DEF PayoutStage, TransferStep, Sound
  <1>7. QED
    BY <1>0, <1>1, <1>3, <1>4, <1>5, <1>6 DEF PayoutStage

LEMMA PayoutCallStep ==
  ASSUME Inv, [Next]_vars, PayoutStages, NEW r \in Refs, Arrive(r) \/ CallStep(r)
  PROVE  PayoutStage(r)'
  <1>0. r \in Requests /\ TypeOK /\ target[r] = r /\ target'[r] = r /\ CallStage(r)
    BY InvStep DEF Inv, Routing, CallStages, Requests
  <1>1. CASE pc'[r] \notin {"transfer", "attachSuccess", "attachFailed", "catch", "settle", "release"}
    BY <1>1 DEF PayoutStage
  <1>2. CASE ReserveFiatWithdrawal(r)
    <2>1. pc'[r] = "transfer" => status'[r] = "PROCESSING" /\ transfer'[r] = "none"
      BY <1>0, <1>2 DEF ReserveFiatWithdrawal, Goto, Return, CallStage, Blank, TypeOK, provider
    <2>2. pc'[r] \in {"transfer", "done"}
      BY <1>0, <1>2 DEF ReserveFiatWithdrawal, Goto, Return, TypeOK
    <2>3. QED
      BY <2>1, <2>2 DEF PayoutStage
  <1>3. CASE TransferToBank(r)
    <2>1. /\ transfer[r] = "none"
          /\ \/ pc'[r] = "attachPending"
             \/ pc'[r] = "attachSuccess" /\ transfer'[r] = "success"
             \/ pc'[r] = "attachFailed" /\ transfer'[r] = "failed"
             \/ pc'[r] = "catch" /\ (transfer'[r] = transfer[r] \/ r \in Lossy)
      BY <1>0, <1>3 DEF TransferToBank, Goto, Throw, DepositTry, WithdrawalTry, PayoutStages, PayoutStage, TypeOK
    <2>2. QED
      BY <2>1 DEF PayoutStage, Sound
  <1>4. CASE AttachWithdrawalProviderResult(r)
    <2>1. /\ transfer' = transfer
          /\ pc'[r] = "settle" => pc[r] = "attachSuccess"
          /\ pc'[r] = "release" => pc[r] = "attachFailed"
          /\ pc'[r] \in {"done", "settle", "release"}
      BY <1>0, <1>4 DEF AttachWithdrawalProviderResult, AfterAttach, Goto, TypeOK, provider
    <2>2. PayoutStage(r)
      BY <1>0 DEF PayoutStages
    <2>3. QED
      BY <1>0, <2>1, <2>2 DEF PayoutStage
  <1>5. CASE Arrive(r)
    BY <1>0, <1>1, <1>5
    DEF Arrive, InitiateFiatDeposit, WithdrawFiat, ExecuteP2PTransfer, Goto, Return, TypeOK
  <1>6. CASE CreateFiatDepositIntent(r) \/ InitiateDeposit(r) \/ ReadForInitialized(r) \/ MarkDepositInitialized(r)
    BY <1>0, <1>1, <1>6
    DEF CreateFiatDepositIntent, InitiateDeposit, ReadForInitialized, MarkDepositInitialized,
        Goto, Return, Throw, DepositTry, WithdrawalTry, TypeOK
  <1>7. QED
    BY <1>2, <1>3, <1>4, <1>5, <1>6 DEF CallStep

\* A settlement throws only for a withdrawal that has been released, and a
\* release only after a settlement.
LEMMA PayoutSharedStep ==
  ASSUME Inv, ReservedBacked, PayoutBacked, [Next]_vars, PayoutStages, NEW p \in Requests, SharedStep(p)
  PROVE  PayoutStage(p)'
  <1>0. TypeOK /\ PayoutStage(p)
    BY DEF Inv, PayoutStages
  <1>1. CASE pc'[p] \in {"done", "writeFailed"}
    BY <1>1 DEF PayoutStage
  <1>2. CASE ReadForFailed(p) \/ MarkPaymentFailed(p)
    BY <1>0, <1>1, <1>2 DEF ReadForFailed, MarkPaymentFailed, Goto, Return, TypeOK
  <1>3. ASSUME Throw(p), transfer' = transfer,
               p \in Sound /\ pc[p] # "catch" => transfer[p] \notin {"pending", "success"}
        PROVE  PayoutStage(p)'
    <2>1. \/ pc'[p] = "done"
          \/ p \in Refs /\ pc[p] # "catch" /\ pc'[p] = "catch"
      BY <1>0, <1>3 DEF Throw, DepositTry, WithdrawalTry, Goto, Return, SharedStep, ReadForFailed, MarkPaymentFailed,
                       SettleSuccessfulFiatWithdrawal, ReleaseFailedFiatWithdrawal, TypeOK
    <2>2. QED
      BY <1>1, <1>3, <2>1 DEF PayoutStage, Sound
  <1>4. CASE SettleSuccessfulFiatWithdrawal(p)
    <2>1. CASE Return(p)
      BY <1>0, <1>1, <2>1 DEF Return, TypeOK
    <2>2. CASE status[target[p]] # "SUCCEEDED" /\ ~CanSettle(target[p]) /\ Throw(p)
      <3>1. ASSUME p \in Sound PROVE transfer[p] \notin {"pending", "success"}
        <4>1. /\ target[p] = p /\ IsWithdrawal(p)
              /\ status[p] \in {"PROCESSING", "SUCCEEDED", "FAILED"}
          BY <1>4, <3>1, WithdrawalRow DEF SettleSuccessfulFiatWithdrawal, Inv, Routing, Sound
        <4>2. status[p] = "FAILED"
          BY <2>2, <3>1, <4>1, ProcessingSettles DEF Sound
        <4>3. QED
          BY <3>1, <4>2 DEF PayoutBacked
      <3>2. QED
        BY <1>3, <1>4, <2>2, <3>1 DEF SettleSuccessfulFiatWithdrawal, provider
    <2>3. QED
      BY <1>4, <2>1, <2>2 DEF SettleSuccessfulFiatWithdrawal
  <1>5. CASE ReleaseFailedFiatWithdrawal(p)
    <2>1. CASE Return(p)
      BY <1>0, <1>1, <2>1 DEF Return, TypeOK
    <2>2. CASE Throw(p)
      <3>1. p \in Refs /\ pc[p] # "catch" => transfer[p] \in {"failed", "reversed"}
        BY <1>0, <1>5 DEF ReleaseFailedFiatWithdrawal, PayoutStage, Inv, Routing
      <3>2. QED
        BY <1>3, <1>5, <2>2, <3>1, Zenon DEF Sound, ReleaseFailedFiatWithdrawal, provider
    <2>3. QED
      BY <1>5, <2>1, <2>2 DEF ReleaseFailedFiatWithdrawal
  <1>6. QED
    BY <1>2, <1>4, <1>5 DEF SharedStep

LEMMA PayoutHandlerStep ==
  ASSUME Inv, NEW h \in Handlers,
         \/ HandlerStep(h)
         \/ \E r \in Refs : VerifyFiatDeposit(h, r) \/ \E e \in Emitted(r) : HandlePaystackWebhook(h, r, e)
  PROVE  PayoutStage(h)'
  <1>0. TypeOK /\ h \in Requests /\ h \notin Refs
    BY ConstantsAssumption DEF Inv, Requests
  <1>1. CASE pc'[h] \notin {"settle", "release"}
    BY <1>0, <1>1 DEF PayoutStage
  <1>2. CASE HandlerStep(h)
    BY <1>0, <1>1, <1>2 DEF HandlerStep, VerifyTransaction, PostSuccessfulFiatDeposit, Goto, Return, TypeOK
  <1>3. ASSUME NEW r \in Refs, VerifyFiatDeposit(h, r) PROVE PayoutStage(h)'
    BY <1>0, <1>1, <1>3 DEF VerifyFiatDeposit, TypeOK
  <1>4. ASSUME NEW r \in Refs, NEW e \in Emitted(r), HandlePaystackWebhook(h, r, e)
        PROVE  PayoutStage(h)'
    <2>1. pc'[h] = HookStep(e) /\ target'[h] = r /\ transfer' = transfer
      BY <1>0, <1>4 DEF HandlePaystackWebhook, TypeOK, provider
    <2>2. /\ HookStep(e) = "settle" => transfer[r] \in {"success", "reversed"}
          /\ HookStep(e) = "release" => transfer[r] \in {"failed", "reversed"}
      BY DEF HookStep, Emitted
    <2>3. QED
      BY <1>0, <2>1, <2>2 DEF PayoutStage
  <1>5. QED
    BY <1>2, <1>3, <1>4

\* A failed transaction sends a request to a catch block: then it is not sound.
LEMMA PayoutFailureStep ==
  ASSUME Inv, NEW p \in Requests, TransactionFails(p)
  PROVE  PayoutStage(p)'
  <1>1. p \notin Sound /\ pc'[p] \in {"readFailed", "catch", "done"}
    BY DEF Sound, TransactionFails, Throw, Goto, Return, Inv, TypeOK
  <1>2. QED
    BY <1>1 DEF PayoutStage

LEMMA PayoutStagesStep ==
  ASSUME Inv, ReservedBacked, PayoutBacked, PayoutStages, [Next]_vars
  PROVE  PayoutStages'
  <1> SUFFICES ASSUME NEW p \in Requests PROVE PayoutStage(p)'
    BY DEF PayoutStages
  <1>0. CASE UNCHANGED <<pc[p], target[p]>>
    BY <1>0, PayoutStageKept
  <1>1. CASE \E r \in Refs : Arrive(r) \/ CallStep(r)
    BY <1>0, <1>1, CallMoves, PayoutCallStep DEF OnlyMoves
  <1>2. CASE \E r \in Refs : ProviderStep(r)
    BY <1>0, <1>2, CallMoves
  <1>3. CASE \E h \in Handlers : HandlerStep(h)
    BY <1>0, <1>3, HandlerMoves, PayoutHandlerStep DEF OnlyMoves, Requests
  <1>4. CASE \E q \in Requests : SharedStep(q)
    BY <1>0, <1>4, HandlerMoves, PayoutSharedStep DEF OnlyMoves
  <1>5. ASSUME NEW h \in Handlers, NEW r \in Refs, VerifyFiatDeposit(h, r) PROVE PayoutStage(p)'
    BY <1>0, <1>5, HandlerMoves, PayoutHandlerStep DEF OnlyMoves, Requests
  <1>6. ASSUME NEW h \in Handlers, NEW r \in Refs, NEW e \in Emitted(r),
               HandlePaystackWebhook(h, r, e)
        PROVE  PayoutStage(p)'
    BY <1>0, <1>6, HandlerMoves, PayoutHandlerStep DEF OnlyMoves, Requests
  <1>7. CASE Crash
    BY <1>7 DEF Crash, PayoutStage
  <1>8. CASE UNCHANGED vars
    BY <1>0, <1>8 DEF vars
  <1>9. CASE \E q \in Requests : TransactionFails(q)
    BY <1>0, <1>9, HandlerMoves, PayoutFailureStep DEF OnlyMoves
  <1>10. QED
    BY <1>1, <1>2, <1>3, <1>4, <1>5, <1>6, <1>7, <1>8, <1>9 DEF Next

LEMMA PayoutBackedStep ==
  ASSUME Inv, PayoutBacked, PayoutStages, [Next]_vars
  PROVE  PayoutBacked'
  <1> SUFFICES ASSUME NEW r \in Sound, transfer'[r] \in {"pending", "success"}
               PROVE  status'[r] \in {"PROCESSING", "SUCCEEDED"}
    BY DEF PayoutBacked
  <1> r \in Refs
    BY DEF Sound
  <1>1. CASE TransferToBank(r)
    <2>1. status[r] = "PROCESSING" /\ status' = status
      BY <1>1 DEF TransferToBank, PayoutStages, PayoutStage, Requests, rows
    <2>2. QED
      BY <2>1
  <1>2. CASE ~TransferToBank(r)
    <2>1. transfer[r] \in {"pending", "success"} /\ status[r] \in {"PROCESSING", "SUCCEEDED"}
      BY <1>2, TransferSteps DEF TransferStep, PayoutBacked
    <2>2. IsWithdrawal(r)
      BY <2>1 DEF Inv, RowsAgree, RowAgrees, IsWithdrawal, IsDeposit, Exists, Inputs
    <2>3. ASSUME NEW p \in Requests, target[p] = r, pc[p] \in {"release", "catch"} PROVE FALSE
      <3>1. CASE pc[p] = "release"
        BY <2>1, <2>3, <3>1 DEF PayoutStages, PayoutStage
      <3>2. CASE pc[p] = "catch"
        <4>1. p \in Refs /\ target[p] = p
          BY <3>2 DEF Inv, Routing, Requests, HandlerSteps, SharedSteps
        <4>2. QED
          BY <2>1, <2>3, <3>2, <4>1 DEF PayoutStages, PayoutStage
      <3>3. QED
        BY <2>3, <3>1, <3>2
    <2>4. QED
      BY <2>1, <2>2, <2>3, WithdrawalDecided
  <1>3. QED
    BY <1>1, <1>2

LEMMA PayoutStagesAlways == Spec => [](PayoutBacked /\ PayoutStages)
  <1>1. Init => PayoutBacked /\ PayoutStages
    BY DEF Init, PayoutBacked, PayoutStages, PayoutStage, Requests, Sound
  <1>2. Inv /\ ReservedBacked /\ (PayoutBacked /\ PayoutStages) /\ [Next]_vars => (PayoutBacked /\ PayoutStages)'
    BY PayoutStagesStep, PayoutBackedStep
  <1>3. QED
    BY <1>1, <1>2, Invariance, ReserveBacked, PTL DEF Spec

\* The provider decides what becomes of a withdrawal: it is settled only once
\* it has been paid out and released only once the payout has failed or come
\* back, whatever crashes, lost answers, failed transactions and repeated
\* webhooks there are.  The one release that does not ask is that of the catch
\* block of withdrawFiat, by the withdrawal's own request.
THEOREM ProviderDecides == Spec => PayoutDecides
  <1> DEFINE Decided ==
        \A r \in Refs : (IsWithdrawal(r) /\ status'[r] # status[r]) =>
          \/ status'[r] = "SUCCEEDED" /\ transfer[r] \in {"success", "reversed"}
          \/ status'[r] = "FAILED" /\ transfer[r] \in {"failed", "reversed"}
          \/ status'[r] = "FAILED" /\ pc[r] = "catch" /\ pc'[r] = "done"
  <1>1. Inv /\ PayoutStages /\ [Next]_vars => [Decided]_vars
    <2> SUFFICES ASSUME Inv, PayoutStages, [Next]_vars, NEW r \in Refs, IsWithdrawal(r), status'[r] # status[r]
                 PROVE  \/ status'[r] = "SUCCEEDED" /\ transfer[r] \in {"success", "reversed"}
                        \/ status'[r] = "FAILED" /\ transfer[r] \in {"failed", "reversed"}
                        \/ status'[r] = "FAILED" /\ pc[r] = "catch" /\ pc'[r] = "done"
      OBVIOUS
    <2>1. PICK p \in Requests :
            /\ target[p] = r
            /\ \/ pc[p] = "settle" /\ status'[r] = "SUCCEEDED"
               \/ pc[p] = "release" /\ status'[r] = "FAILED"
               \/ pc[p] = "catch" /\ pc'[p] = "done" /\ status'[r] = "FAILED"
      BY WithdrawalDecided
    <2>2. PayoutStage(p)
      BY DEF PayoutStages
    <2>3. pc[p] = "catch" => p = r
      BY <2>1 DEF Inv, Routing, Requests, HandlerSteps, SharedSteps
    <2>4. QED
      BY <2>1, <2>2, <2>3 DEF PayoutStage
  <1>2. QED
    BY <1>1, Invariance, PayoutStagesAlways, PTL DEF Spec, PayoutDecides

\* The reserve of a wallet never goes negative, though the release's update of
\* it has no condition.
THEOREM ReserveNeverNegative == Spec => [](reserved \in [Wallets -> Nat])
  <1>1. Inv /\ ReservedBacked => reserved \in [Wallets -> Nat]
    <2> SUFFICES ASSUME Inv, ReservedBacked, NEW w \in Wallets PROVE reserved[w] \in Nat
      BY DEF Inv, TypeOK
    <2> DEFINE f == [q \in Refs |-> input[q].amount]
               S == {q \in Refs : status[q] = "PROCESSING" /\ input[q].wallet = w}
    <2>1. reserved[w] = SumOver(f, S)
      BY DEF ReservedBacked, AmountsOf
    <2>2. IsFiniteSet(S) /\ \A q \in S : f[q] \in Nat
      BY RefsAssumption, FS_Subset, Amounted DEF Inv, TypeOK
    <2> HIDE DEF f, S
    <2>3. QED
      BY <2>1, <2>2, SumCovers
  <1>2. QED
    BY <1>1, Invariance, ReserveBacked, PTL

\* A settlement of a withdrawal that is still PROCESSING is never refused: the
\* error of settleSuccessfulFiatWithdrawal, "Reserved funds are not available
\* for settlement.", is out of reach, and so is a conflict in the ledger.
THEOREM SettlementNeverRefused ==
  Spec => [](\A r \in Refs : IsWithdrawal(r) /\ status[r] = "PROCESSING" => CanSettle(r))
  <1>1. Inv /\ ReservedBacked =>
          \A r \in Refs : IsWithdrawal(r) /\ status[r] = "PROCESSING" => CanSettle(r)
    BY ProcessingSettles
  <1>2. QED
    BY <1>1, Invariance, ReserveBacked, PTL

\* What wallet.service.ts:190 says of a release is true when no answer of the
\* provider is lost and no transaction fails: these two, and no interleaving, no
\* repeated webhook and no crash, are what makes the catch block give back the
\* funds of a payout.
THEOREM UnpaidUnlessFailed == Lossy = {} /\ Failing = {} /\ Spec => []ReleasedMeansUnpaid
  <1> SUFFICES ASSUME Lossy = {}, Failing = {} PROVE Spec => []ReleasedMeansUnpaid
    OBVIOUS
  <1>1. PayoutBacked => ReleasedMeansUnpaid
    BY DEF PayoutBacked, ReleasedMeansUnpaid, Sound
  <1>2. QED
    BY <1>1, PayoutStagesAlways, PTL

\* The transition a request has asserted on its read of the row.
Asserted(r) ==
  /\ pc[r] = "writeInit" => assertPaymentTransition(status[r], "AWAITING_CUSTOMER")
  /\ pc[r] = "writeFailed" => assertPaymentTransition(status[r], "FAILED")

LEMMA AssertedStep ==
  ASSUME Handlers = {}, Inv, [Next]_vars, NEW r \in Refs, Asserted(r)
  PROVE  Asserted(r)'
  <1>0. TypeOK /\ r \in Requests
    BY DEF Inv, Requests
  <1>1. CASE pc'[r] \notin {"writeInit", "writeFailed"}
    BY <1>1 DEF Asserted
  <1>2. CASE ReadForInitialized(r) \/ ReadForFailed(r)
    BY <1>0, <1>2 DEF ReadForInitialized, ReadForFailed, Asserted, Goto, Return, Throw, TypeOK, rows, Inv, Routing
  <1>3. CASE UNCHANGED <<pc[r], status[r]>>
    BY <1>3 DEF Asserted
  <1>4. CASE pc[r] # pc'[r] /\ ~ReadForInitialized(r) /\ ~ReadForFailed(r)
    <2>1. ASSUME NEW q \in Refs, Arrive(q) \/ CallStep(q) \/ ProviderStep(q)
          PROVE  pc'[r] \notin {"writeInit", "writeFailed"}
      <3>1. q = r /\ ~ProviderStep(q)
        BY <1>0, <1>4, <2>1, CallMoves DEF OnlyMoves
      <3>2. CASE Arrive(r)
        BY <1>0, <3>2 DEF Arrive, InitiateFiatDeposit, WithdrawFiat, ExecuteP2PTransfer, Goto, Return, TypeOK
      <3>3. CASE AttachWithdrawalProviderResult(r)
        BY <1>0, <3>3 DEF AttachWithdrawalProviderResult, AfterAttach, Goto, TypeOK
      <3>4. CASE CreateFiatDepositIntent(r) \/ InitiateDeposit(r) \/ MarkDepositInitialized(r) \/ ReserveFiatWithdrawal(r)
        BY <1>0, <3>4
        DEF CreateFiatDepositIntent, InitiateDeposit, MarkDepositInitialized, ReserveFiatWithdrawal,
            Goto, Return, Throw, TypeOK
      <3>5. CASE TransferToBank(r)
        BY <1>0, <3>5 DEF TransferToBank, Goto, Return, Throw, TypeOK
      <3>6. QED
        BY <1>4, <2>1, <3>1, <3>2, <3>3, <3>4, <3>5 DEF CallStep
    <2>2. ASSUME NEW q \in Requests, SharedStep(q)
          PROVE  pc'[r] \notin {"writeInit", "writeFailed"}
      <3>1. q = r
        BY <1>0, <1>4, <2>2, HandlerMoves DEF OnlyMoves
      <3>2. QED
        BY <1>0, <1>4, <2>2, <3>1
        DEF SharedStep, MarkPaymentFailed, SettleSuccessfulFiatWithdrawal, ReleaseFailedFiatWithdrawal,
            Goto, Return, Throw, TypeOK
    <2>3. ASSUME Crash PROVE pc'[r] \notin {"writeInit", "writeFailed"}
      <3>1. pc'[r] = IF pc[r] = "new" THEN "new" ELSE "done"
        BY <1>0, <2>3 DEF Crash
      <3>2. QED
        BY <3>1
    <2>4. ASSUME NEW q \in Requests, TransactionFails(q)
          PROVE  pc'[r] \notin {"writeInit", "writeFailed"}
      <3>1. q = r
        BY <1>0, <1>4, <2>4, HandlerMoves DEF OnlyMoves
      <3>2. QED
        BY <1>0, <2>4, <3>1 DEF TransactionFails, Throw, Goto, Return, TypeOK
    <2>5. QED
      BY <1>1, <1>4, <2>1, <2>2, <2>3, <2>4 DEF Next, vars
  <1>5. CASE pc[r] = pc'[r] /\ status'[r] # status[r] /\ pc[r] \in {"writeInit", "writeFailed"}
    <2>1. ASSUME NEW p \in Requests, target[p] = r PROVE p = r
      BY <2>1 DEF Requests, Inv, Routing
    <2>2. StatusWriter(r)
      BY <1>5, StatusWriters
    <2>3. target[r] = r
      BY DEF Inv, Routing
    <2>4. QED
      BY <1>0, <1>5, <2>1, <2>2
      DEF StatusWriter, CreateFiatDepositIntent, MarkDepositInitialized, ReserveFiatWithdrawal,
          MarkPaymentFailed, SettleSuccessfulFiatWithdrawal, ReleaseFailedFiatWithdrawal, Return, TypeOK
  <1>6. QED
    BY <1>1, <1>2, <1>3, <1>4, <1>5

\* payment-state.test.ts:19 holds of deposits too as long as an initiating
\* request has its row to itself: the illegal transitions need a verify request
\* or a webhook between an unlocked read and the write that follows it.
THEOREM LegalWhenAlone == Handlers = {} /\ Spec => TransitionsLegal
  <1> SUFFICES ASSUME Handlers = {} PROVE Spec => TransitionsLegal
    OBVIOUS
  <1> DEFINE AllAsserted == \A r \in Refs : Asserted(r)
             Legal == \A r \in Refs : Exists(r) => assertPaymentTransition(status[r], status'[r])
  <1>1. Init => AllAsserted
    BY DEF Init, Asserted, Requests
  <1>2. Inv /\ AllAsserted /\ [Next]_vars => AllAsserted'
    BY AssertedStep
  <1>3. Inv /\ AllAsserted /\ [Next]_vars => [Legal]_vars
    <2> SUFFICES ASSUME Inv, AllAsserted, [Next]_vars, NEW r \in Refs, Exists(r), status'[r] # status[r]
                 PROVE  assertPaymentTransition(status[r], status'[r])
      BY DEF assertPaymentTransition
    <2>1. StatusWriter(r)
      BY StatusWriters
    <2>2. CASE CreateFiatDepositIntent(r) \/ ReserveFiatWithdrawal(r)
      BY <2>2 DEF CreateFiatDepositIntent, ReserveFiatWithdrawal, Exists, Inv, CallStages, CallStage, Blank
    <2>3. CASE MarkDepositInitialized(r)
      BY <2>3 DEF MarkDepositInitialized, Asserted, Inv, TypeOK
    <2>4. ASSUME NEW p \in Requests, target[p] = r,
                 MarkPaymentFailed(p) \/ SettleSuccessfulFiatWithdrawal(p) \/ ReleaseFailedFiatWithdrawal(p)
          PROVE  assertPaymentTransition(status[r], status'[r])
      <3>1. CASE MarkPaymentFailed(p)
        <4>1. p = r /\ status'[r] = "FAILED"
          BY <2>4, <3>1 DEF MarkPaymentFailed, Requests, Inv, Routing, TypeOK
        <4>2. QED
          BY <3>1, <4>1 DEF MarkPaymentFailed, Asserted
      <3>2. CASE SettleSuccessfulFiatWithdrawal(p)
        BY <2>4, <3>2 DEF SettleSuccessfulFiatWithdrawal, CanSettle, Inv, TypeOK, rows
      <3>3. CASE ReleaseFailedFiatWithdrawal(p)
        BY <2>4, <3>3 DEF ReleaseFailedFiatWithdrawal, CanRelease, Inv, TypeOK, rows
      <3>4. QED
        BY <2>4, <3>1, <3>2, <3>3
    <2>5. QED
      BY <2>1, <2>2, <2>3, <2>4 DEF StatusWriter
  <1> HIDE DEF AllAsserted
  <1>4. QED
    BY <1>1, <1>2, <1>3, Invariance, PTL DEF Spec, TransitionsLegal
=============================================================================
