--------------------------- MODULE SavingsProofs ---------------------------
(***************************************************************************)
(* Theorems about Savings for every set of wallets, plans, requests and    *)
(* amounts: Inv is inductive, and with it no step loses or makes money.    *)
(***************************************************************************)
EXTENDS Savings, SumsProofs

\* Amounts are numbers, and none exceeds the greatest.
LEMMA AmountsAreNumbers ==
  /\ \A amount \in Amounts : amount \in Int /\ amount > 0 /\ amount <= Max(Amounts)
  /\ Max(Amounts) \in Nat
  /\ Cardinality(Requests) \in Nat /\ Most \in Nat
  <1>1. /\ IsFiniteSet(Amounts) /\ Amounts # {} /\ IsFiniteSet(Requests)
        /\ \A amount \in Amounts : amount \in Nat /\ amount > 0
    BY ConstantsAssumption
  <1>2. Amounts \subseteq Int
    BY <1>1
  <1>3. Max(Amounts) \in Amounts /\ \A amount \in Amounts : amount <= Max(Amounts)
    BY <1>1, <1>2, MaxIsMax
  <1>4. Max(Amounts) \in Nat /\ Cardinality(Requests) \in Nat
    BY <1>1, <1>3, FS_CardinalityType
  <1>5. Most \in Nat
    BY <1>4 DEF Most
  <1>6. QED
    BY <1>1, <1>3, <1>4, <1>5

\* Claims are amounts, and add up to Most at most.
LEMMA ClaimTypes ==
  ASSUME NEW rs \in [Requests -> RequestStates \cup {NoRequest}], NEW row
  PROVE  /\ \A q \in Requests : Claim(rs[q], row) \in 0..Max(Amounts)
         /\ SumOver([q \in Requests |-> Claim(rs[q], row)], Requests) \in 0..Most
  <1>1. ASSUME NEW q \in Requests PROVE Claim(rs[q], row) \in 0..Max(Amounts)
    <2>1. rs[q].at \in {"updateWallet", "updatePlan", "commit"} => rs[q].amount \in Amounts
      BY DEF RequestStates, NoRequest
    <2>2. QED
      BY <2>1, AmountsAreNumbers DEF Claim
  <1> DEFINE f == [q \in Requests |-> Claim(rs[q], row)]
  <1>2. \A q \in Requests : f[q] \in 0..Max(Amounts)
    BY <1>1
  <1>3. \A q \in Requests : f[q] \in Nat
    BY <1>2, AmountsAreNumbers
  <1>4. IsFiniteSet(Requests) /\ Max(Amounts) \in Nat
    BY ConstantsAssumption, AmountsAreNumbers
  <1> HIDE DEF f
  <1>5. SumOver(f, Requests) \in Nat
    BY <1>3, <1>4, SumCovers
  <1>6. SumOver(f, Requests) <= Most
    BY <1>2, <1>4, SumAtMost DEF Most
  <1>7. SumOver(f, Requests) \in 0..Most
    BY <1>5, <1>6, AmountsAreNumbers
  <1>8. QED
    BY <1>1, <1>7 DEF f

\* When one request moves on, the claims change by what it claims.
LEMMA ClaimMoves ==
  ASSUME TypeOK, TypeOK', NEW q \in Requests, NEW row,
         \A o \in Requests : o # q => request'[o] = request[o]
  PROVE  Claimed(row)' = Claimed(row) - Claim(request[q], row) + Claim(request'[q], row)
  <1> DEFINE f == [o \in Requests |-> Claim(request[o], row)]
             g == [o \in Requests |-> Claim(request'[o], row)]
  <1>1. \A o \in Requests : f[o] \in Int /\ g[o] \in Int
    <2>1. /\ request \in [Requests -> RequestStates \cup {NoRequest}]
          /\ request' \in [Requests -> RequestStates \cup {NoRequest}]
      BY DEF TypeOK
    <2>2. \A o \in Requests : /\ Claim(request[o], row) \in 0..Max(Amounts)
                             /\ Claim(request'[o], row) \in 0..Max(Amounts)
      BY <2>1, ClaimTypes
    <2>3. QED
      BY <2>2, AmountsAreNumbers
  <1>2. \A o \in Requests \ {q} : f[o] = g[o]
    OBVIOUS
  <1>3. IsFiniteSet(Requests)
    BY ConstantsAssumption
  <1>4. Part(f, Requests, q) = Claim(request[q], row) /\ Part(g, Requests, q) = Claim(request'[q], row)
    BY DEF Part
  <1> HIDE DEF f, g
  <1>5. SumOver(g, Requests) = SumOver(f, Requests) - Part(f, Requests, q) + Part(g, Requests, q)
    BY <1>1, <1>2, <1>3, SumChange
  <1>6. QED
    BY <1>4, <1>5 DEF Claimed, f, g

\* A plan's wallet has the plan's amount in its sum, and no other wallet has.
LEMMA SavedMoves ==
  ASSUME TypeOK, NEW p \in Plans, NEW a \in Int, NEW w \in Wallets,
         saved' = [saved EXCEPT ![p] = @ + a]
  PROVE  LET S == {r \in Plans : WalletOf[r] = w} IN
         /\ SumOver(saved, S) \in Int
         /\ SumOver(saved', S) = SumOver(saved, S) + IF w = WalletOf[p] THEN a ELSE 0
  <1> DEFINE S == {r \in Plans : WalletOf[r] = w}
  <1>1. IsFiniteSet(S)
    BY ConstantsAssumption, FS_Subset
  <1>2. /\ \A r \in S : saved[r] \in Int
        /\ \A r \in S : saved'[r] \in Int
        /\ \A r \in S \ {p} : saved[r] = saved'[r]
    BY DEF TypeOK
  <1>3. /\ SumOver(saved, S) \in Int /\ Part(saved, S, p) \in Int /\ Part(saved', S, p) \in Int
        /\ SumOver(saved', S) = SumOver(saved, S) - Part(saved, S, p) + Part(saved', S, p)
    <2> DEFINE f == saved
               g == saved'
    <2>1. \A r \in S : f[r] \in Int /\ g[r] \in Int
      BY <1>2
    <2>2. \A r \in S \ {p} : f[r] = g[r]
      BY <1>2
    <2> HIDE DEF S, f, g
    <2>3. /\ SumOver(f, S) \in Int /\ Part(f, S, p) \in Int /\ Part(g, S, p) \in Int
          /\ SumOver(g, S) = SumOver(f, S) - Part(f, S, p) + Part(g, S, p)
      BY <1>1, <2>1, <2>2, SumChange
    <2>4. QED
      BY <2>3 DEF f, g
  <1>4. Part(saved', S, p) - Part(saved, S, p) = IF w = WalletOf[p] THEN a ELSE 0
    <2>1. saved'[p] = saved[p] + a /\ saved[p] \in Int
      BY DEF TypeOK
    <2>2. p \in S <=> w = WalletOf[p]
      OBVIOUS
    <2> HIDE DEF S
    <2>3. QED
      BY <2>1, <2>2 DEF Part
  <1> HIDE DEF S
  <1>5. SumOver(saved', S) = SumOver(saved, S) + IF w = WalletOf[p] THEN a ELSE 0
    BY <1>3, <1>4
  <1>6. QED
    BY <1>3, <1>5 DEF S

LEMMA InitInv == Init => Inv
  <1> SUFFICES ASSUME Init PROVE Inv
    OBVIOUS
  <1>1. TypeOK /\ RecordsAgree /\ \A q \in Requests : Fresh(q)
    BY ConstantsAssumption DEF Init, TypeOK, Fresh, RecordsAgree, Rows, NoRequest
  <1>2. MoneyConserved
    <2> SUFFICES ASSUME NEW w \in Wallets
                 PROVE  balance[w] + spent[w] + SumOver(saved, {p \in Plans : WalletOf[p] = w}) = InitialBalance[w]
      BY DEF MoneyConserved
    <2> DEFINE S == {p \in Plans : WalletOf[p] = w}
    <2>1. IsFiniteSet(S) /\ \A p \in S : saved[p] = 0
      BY ConstantsAssumption, FS_Subset DEF Init
    <2>2. SumOver(saved, S) = 0
      <3> HIDE DEF S
      <3> QED  BY <2>1, SumOfZeros
    <2>3. QED
      BY <2>2, ConstantsAssumption DEF Init
  <1>3. ClaimsBounded
    <2>2. ASSUME NEW row PROVE Claimed(row) = 0
      <3> DEFINE f == [q \in Requests |-> Claim(request[q], row)]
      <3>1. \A q \in Requests : f[q] = 0
        BY DEF Init, NoRequest, Claim
      <3> HIDE DEF f
      <3>2. SumOver(f, Requests) = 0
        BY <3>1, SumOfZeros, ConstantsAssumption
      <3>3. QED
        BY <3>2 DEF Claimed, f
    <2>3. QED
      BY <2>2, AmountsAreNumbers, ConstantsAssumption DEF ClaimsBounded, Init
  <1>4. QED
    BY <1>1, <1>2, <1>3 DEF Inv

\* A request that is under way has a plan, an operation and an amount.
LEMMA UnderWay ==
  ASSUME TypeOK, NEW q \in Requests, request[q].at # "idle"
  PROVE  /\ request[q] \in RequestStates
         /\ request[q].plan \in Plans
         /\ WalletOf[request[q].plan] \in Wallets
         /\ request[q].amount \in Amounts
         /\ Gain(request[q]) \in Int
  <1>1. request[q] \in RequestStates
    BY DEF TypeOK, NoRequest
  <1>2. /\ request[q].plan \in Plans
        /\ WalletOf[request[q].plan] \in Wallets
        /\ request[q].amount \in Amounts
    BY <1>1, ConstantsAssumption DEF RequestStates
  <1>3. request[q].amount \in Int
    BY <1>2, AmountsAreNumbers
  <1>4. QED
    BY <1>1, <1>2, <1>3 DEF Gain

\* The types of the variables are kept.
LEMMA TypeStep == TypeOK /\ [Next]_vars => TypeOK'
  <1> SUFFICES ASSUME TypeOK, [Next]_vars PROVE TypeOK'
    OBVIOUS
  <1> USE ConstantsAssumption
  <1>1. ASSUME NEW p \in Plans, CancelPlan(p) \/ UnlockDatePasses(p) PROVE TypeOK'
    <2>1. plan[p] \in PlanRows
      BY <1>1 DEF CancelPlan, UnlockDatePasses, Exists, TypeOK, NoPlan
    <2>2. QED
      BY <1>1, <2>1 DEF CancelPlan, UnlockDatePasses, TypeOK, PlanRows
  <1>2. ASSUME NEW p \in Plans, NEW type \in {"FLEXIBLE", "LOCKED"}, NEW locked \in BOOLEAN,
               NEW unlockDate \in {"none", "future"}, CreatePlan(p, type, locked, unlockDate)
        PROVE  TypeOK'
    BY <1>2 DEF CreatePlan, NewPlan, TypeOK, PlanRows
  <1>3. ASSUME NEW q \in Requests, NEW op \in {"fund", "withdraw"}, NEW p \in Plans,
               NEW amount \in Amounts, Start(q, op, p, amount)
        PROVE  TypeOK'
    BY <1>3 DEF Start, TypeOK, RequestStates
  <1>4. ASSUME NEW q \in Requests, Proceed(q) PROVE TypeOK'
    <2>1. request[q].at # "idle"
      BY <1>4 DEF Proceed, Check, UpdateWallet, UpdatePlan, Finish, CommitFunding, CommitWithdrawal, Commit
    <2> USE <2>1, UnderWay
    <2>2. CASE Check(q)
      BY <2>2 DEF Check, NextStatement, TypeOK, RequestStates
    <2>3. CASE UpdateWallet(q)
      <3>1. balance[WalletOf[request[q].plan]] - Gain(request[q]) \in Int
        BY DEF TypeOK
      <3>2. /\ lock' \in [Rows -> Requests \cup {Nobody}]
            /\ NextStatement(request[q]) = "updatePlan"
        BY <2>3 DEF UpdateWallet, NextStatement, Acquire, TypeOK
      <3>3. [request[q] EXCEPT !.at = "updatePlan", !.newBalance = balance[WalletOf[request[q].plan]] - Gain(request[q])]
              \in RequestStates
        BY <3>1 DEF RequestStates
      <3>4. request' = [request EXCEPT ![q] = [request[q] EXCEPT !.at = "updatePlan",
                                 !.newBalance = balance[WalletOf[request[q].plan]] - Gain(request[q])]]
        BY <2>3, <3>2 DEF UpdateWallet, TypeOK
      <3>5. QED
        BY <2>3, <3>2, <3>3, <3>4 DEF UpdateWallet, TypeOK
    <2>4. CASE UpdatePlan(q)
      <3>1. saved[request[q].plan] + Gain(request[q]) \in Int
        BY DEF TypeOK
      <3>2. /\ lock' \in [Rows -> Requests \cup {Nobody}]
            /\ NextStatement(request[q]) = "commit"
        BY <2>4 DEF UpdatePlan, NextStatement, Acquire, TypeOK
      <3>3. [request[q] EXCEPT !.at = "commit", !.newSaved = saved[request[q].plan] + Gain(request[q])]
              \in RequestStates
        BY <3>1 DEF RequestStates
      <3>4. request' = [request EXCEPT ![q] = [request[q] EXCEPT !.at = "commit",
                                 !.newSaved = saved[request[q].plan] + Gain(request[q])]]
        BY <2>4, <3>2 DEF UpdatePlan, TypeOK
      <3>5. QED
        BY <2>4, <3>2, <3>3, <3>4 DEF UpdatePlan, TypeOK
    <2>5. CASE Finish(q)
      <3>1. request[q].amount \in Int
        BY AmountsAreNumbers
      <3>2. recorded' \in [Plans -> Int]
        BY <2>5, <3>1 DEF Finish, CommitFunding, CommitWithdrawal, TypeOK
      <3>3. Commit(q)
        BY <2>5 DEF Finish, CommitFunding, CommitWithdrawal
      <3>4. QED
        BY <3>2, <3>3 DEF Commit, Released, TypeOK, RequestStates
    <2>6. QED
      BY <1>4, <2>2, <2>3, <2>4, <2>5 DEF Proceed
  <1>5. ASSUME NEW q \in Requests, Rollback(q) PROVE TypeOK'
    BY <1>5 DEF Rollback, Released, TypeOK
  <1>6. ASSUME NEW w \in Wallets, NEW amount \in Amounts, Spend(w, amount) PROVE TypeOK'
    BY <1>6 DEF Spend, TypeOK
  <1>7. CASE UNCHANGED vars
    BY <1>7 DEF vars, TypeOK
  <1>8. QED
    BY <1>1, <1>2, <1>3, <1>4, <1>5, <1>6, <1>7 DEF Next

\* A request's rows stay locked, and the committed versions of the rows it has
\* locked stay as they are, while others take their steps.
LEMMA FreshKept ==
  ASSUME TypeOK, NEW q \in Requests, Fresh(q), request'[q] = request[q],
         \A row \in Rows : lock[row] = q => lock'[row] = q,
         \A w \in Wallets : lock[w] = q => balance'[w] = balance[w],
         \A p \in Plans : lock[p] = q => saved'[p] = saved[p]
  PROVE  Fresh(q)'
  <1>1. CASE request[q].at \notin {"updatePlan", "commit"}
    BY <1>1 DEF Fresh
  <1>2. CASE request[q].at \in {"updatePlan", "commit"}
    BY <1>2, UnderWay DEF Fresh, Rows, Gain
  <1>3. QED
    BY <1>1, <1>2

\* Every step leaves every version fresh.
LEMMA FreshStep ==
  ASSUME Inv, [Next]_vars, NEW q \in Requests
  PROVE  Fresh(q)'
  <1> USE ConstantsAssumption
  <1>1. TypeOK /\ \A o \in Requests : Fresh(o)
    BY DEF Inv
  <1>2. ASSUME NEW p \in Plans, CancelPlan(p) \/ UnlockDatePasses(p) PROVE Fresh(q)'
    BY <1>1, <1>2, FreshKept DEF CancelPlan, UnlockDatePasses
  <1>3. ASSUME NEW p \in Plans, NEW type \in {"FLEXIBLE", "LOCKED"}, NEW locked \in BOOLEAN,
               NEW unlockDate \in {"none", "future"}, CreatePlan(p, type, locked, unlockDate)
        PROVE  Fresh(q)'
    BY <1>1, <1>3, FreshKept DEF CreatePlan
  <1>4. ASSUME NEW o \in Requests, NEW op \in {"fund", "withdraw"}, NEW p \in Plans,
               NEW amount \in Amounts, Start(o, op, p, amount)
        PROVE  Fresh(q)'
    <2>1. CASE o = q
      BY <1>1, <1>4, <2>1 DEF Start, Fresh, TypeOK
    <2>2. CASE o # q
      BY <1>1, <1>4, <2>2, FreshKept DEF Start, TypeOK
    <2>3. QED
      BY <2>1, <2>2
  <1>5. ASSUME NEW o \in Requests, Proceed(o) PROVE Fresh(q)'
    <2>1. request[o].at # "idle"
      BY <1>5 DEF Proceed, Check, UpdateWallet, UpdatePlan, Finish, CommitFunding, CommitWithdrawal, Commit
    <2>2. /\ request[o].plan \in Plans /\ WalletOf[request[o].plan] \in Wallets
          /\ Gain(request[o]) \in Int
      BY <1>1, <2>1, UnderWay
    <2>3. CASE o = q
      <3>1. CASE Check(q)
        BY <1>1, <3>1 DEF Check, NextStatement, Fresh, TypeOK, NoRequest
      <3>2. CASE UpdateWallet(q)
        BY <1>1, <2>2, <2>3, <3>2 DEF UpdateWallet, NextStatement, Acquire, Fresh, TypeOK, Rows, Gain
      <3>3. CASE UpdatePlan(q)
        BY <1>1, <2>2, <2>3, <3>3 DEF UpdatePlan, NextStatement, Acquire, Fresh, TypeOK, Rows, Gain
      <3>4. CASE Finish(q)
        BY <1>1, <3>4 DEF Finish, CommitFunding, CommitWithdrawal, Commit, Fresh, TypeOK, NoRequest
      <3>5. QED
        BY <1>5, <2>3, <3>1, <3>2, <3>3, <3>4 DEF Proceed
    <2>4. CASE o # q
      <3>1. CASE Check(o)
        BY <1>1, <2>4, <3>1, FreshKept DEF Check, TypeOK
      <3>2. CASE UpdateWallet(o) \/ UpdatePlan(o)
        BY <1>1, <2>2, <2>4, <3>2, FreshKept DEF UpdateWallet, UpdatePlan, Acquire, Free, TypeOK, Rows
      <3>3. CASE Finish(o)
        <4>1. Commit(o)
          BY <3>3 DEF Finish, CommitFunding, CommitWithdrawal
        <4>2. QED
          BY <1>1, <2>2, <2>4, <4>1, FreshKept DEF Commit, Released, Fresh, TypeOK, Rows
      <3>4. QED
        BY <1>5, <3>1, <3>2, <3>3 DEF Proceed
    <2>5. QED
      BY <2>3, <2>4
  <1>6. ASSUME NEW o \in Requests, Rollback(o) PROVE Fresh(q)'
    <2>1. CASE o = q
      BY <1>1, <1>6, <2>1 DEF Rollback, Fresh, TypeOK, NoRequest
    <2>2. CASE o # q
      BY <1>1, <1>6, <2>2, FreshKept DEF Rollback, Released, TypeOK
    <2>3. QED
      BY <2>1, <2>2
  <1>7. ASSUME NEW w \in Wallets, NEW amount \in Amounts, Spend(w, amount) PROVE Fresh(q)'
    BY <1>1, <1>7, FreshKept DEF Spend, Free, TypeOK
  <1>8. CASE UNCHANGED vars
    BY <1>1, <1>8, FreshKept DEF vars
  <1>9. QED
    BY <1>2, <1>3, <1>4, <1>5, <1>6, <1>7, <1>8 DEF Next

\* What a finished request records is what its plan gains.
LEMMA FinishMoves ==
  ASSUME Inv, NEW q \in Requests, Finish(q)
  PROVE  LET r == request[q] IN
         /\ r.plan \in Plans /\ r.amount \in Amounts /\ r.at = "commit"
         /\ balance' = [balance EXCEPT ![WalletOf[r.plan]] = @ - Gain(r)]
         /\ saved' = [saved EXCEPT ![r.plan] = @ + Gain(r)]
         /\ recorded' = [recorded EXCEPT ![r.plan] = @ + Gain(r)]
         /\ spent' = spent
  <1>1. Commit(q) /\ request[q].at = "commit"
    BY DEF Finish, CommitFunding, CommitWithdrawal, Commit
  <1>2. TypeOK /\ Fresh(q) /\ request[q].at # "idle"
    BY <1>1 DEF Inv
  <1>3. /\ request[q] \in RequestStates /\ request[q].plan \in Plans
        /\ request[q].amount \in Amounts /\ request[q].amount \in Int
    BY <1>2, UnderWay, AmountsAreNumbers
  <1>4. /\ request[q].newBalance = balance[WalletOf[request[q].plan]] - Gain(request[q])
        /\ request[q].newSaved = saved[request[q].plan] + Gain(request[q])
    BY <1>1, <1>2 DEF Fresh
  <1>5. recorded' = [recorded EXCEPT ![request[q].plan] = @ + Gain(request[q])]
    <2>1. CASE CommitFunding(q)
      BY <2>1 DEF CommitFunding, Gain
    <2>2. CASE CommitWithdrawal(q)
      <3>1. Gain(request[q]) = -request[q].amount
        BY <2>2 DEF CommitWithdrawal, Gain
      <3>2. recorded[request[q].plan] - request[q].amount = recorded[request[q].plan] + Gain(request[q])
        BY <1>2, <1>3, <3>1 DEF TypeOK
      <3>3. QED
        BY <2>2, <3>2 DEF CommitWithdrawal
    <2>3. QED
      BY <2>1, <2>2 DEF Finish
  <1>6. QED
    BY <1>1, <1>3, <1>4, <1>5 DEF Commit

\* A plan's amount and its transactions move together.
LEMMA RecordsStep == Inv /\ [Next]_vars => RecordsAgree'
  <1> SUFFICES ASSUME Inv, [Next]_vars PROVE RecordsAgree'
    OBVIOUS
  <1>1. TypeOK /\ RecordsAgree
    BY DEF Inv
  <1>2. ASSUME NEW q \in Requests, Finish(q) PROVE RecordsAgree'
    BY <1>1, <1>2, FinishMoves DEF RecordsAgree, TypeOK
  <1>3. CASE UNCHANGED <<saved, recorded>>
    BY <1>1, <1>3 DEF RecordsAgree
  <1>4. ASSUME NEW q \in Requests, Check(q) \/ UpdateWallet(q) \/ UpdatePlan(q) \/ Rollback(q)
        PROVE  UNCHANGED <<saved, recorded>>
    BY <1>4 DEF Check, UpdateWallet, UpdatePlan, Rollback
  <1>5. QED
    BY <1>2, <1>3, <1>4 DEF Next, Proceed, CancelPlan, UnlockDatePasses, CreatePlan, Start, Spend, vars

\* Wallets, plans and payments together keep what they hold.
LEMMA MoneyStep == Inv /\ [Next]_vars => MoneyConserved'
  <1> SUFFICES ASSUME Inv, [Next]_vars, NEW w \in Wallets
               PROVE  balance'[w] + spent'[w] + SumOver(saved', {p \in Plans : WalletOf[p] = w})
                        = InitialBalance[w]
    BY DEF MoneyConserved
  <1> DEFINE S == {p \in Plans : WalletOf[p] = w}
  <1>1. /\ TypeOK /\ balance[w] \in Int /\ spent[w] \in Int
        /\ balance[w] + spent[w] + SumOver(saved, S) = InitialBalance[w]
    BY DEF Inv, MoneyConserved, TypeOK
  <1>2. SumOver(saved, S) \in Int
    <2>1. IsFiniteSet(S) /\ \A p \in S : saved[p] \in Int
      BY <1>1, ConstantsAssumption, FS_Subset DEF TypeOK
    <2> HIDE DEF S
    <2>2. QED
      BY <2>1, SumIsInt
  <1>3. ASSUME NEW q \in Requests, Finish(q)
        PROVE  balance'[w] + spent'[w] + SumOver(saved', S) = InitialBalance[w]
    <2> DEFINE r == request[q]
    <2>1. /\ r.plan \in Plans /\ r.amount \in Amounts /\ r.at = "commit"
          /\ balance' = [balance EXCEPT ![WalletOf[r.plan]] = @ - Gain(r)]
          /\ saved' = [saved EXCEPT ![r.plan] = @ + Gain(r)]
          /\ spent' = spent
      BY <1>3, FinishMoves
    <2>2. Gain(r) \in Int
      BY <1>1, <2>1, UnderWay
    <2>3. SumOver(saved', S) = SumOver(saved, S) + IF w = WalletOf[r.plan] THEN Gain(r) ELSE 0
      <3> HIDE DEF r
      <3> QED  BY <1>1, <2>1, <2>2, SavedMoves
    <2>4. balance'[w] = balance[w] - IF w = WalletOf[r.plan] THEN Gain(r) ELSE 0
      <3>1. WalletOf[r.plan] \in Wallets
        BY <2>1, ConstantsAssumption
      <3>2. QED
        BY <1>1, <2>1, <2>2, <3>1 DEF TypeOK
    <2> HIDE DEF r, S
    <2>5. QED
      BY <1>1, <1>2, <2>1, <2>2, <2>3, <2>4
  <1>4. ASSUME NEW v \in Wallets, NEW amount \in Amounts, Spend(v, amount)
        PROVE  balance'[w] + spent'[w] + SumOver(saved', S) = InitialBalance[w]
    <2>1. amount \in Int
      BY AmountsAreNumbers
    <2>2. balance'[w] + spent'[w] = balance[w] + spent[w] /\ saved' = saved
      BY <1>1, <1>4, <2>1 DEF Spend, TypeOK
    <2>3. balance'[w] \in Int /\ spent'[w] \in Int
      BY <1>1, <1>4, <2>1 DEF Spend, TypeOK
    <2> HIDE DEF S
    <2>4. QED
      BY <1>1, <1>2, <2>2, <2>3
  <1>5. CASE UNCHANGED <<balance, spent, saved>>
    BY <1>1, <1>5
  <1>6. ASSUME NEW q \in Requests, Check(q) \/ UpdateWallet(q) \/ UpdatePlan(q) \/ Rollback(q)
        PROVE  UNCHANGED <<balance, spent, saved>>
    BY <1>6 DEF Check, UpdateWallet, UpdatePlan, Rollback
  <1>7. QED
    BY <1>3, <1>4, <1>5, <1>6 DEF Next, Proceed, CancelPlan, UnlockDatePasses, CreatePlan, Start, vars

\* What a claim turns into when its request moves on: only a check makes one.
LEMMA ClaimStep ==
  ASSUME Inv, NEW q \in Requests, NEW row \in Rows
  PROVE  /\ Check(q) =>
              \/ Claim(request'[q], row) = Claim(request[q], row)
              \/ row \in Wallets /\ balance[row] >= 0
              \/ row \in Plans /\ saved[row] >= 0
         /\ UpdateWallet(q) \/ UpdatePlan(q) => Claim(request'[q], row) = Claim(request[q], row)
         /\ Finish(q) \/ Rollback(q) => Claim(request'[q], row) = 0
         /\ \A op \in {"fund", "withdraw"}, p \in Plans, amount \in Amounts :
              Start(q, op, p, amount) => Claim(request'[q], row) = Claim(request[q], row)
  <1> USE ConstantsAssumption
  <1>1. TypeOK
    BY DEF Inv
  <1>2. ASSUME Check(q)
        PROVE  \/ Claim(request'[q], row) = Claim(request[q], row)
               \/ row \in Wallets /\ balance[row] >= 0
               \/ row \in Plans /\ saved[row] >= 0
    <2> DEFINE r == request[q]
    <2>1. r.at = "check" /\ r \in RequestStates /\ r.amount \in Amounts /\ r.plan \in Plans
      BY <1>1, <1>2, UnderWay DEF Check
    <2>2. Claim(r, row) = 0
      BY <2>1 DEF Claim
    <2>3. CASE request'[q] = NoRequest
      BY <2>2, <2>3 DEF Claim, NoRequest
    <2>4. CASE request'[q] # NoRequest
      <3>1. Suffices(r) /\ request'[q] = [r EXCEPT !.at = "updateWallet"]
        BY <1>1, <1>2, <2>1, <2>4 DEF Check, NextStatement, TypeOK
      <3>2. /\ request'[q].op = r.op /\ request'[q].plan = r.plan /\ WalletOf[r.plan] \in Wallets
            /\ r.amount \in Int /\ r.amount > 0
        BY <2>1, <3>1, AmountsAreNumbers DEF RequestStates
      <3>3. balance \in [Wallets -> Int] /\ saved \in [Plans -> Int]
        BY <1>1 DEF TypeOK
      <3>4. CASE r.op = "fund"
        <4>1. balance[WalletOf[r.plan]] >= 0
          BY <3>1, <3>2, <3>3, <3>4 DEF Suffices
        <4>2. CASE row = WalletOf[r.plan]
          BY <4>1, <4>2, <3>2
        <4>3. CASE row # WalletOf[r.plan]
          BY <2>2, <3>2, <3>4, <4>3 DEF Claim
        <4>4. QED
          BY <4>2, <4>3
      <3>5. CASE r.op # "fund"
        <4>1. saved[r.plan] >= 0
          BY <2>1, <3>1, <3>2, <3>3, <3>5 DEF Suffices
        <4>2. CASE row = r.plan
          BY <2>1, <4>1, <4>2
        <4>3. CASE row # r.plan
          BY <2>2, <3>2, <3>5, <4>3 DEF Claim
        <4>4. QED
          BY <4>2, <4>3
      <3>6. QED
        BY <3>4, <3>5
    <2>5. QED
      BY <2>3, <2>4
  <1>3. UpdateWallet(q) => Claim(request'[q], row) = Claim(request[q], row)
    BY <1>1, UnderWay DEF UpdateWallet, NextStatement, Claim, TypeOK, RequestStates
  <1>4. UpdatePlan(q) => Claim(request'[q], row) = Claim(request[q], row)
    BY <1>1, UnderWay DEF UpdatePlan, NextStatement, Claim, TypeOK, RequestStates
  <1>5. Finish(q) \/ Rollback(q) => Claim(request'[q], row) = 0
    BY <1>1 DEF Finish, CommitFunding, CommitWithdrawal, Commit, Rollback, Claim, NoRequest, TypeOK
  <1>6. \A op \in {"fund", "withdraw"}, p \in Plans, amount \in Amounts :
          Start(q, op, p, amount) => Claim(request'[q], row) = Claim(request[q], row)
    BY <1>1 DEF Start, Claim, NoRequest, TypeOK
  <1>7. QED
    BY <1>2, <1>3, <1>4, <1>5, <1>6

\* A row falls by no more than its finished request had claimed.
LEMMA FinishMeets ==
  ASSUME Inv, NEW q \in Requests, Finish(q)
  PROVE  /\ \A w \in Wallets : balance'[w] >= balance[w] - Claim(request[q], w)
         /\ \A p \in Plans : saved'[p] >= saved[p] - Claim(request[q], p)
  <1> DEFINE r == request[q]
  <1>1. /\ r.plan \in Plans /\ WalletOf[r.plan] \in Wallets /\ r.at = "commit"
        /\ r.amount \in Int /\ r.amount > 0
        /\ balance' = [balance EXCEPT ![WalletOf[r.plan]] = @ - Gain(r)]
        /\ saved' = [saved EXCEPT ![r.plan] = @ + Gain(r)]
    BY FinishMoves, AmountsAreNumbers, ConstantsAssumption
  <1>2. balance \in [Wallets -> Int] /\ saved \in [Plans -> Int] /\ Wallets \cap Plans = {}
    BY ConstantsAssumption DEF Inv, TypeOK
  <1> HIDE DEF r
  <1>3. CASE r.op = "fund"
    <2>1. Gain(r) = r.amount
      BY <1>3 DEF Gain
    <2>2. \A w \in Wallets : Claim(r, w) = IF w = WalletOf[r.plan] THEN r.amount ELSE 0
      BY <1>1, <1>3 DEF Claim
    <2>3. \A p \in Plans : Claim(r, p) = 0
      BY <1>1, <1>2, <1>3 DEF Claim
    <2>4. QED
      BY <1>1, <1>2, <2>1, <2>2, <2>3 DEF r
  <1>4. CASE r.op # "fund"
    <2>1. Gain(r) = -r.amount
      BY <1>4 DEF Gain
    <2>2. \A p \in Plans : Claim(r, p) = IF p = r.plan THEN r.amount ELSE 0
      BY <1>1, <1>4 DEF Claim
    <2>3. \A w \in Wallets : Claim(r, w) = 0
      BY <1>1, <1>2, <1>4 DEF Claim
    <2>4. QED
      BY <1>1, <1>2, <2>1, <2>2, <2>3 DEF r
  <1>5. QED
    BY <1>3, <1>4

\* A row is overdrawn by Most at most even when all claims are met: a claim is
\* made on a row that is not overdrawn, and met by as much as it falls.
LEMMA ClaimsStep == Inv /\ [Next]_vars => ClaimsBounded'
  <1> SUFFICES ASSUME Inv, [Next]_vars PROVE ClaimsBounded'
    OBVIOUS
  <1> DEFINE Holds(row) == IF row \in Wallets THEN balance[row] ELSE saved[row]
             HoldsNext(row) == IF row \in Wallets THEN balance'[row] ELSE saved'[row]
  <1> SUFFICES ASSUME NEW row \in Rows PROVE HoldsNext(row) - Claimed(row)' >= -Most
    BY ConstantsAssumption DEF ClaimsBounded, Rows, Most
  <1>1. TypeOK /\ TypeOK'
    BY TypeStep DEF Inv
  <1>2. /\ Holds(row) \in Int /\ HoldsNext(row) \in Int /\ Most \in Nat
        /\ Holds(row) - Claimed(row) >= -Most
    BY <1>1, AmountsAreNumbers DEF Inv, ClaimsBounded, TypeOK, Rows
  <1>3. Claimed(row) \in 0..Most /\ Claimed(row)' \in 0..Most
    <2>1. /\ request \in [Requests -> RequestStates \cup {NoRequest}]
          /\ request' \in [Requests -> RequestStates \cup {NoRequest}]
      BY <1>1 DEF TypeOK
    <2>2. QED
      BY <2>1, ClaimTypes DEF Claimed
  <1>4. CASE HoldsNext(row) >= 0
    BY <1>2, <1>3, <1>4
  <1>5. CASE Holds(row) = HoldsNext(row) /\ Claimed(row)' <= Claimed(row)
    BY <1>2, <1>3, <1>5
  <1>6. ASSUME NEW q \in Requests, \A o \in Requests : o # q => request'[o] = request[o]
        PROVE  /\ Claimed(row)' = Claimed(row) - Claim(request[q], row) + Claim(request'[q], row)
               /\ Claim(request[q], row) \in Nat
    <2>1. Claim(request[q], row) \in 0..Max(Amounts)
      BY <1>1, ClaimTypes DEF TypeOK
    <2>2. QED
      BY <1>1, <1>6, <2>1, ClaimMoves, AmountsAreNumbers
  <1>7. ASSUME UNCHANGED <<balance, saved>> PROVE Holds(row) = HoldsNext(row)
    BY <1>7
  <1>8. ASSUME NEW q \in Requests, Proceed(q) \/ Rollback(q)
        PROVE  HoldsNext(row) - Claimed(row)' >= -Most
    <2>1. \A o \in Requests : o # q => request'[o] = request[o]
      BY <1>1, <1>8 DEF Proceed, Check, UpdateWallet, UpdatePlan, Finish, CommitFunding,
                        CommitWithdrawal, Commit, Rollback, TypeOK
    <2>2. CASE Check(q)
      <3>1. UNCHANGED <<balance, saved>>
        BY <2>2 DEF Check
      <3>2. CASE Claim(request'[q], row) = Claim(request[q], row)
        BY <1>3, <1>5, <1>6, <1>7, <2>1, <3>1, <3>2
      <3>3. CASE Claim(request'[q], row) # Claim(request[q], row)
        <4>1. Holds(row) >= 0
          BY <2>2, <3>3, ClaimStep, ConstantsAssumption
        <4>2. QED
          BY <1>4, <1>7, <3>1, <4>1
      <3>4. QED
        BY <3>2, <3>3
    <2>3. CASE UpdateWallet(q) \/ UpdatePlan(q)
      <3>1. UNCHANGED <<balance, saved>>
        BY <2>3 DEF UpdateWallet, UpdatePlan
      <3>2. Claim(request'[q], row) = Claim(request[q], row)
        BY <2>3, ClaimStep
      <3>3. QED
        BY <1>3, <1>5, <1>6, <1>7, <2>1, <3>1, <3>2
    <2>4. CASE Rollback(q)
      <3>1. UNCHANGED <<balance, saved>>
        BY <2>4 DEF Rollback
      <3>2. Claim(request'[q], row) = 0
        BY <2>4, ClaimStep
      <3>3. QED
        BY <1>3, <1>5, <1>6, <1>7, <2>1, <3>1, <3>2
    <2>5. CASE Finish(q)
      <3>1. Claim(request'[q], row) = 0
        BY <2>5, ClaimStep
      <3>2. Claimed(row)' = Claimed(row) - Claim(request[q], row) /\ Claim(request[q], row) \in Nat
        BY <1>3, <1>6, <2>1, <3>1
      <3>3. HoldsNext(row) >= Holds(row) - Claim(request[q], row)
        BY <2>5, FinishMeets, ConstantsAssumption DEF Rows
      <3>4. QED
        BY <1>2, <1>3, <3>2, <3>3
    <2>6. QED
      BY <1>8, <2>2, <2>3, <2>4, <2>5 DEF Proceed
  <1>9. ASSUME NEW q \in Requests, NEW op \in {"fund", "withdraw"}, NEW p \in Plans,
               NEW amount \in Amounts, Start(q, op, p, amount)
        PROVE  HoldsNext(row) - Claimed(row)' >= -Most
    <2>1. UNCHANGED <<balance, saved>> /\ \A o \in Requests : o # q => request'[o] = request[o]
      BY <1>1, <1>9 DEF Start, TypeOK
    <2>2. Claim(request'[q], row) = Claim(request[q], row)
      BY <1>9, ClaimStep
    <2>3. QED
      BY <1>3, <1>5, <1>6, <1>7, <2>1, <2>2
  <1>10. ASSUME NEW w \in Wallets, NEW amount \in Amounts, Spend(w, amount)
         PROVE  HoldsNext(row) - Claimed(row)' >= -Most
    <2>1. Claimed(row)' = Claimed(row)
      BY <1>10 DEF Spend, Claimed
    <2>2. CASE row = w
      <3>1. HoldsNext(row) >= 0
        BY <1>1, <1>10, <2>2, AmountsAreNumbers DEF Spend, TypeOK
      <3>2. QED
        BY <1>4, <3>1
    <2>3. CASE row # w
      <3>1. HoldsNext(row) = Holds(row)
        BY <1>1, <1>10, <2>3 DEF Spend, TypeOK
      <3>2. QED
        BY <1>3, <1>5, <2>1, <3>1
    <2>4. QED
      BY <2>2, <2>3
  <1>11. CASE UNCHANGED <<balance, saved, request>>
    <2>1. Claimed(row)' = Claimed(row)
      BY <1>11 DEF Claimed
    <2>2. QED
      BY <1>3, <1>5, <1>7, <1>11, <2>1
  <1>12. QED
    BY <1>8, <1>9, <1>10, <1>11 DEF Next, CancelPlan, UnlockDatePasses, CreatePlan, vars

\* A request that has updated a row holds its lock and will commit the version
\* that follows the committed one: no update of savings is lost, and a plan
\* holds what its transactions add up to.
THEOREM Invariance == Spec => []Inv
  <1>1. Inv /\ [Next]_vars => Inv'
    BY TypeStep, FreshStep, RecordsStep, MoneyStep, ClaimsStep DEF Inv
  <1>2. QED
    BY InitInv, <1>1, PTL DEF Spec

\* What a wallet has been given is what it, its plans and its payments hold.
THEOREM NothingMade == Spec => []MoneyConserved
  <1>1. Inv => MoneyConserved
    BY DEF Inv
  <1>2. QED
    BY Invariance, <1>1, PTL

\* Requests that have all seen enough money overdraw a wallet or a plan by no
\* more than the greatest amount for each of them.
THEOREM OverdraftIsBounded == Spec => []OverdraftBounded
  <1>1. Inv => OverdraftBounded
    <2> SUFFICES ASSUME Inv PROVE OverdraftBounded
      OBVIOUS
    <2>1. \A row : Claimed(row) \in 0..Most
      BY ClaimTypes DEF Inv, TypeOK, Claimed
    <2>2. balance \in [Wallets -> Int] /\ saved \in [Plans -> Int] /\ Most \in Nat
      BY AmountsAreNumbers DEF Inv, TypeOK
    <2>3. QED
      BY <2>1, <2>2 DEF Inv, ClaimsBounded, OverdraftBounded
  <1>2. QED
    BY Invariance, <1>1, PTL

\* No step loses or makes money: what a wallet loses, its plan gains or a
\* payment has taken.
THEOREM NothingLost == Spec => MovesBalanced
  <1> DEFINE Balanced ==
        \/ UNCHANGED <<balance, spent, saved>>
        \/ \E w \in Wallets, amount \in Amounts :
             /\ balance' = [balance EXCEPT ![w] = @ - amount]
             /\ spent' = [spent EXCEPT ![w] = @ + amount]
             /\ saved' = saved
        \/ \E q \in Requests :
             /\ request[q].at = "commit"
             /\ balance' = [balance EXCEPT ![WalletOf[request[q].plan]] = @ - Gain(request[q])]
             /\ saved' = [saved EXCEPT ![request[q].plan] = @ + Gain(request[q])]
             /\ spent' = spent
  <1>1. Inv /\ [Next]_vars => [Balanced]_vars
    <2> SUFFICES ASSUME Inv, Next PROVE Balanced
      OBVIOUS
    <2>1. ASSUME NEW q \in Requests, Proceed(q) PROVE Balanced
      <3>1. CASE Finish(q)
        BY <3>1, FinishMoves
      <3>2. CASE Check(q) \/ UpdateWallet(q) \/ UpdatePlan(q)
        BY <3>2 DEF Check, UpdateWallet, UpdatePlan
      <3>3. QED
        BY <2>1, <3>1, <3>2 DEF Proceed
    <2>2. ASSUME NEW w \in Wallets, NEW amount \in Amounts, Spend(w, amount) PROVE Balanced
      BY <2>2 DEF Spend
    <2>3. QED
      BY <2>1, <2>2 DEF Next, CancelPlan, UnlockDatePasses, CreatePlan, Start, Rollback
  <1>2. QED
    BY Invariance, <1>1, PTL DEF Spec, MovesBalanced
=============================================================================
