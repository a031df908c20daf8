-------------------------- MODULE WalletMockProofs --------------------------
(***************************************************************************)
(* Theorems about WalletMock for every set of users, amounts, references   *)
(* and concurrent requests: an intent is posted if and only if it has      *)
(* succeeded, a key withdraws once, the wallets hold what the ledger and    *)
(* the withdrawals under way say, and they implement Bank.                 *)
(***************************************************************************)
EXTENDS WalletMock, SumsProofs

LEMMA IdleType == Idle \in RequestStates
  BY ConstantsAssumption DEF Idle, SomeUser, RequestStates, Steps

\* A reference taken for a new row has been unused.
LEMMA Fresh ==
  ASSUME FreshRefs # {}
  PROVE  NewRef \in Refs /\ intent[NewRef] = NoIntent /\ ledger[NewRef] = NoEntry
  BY DEF FreshRefs, NewRef, Unused, Exists, Posted

LEMMA UnderWay ==
  ASSUME TypeOK, NEW q \in Requests
  PROVE  /\ request[q] \in RequestStates
         /\ request[q].user \in Users /\ request[q].to \in Users
         /\ request[q].amount \in Amounts /\ request[q].amount \in Nat
         /\ request[q].key \in Keys \cup {NoKey}
         /\ request[q].ref \in Refs \cup {NoRef}
  BY ConstantsAssumption DEF TypeOK, RequestStates

\* Rows are told from the absence of a row.
LEMMA RowsExist ==
  /\ \A i \in Intents : i # NoIntent
  /\ \A e \in Entries : e # NoEntry
  BY ConstantsAssumption DEF Intents, NoIntent, Entries, NoEntry

LEMMA RowAmounts ==
  /\ \A i \in Intents : i.amount \in Nat
  /\ \A e \in Entries : e.amount \in Nat
  BY ConstantsAssumption DEF Intents, Entries

LEMMA EntryMade ==
  ASSUME NEW from \in Users \cup {Outside}, NEW to \in Users \cup {Outside}, NEW a \in Amounts
  PROVE  \E e \in Entries : e = Entry(from, to, a) /\ e.from = from /\ e.to = to /\ e.amount = a
  <1>1. Entry(from, to, a) \in Entries
    BY DEF Entry, Entries
  <1>2. Entry(from, to, a).from = from /\ Entry(from, to, a).to = to /\ Entry(from, to, a).amount = a
    BY DEF Entry
  <1>3. QED
    BY <1>1, <1>2

\* What a step leaves to a request that is not its own.
Undisturbed(p) ==
  /\ request'[p] = request[p]
  /\ \A u \in Users : lock[u] = p => lock'[u] = p /\ available'[u] >= available[u]

LEMMA HeldKept ==
  ASSUME TypeOK, TypeOK', NEW p \in Requests, Held(p), Undisturbed(p)
  PROVE  Held(p)'
  BY UnderWay DEF Held, Undisturbed, Covers, TypeOK

\* The request of a step, and the intents it may change.
Touches(q, ref) ==
  /\ verified \subseteq verified'
  /\ \A p \in Requests : p # q => request'[p] = request[p]
  /\ \A s \in Refs : s # ref => intent'[s] = intent[s] /\ ledger'[s] = ledger[s]
  /\ request'[q].ref \in {request[q].ref, NoRef, ref}

\* A step on the request's own intent, or on a new one, leaves the others'.
LEMMA WorksKept ==
  ASSUME TypeOK, TypeOK', NEW q \in Requests, NEW ref, Touches(q, ref),
         NEW p \in Requests, p # q, Works(p), Works(q),
         request[p].at \in {"post", "settle"} => request[p].ref # ref
  PROVE  Works(p)'
  <1>1. request'[p] = request[p]
    BY DEF Touches
  <1>2. CASE request[p].at \notin {"post", "settle"}
    BY <1>1, <1>2 DEF Works, Touches
  <1>3. CASE request[p].at \in {"post", "settle"}
    <2>1. request[p].ref \in Refs /\ request[p].ref # ref
      BY <1>3 DEF Works
    <2>2. intent'[request[p].ref] = intent[request[p].ref] /\ ledger'[request[p].ref] = ledger[request[p].ref]
      BY <2>1 DEF Touches
    <2>3. \A o \in Requests : request'[o].ref = request[p].ref => o = p
      <3>1. request[q].ref # request[p].ref
        BY <1>3 DEF Works
      <3>2. request'[q].ref # request[p].ref
        BY <2>1, <3>1, ConstantsAssumption DEF Touches
      <3>3. QED
        BY <1>3, <3>2 DEF Works, Touches
    <2>4. QED
      BY <1>1, <1>3, <2>1, <2>2, <2>3 DEF Works, Touches, Exists, Posted
  <1>4. QED
    BY <1>2, <1>3

LEMMA InitInv == Init => Inv
  <1> SUFFICES ASSUME Init PROVE Inv
    OBVIOUS
  <1>1. TypeOK
    BY IdleType DEF Init, TypeOK
  <1>2. \A q \in Requests : request[q].at = "idle" /\ request[q].ref = NoRef
    BY DEF Init, Idle
  <1>3. QED
    BY <1>1, <1>2 DEF Inv, Held, Works

\* The requests a step of q does not belong to keep what they hold.
OthersHold(q) == \A p \in Requests : p # q => Undisturbed(p)

\* What remains to be shown of a step: the types and the request it belongs to.
LEMMA InvKept ==
  ASSUME Inv, TypeOK', NEW q \in Requests, NEW ref, Touches(q, ref), OthersHold(q),
         \A p \in Requests : p # q /\ request[p].at \in {"post", "settle"} => request[p].ref # ref,
         Held(q)', Works(q)'
  PROVE  Inv'
  <1>1. ASSUME NEW p \in Requests PROVE Held(p)'
    BY HeldKept DEF Inv, OthersHold
  <1>2. ASSUME NEW p \in Requests PROVE Works(p)'
    BY WorksKept DEF Inv
  <1>3. QED
    BY <1>1, <1>2 DEF Inv

\* No request works on an unused reference, nor on that of another.
LEMMA RefsApart ==
  ASSUME Inv, NEW q \in Requests
  PROVE  /\ FreshRefs # {} => \A p \in Requests : request[p].ref # NewRef
         /\ request[q].at \in {"post", "settle"} => \A p \in Requests :
              p # q => request[p].ref # request[q].ref
  BY Fresh, ConstantsAssumption DEF Inv, Works, Exists

LEMMA StartInv ==
  ASSUME Inv, NEW q \in Requests, Start(q)
  PROVE  Inv'
  <1>1. PICK step \in {"debit", "createIntent", "lookup"}, u \in Users, to \in Users, a \in Amounts,
             k \in Keys \cup {NoKey} :
          /\ Arrive(q, step, u, to, a, k)
          /\ step = "debit" => to # u
          /\ step = "createIntent" => k = NoKey
    BY DEF Start, TransferP2P, InitiateFiatDeposit, WithdrawFiat
  <1>2. TypeOK'
    BY <1>1 DEF Arrive, rows, Inv, TypeOK, RequestStates, Steps
  <1>3. request'[q] = [at |-> step, user |-> u, to |-> to, amount |-> a, key |-> k, ref |-> NoRef]
    BY <1>1 DEF Arrive, Inv, TypeOK
  <1>4. Touches(q, NoRef) /\ OthersHold(q)
    BY <1>1, <1>3 DEF Arrive, rows, Touches, OthersHold, Undisturbed, Inv, TypeOK
  <1>5. Held(q)' /\ Works(q)'
    BY <1>1, <1>3 DEF Held, Works, Arrive, KycVerified
  <1>6. \A p \in Requests : request[p].at \in {"post", "settle"} => request[p].ref # NoRef
    BY ConstantsAssumption DEF Inv, Works
  <1>7. QED
    BY <1>2, <1>4, <1>5, <1>6, InvKept

\* A request that has been answered holds and works on nothing.
LEMMA Answered ==
  ASSUME Inv, NEW q \in Requests, Answer(q)
  PROVE  /\ request' \in [Requests -> RequestStates]
         /\ request'[q].ref = NoRef
         /\ \A p \in Requests : p # q => request'[p] = request[p]
         /\ Held(q)' /\ Works(q)'
  <1>1. request'[q] = Idle
    BY DEF Answer, Inv, TypeOK
  <1>2. request'[q].at = "idle" /\ request'[q].ref = NoRef
    BY <1>1 DEF Idle
  <1>3. QED
    BY <1>2, IdleType DEF Answer, Inv, TypeOK, Held, Works

LEMMA RollbackInv ==
  ASSUME Inv, NEW q \in Requests, Rollback(q)
  PROVE  Inv'
  <1>1. TypeOK'
    BY Answered DEF Rollback, Released, rows, Inv, TypeOK
  <1>2. Touches(q, NoRef) /\ OthersHold(q)
    <2>1. ASSUME NEW p \in Requests, p # q PROVE Undisturbed(p)
      BY <2>1, Answered DEF Rollback, Released, rows, Undisturbed, Inv, TypeOK
    <2>2. QED
      BY <2>1, Answered DEF Rollback, rows, Touches, OthersHold
  <1>3. \A p \in Requests : request[p].at \in {"post", "settle"} => request[p].ref # NoRef
    BY ConstantsAssumption DEF Inv, Works
  <1>4. QED
    BY <1>1, <1>2, <1>3, InvKept, Answered DEF Rollback

LEMMA TransferInv ==
  ASSUME Inv, NEW q \in Requests, DebitSender(q) \/ CreditReceiver(q)
  PROVE  Inv'
  <1> USE UnderWay
  <1>1. UNCHANGED <<rows, verified>>
    BY DEF DebitSender, CreditReceiver
  <1>2. \A p \in Requests : p # q => request'[p] = request[p]
    BY DEF DebitSender, CreditReceiver, Goto, Answer, Inv, TypeOK
  <1>3. \A p \in Requests : request[p].at \in {"post", "settle"} => request[p].ref # NoRef
    BY ConstantsAssumption DEF Inv, Works
  <1>4. CASE Answer(q) /\ UNCHANGED lock
    <2>1. TypeOK'
      BY <1>1, <1>4, Answered DEF rows, Inv, TypeOK
    <2>2. Touches(q, NoRef) /\ OthersHold(q)
      <3>1. \A p \in Requests : p # q => Undisturbed(p)
        BY <1>1, <1>2, <1>4 DEF Undisturbed, rows, Inv, TypeOK
      <3>2. QED
        BY <3>1, <1>1, <1>2, <1>4, Answered DEF Touches, OthersHold, rows
    <2>3. QED
      BY <2>1, <2>2, <1>3, <1>4, InvKept, Answered
  <1>5. ASSUME NEW w \in Users, NEW step \in {"credit", "commit"},
               Free(w), lock' = [lock EXCEPT ![w] = q], Goto(q, step),
               step = "credit" => request[q].at = "debit" /\ w = request[q].user /\ Covers(w, request[q].amount),
               step = "commit" => request[q].at = "credit" /\ w = request[q].to
        PROVE  Inv'
    <2>1. request'[q] = [request[q] EXCEPT !.at = step]
      BY <1>5 DEF Goto, Inv, TypeOK
    <2>2. TypeOK'
      BY <1>1, <1>5 DEF Goto, rows, Inv, TypeOK, RequestStates, Steps
    <2>3. Touches(q, NoRef)
      BY <1>1, <1>2, <2>1 DEF Touches, rows, Inv, TypeOK, RequestStates
    <2>4. OthersHold(q)
      BY <1>1, <1>2, <1>5, ConstantsAssumption DEF OthersHold, Undisturbed, Free, rows, Inv, TypeOK
    <2>5. Held(q)' /\ Works(q)'
      <3>1. /\ request'[q].user = request[q].user /\ request'[q].to = request[q].to
            /\ request'[q].amount = request[q].amount /\ request'[q].at = step
            /\ request'[q].ref = request[q].ref
        BY <2>1, UnderWay DEF Inv, RequestStates
      <3>2. lock'[w] = q /\ \A u \in Users : lock[u] = q => lock'[u] = q
        BY <1>5 DEF Inv, TypeOK
      <3>3. Held(q)'
        BY <1>1, <1>5, <3>1, <3>2 DEF Held, Covers, rows, Inv
      <3>4. Works(q)'
        BY <1>1, <1>5, <3>1 DEF Works, rows, Inv
      <3>5. QED
        BY <3>3, <3>4
    <2>6. QED
      BY <2>2, <2>3, <2>4, <2>5, <1>3, InvKept
  <1>6. QED
    BY <1>4, <1>5 DEF DebitSender, CreditReceiver, Inv

\* Rows that one request has locked are changed by no other.
LEMMA CommitTransferInv ==
  ASSUME Inv, NEW q \in Requests, CommitTransfer(q)
  PROVE  Inv'
  <1> DEFINE r == request[q]
  <1>1. /\ r.user \in Users /\ r.to \in Users /\ r.to # r.user /\ r.amount \in Amounts
        /\ r.amount \in Nat /\ available[r.user] >= r.amount
        /\ lock[r.user] = q /\ lock[r.to] = q
    BY UnderWay DEF CommitTransfer, Inv, Held, Works, Covers
  <1>2. NewRef \in Refs /\ Entry(r.user, r.to, r.amount) \in Entries
    BY <1>1, Fresh DEF CommitTransfer, Entry, Entries
  <1>3. TypeOK'
    <2>1. available' \in [Users -> Nat]
      BY <1>1 DEF CommitTransfer, Transferred, Inv, TypeOK
    <2>2. QED
      BY <2>1, <1>2, Answered DEF CommitTransfer, Released, Inv, TypeOK
  <1>4. Touches(q, NewRef)
    BY <1>2, Answered DEF Touches, CommitTransfer, Inv, TypeOK
  <1>5. OthersHold(q)
    <2>1. ASSUME NEW p \in Requests, p # q, NEW u \in Users, lock[u] = p
          PROVE  lock'[u] = p /\ available'[u] >= available[u]
      BY <1>1, <2>1 DEF CommitTransfer, Transferred, Released, Inv, TypeOK
    <2>2. QED
      BY <2>1, Answered DEF CommitTransfer, OthersHold, Undisturbed
  <1>6. QED
    BY <1>3, <1>4, <1>5, RefsApart, Answered, InvKept DEF CommitTransfer

\* A new intent is worked on by the request that has made it.
LEMMA NewIntentInv ==
  ASSUME Inv, NEW q \in Requests, NEW type, NEW status, NEW step,
         \/ type = "FIAT_DEPOSIT" /\ status = "INITIATED" /\ step = "post"
         \/ type = "FIAT_WITHDRAWAL" /\ status = "PROCESSING" /\ step = "settle",
         request[q].at # "idle",
         FreshRefs # {}, CreateIntent(request[q], type, status),
         request' = [request EXCEPT ![q].at = step, ![q].ref = NewRef],
         UNCHANGED <<lock, ledger, verified>>,
         available' \in [Users -> Nat], reserved' \in [Users -> Nat],
         \A u \in Users : ~Free(u) => available'[u] = available[u]
  PROVE  Inv'
  <1> DEFINE i == [type |-> type, user |-> request[q].user, amount |-> request[q].amount,
                   key |-> request[q].key, status |-> status]
  <1>0. PICK new \in Refs : new = NewRef
    BY Fresh
  <1>1. i \in Intents /\ intent' = [intent EXCEPT ![new] = i]
    BY <1>0, UnderWay DEF Intents, CreateIntent, Inv
  <1>2. new \in Refs /\ intent'[new] = i /\ ledger'[new] = NoEntry
    BY <1>0, <1>1, Fresh DEF Inv, TypeOK
  <1>3. step \in Steps
    BY DEF Steps
  <1>4. request' \in [Requests -> RequestStates]
    <2>1. request' = [request EXCEPT ![q].at = step, ![q].ref = new]
      BY <1>0
    <2>2. request[q] \in RequestStates
      BY DEF Inv, TypeOK
    <2>3. [request[q] EXCEPT !.at = step, !.ref = new] \in RequestStates
      BY <2>2, <1>2, <1>3 DEF RequestStates
    <2>4. request' = [request EXCEPT ![q] = [request[q] EXCEPT !.at = step, !.ref = new]]
      BY <2>1, <2>2 DEF RequestStates, Inv, TypeOK
    <2>5. QED
      BY <2>3, <2>4 DEF Inv, TypeOK
  <1>5. TypeOK'
    <2> HIDE DEF i
    <2>1. intent' \in [Refs -> Intents \cup {NoIntent}]
      BY <1>1 DEF Inv, TypeOK
    <2>2. QED
      BY <1>4, <2>1 DEF Inv, TypeOK
  <1>6. /\ request'[q].user = request[q].user /\ request'[q].amount = request[q].amount
        /\ request'[q].at = step /\ request'[q].ref = new
        /\ \A p \in Requests : p # q => request'[p] = request[p]
    <2>1. TypeOK /\ request' = [request EXCEPT ![q].at = step, ![q].ref = new]
      BY <1>0 DEF Inv
    <2>2. QED
      BY <2>1, <1>3 DEF TypeOK, RequestStates
  <1>7. Touches(q, new)
    BY <1>1, <1>6 DEF Touches, Inv, TypeOK
  <1>8. OthersHold(q)
    BY <1>6, ConstantsAssumption DEF OthersHold, Undisturbed, Free, Inv, TypeOK
  <1>9. Works(q)'
    <2>1. \A p \in Requests : request'[p].ref = new => p = q
      BY <1>0, RefsApart, <1>7 DEF Touches
    <2>2. request'[q].user \in verified'
      <3>1. request[q].user \in verified
        BY DEF Works, Inv
      <3>2. QED
        BY <3>1, <1>6
    <2>3. Exists(new)' /\ ~Posted(new)'
      BY <1>1, <1>2, RowsExist DEF Exists, Posted
    <2>4. QED
      <3>1. /\ intent'[new].user = request'[q].user /\ intent'[new].amount = request'[q].amount
            /\ intent'[new].status = status
        BY <1>2, <1>6
      <3>2. QED
        BY <2>1, <2>2, <2>3, <3>1, <1>2, <1>6 DEF Works
  <1>10. Held(q)'
    BY <1>6 DEF Held
  <1>11. QED
    BY <1>0, <1>5, <1>7, <1>8, <1>9, <1>10, RefsApart, InvKept

\* The lookup locks and writes nothing.
LEMMA FindIntentByKeyInv ==
  ASSUME Inv, NEW q \in Requests, FindIntentByKey(q)
  PROVE  Inv'
  <1>1. UNCHANGED <<rows, lock, verified>> /\ request[q].at = "lookup"
    BY DEF FindIntentByKey
  <1>2. \A p \in Requests : request[p].at \in {"post", "settle"} => request[p].ref # NoRef
    BY ConstantsAssumption DEF Inv, Works
  <1>3. CASE Answer(q)
    <2>1. TypeOK'
      BY <1>1, <1>3, Answered DEF rows, Inv, TypeOK
    <2>2. Touches(q, NoRef) /\ OthersHold(q)
      <3>1. \A p \in Requests : p # q => Undisturbed(p)
        BY <1>1, <1>3, Answered DEF Undisturbed, rows, Inv, TypeOK
      <3>2. QED
        BY <3>1, <1>1, <1>3, Answered DEF Touches, OthersHold, rows
    <2>3. QED
      BY <2>1, <2>2, <1>2, <1>3, InvKept, Answered
  <1>4. CASE Goto(q, "reserve")
    <2>1. /\ request'[q] = [request[q] EXCEPT !.at = "reserve"]
          /\ \A p \in Requests : p # q => request'[p] = request[p]
      BY <1>4 DEF Goto, Inv, TypeOK
    <2>2. TypeOK'
      BY <1>1, <1>4 DEF Goto, rows, Inv, TypeOK, RequestStates, Steps
    <2>3. /\ request'[q].user = request[q].user /\ request'[q].at = "reserve"
          /\ request'[q].ref = request[q].ref
      BY <2>1, UnderWay DEF Inv, RequestStates
    <2>4. Touches(q, NoRef) /\ OthersHold(q)
      BY <1>1, <2>1, <2>3 DEF Touches, OthersHold, Undisturbed, rows, Inv, TypeOK
    <2>5. Held(q)' /\ Works(q)'
      BY <1>1, <2>3 DEF Held, Works, rows, Inv
    <2>6. QED
      BY <2>2, <2>4, <2>5, <1>2, InvKept
  <1>5. QED
    BY <1>3, <1>4 DEF FindIntentByKey

LEMMA CreateFiatDepositIntentInv ==
  ASSUME Inv, NEW q \in Requests, CreateFiatDepositIntent(q)
  PROVE  Inv'
  BY NewIntentInv DEF CreateFiatDepositIntent, wallets, Inv, TypeOK

LEMMA ReserveFiatWithdrawalInv ==
  ASSUME Inv, NEW q \in Requests, ReserveFiatWithdrawal(q)
  PROVE  Inv'
  <1> USE UnderWay
  <1>1. CASE Answer(q) /\ UNCHANGED rows
    <2>1. UNCHANGED <<lock, verified>>
      BY DEF ReserveFiatWithdrawal
    <2>2. TypeOK'
      BY <1>1, <2>1, Answered DEF rows, Inv, TypeOK
    <2>3. Touches(q, NoRef) /\ OthersHold(q)
      <3>1. \A p \in Requests : p # q => Undisturbed(p)
        BY <1>1, <2>1, Answered DEF Undisturbed, rows, Inv, TypeOK
      <3>2. QED
        BY <3>1, <1>1, <2>1, Answered DEF Touches, OthersHold, rows
    <2>4. \A p \in Requests : request[p].at \in {"post", "settle"} => request[p].ref # NoRef
      BY ConstantsAssumption DEF Inv, Works
    <2>5. QED
      BY <1>1, <2>2, <2>3, <2>4, InvKept, Answered
  <1>2. CASE ~(Answer(q) /\ UNCHANGED rows)
    <2> DEFINE r == request[q]
    <2>1. /\ r.at = "reserve" /\ Covers(r.user, r.amount) /\ Free(r.user) /\ FreshRefs # {}
          /\ available' = [available EXCEPT ![r.user] = @ - r.amount]
          /\ reserved' = [reserved EXCEPT ![r.user] = @ + r.amount]
          /\ CreateIntent(r, "FIAT_WITHDRAWAL", "PROCESSING")
          /\ request' = [request EXCEPT ![q].at = "settle", ![q].ref = NewRef]
          /\ UNCHANGED <<ledger, lock, verified>>
      BY <1>2 DEF ReserveFiatWithdrawal
    <2>2. /\ available' \in [Users -> Nat] /\ reserved' \in [Users -> Nat]
          /\ \A u \in Users : ~Free(u) => available'[u] = available[u]
      BY <2>1 DEF Covers, Inv, TypeOK
    <2>3. QED
      BY <2>1, <2>2, NewIntentInv
  <1>3. QED
    BY <1>1, <1>2

\* A posting on the request's own intent ends the request.
LEMMA PostingInv ==
  ASSUME Inv, NEW q \in Requests, request[q].at \in {"post", "settle"},
         Answer(q), UNCHANGED <<lock, verified>>, intent' = Succeeded(request[q].ref),
         NEW e \in Entries, ledger' = [ledger EXCEPT ![request[q].ref] = e],
         available' \in [Users -> Nat], reserved' \in [Users -> Nat],
         \A u \in Users : available'[u] >= available[u]
  PROVE  Inv'
  <1>1. request[q].ref \in Refs /\ intent[request[q].ref] \in Intents
    BY DEF Inv, Works, Exists, TypeOK
  <1>2. intent' \in [Refs -> Intents \cup {NoIntent}]
    BY <1>1 DEF Succeeded, Intents, Inv, TypeOK
  <1>3. TypeOK'
    BY <1>1, <1>2, Answered DEF Inv, TypeOK
  <1>4. Touches(q, request[q].ref)
    BY <1>1, Answered DEF Succeeded, Touches, Inv, TypeOK
  <1>5. OthersHold(q)
    BY Answered DEF OthersHold, Undisturbed, Inv, TypeOK
  <1>6. QED
    BY <1>3, <1>4, <1>5, RefsApart, Answered, InvKept

LEMMA PostMockFiatDepositInv ==
  ASSUME Inv, NEW q \in Requests, PostMockFiatDeposit(q)
  PROVE  Inv'
  <1> DEFINE r == request[q]
  <1>1. r.user \in Users /\ r.amount \in Amounts /\ r.amount \in Nat
    BY UnderWay DEF Inv
  <1>2. Entry(Outside, r.user, r.amount) \in Entries
    BY <1>1 DEF Entry, Entries
  <1>3. /\ available' \in [Users -> Nat] /\ reserved' \in [Users -> Nat]
        /\ \A u \in Users : available'[u] >= available[u]
    BY <1>1 DEF PostMockFiatDeposit, Inv, TypeOK
  <1>4. QED
    BY <1>2, <1>3, PostingInv DEF PostMockFiatDeposit

LEMMA SettleSuccessfulFiatWithdrawalInv ==
  ASSUME Inv, NEW q \in Requests, SettleSuccessfulFiatWithdrawal(q)
  PROVE  Inv'
  <1> DEFINE r == request[q]
  <1>1. r.user \in Users /\ r.amount \in Amounts /\ r.amount \in Nat
    BY UnderWay DEF Inv
  <1>2. Entry(r.user, Outside, r.amount) \in Entries
    BY <1>1 DEF Entry, Entries
  <1>3. /\ available' \in [Users -> Nat] /\ reserved' \in [Users -> Nat]
        /\ \A u \in Users : available'[u] >= available[u]
    BY <1>1 DEF SettleSuccessfulFiatWithdrawal, TakenFromReserve, Inv, TypeOK
  <1>4. QED
    BY <1>2, <1>3, PostingInv DEF SettleSuccessfulFiatWithdrawal

\* The inductive invariant holds in every reachable state.
THEOREM Invariance == Spec => []Inv
  <1>1. ASSUME Inv, Next PROVE Inv'
    <2>1. ASSUME NEW u \in Users, CompleteKyc(u) PROVE Inv'
      BY <1>1, <2>1 DEF CompleteKyc, rows, Inv, TypeOK, Held, Works, Covers, Exists, Posted
    <2>2. ASSUME NEW q \in Requests, Proceed(q) PROVE Inv'
      BY <1>1, <2>2, TransferInv, CommitTransferInv, CreateFiatDepositIntentInv,
         PostMockFiatDepositInv, FindIntentByKeyInv, ReserveFiatWithdrawalInv, SettleSuccessfulFiatWithdrawalInv
      DEF Proceed
    <2>3. QED
      BY <1>1, <2>1, <2>2, StartInv, RollbackInv DEF Next
  <1>2. Inv /\ UNCHANGED vars => Inv'
    BY DEF Inv, TypeOK, Held, Works, Covers, Exists, Posted, vars
  <1>3. QED
    BY InitInv, <1>1, <1>2, PTL DEF Spec

\* Which steps change intents and postings.
LEMMA RowsUnchanged ==
  ASSUME NEW q \in Requests, \/ Start(q) \/ Rollback(q)
                            \/ DebitSender(q) \/ CreditReceiver(q) \/ FindIntentByKey(q)
  PROVE  UNCHANGED rows
  BY DEF Start, TransferP2P, InitiateFiatDeposit, WithdrawFiat, Arrive, Rollback, DebitSender,
         CreditReceiver, FindIntentByKey

\* The step of a request on rows: it posts a transfer, makes an intent, posts
\* its intent, or leaves them alone.
LEMMA IntentSteps ==
  ASSUME Inv, Next
  PROVE  \/ UNCHANGED <<intent, ledger>>
         \/ /\ FreshRefs # {} /\ UNCHANGED intent
            /\ \E e \in Entries : ledger' = [ledger EXCEPT ![NewRef] = e]
         \/ /\ FreshRefs # {} /\ UNCHANGED ledger
            /\ \E i \in Intents : /\ intent' = [intent EXCEPT ![NewRef] = i]
                                  /\ i.status # "SUCCEEDED"
                                  /\ i.key = NoKey \/ ~KeyRejected(i.key)
         \/ \E ref \in Refs : /\ Exists(ref) /\ intent' = Succeeded(ref)
                              /\ \E e \in Entries : ledger' = [ledger EXCEPT ![ref] = e]
  <1> USE UnderWay DEF Inv
  <1>1. ASSUME NEW q \in Requests, CommitTransfer(q)
        PROVE  /\ FreshRefs # {} /\ UNCHANGED intent
               /\ \E e \in Entries : ledger' = [ledger EXCEPT ![NewRef] = e]
    <2>1. Entry(request[q].user, request[q].to, request[q].amount) \in Entries
      BY DEF Entry, Entries
    <2>2. QED
      BY <1>1, <2>1 DEF CommitTransfer
  <1>2. ASSUME NEW q \in Requests, NEW type \in {"FIAT_DEPOSIT", "FIAT_WITHDRAWAL"},
               NEW status \in {"INITIATED", "PROCESSING"}, CreateIntent(request[q], type, status),
               request[q].key = NoKey \/ ~KeyRejected(request[q].key)
        PROVE  \E i \in Intents : /\ intent' = [intent EXCEPT ![NewRef] = i]
                                  /\ i.status # "SUCCEEDED"
                                  /\ i.key = NoKey \/ ~KeyRejected(i.key)
    <2> DEFINE i == [type |-> type, user |-> request[q].user, amount |-> request[q].amount,
                     key |-> request[q].key, status |-> status]
    <2>1. i \in Intents
      BY DEF Intents
    <2>2. i.status # "SUCCEEDED" /\ i.key = request[q].key
      OBVIOUS
    <2>3. QED
      BY <1>2, <2>1, <2>2 DEF CreateIntent
  <1>3. ASSUME NEW q \in Requests, CreateFiatDepositIntent(q)
        PROVE  /\ FreshRefs # {} /\ UNCHANGED ledger
               /\ CreateIntent(request[q], "FIAT_DEPOSIT", "INITIATED") /\ request[q].key = NoKey
    BY <1>3 DEF CreateFiatDepositIntent, Works
  <1>4. ASSUME NEW q \in Requests, ReserveFiatWithdrawal(q)
        PROVE  \/ UNCHANGED <<intent, ledger>>
               \/ /\ FreshRefs # {} /\ UNCHANGED ledger
                  /\ CreateIntent(request[q], "FIAT_WITHDRAWAL", "PROCESSING")
                  /\ ~KeyRejected(request[q].key)
    BY <1>4 DEF ReserveFiatWithdrawal, rows
  <1>5. ASSUME NEW q \in Requests, PostMockFiatDeposit(q) \/ SettleSuccessfulFiatWithdrawal(q)
        PROVE  /\ request[q].ref \in Refs /\ Exists(request[q].ref)
               /\ intent' = Succeeded(request[q].ref)
               /\ \E e \in Entries : ledger' = [ledger EXCEPT ![request[q].ref] = e]
    <2>1. /\ Entry(Outside, request[q].user, request[q].amount) \in Entries
          /\ Entry(request[q].user, Outside, request[q].amount) \in Entries
      BY DEF Entry, Entries
    <2>2. QED
      BY <1>5, <2>1 DEF PostMockFiatDeposit, SettleSuccessfulFiatWithdrawal, Works
  <1>6. ASSUME NEW u \in Users, CompleteKyc(u) PROVE UNCHANGED <<intent, ledger>>
    BY <1>6 DEF CompleteKyc, rows
  <1>7. ASSUME NEW q \in Requests, \/ Start(q) \/ Rollback(q)
                                  \/ DebitSender(q) \/ CreditReceiver(q) \/ FindIntentByKey(q)
        PROVE  UNCHANGED <<intent, ledger>>
    BY <1>7, RowsUnchanged DEF rows
  <1>8. CASE \E q \in Requests : CreateFiatDepositIntent(q)
    BY <1>8, <1>2, <1>3
  <1>9. CASE \E q \in Requests : ReserveFiatWithdrawal(q)
    BY <1>9, <1>2, <1>4
  <1>10. CASE \E q \in Requests : CommitTransfer(q)
    BY <1>10, <1>1
  <1>11. CASE \E q \in Requests : PostMockFiatDeposit(q) \/ SettleSuccessfulFiatWithdrawal(q)
    BY <1>11, <1>5
  <1>12. QED
    BY <1>6, <1>7, <1>8, <1>9, <1>10, <1>11 DEF Next, Proceed

\* An intent is posted if and only if it has SUCCEEDED.
THEOREM PostedIffSucceeded == Spec => []PostedMeansSucceeded
  <1>1. Init => PostedMeansSucceeded
    BY DEF Init, PostedMeansSucceeded, Exists
  <1>2. ASSUME Inv, PostedMeansSucceeded, Next, NEW ref \in Refs, Exists(ref)'
        PROVE  Posted(ref)' <=> intent'[ref].status = "SUCCEEDED"
    <2> USE <1>2, RowsExist DEF PostedMeansSucceeded, Exists, Posted, Inv, TypeOK
    <2>1. CASE UNCHANGED <<intent, ledger>>
      BY <2>1
    <2>2. CASE /\ FreshRefs # {} /\ UNCHANGED intent
               /\ \E e \in Entries : ledger' = [ledger EXCEPT ![NewRef] = e]
      BY <2>2, Fresh
    <2>3. CASE /\ FreshRefs # {} /\ UNCHANGED ledger
               /\ \E i \in Intents : /\ intent' = [intent EXCEPT ![NewRef] = i]
                                     /\ i.status # "SUCCEEDED"
      BY <2>3, Fresh
    <2>4. ASSUME NEW s \in Refs, Exists(s), intent' = Succeeded(s),
                 \E e \in Entries : ledger' = [ledger EXCEPT ![s] = e]
          PROVE  Posted(ref)' <=> intent'[ref].status = "SUCCEEDED"
      <3>1. CASE ref = s
        BY <2>4, <3>1 DEF Succeeded, Intents
      <3>2. CASE ref # s
        BY <2>4, <3>2 DEF Succeeded
      <3>3. QED
        BY <3>1, <3>2
    <2>5. QED
      BY <2>1, <2>2, <2>3, <2>4, IntentSteps
  <1>3. Inv /\ PostedMeansSucceeded /\ [Next]_vars => PostedMeansSucceeded'
    BY <1>2 DEF PostedMeansSucceeded, Exists, Posted, vars
  <1>4. QED
    BY Invariance, <1>1, <1>3, PTL DEF Spec

\* Requests with one key withdraw at most once, however many have been past the
\* lookup: the insert of ReserveFiatWithdrawal is refused by the unique index.
THEOREM OneWithdrawal == Spec => []OneWithdrawalPerKey
  <1>1. Init => OneWithdrawalPerKey
    BY DEF Init, OneWithdrawalPerKey, Exists
  <1>2. ASSUME Inv, OneWithdrawalPerKey, Next, NEW p \in Refs, NEW ref \in Refs,
               Exists(p)', Exists(ref)', intent'[p].key = intent'[ref].key, intent'[p].key # NoKey
        PROVE  p = ref
    <2> USE <1>2 DEF OneWithdrawalPerKey, Exists, Inv, TypeOK
    <2>1. CASE UNCHANGED intent
      BY <2>1
    <2>2. ASSUME FreshRefs # {}, NEW i \in Intents, intent' = [intent EXCEPT ![NewRef] = i],
                 i.key = NoKey \/ ~KeyRejected(i.key)
          PROVE  p = ref
      BY <2>2, Fresh DEF KeyRejected, KeyFound
    <2>3. ASSUME NEW s \in Refs, Exists(s), intent' = Succeeded(s)
          PROVE  p = ref
      <3>1. \A o \in Refs : intent'[o].key = intent[o].key /\ (Exists(o)' => Exists(o))
        BY <2>3 DEF Succeeded, Intents
      <3>2. QED
        BY <3>1
    <2>4. QED
      BY <2>1, <2>2, <2>3, IntentSteps
  <1>3. Inv /\ OneWithdrawalPerKey /\ [Next]_vars => OneWithdrawalPerKey'
    BY <1>2 DEF OneWithdrawalPerKey, Exists, vars
  <1>4. QED
    BY Invariance, <1>1, <1>3, PTL DEF Spec

\* What a posting adds to the sums of the ledger.
LEMMA LedgerMoves ==
  ASSUME Inv, NEW ref \in Refs, ~Posted(ref), NEW e \in Entries,
         ledger' = [ledger EXCEPT ![ref] = e], NEW u \in Users
  PROVE  /\ AmountsOf(Received(u)) \in Int /\ AmountsOf(Sent(u)) \in Int
         /\ AmountsOf(Received(u))' = AmountsOf(Received(u)) + (IF e.to = u THEN e.amount ELSE 0)
         /\ AmountsOf(Sent(u))' = AmountsOf(Sent(u)) + (IF e.from = u THEN e.amount ELSE 0)
  <1> DEFINE f == [s \in Refs |-> ledger[s].amount]
             g == [s \in Refs |-> ledger'[s].amount]
  <1>1. /\ IsFiniteSet(Refs) /\ e # NoEntry /\ e.amount \in Int
        /\ \A s \in Refs : Posted(s) => ledger[s].amount \in Int
    BY ConstantsAssumption, RowsExist, RowAmounts DEF Posted, Inv, TypeOK
  <1>2. ledger'[ref] = e /\ \A s \in Refs \ {ref} : ledger'[s] = ledger[s]
    BY DEF Inv, TypeOK
  <1>3. g[ref] = e.amount /\ \A s \in Refs \ {ref} : g[s] = f[s]
    BY <1>2
  <1>4. ASSUME NEW S \in SUBSET Refs, NEW T \in SUBSET Refs, ref \notin S, T \in {S, S \cup {ref}},
               \A s \in S : Posted(s)
        PROVE  /\ SumOver(f, S) \in Int
               /\ SumOver(g, T) = SumOver(f, S) + (IF ref \in T THEN e.amount ELSE 0)
    <2>1. IsFiniteSet(S) /\ IsFiniteSet(T)
      BY <1>1, FS_Subset
    <2>2. (\A s \in S : f[s] \in Int) /\ (\A s \in T : g[s] \in Int) /\ \A s \in S \ {ref} : f[s] = g[s]
      BY <1>1, <1>3, <1>4
    <2>3. S \ {ref} = T \ {ref} /\ g[ref] = e.amount
      BY <1>3, <1>4
    <2> HIDE DEF f, g
    <2>4. /\ SumOver(f, S) \in Int
          /\ SumOver(g, T) = SumOver(f, S) - Part(f, S, ref) + Part(g, T, ref)
      BY <2>1, <2>2, <2>3, SumChange
    <2>5. Part(f, S, ref) = 0 /\ Part(g, T, ref) = IF ref \in T THEN e.amount ELSE 0
      BY <1>4, <2>3 DEF Part
    <2>6. QED
      BY <1>1, <2>4, <2>5
  <1>5. /\ ref \notin Received(u) /\ Received(u) \subseteq Refs /\ \A s \in Received(u) : Posted(s)
        /\ ref \notin Sent(u) /\ Sent(u) \subseteq Refs /\ \A s \in Sent(u) : Posted(s)
    BY DEF Received, Sent
  <1>6. /\ Received(u)' = IF e.to = u THEN Received(u) \cup {ref} ELSE Received(u)
        /\ Sent(u)' = IF e.from = u THEN Sent(u) \cup {ref} ELSE Sent(u)
    <2>1. \A s \in Refs :
            /\ Posted(s)' /\ ledger'[s].to = u <=> (Posted(s) /\ ledger[s].to = u) \/ (s = ref /\ e.to = u)
            /\ Posted(s)' /\ ledger'[s].from = u <=> (Posted(s) /\ ledger[s].from = u) \/ (s = ref /\ e.from = u)
      BY <1>1, <1>2 DEF Posted
    <2>2. QED
      BY <2>1 DEF Received, Sent
  <1>7. /\ AmountsOf(Received(u)) = SumOver(f, Received(u))
        /\ AmountsOf(Received(u))' = SumOver(g, Received(u)')
        /\ AmountsOf(Sent(u)) = SumOver(f, Sent(u))
        /\ AmountsOf(Sent(u))' = SumOver(g, Sent(u)')
    BY DEF AmountsOf
  <1> HIDE DEF f, g
  <1>8. /\ SumOver(f, Received(u)) \in Int
        /\ SumOver(g, Received(u)') = SumOver(f, Received(u)) + (IF e.to = u THEN e.amount ELSE 0)
    <2> DEFINE T == Received(u)'
    <2>1. /\ T \in SUBSET Refs /\ T \in {Received(u), Received(u) \cup {ref}}
          /\ ref \in T <=> e.to = u
      BY <1>5, <1>6
    <2> HIDE DEF T
    <2>2. QED
      BY <1>4, <1>5, <2>1 DEF T
  <1>9. /\ SumOver(f, Sent(u)) \in Int
        /\ SumOver(g, Sent(u)') = SumOver(f, Sent(u)) + (IF e.from = u THEN e.amount ELSE 0)
    <2> DEFINE T == Sent(u)'
    <2>1. /\ T \in SUBSET Refs /\ T \in {Sent(u), Sent(u) \cup {ref}}
          /\ ref \in T <=> e.from = u
      BY <1>5, <1>6
    <2> HIDE DEF T
    <2>2. QED
      BY <1>4, <1>5, <2>1 DEF T
  <1>10. QED
    BY <1>7, <1>8, <1>9

\* What the row of one intent holds in reserve for user u.
Holds(row, u) == IF row # NoIntent /\ row.status = "PROCESSING" /\ row.user = u THEN row.amount ELSE 0

\* A new or changed intent counts for what its row holds before and after.
LEMMA ReserveMoves ==
  ASSUME Inv, NEW ref \in Refs, NEW i \in Intents, intent' = [intent EXCEPT ![ref] = i], NEW u \in Users
  PROVE  /\ InReserve(u) \in Int /\ Holds(intent[ref], u) \in Int
         /\ InReserve(u)' = InReserve(u) - Holds(intent[ref], u) + Holds(i, u)
  <1> DEFINE S == Reserving(u)
             T == Reserving(u)'
             f == [s \in S |-> intent[s].amount]
             g == [s \in T |-> intent'[s].amount]
  <1>1. /\ IsFiniteSet(Refs) /\ i # NoIntent
        /\ \A s \in Refs : intent[s] # NoIntent => intent[s].amount \in Int
        /\ i.amount \in Int
    BY ConstantsAssumption, RowsExist, RowAmounts DEF Inv, TypeOK
  <1>2. intent'[ref] = i /\ \A s \in Refs \ {ref} : intent'[s] = intent[s]
    BY DEF Inv, TypeOK
  <1>3. /\ \A s \in Refs : s \in S <=> /\ intent[s] # NoIntent /\ intent[s].status = "PROCESSING"
                                        /\ intent[s].user = u
        /\ \A s \in Refs : s \in T <=> /\ intent'[s] # NoIntent /\ intent'[s].status = "PROCESSING"
                                        /\ intent'[s].user = u
        /\ S \subseteq Refs /\ T \subseteq Refs
    BY DEF Reserving, Exists
  <1>4. IsFiniteSet(S) /\ IsFiniteSet(T)
    BY <1>1, <1>3, FS_Subset
  <1>5. S \ {ref} = T \ {ref}
    BY <1>2, <1>3
  <1>6. /\ \A s \in S : f[s] = intent[s].amount
        /\ \A s \in T : g[s] = intent'[s].amount
    OBVIOUS
  <1>7. InReserve(u) = SumOver(f, S) /\ InReserve(u)' = SumOver(g, T)
    BY DEF InReserve
  <1> HIDE DEF S, T, f, g
  <1>8. (\A s \in S : f[s] \in Int) /\ (\A s \in T : g[s] \in Int) /\ \A s \in S \ {ref} : f[s] = g[s]
    BY <1>1, <1>2, <1>3, <1>5, <1>6
  <1>9. /\ SumOver(f, S) \in Int
        /\ SumOver(g, T) = SumOver(f, S) - Part(f, S, ref) + Part(g, T, ref)
    BY <1>4, <1>5, <1>8, SumChange
  <1>10. /\ Part(f, S, ref) = Holds(intent[ref], u)
         /\ Part(g, T, ref) = Holds(i, u)
    BY <1>2, <1>3, <1>6 DEF Part, Holds
  <1>11. Holds(intent[ref], u) \in Int
    BY <1>1 DEF Holds
  <1>12. QED
    BY <1>7, <1>9, <1>10, <1>11

\* A posting marks the row of its intent.
LEMMA RowSucceeds ==
  ASSUME Inv, NEW ref \in Refs, Exists(ref), intent' = Succeeded(ref)
  PROVE  \E i \in Intents : intent' = [intent EXCEPT ![ref] = i] /\ i.status = "SUCCEEDED"
  <1> DEFINE i == [intent[ref] EXCEPT !.status = "SUCCEEDED"]
  <1>1. intent[ref] \in Intents
    BY DEF Exists, Inv, TypeOK
  <1>2. i \in Intents /\ i.status = "SUCCEEDED"
    BY <1>1 DEF Intents
  <1>3. intent' = [intent EXCEPT ![ref] = i]
    BY DEF Succeeded
  <1>4. QED
    BY <1>2, <1>3

\* The ledger, and the intents, move by n for user u.
Books(u, n) ==
  \/ UNCHANGED ledger /\ n = 0
  \/ \E ref \in Refs, e \in Entries :
       /\ ~Posted(ref) /\ ledger' = [ledger EXCEPT ![ref] = e]
       /\ n = (IF e.to = u THEN e.amount ELSE 0) - (IF e.from = u THEN e.amount ELSE 0)

Reserves(u, n) ==
  \/ UNCHANGED intent /\ n = 0
  \/ \E ref \in Refs, i \in Intents :
       intent' = [intent EXCEPT ![ref] = i] /\ n = Holds(i, u) - Holds(intent[ref], u)

\* Both sides of WalletsAgree move together where the rows that a step writes
\* say what it does to the wallets.
LEMMA AgreeMoves ==
  ASSUME Inv, WalletsAgree, NEW u \in Users, NEW da \in Int, NEW dr \in Int,
         available'[u] = available[u] + da, reserved'[u] = reserved[u] + dr,
         Books(u, da + dr), Reserves(u, dr)
  PROVE  /\ available'[u] + reserved'[u] = AmountsOf(Received(u))' - AmountsOf(Sent(u))'
         /\ reserved'[u] = InReserve(u)'
  <1>1. available[u] \in Int /\ reserved[u] \in Int
    BY DEF Inv, TypeOK
  <1>2. /\ available[u] + reserved[u] = AmountsOf(Received(u)) - AmountsOf(Sent(u))
        /\ reserved[u] = InReserve(u)
    BY DEF WalletsAgree
  <1>3. available'[u] + reserved'[u] = AmountsOf(Received(u))' - AmountsOf(Sent(u))'
    <2>1. CASE UNCHANGED ledger /\ da + dr = 0
      <3>1. AmountsOf(Received(u))' = AmountsOf(Received(u)) /\ AmountsOf(Sent(u))' = AmountsOf(Sent(u))
        BY <2>1 DEF AmountsOf, Received, Sent, Posted
      <3>2. available'[u] + reserved'[u] = available[u] + reserved[u]
        BY <1>1, <2>1
      <3>3. QED
        BY <1>2, <3>1, <3>2
    <2>2. ASSUME NEW ref \in Refs, NEW e \in Entries, ~Posted(ref), ledger' = [ledger EXCEPT ![ref] = e],
                 da + dr = (IF e.to = u THEN e.amount ELSE 0) - (IF e.from = u THEN e.amount ELSE 0)
          PROVE  available'[u] + reserved'[u] = AmountsOf(Received(u))' - AmountsOf(Sent(u))'
      <3>1. (IF e.to = u THEN e.amount ELSE 0) \in Int /\ (IF e.from = u THEN e.amount ELSE 0) \in Int
        BY RowAmounts
      <3>2. /\ AmountsOf(Received(u)) \in Int /\ AmountsOf(Sent(u)) \in Int
            /\ AmountsOf(Received(u))' = AmountsOf(Received(u)) + (IF e.to = u THEN e.amount ELSE 0)
            /\ AmountsOf(Sent(u))' = AmountsOf(Sent(u)) + (IF e.from = u THEN e.amount ELSE 0)
        BY <2>2, LedgerMoves
      <3> DEFINE c == IF e.to = u THEN e.amount ELSE 0
                 d == IF e.from = u THEN e.amount ELSE 0
                 R == AmountsOf(Received(u))
                 S == AmountsOf(Sent(u))
                 Q == AmountsOf(Received(u))'
                 T == AmountsOf(Sent(u))'
      <3>3. /\ c \in Int /\ d \in Int /\ R \in Int /\ S \in Int /\ da + dr = c - d
            /\ Q = R + c /\ T = S + d /\ available[u] + reserved[u] = R - S
        BY <1>2, <2>2, <3>1, <3>2
      <3> HIDE DEF c, d, R, S, Q, T
      <3>4. available'[u] + reserved'[u] = Q - T
        BY <1>1, <3>3
      <3>5. QED
        BY <3>4 DEF Q, T
    <2>3. QED
      BY <2>1, <2>2 DEF Books
  <1>4. reserved'[u] = InReserve(u)'
    <2>1. CASE UNCHANGED intent /\ dr = 0
      <3>1. InReserve(u)' = InReserve(u)
        BY <2>1 DEF InReserve, Reserving, Exists
      <3>2. QED
        BY <1>1, <1>2, <2>1, <3>1
    <2>2. ASSUME NEW ref \in Refs, NEW i \in Intents, intent' = [intent EXCEPT ![ref] = i],
                 dr = Holds(i, u) - Holds(intent[ref], u)
          PROVE  reserved'[u] = InReserve(u)'
      <3>1. Holds(i, u) \in Int
        BY RowAmounts DEF Holds
      <3>2. /\ InReserve(u) \in Int /\ Holds(intent[ref], u) \in Int
            /\ InReserve(u)' = InReserve(u) - Holds(intent[ref], u) + Holds(i, u)
        BY <2>2, ReserveMoves
      <3>3. QED
        BY <1>1, <1>2, <2>2, <3>1, <3>2
    <2>3. QED
      BY <2>1, <2>2 DEF Reserves
  <1>5. QED
    BY <1>3, <1>4

\* A wallet holds what the ledger says, and its reserve is what its unfinished
\* withdrawals hold.
THEOREM WalletsAlwaysAgree == Spec => []WalletsAgree
  <1>1. Init => WalletsAgree
    <2> SUFFICES ASSUME Init, NEW u \in Users
                 PROVE  /\ available[u] + reserved[u] = AmountsOf(Received(u)) - AmountsOf(Sent(u))
                        /\ reserved[u] = InReserve(u)
      BY DEF WalletsAgree
    <2>1. Received(u) = {} /\ Sent(u) = {} /\ Reserving(u) = {}
      BY DEF Init, Received, Sent, Reserving, Posted, Exists
    <2>2. \A f : SumOver(f, {}) = 0
      BY SumOfNone
    <2>3. AmountsOf(Received(u)) = 0 /\ AmountsOf(Sent(u)) = 0 /\ InReserve(u) = 0
      BY <2>1, <2>2 DEF AmountsOf, InReserve
    <2>4. QED
      BY <2>3 DEF Init
  <1>2. ASSUME Inv, WalletsAgree, Next PROVE WalletsAgree'
    <2> USE <1>2
    <2>1. CASE UNCHANGED rows
      BY <2>1 DEF rows, WalletsAgree, AmountsOf, InReserve, Received, Sent, Reserving, Posted, Exists
    <2>2. ASSUME NEW q \in Requests, NEW u \in Users,
                 \/ CommitTransfer(q) \/ CreateFiatDepositIntent(q) \/ PostMockFiatDeposit(q)
                 \/ ReserveFiatWithdrawal(q) /\ ~UNCHANGED rows
                 \/ SettleSuccessfulFiatWithdrawal(q)
          PROVE  /\ available'[u] + reserved'[u] = AmountsOf(Received(u))' - AmountsOf(Sent(u))'
                 /\ reserved'[u] = InReserve(u)'
      <3> DEFINE r == request[q]
                 d == IF r.user = u THEN r.amount ELSE 0
                 c == IF r.to = u THEN r.amount ELSE 0
      <3>1. /\ r.user \in Users /\ r.to \in Users /\ r.amount \in Amounts /\ r.amount \in Nat
            /\ r.key \in Keys \cup {NoKey}
            /\ d \in Int /\ c \in Int /\ -d \in Int /\ c - d \in Int
            /\ available[u] \in Int /\ reserved[u] \in Int
        BY UnderWay DEF Inv, TypeOK
      <3>2. Outside # u
        BY ConstantsAssumption
      <3>4. CASE CommitTransfer(q)
        <4>1. PICK ref \in Refs : ref = NewRef /\ ~Posted(ref)
          BY <3>4, Fresh DEF CommitTransfer, Posted
        <4>2. available'[u] = available[u] + (c - d) /\ reserved'[u] = reserved[u] + 0
          BY <3>1, <3>4 DEF CommitTransfer, Transferred, Inv, TypeOK
        <4>3. UNCHANGED intent /\ ledger' = [ledger EXCEPT ![ref] = Entry(r.user, r.to, r.amount)]
          BY <3>4, <4>1 DEF CommitTransfer
        <4>4. PICK e \in Entries : /\ e = Entry(r.user, r.to, r.amount) /\ e.from = r.user
                                   /\ e.to = r.to /\ e.amount = r.amount
          BY <3>1, EntryMade
        <4>5. (c - d) + 0 = (IF e.to = u THEN e.amount ELSE 0) - (IF e.from = u THEN e.amount ELSE 0)
          BY <3>1, <4>4
        <4>6. Books(u, (c - d) + 0) /\ Reserves(u, 0)
          BY <4>1, <4>3, <4>4, <4>5 DEF Books, Reserves
        <4> HIDE DEF r, c, d
        <4>7. QED
          BY <3>1, <4>2, <4>6, AgreeMoves
      <3>5. CASE PostMockFiatDeposit(q)
        <4>1. PICK ref \in Refs : ref = r.ref /\ ~Posted(ref) /\ Exists(ref) /\ intent[ref].status = "INITIATED"
          BY <3>5 DEF PostMockFiatDeposit, Inv, Works
        <4>2. available'[u] = available[u] + d /\ reserved'[u] = reserved[u] + 0
          BY <3>1, <3>5 DEF PostMockFiatDeposit, Inv, TypeOK
        <4>3. PICK e \in Entries : /\ e = Entry(Outside, r.user, r.amount) /\ e.from = Outside
                                   /\ e.to = r.user /\ e.amount = r.amount
          BY <3>1, EntryMade
        <4>4. ledger' = [ledger EXCEPT ![ref] = e]
          BY <3>5, <4>1, <4>3 DEF PostMockFiatDeposit
        <4>5. d + 0 = (IF e.to = u THEN e.amount ELSE 0) - (IF e.from = u THEN e.amount ELSE 0)
          BY <3>1, <3>2, <4>3
        <4>6. PICK i \in Intents : /\ intent' = [intent EXCEPT ![ref] = i] /\ i.status = "SUCCEEDED"
          BY <3>5, <4>1, RowSucceeds DEF PostMockFiatDeposit
        <4>7. 0 = Holds(i, u) - Holds(intent[ref], u)
          BY <4>1, <4>6 DEF Holds
        <4>8. Books(u, d + 0) /\ Reserves(u, 0)
          BY <4>1, <4>4, <4>5, <4>6, <4>7 DEF Books, Reserves
        <4> HIDE DEF r, c, d
        <4>9. QED
          BY <3>1, <4>2, <4>8, AgreeMoves
      <3>6. CASE SettleSuccessfulFiatWithdrawal(q)
        <4>1. PICK ref \in Refs : /\ ref = r.ref /\ ~Posted(ref) /\ Exists(ref)
                                  /\ intent[ref].status = "PROCESSING" /\ intent[ref].user = r.user
                                  /\ intent[ref].amount = r.amount
          BY <3>6 DEF SettleSuccessfulFiatWithdrawal, Inv, Works
        <4>2. available'[u] = available[u] + 0 /\ reserved'[u] = reserved[u] + (-d)
          BY <3>1, <3>6 DEF SettleSuccessfulFiatWithdrawal, TakenFromReserve, Inv, TypeOK
        <4>3. PICK e \in Entries : /\ e = Entry(r.user, Outside, r.amount) /\ e.from = r.user
                                   /\ e.to = Outside /\ e.amount = r.amount
          <5>1. PICK from \in Users \cup {Outside}, to \in Users \cup {Outside}, a \in Amounts :
                  from = r.user /\ to = Outside /\ a = r.amount
            BY <3>1
          <5>2. QED
            BY <5>1, EntryMade
        <4>4. ledger' = [ledger EXCEPT ![ref] = e]
          BY <3>6, <4>1, <4>3 DEF SettleSuccessfulFiatWithdrawal
        <4>5. 0 + (-d) = (IF e.to = u THEN e.amount ELSE 0) - (IF e.from = u THEN e.amount ELSE 0)
          BY <3>1, <3>2, <4>3
        <4>6. PICK i \in Intents : /\ intent' = [intent EXCEPT ![ref] = i] /\ i.status = "SUCCEEDED"
          BY <3>6, <4>1, RowSucceeds DEF SettleSuccessfulFiatWithdrawal
        <4>7. -d = Holds(i, u) - Holds(intent[ref], u)
          BY <3>1, <4>1, <4>6 DEF Holds, Exists
        <4>8. Books(u, 0 + (-d)) /\ Reserves(u, -d)
          BY <4>1, <4>4, <4>5, <4>6, <4>7 DEF Books, Reserves
        <4> HIDE DEF r, c, d
        <4>9. QED
          BY <3>1, <4>2, <4>8, AgreeMoves
      <3>7. ASSUME NEW type \in {"FIAT_DEPOSIT", "FIAT_WITHDRAWAL"},
                   NEW status \in {"INITIATED", "PROCESSING"}, FreshRefs # {},
                   CreateIntent(r, type, status), UNCHANGED ledger,
                   \/ status = "INITIATED" /\ UNCHANGED wallets
                   \/ /\ status = "PROCESSING"
                      /\ available' = [available EXCEPT ![r.user] = @ - r.amount]
                      /\ reserved' = [reserved EXCEPT ![r.user] = @ + r.amount]
            PROVE  /\ available'[u] + reserved'[u] = AmountsOf(Received(u))' - AmountsOf(Sent(u))'
                   /\ reserved'[u] = InReserve(u)'
        <4> DEFINE row == [type |-> type, user |-> r.user, amount |-> r.amount, key |-> r.key,
                           status |-> status]
                   h == IF status = "PROCESSING" THEN d ELSE 0
        <4>1. PICK ref \in Refs : ref = NewRef /\ intent[ref] = NoIntent
          BY <3>7, Fresh
        <4>2. row \in Intents
          BY <3>1 DEF Intents
        <4>3. PICK i \in Intents : i = row /\ i.status = status /\ i.user = r.user /\ i.amount = r.amount
          BY <4>2
        <4>4. intent' = [intent EXCEPT ![ref] = i]
          BY <3>7, <4>1, <4>3 DEF CreateIntent
        <4>5. available'[u] = available[u] + (-h) /\ reserved'[u] = reserved[u] + h
          BY <3>1, <3>7 DEF wallets, Inv, TypeOK
        <4>6. h \in Int /\ -h \in Int /\ (-h) + h = 0
          BY <3>1
        <4>7. i # NoIntent
          BY RowsExist
        <4>8. h = Holds(i, u) - Holds(intent[ref], u)
          BY <3>1, <4>1, <4>3, <4>7 DEF Holds
        <4>9. Books(u, (-h) + h) /\ Reserves(u, h)
          BY <3>7, <4>1, <4>4, <4>6, <4>8 DEF Books, Reserves
        <4> HIDE DEF r, c, d, h, row
        <4>10. QED
          BY <4>5, <4>6, <4>9, AgreeMoves
      <3>8. CASE CreateFiatDepositIntent(q)
        BY <3>7, <3>8 DEF CreateFiatDepositIntent
      <3>9. CASE ReserveFiatWithdrawal(q) /\ ~UNCHANGED rows
        BY <3>7, <3>9 DEF ReserveFiatWithdrawal
      <3>10. QED
        BY <2>2, <3>4, <3>5, <3>6, <3>8, <3>9
    <2>3. ASSUME NEW u \in Users, CompleteKyc(u) PROVE UNCHANGED rows
      BY <2>3 DEF CompleteKyc
    <2>4. CASE ~UNCHANGED rows
      <3>1. PICK q \in Requests : Start(q) \/ Proceed(q) \/ Rollback(q)
        BY <2>3, <2>4 DEF Next
      <3>2. \/ CommitTransfer(q) \/ CreateFiatDepositIntent(q) \/ PostMockFiatDeposit(q)
            \/ ReserveFiatWithdrawal(q) /\ ~UNCHANGED rows
            \/ SettleSuccessfulFiatWithdrawal(q)
        BY <2>4, <3>1, RowsUnchanged DEF Proceed
      <3>3. QED
        BY <2>2, <3>2 DEF WalletsAgree
    <2>5. QED
      BY <2>1, <2>4
  <1>3. WalletsAgree /\ UNCHANGED vars => WalletsAgree'
    <2> SUFFICES ASSUME WalletsAgree, UNCHANGED vars PROVE WalletsAgree'
      OBVIOUS
    <2>1. UNCHANGED <<available, reserved, intent, ledger>>
      BY DEF vars
    <2>2. QED
      BY <2>1 DEF WalletsAgree, AmountsOf, InReserve, Received, Sent, Reserving, Posted, Exists
  <1>4. QED
    BY Invariance, <1>1, <1>2, <1>3, PTL DEF Spec

\* What belongs to each user, for the bank.
Balance == [u \in Users |-> available[u] + reserved[u]]

\* A step that leaves the rows alone is none of the bank's.
LEMMA BankStutters ==
  ASSUME UNCHANGED <<rows, verified>>
  PROVE  UNCHANGED B!vars
  BY DEF rows, B!vars, Posted

LEMMA PostingBank ==
  ASSUME Inv, NEW ref \in Refs, ~Posted(ref), NEW e \in Entries,
         ledger' = [ledger EXCEPT ![ref] = e], NEW u \in verified, UNCHANGED verified
  PROVE  B!Post(u, ref)
  <1>1. \A s \in Refs : Posted(s)' <=> Posted(s) \/ s = ref
    BY RowsExist DEF Posted, Inv, TypeOK
  <1>2. QED
    BY <1>1 DEF B!Post

LEMMA TransferBank ==
  ASSUME Inv, NEW q \in Requests, CommitTransfer(q)
  PROVE  \E u, to \in Users, a \in Amounts, ref \in Refs : B!Transfer(u, to, a, ref)
  <1> DEFINE r == request[q]
  <1>1. /\ r.user \in Users /\ r.to \in Users /\ r.to # r.user
        /\ r.amount \in Amounts /\ r.amount \in Nat /\ available[r.user] >= r.amount
        /\ r.user \in verified
    BY UnderWay DEF CommitTransfer, Inv, Held, Works, Covers
  <1>2. PICK ref \in Refs : ref = NewRef /\ ~Posted(ref)
    BY Fresh DEF CommitTransfer, Posted
  <1>3. Entry(r.user, r.to, r.amount) \in Entries
    BY <1>1 DEF Entry, Entries
  <1>4. B!Post(r.user, ref)
    BY <1>1, <1>2, <1>3, PostingBank DEF CommitTransfer
  <1>5. /\ Balance[r.user] >= r.amount
        /\ Balance' = [Balance EXCEPT ![r.user] = @ - r.amount, ![r.to] = @ + r.amount]
    <2>1. \A u \in Users : available[u] \in Nat /\ reserved[u] \in Nat
      BY DEF Inv, TypeOK
    <2>2. \A u \in Users :
            available'[u] = IF u = r.to THEN available[u] + r.amount
                            ELSE IF u = r.user THEN available[u] - r.amount ELSE available[u]
      BY <1>1 DEF CommitTransfer, Transferred, Inv, TypeOK
    <2>3. reserved' = reserved
      BY DEF CommitTransfer
    <2>4. QED
      BY <1>1, <2>1, <2>2, <2>3 DEF Balance
  <1>6. B!Transfer(r.user, r.to, r.amount, ref)
    BY <1>1, <1>4, <1>5 DEF B!Transfer, Balance
  <1>7. QED
    BY <1>1, <1>6

LEMMA DepositBank ==
  ASSUME Inv, NEW q \in Requests, PostMockFiatDeposit(q)
  PROVE  \E u \in Users, a \in Amounts, ref \in Refs : B!Deposit(u, a, ref)
  <1> DEFINE r == request[q]
  <1>1. /\ r.user \in Users /\ r.amount \in Amounts /\ r.amount \in Nat
        /\ r.user \in verified /\ r.ref \in Refs /\ ~Posted(r.ref)
    BY UnderWay DEF PostMockFiatDeposit, Inv, Works
  <1>2. Entry(Outside, r.user, r.amount) \in Entries
    BY <1>1 DEF Entry, Entries
  <1>3. B!Post(r.user, r.ref)
    BY <1>1, <1>2, PostingBank DEF PostMockFiatDeposit
  <1>4. Balance' = [Balance EXCEPT ![r.user] = @ + r.amount]
    <2>1. \A u \in Users : available[u] \in Nat /\ reserved[u] \in Nat
      BY DEF Inv, TypeOK
    <2>2. \A u \in Users :
            available'[u] = IF u = r.user THEN available[u] + r.amount ELSE available[u]
      BY <1>1 DEF PostMockFiatDeposit, Inv, TypeOK
    <2>3. reserved' = reserved
      BY DEF PostMockFiatDeposit
    <2>4. QED
      BY <1>1, <2>1, <2>2, <2>3 DEF Balance
  <1>5. PICK u \in Users, a \in Amounts, ref \in Refs :
          u = r.user /\ a = r.amount /\ ref = r.ref
    BY <1>1
  <1>6. B!Deposit(u, a, ref)
    BY <1>3, <1>4, <1>5 DEF B!Deposit, Balance
  <1>7. QED
    BY <1>6

LEMMA WithdrawBank ==
  ASSUME Inv, NEW q \in Requests, SettleSuccessfulFiatWithdrawal(q)
  PROVE  \E u \in Users, a \in Amounts, ref \in Refs : B!Withdraw(u, a, ref)
  <1> DEFINE r == request[q]
  <1>1. /\ r.user \in Users /\ r.amount \in Amounts /\ r.amount \in Nat
        /\ r.user \in verified /\ r.ref \in Refs /\ ~Posted(r.ref)
    BY UnderWay DEF SettleSuccessfulFiatWithdrawal, Inv, Works
  <1>2. Entry(r.user, Outside, r.amount) \in Entries
    BY <1>1 DEF Entry, Entries
  <1>3. B!Post(r.user, r.ref)
    BY <1>1, <1>2, PostingBank DEF SettleSuccessfulFiatWithdrawal
  <1>4. /\ Balance[r.user] >= r.amount
        /\ Balance' = [Balance EXCEPT ![r.user] = @ - r.amount]
    <2>1. \A u \in Users : available[u] \in Nat /\ reserved[u] \in Nat
      BY DEF Inv, TypeOK
    <2>2. \A u \in Users :
            reserved'[u] = IF u = r.user THEN reserved[u] - r.amount ELSE reserved[u]
      BY <1>1 DEF SettleSuccessfulFiatWithdrawal, TakenFromReserve, Inv, TypeOK
    <2>3. available' = available /\ reserved[r.user] >= r.amount
      BY DEF SettleSuccessfulFiatWithdrawal, TakenFromReserve
    <2>4. QED
      BY <1>1, <2>1, <2>2, <2>3 DEF Balance
  <1>5. PICK u \in Users, a \in Amounts, ref \in Refs :
          u = r.user /\ a = r.amount /\ ref = r.ref
    BY <1>1
  <1>6. B!Withdraw(u, a, ref)
    BY <1>3, <1>4, <1>5 DEF B!Withdraw, Balance
  <1>7. QED
    BY <1>6

\* Making an intent, with or without a reserve, moves no money.
LEMMA NewIntentBank ==
  ASSUME Inv, NEW q \in Requests, CreateFiatDepositIntent(q) \/ ReserveFiatWithdrawal(q)
  PROVE  UNCHANGED B!vars
  <1>1. UNCHANGED <<ledger, verified>>
    BY DEF CreateFiatDepositIntent, ReserveFiatWithdrawal, rows
  <1>2. Balance' = Balance
    <2>1. request[q].user \in Users /\ request[q].amount \in Nat
      BY UnderWay DEF Inv
    <2>2. \A u \in Users : available[u] \in Nat /\ reserved[u] \in Nat
      BY DEF Inv, TypeOK
    <2>3. CASE UNCHANGED <<available, reserved>>
      BY <2>3 DEF Balance
    <2>4. CASE /\ available' = [available EXCEPT ![request[q].user] = @ - request[q].amount]
               /\ reserved' = [reserved EXCEPT ![request[q].user] = @ + request[q].amount]
      <3>1. \A u \in Users : available'[u] + reserved'[u] = available[u] + reserved[u]
        BY <2>1, <2>2, <2>4 DEF Inv, TypeOK
      <3>2. QED
        BY <3>1 DEF Balance
    <2>5. QED
      BY <2>3, <2>4 DEF CreateFiatDepositIntent, ReserveFiatWithdrawal, wallets, rows
  <1>3. QED
    BY <1>1, <1>2 DEF B!vars, Balance, Posted

\* The wallets implement the bank.
THEOREM Implementation == Spec => ImplementsBank
  <1>1. Init => B!Init
    <2> SUFFICES ASSUME Init PROVE B!Init
      OBVIOUS
    <2>1. \A u \in Users : available[u] + reserved[u] = 0
      BY DEF Init
    <2>2. \A ref \in Refs : ~Posted(ref)
      BY DEF Init, Posted
    <2>3. QED
      BY <2>1, <2>2 DEF Init, B!Init
  <1>2. ASSUME Inv, Next PROVE B!Next \/ UNCHANGED B!vars
    <2>1. ASSUME NEW q \in Requests, Proceed(q)
          PROVE  B!Next \/ UNCHANGED B!vars
      <3>1. CASE CommitTransfer(q)
        BY <1>2, <3>1, TransferBank DEF B!Next
      <3>2. CASE PostMockFiatDeposit(q)
        BY <1>2, <3>2, DepositBank DEF B!Next
      <3>3. CASE SettleSuccessfulFiatWithdrawal(q)
        BY <1>2, <3>3, WithdrawBank DEF B!Next
      <3>4. CASE CreateFiatDepositIntent(q) \/ ReserveFiatWithdrawal(q)
        BY <1>2, <3>4, NewIntentBank
      <3>5. CASE DebitSender(q) \/ CreditReceiver(q) \/ FindIntentByKey(q)
        BY <3>5, BankStutters DEF DebitSender, CreditReceiver, FindIntentByKey
      <3>6. QED
        BY <2>1, <3>1, <3>2, <3>3, <3>4, <3>5 DEF Proceed
    <2>2. ASSUME NEW q \in Requests, Start(q) \/ Rollback(q)
          PROVE  UNCHANGED B!vars
      BY <2>2, BankStutters DEF Start, TransferP2P, InitiateFiatDeposit, WithdrawFiat, Arrive, Rollback
    <2>3. ASSUME NEW u \in Users, CompleteKyc(u)
          PROVE  B!Verify(u)
      BY <2>3 DEF CompleteKyc, rows, B!Verify, Posted
    <2>4. QED
      BY <1>2, <2>1, <2>2, <2>3 DEF Next, B!Next
  <1>3. UNCHANGED vars => UNCHANGED B!vars
    BY BankStutters DEF vars, rows
  <1>4. QED
    BY Invariance, <1>1, <1>2, <1>3, PTL DEF Spec, ImplementsBank, B!Spec
=============================================================================
