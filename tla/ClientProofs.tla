---------------------------- MODULE ClientProofs ----------------------------
(***************************************************************************)
(* Proofs about Client: its inductive invariant, and the safety properties *)
(* that follow from it, for every set of users, tokens and clicks and for  *)
(* any number of retries.                                                  *)
(***************************************************************************)
EXTENDS Client, TLAPS

USE ConstantsAssumption

\* What the invariant says of the session and of the kept status.
SessionKnows ==
  /\ stored = auth
  /\ IsSignedIn => auth.token \in issued
  /\ UserOf(auth) \subseteq signedIn
  /\ kyc # "none" => signedIn # {}
  /\ OneUser => /\ auth.kycVerified => UserOf(auth) \subseteq verified
                /\ kyc = "verified" => signedIn \subseteq verified

CallsKnow  == \A k \in Calls : CallKnows(k)
ClicksKnow == \A c \in Clicks : ClickKnows(c)

\* What Put does.
LEMMA PutMoves ==
  ASSUME NEW k \in Calls, NEW c \in CallStates, call \in [Calls -> CallStates], Put(k, c)
  PROVE  /\ call' \in [Calls -> CallStates]
         /\ call'[k] = c
         /\ \A j \in Calls : j # k => call'[j] = call[j]
  BY DEF Put

\* The calls there are, and what they are called with.
LEMMA CallTypes ==
  /\ Status \in Calls /\ Balance \in Calls /\ Bvn \in Calls /\ Clicks \subseteq Calls
  /\ Status # Balance /\ Status # Bvn /\ Balance # Bvn
  /\ Status \notin Clicks /\ Balance \notin Clicks /\ Bvn \notin Clicks
  /\ NoCall \in CallStates
  /\ QueryRetries = 1
  /\ \A kind \in Kinds : RetriesOf(kind) \in Nat
  BY DEF Calls, Status, Balance, Bvn, NoCall, CallStates, QueryRetries, Kinds, RetriesOf

LEMMA SentTypes ==
  ASSUME TypeOK, NEW left \in Int
  PROVE  /\ SentWith(left) \in CallStates
         /\ SentWith(left).at = "sent" /\ SentWith(left).token = auth.token
         /\ SentWith(left).left = left /\ SentWith(left).yes = FALSE
<1>1. auth.token \in Tokens \cup {NoToken}
  BY DEF TypeOK, AuthStates
<1>2. NoCall \in CallStates /\ NoCall.yes = FALSE
  BY CallTypes DEF NoCall
<1> QED
  BY <1>1, <1>2 DEF SentWith, CallStates

LEMMA ClosedTypes ==
  ASSUME TypeOK
  PROVE  /\ Closed \in [Clicks -> ClickStates]
         /\ \A c \in Clicks : /\ Closed[c].kind = click[c].kind
                              /\ Closed[c].open = FALSE
                              /\ Closed[c].at = IF click[c].at \in {"success", "error"} THEN "over"
                                                ELSE click[c].at
<1>1. \A c \in Clicks : /\ click[c] \in ClickStates
                         /\ Closed[c] = [click[c] EXCEPT !.at = IF @ \in {"success", "error"} THEN "over" ELSE @,
                                                        !.open = FALSE]
  BY DEF TypeOK, Closed
<1>2. DOMAIN Closed = Clicks /\ Closed = [c \in Clicks |-> Closed[c]]
  BY DEF Closed
<1>3. ASSUME NEW c \in Clicks
      PROVE  /\ Closed[c] \in ClickStates
             /\ Closed[c].kind = click[c].kind
             /\ Closed[c].open = FALSE
             /\ Closed[c].at = IF click[c].at \in {"success", "error"} THEN "over" ELSE click[c].at
  BY <1>1 DEF ClickStates
<1> QED
  BY <1>2, <1>3

THEOREM InitInv == Init => Inv
<1> SUFFICES ASSUME Init PROVE Inv
  OBVIOUS
<1>1. TypeOK
  BY CallTypes DEF Init, TypeOK, SignedOut, NothingKept, AuthStates, KeptBalances, ClickStates, Kinds
<1>2. SessionKnows
  BY DEF Init, SessionKnows, SignedOut, IsSignedIn, UserOf, OneUser
<1>3. CallsKnow
  BY DEF Init, CallsKnow, CallKnows, NoCall
<1>4. ClicksKnow
  BY CallTypes DEF Init, ClicksKnow, ClickKnows, NoCall, Remaining, Kinds
<1> QED
  BY <1>1, <1>2, <1>3, <1>4 DEF Inv, SessionKnows, CallsKnow, ClicksKnow
-----------------------------------------------------------------------------
(* Each action keeps the invariant.                                        *)

LEMMA InvParts == Inv <=> TypeOK /\ SessionKnows /\ CallsKnow /\ ClicksKnow
  BY DEF Inv, SessionKnows, CallsKnow, ClicksKnow

\* A call that is left alone still knows what it knew.
LEMMA CallKept ==
  ASSUME NEW k \in Calls, CallKnows(k), call'[k] = call[k],
         UNCHANGED <<issued, revoked, verified, signedIn>>
  PROVE  CallKnows(k)'
  BY DEF CallKnows, Valid, OneUser

\* So does a click, when the balance and its fetch are left alone or, at least, do
\* not forget.
LEMMA ClickKept ==
  ASSUME NEW c \in Clicks, ClickKnows(c), click'[c] = click[c], call'[c] = call[c],
         UNCHANGED <<signedIn, paid>>,
         IsSignedIn => IsSignedIn',
         OneUser /\ click[c].at \in {"refreshing", "success"} =>
            /\ (balance.valid => c \in balance.seen)'
            /\ (call[Balance].at = "ok" => c \in call[Balance].seen)'
  PROVE  ClickKnows(c)'
<1>1. OneUser' <=> OneUser
  BY DEF OneUser
<1>2. Remaining(c)' = Remaining(c)
  BY DEF Remaining
<1> QED
  BY <1>1, <1>2 DEF ClickKnows, IsPosted

\* And so does one whose dialog is closed.
LEMMA ClosedKnows ==
  ASSUME TypeOK, NEW c \in Clicks, ClickKnows(c), click'[c] = Closed[c], call'[c] = call[c],
         UNCHANGED <<signedIn, paid>>,
         OneUser /\ click[c].at = "refreshing" =>
            /\ (balance.valid => c \in balance.seen)'
            /\ (call[Balance].at = "ok" => c \in call[Balance].seen)'
  PROVE  ClickKnows(c)'
<1>1. OneUser' <=> OneUser
  BY DEF OneUser
<1>2. Remaining(c)' = Remaining(c)
  BY DEF Remaining
<1>3. click'[c].kind = click[c].kind /\ click'[c].open = FALSE
      /\ click'[c].at = IF click[c].at \in {"success", "error"} THEN "over" ELSE click[c].at
  BY ClosedTypes
<1> QED
  BY <1>1, <1>2, <1>3 DEF ClickKnows, IsPosted

LEMMA SignInKeeps ==
  ASSUME Inv, NEW u \in Users, SignIn(u)
  PROVE  Inv'
<1> DEFINE t == NewToken(u)
<1>1. TypeOK /\ SessionKnows /\ CallsKnow /\ ClicksKnow
  BY InvParts
<1>2. t \in Tokens /\ TokenUser[t] = u /\ t \notin issued
  BY DEF SignIn, NewToken, FreshTokens
<1>3. OneUser' => OneUser /\ signedIn' = {u}
  BY DEF SignIn, OneUser
<1>4. TypeOK'
  BY <1>1, <1>2 DEF TypeOK, SignIn, SetAuth, AuthStates, FlagFrom
<1>5. SessionKnows'
  <2>1. IsSignedIn' /\ auth'.token = t /\ issued' = issued \cup {t} /\ stored' = auth'
    BY <1>2 DEF SignIn, SetAuth, IsSignedIn
  <2>2. UserOf(auth)' = {u}
    BY <2>1, <1>2 DEF UserOf
  <2>3. auth'.kycVerified => kyc = "verified"
    BY DEF SignIn, SetAuth, FlagFrom
  <2>4. kyc = "verified" => signedIn # {} /\ (OneUser => signedIn \subseteq verified)
    BY <1>1 DEF SessionKnows
  <2>5. ASSUME OneUser', kyc = "verified" PROVE u \in verified
    BY <2>4, <2>5, <1>3 DEF SignIn
  <2>6. signedIn' = signedIn \cup {u} /\ verified' = verified /\ kyc' = kyc
    BY DEF SignIn
  <2> QED
    BY <2>1, <2>2, <2>3, <2>5, <2>6, <1>3 DEF SessionKnows
<1>6. CallsKnow'
  <2> SUFFICES ASSUME NEW k \in Calls PROVE CallKnows(k)'
    BY DEF CallsKnow
  <2>1. CallKnows(k) /\ call[k] \in CallStates /\ issued \subseteq Tokens /\ revoked \subseteq issued
    BY <1>1 DEF CallsKnow, TypeOK
  <2>2. ~Valid(call[k].token) /\ call[k].token # t => ~Valid(call[k].token)'
    BY DEF Valid, SignIn
  <2>3. call[k].token # t
    BY <2>1, <1>2 DEF CallKnows
  <2>4. call[k].yes => call[k].at = "ok" /\ (OneUser' => signedIn' \subseteq verified)
    BY <2>1, <1>3 DEF CallKnows, SignIn
  <2> QED
    BY <2>1, <2>2, <2>3, <2>4 DEF CallKnows, SignIn
<1>7. ClicksKnow'
  <2> SUFFICES ASSUME NEW c \in Clicks PROVE ClickKnows(c)'
    BY DEF ClicksKnow
  <2>1. ClickKnows(c)
    BY <1>1 DEF ClicksKnow
  <2>2. Remaining(c)' = Remaining(c)
    BY DEF SignIn, Remaining
  <2>3. IsPosted(c) => IsPosted(c)'
    BY DEF SignIn, IsPosted
  <2>4. IsSignedIn'
    BY <1>2 DEF SignIn, SetAuth, IsSignedIn
  <2> QED
    BY <2>1, <2>2, <2>3, <2>4, <1>3 DEF ClickKnows, SignIn
<1> QED
  BY <1>4, <1>5, <1>6, <1>7, InvParts DEF Inv, SessionKnows, CallsKnow, ClicksKnow

LEMMA SignOutKeeps ==
  ASSUME Inv, SignOut
  PROVE  Inv'
<1>1. TypeOK /\ SessionKnows /\ CallsKnow /\ ClicksKnow
  BY InvParts
<1>2. TypeOK'
  BY <1>1, ClosedTypes DEF TypeOK, SignOut, SetAuth, SignedOut, AuthStates, server
<1>3. SessionKnows'
  BY <1>1 DEF SessionKnows, SignOut, SetAuth, SignedOut, IsSignedIn, UserOf, OneUser, server
<1>4. CallsKnow'
  BY <1>1, CallKept DEF CallsKnow, SignOut, server
<1>5. ClicksKnow'
  <2> SUFFICES ASSUME NEW c \in Clicks PROVE ClickKnows(c)'
    BY DEF ClicksKnow
  <2>1. ClickKnows(c)
    BY <1>1 DEF ClicksKnow
  <2>2. OneUser /\ click[c].at = "refreshing" =>
          /\ (balance.valid => c \in balance.seen)'
          /\ (call[Balance].at = "ok" => c \in call[Balance].seen)'
    BY <2>1 DEF ClickKnows, SignOut
  <2> QED
    BY <1>1, <2>1, <2>2, ClosedKnows DEF SignOut, server
<1> QED
  BY <1>2, <1>3, <1>4, <1>5 DEF Inv, SessionKnows, CallsKnow, ClicksKnow

LEMMA ReloadKeeps ==
  ASSUME Inv, Reload
  PROVE  Inv'
<1>1. TypeOK /\ SessionKnows /\ CallsKnow /\ ClicksKnow
  BY InvParts
<1>2. auth' = auth /\ stored' = auth
  BY <1>1 DEF SessionKnows, Reload
<1>3. signedIn' \subseteq signedIn /\ UserOf(auth) \subseteq signedIn'
      /\ (UserOf(auth) # {} => signedIn' = signedIn)
  BY <1>1 DEF SessionKnows, Reload, UserOf
<1>4. \A c \in Clicks :
        /\ click'[c] \in ClickStates /\ click'[c].kind = click[c].kind
        /\ click'[c].at = "unused" => click[c].at = "unused" /\ click'[c] = click[c]
        /\ click'[c].at # "unused" => click'[c].at = "over" /\ click'[c].open = FALSE
  <2> TAKE c \in Clicks
  <2>1. click[c] \in ClickStates
    BY <1>1 DEF TypeOK
  <2>2. click'[c] = IF click[c].at = "unused" THEN click[c]
                    ELSE [click[c] EXCEPT !.at = "over", !.open = FALSE]
    BY DEF Reload
  <2> QED
    BY <2>1, <2>2 DEF ClickStates
<1>5. click' \in [Clicks -> ClickStates]
  <2>1. click' = [c \in Clicks |-> click'[c]]
    BY DEF Reload
  <2> QED
    BY <2>1, <1>4
<1>6. TypeOK'
  BY <1>1, <1>2, <1>3, <1>4, <1>5, CallTypes DEF TypeOK, Reload, NothingKept, KeptBalances, server
<1>7. SessionKnows'
  BY <1>1, <1>2, <1>3 DEF SessionKnows, Reload, IsSignedIn, UserOf, OneUser, server
<1>8. CallsKnow'
  <2> SUFFICES ASSUME NEW k \in Calls PROVE CallKnows(k)'
    BY DEF CallsKnow
  <2>1. call'[k] = NoCall
    BY DEF Reload
  <2> QED
    BY <2>1 DEF CallKnows, NoCall
<1>9. ClicksKnow'
  <2> SUFFICES ASSUME NEW c \in Clicks PROVE ClickKnows(c)'
    BY DEF ClicksKnow
  <2>1. ClickKnows(c) /\ call'[c] = NoCall
    BY <1>1, CallTypes DEF ClicksKnow, Reload
  <2>2. Remaining(c)' = 0 /\ call'[c].at = "none"
    BY <2>1 DEF Remaining, NoCall
  <2>3. Remaining(c) \in Nat
    BY <1>1, CallTypes DEF CallsKnow, CallKnows, TypeOK, CallStates, Remaining
  <2>4. paid' = paid /\ paid \in [Users -> [Clicks -> Nat]]
    BY <1>1 DEF Reload, server, TypeOK
  <2>5. \A u \in Users : paid'[u][c] + Remaining(c)' <= RetriesOf(click'[c].kind) + 1
    <3> TAKE u \in Users
    <3>1. RetriesOf(click[c].kind) \in Nat
      BY <1>1, CallTypes DEF TypeOK, ClickStates
    <3> QED
      BY <2>1, <2>2, <2>3, <2>4, <1>4, <3>1 DEF ClickKnows
  <2>6. click'[c].open => click[c].at = "unused" /\ click[c].open
    BY <1>4
  <2>7. click'[c].open => IsSignedIn'
    BY <2>1, <2>6, <1>2 DEF ClickKnows, IsSignedIn
  <2>8. click'[c].at \notin {"refreshing", "success"}
    BY <1>4
  <2> QED
    BY <2>1, <2>2, <2>4, <2>5, <2>7, <2>8, <1>4 DEF ClickKnows
<1> QED
  BY <1>6, <1>7, <1>8, <1>9 DEF Inv, SessionKnows, CallsKnow, ClicksKnow

\* The rest of what a step that only starts a call leaves alone.
LEMMA CallStartKeeps ==
  ASSUME Inv, NEW k \in {Status, Balance, Bvn}, NEW left \in Nat, IsSignedIn,
         Put(k, SentWith(left)),
         UNCHANGED <<auth, stored, kyc, balance, click, server, signedIn>>
  PROVE  Inv'
<1>1. TypeOK /\ SessionKnows /\ CallsKnow /\ ClicksKnow
  BY InvParts
<1>2. /\ k \in Calls /\ call' \in [Calls -> CallStates]
      /\ call'[k].at = "sent" /\ call'[k].token = auth.token
      /\ call'[k].left = left /\ call'[k].yes = FALSE
      /\ \A j \in Calls : j # k => call'[j] = call[j]
  <2>1. k \in Calls /\ left \in Int
    BY CallTypes
  <2>2. /\ SentWith(left) \in CallStates
        /\ SentWith(left).at = "sent" /\ SentWith(left).token = auth.token
        /\ SentWith(left).left = left /\ SentWith(left).yes = FALSE
    BY <1>1, <2>1, SentTypes
  <2>3. call \in [Calls -> CallStates]
    BY <1>1 DEF TypeOK
  <2> QED
    BY <2>1, <2>2, <2>3, PutMoves
<1>3. TypeOK'
  BY <1>1, <1>2 DEF TypeOK, server
<1>4. SessionKnows'
  BY <1>1 DEF SessionKnows, IsSignedIn, UserOf, OneUser, server
<1>5. CallsKnow'
  <2> SUFFICES ASSUME NEW j \in Calls PROVE CallKnows(j)'
    BY DEF CallsKnow
  <2>1. CASE j = k
    <3>1. auth.token \in issued /\ TokenUser[auth.token] \in signedIn
      BY <1>1 DEF SessionKnows, UserOf, IsSignedIn
    <3> QED
      BY <2>1, <1>2, <3>1 DEF CallKnows, server
  <2>2. CASE j # k
    BY <1>1, <1>2, <2>2, CallKept DEF CallsKnow, server
  <2> QED
    BY <2>1, <2>2
<1>6. ClicksKnow'
  <2> SUFFICES ASSUME NEW c \in Clicks PROVE ClickKnows(c)'
    BY DEF ClicksKnow
  <2>1. ClickKnows(c) /\ call'[c] = call[c]
    BY <1>1, <1>2, CallTypes DEF ClicksKnow
  <2>2. call'[Balance] = call[Balance] \/ call'[Balance].at = "sent"
    BY <1>2, CallTypes
  <2>3. OneUser /\ click[c].at \in {"refreshing", "success"} =>
          /\ (balance.valid => c \in balance.seen)'
          /\ (call[Balance].at = "ok" => c \in call[Balance].seen)'
    BY <2>1, <2>2 DEF ClickKnows
  <2> QED
    BY <2>1, <2>3, ClickKept DEF server, IsSignedIn
<1> QED
  BY <1>3, <1>4, <1>5, <1>6 DEF Inv, SessionKnows, CallsKnow, ClicksKnow

LEMMA FetchStatusKeeps == ASSUME Inv, FetchStatus PROVE Inv'
  BY CallStartKeeps DEF FetchStatus

LEMMA FetchBalanceKeeps == ASSUME Inv, FetchBalance PROVE Inv'
  BY CallStartKeeps DEF FetchBalance, QueryRetries

LEMMA SubmitBvnKeeps == ASSUME Inv, SubmitBvn PROVE Inv'
  BY CallStartKeeps DEF SubmitBvn

LEMMA CollectGarbageKeeps ==
  ASSUME Inv, CollectGarbage
  PROVE  Inv'
<1>1. TypeOK /\ SessionKnows /\ CallsKnow /\ ClicksKnow
  BY InvParts
<1>2. TypeOK'
  BY <1>1 DEF TypeOK, CollectGarbage, NothingKept, KeptBalances, server
<1>3. SessionKnows'
  BY <1>1 DEF SessionKnows, CollectGarbage, IsSignedIn, UserOf, OneUser, server
<1>4. CallsKnow'
  BY <1>1, CallKept DEF CallsKnow, CollectGarbage, server
<1>5. ClicksKnow'
  <2> SUFFICES ASSUME NEW c \in Clicks PROVE ClickKnows(c)'
    BY DEF ClicksKnow
  <2>1. ClickKnows(c)
    BY <1>1 DEF ClicksKnow
  <2>2. OneUser /\ click[c].at \in {"refreshing", "success"} =>
          /\ (balance.valid => c \in balance.seen)'
          /\ (call[Balance].at = "ok" => c \in call[Balance].seen)'
    BY <2>1 DEF ClickKnows, CollectGarbage, NothingKept
  <2> QED
    BY <2>1, <2>2, ClickKept DEF CollectGarbage, server, IsSignedIn
<1> QED
  BY <1>2, <1>3, <1>4, <1>5 DEF Inv, SessionKnows, CallsKnow, ClicksKnow

LEMMA CloseDialogKeeps ==
  ASSUME Inv, CloseDialog
  PROVE  Inv'
<1>1. TypeOK /\ SessionKnows /\ CallsKnow /\ ClicksKnow
  BY InvParts
<1>2. TypeOK'
  BY <1>1, ClosedTypes DEF TypeOK, CloseDialog, server
<1>3. SessionKnows'
  BY <1>1 DEF SessionKnows, CloseDialog, IsSignedIn, UserOf, OneUser, server
<1>4. CallsKnow'
  BY <1>1, CallKept DEF CallsKnow, CloseDialog, server
<1>5. ClicksKnow'
  <2> SUFFICES ASSUME NEW c \in Clicks PROVE ClickKnows(c)'
    BY DEF ClicksKnow
  <2>1. ClickKnows(c)
    BY <1>1 DEF ClicksKnow
  <2>2. OneUser /\ click[c].at = "refreshing" =>
          /\ (balance.valid => c \in balance.seen)'
          /\ (call[Balance].at = "ok" => c \in call[Balance].seen)'
    BY <2>1 DEF ClickKnows, CloseDialog
  <2> QED
    BY <1>1, <2>1, <2>2, ClosedKnows DEF CloseDialog, server
<1> QED
  BY <1>2, <1>3, <1>4, <1>5 DEF Inv, SessionKnows, CallsKnow, ClicksKnow

LEMMA RevokeKeeps ==
  ASSUME Inv, NEW t \in Tokens, Revoke(t)
  PROVE  Inv'
<1>1. TypeOK /\ SessionKnows /\ CallsKnow /\ ClicksKnow
  BY InvParts
<1>2. TypeOK'
  BY <1>1 DEF TypeOK, Revoke, Valid, client
<1>3. SessionKnows'
  BY <1>1 DEF SessionKnows, Revoke, client, IsSignedIn, UserOf, OneUser
<1>4. CallsKnow'
  BY <1>1 DEF CallsKnow, CallKnows, Revoke, Valid, client, OneUser
<1>5. ClicksKnow'
  <2> SUFFICES ASSUME NEW c \in Clicks PROVE ClickKnows(c)'
    BY DEF ClicksKnow
  <2>1. ClickKnows(c)
    BY <1>1 DEF ClicksKnow
  <2>2. OneUser /\ click[c].at \in {"refreshing", "success"} =>
          /\ (balance.valid => c \in balance.seen)'
          /\ (call[Balance].at = "ok" => c \in call[Balance].seen)'
    BY <2>1 DEF ClickKnows, Revoke, client
  <2> QED
    BY <2>1, <2>2, ClickKept DEF Revoke, client, IsSignedIn
<1> QED
  BY <1>2, <1>3, <1>4, <1>5 DEF Inv, SessionKnows, CallsKnow, ClicksKnow

\* A click is pending, and the first call of its mutation is made.
LEMMA ClickKeeps ==
  ASSUME Inv, NEW c \in Clicks, NEW kind \in Kinds, Click(c, kind)
  PROVE  Inv'
<1>1. TypeOK /\ SessionKnows /\ CallsKnow /\ ClicksKnow
  BY InvParts
<1>2. RetriesOf(kind) \in Nat /\ RetriesOf(kind) \in Int /\ c \in Calls
  BY CallTypes
<1>3. /\ call' \in [Calls -> CallStates]
      /\ call'[c].at = "sent" /\ call'[c].token = auth.token
      /\ call'[c].left = RetriesOf(kind) /\ call'[c].yes = FALSE
      /\ \A j \in Calls : j # c => call'[j] = call[j]
  <2>1. /\ SentWith(RetriesOf(kind)) \in CallStates
        /\ SentWith(RetriesOf(kind)).at = "sent" /\ SentWith(RetriesOf(kind)).token = auth.token
        /\ SentWith(RetriesOf(kind)).left = RetriesOf(kind) /\ SentWith(RetriesOf(kind)).yes = FALSE
    BY <1>1, <1>2, SentTypes
  <2>2. call \in [Calls -> CallStates] /\ Put(c, SentWith(RetriesOf(kind)))
    BY <1>1 DEF TypeOK, Click
  <2> QED
    BY <1>2, <2>1, <2>2, PutMoves
<1>4. /\ click' \in [Clicks -> ClickStates]
      /\ click'[c] = [kind |-> kind, at |-> "pending", open |-> TRUE]
      /\ \A d \in Clicks : d # c => click'[d] = click[d]
  BY <1>1 DEF TypeOK, Click, ClickStates
<1>5. IsSignedIn /\ click[c].at = "unused"
      /\ UNCHANGED <<auth, stored, kyc, balance, issued, revoked, verified, paid, signedIn>>
  BY DEF Click, OpenDialog, server
<1>6. \A u \in Users : paid[u][c] = 0
  BY <1>1, <1>5 DEF ClicksKnow, ClickKnows
<1>7. TypeOK'
  <2>1. \A u \in Users, d \in Clicks : paid[u][d] <= RetriesOf(click'[d].kind) + 1
    <3> TAKE u \in Users, d \in Clicks
    <3>1. CASE d = c
      BY <3>1, <1>2, <1>4, <1>6
    <3>2. CASE d # c
      BY <3>2, <1>1, <1>4 DEF TypeOK
    <3> QED
      BY <3>1, <3>2
  <2> QED
    BY <1>1, <1>3, <1>4, <1>5, <2>1 DEF TypeOK
<1>8. SessionKnows'
  BY <1>1, <1>5 DEF SessionKnows, IsSignedIn, UserOf, OneUser
<1>9. CallsKnow'
  <2> SUFFICES ASSUME NEW j \in Calls PROVE CallKnows(j)'
    BY DEF CallsKnow
  <2>1. CASE j = c
    <3>1. auth.token \in issued /\ TokenUser[auth.token] \in signedIn
      BY <1>1, <1>5 DEF SessionKnows, UserOf, IsSignedIn
    <3> QED
      BY <2>1, <1>2, <1>3, <1>5, <3>1 DEF CallKnows
  <2>2. CASE j # c
    BY <1>1, <1>3, <1>5, <2>2, CallKept DEF CallsKnow
  <2> QED
    BY <2>1, <2>2
<1>10. ClicksKnow'
  <2> SUFFICES ASSUME NEW d \in Clicks PROVE ClickKnows(d)'
    BY DEF ClicksKnow
  <2>1. CASE d = c
    <3>1. Remaining(c)' = RetriesOf(kind) + 1
      BY <1>3 DEF Remaining
    <3>2. \A u \in Users : paid[u][c] + (RetriesOf(kind) + 1) <= RetriesOf(kind) + 1
      <4> TAKE u \in Users
      <4>1. paid[u][c] = 0
        BY <1>6
      <4>2. paid[u][c] + (RetriesOf(kind) + 1) = RetriesOf(kind) + 1
        BY <4>1, <1>2
      <4> QED
        BY <4>2, <1>2
    <3> QED
      BY <2>1, <3>1, <3>2, <1>3, <1>4, <1>5 DEF ClickKnows, IsSignedIn
  <2>2. CASE d # c
    <3>1. ClickKnows(d) /\ call'[d] = call[d] /\ click'[d] = click[d] /\ call'[Balance] = call[Balance]
      BY <2>2, <1>1, <1>3, <1>4, CallTypes DEF ClicksKnow
    <3>2. OneUser /\ click[d].at \in {"refreshing", "success"} =>
            /\ (balance.valid => d \in balance.seen)'
            /\ (call[Balance].at = "ok" => d \in call[Balance].seen)'
      BY <3>1, <1>5 DEF ClickKnows
    <3> QED
      BY <3>1, <3>2, <1>5, ClickKept DEF IsSignedIn
  <2> QED
    BY <2>1, <2>2
<1> QED
  BY <1>7, <1>8, <1>9, <1>10 DEF Inv, SessionKnows, CallsKnow, ClicksKnow

\* The next call of a mutation: with whatever token the session has by then.
LEMMA RetryKeeps ==
  ASSUME Inv, NEW c \in Clicks, Retry(c)
  PROVE  Inv'
<1>1. TypeOK /\ SessionKnows /\ CallsKnow /\ ClicksKnow
  BY InvParts
<1>2. /\ c \in Calls /\ call[c] \in CallStates /\ call[c].at = "waiting"
      /\ call[c].left \in Nat /\ call[c].left \in Int
  <2>1. c \in Calls /\ call[c].at = "waiting"
    BY CallTypes DEF Retry
  <2>2. call[c] \in CallStates /\ CallKnows(c)
    BY <1>1, <2>1 DEF TypeOK, CallsKnow
  <2> QED
    BY <2>1, <2>2 DEF CallKnows, CallStates
<1>3. /\ call' \in [Calls -> CallStates]
      /\ call'[c].at = "sent" /\ call'[c].token = auth.token
      /\ call'[c].left = call[c].left /\ call'[c].yes = FALSE
      /\ \A j \in Calls : j # c => call'[j] = call[j]
  <2>1. /\ SentWith(call[c].left) \in CallStates
        /\ SentWith(call[c].left).at = "sent" /\ SentWith(call[c].left).token = auth.token
        /\ SentWith(call[c].left).left = call[c].left /\ SentWith(call[c].left).yes = FALSE
    BY <1>1, <1>2, SentTypes
  <2>2. call \in [Calls -> CallStates] /\ Put(c, SentWith(call[c].left))
    BY <1>1 DEF TypeOK, Retry
  <2> QED
    BY <1>2, <2>1, <2>2, PutMoves
<1>4. UNCHANGED <<auth, stored, kyc, balance, click, issued, revoked, verified, paid, signedIn>>
  BY DEF Retry, server
<1>5. TypeOK'
  BY <1>1, <1>3, <1>4 DEF TypeOK
<1>6. SessionKnows'
  BY <1>1, <1>4 DEF SessionKnows, IsSignedIn, UserOf, OneUser
<1>7. CallsKnow'
  <2> SUFFICES ASSUME NEW j \in Calls PROVE CallKnows(j)'
    BY DEF CallsKnow
  <2>1. CASE j = c
    <3>1. auth.token # NoToken => auth.token \in issued /\ TokenUser[auth.token] \in signedIn
      BY <1>1 DEF SessionKnows, UserOf, IsSignedIn
    <3> QED
      BY <2>1, <1>2, <1>3, <1>4, <3>1 DEF CallKnows
  <2>2. CASE j # c
    BY <1>1, <1>3, <1>4, <2>2, CallKept DEF CallsKnow
  <2> QED
    BY <2>1, <2>2
<1>8. ClicksKnow'
  <2> SUFFICES ASSUME NEW d \in Clicks PROVE ClickKnows(d)'
    BY DEF ClicksKnow
  <2>1. ClickKnows(d) /\ call'[Balance] = call[Balance]
    BY <1>1, <1>3, CallTypes DEF ClicksKnow
  <2>2. CASE d = c
    <3>1. Remaining(c)' = Remaining(c)
      BY <1>2, <1>3 DEF Remaining
    <3> QED
      BY <2>1, <2>2, <3>1, <1>2, <1>3, <1>4 DEF ClickKnows, IsPosted, OneUser, IsSignedIn
  <2>3. CASE d # c
    <3>1. call'[d] = call[d]
      BY <2>3, <1>3, CallTypes
    <3>2. OneUser /\ click[d].at \in {"refreshing", "success"} =>
            /\ (balance.valid => d \in balance.seen)'
            /\ (call[Balance].at = "ok" => d \in call[Balance].seen)'
      BY <2>1, <1>4 DEF ClickKnows
    <3> QED
      BY <2>1, <3>1, <3>2, <1>4, ClickKept DEF IsSignedIn
  <2> QED
    BY <2>2, <2>3
<1> QED
  BY <1>5, <1>6, <1>7, <1>8 DEF Inv, SessionKnows, CallsKnow, ClicksKnow

-----------------------------------------------------------------------------
(* The server's answers.                                                   *)

\* What an answer, or the loss of one, may do: a call of k becomes answered, the
\* server posts at most once what it asks for, and the answer knows.
Answers(k) ==
  /\ call' \in [Calls -> CallStates]
  /\ \A j \in Calls : j # k => call'[j] = call[j]
  /\ call'[k].left = call[k].left
  /\ call'[k].at \in {"ok", "unauthorized", "failed"}
  /\ call'[k].token \in {NoToken, call[k].token}
  /\ call'[k].at = "unauthorized" => ~Valid(call'[k].token)
  /\ call'[k].at = "ok" => signedIn # {}
  /\ call'[k].yes => call'[k].at = "ok" /\ (OneUser => signedIn \subseteq verified')
  /\ verified \subseteq verified' /\ verified' \subseteq Users
  /\ paid' \in [Users -> [Clicks -> Nat]]
  /\ \A v \in Users, c \in Clicks :
       /\ paid'[v][c] >= paid[v][c]
       /\ c # k => paid'[v][c] = paid[v][c]
       /\ paid'[v][c] # paid[v][c] => call[k].at = "sent" /\ paid'[v][c] = paid[v][c] + 1
  /\ k \in Clicks /\ call'[k].at = "ok" => \E v \in signedIn : paid'[v][k] > 0
  /\ k = Balance /\ call'[k].at = "ok" /\ OneUser =>
       \A c \in Clicks : IsPosted(c) => c \in call'[k].seen

LEMMA AnswerKeeps ==
  ASSUME Inv, NEW k \in Calls, call[k].at \in {"sent", "ok"}, Answers(k),
         UNCHANGED <<auth, stored, kyc, balance, click, issued, revoked, signedIn>>
  PROVE  Inv'
<1>1. TypeOK /\ SessionKnows /\ CallsKnow /\ ClicksKnow
  BY InvParts
<1>2. \A c \in Clicks : RetriesOf(click[c].kind) \in Nat
  BY <1>1, CallTypes DEF TypeOK, ClickStates
<1>3. \A c \in Clicks : Remaining(c)' \in Nat /\ Remaining(c) \in Nat
                        /\ (c # k => Remaining(c)' = Remaining(c))
                        /\ (c = k /\ call[k].at = "sent" => Remaining(c)' + 1 = Remaining(c))
                        /\ (c = k /\ call[k].at = "ok" => Remaining(c)' = Remaining(c))
  <2> TAKE c \in Clicks
  <2>1. c \in Calls /\ call[c] \in CallStates /\ call'[c] \in CallStates /\ call[c].left >= 0
    BY <1>1, CallTypes DEF TypeOK, CallsKnow, CallKnows, Answers
  <2>2. call[c].left \in Nat /\ call'[c].left = call[c].left
    BY <2>1 DEF CallStates, Answers
  <2>3. CASE c # k
    BY <2>1, <2>2, <2>3 DEF Remaining, Answers
  <2>4. CASE c = k
    BY <2>1, <2>2, <2>4 DEF Remaining, Answers
  <2> QED
    BY <2>3, <2>4
<1>4. \A v \in Users, c \in Clicks :
        paid'[v][c] + Remaining(c)' <= RetriesOf(click[c].kind) + 1
  <2> TAKE v \in Users, c \in Clicks
  <2>1. paid[v][c] \in Nat /\ paid'[v][c] \in Nat
    BY <1>1 DEF TypeOK, Answers
  <2>2. paid[v][c] + Remaining(c) <= RetriesOf(click[c].kind) + 1
    BY <1>1 DEF ClicksKnow, ClickKnows
  <2>3. paid'[v][c] + Remaining(c)' <= paid[v][c] + Remaining(c)
    <3>1. CASE c # k
      BY <3>1, <2>1, <1>3 DEF Answers
    <3>2. CASE c = k /\ call[k].at = "sent"
      <4>1. paid'[v][c] = paid[v][c] \/ paid'[v][c] = paid[v][c] + 1
        BY DEF Answers
      <4> QED
        BY <4>1, <3>2, <2>1, <1>3
    <3>3. CASE c = k /\ call[k].at = "ok"
      <4>1. paid'[v][c] = paid[v][c]
        BY <3>3 DEF Answers
      <4> QED
        BY <4>1, <3>3, <2>1, <1>3
    <3> QED
      BY <3>1, <3>2, <3>3
  <2> QED
    BY <2>1, <2>2, <2>3, <1>2, <1>3
<1>5. TypeOK'
  <2>1. \A v \in Users, c \in Clicks : paid'[v][c] <= RetriesOf(click[c].kind) + 1
    <3> TAKE v \in Users, c \in Clicks
    <3>1. paid'[v][c] \in Nat
      BY DEF Answers
    <3> QED
      BY <3>1, <1>2, <1>3, <1>4
  <2> QED
    BY <1>1, <2>1 DEF TypeOK, Answers
<1>6. SessionKnows'
  BY <1>1 DEF SessionKnows, IsSignedIn, UserOf, OneUser, Answers
<1>7. CallsKnow'
  <2> SUFFICES ASSUME NEW j \in Calls PROVE CallKnows(j)'
    BY DEF CallsKnow
  <2>1. CallKnows(j) /\ (OneUser' <=> OneUser) /\ verified \subseteq verified'
    BY <1>1 DEF CallsKnow, OneUser, Answers
  <2>2. CASE j = k
    BY <2>1, <2>2 DEF CallKnows, Answers, Valid
  <2>3. CASE j # k
    <3>1. call'[j] = call[j]
      BY <2>3 DEF Answers
    <3> QED
      BY <2>1, <3>1 DEF CallKnows, Valid
  <2> QED
    BY <2>2, <2>3
<1>8. ClicksKnow'
  <2> SUFFICES ASSUME NEW c \in Clicks PROVE ClickKnows(c)'
    BY DEF ClicksKnow
  <2>1. ClickKnows(c) /\ c \in Calls /\ Balance \in Calls /\ (OneUser' <=> OneUser)
    BY <1>1, CallTypes DEF ClicksKnow, OneUser
  <2>2. IsPosted(c) => IsPosted(c)'
    <3> SUFFICES ASSUME NEW v \in signedIn, paid[v][c] > 0 PROVE paid'[v][c] > 0
      BY DEF IsPosted
    <3>1. v \in Users
      BY <1>1 DEF TypeOK
    <3>2. paid[v][c] \in Nat /\ paid'[v][c] \in Nat /\ paid'[v][c] >= paid[v][c]
      BY <1>1, <3>1 DEF TypeOK, Answers
    <3> QED
      BY <3>2
  <2>3. click[c].at = "unused" => call'[c].at = "none" /\ \A v \in Users : paid'[v][c] = 0
    <3> SUFFICES ASSUME click[c].at = "unused"
                 PROVE  call'[c].at = "none" /\ \A v \in Users : paid'[v][c] = 0
      OBVIOUS
    <3>1. call[c].at = "none" /\ c # k /\ \A v \in Users : paid[v][c] = 0
      BY <2>1 DEF ClickKnows
    <3> QED
      BY <3>1, <2>1 DEF Answers
  <2>4. call'[c].at = "ok" => IsPosted(c)'
    <3>1. CASE c = k
      BY <3>1 DEF Answers, IsPosted
    <3>2. CASE c # k
      BY <3>2, <2>1, <2>2 DEF Answers, ClickKnows
    <3> QED
      BY <3>1, <3>2
  <2>5. OneUser /\ click[c].at \in {"refreshing", "success"} /\ call'[Balance].at = "ok" =>
          c \in call'[Balance].seen
    <3>1. CASE k = Balance
      BY <3>1, <2>1 DEF Answers, ClickKnows
    <3>2. CASE k # Balance
      BY <3>2, <2>1 DEF Answers, ClickKnows
    <3> QED
      BY <3>1, <3>2
  <2> QED
    BY <2>1, <2>2, <2>3, <2>4, <2>5, <1>4 DEF ClickKnows, IsSignedIn
<1> QED
  BY <1>5, <1>6, <1>7, <1>8 DEF Inv, SessionKnows, CallsKnow, ClicksKnow

LEMMA DoneTypes ==
  ASSUME TypeOK, NEW k \in Calls
  PROVE  /\ Done(k) \in CallStates
         /\ Done(k).at = "ok" /\ Done(k).token = NoToken
         /\ Done(k).left = call[k].left /\ Done(k).yes = FALSE
<1>1. call[k].left \in Int
  BY DEF TypeOK, CallStates
<1>2. NoCall \in CallStates /\ NoCall.yes = FALSE /\ NoCall.token = NoToken
  BY CallTypes DEF NoCall
<1> QED
  BY <1>1, <1>2 DEF Done, CallStates

LEMMA LoseKeeps ==
  ASSUME Inv, NEW k \in Calls, Lose(k)
  PROVE  Inv'
<1>1. TypeOK /\ ClicksKnow
  BY InvParts
<1> DEFINE n == [Done(k) EXCEPT !.at = "failed"]
<1>2. n \in CallStates /\ n.at = "failed" /\ n.token = NoToken /\ n.left = call[k].left /\ n.yes = FALSE
  BY <1>1, DoneTypes DEF CallStates
<1> HIDE DEF n
<1>3. Put(k, n) /\ call \in [Calls -> CallStates]
  BY <1>1 DEF Lose, n, TypeOK
<1>4. /\ call' \in [Calls -> CallStates] /\ call'[k] = n
      /\ \A j \in Calls : j # k => call'[j] = call[j]
  BY <1>2, <1>3, PutMoves
<1>5. verified' = verified /\ paid' = paid /\ call[k].at \in {"sent", "ok"}
      /\ UNCHANGED <<auth, stored, kyc, balance, click, issued, revoked, signedIn>>
  BY DEF Lose, TimesOut, server
<1>6. \A v \in Users, c \in Clicks : paid[v][c] \in Nat
  BY <1>1 DEF TypeOK
<1>7. Answers(k)
  BY <1>1, <1>2, <1>4, <1>5, <1>6 DEF Answers, TypeOK
<1> QED
  BY <1>5, <1>7, AnswerKeeps

LEMMA HandleKeeps ==
  ASSUME Inv, NEW k \in Calls, Handle(k)
  PROVE  Inv'
<1> DEFINE u == TokenUser[call[k].token]
<1>1. TypeOK /\ CallsKnow /\ ClicksKnow
  BY InvParts
<1>2. call[k].at = "sent" /\ call[k] \in CallStates /\ call \in [Calls -> CallStates]
      /\ UNCHANGED <<auth, stored, kyc, balance, click, issued, revoked, signedIn>>
  BY <1>1 DEF Handle, TypeOK
<1>3. \A v \in Users, c \in Clicks : paid[v][c] \in Nat
  BY <1>1 DEF TypeOK
<1>4. CASE ~Valid(call[k].token) /\ Refuse(k)
  <2> DEFINE n == [call[k] EXCEPT !.at = "unauthorized"]
  <2>1. n \in CallStates /\ n.at = "unauthorized" /\ n.token = call[k].token
        /\ n.left = call[k].left /\ n.yes = call[k].yes
    BY <1>2 DEF CallStates
  <2>2. n.yes = FALSE
    BY <1>1, <1>2, <2>1 DEF CallsKnow, CallKnows, CallStates
  <2> HIDE DEF n
  <2>3. Put(k, n) /\ verified' = verified /\ paid' = paid
    BY <1>4 DEF Refuse, n
  <2>4. /\ call' \in [Calls -> CallStates] /\ call'[k] = n
        /\ \A j \in Calls : j # k => call'[j] = call[j]
    BY <1>2, <2>1, <2>3, PutMoves
  <2> QED
    BY <1>1, <1>2, <1>3, <1>4, <2>1, <2>2, <2>3, <2>4, AnswerKeeps DEF Answers, TypeOK
<1>5. CASE Valid(call[k].token) /\ Serve(k, u)
  <2>1. u \in signedIn /\ u \in Users
    <3>1. call[k].token # NoToken /\ call[k].token \in Tokens
      BY <1>1, <1>5 DEF Valid, TypeOK
    <3> QED
      BY <1>1, <3>1 DEF CallsKnow, CallKnows
  <2>2. OneUser => signedIn = {u}
    BY <2>1 DEF OneUser
  <2>3. /\ Done(k) \in CallStates
        /\ Done(k).at = "ok" /\ Done(k).token = NoToken
        /\ Done(k).left = call[k].left /\ Done(k).yes = FALSE
    BY <1>1, DoneTypes
  <2>4. CASE k = Status /\ ServeStatus(u)
    <3> DEFINE b == u \in verified
               n == [Done(k) EXCEPT !.yes = b]
    <3>0. b \in BOOLEAN
      OBVIOUS
    <3>1. n \in CallStates /\ n.at = "ok" /\ n.token = NoToken /\ n.left = call[k].left
          /\ (n.yes => u \in verified)
      <4> HIDE DEF b
      <4>1. n \in CallStates /\ n.at = "ok" /\ n.token = NoToken /\ n.left = call[k].left /\ n.yes = b
        BY <2>3, <3>0 DEF CallStates
      <4> QED
        BY <4>1 DEF b
    <3> HIDE DEF n
    <3>2. Put(k, n) /\ verified' = verified /\ paid' = paid
      BY <2>4 DEF ServeStatus, n
    <3>3. /\ call' \in [Calls -> CallStates] /\ call'[k] = n
          /\ \A j \in Calls : j # k => call'[j] = call[j]
      BY <1>2, <3>1, <3>2, PutMoves
    <3>4. k # Balance /\ k \notin Clicks
      BY <2>4, CallTypes
    <3>5. Answers(k)
      BY <1>1, <1>3, <2>1, <2>2, <3>1, <3>2, <3>3, <3>4 DEF Answers, TypeOK
    <3> QED
      BY <1>2, <3>5, AnswerKeeps
  <2>5. CASE k = Balance /\ ServeBalance(u)
    <3> DEFINE n == [Done(k) EXCEPT !.seen = PostedFor(u)]
    <3>1. n \in CallStates /\ n.at = "ok" /\ n.token = NoToken /\ n.left = call[k].left
          /\ n.yes = FALSE /\ n.seen = PostedFor(u)
      <4>1. PostedFor(u) \in SUBSET Clicks
        BY DEF PostedFor
      <4> QED
        BY <2>3, <4>1 DEF CallStates
    <3> HIDE DEF n
    <3>2. Put(k, n) /\ verified' = verified /\ paid' = paid
      BY <2>5 DEF ServeBalance, n
    <3>3. /\ call' \in [Calls -> CallStates] /\ call'[k] = n
          /\ \A j \in Calls : j # k => call'[j] = call[j]
      BY <1>2, <3>1, <3>2, PutMoves
    <3>4. k \notin Clicks
      BY <2>5, CallTypes
    <3>5. OneUser => \A c \in Clicks : IsPosted(c) => c \in n.seen
      BY <2>2, <3>1 DEF IsPosted, PostedFor
    <3>6. Answers(k)
      BY <1>1, <1>3, <2>1, <3>1, <3>2, <3>3, <3>4, <3>5 DEF Answers, TypeOK
    <3> QED
      BY <1>2, <3>6, AnswerKeeps
  <2>6. CASE k = Bvn /\ ServeBvn(u)
    <3> DEFINE n == [Done(k) EXCEPT !.yes = TRUE]
    <3>1. n \in CallStates /\ n.at = "ok" /\ n.token = NoToken /\ n.left = call[k].left
      BY <2>3 DEF CallStates
    <3> HIDE DEF n
    <3>2. Put(k, n) /\ verified' = verified \cup {u} /\ paid' = paid
      BY <2>6 DEF ServeBvn, n
    <3>3. /\ call' \in [Calls -> CallStates] /\ call'[k] = n
          /\ \A j \in Calls : j # k => call'[j] = call[j]
      BY <1>2, <3>1, <3>2, PutMoves
    <3>4. k # Balance /\ k \notin Clicks
      BY <2>6, CallTypes
    <3>5. Answers(k)
      BY <1>1, <1>3, <2>1, <2>2, <3>1, <3>2, <3>3, <3>4 DEF Answers, TypeOK
    <3> QED
      BY <1>2, <3>5, AnswerKeeps
  <2>7. CASE k \in Clicks /\ ServePosting(k, u)
    <3>1. Put(k, Done(k)) /\ verified' = verified /\ paid' = [paid EXCEPT ![u][k] = @ + 1]
      BY <2>7 DEF ServePosting
    <3>2. /\ call' \in [Calls -> CallStates] /\ call'[k] = Done(k)
          /\ \A j \in Calls : j # k => call'[j] = call[j]
      BY <1>2, <2>3, <3>1, PutMoves
    <3>3. k # Balance
      BY <2>7, CallTypes
    <3>4. /\ paid' \in [Users -> [Clicks -> Nat]]
          /\ paid'[u][k] = paid[u][k] + 1
          /\ \A v \in Users, c \in Clicks : v # u \/ c # k => paid'[v][c] = paid[v][c]
      BY <1>1, <2>1, <2>7, <3>1 DEF TypeOK
    <3>5. /\ \A v \in Users, c \in Clicks :
               /\ paid'[v][c] >= paid[v][c]
               /\ c # k => paid'[v][c] = paid[v][c]
               /\ paid'[v][c] # paid[v][c] => call[k].at = "sent" /\ paid'[v][c] = paid[v][c] + 1
          /\ paid'[u][k] > 0
      BY <1>2, <1>3, <2>1, <2>7, <3>4
    <3>6. Answers(k)
      BY <1>1, <2>1, <2>3, <3>1, <3>2, <3>3, <3>4, <3>5 DEF Answers, TypeOK
    <3> QED
      BY <1>2, <3>6, AnswerKeeps
  <2> QED
    BY <1>5, <2>4, <2>5, <2>6, <2>7 DEF Serve
<1> QED
  BY <1>4, <1>5 DEF Handle

-----------------------------------------------------------------------------
(* Answers that arrive.                                                    *)

\* What the interceptor does to the session and to the dialogs.
LEMMA InterceptMoves ==
  ASSUME TypeOK, SessionKnows, NEW k \in Calls, Intercept(k)
  PROVE  /\ auth' \in AuthStates /\ stored' = auth' /\ auth' \in {auth, SignedOut}
         /\ ~Unauthorized(k) => auth' = auth /\ DialogsAfter(k) = click
         /\ DialogsAfter(k) \in [Clicks -> ClickStates]
         /\ \A c \in Clicks : \/ DialogsAfter(k)[c] = click[c] /\ auth' = auth
                              \/ DialogsAfter(k)[c] = Closed[c]
         /\ \A c \in Clicks : DialogsAfter(k)[c].kind = click[c].kind
<1>1. SignedOut \in AuthStates /\ auth \in AuthStates /\ stored = auth /\ click \in [Clicks -> ClickStates]
  BY DEF TypeOK, SessionKnows, SignedOut, AuthStates
<1>2. CASE Unauthorized(k)
  BY <1>1, <1>2, ClosedTypes DEF Intercept, DialogsAfter, SetAuth
<1>3. CASE ~Unauthorized(k)
  BY <1>1, <1>3 DEF Intercept, DialogsAfter, KeepAuth
<1> QED
  BY <1>2, <1>3

LEMMA SessionLess ==
  ASSUME SessionKnows, auth' \in {auth, SignedOut}, stored' = auth',
         UNCHANGED <<kyc, issued, verified, signedIn>>
  PROVE  SessionKnows'
<1>1. CASE auth' = auth
  BY <1>1 DEF SessionKnows, IsSignedIn, UserOf, OneUser
<1>2. CASE auth' = SignedOut
  BY <1>2 DEF SessionKnows, IsSignedIn, UserOf, OneUser, SignedOut
<1> QED
  BY <1>1, <1>2

LEMMA NoCallKnows ==
  ASSUME NEW k \in Calls, call'[k] = NoCall
  PROVE  CallKnows(k)'
  BY DEF CallKnows, NoCall

LEMMA ReceiveStatusKeeps ==
  ASSUME Inv, ReceiveStatus
  PROVE  Inv'
<1>1. TypeOK /\ SessionKnows /\ CallsKnow /\ ClicksKnow
  BY InvParts
<1>2. /\ Status \in Calls /\ call' \in [Calls -> CallStates] /\ call'[Status] = NoCall
      /\ \A j \in Calls : j # Status => call'[j] = call[j]
  <2>1. Put(Status, NoCall) /\ call \in [Calls -> CallStates]
    BY <1>1 DEF ReceiveStatus, TypeOK
  <2> QED
    BY <2>1, CallTypes, PutMoves
<1>3. UNCHANGED <<balance, issued, revoked, verified, paid, signedIn>>
      /\ click' = DialogsAfter(Status) /\ HasAnswer(Status)
  BY DEF ReceiveStatus, server
<1>4. /\ auth' \in AuthStates /\ stored' = auth' /\ kyc' \in {"none", "verified", "unverified"}
      /\ click' \in [Clicks -> ClickStates]
      /\ \A c \in Clicks : click'[c].kind = click[c].kind
      /\ \A c \in Clicks : \/ click'[c] = click[c] /\ auth'.token = auth.token
                           \/ click'[c] = Closed[c]
      /\ SessionKnows'
  <2>1. CASE Answered(Status)
    <3> DEFINE answer == IF call[Status].yes THEN "verified" ELSE "unverified"
    <3>1. kyc' = answer /\ answer \in {"verified", "unverified"} /\ click' = click
      BY <2>1, <1>3 DEF ReceiveStatus, Answered, DialogsAfter, Unauthorized
    <3>2. signedIn # {} /\ (answer = "verified" => (OneUser => signedIn \subseteq verified))
      BY <1>1, <1>2, <2>1 DEF CallsKnow, CallKnows, Answered
    <3>3. CASE IsSignedIn
      <4> DEFINE a == [auth EXCEPT !.kycVerified = FlagFrom(answer, @)]
      <4>1. auth' = a /\ stored' = a
        BY <2>1, <3>3 DEF ReceiveStatus, SetAuth
      <4>2. FlagFrom(answer, auth.kycVerified) = (answer = "verified")
        BY <3>1 DEF FlagFrom
      <4>3. a \in AuthStates /\ a.token = auth.token /\ (a.kycVerified => answer = "verified")
        BY <1>1, <4>2 DEF TypeOK, AuthStates
      <4>4. SessionKnows'
        <5>1. UserOf(auth)' = UserOf(auth) /\ IsSignedIn' = IsSignedIn /\ (OneUser' <=> OneUser)
          BY <1>3, <4>1, <4>3 DEF UserOf, IsSignedIn, OneUser
        <5>2. UserOf(auth) \subseteq signedIn /\ (IsSignedIn => auth.token \in issued)
          BY <1>1 DEF SessionKnows
        <5> HIDE DEF a, answer
        <5> QED
          BY <1>3, <3>1, <3>2, <4>1, <4>3, <5>1, <5>2 DEF SessionKnows
      <4> QED
        BY <1>1, <3>1, <4>1, <4>3, <4>4 DEF TypeOK
    <3>4. CASE ~IsSignedIn
      <4>1. auth' = auth /\ stored' = stored
        BY <2>1, <3>4 DEF ReceiveStatus, KeepAuth
      <4>2. SessionKnows'
        <5>1. UserOf(auth) = {} /\ UserOf(auth)' = {} /\ ~IsSignedIn' /\ (OneUser' <=> OneUser)
          BY <1>3, <3>4, <4>1 DEF UserOf, IsSignedIn, OneUser
        <5> HIDE DEF answer
        <5> QED
          BY <1>1, <1>3, <3>1, <3>2, <4>1, <5>1 DEF SessionKnows
      <4> QED
        BY <1>1, <3>1, <4>1, <4>2 DEF TypeOK, SessionKnows
    <3> QED
      BY <3>3, <3>4
  <2>2. CASE ~Answered(Status)
    <3>1. Intercept(Status) /\ kyc' = kyc
      BY <2>2 DEF ReceiveStatus
    <3> QED
      BY <1>1, <1>2, <1>3, <3>1, InterceptMoves, SessionLess DEF TypeOK
  <2> QED
    BY <2>1, <2>2
<1>5. TypeOK'
  BY <1>1, <1>2, <1>3, <1>4 DEF TypeOK
<1>6. CallsKnow'
  BY <1>1, <1>2, <1>3, CallKept, NoCallKnows DEF CallsKnow
<1>7. ClicksKnow'
  <2> SUFFICES ASSUME NEW c \in Clicks PROVE ClickKnows(c)'
    BY DEF ClicksKnow
  <2>1. ClickKnows(c) /\ call'[c] = call[c] /\ call'[Balance] = call[Balance]
    BY <1>1, <1>2, CallTypes DEF ClicksKnow
  <2>2. OneUser /\ click[c].at \in {"refreshing", "success"} =>
          /\ (balance.valid => c \in balance.seen)'
          /\ (call[Balance].at = "ok" => c \in call[Balance].seen)'
    BY <2>1, <1>3 DEF ClickKnows
  <2> QED
    BY <1>1, <1>3, <1>4, <2>1, <2>2, ClickKept, ClosedKnows DEF IsSignedIn
<1> QED
  BY <1>4, <1>5, <1>6, <1>7 DEF Inv, SessionKnows, CallsKnow, ClicksKnow

LEMMA ReceiveBvnKeeps ==
  ASSUME Inv, ReceiveBvn
  PROVE  Inv'
<1>1. TypeOK /\ SessionKnows /\ CallsKnow /\ ClicksKnow
  BY InvParts
<1>2. /\ Bvn \in Calls /\ call' \in [Calls -> CallStates] /\ call'[Bvn] = NoCall
      /\ \A j \in Calls : j # Bvn => call'[j] = call[j]
  <2>1. Put(Bvn, NoCall) /\ call \in [Calls -> CallStates]
    BY <1>1 DEF ReceiveBvn, TypeOK
  <2> QED
    BY <2>1, CallTypes, PutMoves
<1>3. UNCHANGED <<kyc, balance, issued, revoked, verified, paid, signedIn>>
      /\ click' = DialogsAfter(Bvn)
  BY DEF ReceiveBvn, server
<1>4. /\ auth' \in AuthStates /\ stored' = auth'
      /\ click' \in [Clicks -> ClickStates]
      /\ \A c \in Clicks : click'[c].kind = click[c].kind
      /\ \A c \in Clicks : \/ click'[c] = click[c] /\ auth'.token = auth.token
                           \/ click'[c] = Closed[c]
      /\ SessionKnows'
  <2>1. CASE IsSignedIn /\ Succeeds(Bvn)
    <3> DEFINE a == [auth EXCEPT !.kycVerified = TRUE]
    <3>1. auth' = a /\ stored' = a
      BY <2>1 DEF ReceiveBvn, SetAuth
    <3>2. click' = click
      BY <2>1, <1>3 DEF Succeeds, Answered, DialogsAfter, Unauthorized
    <3>3. a \in AuthStates /\ a.token = auth.token
      BY <1>1 DEF TypeOK, AuthStates
    <3>4. OneUser => signedIn \subseteq verified
      BY <1>1, <1>2, <2>1 DEF CallsKnow, CallKnows, Succeeds
    <3>5. SessionKnows'
      <4> HIDE DEF a
      <4>1. UserOf(auth)' = UserOf(auth) /\ (IsSignedIn' <=> IsSignedIn) /\ (OneUser' <=> OneUser)
        BY <1>3, <3>1, <3>3 DEF UserOf, IsSignedIn, OneUser
      <4> QED
        BY <1>1, <1>3, <3>1, <3>3, <3>4, <4>1 DEF SessionKnows
    <3> QED
      BY <1>1, <3>1, <3>2, <3>3, <3>5 DEF TypeOK
  <2>2. CASE ~(IsSignedIn /\ Succeeds(Bvn))
    <3>1. Intercept(Bvn)
      BY <2>2 DEF ReceiveBvn
    <3> QED
      BY <1>1, <1>2, <1>3, <3>1, InterceptMoves, SessionLess
  <2> QED
    BY <2>1, <2>2
<1>5. TypeOK'
  BY <1>1, <1>2, <1>3, <1>4 DEF TypeOK
<1>6. CallsKnow'
  BY <1>1, <1>2, <1>3, CallKept, NoCallKnows DEF CallsKnow
<1>7. ClicksKnow'
  <2> SUFFICES ASSUME NEW c \in Clicks PROVE ClickKnows(c)'
    BY DEF ClicksKnow
  <2>1. ClickKnows(c) /\ call'[c] = call[c] /\ call'[Balance] = call[Balance]
    BY <1>1, <1>2, CallTypes DEF ClicksKnow
  <2>2. OneUser /\ click[c].at \in {"refreshing", "success"} =>
          /\ (balance.valid => c \in balance.seen)'
          /\ (call[Balance].at = "ok" => c \in call[Balance].seen)'
    BY <2>1, <1>3 DEF ClickKnows
  <2> QED
    BY <1>1, <1>3, <1>4, <2>1, <2>2, ClickKept, ClosedKnows DEF IsSignedIn
<1> QED
  BY <1>4, <1>5, <1>6, <1>7 DEF Inv, SessionKnows, CallsKnow, ClicksKnow

LEMMA SettledTypes ==
  ASSUME NEW cs \in [Clicks -> ClickStates]
  PROVE  /\ Settled(cs) \in [Clicks -> ClickStates]
         /\ \A c \in Clicks :
              /\ Settled(cs)[c].kind = cs[c].kind /\ Settled(cs)[c].open = cs[c].open
              /\ Settled(cs)[c].at = IF cs[c].at = "refreshing"
                                     THEN IF cs[c].open THEN "success" ELSE "over"
                                     ELSE cs[c].at
<1>1. ASSUME NEW c \in Clicks
      PROVE  /\ Settled(cs)[c] \in ClickStates
             /\ Settled(cs)[c].kind = cs[c].kind /\ Settled(cs)[c].open = cs[c].open
             /\ Settled(cs)[c].at = IF cs[c].at = "refreshing"
                                    THEN IF cs[c].open THEN "success" ELSE "over"
                                    ELSE cs[c].at
  <2>1. cs[c] \in ClickStates
    OBVIOUS
  <2>2. CASE cs[c].at = "refreshing" /\ cs[c].open
    <3>1. Settled(cs)[c] = [cs[c] EXCEPT !.at = "success"]
      BY <2>2 DEF Settled, Ended
    <3> QED
      BY <2>1, <2>2, <3>1 DEF ClickStates
  <2>3. CASE cs[c].at = "refreshing" /\ ~cs[c].open
    <3>1. Settled(cs)[c] = [cs[c] EXCEPT !.at = "over"]
      BY <2>3 DEF Settled, Ended
    <3> QED
      BY <2>1, <2>3, <3>1 DEF ClickStates
  <2>4. CASE cs[c].at # "refreshing"
    BY <2>1, <2>4 DEF Settled
  <2> QED
    BY <2>2, <2>3, <2>4
<1>2. Settled(cs) = [c \in Clicks |-> Settled(cs)[c]]
  BY DEF Settled
<1> QED
  BY <1>1, <1>2

LEMMA ReceiveBalanceKeeps ==
  ASSUME Inv, ReceiveBalance
  PROVE  Inv'
<1> DEFINE n == Refetched
           d == DialogsAfter(Balance)
<1>1. TypeOK /\ SessionKnows /\ CallsKnow /\ ClicksKnow
  BY InvParts
<1>2. /\ Balance \in Calls /\ call \in [Calls -> CallStates]
      /\ call[Balance].left \in Int
  BY <1>1, CallTypes DEF TypeOK, CallStates
<1>3. \/ n = NoCall
      \/ /\ n \in CallStates /\ n.at = "sent" /\ n.token = auth.token /\ n.yes = FALSE
         /\ n.left >= 0 /\ IsSignedIn /\ call[Balance].at = "failed"
  <2>1. call[Balance].left - 1 \in Int
    BY <1>2
  <2>2. /\ SentWith(call[Balance].left - 1) \in CallStates
        /\ SentWith(call[Balance].left - 1).at = "sent"
        /\ SentWith(call[Balance].left - 1).token = auth.token
        /\ SentWith(call[Balance].left - 1).left = call[Balance].left - 1
        /\ SentWith(call[Balance].left - 1).yes = FALSE
    BY <1>1, <2>1, SentTypes
  <2>3. CASE call[Balance].at = "failed" /\ call[Balance].left > 0 /\ IsSignedIn
    BY <1>2, <2>2, <2>3 DEF Refetched
  <2>4. CASE ~(call[Balance].at = "failed" /\ call[Balance].left > 0 /\ IsSignedIn)
    BY <2>4 DEF Refetched
  <2> QED
    BY <2>3, <2>4
<1>4. n \in CallStates
  BY <1>3, CallTypes
<1>5. /\ call' \in [Calls -> CallStates] /\ call'[Balance] = n
      /\ \A j \in Calls : j # Balance => call'[j] = call[j]
  <2>1. Put(Balance, n)
    BY DEF ReceiveBalance
  <2> HIDE DEF n
  <2> QED
    BY <1>2, <1>4, <2>1, PutMoves
<1>6. /\ UNCHANGED <<kyc, issued, revoked, verified, paid, signedIn>>
      /\ Intercept(Balance)
      /\ click' = IF n = NoCall THEN Settled(d) ELSE click
      /\ balance' = IF Answered(Balance)
                    THEN [kept |-> TRUE, valid |-> TRUE, seen |-> call[Balance].seen]
                    ELSE balance
  BY DEF ReceiveBalance, server
<1>7. /\ auth' \in AuthStates /\ stored' = auth' /\ auth' \in {auth, SignedOut}
      /\ ~Unauthorized(Balance) => auth' = auth /\ d = click
      /\ d \in [Clicks -> ClickStates]
      /\ \A c \in Clicks : (d[c] = click[c] /\ auth' = auth) \/ d[c] = Closed[c]
      /\ \A c \in Clicks : d[c].kind = click[c].kind
  BY <1>1, <1>2, <1>6, InterceptMoves
<1> HIDE DEF n, d
<1>8. balance' \in KeptBalances
  BY <1>1, <1>2, <1>6 DEF TypeOK, KeptBalances, CallStates
<1>9. click' \in [Clicks -> ClickStates] /\ \A c \in Clicks : click'[c].kind = click[c].kind
  BY <1>1, <1>6, <1>7, SettledTypes DEF TypeOK
<1>10. TypeOK'
  BY <1>1, <1>5, <1>6, <1>7, <1>8, <1>9 DEF TypeOK
<1>11. SessionKnows'
  BY <1>1, <1>6, <1>7, SessionLess
<1>12. CallsKnow'
  <2> SUFFICES ASSUME NEW j \in Calls PROVE CallKnows(j)'
    BY DEF CallsKnow
  <2>1. CASE j # Balance
    BY <1>1, <1>5, <1>6, <2>1, CallKept DEF CallsKnow
  <2>2. CASE j = Balance /\ n = NoCall
    BY <1>5, <2>2, NoCallKnows
  <2>3. CASE j = Balance /\ n # NoCall
    <3>1. auth.token \in issued /\ TokenUser[auth.token] \in signedIn
      BY <1>1, <1>3, <2>3 DEF SessionKnows, UserOf, IsSignedIn
    <3> QED
      BY <1>3, <1>5, <1>6, <2>3, <3>1 DEF CallKnows
  <2> QED
    BY <2>1, <2>2, <2>3
<1>13. ClicksKnow'
  <2> SUFFICES ASSUME NEW c \in Clicks PROVE ClickKnows(c)'
    BY DEF ClicksKnow
  <2>1. ClickKnows(c) /\ call'[c] = call[c] /\ click[c] \in ClickStates
    BY <1>1, <1>5, CallTypes DEF ClicksKnow, TypeOK
  <2>2. OneUser /\ click[c].at \in {"refreshing", "success"} =>
          (balance'.valid => c \in balance'.seen)
    BY <2>1, <1>6 DEF ClickKnows, Answered
  <2>3. CASE n # NoCall
    <3>1. auth' = auth /\ click' = click /\ call'[Balance].at = "sent"
      BY <1>3, <1>5, <1>6, <1>7, <2>3 DEF Unauthorized
    <3> QED
      BY <2>1, <2>2, <3>1, <1>6, ClickKept DEF IsSignedIn
  <2>4. CASE n = NoCall
    <3>1. call'[Balance].at = "none"
      BY <2>4, <1>5 DEF NoCall
    <3>2. /\ click'[c].kind = click[c].kind /\ click'[c].open = d[c].open
          /\ click'[c].at = IF d[c].at = "refreshing"
                            THEN IF d[c].open THEN "success" ELSE "over" ELSE d[c].at
      BY <2>4, <1>6, <1>7, SettledTypes
    <3>3. \/ d[c] = click[c] /\ auth' = auth
          \/ /\ d[c].open = FALSE
             /\ d[c].at = IF click[c].at \in {"success", "error"} THEN "over" ELSE click[c].at
      BY <1>1, <1>7, ClosedTypes
    <3>4. click'[c].at = "unused" => click[c].at = "unused"
      BY <3>2, <3>3
    <3>5. click'[c].open => IsSignedIn'
      BY <2>1, <3>2, <3>3 DEF ClickKnows, IsSignedIn
    <3>6. click'[c].at = "success" => click'[c].open /\ click[c].at \in {"refreshing", "success"}
      BY <2>1, <3>2, <3>3 DEF ClickKnows
    <3>7. click'[c].at # "refreshing"
      BY <3>2
    <3>8. Remaining(c)' = Remaining(c) /\ (OneUser' <=> OneUser) /\ (IsPosted(c)' <=> IsPosted(c))
      BY <2>1, <1>6 DEF Remaining, OneUser, IsPosted
    <3> QED
      BY <2>1, <2>2, <3>1, <3>2, <3>4, <3>5, <3>6, <3>7, <3>8, <1>6 DEF ClickKnows
  <2> QED
    BY <2>3, <2>4
<1> QED
  BY <1>10, <1>11, <1>12, <1>13 DEF Inv, SessionKnows, CallsKnow, ClicksKnow

LEMMA EndedTypes ==
  ASSUME NEW k \in ClickStates, NEW outcome \in {"success", "error"}
  PROVE  /\ Ended(k, outcome) \in ClickStates
         /\ Ended(k, outcome).kind = k.kind /\ Ended(k, outcome).open = k.open
         /\ Ended(k, outcome).at = IF k.open THEN outcome ELSE "over"
<1>1. CASE k.open
  <2>1. Ended(k, outcome) = [k EXCEPT !.at = outcome]
    BY <1>1 DEF Ended
  <2> QED
    BY <1>1, <2>1 DEF ClickStates
<1>2. CASE ~k.open
  <2>1. Ended(k, outcome) = [k EXCEPT !.at = "over"]
    BY <1>2 DEF Ended
  <2> QED
    BY <1>2, <2>1 DEF ClickStates
<1> QED
  BY <1>1, <1>2

\* The answer that a posting has been done: the balance is known to be old, and
\* whatever fetch of it is under way for an open dialog is replaced.
LEMMA PostedKeeps ==
  ASSUME Inv, NEW c \in Clicks, Posted(c), UNCHANGED <<kyc, server, signedIn>>
  PROVE  Inv'
<1>1. TypeOK /\ SessionKnows /\ CallsKnow /\ ClicksKnow
  BY InvParts
<1>2. /\ c \in Calls /\ Balance \in Calls /\ c # Balance
      /\ call \in [Calls -> CallStates] /\ click \in [Clicks -> ClickStates]
      /\ ClickKnows(c) /\ CallKnows(c) /\ call[c].at = "ok" /\ call[c].left \in Nat
      /\ click[c].at # "unused" /\ IsPosted(c)
  <2>1. c \in Calls /\ Balance \in Calls /\ c # Balance
    BY CallTypes
  <2>2. call \in [Calls -> CallStates] /\ click \in [Clicks -> ClickStates]
        /\ ClickKnows(c) /\ CallKnows(c)
    BY <1>1, <2>1 DEF TypeOK, ClicksKnow, CallsKnow
  <2>3. call[c].at = "ok" /\ call[c].left \in Int
    BY <2>1, <2>2 DEF Posted, Answered, CallStates
  <2> QED
    BY <2>1, <2>2, <2>3 DEF CallKnows, ClickKnows
<1>3. /\ balance' \in KeptBalances /\ ~balance'.valid
      /\ UNCHANGED <<auth, stored, kyc, issued, revoked, verified, paid, signedIn>>
  BY <1>1 DEF Posted, KeepAuth, server, TypeOK, KeptBalances
<1>4. /\ call' \in [Calls -> CallStates] /\ call'[c] = NoCall
      /\ \A j \in Calls : j # c => call'[j] = call[j] \/ j = Balance
      /\ call'[Balance] # call[Balance] =>
           /\ IsSignedIn
           /\ call'[Balance].at = "sent" /\ call'[Balance].token = auth.token
           /\ call'[Balance].left >= 0 /\ call'[Balance].yes = FALSE
      /\ call'[Balance] = call[Balance] \/ call'[Balance].at = "sent"
  <2>1. NoCall \in CallStates
    BY CallTypes
  <2>2. CASE Put(c, NoCall)
    BY <1>2, <2>1, <2>2, PutMoves
  <2>3. CASE IsSignedIn /\ call' = [call EXCEPT ![c] = NoCall, ![Balance] = SentWith(QueryRetries)]
    <3>1. QueryRetries \in Int /\ QueryRetries >= 0
      BY CallTypes
    <3>2. /\ SentWith(QueryRetries) \in CallStates
          /\ SentWith(QueryRetries).at = "sent" /\ SentWith(QueryRetries).token = auth.token
          /\ SentWith(QueryRetries).left = QueryRetries /\ SentWith(QueryRetries).yes = FALSE
      BY <1>1, <3>1, SentTypes
    <3>3. /\ call' \in [Calls -> CallStates] /\ call'[c] = NoCall
          /\ call'[Balance] = SentWith(QueryRetries)
          /\ \A j \in Calls : j # c => call'[j] = call[j] \/ j = Balance
      BY <1>2, <2>1, <2>3, <3>2
    <3> QED
      BY <2>3, <3>1, <3>2, <3>3
  <2> QED
    BY <2>2, <2>3 DEF Posted
<1>5. /\ click' \in [Clicks -> ClickStates]
      /\ click'[c].kind = click[c].kind /\ click'[c].open = click[c].open
      /\ click'[c].at \in {"refreshing", "success", "over"}
      /\ click'[c].at = "success" => click[c].open
      /\ click'[c].at \in {"refreshing", "success"} => IsSignedIn /\ call'[Balance].at = "sent"
  <2>1. /\ Ended(click[c], "success") \in ClickStates
        /\ Ended(click[c], "success").kind = click[c].kind
        /\ Ended(click[c], "success").open = click[c].open
        /\ Ended(click[c], "success").at = IF click[c].open THEN "success" ELSE "over"
    BY <1>2, EndedTypes
  <2>2. CASE /\ IsSignedIn
             /\ call' = [call EXCEPT ![c] = NoCall, ![Balance] = SentWith(QueryRetries)]
             /\ click' = [Settled(click) EXCEPT ![c] = Refreshing(c)]
    <3>1. /\ Refreshing(c) \in ClickStates
          /\ Refreshing(c).kind = click[c].kind /\ Refreshing(c).open = click[c].open
          /\ Refreshing(c).at \in {"refreshing", "success", "over"}
          /\ Refreshing(c).at = "success" => click[c].open
      <4>1. CASE click[c].kind = "deposit"
        <5>1. Refreshing(c) = [click[c] EXCEPT !.at = "refreshing"] /\ click[c] \in ClickStates
          BY <1>2, <4>1 DEF Refreshing
        <5> QED
          BY <5>1 DEF ClickStates
      <4>2. CASE click[c].kind # "deposit"
        BY <2>1, <4>2 DEF Refreshing
      <4> QED
        BY <4>1, <4>2
    <3>2. Settled(click) \in [Clicks -> ClickStates]
      BY <1>2, SettledTypes
    <3>3. click' \in [Clicks -> ClickStates] /\ click'[c] = Refreshing(c)
      BY <2>2, <3>1, <3>2
    <3>4. call'[Balance].at = "sent"
      BY <1>2, <2>2 DEF SentWith, NoCall
    <3> QED
      BY <2>2, <3>1, <3>3, <3>4
  <2>3. CASE ~click[c].open /\ click' = [click EXCEPT ![c] = Ended(@, "success")]
    <3>1. click' \in [Clicks -> ClickStates] /\ click'[c] = Ended(click[c], "success")
      BY <1>2, <2>1, <2>3
    <3> QED
      BY <2>1, <2>3, <3>1
  <2> QED
    BY <2>2, <2>3 DEF Posted, Refetches
<1>6. \A e \in Clicks : e # c =>
        /\ click'[e].kind = click[e].kind /\ click'[e].open = click[e].open
        /\ \/ click'[e] = click[e]
           \/ click'[e].at = IF click[e].at = "refreshing"
                              THEN IF click[e].open THEN "success" ELSE "over"
                              ELSE click[e].at
  <2>1. CASE click' = [Settled(click) EXCEPT ![c] = Refreshing(c)]
    <3>1. Settled(click) \in [Clicks -> ClickStates]
      BY <1>2, SettledTypes
    <3>2. \A e \in Clicks : e # c => click'[e] = Settled(click)[e]
      BY <2>1, <3>1
    <3> QED
      BY <1>2, <3>2, SettledTypes
  <2>2. CASE click' = [click EXCEPT ![c] = Ended(@, "success")]
    BY <1>2, <2>2
  <2> QED
    BY <2>1, <2>2 DEF Posted
<1>7. TypeOK'
  <2>1. \A e \in Clicks : click'[e].kind = click[e].kind
    BY <1>5, <1>6
  <2> QED
    BY <1>1, <1>3, <1>4, <1>5, <2>1 DEF TypeOK
<1>8. SessionKnows'
  BY <1>1, <1>3 DEF SessionKnows, IsSignedIn, UserOf, OneUser
<1>9. CallsKnow'
  <2> SUFFICES ASSUME NEW j \in Calls PROVE CallKnows(j)'
    BY DEF CallsKnow
  <2>1. CASE j = c
    BY <1>4, <2>1, NoCallKnows
  <2>2. CASE j = Balance /\ call'[Balance] # call[Balance]
    <3>1. IsSignedIn => auth.token \in issued /\ TokenUser[auth.token] \in signedIn
      BY <1>1 DEF SessionKnows, UserOf, IsSignedIn
    <3> QED
      BY <1>3, <1>4, <2>2, <3>1 DEF CallKnows
  <2>3. CASE j # c /\ call'[j] = call[j]
    BY <1>1, <1>3, <2>3, CallKept DEF CallsKnow
  <2> QED
    BY <1>4, <2>1, <2>2, <2>3
<1>10. ClicksKnow'
  <2> SUFFICES ASSUME NEW e \in Clicks PROVE ClickKnows(e)'
    BY DEF ClicksKnow
  <2>1. (OneUser' <=> OneUser) /\ (IsSignedIn' <=> IsSignedIn)
        /\ (IsPosted(e)' <=> IsPosted(e)) /\ (IsPosted(c)' <=> IsPosted(c))
    BY <1>3 DEF OneUser, IsSignedIn, IsPosted
  <2>2. CASE e = c
    <3>1. Remaining(c)' = 0 /\ Remaining(c) = call[c].left /\ call'[c].at = "none"
      BY <1>2, <1>4 DEF Remaining, NoCall
    <3>2. \A u \in Users : paid'[u][c] + Remaining(c)' <= RetriesOf(click'[c].kind) + 1
      <4> TAKE u \in Users
      <4>1. paid[u][c] \in Nat /\ RetriesOf(click[c].kind) \in Nat
        BY <1>1, <1>2, CallTypes DEF TypeOK, ClickStates
      <4>2. paid[u][c] + call[c].left <= RetriesOf(click[c].kind) + 1
        BY <1>2, <3>1 DEF ClickKnows
      <4> QED
        BY <1>2, <1>3, <1>5, <3>1, <4>1, <4>2
    <3> QED
      BY <1>2, <1>3, <1>5, <2>1, <2>2, <3>1, <3>2 DEF ClickKnows
  <2>3. CASE e # c
    <3>1. e \in Calls /\ e # Balance /\ call'[e] = call[e] /\ ClickKnows(e)
      BY <1>1, <1>4, <2>3, CallTypes DEF ClicksKnow
    <3>2. Remaining(e)' = Remaining(e)
      BY <3>1 DEF Remaining
    <3>3. /\ click'[e].at = "unused" => click[e].at = "unused"
          /\ click'[e].at = "success" => click[e].open
          /\ click'[e].at \in {"refreshing", "success"} => click[e].at \in {"refreshing", "success"}
      BY <1>6, <2>3, <3>1 DEF ClickKnows
    <3>4. OneUser /\ click[e].at \in {"refreshing", "success"} /\ call'[Balance].at = "ok" =>
            e \in call'[Balance].seen
      BY <1>4, <3>1 DEF ClickKnows
    <3> QED
      BY <1>3, <1>6, <2>1, <2>3, <3>1, <3>2, <3>3, <3>4 DEF ClickKnows
  <2> QED
    BY <2>2, <2>3
<1> QED
  BY <1>7, <1>8, <1>9, <1>10 DEF Inv, SessionKnows, CallsKnow, ClicksKnow

\* The answer that it has not, or none in time: one call fewer is left.
LEMMA NotPostedKeeps ==
  ASSUME Inv, NEW c \in Clicks, NotPosted(c), UNCHANGED <<kyc, server, signedIn>>
  PROVE  Inv'
<1> DEFINE d == DialogsAfter(c)
<1>1. TypeOK /\ SessionKnows /\ CallsKnow /\ ClicksKnow
  BY InvParts
<1>2. /\ c \in Calls /\ Balance \in Calls /\ c # Balance
      /\ call \in [Calls -> CallStates] /\ ClickKnows(c)
      /\ call[c].at \in {"unauthorized", "failed"} /\ call[c].left \in Nat
      /\ click[c].at # "unused"
  <2>1. c \in Calls /\ Balance \in Calls /\ c # Balance
    BY CallTypes
  <2>2. call \in [Calls -> CallStates] /\ ClickKnows(c) /\ CallKnows(c)
    BY <1>1, <2>1 DEF TypeOK, ClicksKnow, CallsKnow
  <2>3. call[c].at \in {"unauthorized", "failed"} /\ call[c].left \in Int
    BY <2>1, <2>2 DEF NotPosted, HasAnswer, Answered, CallStates
  <2> QED
    BY <2>1, <2>2, <2>3 DEF CallKnows, ClickKnows
<1>3. /\ UNCHANGED <<kyc, balance, issued, revoked, verified, paid, signedIn>>
      /\ Intercept(c)
  BY DEF NotPosted, server
<1>4. /\ auth' \in AuthStates /\ stored' = auth' /\ auth' \in {auth, SignedOut}
      /\ d \in [Clicks -> ClickStates]
      /\ \A e \in Clicks : (d[e] = click[e] /\ auth' = auth) \/ d[e] = Closed[e]
      /\ \A e \in Clicks : d[e].kind = click[e].kind
  BY <1>1, <1>2, <1>3, InterceptMoves
<1>5. /\ call' \in [Calls -> CallStates]
      /\ \A j \in Calls : j # c => call'[j] = call[j]
      /\ call'[c].token = NoToken /\ call'[c].yes = FALSE /\ call'[c].left >= 0
      /\ call'[c].at \in {"none", "waiting"}
      /\ Remaining(c)' \in Nat /\ Remaining(c)' <= call[c].left
  <2>1. CASE MayRetry(c)
    <3> DEFINE n == [NoCall EXCEPT !.at = "waiting", !.left = call[c].left - 1]
    <3>1. call[c].left - 1 \in Int /\ call[c].left - 1 >= 0
      BY <1>2, <2>1 DEF MayRetry
    <3>2. NoCall \in CallStates /\ NoCall.token = NoToken /\ NoCall.yes = FALSE
      BY CallTypes DEF NoCall
    <3>3. n \in CallStates /\ n.at = "waiting" /\ n.token = NoToken /\ n.yes = FALSE
          /\ n.left = call[c].left - 1
      BY <3>1, <3>2 DEF CallStates
    <3>4. Put(c, n)
      BY <2>1 DEF NotPosted
    <3> HIDE DEF n
    <3>5. call' \in [Calls -> CallStates] /\ call'[c] = n /\ \A j \in Calls : j # c => call'[j] = call[j]
      BY <1>2, <3>3, <3>4, PutMoves
    <3>6. Remaining(c)' = (call[c].left - 1) + 1
      BY <3>3, <3>5 DEF Remaining
    <3> QED
      BY <1>2, <3>1, <3>3, <3>5, <3>6
  <2>2. CASE ~MayRetry(c)
    <3>1. Put(c, NoCall) /\ NoCall \in CallStates
      BY <2>2, CallTypes DEF NotPosted
    <3>2. call' \in [Calls -> CallStates] /\ call'[c] = NoCall
          /\ \A j \in Calls : j # c => call'[j] = call[j]
      BY <1>2, <3>1, PutMoves
    <3>3. Remaining(c)' = 0
      BY <3>2 DEF Remaining, NoCall
    <3> QED
      BY <1>2, <3>2, <3>3 DEF NoCall
  <2> QED
    BY <2>1, <2>2
<1>6. click' = d \/ click' = [d EXCEPT ![c] = Ended(@, "error")]
  BY DEF NotPosted
<1>7. /\ Ended(d[c], "error") \in ClickStates
      /\ Ended(d[c], "error").kind = d[c].kind /\ Ended(d[c], "error").open = d[c].open
      /\ Ended(d[c], "error").at = IF d[c].open THEN "error" ELSE "over"
  <2>1. d[c] \in ClickStates
    BY <1>4
  <2> HIDE DEF d
  <2> QED
    BY <2>1, EndedTypes
<1> HIDE DEF d
<1>8. /\ click' \in [Clicks -> ClickStates]
      /\ \A e \in Clicks :
           /\ click'[e].kind = click[e].kind /\ click'[e].open = d[e].open
           /\ click'[e].at = d[e].at \/ click'[e].at \in {"error", "over"}
  BY <1>4, <1>6, <1>7
<1>9. TypeOK'
  BY <1>1, <1>3, <1>4, <1>5, <1>8 DEF TypeOK
<1>10. SessionKnows'
  BY <1>1, <1>3, <1>4, SessionLess
<1>11. CallsKnow'
  <2> SUFFICES ASSUME NEW j \in Calls PROVE CallKnows(j)'
    BY DEF CallsKnow
  <2>1. CASE j = c
    BY <1>5, <2>1 DEF CallKnows
  <2>2. CASE j # c
    BY <1>1, <1>3, <1>5, <2>2, CallKept DEF CallsKnow
  <2> QED
    BY <2>1, <2>2
<1>12. ClicksKnow'
  <2> SUFFICES ASSUME NEW e \in Clicks PROVE ClickKnows(e)'
    BY DEF ClicksKnow
  <2>1. /\ ClickKnows(e) /\ call'[Balance] = call[Balance]
        /\ (OneUser' <=> OneUser) /\ (IsPosted(e)' <=> IsPosted(e))
    BY <1>1, <1>2, <1>3, <1>5 DEF ClicksKnow, OneUser, IsPosted
  <2>2. \/ d[e] = click[e] /\ auth' = auth
        \/ /\ d[e].open = FALSE
           /\ d[e].at = IF click[e].at \in {"success", "error"} THEN "over" ELSE click[e].at
    BY <1>1, <1>4, ClosedTypes
  <2>3. /\ click'[e].at = "unused" => click[e].at = "unused"
        /\ click'[e].open => IsSignedIn'
        /\ click'[e].at = "success" => click'[e].open
        /\ click'[e].at \in {"refreshing", "success"} => click[e].at \in {"refreshing", "success"}
    BY <1>8, <2>1, <2>2 DEF ClickKnows, IsSignedIn
  <2>4. click[e].at = "unused" => call'[e].at = "none"
    BY <1>2, <1>5, <2>1, CallTypes DEF ClickKnows
  <2>5. call'[e].at = "ok" => IsPosted(e)
    BY <1>5, <2>1, CallTypes DEF ClickKnows
  <2>6. \A u \in Users : paid'[u][e] + Remaining(e)' <= RetriesOf(click'[e].kind) + 1
    <3> TAKE u \in Users
    <3>1. paid[u][e] \in Nat /\ RetriesOf(click[e].kind) \in Nat
          /\ click'[e].kind = click[e].kind /\ paid' = paid
      BY <1>1, <1>3, <1>8, CallTypes DEF TypeOK, ClickStates
    <3>2. CASE e = c
      <4>1. Remaining(c) = call[c].left
        BY <1>2 DEF Remaining
      <4>2. paid[u][c] + call[c].left <= RetriesOf(click[c].kind) + 1
        BY <1>2, <4>1 DEF ClickKnows
      <4> QED
        BY <1>2, <1>5, <3>1, <3>2, <4>2
    <3>3. CASE e # c
      <4>1. Remaining(e)' = Remaining(e)
        BY <1>5, <3>3, CallTypes DEF Remaining
      <4> QED
        BY <2>1, <3>1, <4>1 DEF ClickKnows
    <3> QED
      BY <3>2, <3>3
  <2> QED
    BY <1>3, <2>1, <2>3, <2>4, <2>5, <2>6 DEF ClickKnows
<1> QED
  BY <1>9, <1>10, <1>11, <1>12 DEF Inv, SessionKnows, CallsKnow, ClicksKnow

-----------------------------------------------------------------------------
(* The theorems.                                                           *)

LEMMA NextKeeps == Inv /\ [Next]_vars => Inv'
<1> SUFFICES ASSUME Inv, [Next]_vars PROVE Inv'
  OBVIOUS
<1>1. CASE \E u \in Users : SignIn(u)
  BY <1>1, SignInKeeps
<1>2. CASE \E t \in Tokens : Revoke(t)
  BY <1>2, RevokeKeeps
<1>3. CASE SignOut \/ Reload
  BY <1>3, SignOutKeeps, ReloadKeeps
<1>4. CASE FetchStatus \/ FetchBalance \/ CollectGarbage
  BY <1>4, FetchStatusKeeps, FetchBalanceKeeps, CollectGarbageKeeps
<1>5. CASE SubmitBvn \/ CloseDialog
  BY <1>5, SubmitBvnKeeps, CloseDialogKeeps
<1>6. CASE \E c \in Clicks : FundWallet(c) \/ SendNow(c) \/ Retry(c)
  BY <1>6, ClickKeeps, RetryKeeps DEF FundWallet, SendNow, Kinds
<1>7. CASE \E k \in Calls : Handle(k) \/ Lose(k)
  BY <1>7, HandleKeeps, LoseKeeps
<1>8. CASE \E k \in Calls : Receive(k)
  BY <1>8, ReceiveStatusKeeps, ReceiveBalanceKeeps, ReceiveBvnKeeps, PostedKeeps, NotPostedKeeps
     DEF Receive, ReceivePosting
<1>9. CASE UNCHANGED vars
  <2>1. UNCHANGED <<auth, stored, kyc, balance, call, click, signedIn, issued, revoked, verified, paid>>
    BY <1>9 DEF vars, client, server
  <2>2. TypeOK' /\ SessionKnows'
    BY <2>1, InvParts DEF TypeOK, SessionKnows, IsSignedIn, UserOf, OneUser
  <2>3. CallsKnow'
    BY <2>1, InvParts, CallKept DEF CallsKnow
  <2>4. ClicksKnow'
    BY <2>1, InvParts DEF ClicksKnow, ClickKnows, Remaining, IsPosted, IsSignedIn, OneUser
  <2> QED
    BY <2>2, <2>3, <2>4 DEF Inv, SessionKnows, CallsKnow, ClicksKnow
<1> QED
  BY <1>1, <1>2, <1>3, <1>4, <1>5, <1>6, <1>7, <1>8, <1>9 DEF Next

\* The answers that are kept and those under way never know too little.
THEOREM Invariance == Spec => []Inv
  BY InitInv, NextKeeps, PTL DEF Spec

\* No click is posted more often than its mutation may call the server: a
\* transfer once, a deposit Retries + 1 times.
THEOREM PostedSeldom == Spec => []TypeOK
<1>1. Inv => TypeOK
  BY DEF Inv
<1> QED
  BY <1>1, Invariance, PTL

\* While one user has signed in since the page was loaded, nobody is shown as
\* verified in vain.
THEOREM NotVerifiedInVain == Spec => []VerifiedIsTrue
<1>1. Inv => VerifiedIsTrue
  BY DEF Inv, VerifiedIsTrue
<1> QED
  BY <1>1, Invariance, PTL

\* A click shown as successful has been posted, and no balance that passes for
\* current lacks it.
THEOREM SuccessShows == Spec => []PostedIsShown
<1>1. Inv => PostedIsShown
  BY DEF Inv, ClickKnows, IsPosted, PostedIsShown
<1> QED
  BY <1>1, Invariance, PTL

\* A session ends by signing out, with its token, or by an answer to a call of
\* another session.
THEOREM SessionStays == Spec => SessionKept
<1> DEFINE A == auth'.token # auth.token =>
       \/ \E u \in Users : SignIn(u)
       \/ SignOut
       \/ ~Valid(auth.token)
       \/ \E k \in Calls : call[k].at = "unauthorized" /\ call[k].token # auth.token
<1>1. Inv /\ [Next]_vars => [A]_vars
  <2> SUFFICES ASSUME Inv, Next PROVE A
    BY DEF vars, client, server
  <2>1. TypeOK /\ SessionKnows /\ CallsKnow
    BY InvParts
  <2>2. \A k \in Calls : Intercept(k) => A
    <3> SUFFICES ASSUME NEW k \in Calls, Intercept(k), auth'.token # auth.token
                 PROVE  ~Valid(auth.token) \/ (call[k].token # auth.token /\ call[k].at = "unauthorized")
      OBVIOUS
    <3>1. call[k].at = "unauthorized"
      BY DEF Intercept, Unauthorized, KeepAuth
    <3> QED
      BY <2>1, <3>1 DEF CallsKnow, CallKnows
  <2>3. CASE (\E u \in Users : SignIn(u)) \/ SignOut
    BY <2>3
  <2>4. CASE Reload
    BY <2>1, <2>4 DEF Reload, SessionKnows
  <2>5. CASE \/ \E t \in Tokens : Revoke(t)
             \/ FetchStatus \/ FetchBalance \/ CollectGarbage \/ SubmitBvn \/ CloseDialog
             \/ \E c \in Clicks : FundWallet(c) \/ SendNow(c) \/ Retry(c)
             \/ \E k \in Calls : Handle(k) \/ Lose(k)
    <3>1. auth' = auth
      BY <2>5 DEF Revoke, client, FetchStatus, FetchBalance, CollectGarbage, SubmitBvn, CloseDialog,
                  FundWallet, SendNow, Click, Retry, Handle, Lose
    <3> QED
      BY <3>1
  <2>6. CASE ReceiveStatus
    <3>1. Intercept(Status) \/ auth' = auth
          \/ auth' = [auth EXCEPT !.kycVerified = FlagFrom(IF call[Status].yes THEN "verified" ELSE "unverified", @)]
      BY <2>6 DEF ReceiveStatus, SetAuth, KeepAuth
    <3>2. auth.token = [auth EXCEPT !.kycVerified = FlagFrom(IF call[Status].yes THEN "verified" ELSE "unverified", @)].token
      BY <2>1 DEF TypeOK, AuthStates
    <3> HIDE DEF A
    <3>3. auth'.token = auth.token => A
      BY DEF A
    <3> QED
      BY <2>2, <3>1, <3>2, <3>3, CallTypes
  <2>7. CASE ReceiveBalance
    BY <2>2, <2>7, CallTypes DEF ReceiveBalance
  <2>8. CASE ReceiveBvn
    <3>1. Intercept(Bvn) \/ auth' = [auth EXCEPT !.kycVerified = TRUE]
      BY <2>8 DEF ReceiveBvn, SetAuth
    <3>2. auth.token = [auth EXCEPT !.kycVerified = TRUE].token
      BY <2>1 DEF TypeOK, AuthStates
    <3> QED
      BY <2>2, <3>1, <3>2, CallTypes
  <2>9. CASE \E c \in Clicks : ReceivePosting(c)
    <3>1. PICK c \in Clicks : ReceivePosting(c)
      BY <2>9
    <3>2. Intercept(c) \/ auth' = auth
      BY <3>1 DEF ReceivePosting, Posted, NotPosted, KeepAuth
    <3> QED
      BY <2>2, <3>2, CallTypes
  <2> QED
    BY <2>3, <2>4, <2>5, <2>6, <2>7, <2>8, <2>9 DEF Next, Receive
<1> QED
  BY <1>1, Invariance, PTL DEF Spec, SessionKept
=============================================================================
