------------------------------- MODULE Client -------------------------------
(***************************************************************************)
(* Client: one tab of the web client (apps/web/src).  The session in the   *)
(* store (store/auth-slice.ts) and in localStorage, the answers the query  *)
(* client keeps (lib/query-client.ts), and the calls of the axios client   *)
(* (lib/api-client.ts) that are under way: three of the app shell, the     *)
(* wallet pages and the KYC page, and one for each click on "Fund wallet"  *)
(* or "Send now".                                                          *)
(* Whatever a call began with, its answer meets the state of that moment.  *)
(***************************************************************************)
EXTENDS Integers

CONSTANTS
  Users,
  Tokens, TokenUser, \* access tokens, each with the user it is issued to
  Clicks,            \* clicks that deposit or transfer, each with its mutation
  Retries,           \* the retry option of a deposit's mutation
  NoToken

Status  == "status"  \* GET  /kyc/status      (query)
Balance == "balance" \* GET  /wallet/balance  (query)
Bvn     == "bvn"     \* POST /kyc/bvn         (mutation)
Calls   == {Status, Balance, Bvn} \cup Clicks

ASSUME ConstantsAssumption ==
  /\ TokenUser \in [Tokens -> Users]
  /\ NoToken \notin Tokens
  /\ Retries \in Nat
  /\ Clicks \cap {Status, Balance, Bvn} = {}

VARIABLES
  auth,      \* the auth slice: token, and user.kycVerified
  stored,    \* localStorage["finx.session"]
  kyc,       \* the answer kept under ["kyc", "status"]
  balance,   \* the answer kept under ["wallet", "balance"]
  call,      \* the calls
  click,     \* what has become of a click; is its dialog open?
  issued, revoked, verified, \* the server: tokens, users,
  paid,      \* how often it has posted, for a user, what a click asks for
  signedIn   \* history: who has signed in since the page was loaded signed out

client == <<auth, stored, kyc, balance, call, click, signedIn>>
server == <<issued, revoked, verified, paid>>
vars   == <<client, server>>

AuthStates   == [token : Tokens \cup {NoToken}, kycVerified : BOOLEAN]
CallStates   == [at : {"none", "waiting", "sent", "ok", "unauthorized", "failed"},
                 token : Tokens \cup {NoToken}, left : Int,
                 yes : BOOLEAN, seen : SUBSET Clicks]
Kinds        == {"deposit", "transfer"}
ClickStates  == [kind : Kinds, at : {"unused", "pending", "refreshing", "success", "error", "over"},
                 open : BOOLEAN]
KeptBalances == [kept : BOOLEAN, valid : BOOLEAN, seen : SUBSET Clicks]

\* A transfer's mutation has the default of the query client.
RetriesOf(kind) == IF kind = "deposit" THEN Retries ELSE 0

\* No click is posted more often than its mutation may call the server: a
\* transfer at most once, although its request has no idempotency key.
TypeOK ==
  /\ auth \in AuthStates
  /\ stored \in AuthStates
  /\ kyc \in {"none", "verified", "unverified"}
  /\ balance \in KeptBalances
  /\ call \in [Calls -> CallStates]
  /\ click \in [Clicks -> ClickStates]
  /\ issued \subseteq Tokens
  /\ revoked \subseteq issued
  /\ verified \subseteq Users
  /\ paid \in [Users -> [Clicks -> Nat]]
  /\ \A u \in Users, c \in Clicks : paid[u][c] <= RetriesOf(click[c].kind) + 1
  /\ signedIn \subseteq Users

SignedOut   == [token |-> NoToken, kycVerified |-> FALSE]
NothingKept == [kept |-> FALSE, valid |-> FALSE, seen |-> {}]
NoCall      == [at |-> "none", token |-> NoToken, left |-> 0, yes |-> FALSE, seen |-> {}]

Init ==
  /\ auth = SignedOut
  /\ stored = SignedOut
  /\ kyc = "none"
  /\ balance = NothingKept
  /\ call = [k \in Calls |-> NoCall]
  /\ click = [c \in Clicks |-> [kind |-> "deposit", at |-> "unused", open |-> FALSE]]
  /\ issued = {} /\ revoked = {} /\ verified = {}
  /\ paid = [u \in Users |-> [c \in Clicks |-> 0]]
  /\ signedIn = {}

IsSignedIn == auth.token # NoToken
UserOf(a)  == IF a.token = NoToken THEN {} ELSE {TokenUser[a.token]}
-----------------------------------------------------------------------------
(* The session.                                                            *)

\* Every reducer but one that finds no user persists what it leaves.
SetAuth(a) == auth' = a /\ stored' = a
KeepAuth   == UNCHANGED <<auth, stored>>

\* The effect of the app shell, when it is mounted and when the answer is new.
FlagFrom(answer, flag) == IF answer = "none" THEN flag ELSE answer = "verified"

\* mutation.reset, or the loss of the dialog's page: what the mutation has come
\* to is forgotten, and one that is pending is left to itself.
Closed ==
  [c \in Clicks |->
     [click[c] EXCEPT !.at = IF @ \in {"success", "error"} THEN "over" ELSE @,
                      !.open = FALSE]]

\* Which of the tokens not yet issued is taken makes no difference.
FreshTokens(u) == {t \in Tokens : TokenUser[t] = u} \ issued
NewToken(u)    == CHOOSE t \in FreshTokens(u) : TRUE

\* onSuccess of login and register.  The user of the answer has no kycVerified;
\* the app shell is mounted and applies the status the query client has kept.
\* An answer that is lost only leaves a token that nobody has.
SignIn(u) ==
  LET t == NewToken(u) IN
  /\ ~IsSignedIn
  /\ FreshTokens(u) # {}
  /\ issued' = issued \cup {t}
  /\ SetAuth([token |-> t, kycVerified |-> FlagFrom(kyc, FALSE)])
  /\ signedIn' = signedIn \cup {u}
  /\ UNCHANGED <<kyc, balance, call, click, revoked, verified, paid>>

\* clearSession from the sidebar or the settings: the server is not told, and
\* the kept answers stay.
SignOut ==
  /\ IsSignedIn
  /\ SetAuth(SignedOut)
  /\ click' = Closed
  /\ UNCHANGED <<kyc, balance, call, server, signedIn>>

\* The store starts from localStorage, the query client empty; calls under way
\* are gone, whether the server has seen them or not.
Reload ==
  /\ auth' = stored
  /\ kyc' = "none"
  /\ balance' = NothingKept
  /\ call' = [k \in Calls |-> NoCall]
  /\ click' = [c \in Clicks |-> IF click[c].at = "unused" THEN click[c]
                                ELSE [click[c] EXCEPT !.at = "over", !.open = FALSE]]
  /\ signedIn' = IF stored.token = NoToken THEN {} ELSE signedIn
  /\ UNCHANGED <<stored, server>>
-----------------------------------------------------------------------------
(* Calls.                                                                  *)

SentWith(left) == [NoCall EXCEPT !.at = "sent", !.token = auth.token, !.left = left]
Put(k, c) == call' = [call EXCEPT ![k] = c]

QueryRetries == 1

Idle(k)    == call[k].at = "none"
Pending(c) == click[c].at \in {"pending", "refreshing"}

\* The app shell asks until it has an answer: staleTime is Infinity.
FetchStatus ==
  /\ IsSignedIn
  /\ kyc = "none"
  /\ Idle(Status)
  /\ Put(Status, SentWith(0))
  /\ UNCHANGED <<auth, stored, kyc, balance, click, server, signedIn>>

\* A page that shows the balance is mounted and finds none, or an invalid or an
\* old one.
FetchBalance ==
  /\ IsSignedIn
  /\ Idle(Balance)
  /\ Put(Balance, SentWith(QueryRetries))
  /\ UNCHANGED <<auth, stored, kyc, balance, click, server, signedIn>>

\* gcTime: answers no page uses are dropped after five minutes, by when a click
\* has come to its end (Retries + 1 calls of 20 s each).
CollectGarbage ==
  /\ ~IsSignedIn
  /\ \A c \in Clicks : ~Pending(c)
  /\ kyc' = "none" /\ balance' = NothingKept
  /\ <<kyc, balance>>' # <<kyc, balance>>
  /\ UNCHANGED <<auth, stored, call, click, server, signedIn>>

\* The KYC page, one submission at a time.
SubmitBvn ==
  /\ IsSignedIn
  /\ ~auth.kycVerified
  /\ Idle(Bvn)
  /\ Put(Bvn, SentWith(0))
  /\ UNCHANGED <<auth, stored, kyc, balance, click, server, signedIn>>

\* The dialogs belong to the dashboard, which has loaded the balance by then.
OpenDialog == IsSignedIn /\ balance.kept /\ \A d \in Clicks : ~click[d].open

Click(c, kind) ==
  /\ OpenDialog
  /\ click[c].at = "unused"
  /\ click' = [click EXCEPT ![c] = [kind |-> kind, at |-> "pending", open |-> TRUE]]
  /\ Put(c, SentWith(RetriesOf(kind)))
  /\ UNCHANGED <<auth, stored, kyc, balance, server, signedIn>>

FundWallet(c) == Click(c, "deposit")

\* handleSend, from the second dialog that handleReview opens.
SendNow(c) == Click(c, "transfer")

\* handleClose, "Fund again", "Send another", or another page: mutation.reset.
CloseDialog ==
  /\ click' = Closed
  /\ click' # click
  /\ UNCHANGED <<auth, stored, kyc, balance, call, server, signedIn>>

\* A mutation tries again after a while, whoever has signed in by then; each
\* call of walletApi.deposit makes a new idempotency key.
Retry(c) ==
  /\ call[c].at = "waiting"
  /\ Put(c, SentWith(call[c].left))
  /\ UNCHANGED <<auth, stored, kyc, balance, click, server, signedIn>>
-----------------------------------------------------------------------------
(* The server, as the client uses it.                                      *)

Valid(t) == t \in issued \ revoked

Revoke(t) ==
  /\ Valid(t)
  /\ revoked' = revoked \cup {t}
  /\ UNCHANGED <<client, issued, verified, paid>>

Done(k) == [NoCall EXCEPT !.at = "ok", !.left = call[k].left]

\* What the server does for user u, and answers.
ServeStatus(u) ==
  /\ Put(Status, [Done(Status) EXCEPT !.yes = u \in verified])
  /\ UNCHANGED <<verified, paid>>

PostedFor(u) == {c \in Clicks : paid[u][c] > 0}

ServeBalance(u) ==
  /\ Put(Balance, [Done(Balance) EXCEPT !.seen = PostedFor(u)])
  /\ UNCHANGED <<verified, paid>>

\* A number that is rejected is answered with an error: see Lose.
ServeBvn(u) ==
  /\ Put(Bvn, [Done(Bvn) EXCEPT !.yes = TRUE])
  /\ verified' = verified \cup {u}
  /\ UNCHANGED paid

\* Deposits and transfers need a verified user.
ServePosting(c, u) ==
  /\ u \in verified
  /\ Put(c, Done(c))
  /\ paid' = [paid EXCEPT ![u][c] = @ + 1]
  /\ UNCHANGED verified

Serve(k, u) ==
  \/ k = Status /\ ServeStatus(u)
  \/ k = Balance /\ ServeBalance(u)
  \/ k = Bvn /\ ServeBvn(u)
  \/ k \in Clicks /\ ServePosting(k, u)

Refuse(k) ==
  /\ Put(k, [call[k] EXCEPT !.at = "unauthorized"])
  /\ UNCHANGED <<verified, paid>>

\* authenticate goes before every handler.
Handle(k) ==
  /\ call[k].at = "sent"
  /\ IF Valid(call[k].token) THEN Serve(k, TokenUser[call[k].token]) ELSE Refuse(k)
  /\ UNCHANGED <<auth, stored, kyc, balance, click, issued, revoked, signedIn>>

\* Mutant: the axios client has no timeout.
Untimed(k) == FALSE

\* The call fails in the server, or it or its answer is lost or takes longer than
\* the timeout.
TimesOut(k) == call[k].at \in {"sent", "ok"}

Lose(k) ==
  /\ TimesOut(k)
  /\ Put(k, [Done(k) EXCEPT !.at = "failed"])
  /\ UNCHANGED <<auth, stored, kyc, balance, click, server, signedIn>>
-----------------------------------------------------------------------------
(* Answers.                                                                *)

\* Mutant: every error ends the session.
AnyError(k) == call[k].at # "ok"

Unauthorized(k) == call[k].at = "unauthorized"

\* The response interceptor: a 401 ends whatever session there is, and with it
\* the pages of the app.
Intercept(k)    == IF Unauthorized(k) THEN SetAuth(SignedOut) ELSE KeepAuth
DialogsAfter(k) == IF Unauthorized(k) THEN Closed ELSE click

HasAnswer(k) == call[k].at \in {"ok", "unauthorized", "failed"}
Answered(k)  == call[k].at = "ok"

\* A fetch that has failed is tried again while a page is there to use it.
Refetched ==
  IF call[Balance].at = "failed" /\ call[Balance].left > 0 /\ IsSignedIn
  THEN SentWith(call[Balance].left - 1) ELSE NoCall

ReceiveStatus ==
  LET answer == IF call[Status].yes THEN "verified" ELSE "unverified" IN
  /\ HasAnswer(Status)
  /\ IF Answered(Status)
     THEN /\ kyc' = answer
          /\ IF IsSignedIn THEN SetAuth([auth EXCEPT !.kycVerified = FlagFrom(answer, @)])
             ELSE KeepAuth
     ELSE Intercept(Status) /\ UNCHANGED kyc
  /\ Put(Status, NoCall)
  /\ click' = DialogsAfter(Status)
  /\ UNCHANGED <<balance, server, signedIn>>

\* onSuccess of a deposit returns the promise of the refetch it starts: its
\* mutation succeeds when that has ended, well or not.
Ended(k, outcome) == [k EXCEPT !.at = IF k.open THEN outcome ELSE "over"]

Settled(clicks) ==
  [c \in Clicks |-> IF clicks[c].at = "refreshing" THEN Ended(clicks[c], "success") ELSE clicks[c]]

ReceiveBalance ==
  /\ HasAnswer(Balance)
  /\ IF Answered(Balance)
     THEN balance' = [kept |-> TRUE, valid |-> TRUE, seen |-> call[Balance].seen]
     ELSE UNCHANGED balance
  /\ Intercept(Balance)
  /\ Put(Balance, Refetched)
  /\ click' = IF Refetched = NoCall THEN Settled(DialogsAfter(Balance)) ELSE click
  /\ UNCHANGED <<kyc, server, signedIn>>

\* Mutant: the KYC page does not look at the outcome.
Presumed(k) == TRUE

Succeeds(k) == Answered(k) /\ call[k].yes

ReceiveBvn ==
  /\ HasAnswer(Bvn)
  /\ IF IsSignedIn /\ Succeeds(Bvn) THEN SetAuth([auth EXCEPT !.kycVerified = TRUE])
     ELSE Intercept(Bvn)
  /\ Put(Bvn, NoCall)
  /\ click' = DialogsAfter(Bvn)
  /\ UNCHANGED <<kyc, balance, server, signedIn>>

\* Mutant: a fetch that is under way is taken for the refetch.
NeverCancels(c) == FALSE

\* onSuccess of a transfer does not wait for the refetch.
Refreshing(c) ==
  IF click[c].kind = "deposit" THEN [click[c] EXCEPT !.at = "refreshing"]
  ELSE Ended(click[c], "success")

\* invalidateQueries refetches what an open page uses, in place of a fetch that
\* may be under way; the page of an open dialog is open.
Refetches(c) == click[c].open

Posted(c) ==
  /\ Answered(c)
  /\ balance' = [balance EXCEPT !.valid = FALSE]
  /\ \/ /\ IsSignedIn
        /\ call' = [call EXCEPT ![c] = NoCall, ![Balance] = SentWith(QueryRetries)]
        /\ click' = [Settled(click) EXCEPT ![c] = Refreshing(c)]
     \/ /\ ~Refetches(c)
        /\ Put(c, NoCall)
        /\ click' = [click EXCEPT ![c] = Ended(@, "success")]
  /\ KeepAuth

\* Mutant: one call more.
MayRetryOnceMore(c) == call[c].left >= 0

MayRetry(c) == call[c].left > 0

NotPosted(c) ==
  /\ HasAnswer(c) /\ ~Answered(c)
  /\ Intercept(c)
  /\ IF MayRetry(c)
     THEN /\ Put(c, [NoCall EXCEPT !.at = "waiting", !.left = call[c].left - 1])
          /\ click' = DialogsAfter(c)
     ELSE /\ Put(c, NoCall)
          /\ click' = [DialogsAfter(c) EXCEPT ![c] = Ended(@, "error")]
  /\ UNCHANGED balance

ReceivePosting(c) ==
  /\ Posted(c) \/ NotPosted(c)
  /\ UNCHANGED <<kyc, server, signedIn>>
-----------------------------------------------------------------------------
Receive(k) ==
  \/ k = Status /\ ReceiveStatus
  \/ k = Balance /\ ReceiveBalance
  \/ k = Bvn /\ ReceiveBvn
  \/ k \in Clicks /\ ReceivePosting(k)

Next ==
  \/ \E u \in Users : SignIn(u)
  \/ \E t \in Tokens : Revoke(t)
  \/ SignOut \/ Reload
  \/ FetchStatus \/ FetchBalance \/ CollectGarbage
  \/ SubmitBvn \/ CloseDialog
  \/ \E c \in Clicks : FundWallet(c) \/ SendNow(c) \/ Retry(c)
  \/ \E k \in Calls : Handle(k) \/ Lose(k) \/ Receive(k)

Spec == Init /\ [][Next]_vars

\* The timeout ends every call, and the page gets to its callbacks and timers.
Fairness ==
  /\ \A k \in Calls : WF_vars(Lose(k)) /\ WF_vars(Receive(k))
  /\ \A c \in Clicks : WF_vars(Retry(c))

FairSpec == Spec /\ Fairness
-----------------------------------------------------------------------------
(* Properties.                                                             *)

\* The query client keeps its answers, and calls stay under way, when somebody
\* else signs in, and a flag set that way is persisted; what follows holds for one
\* user between two page loads without a session.
OneUser == \A u, v \in signedIn : u = v

\* Whom the answers under way are for, and what a positive one says.
CallKnows(k) ==
  /\ call[k].left >= 0
  /\ call[k].token # NoToken =>
       call[k].token \in issued /\ TokenUser[call[k].token] \in signedIn
  /\ call[k].at = "unauthorized" => ~Valid(call[k].token)
  /\ call[k].at = "ok" => signedIn # {}
  /\ call[k].yes => call[k].at = "ok" /\ (OneUser => signedIn \subseteq verified)

\* How often the server may still be asked for what a click asks for.
Remaining(c) ==
  CASE call[c].at = "none" -> 0
    [] call[c].at \in {"waiting", "sent"} -> call[c].left + 1
    [] OTHER -> call[c].left

IsPosted(c) == \E u \in signedIn : paid[u][c] > 0

\* The balance kept, and one that may still arrive, know of a click that has been
\* posted.
ClickKnows(c) ==
  /\ click[c].at = "unused" =>
       call[c].at = "none" /\ \A u \in Users : paid[u][c] = 0
  /\ \A u \in Users : paid[u][c] + Remaining(c) <= RetriesOf(click[c].kind) + 1
  /\ click[c].open => IsSignedIn
  /\ click[c].at = "success" => click[c].open
  /\ call[c].at = "ok" => IsPosted(c)
  /\ click[c].at \in {"refreshing", "success"} =>
       /\ IsPosted(c)
       /\ OneUser => /\ balance.valid => c \in balance.seen
                     /\ call[Balance].at = "ok" => c \in call[Balance].seen

\* The inductive invariant.
Inv ==
  /\ TypeOK
  /\ stored = auth
  /\ IsSignedIn => auth.token \in issued
  /\ UserOf(auth) \subseteq signedIn
  /\ kyc # "none" => signedIn # {}
  /\ OneUser => /\ auth.kycVerified => UserOf(auth) \subseteq verified
                /\ kyc = "verified" => signedIn \subseteq verified
  /\ \A k \in Calls : CallKnows(k)
  /\ \A c \in Clicks : ClickKnows(c)

\* "Identity verified" is shown only to a user the server has verified: no kept
\* status and no late answer of kyc/bvn says otherwise.
VerifiedIsTrue ==
  OneUser /\ auth.kycVerified => UserOf(auth) \subseteq verified

\* "Deposit successful" or "Transfer successful" means that it has been posted, and
\* that the balance beside it is known to be old or includes it: a balance that
\* was fetched too early does not pass for a current one.
PostedIsShown ==
  OneUser =>
    \A c \in Clicks : click[c].at = "success" =>
      /\ \E u \in signedIn : paid[u][c] > 0
      /\ balance.valid => c \in balance.seen

\* Only signing in starts a session, and a reload keeps it; it ends when the user
\* signs out or the server no longer takes its token, unless the answer to
\* a call of an earlier session comes in between.
SessionKept ==
  [][auth'.token # auth.token =>
       \/ \E u \in Users : SignIn(u)
       \/ SignOut
       \/ ~Valid(auth.token)
       \/ \E k \in Calls : call[k].at = "unauthorized" /\ call[k].token # auth.token]_vars

\* Every click is answered, whatever becomes of its calls.
ClicksAnswered ==
  \A c \in Clicks : Pending(c) ~> ~Pending(c)
=============================================================================
