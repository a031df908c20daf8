------------------------------ MODULE Sessions ------------------------------
(***************************************************************************)
(* Sessions: AuthService (modules/auth/auth.service.ts) over               *)
(* AuthRepository (auth.repository.ts), and the authenticate decorator of  *)
(* app.ts with its session cache in Redis.                                 *)
(*                                                                         *)
(* A request goes on at every await, so what it has read may be old when   *)
(* it acts on it.  A token is named by the row it was issued for: whoever  *)
(* holds it may present it at any time, and again after a lost answer.     *)
(***************************************************************************)
EXTENDS Integers, FiniteSets

CONSTANTS
  Users,
  Sessions, Owner,    \* session ids, each with the user it will be made for
  Tokens, TokenOwner, \* password reset tokens, likewise
  Requests,           \* concurrent requests
  NoSession, NoToken

ASSUME ConstantsAssumption ==
  /\ Users # {}
  /\ Requests # {} /\ IsFiniteSet(Requests)
  /\ Owner \in [Sessions -> Users]
  /\ TokenOwner \in [Tokens -> Users]
  /\ NoSession \notin Sessions
  /\ NoToken \notin Tokens

VARIABLES
  session,       \* Session.revokedAt and .expiresAt, "none" without a row
  replacedBy,    \* Session.replacedBySessionId
  reuseDetected, \* is Session.reuseDetectedAt set?
  cache,         \* the session stored under session:<userId>
  resetToken,    \* PasswordResetToken: "spent" once usedAt is set or expiresAt has passed
  request        \* where a request is and what it works on

rows == <<session, replacedBy, reuseDetected>>
vars == <<session, replacedBy, reuseDetected, cache, resetToken, request>>

Steps == {"idle", "createSession", "del", "find", "setex", "accepted",
          "rotate", "flag", "expire", "insert", "reset"}

\* outstanding: the tokens an uncommitted transaction has invalidated.
RequestStates == [at : Steps, user : Users, session : Sessions \cup {NoSession},
                  token : Tokens \cup {NoToken}, outstanding : SUBSET Tokens]

TypeOK ==
  /\ session \in [Sessions -> {"none", "live", "expired", "revoked"}]
  /\ replacedBy \in [Sessions -> Sessions \cup {NoSession}]
  /\ reuseDetected \in [Sessions -> BOOLEAN]
  /\ cache \in [Users -> Sessions \cup {NoSession}]
  /\ resetToken \in [Tokens -> {"none", "unused", "spent"}]
  /\ request \in [Requests -> RequestStates]

Idle == [at |-> "idle", user |-> CHOOSE u \in Users : TRUE, session |-> NoSession,
         token |-> NoToken, outstanding |-> {}]

Init ==
  /\ session = [s \in Sessions |-> "none"]
  /\ replacedBy = [s \in Sessions |-> NoSession]
  /\ reuseDetected = [s \in Sessions |-> FALSE]
  /\ cache = [u \in Users |-> NoSession]
  /\ resetToken = [t \in Tokens |-> "none"]
  /\ request = [q \in Requests |-> Idle]
-----------------------------------------------------------------------------
(* Control flow of a request.                                              *)

Goto(q, step) == request' = [request EXCEPT ![q].at = step]
Answer(q)     == request' = [request EXCEPT ![q] = Idle]

\* A request goes from one step to the first await of its handler, and acts as
\* far as the answer of the database or the cache to it.
Enter(q, from, step, u, s, t, outstanding) ==
  /\ request[q].at = from
  /\ request' = [request EXCEPT ![q] = [at |-> step, user |-> u, session |-> s,
                                        token |-> t, outstanding |-> outstanding]]
  /\ UNCHANGED <<rows, cache, resetToken>>

\* Before that a request that arrives depends on nothing that changes.
Arrive(q, step, u, s) == Enter(q, "idle", step, u, s, NoToken, {})

\* A statement fails, the client's connection ends or the process stops; the
\* transaction of the request, if any, is rolled back.
Fail(q) ==
  /\ request[q].at # "idle"
  /\ Answer(q)
  /\ UNCHANGED <<rows, cache, resetToken>>
-----------------------------------------------------------------------------
(* Rows.                                                                   *)

Exists(s)  == session[s] # "none"
Live(s)    == session[s] = "live"
Revoked(s) == session[s] = "revoked"

\* updateMany over S where revokedAt is null; the reason is not modelled.
Revoke(S) == [s \in Sessions |-> IF s \in S /\ Exists(s) THEN "revoked" ELSE session[s]]

SessionsOf(u) == {s \in Sessions : Owner[s] = u}
TokensOf(u)   == {t \in Tokens : TokenOwner[t] = u}

\* Ids are random: which of the unused ones is taken makes no difference.  The
\* sets bound how many rows a behaviour makes.
FreshSessions(u) == {s \in SessionsOf(u) : ~Exists(s)}
FreshTokens(u)   == {t \in TokensOf(u) : resetToken[t] = "none"}
NewSession(u)    == CHOOSE s \in FreshSessions(u) : TRUE
NewToken(u)      == CHOOSE t \in FreshTokens(u) : TRUE

\* expiresAt passes; of a revoked row nobody asks, and a cached copy
\* that expires is as good as gone (CacheEntryExpires).
SessionExpires(s) ==
  /\ Live(s)
  /\ session' = [session EXCEPT ![s] = "expired"]
  /\ UNCHANGED <<replacedBy, reuseDetected, cache, resetToken, request>>

TokenExpires(t) ==
  /\ resetToken[t] = "unused"
  /\ resetToken' = [resetToken EXCEPT ![t] = "spent"]
  /\ UNCHANGED <<rows, cache, request>>
-----------------------------------------------------------------------------
(* login, and the end of register: createSessionBundle.                    *)

\* The user is found and the password is right.
Login(q, u) == Arrive(q, "createSession", u, NoSession)

CreateSession(q) ==
  /\ request[q].at = "createSession"
  /\ FreshSessions(request[q].user) # {}
  /\ session' = [session EXCEPT ![NewSession(request[q].user)] = "live"]
  /\ Answer(q)
  /\ UNCHANGED <<replacedBy, reuseDetected, cache, resetToken>>
-----------------------------------------------------------------------------
(* authenticate, with an access token that has not expired.                *)

\* The entry is of this session, and its copy of expiresAt has not passed.
CacheHit(s) == cache[Owner[s]] = s /\ session[s] # "expired"

Authenticate(q, s) ==
  /\ Exists(s)
  /\ Arrive(q, IF CacheHit(s) THEN "accepted"
               ELSE IF cache[Owner[s]] = NoSession THEN "find" ELSE "del",
            Owner[s], s)

CacheDel(q) ==
  /\ request[q].at = "del"
  /\ cache' = [cache EXCEPT ![request[q].user] = NoSession]
  /\ Goto(q, "find")
  /\ UNCHANGED <<rows, resetToken>>

\* Mutant: the query leaves revokedAt out.
Unexpired(s) == session[s] \in {"live", "revoked"}

\* The where clause of the session query.
Valid(s) == Live(s)

FindSession(q) ==
  /\ request[q].at = "find"
  /\ IF Valid(request[q].session) THEN Goto(q, "setex") ELSE Answer(q)
  /\ UNCHANGED <<rows, cache, resetToken>>

CacheSet(q) ==
  /\ request[q].at = "setex"
  /\ cache' = [cache EXCEPT ![request[q].user] = request[q].session]
  /\ Goto(q, "accepted")
  /\ UNCHANGED <<rows, resetToken>>

\* Mutant: the entry is stored without a time to live.
Permanent(u) == FALSE

\* The entry's time to live: an hour from the setex, whatever reads it.
Perishable(u) == cache[u] # NoSession

CacheEntryExpires(u) ==
  /\ Perishable(u)
  /\ cache' = [cache EXCEPT ![u] = NoSession]
  /\ UNCHANGED <<rows, resetToken, request>>

\* The accepted request runs its handler; logout is the one that ends the
\* session.  None of them touches the cache.
Handle(q) ==
  /\ request[q].at = "accepted"
  /\ \/ UNCHANGED session
     \/ session' = Revoke({request[q].session})
  /\ Answer(q)
  /\ UNCHANGED <<replacedBy, reuseDetected, cache, resetToken>>
-----------------------------------------------------------------------------
(* refreshSession.                                                         *)

\* Mutant: a rotated or revoked session's token is taken once more.
ReuseIgnored(s) == IF session[s] = "expired" THEN "expire" ELSE "rotate"

\* What refreshSession does about the row it has read.
RefreshStep(s) ==
  IF Revoked(s) \/ replacedBy[s] # NoSession THEN "flag"
  ELSE IF session[s] = "expired" THEN "expire" ELSE "rotate"

\* The token is presented and findSessionByRefreshTokenHash reads its row.
Refresh(q, s) == Exists(s) /\ Arrive(q, RefreshStep(s), Owner[s], s)

\* Mutant: the replaced session is left as it was.
Superseded(s, next) == [session EXCEPT ![next] = "live"]

Rotated(s, next) == [session EXCEPT ![next] = "live", ![s] = "revoked"]

\* rotateSessionForUser: the update by id does not ask whether the session has
\* been revoked or replaced since it was read.
RotateSessionForUser(q) ==
  LET s == request[q].session
      next == NewSession(request[q].user)
  IN
  /\ request[q].at = "rotate"
  /\ FreshSessions(request[q].user) # {}
  /\ session' = Rotated(s, next)
  /\ replacedBy' = [replacedBy EXCEPT ![s] = next]
  /\ Answer(q)
  /\ UNCHANGED <<reuseDetected, cache, resetToken>>

FlagRefreshTokenReuse(q) ==
  LET s == request[q].session IN
  /\ request[q].at = "flag"
  /\ session' = Revoke(SessionsOf(request[q].user))
  /\ reuseDetected' = [reuseDetected EXCEPT ![s] = TRUE]
  /\ Answer(q)
  /\ UNCHANGED <<replacedBy, cache, resetToken>>

RevokeExpired(q) ==
  /\ request[q].at = "expire"
  /\ session' = Revoke({request[q].session})
  /\ Answer(q)
  /\ UNCHANGED <<replacedBy, reuseDetected, cache, resetToken>>
-----------------------------------------------------------------------------
(* forgotPassword and resetPassword.  Both are mounted behind authenticate;  *)
(* the user and the token are those of the body, whoever has signed in.     *)

\* Mutant: outstanding tokens are left alone.
NoneInvalidated(u) == {}

\* The tokens an updateMany of user u's tokens with usedAt null finds.
Outstanding(u) == {t \in TokensOf(u) : resetToken[t] = "unused"}

\* forgotPassword, as far as createPasswordResetToken's update, which finds the
\* tokens committed by now ...
ForgotPassword(q, u) ==
  Enter(q, "accepted", "insert", u, NoSession, NoToken, Outstanding(u))

\* ... and the insert ends the transaction.
CreatePasswordResetToken(q) ==
  /\ request[q].at = "insert"
  /\ FreshTokens(request[q].user) # {}
  /\ resetToken' = [t \in Tokens |-> IF t = NewToken(request[q].user) THEN "unused"
                                     ELSE IF t \in request[q].outstanding THEN "spent"
                                     ELSE resetToken[t]]
  /\ Answer(q)
  /\ UNCHANGED <<rows, cache>>

\* Mutant: findActiveUserByResetToken looks at expiresAt only.
UsableAgain(t) == resetToken[t] # "none"

Usable(t) == resetToken[t] = "unused"

\* resetPassword finds the token and hashes the new password: a slow await.
ResetPasswordRequested(q, t) ==
  Usable(t) /\ Enter(q, "accepted", "reset", TokenOwner[t], NoSession, t, {})

\* AuthRepository.resetPassword, one transaction; the token is marked whatever
\* has become of it.
ResetPassword(q) ==
  LET u == request[q].user IN
  /\ request[q].at = "reset"
  /\ resetToken' = [t \in Tokens |-> IF t \in Outstanding(u) \cup {request[q].token}
                                     THEN "spent" ELSE resetToken[t]]
  /\ session' = Revoke(SessionsOf(u))
  /\ Answer(q)
  /\ UNCHANGED <<replacedBy, reuseDetected, cache>>
-----------------------------------------------------------------------------
\* A request arrives, or passes authenticate and enters a handler of its own.
Start(q) ==
  \/ \E u \in Users : Login(q, u) \/ ForgotPassword(q, u)
  \/ \E s \in Sessions : Authenticate(q, s) \/ Refresh(q, s)
  \/ \E t \in Tokens : ResetPasswordRequested(q, t)

Proceed(q) ==
  \/ CreateSession(q)
  \/ CacheDel(q) \/ FindSession(q) \/ CacheSet(q) \/ Handle(q)
  \/ RotateSessionForUser(q)
  \/ FlagRefreshTokenReuse(q) \/ RevokeExpired(q)
  \/ CreatePasswordResetToken(q) \/ ResetPassword(q)

Next ==
  \/ \E q \in Requests : Start(q) \/ Proceed(q) \/ Fail(q)
  \/ \E s \in Sessions : SessionExpires(s)
  \/ \E t \in Tokens : TokenExpires(t)
  \/ \E u \in Users : CacheEntryExpires(u)

Spec == Init /\ [][Next]_vars

\* Every await of a request ends, with a result or an error, and Redis drops an
\* entry whose time to live is over.
Fairness ==
  /\ \A q \in Requests : WF_vars(Proceed(q) \/ Fail(q))
  /\ \A u \in Users : WF_vars(CacheEntryExpires(u))

FairSpec == Spec /\ Fairness
-----------------------------------------------------------------------------
(* Properties.                                                             *)

Sessionless == {"idle", "createSession", "insert", "reset"}

\* The outstanding tokens of a user can be laid at the door of different requests:
\* each request finds, and invalidates, what it has sent before.
SentApart ==
  \E by \in [Tokens -> Requests] :
    /\ \A u \in Users : \A s, t \in Outstanding(u) : by[s] = by[t] => s = t
    /\ \A q \in Requests : request[q].at = "insert" =>
         \A t \in Outstanding(request[q].user) : by[t] = q => t \in request[q].outstanding

\* A replaced session is revoked, and the cache holds rows of its user only.
Inv ==
  /\ TypeOK
  /\ \A s \in Sessions : replacedBy[s] # NoSession => Revoked(s)
  /\ \A u \in Users : cache[u] # NoSession => cache[u] \in SessionsOf(u) /\ Exists(cache[u])
  /\ \A q \in Requests :
       /\ request[q].session # NoSession =>
            Exists(request[q].session) /\ Owner[request[q].session] = request[q].user
       /\ request[q].at \notin Sessionless => request[q].session # NoSession
  /\ SentApart

\* No entry of the cache and no request under way still takes s for valid.
Drained(s) ==
  /\ cache[Owner[s]] # s
  /\ \A q \in Requests :
       request[q].session = s => request[q].at \notin {"setex", "accepted", "rotate"}

Over(s) == session[s] \in {"revoked", "expired"} /\ Drained(s)

\* A session that is revoked or expired, has left the cache and is in the hands
\* of no request under way is over for good: no stale copy brings it back, and
\* no request is accepted or rotated on it again.
OverStaysOver == [][\A s \in Sessions : Over(s) => Over(s)']_vars

\* When all sessions of a user are over, only a login signs the user in again:
\* no refresh, repeated or late, ends with a session that is live.
SignedOut(u) ==
  /\ \A s \in SessionsOf(u) : Exists(s) => Over(s)
  /\ \A q \in Requests : request[q].user = u => request[q].at # "createSession"

OnlyLoginSignsIn ==
  [][\A u \in Users :
       SignedOut(u) => SignedOut(u)' \/ \E q \in Requests : Login(q, u)]_vars

\* A reset token that has been used is of no more use once the requests that
\* found it before have ended.
Spent(t) ==
  resetToken[t] = "spent" /\ \A q \in Requests : request[q].token # t

SpentStaysSpent == [][\A t \in Tokens : Spent(t) => Spent(t)']_vars

\* Each request for a reset token invalidates those sent before: several are
\* outstanding only when as many requests have overlapped.
OutstandingBounded ==
  \A u \in Users :
    Cardinality({t \in TokensOf(u) : resetToken[t] = "unused"}) <= Cardinality(Requests)

\* The cache does not keep a revoked session for ever: reading an entry does
\* not prolong it, so that in the end the session is refused.
RevocationTakesEffect ==
  \A s \in Sessions : Revoked(s) ~> Over(s)
=============================================================================
