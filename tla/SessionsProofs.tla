--------------------------- MODULE SessionsProofs ---------------------------
(***************************************************************************)
(* Theorems about Sessions for every set of users, sessions, tokens and    *)
(* concurrent requests: a session that is over stays over, and once all    *)
(* sessions of a user are over only a login makes another one; and no more  *)
(* reset tokens of a user are outstanding than requests can be under way.   *)
(***************************************************************************)
EXTENDS Sessions, FiniteSetTheorems, TLAPS

LEMMA IdleType == Idle \in RequestStates
  BY ConstantsAssumption DEF Idle, RequestStates, Steps

\* Ids taken for new rows have been unused.
LEMMA NewRows ==
  ASSUME NEW u \in Users
  PROVE  /\ FreshSessions(u) # {} => NewSession(u) \in SessionsOf(u) /\ ~Exists(NewSession(u))
         /\ FreshTokens(u) # {} => NewToken(u) \in TokensOf(u) /\ resetToken[NewToken(u)] = "none"
  BY DEF FreshSessions, NewSession, FreshTokens, NewToken

\* A request under way keeps to its user, and its session is one of the user's.
LEMMA UnderWay ==
  ASSUME Inv, NEW q \in Requests
  PROVE  /\ request[q] \in RequestStates
         /\ request[q].user \in Users
         /\ request[q].session # NoSession =>
              /\ request[q].session \in Sessions
              /\ Exists(request[q].session)
              /\ Owner[request[q].session] = request[q].user
         /\ request[q].at \notin Sessionless => request[q].session # NoSession
  BY DEF Inv, TypeOK, RequestStates

LEMMA InitInv == Init => Inv
  <1> SUFFICES ASSUME Init PROVE Inv
    OBVIOUS
  <1>1. request \in [Requests -> RequestStates]
    BY IdleType DEF Init
  <1>2. TypeOK
    BY <1>1 DEF Init, TypeOK
  <1>3. \A q \in Requests : request[q].session = NoSession /\ request[q].at = "idle"
    BY DEF Init, Idle
  <1>4. SentApart
    <2>1. Requests # {} /\ [t \in Tokens |-> CHOOSE q \in Requests : TRUE] \in [Tokens -> Requests]
      BY ConstantsAssumption
    <2>2. \A u \in Users : Outstanding(u) = {}
      BY DEF Init, Outstanding, TokensOf
    <2>3. QED
      BY <1>3, <2>1, <2>2 DEF SentApart
  <1>5. QED
    BY <1>2, <1>3, <1>4 DEF Init, Inv, Sessionless

\* What the steps of all requests have in common: they keep what a request
\* works on, end it, or let it arrive with a session that exists.
Same(q)    == /\ request'[q].user = request[q].user
              /\ request'[q].session = request[q].session
              /\ request[q].at \in Sessionless => request'[q].at \in Sessionless
Arrived(q) == /\ request[q].at \in {"idle", "accepted"}
              /\ request'[q].session # NoSession =>
                   /\ Exists(request'[q].session)
                   /\ Owner[request'[q].session] = request'[q].user
              /\ request'[q].at \notin Sessionless => request'[q].session # NoSession

\* A request under way ends, or goes on with the session it has.
LEMMA Moves ==
  ASSUME NEW q \in Requests, Proceed(q) \/ Fail(q)
  PROVE  \/ Answer(q)
         \/ Goto(q, "find") /\ request[q].at = "del"
         \/ Goto(q, "setex") /\ request[q].at = "find" /\ Live(request[q].session)
         \/ Goto(q, "accepted") /\ request[q].at = "setex"
  BY DEF Proceed, Fail, CreateSession, CacheDel, FindSession, CacheSet, Handle, Valid,
         RotateSessionForUser, FlagRefreshTokenReuse, RevokeExpired,
         CreatePasswordResetToken, ResetPassword

LEMMA RequestKept ==
  ASSUME Inv, Next
  PROVE  /\ request' \in [Requests -> RequestStates]
         /\ \A q \in Requests : request'[q] = Idle \/ Same(q) \/ Arrived(q)
  <1> USE ConstantsAssumption, IdleType, UnderWay
  <1>1. ASSUME NEW q \in Requests, Start(q)
        PROVE  /\ request' \in [Requests -> RequestStates]
               /\ \A o \in Requests : Same(o) \/ Arrived(o)
    <2>1. ASSUME NEW u \in Users, Login(q, u) \/ ForgotPassword(q, u)
          PROVE  /\ request' \in [Requests -> RequestStates]
                 /\ \A o \in Requests : Same(o) \/ Arrived(o)
      BY <2>1 DEF Login, ForgotPassword, Enter, Arrive, Outstanding, TokensOf, RequestStates, Steps,
                  Inv, TypeOK, Same, Arrived, Sessionless
    <2>2. ASSUME NEW s \in Sessions, Authenticate(q, s) \/ Refresh(q, s)
          PROVE  /\ request' \in [Requests -> RequestStates]
                 /\ \A o \in Requests : Same(o) \/ Arrived(o)
      <3>1. PICK step \in Steps : Exists(s) /\ Arrive(q, step, Owner[s], s)
        BY <2>2 DEF Authenticate, Refresh, RefreshStep, Steps
      <3>2. QED
        BY <3>1 DEF Enter, Arrive, RequestStates, Inv, TypeOK, Same, Arrived
    <2>3. ASSUME NEW t \in Tokens, ResetPasswordRequested(q, t)
          PROVE  /\ request' \in [Requests -> RequestStates]
                 /\ \A o \in Requests : Same(o) \/ Arrived(o)
      BY <2>3 DEF ResetPasswordRequested, Enter, Arrive, RequestStates, Steps, Inv, TypeOK, Same, Arrived,
                  Sessionless
    <2>4. QED
      BY <1>1, <2>1, <2>2, <2>3 DEF Start
  <1>2. ASSUME NEW q \in Requests, Proceed(q) \/ Fail(q)
        PROVE  /\ request' \in [Requests -> RequestStates]
               /\ \A o \in Requests : request'[o] = Idle \/ Same(o)
    <2>1. CASE Answer(q)
      BY <2>1 DEF Answer, Inv, TypeOK, Same
    <2>2. ASSUME NEW step \in Steps, Goto(q, step), request[q].at \notin Sessionless
          PROVE  /\ request' \in [Requests -> RequestStates]
                 /\ \A o \in Requests : Same(o)
      BY <2>2 DEF Goto, RequestStates, Inv, TypeOK, Same
    <2>3. QED
      BY <1>2, <2>1, <2>2, Moves DEF Sessionless, Steps
  <1>5. CASE UNCHANGED request
    BY <1>5 DEF Inv, TypeOK, Same
  <1>6. QED
    BY <1>1, <1>2, <1>5 DEF Next, SessionExpires, TokenExpires, CacheEntryExpires

\* Sessions only go on: none is unmade, and none that is over becomes live.
Onward(s) ==
  /\ Exists(s) => session'[s] # "none"
  /\ Revoked(s) => session'[s] = "revoked"
  /\ session[s] = "expired" => session'[s] \in {"expired", "revoked"}

LEMMA SessionsGoOn ==
  ASSUME Inv, Next
  PROVE  /\ session' \in [Sessions -> {"none", "live", "expired", "revoked"}]
         /\ \A s \in Sessions : Onward(s)
  <1> USE ConstantsAssumption, UnderWay DEF Onward, Exists, Revoked, Live
  <1>1. ASSUME NEW q \in Requests, CreateSession(q)
        PROVE  /\ session' \in [Sessions -> {"none", "live", "expired", "revoked"}]
               /\ \A s \in Sessions : Onward(s)
    BY <1>1, NewRows DEF CreateSession, SessionsOf, Inv, TypeOK
  <1>2. ASSUME NEW q \in Requests, RotateSessionForUser(q)
        PROVE  /\ session' \in [Sessions -> {"none", "live", "expired", "revoked"}]
               /\ \A s \in Sessions : Onward(s)
    <2>1. NewSession(request[q].user) \in Sessions /\ session[NewSession(request[q].user)] = "none"
      BY <1>2, NewRows DEF RotateSessionForUser, SessionsOf
    <2>2. session' = [session EXCEPT ![NewSession(request[q].user)] = "live",
                                     ![request[q].session] = "revoked"]
      BY <1>2 DEF RotateSessionForUser, Rotated
    <2>3. request[q].session \in Sessions
      BY <1>2 DEF RotateSessionForUser, Sessionless
    <2>4. session[request[q].session] # "none"
      BY <1>2, <2>3
    <2>5. QED
      BY <2>1, <2>2, <2>3, <2>4 DEF Inv, TypeOK
  <1>3. ASSUME NEW S, session' = Revoke(S)
        PROVE  /\ session' \in [Sessions -> {"none", "live", "expired", "revoked"}]
               /\ \A s \in Sessions : Onward(s)
    BY <1>3 DEF Revoke, Inv, TypeOK
  <1>4. CASE UNCHANGED session
    BY <1>4 DEF Inv, TypeOK
  <1>5. ASSUME NEW q \in Requests, Handle(q)
        PROVE  UNCHANGED session \/ \E S : session' = Revoke(S)
    BY <1>5 DEF Handle
  <1>6. ASSUME NEW q \in Requests, FlagRefreshTokenReuse(q) \/ RevokeExpired(q) \/ ResetPassword(q)
        PROVE  \E S : session' = Revoke(S)
    BY <1>6 DEF FlagRefreshTokenReuse, RevokeExpired, ResetPassword
  <1>7. ASSUME NEW q \in Requests, Start(q) \/ Fail(q) \/ CacheDel(q) \/ FindSession(q) \/ CacheSet(q)
                                   \/ CreatePasswordResetToken(q)
        PROVE  UNCHANGED session
    BY <1>7 DEF Start, Login, ForgotPassword, Authenticate, Refresh, ResetPasswordRequested, Enter, Arrive,
                Fail, CacheDel, FindSession, CacheSet, CreatePasswordResetToken, rows
  <1>8. ASSUME NEW s \in Sessions, SessionExpires(s)
        PROVE  /\ session' \in [Sessions -> {"none", "live", "expired", "revoked"}]
               /\ \A o \in Sessions : Onward(o)
    BY <1>8 DEF SessionExpires, Inv, TypeOK
  <1>9. ASSUME (\E t \in Tokens : TokenExpires(t)) \/ (\E u \in Users : CacheEntryExpires(u))
        PROVE  UNCHANGED session
    BY <1>9 DEF TokenExpires, CacheEntryExpires, rows
  <1>10. QED
    BY <1>1, <1>2, <1>3, <1>4, <1>5, <1>6, <1>7, <1>8, <1>9 DEF Next, Proceed

\* The other variables keep their types.
LEMMA TypesKept ==
  ASSUME Inv, Next
  PROVE  /\ replacedBy' \in [Sessions -> Sessions \cup {NoSession}]
         /\ reuseDetected' \in [Sessions -> BOOLEAN]
         /\ cache' \in [Users -> Sessions \cup {NoSession}]
         /\ resetToken' \in [Tokens -> {"none", "unused", "spent"}]
  <1> USE UnderWay, NewRows
  <1>1. ASSUME NEW q \in Requests, Proceed(q)
        PROVE  /\ replacedBy' \in [Sessions -> Sessions \cup {NoSession}]
               /\ reuseDetected' \in [Sessions -> BOOLEAN]
               /\ cache' \in [Users -> Sessions \cup {NoSession}]
               /\ resetToken' \in [Tokens -> {"none", "unused", "spent"}]
    <2>1. CASE RotateSessionForUser(q)
      BY <2>1 DEF RotateSessionForUser, SessionsOf, Inv, TypeOK
    <2>2. CASE CacheDel(q) \/ CacheSet(q)
      BY <2>2 DEF CacheDel, CacheSet, rows, Inv, TypeOK
    <2>3. CASE CreatePasswordResetToken(q) \/ ResetPassword(q)
      BY <2>3 DEF CreatePasswordResetToken, ResetPassword, rows, Inv, TypeOK
    <2>4. CASE FlagRefreshTokenReuse(q)
      BY <2>4 DEF FlagRefreshTokenReuse, Inv, TypeOK
    <2>5. CASE CreateSession(q) \/ FindSession(q) \/ Handle(q) \/ RevokeExpired(q)
      BY <2>5 DEF CreateSession, FindSession, Handle, RevokeExpired, rows, Inv, TypeOK
    <2>6. QED
      BY <1>1, <2>1, <2>2, <2>3, <2>4, <2>5 DEF Proceed
  <1>2. ASSUME NEW q \in Requests, Start(q) \/ Fail(q)
        PROVE  UNCHANGED <<replacedBy, reuseDetected, cache, resetToken>>
    BY <1>2 DEF Start, Login, ForgotPassword, Authenticate, Refresh, ResetPasswordRequested, Enter, Arrive,
                Fail, rows
  <1>3. ASSUME NEW t \in Tokens, TokenExpires(t)
        PROVE  /\ UNCHANGED <<replacedBy, reuseDetected, cache>>
               /\ resetToken' \in [Tokens -> {"none", "unused", "spent"}]
    BY <1>3 DEF TokenExpires, rows, Inv, TypeOK
  <1>4. ASSUME NEW u \in Users, CacheEntryExpires(u)
        PROVE  /\ UNCHANGED <<replacedBy, reuseDetected, resetToken>>
               /\ cache' \in [Users -> Sessions \cup {NoSession}]
    BY <1>4 DEF CacheEntryExpires, rows, Inv, TypeOK
  <1>5. QED
    BY <1>1, <1>2, <1>3, <1>4 DEF Next, SessionExpires, Inv, TypeOK

\* A session is replaced by the step that revokes it.
LEMMA ReplacedKept ==
  ASSUME Inv, Next, NEW s \in Sessions, replacedBy'[s] # NoSession
  PROVE  session'[s] = "revoked"
  <1> USE UnderWay, NewRows
  <1>1. ASSUME NEW q \in Requests, RotateSessionForUser(q), request[q].session = s
        PROVE  session'[s] = "revoked"
    <2>1. s # NewSession(request[q].user)
      BY <1>1, ConstantsAssumption DEF RotateSessionForUser
    <2>2. QED
      BY <1>1, <2>1 DEF RotateSessionForUser, Rotated, Inv, TypeOK
  <1>2. CASE replacedBy'[s] = replacedBy[s]
    BY <1>2, SessionsGoOn DEF Inv, Onward
  <1>3. ASSUME NEW q \in Requests, Proceed(q), ~RotateSessionForUser(q)
        PROVE  UNCHANGED replacedBy
    BY <1>3 DEF Proceed, CreateSession, CacheDel, FindSession, CacheSet, Handle,
                FlagRefreshTokenReuse, RevokeExpired, CreatePasswordResetToken, ResetPassword, rows
  <1>4. ASSUME NEW q \in Requests, Start(q) \/ Fail(q)
        PROVE  UNCHANGED replacedBy
    BY <1>4 DEF Start, Login, ForgotPassword, Authenticate, Refresh, ResetPasswordRequested, Enter, Arrive,
                Fail, rows
  <1>5. ASSUME NEW q \in Requests, RotateSessionForUser(q), request[q].session # s
        PROVE  replacedBy'[s] = replacedBy[s]
    BY <1>5 DEF RotateSessionForUser, Inv, TypeOK
  <1>6. QED
    BY <1>1, <1>2, <1>3, <1>4, <1>5
    DEF Next, SessionExpires, TokenExpires, CacheEntryExpires, rows

\* What the cache gets is the session of a request under way.
LEMMA CacheKept ==
  ASSUME Inv, Next, NEW u \in Users, cache'[u] # NoSession
  PROVE  \/ cache'[u] = cache[u]
         \/ \E q \in Requests :
              request[q].at = "setex" /\ request[q].user = u /\ cache'[u] = request[q].session
  <1> USE UnderWay
  <1>1. ASSUME NEW q \in Requests, Proceed(q)
        PROVE  \/ cache'[u] = cache[u]
               \/ request[q].at = "setex" /\ request[q].user = u /\ cache'[u] = request[q].session
    <2>1. CASE CacheSet(q)
      BY <2>1 DEF CacheSet, Inv, TypeOK
    <2>2. CASE CacheDel(q)
      BY <2>2 DEF CacheDel, Inv, TypeOK
    <2>3. CASE ~CacheSet(q) /\ ~CacheDel(q)
      BY <1>1, <2>3 DEF Proceed, CreateSession, FindSession, Handle, RotateSessionForUser,
          FlagRefreshTokenReuse, RevokeExpired, CreatePasswordResetToken, ResetPassword
    <2>4. QED
      BY <2>1, <2>2, <2>3
  <1>2. ASSUME NEW q \in Requests, Start(q) \/ Fail(q)
        PROVE  UNCHANGED cache
    BY <1>2 DEF Start, Login, ForgotPassword, Authenticate, Refresh, ResetPasswordRequested, Enter, Arrive, Fail
  <1>3. ASSUME NEW o \in Users, CacheEntryExpires(o)
        PROVE  cache'[u] = cache[u]
    BY <1>3 DEF CacheEntryExpires, Inv, TypeOK
  <1>4. QED
    BY <1>1, <1>2, <1>3 DEF Next, SessionExpires, TokenExpires

LEMMA OneRequestMoves ==
  ASSUME Inv, NEW q \in Requests, Start(q) \/ Proceed(q) \/ Fail(q), NEW o \in Requests, o # q
  PROVE  request'[o] = request[o]
  <1>1. CASE Start(q)
    BY <1>1 DEF Start, Login, ForgotPassword, Authenticate, Refresh, ResetPasswordRequested, Enter, Arrive,
                Inv, TypeOK
  <1>2. CASE Proceed(q) \/ Fail(q)
    BY <1>2, Moves DEF Goto, Answer, Inv, TypeOK
  <1>3. QED
    BY <1>1, <1>2

\* A request comes before the insert of a token by finding all tokens outstanding.
LEMMA InsertsArrive ==
  ASSUME Inv, Next, NEW q \in Requests, request'[q].at = "insert"
  PROVE  \/ request'[q] = request[q]
         \/ /\ UNCHANGED resetToken
            /\ request'[q].outstanding = Outstanding(request'[q].user)
  <1> USE ConstantsAssumption
  <1>1. ASSUME NEW o \in Requests, Proceed(o) \/ Fail(o) PROVE request'[q] = request[q]
    BY <1>1, Moves, OneRequestMoves DEF Goto, Answer, Idle, Inv, TypeOK, RequestStates
  <1>2. ASSUME NEW o \in Requests, Start(o), o # q PROVE request'[q] = request[q]
    BY <1>2, OneRequestMoves
  <1>3. ASSUME Start(q)
        PROVE  UNCHANGED resetToken /\ request'[q].outstanding = Outstanding(request'[q].user)
    <2>1. ASSUME NEW u \in Users, ForgotPassword(q, u)
          PROVE  UNCHANGED resetToken /\ request'[q].outstanding = Outstanding(request'[q].user)
      BY <2>1 DEF ForgotPassword, Enter, Inv, TypeOK
    <2>2. ASSUME NEW u \in Users, Login(q, u) PROVE FALSE
      BY <2>2 DEF Login, Enter, Arrive, Inv, TypeOK
    <2>3. ASSUME NEW s \in Sessions, Authenticate(q, s) \/ Refresh(q, s) PROVE FALSE
      BY <2>3 DEF Authenticate, Refresh, RefreshStep, Enter, Arrive, Inv, TypeOK
    <2>4. ASSUME NEW t \in Tokens, ResetPasswordRequested(q, t) PROVE FALSE
      BY <2>4 DEF ResetPasswordRequested, Enter, Arrive, Inv, TypeOK
    <2>5. QED
      BY <1>3, <2>1, <2>2, <2>3, <2>4 DEF Start
  <1>4. QED
    BY <1>1, <1>2, <1>3 DEF Next, SessionExpires, TokenExpires, CacheEntryExpires

\* Only the insert makes a token that can be used.
LEMMA TokensInserted ==
  ASSUME Inv, Next
  PROVE  \/ \A t \in Tokens : resetToken'[t] = "unused" => resetToken[t] = "unused"
         \/ \E q \in Requests : CreatePasswordResetToken(q)
  <1>1. ASSUME NEW q \in Requests, Start(q) \/ Fail(q) PROVE UNCHANGED resetToken
    BY <1>1 DEF Start, Login, ForgotPassword, Authenticate, Refresh, ResetPasswordRequested,
                Enter, Arrive, Fail
  <1>2. ASSUME NEW q \in Requests, Proceed(q), ~CreatePasswordResetToken(q), ~ResetPassword(q)
        PROVE  UNCHANGED resetToken
    BY <1>2 DEF Proceed, CreateSession, CacheDel, FindSession, CacheSet, Handle,
                RotateSessionForUser, FlagRefreshTokenReuse, RevokeExpired
  <1>3. ASSUME NEW q \in Requests, ResetPassword(q), NEW t \in Tokens, resetToken'[t] = "unused"
        PROVE  resetToken[t] = "unused"
    BY <1>3 DEF ResetPassword
  <1>4. ASSUME NEW o \in Tokens, TokenExpires(o), NEW t \in Tokens, resetToken'[t] = "unused"
        PROVE  resetToken[t] = "unused"
    BY <1>4 DEF TokenExpires, Inv, TypeOK
  <1>5. QED
    BY <1>1, <1>2, <1>3, <1>4 DEF Next, SessionExpires, CacheEntryExpires

\* The tokens outstanding stay those of different requests: an insert adds one
\* of the request that has invalidated its own.
LEMMA SentStep == ASSUME Inv, Next PROVE SentApart'
  <1>1. PICK by \in [Tokens -> Requests] :
          /\ \A u \in Users : \A s, t \in Outstanding(u) : by[s] = by[t] => s = t
          /\ \A q \in Requests : request[q].at = "insert" =>
               \A t \in Outstanding(request[q].user) : by[t] = q => t \in request[q].outstanding
    BY DEF Inv, SentApart
  <1>2. \A t \in Tokens, u \in Users :
          /\ t \in Outstanding(u) <=> TokenOwner[t] = u /\ resetToken[t] = "unused"
          /\ t \in Outstanding(u)' <=> TokenOwner[t] = u /\ resetToken'[t] = "unused"
    BY DEF Outstanding, TokensOf
  <1>3. \A u \in Users : Outstanding(u) \subseteq Tokens /\ Outstanding(u)' \subseteq Tokens
    BY DEF Outstanding, TokensOf
  <1>4. \A q \in Requests : request[q].user \in Users /\ request'[q].user \in Users
    BY UnderWay, RequestKept DEF RequestStates
  <1>5. CASE \A t \in Tokens : resetToken'[t] = "unused" => resetToken[t] = "unused"
    <2>1. \A u \in Users : Outstanding(u)' \subseteq Outstanding(u)
      BY <1>2, <1>3, <1>5
    <2>2. ASSUME NEW q \in Requests, request'[q].at = "insert",
                 NEW t \in Outstanding(request[q].user)', by[t] = q
          PROVE  t \in request'[q].outstanding
      <3>1. CASE request'[q] = request[q]
        BY <1>1, <1>4, <2>1, <2>2, <3>1
      <3>2. CASE UNCHANGED resetToken /\ request'[q].outstanding = Outstanding(request'[q].user)
        BY <2>2, <3>2 DEF Outstanding
      <3>3. QED
        BY <2>2, <3>1, <3>2, InsertsArrive
    <2>3. QED
      BY <1>1, <2>1, <2>2 DEF SentApart
  <1>6. ASSUME NEW q \in Requests, CreatePasswordResetToken(q) PROVE SentApart'
    <2>0. NewToken(request[q].user) \in TokensOf(request[q].user)
      BY <1>4, <1>6, NewRows DEF CreatePasswordResetToken
    <2>1. PICK u \in Users, n \in Tokens :
            u = request[q].user /\ n = NewToken(request[q].user) /\ TokenOwner[n] = u
      BY <1>4, <2>0 DEF TokensOf
    <2> DEFINE sent == [by EXCEPT ![n] = q]
    <2>2. sent \in [Tokens -> Requests] /\ sent[n] = q /\ \A t \in Tokens : t # n => sent[t] = by[t]
      BY <2>1
    <2>3. \A t \in Tokens : resetToken'[t] = "unused" =>
            t = n \/ (resetToken[t] = "unused" /\ t \notin request[q].outstanding)
      BY <1>6, <2>1 DEF CreatePasswordResetToken
    <2>4. request[q].at = "insert" /\ request'[q].at # "insert"
      BY <1>6 DEF CreatePasswordResetToken, Answer, Idle, Inv, TypeOK
    <2>5. \A o \in Requests : o # q => request'[o] = request[o]
      BY <1>6, OneRequestMoves DEF Proceed
    <2> HIDE DEF sent
    <2>6. \A o \in Users : \A t \in Outstanding(o)' : t # n => t \in Outstanding(o)
      BY <1>2, <1>3, <2>3
    <2>7. \A t \in Outstanding(u)' : t # n => by[t] # q
      <3> SUFFICES ASSUME NEW t \in Outstanding(u)', t # n, by[t] = q PROVE FALSE
        OBVIOUS
      <3>1. t \in Tokens /\ resetToken'[t] = "unused" /\ t \in Outstanding(u)
        BY <1>2, <1>3, <2>1, <2>6
      <3>2. t \notin request[q].outstanding
        BY <2>3, <3>1
      <3>3. QED
        BY <1>1, <2>1, <2>4, <3>1, <3>2
    <2>8. \A o \in Users : \A s, t \in Outstanding(o)' : sent[s] = sent[t] => s = t
      <3> SUFFICES ASSUME NEW o \in Users, NEW s \in Outstanding(o)', NEW t \in Outstanding(o)',
                          sent[s] = sent[t], s # t
                   PROVE  FALSE
        OBVIOUS
      <3>1. s \in Tokens /\ t \in Tokens
        BY <1>3
      <3>2. CASE s # n /\ t # n
        BY <1>1, <2>2, <2>6, <3>1, <3>2
      <3>3. CASE s = n \/ t = n
        <4>1. o = u
          BY <1>2, <2>1, <3>1, <3>3
        <4>2. \A x \in Outstanding(u)' : x # n => sent[x] # q
          BY <1>3, <2>1, <2>2, <2>7
        <4>3. QED
          BY <2>2, <3>3, <4>1, <4>2
      <3>4. QED
        BY <3>2, <3>3
    <2>9. ASSUME NEW o \in Requests, request'[o].at = "insert",
                 NEW t \in Outstanding(request[o].user)', sent[t] = o
          PROVE  t \in request'[o].outstanding
      <3>1. o # q /\ request'[o] = request[o]
        BY <2>4, <2>5, <2>9
      <3>2. t \in Tokens /\ t # n
        BY <1>3, <1>4, <2>2, <2>9, <3>1
      <3>3. QED
        BY <1>1, <1>4, <2>2, <2>6, <2>9, <3>1, <3>2
    <2>10. QED
      BY <2>2, <2>8, <2>9 DEF SentApart
  <1>7. QED
    BY <1>5, <1>6, TokensInserted

\* The inductive invariant holds in every reachable state.
THEOREM Invariance == Spec => []Inv
  <1>1. ASSUME Inv, Next PROVE Inv'
    <2>1. TypeOK'
      BY <1>1, RequestKept, SessionsGoOn, TypesKept DEF TypeOK
    <2>2. \A s \in Sessions : replacedBy'[s] # NoSession => Revoked(s)'
      BY <1>1, ReplacedKept DEF Revoked
    <2>3. ASSUME NEW u \in Users, cache'[u] # NoSession
          PROVE  cache'[u] \in SessionsOf(u) /\ Exists(cache[u])'
      BY <1>1, <2>3, CacheKept, UnderWay, SessionsGoOn DEF Inv, SessionsOf, Exists, Onward
    <2>4. ASSUME NEW q \in Requests, request'[q].session # NoSession
          PROVE  Exists(request[q].session)' /\ Owner[request'[q].session] = request'[q].user
      <3>1. request'[q].session \in Sessions
        BY <2>1, <2>4 DEF TypeOK, RequestStates
      <3>2. Exists(request'[q].session) /\ Owner[request'[q].session] = request'[q].user
        BY <1>1, <2>4, RequestKept, UnderWay DEF Same, Arrived, Idle
      <3>3. QED
        BY <1>1, <3>1, <3>2, SessionsGoOn DEF Onward, Exists
    <2>5. ASSUME NEW q \in Requests, request'[q].at \notin Sessionless
          PROVE  request'[q].session # NoSession
      BY <1>1, <2>5, RequestKept, UnderWay DEF Same, Arrived, Idle, Sessionless
    <2>6. QED
      BY <1>1, <2>1, <2>2, <2>3, <2>4, <2>5, SentStep DEF Inv
  <1>2. Inv /\ UNCHANGED vars => Inv'
    BY DEF Inv, TypeOK, vars, rows, Exists, Revoked, SessionsOf, SentApart, Outstanding, TokensOf
  <1>3. QED
    BY InitInv, <1>1, <1>2, PTL DEF Spec

\* A request comes to act on a session only when it finds the session live or
\* in the cache.
LEMMA ActsOnFound ==
  ASSUME Inv, Next, NEW q \in Requests, NEW s \in Sessions,
         request'[q].session = s, request'[q].at \in {"setex", "accepted", "rotate"}
  PROVE  \/ request[q].session = s /\ request[q].at \in {"setex", "accepted", "rotate"}
         \/ Live(s)
         \/ cache[Owner[s]] = s
  <1> USE ConstantsAssumption
  <1>1. CASE request'[q] = request[q]
    BY <1>1
  <1>3. CASE Start(q)
    <2>1. ASSUME NEW u \in Users, Login(q, u) \/ ForgotPassword(q, u) PROVE FALSE
      BY <2>1 DEF Login, ForgotPassword, Enter, Arrive, Inv, TypeOK
    <2>2. ASSUME NEW t \in Tokens, ResetPasswordRequested(q, t) PROVE FALSE
      BY <2>2 DEF ResetPasswordRequested, Enter, Arrive, Inv, TypeOK
    <2>3. ASSUME NEW o \in Sessions, Authenticate(q, o) PROVE cache[Owner[s]] = s
      BY <2>3 DEF Authenticate, Enter, Arrive, CacheHit, Inv, TypeOK
    <2>4. ASSUME NEW o \in Sessions, Refresh(q, o) PROVE Live(s)
      BY <2>4 DEF Refresh, RefreshStep, Enter, Arrive, Exists, Revoked, Live, Inv, TypeOK
    <2>5. QED
      BY <1>3, <2>1, <2>2, <2>3, <2>4 DEF Start
  <1>4. CASE Proceed(q) \/ Fail(q)
    BY <1>4, Moves DEF Goto, Answer, Idle, Inv, TypeOK, RequestStates
  <1>5. ASSUME NEW o \in Requests, o # q, Start(o) \/ Proceed(o) \/ Fail(o)
        PROVE  request'[q] = request[q]
    BY <1>5, OneRequestMoves
  <1>6. QED
    BY <1>1, <1>3, <1>4, <1>5 DEF Next, SessionExpires, TokenExpires, CacheEntryExpires

LEMMA OverStep == ASSUME Inv, Next, NEW s \in Sessions, Over(s) PROVE Over(s)'
  <1>1. session'[s] \in {"revoked", "expired"} /\ ~Live(s)
    BY SessionsGoOn DEF Over, Onward, Revoked, Live
  <1>2. cache'[Owner[s]] # s
    <2>1. Owner[s] \in Users /\ s # NoSession
      BY ConstantsAssumption
    <2>2. QED
      BY <2>1, CacheKept DEF Over, Drained
  <1>3. ASSUME NEW q \in Requests, request'[q].session = s
        PROVE  request'[q].at \notin {"setex", "accepted", "rotate"}
    BY <1>1, <1>3, ActsOnFound DEF Over, Drained
  <1>4. QED
    BY <1>1, <1>2, <1>3 DEF Over, Drained

\* A session that is over stays over.
THEOREM OverFinal == Spec => OverStaysOver
  <1>1. Inv /\ [Next]_vars => [\A s \in Sessions : Over(s) => Over(s)']_vars
    BY OverStep
  <1>2. QED
    BY Invariance, <1>1, PTL DEF Spec, OverStaysOver

\* Sessions are made by logins and by rotations of sessions that were found.
LEMMA NewSessionsMade ==
  ASSUME Inv, Next, NEW s \in Sessions, ~Exists(s), session'[s] # "none"
  PROVE  \E q \in Requests :
           /\ request[q].at \in {"createSession", "rotate"}
           /\ request[q].user = Owner[s]
  <1> USE UnderWay, NewRows
  <1>1. ASSUME NEW q \in Requests, CreateSession(q) \/ RotateSessionForUser(q)
        PROVE  request[q].at \in {"createSession", "rotate"} /\ request[q].user = Owner[s]
    <2>1. CASE CreateSession(q)
      BY <2>1 DEF CreateSession, SessionsOf, Exists, Inv, TypeOK
    <2>2. CASE RotateSessionForUser(q)
      <3>1. request[q].session # s
        BY ConstantsAssumption
      <3>2. QED
        BY <2>2, <3>1 DEF RotateSessionForUser, Rotated, SessionsOf, Exists, Inv, TypeOK
    <2>3. QED
      BY <1>1, <2>1, <2>2
  <1>2. ASSUME NEW S PROVE session' # Revoke(S)
    BY DEF Revoke, Exists
  <1>3. ASSUME NEW q \in Requests, Proceed(q), ~CreateSession(q), ~RotateSessionForUser(q)
        PROVE  FALSE
    BY <1>2, <1>3 DEF Proceed, CacheDel, FindSession, CacheSet, Handle, FlagRefreshTokenReuse,
                      RevokeExpired, CreatePasswordResetToken, ResetPassword, rows, Exists
  <1>4. ASSUME NEW q \in Requests, Start(q) \/ Fail(q) PROVE FALSE
    BY <1>4 DEF Start, Login, ForgotPassword, Authenticate, Refresh, ResetPasswordRequested, Enter, Arrive,
                Fail, rows, Exists
  <1>5. ASSUME NEW o \in Sessions, SessionExpires(o) PROVE FALSE
    BY <1>5 DEF SessionExpires, Exists, Live, Inv, TypeOK
  <1>6. QED
    BY <1>1, <1>3, <1>4, <1>5 DEF Next, TokenExpires, CacheEntryExpires, rows, Exists

\* A request stands before the making of a session only since a login.
LEMMA LoginsArrive ==
  ASSUME Inv, Next, NEW q \in Requests, request'[q].at = "createSession"
  PROVE  request'[q] = request[q] \/ \E u \in Users : request'[q].user = u /\ Login(q, u)
  <1> USE ConstantsAssumption
  <1>1. ASSUME NEW o \in Requests, Proceed(o) \/ Fail(o) PROVE request'[q] = request[q]
    BY <1>1, Moves, OneRequestMoves DEF Goto, Answer, Idle, Inv, TypeOK, RequestStates
  <1>2. ASSUME NEW o \in Requests, Start(o)
        PROVE  request'[q] = request[q] \/ \E u \in Users : request'[q].user = u /\ Login(q, u)
    <2>1. ASSUME NEW u \in Users, Login(o, u)
          PROVE  request'[q] = request[q] \/ (request'[q].user = u /\ Login(q, u))
      BY <2>1 DEF Login, Enter, Arrive, Inv, TypeOK
    <2>2. ASSUME NEW u \in Users, ForgotPassword(o, u) PROVE request'[q] = request[q]
      BY <2>2 DEF ForgotPassword, Enter, Arrive, Inv, TypeOK
    <2>3. ASSUME NEW s \in Sessions, Authenticate(o, s) \/ Refresh(o, s)
          PROVE  request'[q] = request[q]
      BY <2>3 DEF Authenticate, Refresh, RefreshStep, Enter, Arrive, Inv, TypeOK
    <2>4. ASSUME NEW t \in Tokens, ResetPasswordRequested(o, t) PROVE request'[q] = request[q]
      BY <2>4 DEF ResetPasswordRequested, Enter, Arrive, Inv, TypeOK
    <2>5. QED
      BY <1>2, <2>1, <2>2, <2>3, <2>4 DEF Start
  <1>3. QED
    BY <1>1, <1>2 DEF Next, SessionExpires, TokenExpires, CacheEntryExpires

\* Once all sessions of a user are over, only a login signs the user in again.
THEOREM SignOutFinal == Spec => OnlyLoginSignsIn
  <1>1. ASSUME Inv, Next, NEW u \in Users, SignedOut(u), ~\E q \in Requests : Login(q, u)
        PROVE  SignedOut(u)'
    <2>1. ASSUME NEW s \in SessionsOf(u), session'[s] # "none" PROVE Over(s)'
      <3>1. CASE Exists(s)
        BY <1>1, <3>1, OverStep DEF SignedOut, SessionsOf
      <3>2. CASE ~Exists(s)
        <4>1. PICK q \in Requests : /\ request[q].at \in {"createSession", "rotate"}
                                    /\ request[q].user = Owner[s]
          BY <1>1, <2>1, <3>2, NewSessionsMade DEF SessionsOf
        <4>2. Owner[s] = u
          BY DEF SessionsOf
        <4>3. request[q].at = "rotate"
          BY <1>1, <4>1, <4>2 DEF SignedOut
        <4>4. request[q].session \in SessionsOf(u) /\ Exists(request[q].session)
          BY <1>1, <4>1, <4>2, <4>3, UnderWay DEF SessionsOf, Sessionless
        <4>5. QED
          BY <1>1, <4>3, <4>4 DEF SignedOut, Over, Drained
      <3>3. QED
        BY <3>1, <3>2
    <2>2. ASSUME NEW q \in Requests, request'[q].user = u PROVE request'[q].at # "createSession"
      BY <1>1, <2>2, LoginsArrive DEF SignedOut
    <2>3. QED
      BY <2>1, <2>2 DEF SignedOut, Exists
  <1>2. Inv /\ [Next]_vars =>
          [\A u \in Users : SignedOut(u) => SignedOut(u)' \/ \E q \in Requests : Login(q, u)]_vars
    BY <1>1
  <1>3. QED
    BY Invariance, <1>2, PTL DEF Spec, OnlyLoginSignsIn

\* A reset token that has been used stays so, and no later request finds it.
THEOREM TokenFinal == Spec => SpentStaysSpent
  <1>1. ASSUME Inv, Next, NEW t \in Tokens, Spent(t) PROVE Spent(t)'
    <2>1. resetToken'[t] = "spent"
      <3>1. ASSUME NEW q \in Requests, CreatePasswordResetToken(q) \/ ResetPassword(q)
            PROVE  resetToken'[t] = "spent"
        BY <1>1, <3>1, NewRows, UnderWay DEF Spent, CreatePasswordResetToken, ResetPassword, Inv, TypeOK
      <3>2. ASSUME NEW o \in Tokens, TokenExpires(o) PROVE resetToken'[t] = "spent"
        BY <1>1, <3>2 DEF Spent, TokenExpires, Inv, TypeOK
      <3>3. ASSUME NEW q \in Requests, Start(q) \/ Fail(q) PROVE UNCHANGED resetToken
        BY <3>3 DEF Start, Login, ForgotPassword, Authenticate, Refresh, ResetPasswordRequested,
                    Enter, Arrive, Fail
      <3>4. ASSUME NEW q \in Requests, Proceed(q), ~CreatePasswordResetToken(q), ~ResetPassword(q)
            PROVE  UNCHANGED resetToken
        BY <3>4 DEF Proceed, CreateSession, CacheDel, FindSession, CacheSet, Handle,
                    RotateSessionForUser, FlagRefreshTokenReuse, RevokeExpired
      <3>5. QED
        BY <1>1, <3>1, <3>2, <3>3, <3>4 DEF Next, SessionExpires, CacheEntryExpires, Spent
    <2>2. ASSUME NEW q \in Requests PROVE request'[q].token # t
      <3>1. t # NoToken /\ Idle.token # t
        BY ConstantsAssumption DEF Idle
      <3>2. ASSUME NEW o \in Requests, Start(o) PROVE request'[q].token # t
        BY <1>1, <3>1, <3>2 DEF Spent, Start, Login, ForgotPassword, Authenticate, Refresh,
                                ResetPasswordRequested, Usable, Enter, Arrive, Inv, TypeOK
      <3>3. ASSUME NEW o \in Requests, Proceed(o) \/ Fail(o) PROVE request'[q].token # t
        BY <1>1, <3>1, <3>3, Moves DEF Spent, Goto, Answer, Inv, TypeOK, RequestStates
      <3>4. QED
        BY <1>1, <3>2, <3>3 DEF Next, SessionExpires, TokenExpires, CacheEntryExpires, Spent
    <2>3. QED
      BY <2>1, <2>2 DEF Spent
  <1>2. Inv /\ [Next]_vars => [\A t \in Tokens : Spent(t) => Spent(t)']_vars
    BY <1>1
  <1>3. QED
    BY Invariance, <1>2, PTL DEF Spec, SpentStaysSpent

\* No more reset tokens of a user are outstanding than requests can overlap.
THEOREM TokensOutstanding == Spec => []OutstandingBounded
  <1>1. ASSUME Inv PROVE OutstandingBounded
    <2>1. PICK by \in [Tokens -> Requests] :
            \A u \in Users : \A s, t \in Outstanding(u) : by[s] = by[t] => s = t
      BY <1>1 DEF Inv, SentApart
    <2>2. ASSUME NEW u \in Users
          PROVE  Cardinality(Outstanding(u)) <= Cardinality(Requests)
      <3> DEFINE f == [t \in Outstanding(u) |-> by[t]]
      <3>1. Outstanding(u) \subseteq Tokens
        BY DEF Outstanding, TokensOf
      <3>2. f \in [Outstanding(u) -> Requests]
        BY <2>1, <3>1
      <3>3. f \in Injection(Outstanding(u), Requests)
        BY <2>1, <3>2 DEF Injection, IsInjective
      <3>4. IsFiniteSet(Requests)
        BY ConstantsAssumption
      <3> HIDE DEF f
      <3>5. QED
        BY <3>3, <3>4, FS_Injection
    <2>3. QED
      BY <2>2 DEF OutstandingBounded, Outstanding
  <1>2. QED
    BY <1>1, Invariance, PTL
=============================================================================
