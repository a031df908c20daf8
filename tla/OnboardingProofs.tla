-------------------------- MODULE OnboardingProofs --------------------------
(***************************************************************************)
(* Theorems about Onboarding for every set of forms, tags, ids and         *)
(* concurrent requests: identities are unique, verdicts are final, and     *)
(* profiles are verified exactly when a verification is approved.          *)
(***************************************************************************)
EXTENDS Onboarding, TLAPS

RequestStates == Registrations \cup Verifications \cup {Idle}

\* Rows that exist can be told from those that do not.
LEMMA Rows ==
  /\ NoUser \notin UserRows
  /\ NoCheck \notin CheckRows
  /\ \A row \in UserRows : row # NoUser
  BY DEF NoUser, UserRows, NoCheck, CheckRows

\* Where a request is tells what it is.
LEMMA Kinds ==
  ASSUME TypeOK, NEW q \in Requests
  PROVE  /\ request[q] \in RequestStates
         /\ Registers(q) <=> request[q] \in Registrations
         /\ Verifies(q) <=> request[q] \in Verifications
         /\ request[q].at = "idle" <=> request[q] = Idle
         /\ Registers(q) \/ Verifies(q) \/ request[q].at = "idle"
         /\ ~(Registers(q) /\ Verifies(q))
  <1>1. request[q] \in RequestStates
    BY DEF TypeOK, RequestStates
  <1>2. CASE request[q] \in Registrations
    BY <1>1, <1>2 DEF Registers, Verifies, Registrations, Verifications, Registering, Verifying, Idle
  <1>3. CASE request[q] \in Verifications
    BY <1>1, <1>3 DEF Registers, Verifies, Registrations, Verifications, Registering, Verifying, Idle
  <1>4. CASE request[q] = Idle
    BY <1>1, <1>4 DEF Registers, Verifies, Registrations, Verifications, Registering, Verifying, Idle
  <1>5. QED
    BY <1>1, <1>2, <1>3, <1>4 DEF RequestStates

\* Ids taken by a request that starts are its own.
LEMMA FreshOnes ==
  /\ FreshIds # {} =>
       /\ (CHOOSE id \in FreshIds : TRUE) \in Ids
       /\ ~Exists(CHOOSE id \in FreshIds : TRUE)
       /\ \A q \in Requests : request[q].id # CHOOSE id \in FreshIds : TRUE
  /\ FreshChecks # {} =>
       /\ (CHOOSE c \in FreshChecks : TRUE) \in Checks
       /\ check[CHOOSE c \in FreshChecks : TRUE] = NoCheck
       /\ \A q \in Requests : Verifies(q) => request[q].check # CHOOSE c \in FreshChecks : TRUE
  BY DEF FreshIds, FreshChecks

LEMMA InitInv == Init => Inv
  <1> SUFFICES ASSUME Init PROVE Inv
    OBVIOUS
  <1>1. TypeOK
    BY DEF Init, TypeOK
  <1>2. \A q \in Requests : ~Registers(q) /\ ~Verifies(q) /\ request[q].at = "idle"
    BY DEF Init, Idle, Registers, Verifies, Registering, Verifying
  <1>3. \A id \in Ids : ~Exists(id)
    BY DEF Init, Exists
  <1>4. VerifiedBacked
    BY DEF Init, VerifiedBacked, NoCheck
  <1>5. QED
    BY <1>1, <1>2, <1>3, <1>4 DEF Inv, Claims, Submits, IdentitiesUnique

OthersStay(q) == \A p \in Requests \ {q} : request'[p] = request[p]

\* A step that changes no row keeps the invariant when the request that takes
\* it knows afterwards what it has to know.
LEMMA QuietStep ==
  ASSUME Inv, NEW q \in Requests, UNCHANGED rows,
         request' \in [Requests -> RequestStates], OthersStay(q),
         Claims(q)', Submits(q)'
  PROVE  Inv'
  <1>1. TypeOK'
    BY DEF Inv, TypeOK, RequestStates, rows
  <1>2. IdentitiesUnique' /\ VerifiedBacked'
    BY DEF Inv, rows, IdentitiesUnique, VerifiedBacked, Exists
  <1>3. ASSUME NEW p \in Requests, p # q PROVE Claims(p)' /\ Submits(p)'
    <2>1. Claims(p) /\ Submits(p) /\ request'[p] = request[p] /\ TypeOK
      BY <1>3 DEF Inv, OthersStay
    <2>2. /\ Registers(p)' = Registers(p) /\ Verifies(p)' = Verifies(p)
          /\ \A id \in Ids : Exists(id)' = Exists(id) /\ user'[id] = user[id]
          /\ check' = check
      BY <2>1 DEF Registers, Verifies, Exists, rows
    <2>3. Registers(p) => request'[q].id # request[p].id
      <3>1. CASE Registers(q)'
        BY <1>3, <2>1, <3>1 DEF Claims
      <3>2. CASE Verifies(q)'
        <4>1. Exists(request'[q].id)
          BY <3>2 DEF Submits, Exists, rows
        <4>2. QED
          BY <2>1, <4>1 DEF Claims
      <3>3. CASE request'[q].at = "idle"
        <4>1. request'[q].id = None
          BY <1>1, <3>3 DEF TypeOK, Registrations, Verifications, Registering, Verifying, Idle
        <4>2. Registers(p) => request[p].id \in Ids
          BY <2>1, Kinds DEF Registrations
        <4>3. QED
          BY <4>1, <4>2, ConstantsAssumption
      <3>4. Registers(q)' \/ Verifies(q)' \/ request'[q].at = "idle"
        BY DEF RequestStates, Registrations, Verifications, Idle, Registers, Verifies
      <3>5. QED
        BY <3>1, <3>2, <3>3, <3>4
    <2>4. (Verifies(p) /\ Verifies(q)') => request'[q].check # request[p].check
      BY <1>3, <2>1, <2>2 DEF Submits
    <2>5. (request[p].at = "commit" /\ request'[q].at = "commit") => Apart(request[p], request'[q])
      BY <1>3, <2>1 DEF Claims, Apart
    <2>6. Claims(p)'
      <3>1. ASSUME Registers(p), NEW o \in Requests \ {p}
            PROVE  request'[o].id # request[p].id
        BY <2>1, <2>3, <3>1 DEF Claims, OthersStay
      <3>2. ASSUME request[p].at = "commit", NEW o \in Requests \ {p}, request'[o].at = "commit"
            PROVE  Apart(request[p], request'[o])
        BY <2>1, <2>5, <3>2 DEF Claims, OthersStay
      <3>3. \A id \in Ids : Exists(id) /\ request[p].at = "commit" => Apart(request[p], user'[id])
        BY <2>1, <2>2 DEF Claims
      <3>4. Registers(p) => ~Exists(request[p].id)'
        BY <2>1 DEF Claims, Exists, rows
      <3>5. QED
        BY <2>1, <2>2, <3>1, <3>2, <3>3, <3>4 DEF Claims, Apart
    <2>7. Submits(p)'
      <3>1. SUFFICES ASSUME Verifies(p) PROVE Submits(p)'
        BY <2>2 DEF Submits
      <3>2. request[p].id \in Ids
        BY <2>1, <3>1, Kinds DEF Verifications
      <3>3. ASSUME NEW o \in Requests \ {p}, Verifies(o)'
            PROVE  request'[o].check # request'[p].check
        <4>1. CASE o = q
          BY <2>1, <2>4, <3>1, <3>3, <4>1
        <4>2. CASE o # q
          BY <2>1, <3>1, <3>3, <4>2 DEF Submits, OthersStay, Verifies
        <4>3. QED
          BY <4>1, <4>2
      <3>4. /\ Exists(request[p].id)'
            /\ check'[request[p].check] = IF request[p].at = "verify"
                                          THEN [user |-> request[p].id, status |-> "PENDING"]
                                          ELSE NoCheck
        BY <2>1, <2>2, <3>1, <3>2 DEF Submits
      <3>5. QED
        BY <2>1, <3>3, <3>4 DEF Submits, Exists
    <2>8. QED
      BY <2>6, <2>7
  <1>4. QED
    BY <1>1, <1>2, <1>3 DEF Inv

LEMMA IdleKnows ==
  ASSUME NEW q \in Requests, request'[q] = Idle
  PROVE  Claims(q)' /\ Submits(q)'
  BY DEF Claims, Submits, Registers, Verifies, Registering, Verifying, Idle

LEMMA Answered ==
  ASSUME TypeOK, NEW q \in Requests, Answer(q)
  PROVE  /\ request' \in [Requests -> RequestStates]
         /\ OthersStay(q)
         /\ request'[q] = Idle
  BY DEF Answer, TypeOK, RequestStates, OthersStay

LEMMA AnswerInv ==
  ASSUME Inv, NEW q \in Requests, Answer(q), UNCHANGED rows
  PROVE  Inv'
  BY QuietStep, Answered, IdleKnows DEF Inv

\* Going on keeps what the request works on.
LEMMA Going ==
  ASSUME TypeOK, NEW q \in Requests, NEW step, Goto(q, step),
         \/ Registers(q) /\ step \in Registering
         \/ Verifies(q) /\ step \in Verifying
  PROVE  /\ request' \in [Requests -> RequestStates]
         /\ OthersStay(q)
         /\ request'[q] = [request[q] EXCEPT !.at = step]
         /\ Registers(q)' <=> Registers(q)
         /\ Verifies(q)' <=> Verifies(q)
  <1>1. request'[q] = [request[q] EXCEPT !.at = step] /\ OthersStay(q)
    BY DEF Goto, OthersStay, TypeOK
  <1>2. request' = [request EXCEPT ![q] = [request[q] EXCEPT !.at = step]]
    BY DEF Goto, TypeOK
  <1>3. [request[q] EXCEPT !.at = step] \in RequestStates
    <2>1. CASE Registers(q) /\ step \in Registering
      BY <2>1, Kinds DEF RequestStates, Registrations
    <2>2. CASE Verifies(q) /\ step \in Verifying
      BY <2>2, Kinds DEF RequestStates, Verifications
    <2>3. QED
      BY <2>1, <2>2
  <1>4. request'[q].at = step
    <2>1. CASE Registers(q)
      BY <1>1, <2>1, Kinds DEF Registrations
    <2>2. CASE Verifies(q)
      BY <1>1, <2>2, Kinds DEF Verifications
    <2>3. QED
      BY <2>1, <2>2
  <1>5. QED
    BY <1>1, <1>2, <1>3, <1>4, Kinds
       DEF TypeOK, RequestStates, Registers, Verifies, Registering, Verifying

LEMMA RegisterInv ==
  ASSUME Inv, NEW q \in Requests, NEW form \in Forms, Register(q, form)
  PROVE  Inv'
  <1>1. PICK id \in Ids : /\ id = CHOOSE i \in FreshIds : TRUE
                          /\ ~Exists(id)
                          /\ \A p \in Requests : request[p].id # id
    BY FreshOnes DEF Register
  <1> DEFINE r == [at |-> "findEmail", id |-> id, email |-> form.email, phone |-> form.phone,
                   name |-> form.name, attempt |-> 0, candidate |-> 0, tag |-> NoTag]
  <1>2. r \in Registrations
    BY ConstantsAssumption DEF Registrations, Registering
  <1>3. request' = [request EXCEPT ![q] = r] /\ UNCHANGED rows
    BY <1>1 DEF Register
  <1>4. /\ request' \in [Requests -> RequestStates] /\ request'[q] = r
        /\ OthersStay(q)
    BY <1>2, <1>3 DEF Inv, TypeOK, RequestStates, OthersStay
  <1>5. Claims(q)'
    BY <1>1, <1>3, <1>4, ConstantsAssumption
       DEF Claims, Registers, Registering, OthersStay, Exists, rows
  <1>6. Submits(q)'
    BY <1>4 DEF Submits, Verifies, Verifying
  <1>7. QED
    BY <1>3, <1>4, <1>5, <1>6, QuietStep

\* The steps of a registration before its insert.
LEMMA LookUpInv ==
  ASSUME Inv, NEW q \in Requests, UNCHANGED rows,
         \/ request[q].at = "findEmail" /\ Goto(q, "findPhone")
         \/ request[q].at = "findPhone" /\ normalizePhone(request[q].phone) \in Dialable /\ Goto(q, "chooseTag")
  PROVE  Inv'
  <1>1. Registers(q) /\ request[q] \in Registrations /\ TypeOK /\ Claims(q)
    BY Kinds DEF Registers, Registering, Inv
  <1>2. PICK step \in {"findPhone", "chooseTag"} :
          Goto(q, step) /\ (step = "chooseTag" => normalizePhone(request[q].phone) \in Dialable)
    OBVIOUS
  <1>3. /\ request' \in [Requests -> RequestStates] /\ OthersStay(q)
        /\ request'[q] = [request[q] EXCEPT !.at = step] /\ ~Verifies(q)'
    BY <1>1, <1>2, Kinds, Going DEF Registering
  <1>4. Claims(q)'
    BY <1>1, <1>2, <1>3 DEF Claims, Registrations, OthersStay, Exists, rows
  <1>5. QED
    BY <1>3, <1>4, QuietStep DEF Submits

LEMMA GenerateUniqueFinxTagInv ==
  ASSUME Inv, NEW q \in Requests, GenerateUniqueFinxTag(q)
  PROVE  Inv'
  <1> DEFINE r == request[q]
  <1>1. Registers(q) /\ r \in Registrations /\ TypeOK /\ Claims(q) /\ r.at = "chooseTag"
    BY Kinds DEF Registers, Registering, Inv, GenerateUniqueFinxTag
  <1>2. UNCHANGED rows
    BY DEF GenerateUniqueFinxTag
  <1>3. CASE Answer(q)
    BY <1>2, <1>3, AnswerInv
  <1>4. CASE ~Answer(q)
    <2>1. r.candidate < MaxAttempts
      BY <1>4 DEF GenerateUniqueFinxTag
    <2>2. PICK new \in Registrations :
            /\ request' = [request EXCEPT ![q] = new]
            /\ \/ new = [r EXCEPT !.candidate = @ + 1]
               \/ \E tag \in Tags : new = [r EXCEPT !.at = "insert", !.tag = tag]
      <3>1. PICK tag \in Tags :
              \/ request' = [request EXCEPT ![q].candidate = NextCandidate(@)]
              \/ request' = [request EXCEPT ![q].at = "insert", ![q].tag = tag]
        <4>1. Candidates(r.name, r.candidate) \subseteq Tags
          BY <1>1 DEF Candidates, Tags, Registrations
        <4>2. QED
          BY <1>4, <4>1 DEF GenerateUniqueFinxTag
      <3>2. CASE request' = [request EXCEPT ![q].candidate = NextCandidate(@)]
        <4>1. request' = [request EXCEPT ![q] = [r EXCEPT !.candidate = @ + 1]]
          BY <1>1, <3>2 DEF NextCandidate, TypeOK, Registrations
        <4>2. [r EXCEPT !.candidate = @ + 1] \in Registrations
          BY <1>1, <2>1, ConstantsAssumption DEF Registrations
        <4>3. QED
          BY <4>1, <4>2
      <3>3. CASE request' = [request EXCEPT ![q].at = "insert", ![q].tag = tag]
        <4>1. request' = [request EXCEPT ![q] = [r EXCEPT !.at = "insert", !.tag = tag]]
          BY <1>1, <3>3 DEF TypeOK, Registrations
        <4>2. [r EXCEPT !.at = "insert", !.tag = tag] \in Registrations
          BY <1>1 DEF Registrations, Registering
        <4>3. QED
          BY <4>1, <4>2
      <3>4. QED
        BY <3>1, <3>2, <3>3
    <2>3. /\ request' \in [Requests -> RequestStates] /\ OthersStay(q) /\ request'[q] = new
      BY <1>1, <2>2 DEF TypeOK, RequestStates, OthersStay
    <2>4. new.at # "commit" /\ new.id = r.id /\ new.attempt <= new.candidate
          /\ new.phone = r.phone
          /\ (new.at = "insert" => new.tag \in Tags /\ new.candidate < MaxAttempts)
      <3>1. r.attempt \in Int /\ r.candidate \in Int /\ r.attempt <= r.candidate
        BY <1>1, ConstantsAssumption DEF Claims, Registrations
      <3>2. CASE new = [r EXCEPT !.candidate = @ + 1]
        BY <1>1, <3>1, <3>2 DEF Registrations
      <3>3. CASE \E tag \in Tags : new = [r EXCEPT !.at = "insert", !.tag = tag]
        BY <1>1, <2>1, <3>1, <3>3 DEF Registrations
      <3>4. QED
        BY <2>2, <3>2, <3>3
    <2>5. Claims(q)'
      BY <1>1, <1>2, <2>3, <2>4 DEF Claims, OthersStay, Exists, rows
    <2>6. Submits(q)'
      BY <2>2, <2>3 DEF Submits, Verifies, Verifying, Registrations, Registering
    <2>7. QED
      BY <1>2, <2>3, <2>5, <2>6, QuietStep
  <1>5. QED
    BY <1>3, <1>4

LEMMA InsertUserInv ==
  ASSUME Inv, NEW q \in Requests, InsertUser(q)
  PROVE  Inv'
  <1> DEFINE r == request[q]
             next == r.attempt + 1
  <1>1. Registers(q) /\ r \in Registrations /\ TypeOK /\ Claims(q) /\ r.at = "insert"
    BY Kinds DEF Registers, Registering, Inv, InsertUser
  <1>2. UNCHANGED rows
    BY DEF InsertUser
  <1>3. CASE Answer(q)
    BY <1>2, <1>3, AnswerInv
  <1>4. CASE request' = [request EXCEPT ![q].at = "chooseTag", ![q].attempt = next, ![q].candidate = next]
    <2> DEFINE new == [r EXCEPT !.at = "chooseTag", !.attempt = next, !.candidate = next]
    <2>1. request' = [request EXCEPT ![q] = new]
      BY <1>1, <1>4 DEF TypeOK, Registrations
    <2>2. next \in 0 .. MaxAttempts
      BY <1>1, ConstantsAssumption DEF Claims, Registrations
    <2>3. new \in Registrations /\ new.at = "chooseTag" /\ new.id = r.id /\ new.phone = r.phone
          /\ new.attempt = new.candidate
      BY <1>1, <2>2 DEF Registrations, Registering
    <2>4. request' \in [Requests -> RequestStates] /\ OthersStay(q) /\ request'[q] = new
      BY <1>1, <2>1, <2>3 DEF TypeOK, RequestStates, OthersStay
    <2>5. Claims(q)'
      <3>1. new.attempt <= new.candidate
        BY <2>2, <2>3, ConstantsAssumption
      <3>2. QED
        BY <1>1, <1>2, <2>3, <2>4, <3>1 DEF Claims, OthersStay, Exists, rows
    <2>6. Submits(q)'
      BY <2>3, <2>4 DEF Submits, Verifies, Verifying
    <2>7. QED
      BY <1>2, <2>4, <2>5, <2>6, QuietStep
  <1>5. CASE Goto(q, "commit") /\ ~(EmailTaken(r.email) \/ PhoneTaken(r.phone) \/ TagTaken(r.tag))
    <2>1. /\ request' \in [Requests -> RequestStates] /\ OthersStay(q)
          /\ request'[q] = [r EXCEPT !.at = "commit"] /\ ~Verifies(q)'
      BY <1>1, <1>5, Kinds, Going DEF Registering
    <2>2. \A id \in Ids : Exists(id) => Apart(r, user[id])
      BY <1>5 DEF EmailTaken, PhoneTaken, TagTaken, Apart
    <2>3. \A p \in Requests \ {q} : request[p].at = "commit" => Apart(r, request[p])
      BY DEF InsertUser, Waits, Apart
    <2>4. Claims(q)'
      BY <1>1, <1>2, <2>1, <2>2, <2>3 DEF Claims, Registrations, OthersStay, Exists, Apart, rows
    <2>5. QED
      BY <1>2, <2>1, <2>4, QuietStep DEF Submits
  <1>6. QED
    BY <1>3, <1>4, <1>5 DEF InsertUser, TagRefused

\* The commit makes a row whose values the registration has claimed.
LEMMA RegisterUserWithWalletInv ==
  ASSUME Inv, NEW q \in Requests, RegisterUserWithWallet(q)
  PROVE  Inv'
  <1> DEFINE r == request[q]
             row == [email |-> r.email, phone |-> r.phone, tag |-> r.tag]
  <1>1. /\ Registers(q) /\ r \in Registrations /\ TypeOK /\ Claims(q) /\ r.at = "commit"
        /\ r.id \in Ids /\ r.tag \in Tags /\ normalizePhone(r.phone) \in Dialable /\ ~Exists(r.id)
    BY Kinds DEF Registers, Registering, Inv, RegisterUserWithWallet, Claims, Registrations
  <1>2. row \in UserRows /\ row # NoUser
    BY <1>1, Rows DEF UserRows, Registrations
  <1>3. user' = [user EXCEPT ![r.id] = row] /\ verified' = verified /\ check' = check
    BY DEF RegisterUserWithWallet
  <1>4. /\ request' \in [Requests -> RequestStates] /\ OthersStay(q) /\ request'[q] = Idle
    BY <1>1, Answered DEF RegisterUserWithWallet
  <1>5. TypeOK'
    BY <1>1, <1>2, <1>3, <1>4 DEF TypeOK, RequestStates
  <1>6. \A id \in Ids : /\ Exists(id)' <=> Exists(id) \/ id = r.id
                        /\ id # r.id => user'[id] = user[id]
    BY <1>1, <1>2, <1>3 DEF Exists, TypeOK
  <1>7. user'[r.id] = row
    BY <1>1, <1>3 DEF TypeOK
  <1>8. \A id \in Ids : Exists(id) => Apart(row, user[id])
    BY <1>1 DEF Claims, Apart
  <1>9. IdentitiesUnique'
    BY <1>1, <1>6, <1>7, <1>8 DEF Inv, IdentitiesUnique, Apart
  <1>10. VerifiedBacked'
    BY <1>3 DEF Inv, VerifiedBacked
  <1>11. ASSUME NEW p \in Requests, p # q PROVE Claims(p)' /\ Submits(p)'
    <2>1. Claims(p) /\ Submits(p) /\ request'[p] = request[p]
      BY <1>4, <1>11 DEF Inv, OthersStay
    <2>2. Registers(p)' = Registers(p) /\ Verifies(p)' = Verifies(p)
      BY <2>1 DEF Registers, Verifies
    <2>3. Claims(p)'
      <3>1. Registers(p) => /\ request[p].id \in Ids /\ request[p].id # r.id
                            /\ request[p].id # None
        BY <1>1, <1>11, <2>1, Kinds, ConstantsAssumption DEF Claims, Registrations
      <3>2. ASSUME Registers(p), NEW o \in Requests \ {p}
            PROVE  request'[o].id # request[p].id
        BY <1>4, <2>1, <3>1, <3>2 DEF Claims, OthersStay, Idle
      <3>3. Registers(p) => ~Exists(request[p].id)'
        BY <1>6, <2>1, <3>1 DEF Claims
      <3>4. ASSUME request[p].at = "commit", NEW o \in Requests \ {p}, request'[o].at = "commit"
            PROVE  Apart(request[p], request'[o])
        BY <1>4, <2>1, <3>4 DEF Claims, OthersStay, Idle
      <3>5. ASSUME request[p].at = "commit", NEW id \in Ids, Exists(id)'
            PROVE  Apart(request[p], user'[id])
        <4>1. Apart(request[p], row)
          BY <1>1, <1>11, <3>5 DEF Claims, Apart
        <4>2. QED
          BY <1>6, <1>7, <2>1, <3>5, <4>1 DEF Claims
      <3>6. QED
        BY <2>1, <2>2, <3>2, <3>3, <3>4, <3>5 DEF Claims, Apart
    <2>4. Submits(p)'
      <3>1. SUFFICES ASSUME Verifies(p) PROVE Submits(p)'
        BY <2>2 DEF Submits
      <3>2. Exists(request[p].id)'
        BY <1>1, <1>6, <2>1, <3>1, Kinds DEF Submits, Verifications
      <3>3. ASSUME NEW o \in Requests \ {p}, Verifies(o)'
            PROVE  request'[o].check # request[p].check
        <4>1. ~Verifies(q)'
          BY <1>4 DEF Verifies, Verifying, Idle
        <4>2. QED
          BY <1>4, <2>1, <3>1, <3>3, <4>1 DEF Submits, OthersStay, Verifies
      <3>4. QED
        BY <1>3, <2>1, <3>1, <3>2, <3>3 DEF Submits, Exists
    <2>5. QED
      BY <2>3, <2>4
  <1>12. QED
    BY <1>4, <1>5, <1>9, <1>10, <1>11, IdleKnows DEF Inv

LEMMA VerifyMockKycInv ==
  ASSUME Inv, NEW q \in Requests, NEW id \in Ids, NEW bvn \in Bvns,
         VerifyMockKyc(q, id, bvn)
  PROVE  Inv'
  <1>1. PICK c \in Checks : /\ c = CHOOSE d \in FreshChecks : TRUE
                            /\ check[c] = NoCheck
                            /\ \A p \in Requests : Verifies(p) => request[p].check # c
    BY FreshOnes DEF VerifyMockKyc
  <1> DEFINE r == [at |-> "findProfile", id |-> id, check |-> c, bvn |-> bvn]
  <1>2. r \in Verifications
    BY DEF Verifications, Verifying
  <1>3. request' = [request EXCEPT ![q] = r] /\ UNCHANGED rows /\ Exists(id)
    BY <1>1 DEF VerifyMockKyc
  <1>4. request' \in [Requests -> RequestStates] /\ OthersStay(q) /\ request'[q] = r
    BY <1>2, <1>3 DEF Inv, TypeOK, RequestStates, OthersStay
  <1>5. Claims(q)'
    BY <1>4 DEF Claims, Registers, Registering
  <1>6. Submits(q)'
    BY <1>1, <1>3, <1>4 DEF Submits, Verifies, OthersStay, Exists, rows
  <1>7. QED
    BY <1>3, <1>4, <1>5, <1>6, QuietStep

LEMMA FindProfileInv ==
  ASSUME Inv, NEW q \in Requests, VerifyUserExistsWithFreshProfile(q)
  PROVE  Inv'
  <1>1. Verifies(q) /\ request[q] \in Verifications /\ TypeOK /\ Submits(q)
    BY Kinds DEF Verifies, Verifying, Inv, VerifyUserExistsWithFreshProfile
  <1>2. UNCHANGED rows
    BY DEF VerifyUserExistsWithFreshProfile
  <1>3. CASE Answer(q)
    BY <1>2, <1>3, AnswerInv
  <1>4. CASE Goto(q, "createIntent")
    <2>1. /\ request' \in [Requests -> RequestStates] /\ OthersStay(q)
          /\ request'[q] = [request[q] EXCEPT !.at = "createIntent"] /\ ~Registers(q)'
      BY <1>1, <1>4, Kinds, Going DEF Verifying
    <2>2. /\ request'[q].at = "createIntent" /\ request'[q].id = request[q].id
          /\ request'[q].check = request[q].check /\ check[request[q].check] = NoCheck
      BY <1>1, <2>1 DEF Verifications, Submits, VerifyUserExistsWithFreshProfile
    <2>3. Claims(q)'
      BY <2>1, <2>2 DEF Claims
    <2>4. Submits(q)'
      BY <1>1, <1>2, <2>1, <2>2 DEF Submits, Verifies, OthersStay, Exists, rows
    <2>5. QED
      BY <1>2, <2>1, <2>3, <2>4, QuietStep
  <1>5. QED
    BY <1>3, <1>4 DEF VerifyUserExistsWithFreshProfile

\* A step that writes the row of a submission leaves the other requests alone.
LEMMA CheckStep ==
  ASSUME Inv, NEW q \in Requests, Verifies(q),
         NEW status \in {"PENDING", "APPROVED", "FAILED"},
         check' = [check EXCEPT ![request[q].check] = [user |-> request[q].id, status |-> status]],
         user' = user, verified' \subseteq Ids, VerifiedBacked',
         request' \in [Requests -> RequestStates], OthersStay(q),
         \/ request'[q] = Idle
         \/ /\ status = "PENDING"
            /\ request'[q] = [request[q] EXCEPT !.at = "verify"]
  PROVE  Inv'
  <1> DEFINE c == request[q].check
  <1>1. TypeOK /\ Submits(q) /\ c \in Checks /\ request[q].id \in Ids
        /\ request[q] \in Verifications
    BY Kinds DEF Inv, Verifications
  <1>2. TypeOK'
    BY <1>1 DEF TypeOK, RequestStates, CheckRows
  <1>3. check'[c] = [user |-> request[q].id, status |-> status]
        /\ \A d \in Checks \ {c} : check'[d] = check[d]
    BY <1>1 DEF TypeOK
  <1>4. IdentitiesUnique'
    BY DEF Inv, IdentitiesUnique, Exists
  <1>5. /\ request'[q].at \in {"idle", "verify"} /\ ~Registers(q)'
        /\ Verifies(q)' => /\ request'[q].at = "verify" /\ status = "PENDING"
                           /\ request'[q].id = request[q].id /\ request'[q].check = c
    BY <1>1 DEF Idle, Verifications, Verifies, Registers, Registering, Verifying
  <1>6. Claims(q)'
    BY <1>5 DEF Claims
  <1>7. Submits(q)'
    BY <1>1, <1>3, <1>5 DEF Submits, OthersStay, Verifies, Exists
  <1>8. ASSUME NEW p \in Requests, p # q PROVE Claims(p)' /\ Submits(p)'
    <2>1. Claims(p) /\ Submits(p) /\ request'[p] = request[p]
      BY <1>8 DEF Inv, OthersStay
    <2>2. Registers(p)' = Registers(p) /\ Verifies(p)' = Verifies(p)
      BY <2>1 DEF Registers, Verifies
    <2>3. \A id \in Ids : Exists(id)' = Exists(id) /\ user'[id] = user[id]
      BY DEF Exists
    <2>4. Claims(p)'
      <3>1. Registers(p) => /\ request[p].id \in Ids /\ ~Exists(request[p].id)
                            /\ request[p].id # None
        BY <1>1, <2>1, Kinds, ConstantsAssumption DEF Claims, Registrations
      <3>2. ASSUME Registers(p), NEW o \in Requests \ {p}
            PROVE  request'[o].id # request[p].id
        <4>1. CASE o = q
          <5>1. request'[q].id \in {None, request[q].id}
            BY <1>1 DEF Idle, Verifications
          <5>2. Exists(request[q].id)
            BY <1>1 DEF Submits
          <5>3. QED
            BY <3>1, <3>2, <4>1, <5>1, <5>2
        <4>2. CASE o # q
          BY <2>1, <3>2, <4>2 DEF Claims, OthersStay
        <4>3. QED
          BY <4>1, <4>2
      <3>3. ASSUME request[p].at = "commit", NEW o \in Requests \ {p}, request'[o].at = "commit"
            PROVE  Apart(request[p], request'[o])
        BY <1>5, <2>1, <3>3 DEF Claims, OthersStay
      <3>4. Registers(p) => ~Exists(request[p].id)'
        BY <2>1, <3>1 DEF Exists
      <3>5. \A id \in Ids : Exists(id)' /\ request[p].at = "commit" => Apart(request[p], user'[id])
        BY <2>1, <2>3 DEF Claims
      <3>6. QED
        BY <2>1, <2>2, <3>2, <3>3, <3>4, <3>5 DEF Claims, Apart
    <2>5. Submits(p)'
      <3>1. SUFFICES ASSUME Verifies(p) PROVE Submits(p)'
        BY <2>2 DEF Submits
      <3>2. request[p].id \in Ids /\ request[p].check \in Checks \ {c}
        BY <1>1, <1>8, <2>1, <3>1, Kinds DEF Submits, Verifications
      <3>3. ASSUME NEW o \in Requests \ {p}, Verifies(o)'
            PROVE  request'[o].check # request[p].check
        <4>1. CASE o = q
          BY <1>5, <3>2, <3>3, <4>1
        <4>2. CASE o # q
          BY <2>1, <3>1, <3>3, <4>2 DEF Submits, OthersStay, Verifies
        <4>3. QED
          BY <4>1, <4>2
      <3>4. Exists(request[p].id)' /\ check'[request[p].check] = check[request[p].check]
        BY <1>3, <2>1, <2>3, <3>1, <3>2 DEF Submits
      <3>5. QED
        BY <2>1, <3>1, <3>3, <3>4 DEF Submits, Exists
    <2>6. QED
      BY <2>4, <2>5
  <1>9. QED
    BY <1>2, <1>4, <1>6, <1>7, <1>8 DEF Inv

LEMMA CreateVerificationIntentInv ==
  ASSUME Inv, NEW q \in Requests, CreateVerificationIntent(q)
  PROVE  Inv'
  <1>1. /\ Verifies(q) /\ request[q] \in Verifications /\ TypeOK
        /\ check[request[q].check] = NoCheck /\ request[q].check \in Checks
    BY Kinds DEF Verifies, Verifying, Inv, CreateVerificationIntent, Submits, Verifications
  <1>2. /\ check' = [check EXCEPT ![request[q].check] =
                       [user |-> request[q].id, status |-> "PENDING"]]
        /\ UNCHANGED <<user, verified>>
    BY DEF CreateVerificationIntent, NewRow
  <1>3. request' = [request EXCEPT ![q] = [request[q] EXCEPT !.at = "verify"]]
    BY <1>1 DEF CreateVerificationIntent, NewRow, Verifications, TypeOK
  <1>4. [request[q] EXCEPT !.at = "verify"] \in RequestStates
    BY <1>1 DEF Verifications, Verifying, RequestStates
  <1>5. /\ request' \in [Requests -> RequestStates] /\ OthersStay(q)
        /\ request'[q] = [request[q] EXCEPT !.at = "verify"]
    BY <1>1, <1>3, <1>4 DEF TypeOK, RequestStates, OthersStay
  <1>6. VerifiedBacked'
    <2>1. \A id \in Ids, d \in Checks :
            check'[d] = [user |-> id, status |-> "APPROVED"]
              <=> check[d] = [user |-> id, status |-> "APPROVED"]
      BY <1>1, <1>2 DEF TypeOK, NoCheck
    <2>2. QED
      BY <1>2, <2>1 DEF Inv, VerifiedBacked
  <1>7. verified' \subseteq Ids
    BY <1>1, <1>2 DEF TypeOK
  <1>8. QED
    BY <1>1, <1>2, <1>5, <1>6, <1>7, CheckStep

\* The row that a submission works on when the provider's answer is there.
LEMMA UnderVerification ==
  ASSUME Inv, NEW q \in Requests, request[q].at = "verify"
  PROVE  /\ Verifies(q) /\ request[q].check \in Checks /\ request[q].id \in Ids
         /\ check[request[q].check] = [user |-> request[q].id, status |-> "PENDING"]
  BY Kinds DEF Verifies, Verifying, Inv, Submits, Verifications

LEMMA VerdictInv ==
  ASSUME Inv, NEW q \in Requests,
         UpdateVerificationIntent(q) \/ CompleteSuccessfulKycVerification(q)
  PROVE  Inv'
  <1> DEFINE c == request[q].check
             id == request[q].id
  <1>1. /\ Verifies(q) /\ c \in Checks /\ id \in Ids /\ TypeOK
        /\ check[c] = [user |-> id, status |-> "PENDING"]
    BY UnderVerification DEF Inv, UpdateVerificationIntent, CompleteSuccessfulKycVerification
  <1>2. request' \in [Requests -> RequestStates] /\ OthersStay(q) /\ request'[q] = Idle
    BY <1>1, Answered DEF UpdateVerificationIntent, CompleteSuccessfulKycVerification
  <1>3. CASE UpdateVerificationIntent(q)
    <2>1. check' = [check EXCEPT ![c] = [user |-> id, status |-> "FAILED"]]
      <3>1. check' = [check EXCEPT ![c] = [check[c] EXCEPT !.status = "FAILED"]]
        BY <1>1, <1>3 DEF UpdateVerificationIntent, TypeOK
      <3>2. [check[c] EXCEPT !.status = "FAILED"] = [user |-> id, status |-> "FAILED"]
        BY <1>1
      <3>3. QED
        BY <3>1, <3>2
    <2>2. \A i \in Ids, d \in Checks :
            check'[d] = [user |-> i, status |-> "APPROVED"]
              <=> check[d] = [user |-> i, status |-> "APPROVED"]
      BY <1>1, <2>1 DEF TypeOK
    <2>3. VerifiedBacked' /\ verified' \subseteq Ids /\ user' = user
      BY <1>1, <1>3, <2>2 DEF Inv, VerifiedBacked, UpdateVerificationIntent, TypeOK
    <2>4. QED
      BY <1>1, <1>2, <2>1, <2>3, CheckStep
  <1>4. CASE CompleteSuccessfulKycVerification(q)
    <2>1. check' = [check EXCEPT ![c] = [user |-> id, status |-> "APPROVED"]]
      <3>1. check' = [check EXCEPT ![c] = [check[c] EXCEPT !.status = "APPROVED"]]
        BY <1>1, <1>4 DEF CompleteSuccessfulKycVerification, TypeOK
      <3>2. [check[c] EXCEPT !.status = "APPROVED"] = [user |-> id, status |-> "APPROVED"]
        BY <1>1
      <3>3. QED
        BY <3>1, <3>2
    <2>2. verified' = verified \cup {id} /\ user' = user
      BY <1>4 DEF CompleteSuccessfulKycVerification, Verified
    <2>3. check'[c] = [user |-> id, status |-> "APPROVED"]
          /\ \A d \in Checks \ {c} : check'[d] = check[d]
      BY <1>1, <2>1 DEF TypeOK
    <2>4. ASSUME NEW i \in Ids
          PROVE  i \in verified' <=> \E d \in Checks : check'[d] = [user |-> i, status |-> "APPROVED"]
      <3>1. CASE i = id
        BY <1>1, <2>2, <2>3, <3>1
      <3>2. CASE i # id
        <4>1. check[c] # [user |-> i, status |-> "APPROVED"]
              /\ check'[c] # [user |-> i, status |-> "APPROVED"]
          BY <1>1, <2>3, <3>2
        <4>2. QED
          BY <2>2, <2>3, <3>2, <4>1 DEF Inv, VerifiedBacked
      <3>3. QED
        BY <3>1, <3>2
    <2>5. VerifiedBacked' /\ verified' \subseteq Ids
      BY <1>1, <2>2, <2>4 DEF VerifiedBacked, TypeOK
    <2>6. QED
      BY <1>1, <1>2, <2>1, <2>2, <2>5, CheckStep
  <1>5. QED
    BY <1>3, <1>4

\* The steps by which a registration or a submission looks things up.
LEMMA LooksInv ==
  ASSUME Inv, NEW q \in Requests, FindByEmail(q) \/ FindByPhone(q) \/ Stop(q)
  PROVE  Inv'
  BY AnswerInv, LookUpInv DEF FindByEmail, FindByPhone, Stop

LEMMA StepInv == Inv /\ [Next]_vars => Inv'
  <1>1. ASSUME Inv, UNCHANGED vars PROVE Inv'
    BY <1>1 DEF vars, Inv, TypeOK, Claims, Submits, IdentitiesUnique, VerifiedBacked, Exists,
                Registers, Verifies, Apart
  <1>2. ASSUME Inv, Next PROVE Inv'
    BY <1>2, RegisterInv, VerifyMockKycInv, LooksInv, GenerateUniqueFinxTagInv, InsertUserInv,
       RegisterUserWithWalletInv, FindProfileInv, CreateVerificationIntentInv, VerdictInv
       DEF Next, Start, Proceed
  <1>3. QED
    BY <1>1, <1>2

\* Every behaviour of Onboarding keeps the invariant.
THEOREM Invariance == Spec => []Inv
  BY InitInv, StepInv, PTL DEF Spec

\* Registrations that overlap never make two accounts with one e-mail address,
\* one FINX tag or one phone number in one spelling.
THEOREM IdentitiesStayUnique == Spec => []IdentitiesUnique
  <1>1. Inv => IdentitiesUnique
    BY DEF Inv
  <1>2. QED
    BY Invariance, <1>1, PTL

\* Every phone number at work or on a row came with a form.
PhonesSent ==
  /\ \A q \in Requests : Registers(q) => \E form \in Forms : request[q].phone = form.phone
  /\ \A id \in Ids : Exists(id) => \E form \in Forms : user[id].phone = form.phone

\* A registration has the number it came with until it ends.
LEMMA PhoneCarried ==
  ASSUME Inv, NEW p \in Requests, Start(p) \/ Proceed(p) \/ Stop(p)
  PROVE  /\ OthersStay(p)
         /\ Registers(p)' =>
              \/ Registers(p) /\ request'[p].phone = request[p].phone
              \/ \E form \in Forms : request'[p].phone = form.phone
  <1> DEFINE Carried ==
        /\ OthersStay(p)
        /\ Registers(p)' =>
             \/ Registers(p) /\ request'[p].phone = request[p].phone
             \/ \E form \in Forms : request'[p].phone = form.phone
  <1> SUFFICES Carried
    OBVIOUS
  <1> TypeOK
    BY DEF Inv
  <1> USE DEF OthersStay, Registers, Registering
  <1>1. CASE request'[p] = Idle /\ OthersStay(p)
    BY <1>1 DEF Idle
  <1>2. CASE Answer(p)
    BY <1>1, <1>2, Answered
  <1>3. ASSUME NEW step, Goto(p, step), request[p].at \in Registering PROVE Carried
    <2>1. request'[p] = [request[p] EXCEPT !.at = step] /\ OthersStay(p)
      BY <1>3 DEF Goto, TypeOK
    <2>2. request[p] \in Registrations
      BY <1>3, Kinds
    <2>3. QED
      BY <1>3, <2>1, <2>2 DEF Registrations
  <1>4. ASSUME NEW form \in Forms, Register(p, form) PROVE Carried
    BY <1>4 DEF Register, TypeOK
  <1>5. CASE FindByEmail(p) \/ FindByPhone(p)
    BY <1>2, <1>3, <1>5 DEF FindByEmail, FindByPhone
  <1>6. CASE GenerateUniqueFinxTag(p)
    <2>1. request[p] \in Registrations
      BY <1>6, Kinds DEF GenerateUniqueFinxTag
    <2>2. CASE ~Answer(p)
      BY <1>6, <2>1, <2>2 DEF GenerateUniqueFinxTag, Registrations, TypeOK
    <2>3. QED
      BY <1>2, <2>2
  <1>7. CASE InsertUser(p)
    <2>1. request[p] \in Registrations
      BY <1>7, Kinds DEF InsertUser
    <2>2. CASE ~Answer(p) /\ ~Goto(p, "commit")
      BY <1>7, <2>1, <2>2 DEF InsertUser, TagRefused, Registrations, TypeOK
    <2>3. QED
      BY <1>2, <1>3, <1>7, <2>2 DEF InsertUser
  <1>8. CASE RegisterUserWithWallet(p) \/ Stop(p) \/ UpdateVerificationIntent(p)
               \/ CompleteSuccessfulKycVerification(p)
    BY <1>2, <1>8
    DEF RegisterUserWithWallet, Stop, UpdateVerificationIntent, CompleteSuccessfulKycVerification
  <1>9. ASSUME NEW id \in Ids, NEW bvn \in Bvns, VerifyMockKyc(p, id, bvn) PROVE Carried
    BY <1>9 DEF VerifyMockKyc, TypeOK
  <1>10. CASE VerifyUserExistsWithFreshProfile(p)
    <2>1. CASE Goto(p, "createIntent")
      <3>1. request[p] \in Verifications
        BY <1>10, Kinds DEF VerifyUserExistsWithFreshProfile, Verifies, Verifying
      <3>2. QED
        BY <2>1, <3>1 DEF Goto, TypeOK, Verifications
    <2>2. QED
      BY <1>2, <1>10, <2>1 DEF VerifyUserExistsWithFreshProfile
  <1>11. CASE CreateVerificationIntent(p)
    <2>1. request[p] \in Verifications
      BY <1>11, Kinds DEF CreateVerificationIntent, Verifies, Verifying
    <2>2. QED
      BY <1>11, <2>1 DEF CreateVerificationIntent, TypeOK, Verifications
  <1>12. QED
    BY <1>4, <1>5, <1>6, <1>7, <1>8, <1>9, <1>10, <1>11 DEF Start, Proceed

\* Only the commit of a registration makes a row, with the number of the request.
LEMMA UsersWritten ==
  ASSUME Inv, Next, NEW id \in Ids, user'[id] # user[id]
  PROVE  \E q \in Requests : Registers(q) /\ user'[id].phone = request[q].phone
  <1>1. PICK q \in Requests : RegisterUserWithWallet(q)
    BY DEF Next, Start, Proceed, Stop, rows, Register, VerifyMockKyc, FindByEmail, FindByPhone,
           GenerateUniqueFinxTag, InsertUser, VerifyUserExistsWithFreshProfile,
           CreateVerificationIntent, UpdateVerificationIntent, CompleteSuccessfulKycVerification
  <1>2. Registers(q)
    BY <1>1 DEF RegisterUserWithWallet, Registers, Registering
  <1>3. user'[id].phone = request[q].phone
    BY <1>1 DEF RegisterUserWithWallet, Inv, TypeOK
  <1>4. QED
    BY <1>2, <1>3

LEMMA PhonesSentStep == Inv /\ PhonesSent /\ [Next]_vars => PhonesSent'
  <1>1. ASSUME Inv, PhonesSent, UNCHANGED vars PROVE PhonesSent'
    BY <1>1 DEF vars, PhonesSent, Registers, Exists
  <1>2. ASSUME Inv, PhonesSent, Next PROVE PhonesSent'
    <2>1. ASSUME NEW q \in Requests, Registers(q)' PROVE \E form \in Forms : request'[q].phone = form.phone
      <3>1. PICK p \in Requests : Start(p) \/ Proceed(p) \/ Stop(p)
        BY <1>2 DEF Next
      <3>2. CASE q = p
        BY <1>2, <2>1, <3>1, <3>2, PhoneCarried DEF PhonesSent
      <3>3. CASE q # p
        BY <1>2, <2>1, <3>1, <3>3, PhoneCarried DEF PhonesSent, OthersStay, Registers
      <3>4. QED
        BY <3>2, <3>3
    <2>2. ASSUME NEW id \in Ids, Exists(id)' PROVE \E form \in Forms : user'[id].phone = form.phone
      <3>1. CASE user'[id] = user[id]
        BY <1>2, <2>2, <3>1 DEF PhonesSent, Exists
      <3>2. CASE user'[id] # user[id]
        BY <1>2, <3>2, UsersWritten DEF PhonesSent
      <3>3. QED
        BY <3>1, <3>2
    <2>3. QED
      BY <2>1, <2>2 DEF PhonesSent
  <1>3. QED
    BY <1>1, <1>2

\* Two accounts get one phone number only by spelling it in two ways: while
\* every number is always sent in one, its column's unique index is enough.
THEOREM NumbersUniqueAsSpelled ==
  (\A form, other \in Forms :
     normalizePhone(form.phone) = normalizePhone(other.phone) => form.phone = other.phone)
  /\ Spec => []NumbersUnique
  <1> SUFFICES ASSUME \A form, other \in Forms :
                        normalizePhone(form.phone) = normalizePhone(other.phone) => form.phone = other.phone
               PROVE  Spec => []NumbersUnique
    OBVIOUS
  <1>1. Init => PhonesSent
    BY DEF Init, PhonesSent, Registers, Registering, Exists, Idle
  <1>2. Inv /\ PhonesSent => NumbersUnique
    BY DEF Inv, PhonesSent, IdentitiesUnique, Apart, NumbersUnique
  <1>3. QED
    BY <1>1, <1>2, Invariance, PhonesSentStep, PTL DEF Spec

\* Profiles are verified exactly when a verification is approved.
THEOREM VerifiedIffApproved == Spec => []VerifiedBacked
  <1>1. Inv => VerifiedBacked
    BY DEF Inv
  <1>2. QED
    BY Invariance, <1>1, PTL

\* Only these steps write verifications.
LEMMA ChecksWritten ==
  ASSUME Next, check' # check
  PROVE  \E q \in Requests :
           \/ CreateVerificationIntent(q) \/ UpdateVerificationIntent(q)
           \/ CompleteSuccessfulKycVerification(q)
  BY DEF Next, Start, Proceed, Stop, Register, VerifyMockKyc, FindByEmail, FindByPhone,
         GenerateUniqueFinxTag, InsertUser, RegisterUserWithWallet,
         VerifyUserExistsWithFreshProfile, rows

\* Verifications keep to the table, and their verdicts are final.
THEOREM VerdictsStay == Spec => VerdictsFinal
  <1>1. ASSUME Inv, Next, NEW c \in Checks, check'[c] # check[c]
        PROVE  <<check[c].status, check'[c].status>> \in AllowedTransitions
    <2>1. PICK q \in Requests :
            \/ CreateVerificationIntent(q) \/ UpdateVerificationIntent(q)
            \/ CompleteSuccessfulKycVerification(q)
      BY <1>1, ChecksWritten
    <2>2. CASE CreateVerificationIntent(q)
      <3>1. check[request[q].check] = NoCheck
        BY <1>1, <2>2, Kinds DEF Inv, Submits, CreateVerificationIntent, Verifies, Verifying
      <3>2. c = request[q].check /\ check'[c].status = "PENDING"
        BY <1>1, <2>2 DEF CreateVerificationIntent, NewRow, Inv, TypeOK
      <3>3. QED
        BY <3>1, <3>2 DEF NoCheck, AllowedTransitions
    <2>3. CASE UpdateVerificationIntent(q) \/ CompleteSuccessfulKycVerification(q)
      <3>1. check[request[q].check] = [user |-> request[q].id, status |-> "PENDING"]
        BY <1>1, <2>3, UnderVerification
           DEF UpdateVerificationIntent, CompleteSuccessfulKycVerification
      <3>2. c = request[q].check /\ check'[c].status \in {"FAILED", "APPROVED"}
        BY <1>1, <2>3, <3>1 DEF UpdateVerificationIntent, CompleteSuccessfulKycVerification,
                                Inv, TypeOK
      <3>3. QED
        BY <3>1, <3>2 DEF AllowedTransitions
    <2>4. QED
      BY <2>1, <2>2, <2>3
  <1>2. Inv /\ [Next]_vars =>
          [\A c \in Checks :
             check'[c] # check[c] => <<check[c].status, check'[c].status>> \in AllowedTransitions]_vars
    BY <1>1
  <1>3. QED
    BY Invariance, <1>2, PTL DEF Spec, VerdictsFinal

\* What the steps of other requests and of this one do to a settled user.
LEMMA SettledStep ==
  ASSUME Inv, Next, NEW id \in Ids, Settled(id)
  PROVE  Settled(id)' /\ ChecksOf(id)' = ChecksOf(id)
  <1>1. PICK q \in Requests : Start(q) \/ Proceed(q) \/ Stop(q)
    BY DEF Next
  <1>2. TypeOK /\ id # None /\ id \in verified /\ Exists(id)
        /\ (request[q].id = id => request[q].at = "findProfile")
    BY ConstantsAssumption DEF Inv, Settled
  <1>3. SUFFICES ASSUME Exists(id)', id \in verified', ChecksOf(id)' = ChecksOf(id),
                        OthersStay(q),
                        request'[q].id = id => request'[q].at = "findProfile"
                 PROVE  Settled(id)' /\ ChecksOf(id)' = ChecksOf(id)
    <2> SUFFICES /\ Exists(id)' /\ id \in verified' /\ ChecksOf(id)' = ChecksOf(id)
                 /\ OthersStay(q)
                 /\ request'[q].id = id => request'[q].at = "findProfile"
      BY DEF Settled, OthersStay
    <2> USE <1>2
    <2>1. CASE Stop(q)
      BY <2>1, Answered DEF Stop, rows, Exists, ChecksOf, Idle
    <2>2. ASSUME NEW form \in Forms, Register(q, form)
          PROVE  /\ request'[q].id # id /\ OthersStay(q) /\ UNCHANGED rows
      BY <2>2, FreshOnes DEF Register, OthersStay, TypeOK
    <2>3. ASSUME NEW i \in Ids, NEW bvn \in Bvns, VerifyMockKyc(q, i, bvn)
          PROVE  /\ request'[q].at = "findProfile" /\ OthersStay(q) /\ UNCHANGED rows
      BY <2>3 DEF VerifyMockKyc, OthersStay, TypeOK
    <2>4. CASE Start(q)
      BY <2>2, <2>3, <2>4 DEF Start, rows, Exists, ChecksOf
    <2>5. CASE Answer(q) /\ UNCHANGED rows
      BY <2>5, Answered DEF rows, Exists, ChecksOf, Idle
    <2>6. CASE FindByEmail(q) \/ FindByPhone(q) \/ InsertUser(q) \/ GenerateUniqueFinxTag(q)
      <3>1. request[q].id # id /\ Registers(q) /\ request[q] \in Registrations
        BY <2>6, Kinds DEF FindByEmail, FindByPhone, InsertUser, GenerateUniqueFinxTag,
                           Registers, Registering
      <3>2. UNCHANGED rows
        BY <2>6 DEF FindByEmail, FindByPhone, InsertUser, GenerateUniqueFinxTag
      <3>3. CASE ~Answer(q)
        <4>1. request'[q].id = request[q].id /\ OthersStay(q)
          BY <2>6, <3>1, <3>3 DEF FindByEmail, FindByPhone, InsertUser, GenerateUniqueFinxTag,
                            TagRefused, Goto, Registrations, OthersStay, TypeOK
        <4>2. QED
          BY <3>1, <3>2, <4>1 DEF rows, Exists, ChecksOf
      <3>4. QED
        BY <2>5, <3>2, <3>3
    <2>7. CASE RegisterUserWithWallet(q)
      <3>1. request[q].id # id /\ request[q].id \in Ids
        BY <2>7, Kinds DEF RegisterUserWithWallet, Registers, Registering, Registrations
      <3>2. user'[id] = user[id] /\ UNCHANGED <<verified, check>> /\ Answer(q)
        BY <2>7, <3>1 DEF RegisterUserWithWallet, TypeOK
      <3>3. QED
        BY <3>2, Answered DEF Exists, ChecksOf, Idle
    <2>8. CASE VerifyUserExistsWithFreshProfile(q)
      <3>1. UNCHANGED rows
        BY <2>8 DEF VerifyUserExistsWithFreshProfile
      <3>2. CASE FreshProfile(request[q].id)
        <4>1. request[q].id # id /\ request[q] \in Verifications /\ Goto(q, "createIntent")
          BY <2>8, <3>2, Kinds DEF VerifyUserExistsWithFreshProfile, FreshProfile,
                                   Verifies, Verifying
        <4>2. request'[q].id = request[q].id /\ OthersStay(q)
          BY <4>1 DEF Goto, Verifications, OthersStay, TypeOK
        <4>3. QED
          BY <3>1, <4>1, <4>2 DEF rows, Exists, ChecksOf
      <3>3. QED
        BY <2>5, <2>8, <3>1, <3>2 DEF VerifyUserExistsWithFreshProfile
    <2>9. CASE CreateVerificationIntent(q)
      <3>1. /\ request[q].id # id /\ request[q] \in Verifications
            /\ check[request[q].check] = NoCheck /\ request[q].check \in Checks
        BY <2>9, Kinds DEF CreateVerificationIntent, Verifies, Verifying, Verifications,
                           Inv, Submits
      <3>2. /\ check' = [check EXCEPT ![request[q].check] =
                           [user |-> request[q].id, status |-> "PENDING"]]
            /\ UNCHANGED <<user, verified>>
        BY <2>9 DEF CreateVerificationIntent, NewRow
      <3>3. request'[q].id = request[q].id /\ OthersStay(q)
        BY <2>9, <3>1 DEF CreateVerificationIntent, Verifications, OthersStay, TypeOK
      <3>4. ASSUME NEW c \in Checks
            PROVE  (check'[c] # NoCheck /\ check'[c].user = id)
                     <=> (check[c] # NoCheck /\ check[c].user = id)
        BY <3>1, <3>2 DEF TypeOK
      <3>5. ChecksOf(id)' = ChecksOf(id)
        BY <3>4 DEF ChecksOf
      <3>6. QED
        BY <3>1, <3>2, <3>3, <3>5 DEF Exists
    <2>10. CASE UpdateVerificationIntent(q) \/ CompleteSuccessfulKycVerification(q)
      <3>1. /\ request[q].check \in Checks /\ request[q].id \in Ids
            /\ check[request[q].check] = [user |-> request[q].id, status |-> "PENDING"]
        BY <2>10, UnderVerification
           DEF UpdateVerificationIntent, CompleteSuccessfulKycVerification
      <3>2. Answer(q) /\ user' = user /\ verified \subseteq verified'
        BY <2>10 DEF UpdateVerificationIntent, CompleteSuccessfulKycVerification, Verified
      <3>3. PICK status \in {"FAILED", "APPROVED"} :
              check' = [check EXCEPT ![request[q].check].status = status]
        BY <2>10 DEF UpdateVerificationIntent, CompleteSuccessfulKycVerification
      <3>4. /\ check'[request[q].check].user = request[q].id
            /\ check'[request[q].check] # NoCheck
            /\ \A c \in Checks : c # request[q].check => check'[c] = check[c]
        BY <3>1, <3>3 DEF TypeOK, NoCheck
      <3>5. ChecksOf(id)' = ChecksOf(id)
        BY <3>1, <3>4 DEF ChecksOf, NoCheck
      <3>6. QED
        BY <3>2, <3>5, Answered DEF Exists, Idle
    <2>11. QED
      BY <1>1, <2>1, <2>4, <2>6, <2>7, <2>8, <2>9, <2>10 DEF Proceed
  <1>4. QED
    BY <1>2, <1>3 DEF Settled, OthersStay

\* Once settled, a verified user's verifications change no more.
THEOREM SettledStays == Spec => VerifiedSettles
  <1>1. Inv /\ [Next]_vars =>
          [\A id \in Ids : Settled(id) => Settled(id)' /\ ChecksOf(id)' = ChecksOf(id)]_vars
    BY SettledStep
  <1>2. QED
    BY Invariance, <1>1, PTL DEF Spec, VerifiedSettles
=============================================================================
