----------------------------- MODULE Onboarding -----------------------------
(***************************************************************************)
(* How accounts come into being: AuthService.register over                 *)
(* AuthRepository.registerUserWithWallet (modules/auth), and               *)
(* KycService.verifyMockKyc over KycRepository (modules/kyc).              *)
(*                                                                         *)
(* Registration reads before it writes: e-mail, phone number and FINX tag  *)
(* are looked up one after the other, each in a statement of its own, and  *)
(* only the unique indexes of User decide.  An insert waits while another  *)
(* transaction holds an uncommitted row with one of its values.            *)
(***************************************************************************)
EXTENDS Integers

CONSTANTS
  Emails,
  Numbers,      \* phone numbers, however they are written
  Dialable,     \* those that mockVerifyPhoneNumber accepts
  Names,        \* normalised full names, the bases of FINX tags
  Suffixes,     \* the random suffixes of FINX tags
  NoSuffix,
  Forms,        \* the registration forms that may be sent
  Bvns,         \* the bank verification numbers that may be sent
  MaxAttempts,  \* MAX_FINX_TAG_GENERATION_ATTEMPTS
  Ids,          \* ids of User rows
  Checks,       \* ids of KycVerification rows
  Requests,     \* concurrent requests
  None

\* A phone number as a form spells it: registerSchema lets digits and a leading
\* plus sign through, with the country code of Nigeria or without.
Phones == [prefix : {"0", "+0", "234", "+234"}, number : Numbers]

\* The one spelling that normalizePhone makes of all of them.
normalizePhone(phone) == phone.number

ASSUME ConstantsAssumption ==
  /\ MaxAttempts \in Nat \ {0}
  /\ Dialable \subseteq Numbers
  /\ Forms \subseteq [email : Emails, phone : Phones, name : Names]
  /\ Bvns \subseteq [first : 0 .. 9, alike : BOOLEAN]
  /\ NoSuffix \notin Suffixes
  /\ None \notin Ids \cup Checks

VARIABLES
  user,       \* User rows; each is committed with its wallet, KycProfile and Profile
  verified,   \* users whose KycProfile is verified and has status VERIFIED
  check,      \* KycVerification rows
  request     \* where a request is and what it works on

rows == <<user, verified, check>>
vars == <<user, verified, check, request>>

Tags  == Names \X (Suffixes \cup {NoSuffix})
NoTag == <<>>

UserRows  == [email : Emails, phone : {phone \in Phones : normalizePhone(phone) \in Dialable},
              tag : Tags]
NoUser    == [email |-> None]
CheckRows == [user : Ids, status : {"PENDING", "APPROVED", "FAILED"}]
NoCheck   == [status |-> "none"]

Registering == {"findEmail", "findPhone", "chooseTag", "insert", "commit"}
Verifying   == {"findProfile", "createIntent", "verify"}

Registrations == [at : Registering, id : Ids, email : Emails, phone : Phones, name : Names,
                  attempt : 0 .. MaxAttempts, candidate : 0 .. MaxAttempts,
                  tag : Tags \cup {NoTag}]
Verifications == [at : Verifying, id : Ids, check : Checks, bvn : Bvns]
Idle          == [at |-> "idle", id |-> None]

TypeOK ==
  /\ user \in [Ids -> UserRows \cup {NoUser}]
  /\ verified \subseteq Ids
  /\ check \in [Checks -> CheckRows \cup {NoCheck}]
  /\ request \in [Requests -> Registrations \cup Verifications \cup {Idle}]

Init ==
  /\ user = [id \in Ids |-> NoUser]
  /\ verified = {}
  /\ check = [c \in Checks |-> NoCheck]
  /\ request = [q \in Requests |-> Idle]
-----------------------------------------------------------------------------
Exists(id) == user[id] # NoUser
Goto(q, step) == request' = [request EXCEPT ![q].at = step]
Answer(q)     == request' = [request EXCEPT ![q] = Idle]

Registers(q) == request[q].at \in Registering
Verifies(q)  == request[q].at \in Verifying

\* Ids are random UUIDs, drawn here as a request starts.  Ids and Checks bound
\* how many registrations and verifications a behaviour completes.
FreshIds    == {id \in Ids : ~Exists(id) /\ \A q \in Requests : request[q].id # id}
FreshChecks == {c \in Checks : /\ check[c] = NoCheck
                               /\ \A q \in Requests : Verifies(q) => request[q].check # c}

\* The process stops, a statement fails or the transaction times out after its
\* 15 seconds: what is not committed is rolled back.
Stop(q) ==
  /\ request[q].at # "idle"
  /\ Answer(q)
  /\ UNCHANGED rows
-----------------------------------------------------------------------------
(* register.                                                               *)

Register(q, form) ==
  /\ request[q].at = "idle" /\ FreshIds # {}
  /\ request' = [request EXCEPT ![q] =
       [at |-> "findEmail", id |-> CHOOSE id \in FreshIds : TRUE,
        email |-> form.email, phone |-> form.phone, name |-> form.name,
        attempt |-> 0, candidate |-> 0, tag |-> NoTag]]
  /\ UNCHANGED rows

EmailTaken(email) == \E id \in Ids : Exists(id) /\ user[id].email = email
PhoneTaken(phone) == \E id \in Ids : Exists(id) /\ user[id].phone = phone
TagTaken(tag)     == \E id \in Ids : Exists(id) /\ user[id].tag = tag

\* findUserByEmail.
FindByEmail(q) ==
  /\ request[q].at = "findEmail"
  /\ IF EmailTaken(request[q].email) THEN Answer(q) ELSE Goto(q, "findPhone")
  /\ UNCHANGED rows

\* existsByPhoneNumber looks for the number as it is written; format and network
\* are judged on its normal form, which is then forgotten.
FindByPhone(q) ==
  LET phone == request[q].phone IN
  /\ request[q].at = "findPhone"
  /\ IF PhoneTaken(phone) \/ normalizePhone(phone) \notin Dialable THEN Answer(q) ELSE Goto(q, "chooseTag")
  /\ UNCHANGED rows

\* The first candidate is the name itself, later ones have a random suffix.
\* (That a name ends in the digits of another one's suffix is left out.)
Candidates(name, n) ==
  IF n = 0 THEN {<<name, NoSuffix>>} ELSE {<<name, s>> : s \in Suffixes}

\* Mutant: a candidate that is taken is tried again.
SameCandidate(n) == n

NextCandidate(n) == n + 1

\* One turn of the loop of generateUniqueFinxTag, or its error after the last.
GenerateUniqueFinxTag(q) ==
  LET r == request[q] IN
  /\ r.at = "chooseTag"
  /\ \/ /\ r.candidate = MaxAttempts
        /\ Answer(q)
     \/ /\ r.candidate < MaxAttempts
        /\ \E tag \in Candidates(r.name, r.candidate) :
             request' = IF TagTaken(tag)
                        THEN [request EXCEPT ![q].candidate = NextCandidate(@)]
                        ELSE [request EXCEPT ![q].at = "insert", ![q].tag = tag]
  /\ UNCHANGED rows

\* Mutant: nothing keeps two open transactions from inserting the same values.
NeverWaits(q) == FALSE

\* Another transaction's uncommitted row has one of the values: the insert waits
\* for the end of that transaction.
Waits(q) ==
  \E p \in Requests :
    /\ p # q /\ request[p].at = "commit"
    /\ \/ request[p].email = request[q].email
       \/ request[p].phone = request[q].phone
       \/ request[p].tag = request[q].tag

\* isFinxTagConflict: the driver may or may not name the column of the index
\* that refused the row, and of several it names one.  A conflict that is not
\* known to be the tag's ends the request in an error.
TagRefused(q) ==
  LET r == request[q]
      next == r.attempt + 1
  IN
  \/ /\ TagTaken(r.tag)
     /\ request' = [request EXCEPT ![q].at = "chooseTag",
                                   ![q].attempt = next, ![q].candidate = next]
  \/ Answer(q)

\* user.create, the first statement of the transaction.
InsertUser(q) ==
  LET r == request[q] IN
  /\ r.at = "insert" /\ ~Waits(q)
  /\ IF EmailTaken(r.email) \/ PhoneTaken(r.phone) \/ TagTaken(r.tag)
     THEN TagRefused(q)
     ELSE Goto(q, "commit")
  /\ UNCHANGED rows

\* The wallet, the KycProfile and the Profile follow, and the commit.  The
\* first session is made as in Sessions.
RegisterUserWithWallet(q) ==
  LET r == request[q] IN
  /\ r.at = "commit"
  /\ user' = [user EXCEPT ![r.id] = [email |-> r.email, phone |-> r.phone, tag |-> r.tag]]
  /\ Answer(q)
  /\ UNCHANGED <<verified, check>>
-----------------------------------------------------------------------------
(* verifyMockKyc.                                                          *)

\* What mockVerifyBvn makes of a number: eleven digits (the schema sees to
\* that) that are not all alike and start with 2.
mockVerifyBvn(bvn) == ~bvn.alike /\ bvn.first = 2

VerifyMockKyc(q, id, bvn) ==
  /\ request[q].at = "idle" /\ Exists(id) /\ FreshChecks # {}
  /\ request' = [request EXCEPT ![q] =
       [at |-> "findProfile", id |-> id, check |-> CHOOSE c \in FreshChecks : TRUE,
        bvn |-> bvn]]
  /\ UNCHANGED rows

\* Mutant: the profile is fresh whatever its status.
AlwaysFresh(id) == TRUE

FreshProfile(id) == id \notin verified

VerifyUserExistsWithFreshProfile(q) ==
  /\ request[q].at = "findProfile"
  /\ IF FreshProfile(request[q].id) THEN Goto(q, "createIntent") ELSE Answer(q)
  /\ UNCHANGED rows

\* Mutant: a submission takes up a verification of the user that has failed.
RetriedRow(q) ==
  LET failed == {c \in Checks : check[c] # NoCheck /\ check[c].user = request[q].id
                                /\ check[c].status = "FAILED"} IN
  IF failed # {} THEN CHOOSE c \in failed : TRUE ELSE request[q].check

NewRow(q) == request[q].check

CreateVerificationIntent(q) ==
  LET c == NewRow(q) IN
  /\ request[q].at = "createIntent"
  /\ check' = [check EXCEPT ![c] = [user |-> request[q].id, status |-> "PENDING"]]
  /\ request' = [request EXCEPT ![q].at = "verify", ![q].check = c]
  /\ UNCHANGED <<user, verified>>

\* mockVerifyBvn rejects the number.
UpdateVerificationIntent(q) ==
  /\ request[q].at = "verify"
  /\ ~mockVerifyBvn(request[q].bvn)
  /\ check' = [check EXCEPT ![request[q].check].status = "FAILED"]
  /\ Answer(q)
  /\ UNCHANGED <<user, verified>>

\* Mutant: the profile is not part of the transaction.
LeftUnverified(id) == verified

Verified(id) == verified \cup {id}

\* It accepts it: one transaction approves the row and verifies the profile.
CompleteSuccessfulKycVerification(q) ==
  /\ request[q].at = "verify"
  /\ mockVerifyBvn(request[q].bvn)
  /\ check' = [check EXCEPT ![request[q].check].status = "APPROVED"]
  /\ verified' = Verified(request[q].id)
  /\ Answer(q)
  /\ UNCHANGED user
-----------------------------------------------------------------------------
Start(q) ==
  \/ \E form \in Forms : Register(q, form)
  \/ \E id \in Ids, bvn \in Bvns : VerifyMockKyc(q, id, bvn)

Proceed(q) ==
  \/ FindByEmail(q) \/ FindByPhone(q) \/ GenerateUniqueFinxTag(q)
  \/ InsertUser(q) \/ RegisterUserWithWallet(q)
  \/ VerifyUserExistsWithFreshProfile(q) \/ CreateVerificationIntent(q)
  \/ UpdateVerificationIntent(q) \/ CompleteSuccessfulKycVerification(q)

Next == \E q \in Requests : Start(q) \/ Proceed(q) \/ Stop(q)

Spec == Init /\ [][Next]_vars

\* The process and the database go on with what they can go on with, and an
\* insert that keeps waiting is ended by the timeout of its transaction.
TimesOut(q) == request[q].at = "insert" /\ Stop(q)

Fairness == \A q \in Requests : WF_vars(Proceed(q) \/ TimesOut(q))

FairSpec == Spec /\ Fairness
-----------------------------------------------------------------------------
(* Properties.                                                             *)

Apart(r, s) == r.email # s.email /\ r.phone # s.phone /\ r.tag # s.tag

\* What a registration knows: from the insert to the commit no row, committed
\* or not, has a value of its own.
Claims(q) ==
  LET r == request[q] IN
  /\ Registers(q) =>
       /\ ~Exists(r.id)
       /\ \A p \in Requests \ {q} : request[p].id # r.id
       /\ r.attempt <= r.candidate
  /\ r.at \in {"chooseTag", "insert", "commit"} => normalizePhone(r.phone) \in Dialable
  /\ r.at = "insert" => r.tag \in Tags /\ r.candidate < MaxAttempts
  /\ r.at = "commit" =>
       /\ r.tag \in Tags
       /\ \A id \in Ids : Exists(id) => Apart(r, user[id])
       /\ \A p \in Requests \ {q} : request[p].at = "commit" => Apart(r, request[p])

\* What a verification knows: its row is its own, and pending once it is made.
Submits(q) ==
  LET r == request[q] IN
  Verifies(q) =>
    /\ Exists(r.id)
    /\ \A p \in Requests \ {q} : Verifies(p) => request[p].check # r.check
    /\ check[r.check] = IF r.at = "verify" THEN [user |-> r.id, status |-> "PENDING"]
                        ELSE NoCheck

\* No two accounts share an e-mail address, a FINX tag or a phone number written
\* in the same way, although registrations that overlap all find the value free.
IdentitiesUnique ==
  \A id, other \in Ids :
    (Exists(id) /\ Exists(other) /\ id # other) => Apart(user[id], user[other])

\* No two accounts hold one phone number, however it is written ("An account
\* already exists with this Phone Number.", auth.service.ts:46).
NumbersUnique ==
  \A id, other \in Ids :
    (Exists(id) /\ Exists(other) /\ id # other) =>
      normalizePhone(user[id].phone) # normalizePhone(user[other].phone)

\* A profile is verified if and only if a verification of its user has been
\* approved, wherever a submission stops.
VerifiedBacked ==
  \A id \in Ids :
    id \in verified <=> \E c \in Checks : check[c] = [user |-> id, status |-> "APPROVED"]

\* The inductive invariant.
Inv ==
  /\ TypeOK
  /\ \A q \in Requests : Claims(q) /\ Submits(q)
  /\ IdentitiesUnique
  /\ VerifiedBacked

\* Verifications keep to the table of kyc.state.ts, although nothing calls
\* assertKycTransition: they start PENDING, and a verdict is final, whoever
\* submits again or at the same time.
AllowedTransitions == {<<"none", "PENDING">>, <<"PENDING", "APPROVED">>, <<"PENDING", "FAILED">>}

VerdictsFinal ==
  [][\A c \in Checks :
       check'[c] # check[c] => <<check[c].status, check'[c].status>> \in AllowedTransitions]_vars

\* Submissions that overlap may each be approved.  But once the user is verified
\* and none is past its look at the profile, none ever is: no row is made again.
Settled(id) ==
  /\ Exists(id) /\ id \in verified
  /\ \A q \in Requests : request[q].id = id => request[q].at = "findProfile"

ChecksOf(id) == {c \in Checks : check[c] # NoCheck /\ check[c].user = id}

VerifiedSettles ==
  [][\A id \in Ids : Settled(id) => Settled(id)' /\ ChecksOf(id)' = ChecksOf(id)]_vars

\* Every registration ends: conflicts, taken tags and waiting for other
\* registrations come to an end, whether or not the driver names the column.
RequestsEnd == \A q \in Requests : request[q].at # "idle" ~> request[q].at = "idle"
=============================================================================
