------------------------ MODULE WebhookCaptureProofs ------------------------
(***************************************************************************)
(* Theorems about WebhookCapture for every set of deposits, deliveries and *)
(* jobs and any number of attempts, stalls and crashes.                    *)
(***************************************************************************)
EXTENDS WebhookCapture, TLAPS

\* An intent that has SUCCEEDED is posted; one that is posted has SUCCEEDED,
\* or was marked FAILED afterwards.
CreditAgrees(r) ==
  /\ credits[r] \in {0, 1}
  /\ status[r] = "SUCCEEDED" => credits[r] = 1
  /\ credits[r] = 1 => status[r] \in {"SUCCEEDED", "FAILED"}
  /\ event[r] = "PROCESSED" => credits[r] = 1

\* A job that has not ended has an attempt left, and one that is about to mark
\* its event has found or made the posting.
JobAgrees(j) ==
  /\ IF job[j].state = "none" THEN job[j].ref = NoRef ELSE job[j].ref \in Refs
  /\ job[j].state \in {"waiting"} \cup Active =>
       job[j].attempts < MaxAttempts /\ job[j].stalls <= MaxStalls
  /\ job[j].state = "mark" => credits[job[j].ref] = 1

\* finx knows of the charge: its event is processed, or it has a job.
Kept(r) == event[r] = "PROCESSED" \/ \E j \in Jobs : job[j].ref = r

\* A 200 is sent only for what is kept.
DeliveryAgrees(d) ==
  /\ delivery[d].at # "idle" => delivery[d].ref \in Refs
  /\ delivery[d].at = "answer" => Kept(delivery[d].ref)

Inv ==
  /\ TypeOK
  /\ \A r \in Refs : CreditAgrees(r)
  /\ \A j \in Jobs : JobAgrees(j)
  /\ \A d \in Deliveries : DeliveryAgrees(d)
  /\ \A r \in Refs : acknowledged[r] => Kept(r)
-----------------------------------------------------------------------------
LEMMA Bounds == 0 \in 0..MaxAttempts /\ 0 \in 0..(MaxStalls + 1) /\ 0 \in 0..MaxCrashes
  BY ConstantsAssumption

LEMMA NewJobs == NoJob \in JobRows /\ \A r \in Refs : NewJob(r) \in JobRows
  BY Bounds DEF NoJob, NewJob, JobRows

LEMMA InitInv == Init => Inv
  <1> SUFFICES ASSUME Init PROVE Inv
    OBVIOUS
  <1>1. TypeOK
    BY NewJobs, Bounds DEF Init, TypeOK, PaymentStatus, Idle
  <1>2. QED
    BY <1>1 DEF Init, Inv, CreditAgrees, JobAgrees, DeliveryAgrees, NoJob, Idle, Active

\* What is kept stays kept.
LEMMA KeptStays ==
  ASSUME NEW r \in Refs, Kept(r),
         event[r] = "PROCESSED" => event'[r] = "PROCESSED",
         \A j \in Jobs : job[j].ref = r => job'[j].ref = r
  PROVE  Kept(r)'
  BY DEF Kept

\* A step of one job, that keeps its reference if it has one: the others and
\* what is kept stay as they are.
LEMMA OneJob ==
  ASSUME Inv, NEW j \in Jobs, NEW row \in JobRows, job' = [job EXCEPT ![j] = row],
         job[j].ref \in Refs => row.ref = job[j].ref,
         \A r \in Refs : event[r] = "PROCESSED" => event'[r] = "PROCESSED"
  PROVE  /\ job' \in [Jobs -> JobRows]
         /\ job'[j] = row
         /\ \A k \in Jobs \ {j} : job'[k] = job[k]
         /\ \A r \in Refs : Kept(r) => Kept(r)'
  <1>1. /\ job' \in [Jobs -> JobRows]
        /\ job'[j] = row
        /\ \A k \in Jobs \ {j} : job'[k] = job[k]
    BY DEF Inv, TypeOK
  <1>2. QED
    BY <1>1, KeptStays

\* postSuccessfulFiatDeposit leaves the rows alone or posts the deposit, and
\* then for the first time.
LEMMA PostStep ==
  ASSUME Inv, NEW r \in Refs, NEW amount, PostSuccessfulFiatDeposit(r, amount)
  PROVE  \/ /\ status' = status /\ credits' = credits
            /\ PostOutcome(r, amount) = "already" => credits[r] = 1
            /\ PostOutcome(r, amount) # "posted"
         \/ /\ credits[r] = 0
            /\ status' = [status EXCEPT ![r] = "SUCCEEDED"]
            /\ credits' = [credits EXCEPT ![r] = 1]
  <1>1. credits[r] \in {0, 1} /\ (status[r] = "SUCCEEDED" => credits[r] = 1)
        /\ (credits[r] = 1 => status[r] \in {"SUCCEEDED", "FAILED"})
    BY DEF Inv, CreditAgrees
  <1>2. ~assertPaymentTransition("FAILED", "SUCCEEDED")
    BY DEF assertPaymentTransition, ALLOWED_TRANSITIONS
  <1>3. PostOutcome(r, amount) = "already" => credits[r] = 1
    BY <1>1 DEF PostOutcome
  <1>4. PostOutcome(r, amount) = "posted" => credits[r] = 0
    BY <1>1, <1>2 DEF PostOutcome
  <1>5. QED
    BY <1>3, <1>4 DEF PostSuccessfulFiatDeposit

\* The outcome of a posting is one of four, two of them errors.
LEMMA Outcomes ==
  ASSUME NEW r, NEW amount
  PROVE  PostOutcome(r, amount) \in {"already", "posted", "PAYMENT_AMOUNT_MISMATCH",
                                     "ILLEGAL_PAYMENT_STATE_TRANSITION"}
  BY DEF PostOutcome

\* A posting by verifyFiatDeposit or a worker keeps what the rows say of each
\* other.
LEMMA PostKeeps ==
  ASSUME Inv, NEW r \in Refs, NEW amount, PostSuccessfulFiatDeposit(r, amount), UNCHANGED event
  PROVE  /\ status' \in [Refs -> PaymentStatus \cup {"NONE"}]
         /\ credits' \in [Refs -> Nat]
         /\ \A q \in Refs : CreditAgrees(q)' /\ (credits[q] = 1 => credits'[q] = 1)
         /\ PostOutcome(r, amount) \in {"already", "posted"} => credits'[r] = 1
  BY PostStep DEF Inv, TypeOK, CreditAgrees, PaymentStatus, TERMINAL_PAYMENT_STATUSES

LEMMA VerifyStep ==
  ASSUME Inv, NEW r \in Refs, VerifyPosts(r) \/ VerifyFindsUnpaid(r) \/ MarkPaymentFailed(r)
  PROVE  Inv'
  <1>1. CASE VerifyPosts(r)
    BY <1>1, PostKeeps DEF VerifyPosts, Inv, TypeOK, JobAgrees, DeliveryAgrees, Kept
  <1>2. CASE VerifyFindsUnpaid(r)
    BY <1>2 DEF VerifyFindsUnpaid, Inv, TypeOK, CreditAgrees, JobAgrees, DeliveryAgrees, Kept
  <1>3. CASE MarkPaymentFailed(r)
    BY <1>3 DEF MarkPaymentFailed, Inv, TypeOK, CreditAgrees, JobAgrees, DeliveryAgrees, Kept,
                PaymentStatus, TERMINAL_PAYMENT_STATUSES
  <1>4. QED
    BY <1>1, <1>2, <1>3

LEMMA CustomerStep ==
  ASSUME Inv, NEW r \in Refs, CustomerPays(r)
  PROVE  Inv'
  <1>1. InitiatedAmount(r) \in Nat
    BY ConstantsAssumption DEF InitiatedAmount, toSubunit
  <1>2. QED
    BY <1>1 DEF CustomerPays, intents, Inv, TypeOK, CreditAgrees, JobAgrees, DeliveryAgrees, Kept

LEMMA DeliveryStep ==
  ASSUME Inv, NEW d \in Deliveries, Delivering(d) \/ \E r \in Refs : Deliver(d, r)
  PROVE  Inv'
  <1>1. ASSUME NEW r \in Refs, Deliver(d, r) PROVE Inv'
    BY <1>1 DEF Deliver, intents, Inv, TypeOK, CreditAgrees, JobAgrees, DeliveryAgrees, Kept
  <1>2. CASE FindEvent(d)
    BY <1>2 DEF FindEvent, Proceed, Duplicated, intents, Inv, TypeOK, CreditAgrees, JobAgrees,
                DeliveryAgrees, Kept
  <1>3. CASE UpsertEvent(d)
    BY <1>3 DEF UpsertEvent, Proceed, intents, Inv, TypeOK, CreditAgrees, JobAgrees,
                DeliveryAgrees, Kept
  <1>4. CASE QueueJob(d)
    <2>1. PICK j \in Unused : job' = [job EXCEPT ![j] = NewJob(delivery[d].ref)]
      BY <1>4 DEF QueueJob
    <2> DEFINE row == NewJob(delivery[d].ref)
    <2>2. delivery[d].ref \in Refs /\ j \in Jobs /\ job[j].ref = NoRef
      BY <1>4, <2>1 DEF QueueJob, Unused, Inv, DeliveryAgrees, JobAgrees
    <2>3. row \in JobRows /\ row.state = "waiting" /\ row.ref = delivery[d].ref
          /\ row.attempts = 0 /\ row.stalls = 0
      BY <2>2, NewJobs DEF NewJob
    <2> HIDE DEF row
    <2>4. /\ job' \in [Jobs -> JobRows]
          /\ job'[j] = row
          /\ \A k \in Jobs \ {j} : job'[k] = job[k]
          /\ \A r \in Refs : Kept(r) => Kept(r)'
      BY <1>4, <2>1, <2>2, <2>3, OneJob, ConstantsAssumption DEF QueueJob, row
    <2>5. TypeOK' /\ (\A r \in Refs : CreditAgrees(r)') /\ (\A r \in Refs : acknowledged'[r] => Kept(r)')
      BY <1>4, <2>4 DEF QueueJob, Proceed, intents, Inv, TypeOK, CreditAgrees
    <2>6. \A k \in Jobs : JobAgrees(k)'
      BY <1>4, <2>2, <2>3, <2>4, ConstantsAssumption DEF QueueJob, intents, Inv, JobAgrees, Active
    <2>7. \A r \in Refs : r = delivery[d].ref => Kept(r)'
      BY <2>2, <2>3, <2>4 DEF Kept
    <2>8. \A e \in Deliveries : DeliveryAgrees(e)'
      BY <1>4, <2>2, <2>4, <2>7 DEF QueueJob, Proceed, Inv, TypeOK, DeliveryAgrees, Kept
    <2>9. QED
      BY <2>5, <2>6, <2>8 DEF Inv
  <1>5. CASE Answer(d)
    BY <1>5 DEF Answer, Idle, intents, Inv, TypeOK, CreditAgrees, JobAgrees, DeliveryAgrees, Kept
  <1>6. QED
    BY <1>1, <1>2, <1>3, <1>4, <1>5 DEF Delivering

\* A worker's step on its job, given what it does to the rows.
LEMMA JobMoves ==
  ASSUME Inv, NEW j \in Jobs, NEW row \in JobRows, job' = [job EXCEPT ![j] = row],
         row.ref = job[j].ref, job[j].ref \in Refs, JobAgrees(j)',
         UNCHANGED <<verifying, paid, acknowledged, delivery, crashes>>,
         status' \in [Refs -> PaymentStatus \cup {"NONE"}], credits' \in [Refs -> Nat],
         event' \in [Refs -> {"NONE", "PENDING", "PROCESSED"}],
         \A r \in Refs : /\ CreditAgrees(r)'
                         /\ credits[r] = 1 => credits'[r] = 1
                         /\ event[r] = "PROCESSED" => event'[r] = "PROCESSED"
  PROVE  Inv'
  <1>1. /\ job' \in [Jobs -> JobRows]
        /\ job'[j] = row
        /\ \A k \in Jobs \ {j} : job'[k] = job[k]
        /\ \A r \in Refs : Kept(r) => Kept(r)'
    BY OneJob
  <1>2. TypeOK'
    BY <1>1 DEF Inv, TypeOK
  <1>3. ASSUME NEW k \in Jobs PROVE JobAgrees(k)'
    BY <1>1 DEF Inv, JobAgrees, Active
  <1>4. ASSUME NEW d \in Deliveries PROVE DeliveryAgrees(d)'
    BY <1>1 DEF Inv, DeliveryAgrees
  <1>5. \A r \in Refs : acknowledged'[r] => Kept(r)'
    BY <1>1 DEF Inv
  <1>6. QED
    BY <1>2, <1>3, <1>4, <1>5 DEF Inv

LEMMA WorkerStep ==
  ASSUME Inv, NEW j \in Jobs, Working(j)
  PROVE  Inv'
  <1> DEFINE r == job[j].ref
  <1>1. /\ job[j] \in JobRows /\ r \in Refs
        /\ job[j].attempts < MaxAttempts /\ job[j].stalls <= MaxStalls
        /\ job[j].state = "mark" => credits[r] = 1
    <2>1. job[j].state \in {"waiting"} \cup Active
      BY DEF Working, StartJob, CapturePayment, MarkProcessed, Active
    <2>2. QED
      BY <2>1 DEF Inv, TypeOK, JobAgrees, Active
  <1>2. ASSUME NEW state \in {"completed", "post", "mark"}, SetJob(j, state)
        PROVE  /\ [job[j] EXCEPT !.state = state] \in JobRows
               /\ job' = [job EXCEPT ![j] = [job[j] EXCEPT !.state = state]]
               /\ job'[j] = [job[j] EXCEPT !.state = state]
    BY <1>1, <1>2 DEF SetJob, JobRows, Active, Ended, Inv, TypeOK
  <1>3. CASE StartJob(j)
    <2>1. PICK state \in {"completed", "post"} : SetJob(j, state)
      BY <1>3 DEF StartJob
    <2>2. JobAgrees(j)'
      BY <1>1, <1>2, <1>3, <2>1 DEF StartJob, intents, JobAgrees, Active, JobRows
    <2>3. QED
      BY <1>1, <1>2, <1>3, <2>1, <2>2, JobMoves
      DEF StartJob, intents, Inv, TypeOK, CreditAgrees, JobRows
  <1>4. CASE CapturePayment(j)
    <2> DEFINE outcome == PostOutcome(r, MappedAmount(paid[r]))
    <2>1. /\ status' \in [Refs -> PaymentStatus \cup {"NONE"}] /\ credits' \in [Refs -> Nat]
          /\ \A q \in Refs : CreditAgrees(q)' /\ (credits[q] = 1 => credits'[q] = 1)
          /\ outcome \in {"already", "posted"} => credits'[r] = 1
      BY <1>1, <1>4, PostKeeps DEF CapturePayment
    <2>2. CASE outcome \in {"already", "posted"}
      <3>1. SetJob(j, "mark")
        BY <1>4, <2>2 DEF CapturePayment
      <3>2. JobAgrees(j)'
        BY <1>1, <1>2, <2>1, <2>2, <3>1 DEF JobAgrees, Active, JobRows
      <3>3. QED
        BY <1>1, <1>2, <1>4, <2>1, <3>1, <3>2, JobMoves
        DEF CapturePayment, Inv, TypeOK, JobRows
    <2>3. CASE outcome \notin {"already", "posted"}
      <3> DEFINE next == IF LastAttempt(j) THEN "failed" ELSE "waiting"
                 row == [job[j] EXCEPT !.attempts = @ + 1, !.error = outcome, !.state = next]
      <3>1. outcome \in {"PAYMENT_AMOUNT_MISMATCH", "ILLEGAL_PAYMENT_STATE_TRANSITION"}
        BY <2>3, Outcomes
      <3>2. /\ row \in JobRows /\ row.ref = r
            /\ row.state = next /\ row.stalls = job[j].stalls
            /\ next = "waiting" => row.attempts < MaxAttempts
        <4>1. /\ job[j].attempts + 1 \in 0..MaxAttempts
              /\ next = "waiting" => job[j].attempts + 1 < MaxAttempts
          BY <1>1, ConstantsAssumption DEF JobRows, LastAttempt
        <4>2. next \in {"waiting", "failed"}
          OBVIOUS
        <4> HIDE DEF next, outcome
        <4>3. QED
          BY <1>1, <3>1, <4>1, <4>2 DEF JobRows, Ended
      <3>3. job' = [job EXCEPT ![j] = row] /\ job'[j] = row
        BY <1>1, <1>4, <2>3 DEF CapturePayment, JobThrows, Inv, TypeOK, JobRows
      <3> HIDE DEF row
      <3>4. JobAgrees(j)'
        BY <1>1, <3>2, <3>3 DEF JobAgrees, Active
      <3>5. QED
        BY <1>1, <1>4, <2>1, <3>2, <3>3, <3>4, JobMoves DEF CapturePayment, Inv, TypeOK
    <2>4. QED
      BY <2>2, <2>3
  <1>5. CASE MarkProcessed(j)
    <2>1. SetJob(j, "completed") /\ credits[r] = 1 /\ event' = [event EXCEPT ![r] = "PROCESSED"]
      BY <1>1, <1>5 DEF MarkProcessed
    <2>2. JobAgrees(j)'
      BY <1>1, <1>2, <2>1 DEF JobAgrees, Active, JobRows
    <2>3. QED
      BY <1>1, <1>2, <1>5, <2>1, <2>2, JobMoves
      DEF MarkProcessed, intents, Inv, TypeOK, CreditAgrees, JobRows
  <1>6. QED
    BY <1>3, <1>4, <1>5 DEF Working

LEMMA CrashStep ==
  ASSUME Inv, Crash
  PROVE  Inv'
  <1>1. ASSUME NEW j \in Jobs
        PROVE  /\ job'[j] \in JobRows /\ job'[j].ref = job[j].ref
               /\ JobAgrees(j)'
    <2>1. job'[j] = Stalled(j) /\ credits' = credits
      BY DEF Crash
    <2>2. CASE job[j].state \notin Active
      BY <2>1, <2>2 DEF Stalled, Inv, TypeOK, JobAgrees
    <2>3. CASE job[j].state \in Active
      <3>1. job[j] \in JobRows /\ job[j].ref \in Refs
            /\ job[j].attempts < MaxAttempts /\ job[j].stalls <= MaxStalls
        BY <2>3 DEF Inv, TypeOK, JobAgrees, Active
      <3> DEFINE next == IF job[j].stalls < MaxStalls THEN "waiting" ELSE "failed"
                 row == [job[j] EXCEPT !.stalls = @ + 1, !.error = "stalled", !.state = next]
      <3>2. job'[j] = row
        BY <2>1, <2>3 DEF Stalled
      <3>3. /\ row \in JobRows /\ row.ref = job[j].ref /\ row.state = next
            /\ row.attempts = job[j].attempts /\ row.stalls = job[j].stalls + 1
        <4>1. job[j].stalls + 1 \in 0..(MaxStalls + 1)
          BY <3>1, ConstantsAssumption DEF JobRows
        <4>2. next \in {"waiting", "failed"}
          OBVIOUS
        <4> HIDE DEF next
        <4>3. QED
          BY <3>1, <4>1, <4>2 DEF JobRows, Ended
      <3>4. next = "waiting" => job[j].stalls + 1 <= MaxStalls
        BY <3>1, ConstantsAssumption DEF JobRows
      <3> HIDE DEF row
      <3>5. QED
        BY <2>1, <3>1, <3>2, <3>3, <3>4 DEF JobAgrees, Active
    <2>4. QED
      BY <2>2, <2>3
  <1>2. TypeOK'
    BY <1>1, ConstantsAssumption DEF Crash, Inv, TypeOK, Idle
  <1>3. \A r \in Refs : Kept(r) => Kept(r)'
    BY <1>1 DEF Crash, Kept
  <1>4. QED
    BY <1>1, <1>2, <1>3 DEF Crash, Inv, CreditAgrees, DeliveryAgrees, Idle
-----------------------------------------------------------------------------
\* Nothing is posted twice, marked processed without a posting or
\* acknowledged without being kept, at any point of any request or job.
THEOREM Invariance == Spec => []Inv
  <1>1. Inv /\ [Next]_vars => Inv'
    <2> SUFFICES ASSUME Inv, [Next]_vars PROVE Inv'
      OBVIOUS
    <2>1. CASE UNCHANGED vars
      BY <2>1 DEF vars, Inv, TypeOK, CreditAgrees, JobAgrees, DeliveryAgrees, Kept
    <2>2. QED
      BY <2>1, VerifyStep, CustomerStep, DeliveryStep, WorkerStep, CrashStep DEF Next
  <1>2. QED
    BY InitInv, <1>1, PTL DEF Spec

\* Every variable keeps its type; no job is attempted more often than it may
\* be, and none comes back from more stalls than the queue allows.
THEOREM TypeCorrect == Spec => []TypeOK
  BY Invariance, PTL DEF Inv

\* However deliveries, jobs, attempts and verify requests meet, a deposit is
\* posted at most once.
THEOREM PostedAtMostOnce == Spec => []CreditedOnce
  <1>1. Inv => CreditedOnce
    BY DEF Inv, CreditAgrees, CreditedOnce
  <1>2. QED
    BY Invariance, <1>1, PTL

\* No payment is marked processed before it is on the ledger.
THEOREM NeverLost == Spec => []ProcessedMeansCredited
  <1>1. Inv => ProcessedMeansCredited
    BY DEF Inv, CreditAgrees, ProcessedMeansCredited
  <1>2. QED
    BY Invariance, <1>1, PTL

\* The provider's event is acknowledged only when it is kept.
THEOREM NeverAcknowledgedEarly == Spec => []AcknowledgedMeansKept
  <1>1. Inv => AcknowledgedMeansKept
    BY DEF Inv, Kept, AcknowledgedMeansKept
  <1>2. QED
    BY Invariance, <1>1, PTL
=============================================================================
