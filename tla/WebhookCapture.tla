--------------------------- MODULE WebhookCapture ---------------------------
(***************************************************************************)
(* From Paystack's charge.success webhook to the credited wallet: the      *)
(* webhook controller (modules/webhooks), the payment queue                *)
(* (queues/queue.registry.ts) and its worker                               *)
(* (workers/handlers/payment.handler.ts), beside the verify request, which *)
(* posts the same deposits.                                                *)
(*                                                                         *)
(* A delivery and a job advance one await at a time.  Controller and       *)
(* workers live in one process; its crash, which any error thrown in the   *)
(* controller causes (webhook.route.ts:29 drops the promise), ends all     *)
(* deliveries and leaves the jobs at work to BullMQ's stall recovery.      *)
(***************************************************************************)
EXTENDS Integers, FiniteSets, PaymentState

CONSTANTS
  Refs,          \* deposits; one charge and one provider event each
  Deliveries,    \* concurrent webhook requests
  Jobs,          \* bound: jobs ever added to the payment queue
  MaxAttempts,   \* defaultJobOptions.attempts
  MaxStalls,     \* BullMQ's maxStalledCount
  MaxCrashes,    \* bound: crashes of the process
  Price,         \* PaymentIntent.amount, in naira
  NoRef          \* no deposit

ASSUME ConstantsAssumption ==
  /\ MaxAttempts \in Nat \ {0}
  /\ MaxStalls \in Nat
  /\ MaxCrashes \in Nat
  /\ Price \in [Refs -> Nat \ {0}]
  /\ NoRef \notin Refs

VARIABLES
  status,        \* PaymentIntent.status, "NONE" when there is no row
  credits,       \* LedgerTransactions posted under a reference
  verifying,     \* verifyFiatDeposit is about to mark the intent FAILED
  paid,          \* what the provider has collected, in kobo
  acknowledged,  \* has the provider got a 200 for its event?
  event,         \* WebhookEvent.status, "NONE" when there is no row
  delivery,      \* the controller's progress with one webhook request
  job,           \* jobs in Redis
  crashes        \* crashes so far

vars == <<status, credits, verifying, paid, acknowledged, event, delivery, job,
          crashes>>
intents == <<status, credits, verifying>>

Idle   == [at |-> "idle", ref |-> NoRef]
NoJob  == [state |-> "none", ref |-> NoRef, attempts |-> 0, stalls |-> 0, error |-> "none"]
NewJob(r) == [state |-> "waiting", ref |-> r, attempts |-> 0, stalls |-> 0, error |-> "none"]
Active == {"post", "mark"}
Ended  == {"completed", "failed"}

JobRows ==
  [state : {"none", "waiting"} \cup Active \cup Ended, ref : Refs \cup {NoRef},
   attempts : 0..MaxAttempts, stalls : 0..MaxStalls + 1,
   error : {"none", "stalled", "PAYMENT_AMOUNT_MISMATCH", "ILLEGAL_PAYMENT_STATE_TRANSITION"}]

TypeOK ==
  /\ status \in [Refs -> PaymentStatus \cup {"NONE"}]
  /\ credits \in [Refs -> Nat]
  /\ verifying \in [Refs -> BOOLEAN]
  /\ paid \in [Refs -> Nat]
  /\ acknowledged \in [Refs -> BOOLEAN]
  /\ event \in [Refs -> {"NONE", "PENDING", "PROCESSED"}]
  /\ delivery \in [Deliveries -> [at : {"idle", "find", "upsert", "queue", "answer"},
                                  ref : Refs \cup {NoRef}]]
  /\ job \in [Jobs -> JobRows]
  /\ crashes \in 0..MaxCrashes

\* A charge belongs to a deposit that waits for its customer, or to no intent
\* at all (a payment page that finx did not open).
Init ==
  /\ status \in [Refs -> {"AWAITING_CUSTOMER", "NONE"}]
  /\ credits = [r \in Refs |-> 0]
  /\ verifying = [r \in Refs |-> FALSE]
  /\ paid = [r \in Refs |-> 0]
  /\ acknowledged = [r \in Refs |-> FALSE]
  /\ event = [r \in Refs |-> "NONE"]
  /\ delivery = [d \in Deliveries |-> Idle]
  /\ job = [j \in Jobs |-> NoJob]
  /\ crashes = 0
-----------------------------------------------------------------------------
(* Amounts.                                                                *)

toSubunit(naira)  == naira * 100
fromSubunit(kobo) == kobo \div 100

\* What initiateDeposit asks the provider to collect, in kobo.
InitiatedAmount(r) == toSubunit(Price[r])

\* What verifyTransaction says has been collected, in naira.
VerifiedAmount(r) == fromSubunit(paid[r])

\* The worker's reading of the webhook's amount.
MappedAmount(kobo) == kobo
-----------------------------------------------------------------------------
(* postSuccessfulFiatDeposit, one locked transaction, and its two callers. *)

\* Mutant: the status of the intent is not looked at.
StatusIgnored(r, amount) ==
  IF amount = Price[r] THEN "posted" ELSE "PAYMENT_AMOUNT_MISMATCH"

\* What the transaction does with an amount: "posted" and "already" commit,
\* the others are errors.
PostOutcome(r, amount) ==
  CASE status[r] = "SUCCEEDED" -> "already"
    [] ~assertPaymentTransition(status[r], "SUCCEEDED") -> "ILLEGAL_PAYMENT_STATE_TRANSITION"
    [] amount # Price[r] -> "PAYMENT_AMOUNT_MISMATCH"
    [] OTHER -> "posted"

PostSuccessfulFiatDeposit(r, amount) ==
  IF PostOutcome(r, amount) = "posted"
    THEN /\ status' = [status EXCEPT ![r] = "SUCCEEDED"]
         /\ credits' = [credits EXCEPT ![r] = @ + 1]
    ELSE UNCHANGED <<status, credits>>

\* verifyFiatDeposit finds the charge successful and posts the deposit.
VerifyPosts(r) ==
  /\ status[r] # "NONE" /\ paid[r] > 0
  /\ PostSuccessfulFiatDeposit(r, VerifiedAmount(r))
  /\ UNCHANGED <<verifying, paid, acknowledged, event, delivery, job, crashes>>

\* verifyFiatDeposit finds the charge abandoned: markPaymentFailed reads the
\* intent without a lock and asserts...
VerifyFindsUnpaid(r) ==
  /\ status[r] # "NONE" /\ paid[r] = 0 /\ ~verifying[r]
  /\ assertPaymentTransition(status[r], "FAILED")
  /\ verifying' = [verifying EXCEPT ![r] = TRUE]
  /\ UNCHANGED <<status, credits, paid, acknowledged, event, delivery, job, crashes>>

\* ...and then writes over whatever the row has become.
MarkPaymentFailed(r) ==
  /\ verifying[r]
  /\ verifying' = [verifying EXCEPT ![r] = FALSE]
  /\ status' = [status EXCEPT ![r] = "FAILED"]
  /\ UNCHANGED <<credits, paid, acknowledged, event, delivery, job, crashes>>
-----------------------------------------------------------------------------
(* The provider and the webhook controller.                                *)

\* The customer pays what initiateDeposit asked the provider to collect.
CustomerPays(r) ==
  /\ paid[r] = 0
  /\ paid' = [paid EXCEPT ![r] = InitiatedAmount(r)]
  /\ UNCHANGED <<intents, acknowledged, event, delivery, job, crashes>>

\* Jobs that deliveries under way may still add.
Pending == {d \in Deliveries : delivery[d].at \in {"find", "upsert", "queue"}}
Unused  == {j \in Jobs : job[j].state = "none"}

\* The provider sends its event until it gets a 200.
Deliver(d, r) ==
  /\ paid[r] > 0 /\ ~acknowledged[r]
  /\ delivery[d] = Idle
  /\ Cardinality(Pending) < Cardinality(Unused)
  /\ delivery' = [delivery EXCEPT ![d] = [at |-> "find", ref |-> r]]
  /\ UNCHANGED <<intents, paid, acknowledged, event, job, crashes>>

Proceed(d, step) == delivery' = [delivery EXCEPT ![d].at = step]

\* Mutant: an event that has a row is a duplicate.
KnownIsDuplicate(r) == event[r] # "NONE"

\* Only a processed event is a duplicate.
Duplicated(r) == event[r] = "PROCESSED"

\* processIdempotentChargeWebhook looks the event up: a duplicate is answered.
FindEvent(d) ==
  /\ delivery[d].at = "find"
  /\ Proceed(d, IF Duplicated(delivery[d].ref) THEN "answer" ELSE "upsert")
  /\ UNCHANGED <<intents, paid, acknowledged, event, job, crashes>>

\* The upsert creates the row or leaves it as it is (update: {}).
UpsertEvent(d) ==
  LET r == delivery[d].ref IN
  /\ delivery[d].at = "upsert"
  /\ event' = [event EXCEPT ![r] = IF @ = "NONE" THEN "PENDING" ELSE @]
  /\ Proceed(d, "queue")
  /\ UNCHANGED <<intents, paid, acknowledged, job, crashes>>

\* queueCapturePayment: the job is in Redis when the call returns.
QueueJob(d) ==
  /\ delivery[d].at = "queue"
  /\ \E j \in Unused : job' = [job EXCEPT ![j] = NewJob(delivery[d].ref)]
  /\ Proceed(d, "answer")
  /\ UNCHANGED <<intents, paid, acknowledged, event, crashes>>

\* reply.status(200): the answer arrives or is lost.
Answer(d) ==
  /\ delivery[d].at = "answer"
  /\ \E arrives \in BOOLEAN :
       acknowledged' = [acknowledged EXCEPT ![delivery[d].ref] = @ \/ arrives]
  /\ delivery' = [delivery EXCEPT ![d] = Idle]
  /\ UNCHANGED <<intents, paid, event, job, crashes>>
-----------------------------------------------------------------------------
(* The payment worker: capturePaymentWorker.                               *)

SetJob(j, state) == job' = [job EXCEPT ![j].state = state]

\* Mutant: an error is logged and the handler goes on.
ErrorSwallowed(j, error) == SetJob(j, "mark")

\* Mutant: the attempt that fails is not counted yet.
OneAttemptMore(j) == job[j].attempts = MaxAttempts

LastAttempt(j) == job[j].attempts + 1 = MaxAttempts

\* The handler throws: BullMQ retries the job until its attempts are used up.
JobThrows(j, error) ==
  job' = [job EXCEPT ![j].attempts = @ + 1, ![j].error = error,
            ![j].state = IF LastAttempt(j) THEN "failed" ELSE "waiting"]

\* A worker takes the job and reads the intent.  Without an intent, or with
\* one that has SUCCEEDED, the handler returns before the event is marked.
StartJob(j) ==
  /\ job[j].state = "waiting"
  /\ SetJob(j, IF status[job[j].ref] \in {"NONE", "SUCCEEDED"} THEN "completed" ELSE "post")
  /\ UNCHANGED <<intents, paid, acknowledged, event, delivery, crashes>>

\* The handler posts the deposit with the amount of its payload.
CapturePayment(j) ==
  LET r == job[j].ref
      amount == MappedAmount(paid[r])
      outcome == PostOutcome(r, amount)
  IN
  /\ job[j].state = "post"
  /\ PostSuccessfulFiatDeposit(r, amount)
  /\ IF outcome \in {"posted", "already"} THEN SetJob(j, "mark") ELSE JobThrows(j, outcome)
  /\ UNCHANGED <<verifying, paid, acknowledged, event, delivery, crashes>>

\* The event is marked processed, and the job is complete.
MarkProcessed(j) ==
  /\ job[j].state = "mark"
  /\ event' = [event EXCEPT ![job[j].ref] = "PROCESSED"]
  /\ SetJob(j, "completed")
  /\ UNCHANGED <<intents, paid, acknowledged, delivery, crashes>>
-----------------------------------------------------------------------------
(* Crashes.                                                                *)

\* A job that was at work goes back to the queue once its lock has run out,
\* MaxStalls times; then it fails.
Stalled(j) ==
  IF job[j].state \notin Active THEN job[j]
  ELSE [job[j] EXCEPT !.stalls = @ + 1, !.error = "stalled",
          !.state = IF job[j].stalls < MaxStalls THEN "waiting" ELSE "failed"]

\* The process stops and starts again; the rows and the queue remain.
Crash ==
  /\ crashes < MaxCrashes
  /\ crashes' = crashes + 1
  /\ delivery' = [d \in Deliveries |-> Idle]
  /\ verifying' = [r \in Refs |-> FALSE]
  /\ job' = [j \in Jobs |-> Stalled(j)]
  /\ UNCHANGED <<status, credits, paid, acknowledged, event>>
-----------------------------------------------------------------------------
Delivering(d) == FindEvent(d) \/ UpsertEvent(d) \/ QueueJob(d) \/ Answer(d)
Working(j)    == StartJob(j) \/ CapturePayment(j) \/ MarkProcessed(j)

Next ==
  \/ \E r \in Refs : VerifyPosts(r) \/ VerifyFindsUnpaid(r) \/ MarkPaymentFailed(r)
  \/ \E r \in Refs : CustomerPays(r)
  \/ \E d \in Deliveries : Delivering(d) \/ \E r \in Refs : Deliver(d, r)
  \/ \E j \in Jobs : Working(j)
  \/ Crash

Spec == Init /\ [][Next]_vars

\* The provider sends an event again until it is acknowledged, and what is
\* under way goes on: Node runs every ready continuation, a free worker takes
\* a waiting job.
Fairness ==
  /\ \A r \in Refs : WF_vars(\E d \in Deliveries : Deliver(d, r))
  /\ \A d \in Deliveries : WF_vars(Delivering(d))
  /\ \A j \in Jobs : WF_vars(Working(j))

FairSpec == Spec /\ Fairness
-----------------------------------------------------------------------------
(* Properties.                                                             *)

\* However many deliveries, jobs, attempts and verify requests meet, a deposit
\* is posted at most once.
CreditedOnce == \A r \in Refs : credits[r] <= 1

\* An event is marked processed only when its deposit is on the ledger: no
\* error, crash or early return of the handler loses a payment silently.
ProcessedMeansCredited ==
  \A r \in Refs : event[r] = "PROCESSED" => credits[r] = 1

\* The provider stops sending an event only when finx has kept it: the event
\* is processed, or a job for it is in the queue or has run.
AcknowledgedMeansKept ==
  \A r \in Refs : acknowledged[r] =>
    event[r] = "PROCESSED" \/ \E j \in Jobs : job[j].ref = r

\* Every collected charge is worked on to an end: some job for it completes or
\* uses up its attempts, whatever answers are lost and crashes happen.
PaidIsWorkedOn ==
  \A r \in Refs :
    (paid[r] > 0) ~> \E j \in Jobs : job[j].ref = r /\ job[j].state \in Ended

\* A job fails with "Verified payment amount does not match the payment
\* intent." (wallet.repository.ts:1091) only when the provider has collected
\* another amount than the intent's.
MismatchMeansDifferent ==
  \A j \in Jobs : job[j].error = "PAYMENT_AMOUNT_MISMATCH" =>
    paid[job[j].ref] # toSubunit(Price[job[j].ref])
=============================================================================
