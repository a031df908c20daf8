---------------------------- MODULE PaymentState ----------------------------
(***************************************************************************)
(* The payment status machine of modules/payments/payment-state.ts: the    *)
(* statuses of a PaymentIntent row, the table of legal transitions and the *)
(* assertion every repository operation makes before it writes a status.   *)
(***************************************************************************)

\* The statuses that end a payment.
TERMINAL_PAYMENT_STATUSES ==
  {"SUCCEEDED", "FAILED", "ABANDONED", "CANCELLED", "REVERSED"}

PaymentStatus ==
  {"INITIATED", "AWAITING_CUSTOMER", "PROCESSING"} \cup TERMINAL_PAYMENT_STATUSES

\* Where each status may go next.
ALLOWED_TRANSITIONS ==
  [ INITIATED         |-> {"AWAITING_CUSTOMER", "PROCESSING", "FAILED", "CANCELLED"},
    AWAITING_CUSTOMER |-> {"PROCESSING", "SUCCEEDED", "FAILED", "ABANDONED", "CANCELLED"},
    PROCESSING        |-> {"SUCCEEDED", "FAILED", "REVERSED"},
    SUCCEEDED         |-> {"REVERSED"},
    FAILED            |-> {},
    ABANDONED         |-> {},
    CANCELLED         |-> {},
    REVERSED          |-> {} ]

\* TRUE when the assertion returns, FALSE when it throws.  Staying in the same
\* status is accepted silently, so the callers' own early returns on SUCCEEDED
\* and FAILED are what makes a repeated settlement or release a no-op.
assertPaymentTransition(from, to) ==
  from = to \/ to \in ALLOWED_TRANSITIONS[from]
=============================================================================
