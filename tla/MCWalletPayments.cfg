SPECIFICATION Spec
CONSTANTS
  Wallets = {w1, w2}
  Refs = {r1, r2}
  Handlers = {h1, h2}
  Keys = {k1}
  Amounts = {1, 2}
  InitialBalance <- MCBalance
  Paystack = Paystack
  NoRef = NoRef
  NoKey = NoKey
  Lossy = {r2}
  Failing = {r1, r2, h1, h2}
  ProcessMayCrash = TRUE
CHECK_DEADLOCK FALSE
SYMMETRY MCSymmetry
INVARIANTS
  TypeOK
  ReservedBacked
  LedgerBalances
  DepositBacked
  SettledXorReleased
  OnePayoutPerKey
PROPERTIES
  HeldMovesWithLedger
  WithdrawalTransitionsLegal
  PayoutDecides
