SPECIFICATION Spec
CONSTANTS
  Wallets = {w1}
  Refs = {r1}
  Handlers = {h1}
  Keys = {}
  Amounts = {1}
  InitialBalance <- MCBalance
  Paystack = Paystack
  NoRef = NoRef
  NoKey = NoKey
  Lossy = {r1}
  Failing = {r1}
  ProcessMayCrash = FALSE
CHECK_DEADLOCK FALSE
INVARIANT ReleasedMeansUnpaid
