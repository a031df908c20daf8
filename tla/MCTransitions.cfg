SPECIFICATION Spec
CONSTANTS
  Wallets = {w1}
  Refs = {r1, r2}
  Handlers = {h1, h2}
  Keys = {k1}
  Amounts = {1}
  InitialBalance <- MCBalance
  Paystack = Paystack
  NoRef = NoRef
  NoKey = NoKey
  Lossy = {}
  Failing = {}
  ProcessMayCrash = FALSE
CHECK_DEADLOCK FALSE
PROPERTY TransitionsLegal
