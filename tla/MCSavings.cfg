SPECIFICATION FairSpec
CONSTANTS
  Wallets = {w1}
  Plans = {p1}
  Requests = {q1, q2}
  Amounts = {9, 10}
  InitialBalance <- MCBalance
  WalletOf <- MCWalletOf
  Nobody = Nobody
CHECK_DEADLOCK FALSE
INVARIANTS Inv OverdraftBounded
PROPERTIES MovesBalanced RequestEnds
