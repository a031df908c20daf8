SPECIFICATION FairSpec
CONSTANTS
  Users = {u1, u2}
  Amounts = {1, 2}
  Refs = {r1, r2, r3}
  Keys = {k1}
  Requests = {q1, q2}
  Outside = Outside
  Nobody = Nobody
  NoKey = NoKey
  NoRef = NoRef
CHECK_DEADLOCK FALSE
INVARIANTS
  WalletsAgree
  PostedMeansSucceeded
  OneWithdrawalPerKey
PROPERTIES
  ImplementsBank
  RequestsEnd
