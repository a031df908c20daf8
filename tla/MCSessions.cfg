SPECIFICATION FairSpec
CONSTANTS
  Users = {u1}
  Sessions = {s1, s2}
  Owner <- MCOwner
  Tokens = {t1, t2, t3}
  TokenOwner <- MCTokenOwner
  Requests = {q1, q2}
  NoSession = NoSession
  NoToken = NoToken
CHECK_DEADLOCK FALSE
INVARIANT OutstandingBounded
PROPERTIES OverStaysOver OnlyLoginSignsIn SpentStaysSpent RevocationTakesEffect
