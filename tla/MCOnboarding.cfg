SPECIFICATION FairSpec
CONSTANTS
  Emails = {e1, e2, e3}
  Numbers = {m1, m2, m3}
  Dialable = {m1, m2}
  Names = {n1}
  Suffixes = {s1}
  NoSuffix = NoSuffix
  e1 = e1
  e2 = e2
  e3 = e3
  m1 = m1
  m2 = m2
  m3 = m3
  n1 = n1
  Forms <- MCForms
  Bvns <- MCBvns
  MaxAttempts = 2
  Ids = {a1, a2, a3}
  Checks = {c1, c2}
  Requests = {q1, q2}
  None = None
CHECK_DEADLOCK FALSE
INVARIANTS
  IdentitiesUnique
  VerifiedBacked
PROPERTIES
  VerdictsFinal
  VerifiedSettles
  RequestsEnd
