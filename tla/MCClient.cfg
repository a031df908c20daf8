SPECIFICATION FairSpec
CONSTANTS
  u1 = u1
  t1 = t1
  t2 = t2
  Users = {u1}
  Tokens = {t1, t2}
  TokenUser <- MCTokenUser
  Clicks = {c1}
  Retries = 1
  NoToken = NoToken
CHECK_DEADLOCK FALSE
INVARIANTS TypeOK VerifiedIsTrue PostedIsShown
PROPERTIES SessionKept ClicksAnswered
