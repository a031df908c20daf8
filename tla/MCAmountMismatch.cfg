SPECIFICATION Spec
CONSTANTS
  Refs = {r1}
  Deliveries = {d1}
  Jobs = {j1}
  MaxAttempts = 3
  MaxStalls = 1
  MaxCrashes = 2
  Price <- MCPrice
  NoRef = NoRef
CHECK_DEADLOCK FALSE
INVARIANT MismatchMeansDifferent
