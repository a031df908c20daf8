SPECIFICATION FairSpec
CONSTANTS
  Refs = {r1}
  Deliveries = {d1, d2}
  Jobs = {j1, j2}
  MaxAttempts = 3
  MaxStalls = 1
  MaxCrashes = 2
  Price <- MCPrice
  NoRef = NoRef
CHECK_DEADLOCK FALSE
INVARIANTS TypeOK CreditedOnce ProcessedMeansCredited AcknowledgedMeansKept
PROPERTY PaidIsWorkedOn
