SPECIFICATION FairSpec
CONSTANTS
  c1 = c1 c2 = c2
  Callers <- TwoCallers
  Ops <- AllOps
  MaxOps = 2
  MaxExpiries = 1
  MaxStale = 2
INVARIANTS SessionBeforeUse OneRenewalPerExpiry OneAttemptDelivers RetryUsesNewer
PROPERTIES SessionMonotone DowngradeNeedsForgetting Served
CHECK_DEADLOCK FALSE
