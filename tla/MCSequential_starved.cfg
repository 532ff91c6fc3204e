SPECIFICATION Spec
CONSTANTS
  MaxLines = 4
  IdleChecks = 2
  Accounts <- ThreeAccounts
  Weight <- ByPosition
  MaxDebt = 20
  Month = 3
  Tolerance = 2
  MaxCatchUps = 2
  Sentinel = 99
  Stuck <- OneStuck
  Drift <- EarlyByOne
  Phases <- TwoSubscriptions
  MaxTime = 8
  MaxUsage = 2
  MaxCrashes = 1
INVARIANT BoundedWait
CHECK_DEADLOCK FALSE
