SPECIFICATION Spec
CONSTANTS
  r1 = r1 r2 = r2
  Requests <- OneRequest
  MaxEntries = 1
  MaxRounds = 1
  MaxFailures = 0
  MaxCrashes = 0
INVARIANT DrainedIsPersisted
