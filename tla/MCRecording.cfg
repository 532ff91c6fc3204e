SPECIFICATION FairSpec
CONSTANTS
  r1 = r1 r2 = r2
  Requests <- TwoRequests
  MaxEntries = 1
  MaxRounds = 1
  MaxFailures = 1
  MaxCrashes = 1
INVARIANTS TypeOK CleanIsPersisted LogOrdered AccountWriteSurvives
PROPERTIES PersistedIsKept ShutdownCompletes
