SPECIFICATION Spec
CONSTANTS
  h1 = h1 h2 = h2 t1 = t1 t2 = t2
  Handlers <- TwoHandlers
  Tokens <- TwoTokens
  NoToken = NoToken
  MaxCalls = 4
  MaxRestarts = 1
  MaxSaveFailures = 1
INVARIANTS PoolWellFormed MirrorFollowsActive QuietIsPersisted AckedSurvives EmptyMirrorInactive
SYMMETRY Symmetric
