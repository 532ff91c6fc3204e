SPECIFICATION Spec
CONSTANTS
  h1 = h1 h2 = h2 t1 = t1 t2 = t2
  Handlers <- OneHandler
  Tokens <- TwoTokens
  NoToken = NoToken
  MaxCalls = 3
  MaxRestarts = 1
  MaxSaveFailures = 0
INVARIANT DeletedStaysDeleted
