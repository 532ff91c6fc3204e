SPECIFICATION Spec
CONSTANTS
  r1 = r1 r2 = r2 r3 = r3 c1 = c1 c2 = c2
  Accounts <- TwoAccounts
  Region <- TwoCN
  Unsupported = {2}
  Requests <- ThreeRequests
  Conversation <- TwoConversations
  Filter <- DefaultFilter
  Strategy = "sticky"
  StickyLimit = 1
  StickyCapacity = 1
  MaxRetryAccounts = 2
  MaxFailoverAttempts = 16
  Capacity = 1
  AutoSwitch = TRUE
  MaxEvents = 0
INVARIANTS TypeOK SlotsAccounted RetryProtocol BindingsSound
PROPERTY ImplementsPromise
SYMMETRY TwinRequests
