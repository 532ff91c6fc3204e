SPECIFICATION FairSpec
CONSTANTS
  r1 = r1 r2 = r2 r3 = r3 c1 = c1 c2 = c2
  Accounts <- TwoAccounts
  Region <- OneCNOneGlobal
  Unsupported = {2}
  Requests <- TwoRequests
  Conversation <- OneConversation
  Filter <- MixedFilters
  Strategy = "least-inflight"
  StickyLimit = 2
  StickyCapacity = 1
  MaxRetryAccounts = 2
  MaxFailoverAttempts = 16
  Capacity = 1
  AutoSwitch = TRUE
  MaxEvents = 2
PROPERTIES NeverRoutedToSick EveryRequestAnswered
