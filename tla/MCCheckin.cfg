SPECIFICATION FairSpec
CONSTANTS
  a1 = a1 k1 = k1 k2 = k2
  Accounts <- OneAccount
  Campaigns <- TwoCampaigns
  MaxDays = 2
  MaxFaults = 2
  MaxManual = 1
  MaxRestarts = 1
INVARIANTS RecordedIsTrue NoClaimTwice RetryFreshBearer
PROPERTIES EventuallyClaimed
CHECK_DEADLOCK FALSE
