SPECIFICATION FairSpec
CONSTANTS
  Accounts <- TwoAccounts
  Nil = Nil
  FullQuota = 1
  Bound <- AnyEvent
  MaxEvents = 3
PROPERTIES RotationFair CooldownSurvives DriftRepaired EventuallySaved PanelFollowsActive
