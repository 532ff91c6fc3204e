SPECIFICATION Spec
CONSTANTS
  Accounts <- TwoAccounts
  Nil = Nil
  FullQuota = 1
  Bound <- SwitchOnly
  MaxEvents = 1
PROPERTIES NoForeignWrite
