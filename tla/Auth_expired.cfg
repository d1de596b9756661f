CONSTANTS
  t1 = t1
  t2 = t2
  l1 = l1
  l2 = l2
  Hub <- HubApi
  Legacy <- LegacyKey
  Hosts <- SomeHosts
  AccountsOf <- SomeAccounts
  Files <- SomeFiles
  Logins = {}
  LoginTo <- NoLogins
  EditHosts <- LegacyOnly
  MaxWriters = 0
  Tasks <- TwoTasks
  Names <- SomeNames
  Mirrors <- SomeMirrors
  RealmsOf <- SomeRealms
  MaxTokens = 2
  Requests = 1
  Faults = {"refuse", "no token", "expire"}
SPECIFICATION FairSpec
PROPERTY RetryIsUseful
CHECK_DEADLOCK FALSE
