CONSTANTS
  t1 = t1
  t2 = t2
  l1 = l1
  l2 = l2
  Hub <- HubApi
  Legacy <- LegacyKey
  Hosts <- SomeHosts
  AccountsOf <- SomeAccounts
  Files <- SomeFiles
  Logins <- TwoLogins
  LoginTo <- HubAndPort
  EditHosts <- LegacyOnly
  MaxWriters = 2
  Tasks <- TwoTasks
  Names <- SomeNames
  Mirrors <- SomeMirrors
  RealmsOf <- SomeRealms
  MaxTokens = 2
  Requests = 1
  Faults = {"refuse", "no token", "expire"}
SPECIFICATION FairSpec
INVARIANTS
  SavesKept
  TokensFitRequests
  NamesReadAsMeant
  OwnAccount
PROPERTIES
  LoginsAreSeen
  RequestsEnd
CHECK_DEADLOCK FALSE
