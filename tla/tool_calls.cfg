SPECIFICATION FairSpec
CONSTANTS
  s1 = s1
  s2 = s2
  a = a
  b = b
  c1 = c1
  c2 = c2
  t1 = t1
  Servers <- TwoServers
  Tools <- TwoTools
  Allowed <- OnlyA
  Supported <- TwoTools
  Calls <- TwoCalls
  Tokens <- OneToken
  TokenOf <- SharedToken
  MaxAborts = 2
INVARIANTS
  ProviderEnded
  CancelReaches
PROPERTY
  CallsEnd
CHECK_DEADLOCK FALSE
