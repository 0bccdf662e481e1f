\* A credit pack with the requests and webhooks about it.
SPECIFICATION FairSpec
CONSTANTS
  s1 = s1
  s2 = s2
  o1 = o1
  Session = {s1, s2}
  Order = {o1}
  MaxHooks = 2
  MaxFaults = 1
  LookupFails = FALSE
CHECK_DEADLOCK FALSE
PROPERTIES
  PacksCredited
