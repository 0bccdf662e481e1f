\* Three sessions at a credit pack or a renewal, one of them dies.
SPECIFICATION FairSpec
CONSTANTS
  s1 = s1
  s2 = s2
  s3 = s3
  o1 = o1
  Session = {s1, s2, s3}
  Order = {o1}
  MaxHooks = 1
  MaxFaults = 1
  LookupFails = TRUE
CHECK_DEADLOCK FALSE
INVARIANTS
  TypeOK
  AppliedIsApproved
  PaidIsCredited
PROPERTIES
  RenewalsApplied
