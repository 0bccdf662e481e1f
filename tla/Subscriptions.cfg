\* Two requests for a plan, six days with periods of two, one mishap.
SPECIFICATION SubscriptionSpec
CONSTANTS
  PlanRequest = {"r1", "r2"}
  PaidPlan = {"pro", "team"}
  Month = 2
  DunningDays <- MCDunning
  LastDay = 6
  MaxMishaps = 1
CHECK_DEADLOCK FALSE
INVARIANTS
  SubscriptionTypeOK
  RenewedOnce
PROPERTIES
  DueIsSettled
