\* Two paid briefs of one organisation at the same time.
SPECIFICATION Spec
CONSTANTS
  s1 = s1
  s2 = s2
  k1 = k1
  k2 = k2
  Session = {s1, s2}
  Callers = {"brief"}
  BriefKey = {k1, k2}
  OrderId = {}
  LeftPending = {}
  DirectId = {}
  MaxTime = 1
  BriefCost = 3
  PackCredits = 5
  PlanGrant = 3
INVARIANTS
  Chained
