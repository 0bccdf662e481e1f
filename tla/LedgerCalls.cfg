\* Two sessions and every kind of call, two sessions of fresh callers, or one
\* session at a time over four periods.
SPECIFICATION FocusSpec
CONSTANTS
  s1 = s1
  s2 = s2
  k1 = k1
  k2 = k2
  o1 = o1
  o2 = o2
  d1 = d1
  d2 = d2
  Session = {s1, s2}
  Callers = {"brief", "purchase", "renew", "change", "lapse", "reconcile", "direct"}
  BriefKey = {k1, k2}
  OrderId = {o1, o2}
  LeftPending = {o1}
  DirectId = {d1, d2}
  MaxTime = 4
  BriefCost = 2
  PackCredits = 5
  PlanGrant = 3
SYMMETRY SessionSymmetry
INVARIANTS
  TypeOK
  LedgerSound
  BriefsPaidFor
  SomeoneGoesOn
  PlanCreditsExpire
PROPERTIES
  PromiseKept
