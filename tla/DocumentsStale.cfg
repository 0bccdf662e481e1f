\* The provider changes a document while it is processed.
SPECIFICATION Spec
CONSTANTS
  w1 = w1
  w2 = w2
  m1 = m1
  Doc = {1}
  Broken = {}
  Worker = {w1, w2}
  Minute = {m1}
  MaxTries = 2
  SweepLimit = 1
  MaxVersion = 2
  MaxFaults = 0
INVARIANTS
  SignalsAreCurrent
