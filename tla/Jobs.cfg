\* Two workers, and a document that can be parsed behind one that cannot; or two
\* alerts and a test on one channel, two runs that overlap.
SPECIFICATION JobsSpec
CONSTANTS
  w1 = w1
  w2 = w2
  m1 = m1
  Doc = {1, 2}
  Broken = {1}
  Worker = {w1, w2}
  Minute = {m1}
  MaxTries = 2
  SweepLimit = 2
  MaxVersion = 1
  MaxFaults = 1
  a1 = a1
  t1 = t1
  c1 = c1
  r1 = r1
  r2 = r2
  Alert = {a1}
  Test = {t1}
  Channel = {c1}
  Round = {r1, r2}
  Limit = 2
  MaxAttempts = 3
  MaxMishaps = 1
CHECK_DEADLOCK FALSE
INVARIANTS
  JobsTypeOK
  SentOnce
  StatusIsTrue
PROPERTIES
  PendingIsProcessed
  Settles
