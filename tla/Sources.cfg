\* Two workers calling one source: the circuit, the day's quota of two and a
\* bucket of one token, with two troubles (an outage, a killed worker) at most; or
\* two runs that read one source over three days, three items, two where they
\* overlap.
SPECIFICATION SourcesSpec
CONSTANTS
  w1 = w1
  w2 = w2
  Worker = {w1, w2}
  Threshold = 2
  MaxAttempts = 2
  MaxTries = 1
  Quota = 2
  Capacity = 1
  MaxTroubles = 2
  Runs = 2
  Days = 3
  MaxItems = 3
  MaxShared = 2
  Shared = {"g2b"}
  Overlap = 1
  FirstDays = 3
  WindowDays = 2
  PageSize = 2
  MaxPages = 3
INVARIANTS
  SourcesTypeOK
  QuotaKept
  OpenHolds
  NothingMissed
PROPERTY
  CircuitCloses
