\* One notice number, three signals, four days.
SPECIFICATION LifeSpec
CONSTANTS
  Lag <- MCLag
  HalfYear = 2
  BidDays = 1
  SilentDays = 3
  LateDays = 1
  SweetFrom = 1
  SweetTo = 2
  Horizon = 3
  Notice = {"n1"}
  LastDate = 4
  MaxSignals = 3
CHECK_DEADLOCK FALSE
INVARIANT ReannouncedIsOpen
