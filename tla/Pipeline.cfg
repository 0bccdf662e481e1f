\* Each part on its own small instance.
SPECIFICATION PipelineSpec
CONSTANTS
  \* extraction: two jobs, two prompts, a request for a brief
  DocJob = {"d1", "d2"}
  Key = {"k1", "k2"}
  ChunksOf <- MCChunksOf
  Doubtful = {"k2"}
  Cap = 3
  Estimate = 1
  BriefRequest = {"b1"}
  BriefEstimate = 1
  MaxCost = 2
  MaxJobTries = 2
  MaxSetbacks = 1
  \* institutions: two processes
  Curated <- MCCurated
  Syllables <- MCSyllables
  Similar <- MCSimilar
  Districts = {"Jung", "Haeundae"}
  Process = {"w1", "w2"}
  Published <- MCPublished
  MaxAborts = 1
  \* lifecycle and pages: one notice number, three signals, days 0 to 3
  Lag <- MCLag
  HalfYear = 1
  BidDays = 1
  SilentDays = 2
  LateDays = 1
  SweetFrom = 1
  SweetTo = 2
  Horizon = 2
  Notice = {"n1"}
  LastDate = 3
  MaxSignals = 3
  \* alerts: two opportunities, two job ids of a kind
  opp1 = opp1
  opp2 = opp2
  c1 = c1
  Opp = {opp1, opp2}
  MaxStage = 2
  Channel = {c1}
  Modes = {"instant", "daily"}
  InstantCap = 1
  DigestCap = 2
  Capacity = 1
  Buckets = 2
  MaxStageMoves = 2
  MaxAlertFaults = 1
  \* the feed: three opportunities, one of them changes
  Listed = {1, 2, 3}
  Scores = {1, 2}
  PageLimits = {1, 2}
  LastFeedDay = 2
  MaxMoves = 1
  \* the algorithms
  Radix = 3
  LargestWon = 20000
  MaxChunk = 4
  MinPiece = 2
  PlainSize = 4
  PlainOverlap = 1
  MinAmount = 2
  PostParam = "nttId"
  MaxFile = 2
  LinkThreshold = 6000
  ReviewBand = 800
  Steps = 4
  Letter = {"k", "m"}
  MinQuote = 2
  LongestText = 4
  DefaultUnit = 1000
CHECK_DEADLOCK FALSE
INVARIANTS
  PipelineTypeOK
  SpendCapped
  AcceptedIsModels
  DegradesInTheEnd
  InstantToldOnce
  MarkedIsTold
  FeedExact
  OpportunityRight
  ReadingRight
  EvidenceRight
  MatchedRight
