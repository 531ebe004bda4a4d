SPECIFICATION FairSpec
CONSTANTS
  Listed <- MCListed
  Universe <- MCUniverse
  Requests <- MCRequests
  Board <- MCBoard
  Exchange <- MCExchange
  LastDay = 3
  MaxRevision = 2
  MonthLength = 2
  DedupOnRead = TRUE
  MinInterval = 1
  MaxRetries = 2
  LookbackDays = 1
  MaxRuns = 2
  MaxCrashes = 1
  MaxQuirks = 1
INVARIANTS
  NoHolesBehindLatest
  DoneMeansCaughtUp
PROPERTIES
  StoreKeepsItsPromise
  RunsEnd
CHECK_DEADLOCK FALSE
