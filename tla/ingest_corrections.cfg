SPECIFICATION Spec
CONSTANTS
  Listed <- MCListed
  Universe <- MCUniverse
  Requests <- MCRequests
  Board <- MCBoard
  Exchange <- MCExchange
  LastDay = 3
  MaxRevision = 2
  MonthLength = 2
  DedupOnRead = TRUE
  MinInterval = 0
  MaxRetries = 2
  LookbackDays = 1
  MaxRuns = 2
  MaxCrashes = 0
  MaxQuirks = 1
PROPERTIES
  LateCorrectionsRecaptured
CHECK_DEADLOCK FALSE
