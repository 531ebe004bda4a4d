SPECIFICATION FairSpec
CONSTANTS
  Scale = 10
  Universe <- MCUniverse
  LotSize = 1
  MaxPositionWeight = 4
  MaxGrossExposure = 10
  MaxDailyLoss = 1
  StopLoss = 2
  MaxOrdersPerDay = 2
  None = None
  MaxScans = 2
  Quotes <- MCQuotes
  InitialAccount <- MCHolding
  FreezesCash = FALSE
  AnswersMayBeEmpty = TRUE
  MaxDate = 2
INVARIANTS
  BuysWithinOrderCap
  OneOrderPerNamePerScan
  StopsAlwaysSent
PROPERTIES
  HaltIsForGood
  EveryScanIsMade
