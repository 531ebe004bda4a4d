SPECIFICATION Spec
CONSTANTS
  Scale = 20
  CommissionRate = 0
  StampTaxRate = 1
  TransferFeeRate = 0
  SlippageRate = 0
  ImpactCoef = 1
  MinCommission = 1
  Universe <- MCOne
  LotSize = 2
  InitialCash = 200
  MaxPositionWeight = 10
  MaxGrossExposure = 19
  MaxDailyLoss = 1
  StopLoss = 2
  MaxOrdersPerDay = 9
  None = None
  TPlusOne = TRUE
  EnforcePriceLimits = TRUE
  EnforceSuspension = TRUE
  ParticipationRate = 2
  DefaultLimitPct = 2
  Board <- MCMainBoard
  BarRows <- MCRowsOne
  Dates = {1, 2, 3}
  MaxBars = 5
  Schedule <- MCNoSchedule
  Weights <- MCFullWeights
INVARIANTS
  TypeOK
  BoughtTodayStillHeld
  OneFillPerBarWithinVolume
  FillsInsideTheBar
  NoReentryOnStopBar
  ExitsAlwaysSettle
  EntryWithinNameCap
PROPERTIES
  HaltBlocksEntriesAllDay
  ImplementsTPlusOneBook
