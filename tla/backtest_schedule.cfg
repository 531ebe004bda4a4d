SPECIFICATION Spec
CONSTANTS
  Scale = 20
  CommissionRate = 0
  StampTaxRate = 1
  TransferFeeRate = 0
  SlippageRate = 0
  ImpactCoef = 1
  MinCommission = 1
  Universe <- MCTwo
  LotSize = 2
  InitialCash = 200
  MaxPositionWeight = 10
  MaxGrossExposure = 19
  MaxDailyLoss = 1
  StopLoss = 2
  MaxOrdersPerDay = 9
  None = None
  TPlusOne = TRUE
  EnforcePriceLimits = TRUE
  EnforceSuspension = TRUE
  ParticipationRate = 2
  DefaultLimitPct = 2
  Board <- MCMixedBoards
  BarRows <- MCRowsSchedule
  Dates = {1, 2, 3, 4}
  MaxBars = 3
  Schedule <- MCSchedule
  Weights <- MCFullWeights
INVARIANTS
  HoldingsAreMarked
  BudgetIsLatestInEffect
PROPERTIES
  DroppedNamesNeverGrow
