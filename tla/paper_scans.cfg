SPECIFICATION Spec
CONSTANTS
  Scale = 10
  CommissionRate = 0
  StampTaxRate = 0
  TransferFeeRate = 0
  SlippageRate = 0
  ImpactCoef = 0
  MinCommission = 1
  InitialCash = 60
  Universe <- MCUniverse
  LotSize = 1
  MaxPositionWeight = 4
  MaxGrossExposure = 9
  MaxDailyLoss = 2
  StopLoss = 2
  MaxOrdersPerDay = 3
  None = None
  MaxScans = 4
  Quotes <- MCQuotes
INVARIANTS
  StoppedNamesAreOut
PROPERTIES
  EntryWithinNameCap
