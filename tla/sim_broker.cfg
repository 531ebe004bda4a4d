SPECIFICATION MCSpec
CONSTANTS
  Scale = 10
  CommissionRate = 1
  StampTaxRate = 1
  TransferFeeRate = 0
  SlippageRate = 1
  ImpactCoef = 2
  MinCommission = 3
  Universe <- MCUniverse
  LotSize = 2
  InitialCash = 30
  MaxFills = 4
  MaxDate = 1
  MCSizes = {2, 3, 4}
  MCPrices = {1, 3, 5}
INVARIANTS
  AvgPriceWithinPricesPaid
  OnlyADearSaleMakesDebt
PROPERTY
  AccountIsReplayOfFills
CHECK_DEADLOCK FALSE
