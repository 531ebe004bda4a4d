SPECIFICATION Spec
CONSTANTS
  Scale = 10
  Universe <- MCOne
  LotSize = 1
  MaxPositionWeight = 5
  MaxGrossExposure = 10
  MaxDailyLoss = 1
  StopLoss = 2
  MaxOrdersPerDay = 9
  None = None
  MaxScans = 3
  Quotes <- MCSteady
  InitialAccount <- MCFlat
  FreezesCash = FALSE
  AnswersMayBeEmpty = FALSE
  MaxDate = 1
INVARIANTS
  NameWithinCap
