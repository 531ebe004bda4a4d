SPECIFICATION ResearchSpec
CONSTANTS
  Volatility <- MCVolatility
  Fundamentals <- MCKnownFundamentals
  Unknown <- MCUnknown
  Unit = 100
  Gross = 95
  MaxWeight = 60
  Every = 2
  Lookback = 2
  Symbols <- MCSymbols
  Arrivals <- MCArrivals
  Mask <- MCMask
  Score <- MCScore
  TopN = 2
  RawWeights <- MCRawWeights
INVARIANTS
  BudgetsKeepToTheLimits
  YoungNamesTakeNoSlot
  CoarseBarsAreTheirMinutes
  WindowsOfDaysAreWhole
PROPERTIES
  NoLookahead
CHECK_DEADLOCK FALSE
