SPECIFICATION ResearchSpec
CONSTANTS
  Volatility <- MCVolatility
  Fundamentals <- MCFundamentals
  Unknown <- MCUnknown
  Unit = 100
  Gross = 95
  MaxWeight = 60
  Every = 2
  Lookback = 2
  Symbols <- MCSymbols
  Arrivals <- MCArrivals
  Mask <- MCMask
  Score <- MCScore
  TopN = 2
  RawWeights <- MCRawWeights
INVARIANTS
  NullStaysExcluded
CHECK_DEADLOCK FALSE
