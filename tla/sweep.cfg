SPECIFICATION FairSpec
CONSTANTS
  w1 = w1
  w2 = w2
  nan = nan
  NaN <- nan
  Workers <- MCWorkers
  Strategies <- MCStrategies
  Sharpe <- MCSharpe
  SpecLists <- MCSpecLists
  MaxDeaths = 2
INVARIANTS
  AbortHasACause
  ArtifactsAreWhole
  BestIsBest
PROPERTIES
  ImplementsPromise
  SweepEnds
CHECK_DEADLOCK FALSE
