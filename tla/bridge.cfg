SPECIFICATION BridgeFair
CONSTANTS
  Results <- MCResults
  Viewers <- MCViewers
INVARIANTS
  ReplayFollowsTheExport
PROPERTIES
  ViewersSeeEverything
CHECK_DEADLOCK FALSE
