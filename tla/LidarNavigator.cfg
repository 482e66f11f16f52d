\* Cells of about one lateral step; two bypasses fit before the target.
CONSTANTS
  TargetDistance = 3
  LateralShift = 2
  BypassDistance = 1
  Tolerance = 0
  StallTimeout = 2
  BlockedFrames = 2
  ClearFrames = 1
  MaxBypassAttempts = 2
  MaxStep = 1
  Room = 3
  MoveTimeout = 2
  MaxBehind = 1
SPECIFICATION FairSpec
INVARIANTS TypeOK StaysInCorridor BlindForwardBounded ArrivedMeansArrived
PROPERTIES FailedStaysFailed NavigationEnds
\* The process exits.
CHECK_DEADLOCK FALSE
