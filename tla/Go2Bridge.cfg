\* A linear motion, a motion of any kind, and a stop.
CONSTANTS
  NoProcess = NoProcess
  r1 = r1
  r2 = r2
  r3 = r3
  Requests <- MCRequests
  Kinds <- MixedKinds
SPECIFICATION FairSpec
INVARIANTS StopsRegisteredMotion OneLinearMotion EarlyStopHolds ReservationHasOwner
PROPERTIES RunningEnds
\* The requests end.
CHECK_DEADLOCK FALSE
