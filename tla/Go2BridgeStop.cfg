\* One motion and one stop.
CONSTANTS
  NoProcess = NoProcess
  r1 = r1
  r2 = r2
  r3 = r3
  Requests <- MCTwoRequests
  Kinds <- LinearKinds
SPECIFICATION Spec
INVARIANT CancelledMeansStopped
\* The requests end.
CHECK_DEADLOCK FALSE
