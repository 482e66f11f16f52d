\* Two runs, three HTTP requests and a fault.
CONSTANTS
  NoProcess = 0
  NumRuns = 2
  MaxFaults = 1
  Requests <- MCRequests
  Kinds <- MCKinds
  Types <- DeliveryFirst
SPECIFICATION SSpec
VIEW View
INVARIANTS STypeOK SucceededIsReal LeftMovingIsExcused
PROPERTY RunsDoNotMeet
\* The bounds end the runs.
CHECK_DEADLOCK FALSE
