\* A flush that overlaps an emission.
CONSTANTS
  NumEvents = 2
  MaxFlushes = 2
  f1 = f1
  f2 = f2
  Flushers <- MCFlushers
SPECIFICATION Spec
INVARIANT EmittedIsKept
\* The bounds end the emissions and the flushes.
CHECK_DEADLOCK FALSE
