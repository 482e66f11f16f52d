\* Two flushers and an emitter: races of every pair; three events, so that
\* a flush sees old and new records.
CONSTANTS
  NumEvents = 3
  MaxFlushes = 3
  f1 = f1
  f2 = f2
  Flushers <- MCFlushers
SPECIFICATION Spec
SYMMETRY FlusherSymmetry
INVARIANTS KeptUnlessRaced FileInOrder DeliveredIsTrue NoNeedlessDuplicate
\* The bounds end the emissions and the flushes.
CHECK_DEADLOCK FALSE
