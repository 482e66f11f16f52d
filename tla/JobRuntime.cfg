CONSTANT MaxResponses = 2
SPECIFICATION FairSpec
INVARIANTS TypeOK RecordedOutcomeIsReal SafetyCancelIsTruthful NoJobLeftBehind
  EndedRunIsRecorded EndedRunReleasesLock
PROPERTIES LifecycleSpec RunEnds CancelEndsRun
\* A run is over when it is over.
CHECK_DEADLOCK FALSE
