\* Three runners: one holds, two contend; every crash and reuse of a pid.
\* No symmetry: it is unsound for the liveness property.
CONSTANTS
  NoOne = NoOne
  p1 = p1
  p2 = p2
  p3 = p3
  Runners <- MCRunners
SPECIFICATION FairSpec
INVARIANTS TypeOK ExclusiveUnlessContended HolderOwnsLockFile TwoAttemptsSuffice
PROPERTY AcquisitionEnds
