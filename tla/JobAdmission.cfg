\* Runs of two jobs under two process ids that are reused without end, two of
\* them alive at a time, other programs, and one cancellation at a time.
CONSTANTS
  NoOne = NoOne
  NoKey = NoKey
  MaxAlive = 2
  p1 = p1
  p2 = p2
  k1 = k1
  k2 = k2
  Runners <- MCRunners
  Keys <- MCKeys
SYMMETRY Symmetry
SPECIFICATION ASpec
INVARIANTS StateFileIsTheJob
PROPERTIES RepeatsAreExcused SignalsNamedJob
