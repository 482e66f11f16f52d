\* Two overlapping runs of one job, or a job between them.
CONSTANTS
  NoOne = NoOne
  NoKey = NoKey
  MaxAlive = 2
  p1 = p1
  p2 = p2
  k1 = k1
  k2 = k2
  Runners <- MCRunners
  Keys <- MCKeys
SPECIFICATION ASpec
INVARIANT NotExecutedTwice
