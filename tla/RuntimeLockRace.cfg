\* Two runners suffice to break the promise of the documents.
CONSTANTS
  NoOne = NoOne
  p1 = p1
  p2 = p2
  p3 = p3
  Runners <- MCTwoRunners
SPECIFICATION Spec
INVARIANT MutualExclusion
