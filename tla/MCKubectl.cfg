SPECIFICATION KSpec
CONSTANTS
  Ids = {n1, n2}
  NoId = NoId
  Calls = {c1, c2, c3}
  MaxFaults = 2
SYMMETRY Symmetry
INVARIANTS
  WorkloadIsLabelled
  BuilderIsAlone
PROPERTY
  FailedLeavesNothing
