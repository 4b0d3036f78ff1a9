SPECIFICATION Spec
CONSTANTS
  Procs = {p1, p2}
  Challenges = {c1, c2}
INVARIANTS
  ConfirmedIsStored
