SPECIFICATION Spec
CONSTANTS
  Nodes = 2
  Challenges = {"daemonset"}
  Warned = {}
  MaxFailures = 0
  MaxStrays = 0
INVARIANTS
  CompleteIsMet
CHECK_DEADLOCK FALSE
