SPECIFICATION Spec
CONSTANTS
  Nodes = 2
  Challenges = {"service-selector"}
  Warned = {"endpoints"}
  MaxFailures = 0
  MaxStrays = 0
INVARIANTS
  CompleteIsMet
CHECK_DEADLOCK FALSE
