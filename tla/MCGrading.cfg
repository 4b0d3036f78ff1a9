SPECIFICATION Spec
CONSTANTS
  Nodes = 2
  Challenges <- AllChallenges
  Warned = {"endpoints"}
  MaxFailures = 1
  MaxStrays = 1
INVARIANTS
  TypeOK
  FreshIsUnsolved
PROPERTIES
  PendingIsFirst
  PendingLeadsOn
CHECK_DEADLOCK FALSE
