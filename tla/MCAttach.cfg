SPECIFICATION PlayFairSpec
CONSTANTS
  SocketBuf = 1
  InputBuf = 1
INVARIANTS
  EndsForAReason
  CompletedIsTrue
PROPERTIES
  IsAnyClient
  SolvedIsTold
  BothEnd
CHECK_DEADLOCK FALSE
