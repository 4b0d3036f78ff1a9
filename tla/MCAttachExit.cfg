SPECIFICATION PlaySpec
CONSTANTS
  SocketBuf = 1
  InputBuf = 1
INVARIANTS
  ExitIsNoFailure
CHECK_DEADLOCK FALSE
