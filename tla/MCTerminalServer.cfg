SPECIFICATION FairSpec
CONSTANTS
  SocketBuf = 1
  InputBuf = 1
INVARIANTS
  NobodyWaits
  TypeOK
  MarkIsKept
PROPERTIES
  MarkIsAnswered
  NoStrayGoroutine
  TerminalEnds
CHECK_DEADLOCK FALSE
