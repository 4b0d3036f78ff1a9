SPECIFICATION GFairSpec
CONSTANTS
  Ids = {n1}
  NoId = NoId
  Calls = {c1}
  MaxFaults = 1
  Max = 1
PROPERTY
  LeaverIsReclaimed
