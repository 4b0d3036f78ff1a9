SPECIFICATION GFairSpec
CONSTANTS
  Ids = {n1, n2}
  NoId = NoId
  Calls = {c1, c2}
  MaxFaults = 2
  Max = 2
INVARIANTS
  GTypeOK
  Capacity
  PendingExact
  RegisteredHasNamespace
  NoSilentLeak
PROPERTIES
  CompletionSettles
  ImplementsPool
  ExpiredIsReclaimed
  PlacesComeBack
  OrphansAreReclaimed
  ComesBack
