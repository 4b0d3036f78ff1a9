SPECIFICATION PlayerSpec
CONSTANTS
  ch1 = ch1
  ch2 = ch2
  ch3 = ch3
  Procs = {client}
  Challenges <- Catalog
  List <- InOrder
  Ids = {s1, s2}
  Calls = {r1, r2}
  Max = 2
  None = None
  Aside = Aside
  MaxFaults = 3
INVARIANTS
  PlayerTypeOK
  FileIsWhole
  MemoryIsStored
  MarkedWasSolved
  NothingLeftBehind
PROPERTIES
  WinIsSaved
  ImplementsAtomicStore
  FinishesGame
