SPECIFICATION Spec
CONSTANTS
  Byte = {"rs", "k", "us", "x"}
  checkSequence <- marker
  MaxBytes = 6
INVARIANTS
  TypeOK
  NothingLost
  MarksExact
CHECK_DEADLOCK FALSE
