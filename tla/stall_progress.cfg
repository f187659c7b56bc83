CONSTANTS
  Clients = {c1, c2, c3}
  NoOne = NoOne
  MemTableCap = 2
  MaxImmMemtables = 2
  MaySnapshot = FALSE
  MayCancel = TRUE
  Faults = {"rotate", "append", "compact"}
  MaxQueue = 4
SPECIFICATION Spec
INVARIANTS TypeOK StallHasWaker
PROPERTIES WriteReturns CloseReturns
CHECK_DEADLOCK FALSE
