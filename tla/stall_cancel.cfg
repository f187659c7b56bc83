CONSTANTS
  Clients = {c1, c2}
  NoOne = NoOne
  MemTableCap = 1
  MaxImmMemtables = 2
  MaySnapshot = TRUE
  MayCancel = TRUE
  Faults = {"flush", "rotate", "append", "compact"}
  MaxQueue = 4
SPECIFICATION Spec
PROPERTY CancelledStallReturns
CHECK_DEADLOCK FALSE
