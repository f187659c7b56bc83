CONSTANTS
  Callers = {c1,c2,c3,c4}
  NoOne = NoOne
  Torn = Torn
  Records = 2
  ChanCap = 1
  BatchCap = 4
  SegCap = 4
  MayClose = TRUE
  Faults = {"write", "rotate"}
SPECIFICATION Spec
INVARIANTS TypeOK CommitOrder
PROPERTIES AppendReturns CloseReturns
CHECK_DEADLOCK FALSE
