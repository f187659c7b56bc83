CONSTANTS
  Ids = {i1, i2}
  Requests = {q1, q2, q3}
  NoId = NoId
SPECIFICATION Spec
INVARIANTS TypeOK OneOwner
PROPERTIES KeepsLease ShutdownReturns
CHECK_DEADLOCK FALSE
