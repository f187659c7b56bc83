CONSTANTS
  Keys = {1, 2}
  Vals = {v, w}
  Tomb = Tomb
  None = None
  KeysPerFile = 1
  MaxMemtables = 2
  MaxLevelZero = 1
  MaxLevelOne = 2
  MaxKey = 2
SPECIFICATION Spec
INVARIANTS TypeOK ScanIsExact GetIsNewest
CHECK_DEADLOCK FALSE
