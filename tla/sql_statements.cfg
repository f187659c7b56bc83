CONSTANTS
  Sessions = {s1, s2}
  Dbs = {d}
  Tabs = {t1, t2}
  Cols = {c1}
  Ops = {"create_db", "drop_db", "create", "drop", "alter", "rename", "insert", "update", "delete"}
  MaxKey = 2
  ScanLimits = {1, 2}
  Faults = {"refused", "unanswered", "restart", "broken_scan"}
  MaxFaults = 1
  MaxStmts = 2
  None = None
SPECIFICATION Spec
SYMMETRY NameSymmetry
INVARIANTS TypeOK CacheIsStore StoreIsConsistent SequenceAhead ReadsAreStable DeadlocksNeedTwo
PROPERTY RowsConserved
CHECK_DEADLOCK FALSE
