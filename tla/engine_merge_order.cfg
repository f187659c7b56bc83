CONSTANTS
  Keys = {1}
  Vals = {v}
  Tomb = Tomb
  None = None
  KeysPerFile = 2
  MaxMemTableSize = 2
  MaxImmMemtables = 1
  CompactionThreshold = 1
  Faults = {}
  MaxBatchKeys = 1
  MaxWrites = 4
  MaxOpens = 1
  MaxRolls = 0
  MaxFaults = 0
SPECIFICATION Spec
SYMMETRY ValueSymmetry
INVARIANT NoLostWrites
CHECK_DEADLOCK FALSE
