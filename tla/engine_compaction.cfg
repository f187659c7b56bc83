CONSTANTS
  Keys = {1, 2}
  Vals = {v}
  Tomb = Tomb
  None = None
  KeysPerFile = 1
  MaxMemTableSize = 2
  MaxImmMemtables = 1
  CompactionThreshold = 2
  Faults = {}
  MaxBatchKeys = 1
  MaxWrites = 3
  MaxOpens = 2
  MaxRolls = 0
  MaxFaults = 0
SPECIFICATION Spec
SYMMETRY ValueSymmetry
CONSTRAINT NoCollisionYet
INVARIANTS ReadsAreAcknowledged QueueOrder LevelZeroNewestFirst LevelOneDisjoint
CHECK_DEADLOCK FALSE
