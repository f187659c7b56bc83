CONSTANTS
  Keys = {1, 2}
  Vals = {v}
  Tomb = Tomb
  None = None
  KeysPerFile = 2
  MaxMemTableSize = 2
  MaxImmMemtables = 1
  CompactionThreshold = 1
  Faults = {"wal_close", "wal_create", "wal_append", "wal_remove", "sst_write", "merge", "manifest_write", "manifest_sync"}
  MaxBatchKeys = 1
  MaxWrites = 2
  MaxOpens = 2
  MaxRolls = 1
  MaxFaults = 1
SPECIFICATION Spec
SYMMETRY ValueSymmetry
CONSTRAINT OneMisfortune
INVARIANTS TypeOK ReadsAreAcknowledged ManifestOpens LoggedBatchApplies
CHECK_DEADLOCK FALSE
