CONSTANTS
  IntMax = 7
  BigMax = 127
  Base = 16
  IntLen = 1
  BigLen = 2
  DecDigits = 2
  Db <- MCDb
  Table <- MCTable
  Others <- MCOthers
  Defs <- MCDefs
  Inserts <- MCInserts
  Updates <- MCUpdates
  Deletes <- MCDeletes
  Alters <- MCAlters
  MaxSteps = 3
  None = None
SPECIFICATION Spec
INVARIANTS RowsReadBack KeysAreOrdered OthersUntouched TornRowsAreDetected
CHECK_DEADLOCK FALSE
