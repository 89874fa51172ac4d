SPECIFICATION Spec
CONSTANTS
  Keys <- MCKeys
  Record <- MCRecord
  RecordCount = 3
  InsertStart = 0
  Fields = {f1, f2}
  WriteAllFields = TRUE
  ReadAllFields = TRUE
  Operations = {"READ", "UPDATE", "INSERT", "SCAN", "READMODIFYWRITE"}
  NumThreads = 2
  NoClient = NoClient
  NoRecord = NoRecord
  NoTuple = NoTuple
  MaxTx = 1
  MaxFaults = 0
INVARIANTS
  PicksInserted
CHECK_DEADLOCK FALSE
