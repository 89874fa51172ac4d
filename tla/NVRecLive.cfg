SPECIFICATION FairSpec
CONSTANTS
  Keys = {k1, k2}
  NoTuple = NoTuple
  Torn = Torn
  Privileges = {TRUE, FALSE}
  PoolCapacity = 1
  FsyncMayFail = TRUE
  ReopenMayFail = FALSE
  MaxWrites = 3
  MaxFaults = 1
PROPERTIES
  CallReturns
  PoolReclaimed
