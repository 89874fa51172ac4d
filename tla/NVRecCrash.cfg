SPECIFICATION Spec
CONSTANTS
  Keys = {k1, k2, k3}
  NoTuple = NoTuple
  Torn = Torn
  Privileges = {TRUE, FALSE}
  PoolCapacity = 2
  FsyncMayFail = FALSE
  ReopenMayFail = FALSE
  MaxWrites = 5
  MaxFaults = 2
SYMMETRY KeySymmetry
INVARIANTS
  Durable
  LookupSound
  FlushIsolated
  DiskOrdered
  PoolsBounded
PROPERTIES
  ImplementsStore
  UnlinkOnlyDurable
