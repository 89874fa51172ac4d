SPECIFICATION Spec
CONSTANTS
  Keys = {k1, k2, k3}
  NoTuple = NoTuple
  NoBlock = NoBlock
  Torn = Torn
  Privileges = {TRUE, FALSE}
  MaxNumBlocks = 2
  FsyncMayFail = FALSE
  MaxWrites = 5
  MaxFaults = 2
SYMMETRY KeySymmetry
INVARIANTS
  Durable
  FlushWritesCurrent
  LookupSound
  DiskOrdered
PROPERTIES
  ImplementsStore
