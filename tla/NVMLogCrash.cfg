SPECIFICATION Spec
CONSTANTS
  Keys = {k1, k2}
  NoTuple = NoTuple
  Torn = Torn
  Privileges = {TRUE, FALSE}
  LogCapacity = 2
  FsyncMayFail = FALSE
  MaxWrites = 5
  MaxFaults = 2
SYMMETRY KeySymmetry
INVARIANTS
  Recoverable
  Durable
  LengthAccounted
PROPERTIES
  ImplementsStore
  RewindOnlyDurable
  FailsOnlyOnInherited
  InheritedNeverFlushed
