SPECIFICATION Spec
CONSTANTS
  Chars = {a, b}
  NUL = NUL
  kNumOfFields = 3
  kFieldSize = 3
  MaxValueSize = 3
INVARIANTS
  RoundTrip
CHECK_DEADLOCK FALSE
