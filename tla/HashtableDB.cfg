SPECIFICATION Spec
CONSTANTS
  Keys <- MCKeys
  Fields <- MCFields
  KeyOrder <- MCKeyOrder
  AllFields <- MCAllFields
  FieldLists <- MCFieldLists
  ReadsAll = {"Scan"}
  Clients = 2
  MaxCalls = 4
INVARIANTS
  StringsOwned
  AckedWrites
  ReadSound
CHECK_DEADLOCK FALSE
