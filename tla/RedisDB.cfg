SPECIFICATION Spec
CONSTANTS
  SDS_MAX_PREALLOC = 32
  REDIS_READER_MAX_BUF = 8
  DiscardFrom = 5
  MaxDepth = 8
  Addresses = 2
  REDIS_CONNECT_RETRIES = 3
  Clients = {t1}
  Keys <- MCKeys
  Fields <- MCFields
  Values <- MCValues
  Slaves = {0, 1}
  FieldLists <- MCFieldLists
  ShortSizes = {1}
  MaxCalls = 2
  MaxFaults = 1
INVARIANTS
  CommandsIntact
  ReadsStored
  NoOrphans
  InStep
  ConnectReports
PROPERTIES
  CallReturns
