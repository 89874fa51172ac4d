SPECIFICATION Spec
CONSTANTS
  Channels <- MCChannels
  Patterns <- MCPatterns
  NameLists <- MCNameLists
  DictHash <- MCDictHash
  DICT_HT_INITIAL_SIZE = 1
  Addresses = 1
  REDIS_CONNECT_RETRIES = 1
  Disciplined = TRUE
  MaxCommands = 2
  MaxMessages = 0
  MaxFaults = 0
PROPERTY
  RefusalDelivered
CHECK_DEADLOCK FALSE
