SPECIFICATION Spec
CONSTANTS
  Channels <- MCChannels
  Patterns <- MCPatterns
  NameLists <- MCNameLists
  DictHash <- MCDictHash
  DICT_HT_INITIAL_SIZE = 1
  Addresses = 1
  REDIS_CONNECT_RETRIES = 1
  Disciplined = TRUE
  MaxCommands = 3
  MaxMessages = 1
  MaxFaults = 1
INVARIANTS
  AssertionsHold
  OwnReply
  Finished
  SubscriptionsAgree
PROPERTY
  DisconnectEnds
CHECK_DEADLOCK FALSE
