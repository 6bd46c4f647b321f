SPECIFICATION FairSpec
CONSTANTS
  MAX_MESSAGES_STORE = 3
  MAX_MESSAGE_STORE_TIME = 1
  MAX_SUBMITS = 2
  MAX_FAILURES = 1
  MAX_LOSSES = 1
  MAX_CYCLES = 1
  Types = {"data", "command"}
  AckTypes = {"data"}
INVARIANTS
  TypeOK
  PublishedFirst
PROPERTIES
  Delivered
  Settles
  GetsReady
