SPECIFICATION Spec
CONSTANTS
  MAX_MESSAGES_STORE = 3
  MAX_MESSAGE_STORE_TIME = 1
  MAX_SUBMITS = 2
  MAX_FAILURES = 1
  MAX_LOSSES = 1
  MAX_CYCLES = 0
  Types = {"data", "command"}
  AckTypes = {"data"}
PROPERTY RemovesPublished
