SPECIFICATION Spec
CONSTANTS
  MIN_TIMEOUT = 3
  DEFAULT_TIMEOUT = 4
  HALF_WRAP = 10
  ByteRange = 5
  POST_LIMIT = 1
  Timeouts = {3, 7, 10}
  Modes = {1, 3}
  Notifies = {0, 1}
  Urls = {TRUE, FALSE}
  BELL_PRESS_THRESHOLD = 2
INVARIANTS
  TypeOK
PROPERTIES
  ImplementsChime
  RingFindsBellAtRest
  SettingsAreKept
