SPECIFICATION FairSpec
CONSTANTS
  INIT_DELAY = 2
  CONSECUTIVE_PUMP_RUN_DELAY = 1
  OPERATION_FEEDBACK_CHECK_DELAY = 0
  START_REQUEST_TOKEN_INVALIDATE_TIME = 1
  PUMP_CONNECTION_SENSOR_NOISE_THRESHOLD = 0
  FLOAT_SWITCH_DEBOUNCE = 1
  DEFAULT_RUNTIME = 1
  NOTICE_LIMIT = 1
  ByteRange = 2
  Runtimes = {1, 2}
  Endpoints = {"getNotify", "reset", "toggle", "on", "off", "setRuntime", "setNotify", "setNotifyURL"}
  ClockCap = 3
  LongUptime = TRUE
INVARIANTS
  TypeOK
  RunIsRequested
  SafeRun
PROPERTIES
  TokenReleased
  AlarmsAtOnce
  ImplementsTimedPump
