\* Clients read settings back and save them, one that does not fit a byte too,
\* while the pump may run.
SPECIFICATION Spec
CONSTANTS
  CONSECUTIVE_PUMP_RUN_DELAY = 1
  SENSOR_RECENT_TEST_THRESHOLD = 1
  CONSECUTIVE_NOTIFICATION_DELAY = 0
  SENSOR_STATE_CHANGE_THRESHOLD = 0
  HIGH_SENSOR_STATE_CHANGE_THRESHOLD = 0
  PUMP_SENSOR_STATE_CHANGE_THRESHOLD = 0
  OVERFLOW_STATE_THRESHOLD = 0
  minInitialSensorReadTime = 0
  minSensorTestReadtime = 0
  TANK_FILLING_TIME_GAP = 0
  DEFAULT_RUNTIME = 2
  NOTICE_LIMIT = 1
  ByteRange = 3
  Runtimes = {3}
  Endpoints = {"on", "off", "reset", "setRuntime", "getRuntime", "getNotify", "getNotifyURL", "setNotify", "setNotifyURL"}
  Elapsed = {1}
  SetupTimes = {0}
  ClockCap = 4
  LongUptime = FALSE
INVARIANTS
  TypeOK
  OverflowStampMeansFilling
  TestIsRemembered
PROPERTIES
  RefillOnlyWhenDryAndTested
  FailureIsFinal
  RecordedRunIsControlled
  OnlyLoadsLoseTheRecord
  ResetPrevails
