\* A start during a sensor test that fails.
SPECIFICATION FairSpec
CONSTANTS
  CONSECUTIVE_PUMP_RUN_DELAY = 2
  SENSOR_RECENT_TEST_THRESHOLD = 3
  CONSECUTIVE_NOTIFICATION_DELAY = 0
  SENSOR_STATE_CHANGE_THRESHOLD = 2
  HIGH_SENSOR_STATE_CHANGE_THRESHOLD = 1
  PUMP_SENSOR_STATE_CHANGE_THRESHOLD = 1
  OVERFLOW_STATE_THRESHOLD = 0
  minInitialSensorReadTime = 1
  minSensorTestReadtime = 1
  TANK_FILLING_TIME_GAP = 2
  DEFAULT_RUNTIME = 3
  NOTICE_LIMIT = 0
  ByteRange = 4
  Runtimes = {2}
  Endpoints = {"on"}
  Elapsed = {1}
  SetupTimes = {0}
  ClockCap = 4
  LongUptime = FALSE
PROPERTIES
  EveryRunEnds
