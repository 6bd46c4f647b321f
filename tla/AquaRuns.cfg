\* Clients switch the pump, set its runtime and ask for a reset, and nobody reads
\* settings back.  Fair core task.
SPECIFICATION FairSpec
CONSTANTS
  CONSECUTIVE_PUMP_RUN_DELAY = 2
  SENSOR_RECENT_TEST_THRESHOLD = 3
  CONSECUTIVE_NOTIFICATION_DELAY = 0
  SENSOR_STATE_CHANGE_THRESHOLD = 2
  HIGH_SENSOR_STATE_CHANGE_THRESHOLD = 1
  PUMP_SENSOR_STATE_CHANGE_THRESHOLD = 1
  OVERFLOW_STATE_THRESHOLD = 0
  minInitialSensorReadTime = 1
  minSensorTestReadtime = 1
  TANK_FILLING_TIME_GAP = 0
  DEFAULT_RUNTIME = 3
  NOTICE_LIMIT = 0
  ByteRange = 4
  Runtimes = {1}
  Endpoints = {"on", "off", "toggle", "setRuntime", "reset"}
  Elapsed = {1}
  SetupTimes = {0}
  ClockCap = 4
  LongUptime = FALSE
INVARIANTS
  RunningIsRecorded
  StaleRecordIsStored
PROPERTIES
  RunWithinRuntime
  OverflowStopsPump
  TestsStartOnStoppedPump
  RunEnds
  RefillStarts
  ResetHonoured
