\* The mega after MAX_DAYS_RUNNING days.
SPECIFICATION Spec
CONSTANTS
  minInitialSensorReadTime = 0
  minSensorTestReadtime = 1
  SENSOR_STATE_CHANGE_THRESHOLD = 0
  PUMP_SENSOR_STATE_CHANGE_THRESHOLD = 0
  OVERFLOW_STATE_THRESHOLD = 0
  OVERFLOW_ALARM_TIME_THRESHOLD = 1
  SENSOR_TEST_THRESHOLD = 1
  MAX_DAYS_RUNNING = 1
  NOTICE_LIMIT = 1
  Boards = {"mega"}
  Breakable = {}
  StuckAt = 0
PROPERTIES
  DailyTests
