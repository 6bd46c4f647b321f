---------------------------- MODULE TankMonitor ----------------------------
(***************************************************************************)
(* The apartment tank monitor: three level sensors and a pump sensor, a    *)
(* wall clock, indicators and notices.  It switches no pump; it shows what *)
(* the tank does and judges its own sensors.  Two boards run it, "mega"    *)
(* (an Arduino with a DS3231) and "esp32" (a port with network time).      *)
(*                                                                         *)
(* A step is a pass of loop(), which ends in delay(1000): every pass takes *)
(* some ticks and falls into one moment of the wall clock.  A stamp of     *)
(* millis() is kept as its age in ticks, saturated one past the threshold  *)
(* it is compared with; Never is the code's 0.  The uptime stays below     *)
(* 2^31 ms, where the signed stamps turn negative.                         *)
(***************************************************************************)
EXTENDS Integers

CONSTANTS
  minInitialSensorReadTime, minSensorTestReadtime,  \* thresholds, in ticks
  SENSOR_STATE_CHANGE_THRESHOLD, PUMP_SENSOR_STATE_CHANGE_THRESHOLD,
  OVERFLOW_STATE_THRESHOLD, OVERFLOW_ALARM_TIME_THRESHOLD,
  SENSOR_TEST_THRESHOLD,
  MAX_DAYS_RUNNING,
  NOTICE_LIMIT,    \* most notices in the queue
  Boards,          \* the boards that may run the sketch
  Breakable,       \* the sensors that may break
  StuckAt          \* what a broken sensor reads, whatever its level pin says

Level == {0, 1}
Never == -1
Sensors == {"low", "mid", "high", "pump"}

ASSUME TankThresholds ==
  /\ minInitialSensorReadTime \in Nat
  /\ minSensorTestReadtime \in Nat
  /\ SENSOR_STATE_CHANGE_THRESHOLD \in Nat
  /\ PUMP_SENSOR_STATE_CHANGE_THRESHOLD \in Nat
  /\ OVERFLOW_STATE_THRESHOLD \in Nat
  /\ OVERFLOW_ALARM_TIME_THRESHOLD \in Nat
  /\ SENSOR_TEST_THRESHOLD \in Nat
  /\ MAX_DAYS_RUNNING \in Nat
  /\ NOTICE_LIMIT \in Nat
  /\ Boards \subseteq {"mega", "esp32"}
  /\ Breakable \subseteq Sensors
  /\ StuckAt \in Level

VARIABLES
  board,
  moment,          \* the part of the day the wall clock shows
  newDay,          \* its date is no longer lastRunDay
  synced,          \* getLocalTime() has a time (esp32)
  stuck,           \* the sensors that are broken
  inited, initialReadTime,
  daysRunning,
  PUMP_EVENT, EMERGENCY_PUMP_EVENT, forcePumpOn,
  tankState,       \* the debounced state of every sensor
  lastChange,      \* lastLowChange, lastMidChange, lastHighChange, lastPumpChange
  lastOverflowCondition, overFlowAlarmStart,
  alarm, beeper,
  sys,             \* the system LED (mega)
  sensorCheck, sensorsInvert, sensorTestTime, lastSensorTest,
  normal,          \* normalLow .. normalPump; not read once a test is over
  health,
  queue            \* number of notices waiting

world      == <<board, stuck, synced>>
wallClock  == <<moment, newDay>>
alarmVars  == <<PUMP_EVENT, EMERGENCY_PUMP_EVENT>>
levelVars  == <<tankState, lastChange, lastOverflowCondition, overFlowAlarmStart>>
testVars   == <<sensorCheck, sensorsInvert, sensorTestTime, lastSensorTest, normal>>
vars == <<world, wallClock, inited, initialReadTime, daysRunning, alarmVars,
          forcePumpOn, levelVars, alarm, beeper, sys, testVars,
          health, queue>>

Min2(a, b) == IF a < b THEN a ELSE b

\* The age of a stamp one pass later, as far as threshold t can tell.
Older(age, t) == IF age = Never THEN Never ELSE Min2(age + 1, t + 1)

Mega == board = "mega"

Threshold(s) == IF s = "pump" THEN PUMP_SENSOR_STATE_CHANGE_THRESHOLD
                ELSE SENSOR_STATE_CHANGE_THRESHOLD

\* What a pass does to the levels that does not look at them: their stamps grow
\* older, as millis() runs on.
LevelsWait ==
  /\ lastChange' = [s \in Sensors |-> Older(lastChange[s], Threshold(s))]
  /\ lastOverflowCondition' = Older(lastOverflowCondition, OVERFLOW_STATE_THRESHOLD)
  /\ overFlowAlarmStart' = Older(overFlowAlarmStart, OVERFLOW_ALARM_TIME_THRESHOLD)
  /\ UNCHANGED <<tankState, alarm>>

-----------------------------------------------------------------------------
\* The world: a tank, a clock, sensors that break

\* Water reaches a level only by way of the lower ones.
Nested(r) == r.high <= r.mid /\ r.mid <= r.low
Tanks == {r \in [Sensors -> Level] : Nested(r)}

\* What the sensors read while the tank is in state w: a low level pin turns
\* the reading of a sound sensor round.
Reading(w) ==
  [s \in Sensors |-> IF s \in stuck THEN StuckAt
                     ELSE IF sensorsInvert THEN 1 - w[s] ELSE w[s]]
Readings == {Reading(w) : w \in Tanks}

\* "test" is the second at 3:00 or 15:00, "pumping" a period in which the pump is
\* expected to run.  Midnight is in the quiet part; dates past MAX_DAYS_RUNNING
\* are not told apart.
After == [quiet |-> {"test", "pumping"}, test |-> {"quiet"}, pumping |-> {"quiet"}]

ClockMoves ==
  /\ moment' \in After[moment]
  /\ newDay' \in IF Mega /\ moment = "quiet" /\ daysRunning < MAX_DAYS_RUNNING
                 THEN {newDay, TRUE} ELSE {newDay}
  /\ UNCHANGED <<world, inited, initialReadTime, daysRunning, alarmVars, forcePumpOn,
                 levelVars, alarm, beeper, sys, testVars, health,
                 queue>>

SensorBreaks(s) ==
  /\ s \notin stuck
  /\ stuck' = stuck \cup {s}
  /\ UNCHANGED <<board, synced, wallClock, inited, initialReadTime, daysRunning,
                 alarmVars, forcePumpOn, levelVars, alarm, beeper, sys,
                 testVars, health, queue>>

\* The network gives the time that the RTC had lost.
TimeArrives ==
  /\ ~synced /\ synced' = TRUE
  /\ UNCHANGED <<board, stuck, wallClock, inited, initialReadTime, daysRunning,
                 alarmVars, forcePumpOn, levelVars, alarm, beeper, sys,
                 testVars, health, queue>>

\* A pass takes a second or more: the next one is past the moment of a test.
PassTime == moment' = IF moment = "test" THEN "quiet" ELSE moment

-----------------------------------------------------------------------------
\* Notices

\* mutant: the limit is tested after the notice was pushed
LateLimit(n) == Min2(queue + n, NOTICE_LIMIT + 1)

\* The queue after n calls of notifyURL in one pass.
Queued(n) == Min2(queue + n, NOTICE_LIMIT)

\* checkRTC (mega) may find a clock before 2015, of which it tells unless
\* SYSTEM_ERROR is set.  That flag only takes the error of an evaluation to the
\* indicators of the same pass otherwise, and is left out.
RTCNotices == IF Mega THEN {0, 1} ELSE {0}

\* The end of a pass that called notifyURL n times: once the delay between two
\* notices is over, one leaves, sent, lost with its POST, or dropped because the
\* server is out of reach (mega, with more than two waiting).
dispatchPendingNotification(n) ==
  queue' \in UNION {{w, IF w > 0 THEN w - 1 ELSE 0} :
                      w \in {Queued(n + rtc) : rtc \in RTCNotices}}

-----------------------------------------------------------------------------
\* Start

Boot ==
  /\ inited' = FALSE
  /\ initialReadTime' = 0
  /\ newDay' = FALSE
  /\ daysRunning' = 0
  /\ PUMP_EVENT' = FALSE /\ EMERGENCY_PUMP_EVENT' = FALSE
  /\ forcePumpOn' = ~Mega
  /\ tankState' = [s \in Sensors |-> 0]
  /\ lastChange' = [s \in Sensors |-> Never]
  /\ lastOverflowCondition' = Never /\ overFlowAlarmStart' = Never
  /\ alarm' = 0 /\ beeper' = 0 /\ sys' = 0
  /\ sensorCheck' = FALSE /\ sensorsInvert' = FALSE
  /\ sensorTestTime' = 0 /\ lastSensorTest' = 0
  /\ normal' = [s \in Sensors |-> 0]
  /\ health' = 1
  /\ queue' = 0

\* A power cut: setup() takes 20 s, and the esp32's RTC may have lost the time.
PowerCycle ==
  /\ Boot
  /\ PassTime
  /\ synced' \in IF Mega THEN {TRUE} ELSE BOOLEAN
  /\ UNCHANGED <<board, stuck>>

doSensorTest ==
  /\ sensorCheck' = TRUE
  /\ sensorsInvert' = FALSE
  /\ sensorTestTime' = 0
  /\ sys' = IF Mega THEN 1 ELSE 0
  /\ UNCHANGED normal

\* A pass before inited: the readings are taken as they are.
InitPass ==
  \E r \in Readings :
    LET age == Older(initialReadTime, minInitialSensorReadTime)
        over == age > minInitialSensorReadTime
    IN  /\ ~inited
        /\ tankState' = r
        /\ initialReadTime' = age
        /\ inited' = over
        /\ IF over THEN doSensorTest
           ELSE /\ sys' = IF Mega THEN 1 ELSE 0
                /\ UNCHANGED <<sensorCheck, sensorsInvert, sensorTestTime, normal>>
        /\ dispatchPendingNotification(IF over THEN 1 ELSE 0)
        /\ PassTime
        /\ UNCHANGED <<world, newDay, daysRunning, alarmVars, forcePumpOn, lastChange,
                       lastOverflowCondition, overFlowAlarmStart, alarm, beeper,
                       lastSensorTest, health>>

-----------------------------------------------------------------------------
\* The sensor test

\* A pass of the first phase, which ends with the level pins turned round.
TestNormalPass ==
  \E r \in Readings :
    LET age == Older(sensorTestTime, minSensorTestReadtime)
        over == age > minSensorTestReadtime
    IN  /\ inited /\ sensorCheck /\ ~sensorsInvert
        /\ normal' = r
        /\ sensorsInvert' = over
        /\ sensorTestTime' = IF over THEN 0 ELSE age
        /\ lastSensorTest' = Older(lastSensorTest, SENSOR_TEST_THRESHOLD)
        /\ LevelsWait
        /\ dispatchPendingNotification(0)
        /\ PassTime
        /\ UNCHANGED <<world, newDay, inited, initialReadTime, daysRunning, alarmVars,
                       forcePumpOn, beeper, sys, sensorCheck, health>>

\* A pass of the second phase that is not the last.
TestInvertPass ==
  LET age == Older(sensorTestTime, minSensorTestReadtime)
  IN  /\ inited /\ sensorCheck /\ sensorsInvert
      /\ age <= minSensorTestReadtime
      /\ sensorTestTime' = age
      /\ lastSensorTest' = Older(lastSensorTest, SENSOR_TEST_THRESHOLD)
      /\ LevelsWait
      /\ dispatchPendingNotification(0)
      /\ PassTime
      /\ UNCHANGED <<world, newDay, inited, initialReadTime, daysRunning, alarmVars,
                     forcePumpOn, beeper, sys, sensorCheck, sensorsInvert, normal,
                     health>>

\* mutant: one sensor that turned its reading round is enough
AnyPassed(n, i) == \E s \in Sensors : n[s] # i[s]

\* Did every sensor turn its reading round, and if not, did the pump's?
Passed(n, i) == \A s \in Sensors : n[s] # i[s]
PumpSensorFailed(n, i) == n.pump = i.pump

\* The last pass of a test: a pump sensor that did not turn its reading round
\* only switches to the backup, which takes the pump period for the pump.
TestEndPass ==
  \E invert \in Readings :
    LET passed == Passed(normal, invert)
        backup == ~passed /\ PumpSensorFailed(normal, invert)
        failed == ~passed /\ ~backup
        notices == IF failed \/ (backup /\ (Mega \/ ~forcePumpOn)) THEN 1 ELSE 0
    IN  /\ inited /\ sensorCheck /\ sensorsInvert
        /\ Older(sensorTestTime, minSensorTestReadtime) > minSensorTestReadtime
        /\ sensorCheck' = FALSE /\ sensorsInvert' = FALSE
        /\ sensorTestTime' = 0 /\ lastSensorTest' = 0
        /\ normal' = [s \in Sensors |-> 0]
        /\ health' = IF passed THEN 1 ELSE IF failed THEN 0 ELSE health
        /\ forcePumpOn' = (forcePumpOn \/ backup)
        /\ beeper' = IF failed THEN 1 ELSE beeper
        /\ sys' = IF Mega /\ failed THEN 1 ELSE 0
        /\ LevelsWait
        /\ dispatchPendingNotification(notices)
        /\ PassTime
        /\ UNCHANGED <<world, newDay, inited, initialReadTime, daysRunning, alarmVars>>

-----------------------------------------------------------------------------
\* Levels

\* mutant: the low sensor's stamp is taken anew by every pass
RestartedLow(r) ==
  [s \in Sensors |-> IF r[s] = tankState[s] THEN Never
                     ELSE IF lastChange[s] = Never \/ s = "low" THEN 0
                     ELSE Older(lastChange[s], Threshold(s))]

\* A sensor's stamp runs from the first pass that reads another value than the
\* debounced one, and is cleared by a pass that reads the same.
trackSensorChanges(r) ==
  [s \in Sensors |-> IF r[s] = tankState[s] THEN Never
                     ELSE IF lastChange[s] = Never THEN 0
                     ELSE Older(lastChange[s], Threshold(s))]

\* The sensors that have read another value for long enough.
Changed(stamps) == {s \in Sensors : stamps[s] > Threshold(s)}

\* Changes that the other readings make unbelievable.  The error of one level
\* holds back the ones evaluated after it: low, then mid, then high.
LowError(c, r) ==
  "low" \in c /\ IF r.low = 1 THEN r.pump = 0 /\ ~forcePumpOn
                 ELSE r.mid = 1 \/ r.high = 1
MidError(c, r) ==
  \/ LowError(c, r)
  \/ "mid" \in c /\ IF r.mid = 1 THEN r.low = 0 \/ r.pump = 0 ELSE r.high = 1
HighError(c, r) ==
  \/ MidError(c, r)
  \/ "high" \in c /\ r.high = 1 /\ (r.low = 0 \/ r.mid = 0 \/ r.pump = 0)

\* The changes a pass adopts; the pump's is always believed.
Adopted(c, r) ==
  c \ ((IF LowError(c, r) THEN {"low"} ELSE {})
       \cup (IF MidError(c, r) THEN {"mid"} ELSE {})
       \cup (IF HighError(c, r) THEN {"high"} ELSE {}))

\* mutant: the pump is not looked at
RiseInBackup(c, r) == "low" \in c /\ r.low = 1 /\ forcePumpOn

\* With the backup, water that rises without the pump means that it runs now.
EmergencyRise(c, r) == "low" \in c /\ r.low = 1 /\ r.pump = 0 /\ forcePumpOn

trackOverFlow(t) ==
  IF t.pump = 1 /\ t.high = 1
  THEN IF lastOverflowCondition = Never THEN 0
       ELSE Older(lastOverflowCondition, OVERFLOW_STATE_THRESHOLD)
  ELSE Never

\* The alarm wails (on in one pass, off in the next, as 600 ms are over by
\* then) until it is as old as its threshold or the overflow ends.
OverflowAlarmStart(overflow) ==
  IF overflow <= OVERFLOW_STATE_THRESHOLD THEN Never
  ELSE IF overFlowAlarmStart = Never THEN 0
  ELSE Older(overFlowAlarmStart, OVERFLOW_ALARM_TIME_THRESHOLD)

\* mutant: the end of the overflow does not switch the alarm off
LatchedAlarm(overflow, start) ==
  IF overflow > OVERFLOW_STATE_THRESHOLD /\ start < OVERFLOW_ALARM_TIME_THRESHOLD
  THEN 1 - alarm ELSE IF overflow > OVERFLOW_STATE_THRESHOLD THEN 0 ELSE alarm
Wail(overflow, start) ==
  IF overflow > OVERFLOW_STATE_THRESHOLD /\ start < OVERFLOW_ALARM_TIME_THRESHOLD
  THEN 1 - alarm ELSE 0

\* updateIndicators, but for the LEDs of the levels and the pump, which show
\* tankState, and the system LED.
updateIndicators(error, overflow) ==
  LET start == OverflowAlarmStart(overflow)
  IN  /\ overFlowAlarmStart' = start
      /\ alarm' = Wail(overflow, start)
      /\ beeper' = IF error THEN 1 ELSE 0

\* The system LED of the mega, as updateIndicators leaves it: after an error it
\* blinks every other pass or so.
BlinkSystemLed(error) == sys' \in IF Mega /\ error THEN Level ELSE {0}

-----------------------------------------------------------------------------
\* Control passes

\* runningDaysCounter (mega); a count past MAX_DAYS_RUNNING tells nothing more.
DaysRunning ==
  IF Mega /\ newDay THEN Min2(daysRunning + 1, MAX_DAYS_RUNNING) ELSE daysRunning
runningDaysCounter == daysRunning' = DaysRunning /\ newDay' = FALSE

Pumping == moment = "pumping"

\* evaluateAlarms: the pump is expected to run in its period and, until the
\* next one, after an emergency.  Without the time everything stays as it was.
EvaluatedAlarms ==
  IF ~synced THEN <<PUMP_EVENT, EMERGENCY_PUMP_EVENT>>
  ELSE <<Pumping \/ EMERGENCY_PUMP_EVENT, EMERGENCY_PUMP_EVENT /\ ~Pumping>>

AlarmNotices(pumpEvent) == IF pumpEvent # PUMP_EVENT THEN 1 ELSE 0

\* doMiscTasks: does this pass, at the moment of a test, start one?  After
\* MAX_DAYS_RUNNING days RESET_EVENT is set for good, and doReset does nothing.
TestDue ==
  /\ synced /\ moment = "test"
  /\ ~(Mega /\ DaysRunning >= MAX_DAYS_RUNNING)
  /\ Older(lastSensorTest, SENSOR_TEST_THRESHOLD) > SENSOR_TEST_THRESHOLD

\* evaluateTankState and doMiscTasks, of a pass in which the sensors read raw.
Evaluate(raw) ==
  LET pumpEvent == EvaluatedAlarms[1]
      emergency == EvaluatedAlarms[2]
      r == IF forcePumpOn THEN [raw EXCEPT !.pump = IF pumpEvent THEN 1 ELSE 0] ELSE raw
      stamps == trackSensorChanges(r)
      c == Changed(stamps)
      error == HighError(c, r)
      adopted == Adopted(c, r)
      tank == [s \in Sensors |-> IF s \in adopted THEN r[s] ELSE tankState[s]]
      overflow == trackOverFlow(tank)
      notices == AlarmNotices(pumpEvent)
                   + (IF adopted # {} THEN 1 ELSE 0) + IF TestDue THEN 1 ELSE 0
  IN  /\ PUMP_EVENT' = pumpEvent
      /\ EMERGENCY_PUMP_EVENT' = (emergency \/ EmergencyRise(c, r))
      /\ lastChange' = stamps
      /\ tankState' = tank
      /\ lastOverflowCondition' = overflow
      /\ IF TestDue
         THEN doSensorTest
         ELSE /\ BlinkSystemLed(error)
              /\ UNCHANGED <<sensorCheck, sensorsInvert, sensorTestTime, normal>>
      /\ updateIndicators(error, overflow)
      /\ dispatchPendingNotification(notices)

\* mutant: with the backup the sensors are trusted again
TrustedInBackup == health = 1 \/ forcePumpOn

Trusted == health = 1

\* A pass of a monitor that trusts its sensors.
ControlPass ==
  /\ inited /\ ~sensorCheck /\ Trusted
  /\ \E r \in Readings : Evaluate(r)
  /\ runningDaysCounter
  /\ lastSensorTest' = Older(lastSensorTest, SENSOR_TEST_THRESHOLD)
  /\ PassTime
  /\ UNCHANGED <<world, inited, initialReadTime, forcePumpOn, health>>

\* A pass after a failed test: only the clock is looked at.
FailedPass ==
  /\ inited /\ ~sensorCheck /\ ~Trusted
  /\ PUMP_EVENT' = EvaluatedAlarms[1] /\ EMERGENCY_PUMP_EVENT' = EvaluatedAlarms[2]
  /\ dispatchPendingNotification(AlarmNotices(EvaluatedAlarms[1]))
  /\ runningDaysCounter
  /\ lastSensorTest' = Older(lastSensorTest, SENSOR_TEST_THRESHOLD)
  /\ LevelsWait
  /\ PassTime
  /\ UNCHANGED <<world, inited, initialReadTime, forcePumpOn, beeper, sys, sensorCheck,
                 sensorsInvert, sensorTestTime, normal, health>>

Pass == \/ InitPass \/ TestNormalPass \/ TestInvertPass \/ TestEndPass
        \/ ControlPass \/ FailedPass

-----------------------------------------------------------------------------
Init ==
  /\ board \in Boards
  /\ moment = "quiet" /\ newDay = FALSE
  /\ synced \in IF Mega THEN {TRUE} ELSE BOOLEAN
  /\ stuck = {}
  /\ inited = FALSE /\ initialReadTime = 0
  /\ daysRunning = 0
  /\ PUMP_EVENT = FALSE /\ EMERGENCY_PUMP_EVENT = FALSE
  /\ forcePumpOn = ~Mega
  /\ tankState = [s \in Sensors |-> 0]
  /\ lastChange = [s \in Sensors |-> Never]
  /\ lastOverflowCondition = Never /\ overFlowAlarmStart = Never
  /\ alarm = 0 /\ beeper = 0 /\ sys = 0
  /\ sensorCheck = FALSE /\ sensorsInvert = FALSE
  /\ sensorTestTime = 0 /\ lastSensorTest = 0
  /\ normal = [s \in Sensors |-> 0]
  /\ health = 1
  /\ queue = 0

Next == \/ Pass \/ PowerCycle \/ ClockMoves \/ TimeArrives
        \/ \E s \in Breakable : SensorBreaks(s)

Spec == Init /\ [][Next]_vars

-----------------------------------------------------------------------------
\* Properties

\* Every variable keeps its type, every age its saturation, and the notice
\* queue its limit.
TypeOK ==
  /\ board \in Boards /\ moment \in DOMAIN After /\ newDay \in BOOLEAN
  /\ synced \in BOOLEAN /\ stuck \subseteq Breakable
  /\ inited \in BOOLEAN /\ initialReadTime \in 0 .. minInitialSensorReadTime + 1
  /\ daysRunning \in 0 .. MAX_DAYS_RUNNING
  /\ PUMP_EVENT \in BOOLEAN /\ EMERGENCY_PUMP_EVENT \in BOOLEAN
  /\ forcePumpOn \in BOOLEAN
  /\ tankState \in [Sensors -> Level]
  /\ lastChange \in [Sensors -> Int]
  /\ \A s \in Sensors : lastChange[s] \in Never .. Threshold(s) + 1
  /\ lastOverflowCondition \in Never .. OVERFLOW_STATE_THRESHOLD + 1
  /\ overFlowAlarmStart \in Never .. OVERFLOW_ALARM_TIME_THRESHOLD + 1
  /\ alarm \in Level /\ beeper \in Level /\ sys \in Level
  /\ sensorCheck \in BOOLEAN /\ sensorsInvert \in BOOLEAN
  /\ sensorTestTime \in 0 .. minSensorTestReadtime + 1
  /\ lastSensorTest \in 0 .. SENSOR_TEST_THRESHOLD + 1
  /\ normal \in [Sensors -> Level] /\ health \in Level
  /\ queue \in 0 .. NOTICE_LIMIT

\* As long as no sensor is broken, the debounced levels are levels a tank can
\* have, although each sensor is debounced, believed and held back by itself.
LevelsNested == stuck = {} => Nested(tankState)

\* The alarm only sounds on a recorded overflow that has lasted long enough, and
\* past its own time only where no pass looks at it: during a sensor test, until
\* the first pass after one, and for good once a test has failed.
AlarmMeansOverflow ==
  alarm = 1 => /\ tankState.pump = 1 /\ tankState.high = 1
               /\ lastOverflowCondition > OVERFLOW_STATE_THRESHOLD
               /\ overFlowAlarmStart # Never
               /\ \/ overFlowAlarmStart < OVERFLOW_ALARM_TIME_THRESHOLD
                  \/ sensorCheck \/ lastSensorTest = 0 \/ health = 0

\* A failed sensor test is final and stays visible and audible until a restart:
\* no later pass trusts the sensors again, tests them or silences the beeper.
FailureIsFinal ==
  [][health = 0 /\ inited' => /\ health' = 0 /\ ~sensorCheck'
                              /\ beeper' = 1 /\ (Mega => sys' = 1)]_vars

\* A test of a level sensor whose reading did not follow its level pin does not
\* pass: the monitor fails or falls back to the pump's alarm times (as the esp32
\* does from the start), whatever water and pump did between the two phases.
StuckSensorIsNoticed ==
  [][(\E s \in stuck : normal[s] = StuckAt) /\ sensorsInvert /\ ~sensorCheck' /\ inited'
        => health' = 0 \/ forcePumpOn']_vars

\* A pass that knows the time leaves the pump expected to run only in its period
\* or in an emergency, and an emergency only with the backup and outside it: the
\* pass that begins a period ends the emergency and cannot find a new one.
PumpExpectedInTime ==
  [][synced /\ ControlPass
        => /\ PUMP_EVENT' => Pumping \/ EMERGENCY_PUMP_EVENT
           /\ EMERGENCY_PUMP_EVENT' => forcePumpOn' /\ ~Pumping]_vars

\* A sensor test runs out: neither the clock nor a sensor that breaks prolongs it,
\* and each pass ends it, turns the level pins round or is a tick nearer to that.
TestRunsOut ==
  [][sensorCheck /\ inited' =>
       \/ ~sensorCheck'
       \/ sensorsInvert' /\ ~sensorsInvert
       \/ /\ sensorsInvert' = sensorsInvert
          /\ sensorTestTime' >= sensorTestTime
          /\ Pass => /\ sensorTestTime' = sensorTestTime + 1
                     /\ sensorTestTime' <= minSensorTestReadtime]_vars

\* The alarm of an overflow runs out: no control pass takes its start anew while
\* the overflow lasts, and one that finds it as old as its time keeps it silent.
AlarmRunsOut ==
  [][ControlPass /\ overFlowAlarmStart # Never =>
       \/ lastOverflowCondition' <= OVERFLOW_STATE_THRESHOLD /\ alarm' = 0
       \/ /\ overFlowAlarmStart' > overFlowAlarmStart
             \/ overFlowAlarmStart' = OVERFLOW_ALARM_TIME_THRESHOLD + 1
          /\ overFlowAlarmStart' >= OVERFLOW_ALARM_TIME_THRESHOLD => alarm' = 0]_vars

\* "Sensor test at 3 pm and 3 am": a control pass at that moment, with no test
\* in the last two minutes, starts one.
DailyTests ==
  [][ControlPass /\ synced /\ moment = "test" /\ lastSensorTest > SENSOR_TEST_THRESHOLD
        => sensorCheck']_vars
=============================================================================
