------------------------- MODULE TankMonitor_proofs -------------------------
(***************************************************************************)
(* Proofs about the tank monitor, for every threshold, both boards, every  *)
(* set of sensors that may break and whatever a broken sensor reads.       *)
(***************************************************************************)
EXTENDS TankMonitor, TLAPS

USE DEF Level, Never

-----------------------------------------------------------------------------
\* Stamps

\* An age stays within its saturation, and a stamp that runs goes on running.
LEMMA OlderType ==
  ASSUME NEW t \in Nat, NEW age \in Never .. t + 1
  PROVE  /\ Older(age, t) \in Never .. t + 1
         /\ age # Never => Older(age, t) \in 0 .. t + 1
BY DEF Older, Min2

\* Time keeps the order of two stamps that are compared with the same threshold.
LEMMA OlderOrder ==
  ASSUME NEW t \in Nat, NEW a \in 0 .. t + 1, NEW b \in 0 .. t + 1, a <= b
  PROVE  Older(a, t) <= Older(b, t)
BY DEF Older, Min2

LEMMA ThresholdType == \A s \in Sensors : Threshold(s) \in Nat
BY TankThresholds DEF Threshold

Stamped == lastChange \in [Sensors -> Int]
           /\ \A s \in Sensors : lastChange[s] \in Never .. Threshold(s) + 1

LEMMA StampsType ==
  ASSUME Stamped, NEW r
  PROVE  /\ trackSensorChanges(r) \in [Sensors -> Int]
         /\ \A s \in Sensors : trackSensorChanges(r)[s] \in Never .. Threshold(s) + 1
<1> DEFINE stamps == trackSensorChanges(r)
<1>1. ASSUME NEW s \in Sensors PROVE stamps[s] \in Never .. Threshold(s) + 1
  <2>1. stamps[s] = IF r[s] = tankState[s] THEN Never
                    ELSE IF lastChange[s] = Never THEN 0
                    ELSE Older(lastChange[s], Threshold(s))
    BY DEF trackSensorChanges
  <2>2. Threshold(s) \in Nat /\ lastChange[s] \in Never .. Threshold(s) + 1
    BY ThresholdType DEF Stamped
  <2>3. Older(lastChange[s], Threshold(s)) \in Never .. Threshold(s) + 1
    BY <2>2, OlderType
  <2> QED BY <2>1, <2>2, <2>3
<1>2. \A s \in Sensors : stamps[s] \in Int
  BY <1>1, ThresholdType
<1>3. stamps = [s \in Sensors |-> stamps[s]]
  BY DEF trackSensorChanges
<1> HIDE DEF stamps
<1>4. stamps \in [Sensors -> Int]
  BY <1>2, <1>3
<1> QED BY <1>1, <1>4 DEF stamps

\* The notices of a pass keep the queue within its limit.
LEMMA QueueType ==
  ASSUME queue \in 0 .. NOTICE_LIMIT, NEW n \in Nat, dispatchPendingNotification(n)
  PROVE  queue' \in 0 .. NOTICE_LIMIT
<1>1. NOTICE_LIMIT \in Nat
  BY TankThresholds
<1>2. PICK rtc \in RTCNotices :
        queue' = Queued(n + rtc)
        \/ queue' = IF Queued(n + rtc) > 0 THEN Queued(n + rtc) - 1 ELSE 0
  BY DEF dispatchPendingNotification
<1>3. rtc \in {0, 1}
  BY <1>2 DEF RTCNotices
<1>4. Queued(n + rtc) \in 0 .. NOTICE_LIMIT
  BY <1>1, <1>3 DEF Queued, Min2
<1> QED BY <1>1, <1>2, <1>4

-----------------------------------------------------------------------------
\* Readings

LEMMA ReadingType ==
  ASSUME NEW r \in Readings
  PROVE  r \in [Sensors -> Level]
<1>1. PICK w \in Tanks : r = Reading(w)
  BY DEF Readings
<1>2. w \in [Sensors -> Level]
  BY DEF Tanks
<1>3. \A s \in Sensors : 1 - w[s] \in Level /\ w[s] \in Level /\ StuckAt \in Level
  BY <1>2, TankThresholds
<1> QED BY <1>1, <1>3 DEF Reading

\* Sound sensors whose level pins are not turned round read the tank.
LEMMA SoundReading ==
  ASSUME NEW r \in Readings, stuck = {}, ~sensorsInvert
  PROVE  Nested(r)
<1>1. PICK w \in Tanks : r = Reading(w)
  BY DEF Readings
<1>2. \A s \in Sensors : r[s] = w[s]
  BY <1>1 DEF Reading
<1>3. r.low = w.low /\ r.mid = w.mid /\ r.high = w.high
  BY <1>2 DEF Sensors
<1> QED BY <1>1, <1>3 DEF Tanks, Nested

\* A broken sensor reads the same whatever its level pin says.
LEMMA StuckReading ==
  ASSUME NEW r \in Readings, NEW s \in Sensors, s \in stuck
  PROVE  r[s] = StuckAt
BY DEF Readings, Reading

\* What evaluateAlarms leaves of the two expectations.
LEMMA AlarmValues ==
  ASSUME TypeOK
  PROVE  /\ EvaluatedAlarms[1] \in BOOLEAN /\ EvaluatedAlarms[2] \in BOOLEAN
         /\ EvaluatedAlarms[2] => EMERGENCY_PUMP_EVENT
         /\ synced => /\ EvaluatedAlarms[1] => Pumping \/ EMERGENCY_PUMP_EVENT
                      /\ Pumping => EvaluatedAlarms[1] /\ ~EvaluatedAlarms[2]
<1>1. CASE synced
  <2>1. EvaluatedAlarms = <<Pumping \/ EMERGENCY_PUMP_EVENT, EMERGENCY_PUMP_EVENT /\ ~Pumping>>
    BY <1>1 DEF EvaluatedAlarms
  <2>2. /\ EvaluatedAlarms[1] = (Pumping \/ EMERGENCY_PUMP_EVENT)
        /\ EvaluatedAlarms[2] = (EMERGENCY_PUMP_EVENT /\ ~Pumping)
    BY <2>1
  <2> QED BY <1>1, <2>2, Zenon
<1>2. CASE ~synced
  <2>1. EvaluatedAlarms = <<PUMP_EVENT, EMERGENCY_PUMP_EVENT>>
    BY <1>2 DEF EvaluatedAlarms
  <2>2. EvaluatedAlarms[1] = PUMP_EVENT /\ EvaluatedAlarms[2] = EMERGENCY_PUMP_EVENT
    BY <2>1
  <2> QED BY <1>2, <2>2, Zenon DEF TypeOK
<1> QED BY <1>1, <1>2

LEMMA AlarmNoticesType ==
  ASSUME NEW p
  PROVE  AlarmNotices(p) \in {0, 1}
BY DEF AlarmNotices

-----------------------------------------------------------------------------
\* A control pass, in parts

\* What a pass makes of the readings: the backup takes the pump's place.
Seen(raw) ==
  IF forcePumpOn THEN [raw EXCEPT !.pump = IF EvaluatedAlarms[1] THEN 1 ELSE 0] ELSE raw

\* The changes it adopts and the debounced levels that result.
Taken(raw) == Adopted(Changed(trackSensorChanges(Seen(raw))), Seen(raw))
NewTank(raw) == [s \in Sensors |-> IF s \in Taken(raw) THEN Seen(raw)[s] ELSE tankState[s]]

\* May a test start?
TestMayStart == doSensorTest \/ UNCHANGED <<sensorCheck, sensorsInvert, sensorTestTime, normal>>

LEMMA SeenType ==
  ASSUME NEW raw \in [Sensors -> Level]
  PROVE  /\ Seen(raw) \in [Sensors -> Level]
         /\ \A s \in Sensors \ {"pump"} : Seen(raw)[s] = raw[s]
BY DEF Seen, Sensors

LEMMA EvaluateParts ==
  ASSUME NEW raw, Evaluate(raw)
  PROVE  /\ PUMP_EVENT' = EvaluatedAlarms[1]
         /\ EMERGENCY_PUMP_EVENT' =
              (EvaluatedAlarms[2]
               \/ EmergencyRise(Changed(trackSensorChanges(Seen(raw))), Seen(raw)))
         /\ lastChange' = trackSensorChanges(Seen(raw))
         /\ tankState' = NewTank(raw)
         /\ lastOverflowCondition' = trackOverFlow(NewTank(raw))
         /\ TestMayStart /\ sys' \in {0, 1}
         /\ \E error : updateIndicators(error, lastOverflowCondition')
         /\ \E a, b : dispatchPendingNotification(
                        AlarmNotices(EvaluatedAlarms[1])
                        + (IF a THEN 1 ELSE 0) + IF b THEN 1 ELSE 0)
<1> DEFINE pumpEvent == EvaluatedAlarms[1]
           r == IF forcePumpOn THEN [raw EXCEPT !.pump = IF pumpEvent THEN 1 ELSE 0] ELSE raw
           stamps == trackSensorChanges(r)
           c == Changed(stamps)
           error == HighError(c, r)
           adopted == Adopted(c, r)
           tank == [s \in Sensors |-> IF s \in adopted THEN r[s] ELSE tankState[s]]
           overflow == trackOverFlow(tank)
           notices == AlarmNotices(pumpEvent)
                        + (IF adopted # {} THEN 1 ELSE 0) + IF TestDue THEN 1 ELSE 0
<1>1. /\ PUMP_EVENT' = pumpEvent
      /\ EMERGENCY_PUMP_EVENT' = (EvaluatedAlarms[2] \/ EmergencyRise(c, r))
      /\ lastChange' = stamps
      /\ tankState' = tank
      /\ lastOverflowCondition' = overflow
      /\ IF TestDue
         THEN doSensorTest
         ELSE /\ BlinkSystemLed(error)
              /\ UNCHANGED <<sensorCheck, sensorsInvert, sensorTestTime, normal>>
      /\ updateIndicators(error, overflow)
      /\ dispatchPendingNotification(notices)
  BY Zenon DEF Evaluate
<1>2. r = Seen(raw)
  BY DEF Seen
<1> HIDE DEF r
<1>3. tank = NewTank(raw)
  BY <1>2 DEF NewTank, Taken
<1>4. TestMayStart /\ sys' \in {0, 1}
  <2> HIDE DEF error
  <2>1. doSensorTest \/ BlinkSystemLed(error)
    BY <1>1, Zenon
  <2>2. sys' \in {0, 1}
    BY <2>1 DEF doSensorTest, BlinkSystemLed
  <2>3. TestMayStart
    BY <1>1, Zenon DEF TestMayStart
  <2> QED BY <2>2, <2>3
<1>5. \E x : updateIndicators(x, lastOverflowCondition')
  <2> HIDE DEF error, overflow
  <2> QED BY <1>1, Zenon
<1>6. \E x, b : dispatchPendingNotification(
                  AlarmNotices(EvaluatedAlarms[1]) + (IF x THEN 1 ELSE 0) + IF b THEN 1 ELSE 0)
  BY <1>1, Zenon
<1> HIDE DEF tank
<1> QED BY <1>1, <1>2, <1>3, <1>4, <1>5, <1>6, Zenon

-----------------------------------------------------------------------------
\* Overflow and indicators

LEMMA OverflowType ==
  ASSUME TypeOK, NEW t
  PROVE  /\ trackOverFlow(t) \in Never .. OVERFLOW_STATE_THRESHOLD + 1
         /\ trackOverFlow(t) # Never => t.pump = 1 /\ t.high = 1
<1>1. /\ OVERFLOW_STATE_THRESHOLD \in Nat
      /\ lastOverflowCondition \in Never .. OVERFLOW_STATE_THRESHOLD + 1
  BY TankThresholds DEF TypeOK
<1>2. Older(lastOverflowCondition, OVERFLOW_STATE_THRESHOLD)
        \in Never .. OVERFLOW_STATE_THRESHOLD + 1
  BY <1>1, OlderType
<1>3. CASE t.pump = 1 /\ t.high = 1
  BY <1>1, <1>2, <1>3 DEF trackOverFlow
<1>4. CASE ~(t.pump = 1 /\ t.high = 1)
  <2>1. trackOverFlow(t) = Never
    BY <1>4, Zenon DEF trackOverFlow
  <2> QED BY <1>1, <2>1
<1> QED BY <1>3, <1>4

LEMMA IndicatorsType ==
  ASSUME TypeOK, NEW error, NEW overflow \in Never .. OVERFLOW_STATE_THRESHOLD + 1,
         updateIndicators(error, overflow)
  PROVE  /\ overFlowAlarmStart' \in Never .. OVERFLOW_ALARM_TIME_THRESHOLD + 1
         /\ alarm' \in {0, 1} /\ beeper' \in {0, 1}
         /\ alarm' = 1 => /\ overflow > OVERFLOW_STATE_THRESHOLD
                          /\ overFlowAlarmStart' \in 0 .. OVERFLOW_ALARM_TIME_THRESHOLD - 1
<1> DEFINE start == OverflowAlarmStart(overflow)
<1>1. /\ OVERFLOW_STATE_THRESHOLD \in Nat /\ OVERFLOW_ALARM_TIME_THRESHOLD \in Nat
      /\ overFlowAlarmStart \in Never .. OVERFLOW_ALARM_TIME_THRESHOLD + 1
      /\ alarm \in {0, 1}
  BY TankThresholds DEF TypeOK
<1>2. /\ start \in Never .. OVERFLOW_ALARM_TIME_THRESHOLD + 1
      /\ overflow > OVERFLOW_STATE_THRESHOLD => start \in 0 .. OVERFLOW_ALARM_TIME_THRESHOLD + 1
  <2>1. /\ Older(overFlowAlarmStart, OVERFLOW_ALARM_TIME_THRESHOLD)
             \in Never .. OVERFLOW_ALARM_TIME_THRESHOLD + 1
        /\ overFlowAlarmStart # Never =>
             Older(overFlowAlarmStart, OVERFLOW_ALARM_TIME_THRESHOLD)
               \in 0 .. OVERFLOW_ALARM_TIME_THRESHOLD + 1
    BY <1>1, OlderType
  <2> QED BY <1>1, <2>1 DEF OverflowAlarmStart
<1>3. overFlowAlarmStart' = start /\ alarm' = Wail(overflow, start)
  BY DEF updateIndicators
<1>4. beeper' \in {0, 1}
  BY DEF updateIndicators
<1> HIDE DEF start
<1>5. /\ Wail(overflow, start) \in {0, 1}
      /\ Wail(overflow, start) = 1 => /\ overflow > OVERFLOW_STATE_THRESHOLD
                                      /\ start < OVERFLOW_ALARM_TIME_THRESHOLD
  BY <1>1 DEF Wail
<1> QED BY <1>1, <1>2, <1>3, <1>4, <1>5

-----------------------------------------------------------------------------
\* Types

\* The parts of TypeOK that no pass changes or that every pass changes alike.
WorldType ==
  /\ board \in Boards /\ moment \in DOMAIN After /\ newDay \in BOOLEAN
  /\ synced \in BOOLEAN /\ stuck \subseteq Breakable
  /\ daysRunning \in 0 .. MAX_DAYS_RUNNING
LevelType ==
  /\ tankState \in [Sensors -> Level] /\ Stamped
  /\ lastOverflowCondition \in Never .. OVERFLOW_STATE_THRESHOLD + 1
IndicatorType ==
  /\ overFlowAlarmStart \in Never .. OVERFLOW_ALARM_TIME_THRESHOLD + 1
  /\ alarm \in Level /\ beeper \in Level /\ sys \in Level
StartType ==
  /\ inited \in BOOLEAN /\ initialReadTime \in 0 .. minInitialSensorReadTime + 1
PumpType ==
  /\ PUMP_EVENT \in BOOLEAN /\ EMERGENCY_PUMP_EVENT \in BOOLEAN
  /\ forcePumpOn \in BOOLEAN
TestType ==
  /\ sensorCheck \in BOOLEAN /\ sensorsInvert \in BOOLEAN
  /\ sensorTestTime \in 0 .. minSensorTestReadtime + 1
  /\ normal \in [Sensors -> Level] /\ health \in Level
AgeType ==
  /\ lastSensorTest \in 0 .. SENSOR_TEST_THRESHOLD + 1
  /\ queue \in 0 .. NOTICE_LIMIT

TypeDefs == WorldType /\ LevelType /\ IndicatorType /\ StartType /\ PumpType
            /\ TestType /\ AgeType

LEMMA TypeParts == TypeOK <=> TypeDefs
BY Zenon DEF TypeOK, TypeDefs, WorldType, LevelType, IndicatorType, StartType, PumpType,
   TestType, AgeType, Stamped

LEMMA TypePartsNext == TypeOK' <=> TypeDefs'
BY Zenon DEF TypeOK, TypeDefs, WorldType, LevelType, IndicatorType, StartType, PumpType,
   TestType, AgeType, Stamped

\* Moments follow one another.
LEMMA PassTimeType == WorldType /\ PassTime => moment' \in DOMAIN After
<1>1. DOMAIN After = {"quiet", "test", "pumping"}
  BY DEF After
<1> QED BY <1>1 DEF WorldType, PassTime

\* What a pass leaves alone, or counts, of the world.
LEMMA WorldKept ==
  ASSUME WorldType, PassTime, UNCHANGED world, newDay' = newDay, daysRunning' = daysRunning
  PROVE  WorldType'
<1>1. board' = board /\ stuck' = stuck /\ synced' = synced
  BY DEF world
<1>2. moment' \in DOMAIN After
  BY PassTimeType
<1> QED BY <1>1, <1>2, Zenon DEF WorldType

LEMMA WorldCounted ==
  ASSUME WorldType, PassTime, UNCHANGED world, runningDaysCounter
  PROVE  WorldType'
<1>1. board' = board /\ stuck' = stuck /\ synced' = synced
  BY DEF world
<1>2. moment' \in DOMAIN After
  BY PassTimeType
<1>3. newDay' = FALSE
  BY DEF runningDaysCounter
<1>4. daysRunning' \in 0 .. MAX_DAYS_RUNNING
  BY TankThresholds DEF WorldType, runningDaysCounter, DaysRunning, Min2
<1> QED BY <1>1, <1>2, <1>3, <1>4, Zenon DEF WorldType

LEMMA TestTimeType ==
  ASSUME TestType
  PROVE  /\ Older(sensorTestTime, minSensorTestReadtime) \in 0 .. minSensorTestReadtime + 1
         /\ 0 \in 0 .. minSensorTestReadtime + 1
<1>1. sensorTestTime \in Never .. minSensorTestReadtime + 1 /\ sensorTestTime # Never
      /\ minSensorTestReadtime \in Nat
  BY TankThresholds DEF TestType
<1> QED BY <1>1, OlderType

\* The stamps of the levels keep their types while no pass looks at the levels.
LEMMA WaitType ==
  ASSUME TypeDefs, LevelsWait, beeper' \in Level, sys' \in Level
  PROVE  LevelType' /\ IndicatorType'
<1>1. /\ lastChange' = [s \in Sensors |-> Older(lastChange[s], Threshold(s))]
      /\ lastOverflowCondition' = Older(lastOverflowCondition, OVERFLOW_STATE_THRESHOLD)
      /\ overFlowAlarmStart' = Older(overFlowAlarmStart, OVERFLOW_ALARM_TIME_THRESHOLD)
      /\ tankState' = tankState /\ alarm' = alarm
  BY DEF LevelsWait
<1>2. /\ lastOverflowCondition' \in Never .. OVERFLOW_STATE_THRESHOLD + 1
      /\ overFlowAlarmStart' \in Never .. OVERFLOW_ALARM_TIME_THRESHOLD + 1
  BY <1>1, OlderType, TankThresholds DEF TypeDefs, LevelType, IndicatorType
<1>3. \A s \in Sensors : /\ lastChange'[s] = Older(lastChange[s], Threshold(s))
                          /\ lastChange'[s] \in Never .. Threshold(s) + 1
  <2> TAKE s \in Sensors
  <2>1. Threshold(s) \in Nat /\ lastChange[s] \in Never .. Threshold(s) + 1
    BY ThresholdType DEF TypeDefs, LevelType, Stamped
  <2>2. Older(lastChange[s], Threshold(s)) \in Never .. Threshold(s) + 1
    BY <2>1, OlderType
  <2> QED BY <1>1, <2>2
<1>4. Stamped'
  <2>1. \A s \in Sensors : Older(lastChange[s], Threshold(s)) \in Int
    BY <1>3, ThresholdType
  <2>2. lastChange' \in [Sensors -> Int]
    BY <1>1, <2>1
  <2> QED BY <1>3, <2>2, Zenon DEF Stamped, Threshold
<1>5. LevelType'
  BY <1>1, <1>2, <1>4, Zenon DEF TypeDefs, LevelType
<1>6. IndicatorType'
  BY <1>1, <1>2, Zenon DEF TypeDefs, IndicatorType
<1> QED BY <1>5, <1>6

LEMMA AgeStep ==
  ASSUME AgeType, lastSensorTest' = Older(lastSensorTest, SENSOR_TEST_THRESHOLD)
                  \/ lastSensorTest' = lastSensorTest \/ lastSensorTest' = 0,
         NEW n \in Nat, dispatchPendingNotification(n)
  PROVE  AgeType'
<1>1. /\ lastSensorTest \in Never .. SENSOR_TEST_THRESHOLD + 1 /\ lastSensorTest # Never
      /\ SENSOR_TEST_THRESHOLD \in Nat /\ lastSensorTest \in 0 .. SENSOR_TEST_THRESHOLD + 1
  BY TankThresholds DEF AgeType
<1>2. lastSensorTest' \in 0 .. SENSOR_TEST_THRESHOLD + 1
  <2>1. Older(lastSensorTest, SENSOR_TEST_THRESHOLD) \in 0 .. SENSOR_TEST_THRESHOLD + 1
    BY <1>1, OlderType
  <2> QED BY <1>1, <2>1
<1>3. queue' \in 0 .. NOTICE_LIMIT
  BY QueueType DEF AgeType
<1> QED BY <1>2, <1>3 DEF AgeType

\* Starting a test, or not, keeps the types of the test.
LEMMA TestStartType ==
  ASSUME TestType, TestMayStart, health' = health
  PROVE  TestType'
<1>1. CASE doSensorTest
  <2>1. sensorCheck' = TRUE /\ sensorsInvert' = FALSE /\ sensorTestTime' = 0
        /\ normal' = normal
    BY <1>1 DEF doSensorTest
  <2> QED BY <2>1, TestTimeType DEF TestType
<1>2. CASE UNCHANGED <<sensorCheck, sensorsInvert, sensorTestTime, normal>>
  BY <1>2, Zenon DEF TestType
<1> QED BY <1>1, <1>2 DEF TestMayStart

LEMMA BootTyped ==
  ASSUME Boot
  PROVE  /\ LevelType' /\ IndicatorType' /\ StartType' /\ PumpType' /\ TestType' /\ AgeType'
         /\ newDay' = FALSE /\ daysRunning' = 0
<1>1. LevelType'
  <2>1. \A s \in Sensors : Never \in Never .. Threshold(s) + 1
    BY ThresholdType
  <2>2. Stamped'
    BY <2>1 DEF Boot, Stamped
  <2>3. tankState' \in [Sensors -> Level]
    BY DEF Boot
  <2>4. lastOverflowCondition' \in Never .. OVERFLOW_STATE_THRESHOLD + 1
    BY TankThresholds DEF Boot
  <2> QED BY <2>2, <2>3, <2>4 DEF LevelType
<1>2. IndicatorType' /\ StartType'
  <2>1. IndicatorType'
    BY TankThresholds DEF Boot, IndicatorType
  <2>2. inited' \in BOOLEAN
    BY Zenon DEF Boot
  <2>3. initialReadTime' \in 0 .. minInitialSensorReadTime + 1
    BY TankThresholds DEF Boot
  <2> QED BY <2>1, <2>2, <2>3 DEF StartType
<1>3. PumpType'
  BY Zenon DEF Boot, PumpType
<1>4. TestType'
  <2>1. sensorCheck' \in BOOLEAN /\ sensorsInvert' \in BOOLEAN
    BY Zenon DEF Boot
  <2>2. sensorTestTime' \in 0 .. minSensorTestReadtime + 1
    BY TankThresholds DEF Boot
  <2>3. normal' \in [Sensors -> Level] /\ health' \in Level
    BY DEF Boot
  <2> QED BY <2>1, <2>2, <2>3 DEF TestType
<1>5. AgeType'
  BY TankThresholds DEF Boot, AgeType
<1> QED BY <1>1, <1>2, <1>3, <1>4, <1>5 DEF Boot

LEMMA InitPassTyped ==
  ASSUME TypeDefs, InitPass
  PROVE  TypeDefs'
<1>1. PICK r \in Readings :
        LET age == Older(initialReadTime, minInitialSensorReadTime)
            over == age > minInitialSensorReadTime
        IN  /\ ~inited
            /\ tankState' = r
            /\ initialReadTime' = age
            /\ inited' = over
            /\ IF over THEN doSensorTest
               ELSE /\ sys' = IF Mega THEN 1 ELSE 0
                    /\ UNCHANGED <<sensorCheck, sensorsInvert, sensorTestTime, normal>>
            /\ dispatchPendingNotification(IF over THEN 1 ELSE 0)
            /\ PassTime
            /\ UNCHANGED <<world, newDay, daysRunning, alarmVars, forcePumpOn, lastChange,
                           lastOverflowCondition, overFlowAlarmStart, alarm, beeper,
                           lastSensorTest, health>>
  BY Zenon DEF InitPass
<1> DEFINE age == Older(initialReadTime, minInitialSensorReadTime)
           over == age > minInitialSensorReadTime
           n == IF over THEN 1 ELSE 0
<1>2. age \in 0 .. minInitialSensorReadTime + 1
  <2>1. minInitialSensorReadTime \in Nat /\ initialReadTime # Never
        /\ initialReadTime \in Never .. minInitialSensorReadTime + 1
    BY TankThresholds DEF TypeDefs, StartType
  <2> QED BY <2>1, OlderType
<1>3. StartType'
  <2>1. over \in BOOLEAN
    OBVIOUS
  <2>2. inited' = over
    BY <1>1, Zenon
  <2>3. initialReadTime' \in 0 .. minInitialSensorReadTime + 1
    BY <1>1, <1>2
  <2> HIDE DEF over
  <2> QED BY <2>1, <2>2, <2>3, Zenon DEF StartType
<1>4. WorldType'
  BY <1>1, WorldKept, Zenon DEF TypeDefs
<1>5. LevelType'
  <2>1. tankState' \in [Sensors -> Level]
    BY <1>1, ReadingType
  <2>2. lastChange' = lastChange /\ lastOverflowCondition' = lastOverflowCondition
    BY <1>1
  <2> QED BY <2>1, <2>2 DEF TypeDefs, LevelType, Stamped
<1>6. IndicatorType'
  <2>1. overFlowAlarmStart' = overFlowAlarmStart /\ alarm' = alarm /\ beeper' = beeper
    BY <1>1
  <2>2. sys' = IF Mega THEN 1 ELSE 0
    BY <1>1, Zenon DEF doSensorTest
  <2> QED BY <2>1, <2>2 DEF TypeDefs, IndicatorType
<1>7. PumpType'
  <2>1. UNCHANGED alarmVars /\ forcePumpOn' = forcePumpOn
    BY <1>1
  <2> QED BY <2>1, Zenon DEF TypeDefs, PumpType, alarmVars
<1>8. TestType'
  <2>1. TestMayStart /\ health' = health
    BY <1>1, Zenon DEF TestMayStart
  <2> QED BY <2>1, TestStartType DEF TypeDefs
<1>9. AgeType'
  <2>1. dispatchPendingNotification(n) /\ lastSensorTest' = lastSensorTest
    BY <1>1
  <2>2. n \in Nat
    OBVIOUS
  <2> HIDE DEF n
  <2> QED BY <2>1, <2>2, AgeStep DEF TypeDefs
<1> QED BY <1>3, <1>4, <1>5, <1>6, <1>7, <1>8, <1>9 DEF TypeDefs

LEMMA TestNormalTyped ==
  ASSUME TypeDefs, TestNormalPass
  PROVE  TypeDefs'
<1> DEFINE age == Older(sensorTestTime, minSensorTestReadtime)
           over == age > minSensorTestReadtime
<1>1. PICK r \in Readings :
            /\ normal' = r
            /\ sensorsInvert' = over
            /\ sensorTestTime' = IF over THEN 0 ELSE age
            /\ lastSensorTest' = Older(lastSensorTest, SENSOR_TEST_THRESHOLD)
            /\ LevelsWait
            /\ dispatchPendingNotification(0)
            /\ PassTime
            /\ UNCHANGED <<world, newDay, inited, initialReadTime, daysRunning, alarmVars,
                           forcePumpOn, beeper, sys, sensorCheck, health>>
  BY Zenon DEF TestNormalPass
<1>2. TestType'
  <2>1. normal' \in [Sensors -> Level]
    BY <1>1, ReadingType
  <2>2. sensorTestTime' \in 0 .. minSensorTestReadtime + 1
    BY <1>1, TestTimeType DEF TypeDefs
  <2>3. over \in BOOLEAN
    OBVIOUS
  <2>4. sensorCheck' \in BOOLEAN /\ health' \in Level
    BY <1>1, Zenon DEF TypeDefs, TestType
  <2> HIDE DEF over, age
  <2> QED BY <1>1, <2>1, <2>2, <2>3, <2>4, Zenon DEF TestType
<1> HIDE DEF over, age
<1>3. WorldType'
  BY <1>1, WorldKept, Zenon DEF TypeDefs
<1>4. LevelType' /\ IndicatorType' /\ StartType' /\ PumpType'
  <2>1. beeper' \in Level /\ sys' \in Level
    BY <1>1, Zenon DEF TypeDefs, IndicatorType
  <2>2. StartType' /\ PumpType'
    BY <1>1, Zenon DEF TypeDefs, StartType, PumpType, alarmVars
  <2> QED BY <1>1, <2>1, <2>2, WaitType
<1>5. AgeType'
  BY <1>1, AgeStep DEF TypeDefs
<1> QED BY <1>2, <1>3, <1>4, <1>5, Zenon DEF TypeDefs

LEMMA TestInvertTyped ==
  ASSUME TypeDefs, TestInvertPass
  PROVE  TypeDefs'
<1>1. /\ sensorTestTime' = Older(sensorTestTime, minSensorTestReadtime)
      /\ lastSensorTest' = Older(lastSensorTest, SENSOR_TEST_THRESHOLD)
      /\ LevelsWait
      /\ dispatchPendingNotification(0)
      /\ PassTime
      /\ UNCHANGED <<world, newDay, inited, initialReadTime, daysRunning, alarmVars,
                     forcePumpOn, beeper, sys, sensorCheck, sensorsInvert, normal,
                     health>>
  BY Zenon DEF TestInvertPass
<1>2. TestType'
  <2>1. sensorTestTime' \in 0 .. minSensorTestReadtime + 1
    BY <1>1, TestTimeType DEF TypeDefs
  <2> QED BY <1>1, <2>1, Zenon DEF TypeDefs, TestType
<1>3. WorldType'
  BY <1>1, WorldKept, Zenon DEF TypeDefs
<1>4. LevelType' /\ IndicatorType' /\ StartType' /\ PumpType'
  <2>1. beeper' \in Level /\ sys' \in Level
    BY <1>1, Zenon DEF TypeDefs, IndicatorType
  <2>2. StartType' /\ PumpType'
    BY <1>1, Zenon DEF TypeDefs, StartType, PumpType, alarmVars
  <2> QED BY <1>1, <2>1, <2>2, WaitType
<1>5. AgeType'
  BY <1>1, AgeStep DEF TypeDefs
<1> QED BY <1>2, <1>3, <1>4, <1>5, Zenon DEF TypeDefs

\* The end of a test, for the types and for what it means.
LEMMA TestEndResult ==
  ASSUME TypeDefs, TestEndPass
  PROVE  /\ TypeDefs'
         /\ ~sensorCheck' /\ ~sensorsInvert' /\ LevelsWait /\ lastSensorTest' = 0
         /\ UNCHANGED <<world, alarmVars, inited>> /\ inited
         /\ forcePumpOn => forcePumpOn'
         /\ \/ health' = 0 /\ beeper' = 1 /\ (Mega => sys' = 1)
            \/ health' = health /\ forcePumpOn'
            \/ health' = 1
         /\ \/ health' = 0 \/ forcePumpOn'
            \/ \E invert \in Readings : Passed(normal, invert)
<1>1. PICK invert \in Readings :
    LET passed == Passed(normal, invert)
        backup == ~passed /\ PumpSensorFailed(normal, invert)
        failed == ~passed /\ ~backup
        notices == IF failed \/ (backup /\ (Mega \/ ~forcePumpOn)) THEN 1 ELSE 0
    IN  /\ inited /\ sensorCheck /\ sensorsInvert
        /\ Older(sensorTestTime, minSensorTestReadtime) > minSensorTestReadtime
        /\ sensorCheck' = FALSE /\ sensorsInvert' = FALSE
        /\ sensorTestTime' = 0 /\ lastSensorTest' = 0
        /\ normal' = [s \in Sensors |-> 0]
        /\ health' = IF passed THEN 1 ELSE IF failed THEN 0 ELSE health
        /\ forcePumpOn' = (forcePumpOn \/ backup)
        /\ beeper' = IF failed THEN 1 ELSE beeper
        /\ sys' = IF Mega /\ failed THEN 1 ELSE 0
        /\ LevelsWait
        /\ dispatchPendingNotification(notices)
        /\ PassTime
        /\ UNCHANGED <<world, newDay, inited, initialReadTime, daysRunning, alarmVars>>
  BY Zenon DEF TestEndPass
<1> DEFINE passed == Passed(normal, invert)
           backup == ~passed /\ PumpSensorFailed(normal, invert)
           failed == ~passed /\ ~backup
           notices == IF failed \/ (backup /\ (Mega \/ ~forcePumpOn)) THEN 1 ELSE 0
<1>2. /\ inited /\ sensorCheck' = FALSE /\ sensorsInvert' = FALSE
      /\ sensorTestTime' = 0 /\ lastSensorTest' = 0
      /\ normal' = [s \in Sensors |-> 0]
      /\ health' = IF passed THEN 1 ELSE IF failed THEN 0 ELSE health
      /\ forcePumpOn' = (forcePumpOn \/ backup)
      /\ beeper' = IF failed THEN 1 ELSE beeper
      /\ sys' = IF Mega /\ failed THEN 1 ELSE 0
      /\ LevelsWait
      /\ dispatchPendingNotification(notices)
      /\ PassTime
      /\ UNCHANGED <<world, newDay, inited, initialReadTime, daysRunning, alarmVars>>
  BY <1>1, Zenon
<1>3. notices \in Nat
  OBVIOUS
<1>4. passed \/ backup \/ failed
  OBVIOUS
<1>5. passed => \E i \in Readings : Passed(normal, i)
  BY Zenon
<1>6. failed => ~passed /\ ~backup
  OBVIOUS
<1> HIDE DEF passed, backup, failed, notices
<1>7. TestType'
  <2>1. sensorTestTime' \in 0 .. minSensorTestReadtime + 1
    BY <1>2, TestTimeType DEF TypeDefs
  <2>2. normal' \in [Sensors -> Level]
    BY <1>2
  <2>3. health' \in {0, 1}
    BY <1>2 DEF TypeDefs, TestType
  <2>4. sensorCheck' \in BOOLEAN /\ sensorsInvert' \in BOOLEAN
    BY <1>2, Zenon
  <2> QED BY <2>1, <2>2, <2>3, <2>4, Zenon DEF TestType
<1>8. WorldType'
  BY <1>2, WorldKept, Zenon DEF TypeDefs
<1>9. beeper' \in {0, 1} /\ sys' \in {0, 1}
  BY <1>2 DEF TypeDefs, IndicatorType
<1>10. LevelType' /\ IndicatorType'
  BY <1>2, <1>9, WaitType
<1>11. StartType'
  BY <1>2, Zenon DEF TypeDefs, StartType
<1>12. PumpType'
  <2>1. forcePumpOn' \in BOOLEAN
    BY <1>2, Zenon
  <2> QED BY <1>2, <2>1, Zenon DEF TypeDefs, PumpType, alarmVars
<1>13. AgeType'
  BY <1>2, <1>3, AgeStep DEF TypeDefs
<1>14. TypeDefs'
  BY <1>7, <1>8, <1>10, <1>11, <1>12, <1>13, Zenon DEF TypeDefs
<1>15. CASE passed
  <2>1. health' = 1
    BY <1>2, <1>15
  <2> QED BY <1>2, <1>5, <1>14, <1>15, <2>1, Zenon
<1>16. CASE failed
  <2>1. health' = 0 /\ beeper' = 1 /\ (Mega => sys' = 1)
    BY <1>2, <1>6, <1>16
  <2> QED BY <1>2, <1>14, <2>1, Zenon
<1>17. CASE backup /\ ~passed
  <2>1. ~failed
    BY <1>6, <1>17, Zenon
  <2>2. health' = health
    BY <1>2, <1>17, <2>1
  <2> QED BY <1>2, <1>14, <1>17, <2>2, Zenon
<1> QED BY <1>4, <1>15, <1>16, <1>17, Zenon

\* A pass that looks at the levels: types, alarm and expectation of the pump.
LEMMA EvaluateResult ==
  ASSUME TypeDefs, NEW raw \in [Sensors -> Level], Evaluate(raw),
         lastSensorTest' = Older(lastSensorTest, SENSOR_TEST_THRESHOLD)
  PROVE  /\ LevelType' /\ IndicatorType' /\ AgeType'
         /\ PUMP_EVENT' \in BOOLEAN /\ EMERGENCY_PUMP_EVENT' \in BOOLEAN
         /\ TestMayStart
         /\ alarm' = 1 => /\ tankState'.pump = 1 /\ tankState'.high = 1
                          /\ lastOverflowCondition' > OVERFLOW_STATE_THRESHOLD
                          /\ overFlowAlarmStart' \in 0 .. OVERFLOW_ALARM_TIME_THRESHOLD - 1
         /\ EMERGENCY_PUMP_EVENT' => forcePumpOn \/ EMERGENCY_PUMP_EVENT
         /\ synced => /\ PUMP_EVENT' => Pumping \/ EMERGENCY_PUMP_EVENT
                      /\ EMERGENCY_PUMP_EVENT' => ~Pumping
<1>0. TypeOK
  BY TypeParts
<1>1. /\ PUMP_EVENT' = EvaluatedAlarms[1]
      /\ EMERGENCY_PUMP_EVENT' =
           (EvaluatedAlarms[2]
            \/ EmergencyRise(Changed(trackSensorChanges(Seen(raw))), Seen(raw)))
      /\ lastChange' = trackSensorChanges(Seen(raw))
      /\ tankState' = NewTank(raw)
      /\ lastOverflowCondition' = trackOverFlow(NewTank(raw))
      /\ TestMayStart /\ sys' \in {0, 1}
      /\ \E error : updateIndicators(error, lastOverflowCondition')
      /\ \E a, b : dispatchPendingNotification(
                     AlarmNotices(EvaluatedAlarms[1])
                     + (IF a THEN 1 ELSE 0) + IF b THEN 1 ELSE 0)
  BY EvaluateParts
<1>2. Seen(raw) \in [Sensors -> Level]
  BY SeenType
<1>3. /\ lastOverflowCondition' \in Never .. OVERFLOW_STATE_THRESHOLD + 1
      /\ lastOverflowCondition' # Never => tankState'.pump = 1 /\ tankState'.high = 1
  BY <1>0, <1>1, OverflowType
<1>4. LevelType'
  <2>1. tankState' \in [Sensors -> Level]
    BY <1>1, <1>2 DEF NewTank, TypeDefs, LevelType
  <2>2. Stamped'
    <3>1. Stamped
      BY DEF TypeDefs, LevelType
    <3> QED BY <1>1, <3>1, StampsType DEF Stamped
  <2> QED BY <1>3, <2>1, <2>2 DEF LevelType
<1>5. PICK error : updateIndicators(error, lastOverflowCondition')
  BY <1>1
<1>6. /\ overFlowAlarmStart' \in Never .. OVERFLOW_ALARM_TIME_THRESHOLD + 1
      /\ alarm' \in {0, 1} /\ beeper' \in {0, 1}
      /\ alarm' = 1 => /\ lastOverflowCondition' > OVERFLOW_STATE_THRESHOLD
                       /\ overFlowAlarmStart' \in 0 .. OVERFLOW_ALARM_TIME_THRESHOLD - 1
  BY <1>0, <1>3, <1>5, IndicatorsType
<1>7. IndicatorType'
  BY <1>1, <1>6 DEF IndicatorType
<1>8. AgeType'
  <2>1. PICK a, b : dispatchPendingNotification(
                      AlarmNotices(EvaluatedAlarms[1])
                      + (IF a THEN 1 ELSE 0) + IF b THEN 1 ELSE 0)
    BY <1>1
  <2> DEFINE n == AlarmNotices(EvaluatedAlarms[1])
                    + (IF a THEN 1 ELSE 0) + IF b THEN 1 ELSE 0
  <2>2. n \in Nat
    <3>1. AlarmNotices(EvaluatedAlarms[1]) \in {0, 1}
      BY AlarmNoticesType
    <3> QED BY <3>1
  <2>3. dispatchPendingNotification(n)
    BY <2>1
  <2> HIDE DEF n
  <2> QED BY <2>2, <2>3, AgeStep DEF TypeDefs
<1>9. alarm' = 1 => tankState'.pump = 1 /\ tankState'.high = 1
  BY <1>3, <1>6, TankThresholds
<1>10. /\ EvaluatedAlarms[1] \in BOOLEAN /\ EvaluatedAlarms[2] \in BOOLEAN
       /\ EvaluatedAlarms[2] => EMERGENCY_PUMP_EVENT
       /\ synced => /\ EvaluatedAlarms[1] => Pumping \/ EMERGENCY_PUMP_EVENT
                    /\ Pumping => EvaluatedAlarms[1] /\ ~EvaluatedAlarms[2]
  BY <1>0, AlarmValues
<1> DEFINE rise == EmergencyRise(Changed(trackSensorChanges(Seen(raw))), Seen(raw))
<1>11. rise => forcePumpOn /\ Seen(raw).pump = 0
  BY Zenon DEF EmergencyRise
<1>12. forcePumpOn /\ EvaluatedAlarms[1] => Seen(raw).pump # 0
  BY DEF Seen, Sensors
<1> HIDE DEF rise
<1>13. PUMP_EVENT' \in BOOLEAN /\ EMERGENCY_PUMP_EVENT' \in BOOLEAN
  <2>1. (EvaluatedAlarms[2] \/ rise) \in BOOLEAN
    BY Zenon
  <2> QED BY <1>1, <1>10, <2>1, Zenon DEF rise
<1>14. EMERGENCY_PUMP_EVENT' => EvaluatedAlarms[2] \/ rise
  BY <1>1, Zenon DEF rise
<1>15. EMERGENCY_PUMP_EVENT' => forcePumpOn \/ EMERGENCY_PUMP_EVENT
  BY <1>10, <1>11, <1>14, Zenon
<1>16. synced => /\ PUMP_EVENT' => Pumping \/ EMERGENCY_PUMP_EVENT
                 /\ EMERGENCY_PUMP_EVENT' => ~Pumping
  BY <1>1, <1>10, <1>11, <1>12, <1>14, Zenon
<1> QED BY <1>1, <1>4, <1>6, <1>7, <1>8, <1>9, <1>13, <1>15, <1>16, Zenon

LEMMA ControlTyped ==
  ASSUME TypeDefs, ControlPass
  PROVE  TypeDefs'
<1>1. PICK r \in Readings : Evaluate(r)
  BY DEF ControlPass
<1>2. /\ runningDaysCounter /\ PassTime
      /\ lastSensorTest' = Older(lastSensorTest, SENSOR_TEST_THRESHOLD)
      /\ UNCHANGED <<world, inited, initialReadTime, forcePumpOn, health>>
  BY DEF ControlPass
<1>3. r \in [Sensors -> Level]
  BY ReadingType
<1>4. /\ LevelType' /\ IndicatorType' /\ AgeType'
      /\ PUMP_EVENT' \in BOOLEAN /\ EMERGENCY_PUMP_EVENT' \in BOOLEAN
      /\ TestMayStart
  BY <1>1, <1>2, <1>3, EvaluateResult
<1>5. WorldType'
  BY <1>2, WorldCounted DEF TypeDefs
<1>6. StartType' /\ PumpType'
  BY <1>2, <1>4, Zenon DEF TypeDefs, StartType, PumpType
<1>7. TestType'
  <2>1. health' = health
    BY <1>2
  <2> QED BY <1>4, <2>1, TestStartType DEF TypeDefs
<1> QED BY <1>4, <1>5, <1>6, <1>7, Zenon DEF TypeDefs

LEMMA FailedTyped ==
  ASSUME TypeDefs, FailedPass
  PROVE  TypeDefs'
<1>1. /\ PUMP_EVENT' = EvaluatedAlarms[1] /\ EMERGENCY_PUMP_EVENT' = EvaluatedAlarms[2]
      /\ dispatchPendingNotification(AlarmNotices(EvaluatedAlarms[1]))
      /\ runningDaysCounter
      /\ lastSensorTest' = Older(lastSensorTest, SENSOR_TEST_THRESHOLD)
      /\ LevelsWait
      /\ PassTime
      /\ UNCHANGED <<world, inited, initialReadTime, forcePumpOn, beeper, sys, sensorCheck,
                     sensorsInvert, sensorTestTime, normal, health>>
  BY Zenon DEF FailedPass
<1>2. PumpType'
  BY <1>1, AlarmValues, TypeParts, Zenon DEF TypeDefs, PumpType
<1>3. WorldType'
  BY <1>1, WorldCounted DEF TypeDefs
<1>4. LevelType' /\ IndicatorType' /\ StartType' /\ TestType'
  <2>1. beeper' \in Level /\ sys' \in Level
    BY <1>1, Zenon DEF TypeDefs, IndicatorType
  <2>2. StartType' /\ TestType'
    BY <1>1, Zenon DEF TypeDefs, StartType, TestType
  <2> QED BY <1>1, <2>1, <2>2, WaitType
<1>5. AgeType'
  <2>1. AlarmNotices(EvaluatedAlarms[1]) \in Nat
    <3>1. AlarmNotices(EvaluatedAlarms[1]) \in {0, 1}
      BY AlarmNoticesType
    <3> QED BY <3>1
  <2> QED BY <1>1, <2>1, AgeStep DEF TypeDefs
<1> QED BY <1>2, <1>3, <1>4, <1>5, Zenon DEF TypeDefs

\* Steps that are no passes leave the program's own variables alone.
LEMMA ProgramKept ==
  ASSUME TypeDefs,
         UNCHANGED <<inited, initialReadTime, alarmVars, forcePumpOn, levelVars, alarm,
                     beeper, sys, testVars, health, queue>>
  PROVE  LevelType' /\ IndicatorType' /\ StartType' /\ PumpType' /\ TestType' /\ AgeType'
<1>1. LevelType' /\ IndicatorType'
  BY Zenon DEF levelVars, TypeDefs, LevelType, Stamped, IndicatorType
<1>2. StartType' /\ PumpType'
  BY Zenon DEF alarmVars, TypeDefs, StartType, PumpType
<1>3. TestType' /\ AgeType'
  BY Zenon DEF testVars, TypeDefs, TestType, AgeType
<1> QED BY <1>1, <1>2, <1>3

\* Moves of the clock, of the network and of the sensors.
LEMMA OthersTyped ==
  ASSUME TypeDefs,
         \/ ClockMoves \/ TimeArrives \/ PowerCycle \/ UNCHANGED vars
         \/ \E s \in Breakable : SensorBreaks(s)
  PROVE  TypeDefs'
<1>1. CASE ClockMoves
  <2>1. moment' \in DOMAIN After
    <3>1. DOMAIN After = {"quiet", "test", "pumping"}
      BY DEF After
    <3>2. moment' \in After[moment] /\ moment \in {"quiet", "test", "pumping"}
      BY <1>1, <3>1 DEF ClockMoves, TypeDefs, WorldType
    <3> QED BY <3>1, <3>2 DEF After
  <2>2. newDay' \in BOOLEAN
    <3>1. newDay' = newDay \/ newDay' = TRUE
      BY <1>1 DEF ClockMoves
    <3> QED BY <3>1, Zenon DEF TypeDefs, WorldType
  <2>3. WorldType'
    BY <1>1, <2>1, <2>2, Zenon DEF ClockMoves, world, TypeDefs, WorldType
  <2>4. UNCHANGED <<inited, initialReadTime, alarmVars, forcePumpOn, levelVars, alarm,
                    beeper, sys, testVars, health, queue>>
    BY <1>1 DEF ClockMoves
  <2> QED BY <2>3, <2>4, ProgramKept, Zenon DEF TypeDefs
<1>2. CASE TimeArrives
  <2>1. WorldType'
    BY <1>2, Zenon DEF TimeArrives, wallClock, TypeDefs, WorldType
  <2>2. UNCHANGED <<inited, initialReadTime, alarmVars, forcePumpOn, levelVars, alarm,
                    beeper, sys, testVars, health, queue>>
    BY <1>2 DEF TimeArrives
  <2> QED BY <2>1, <2>2, ProgramKept, Zenon DEF TypeDefs
<1>3. CASE PowerCycle
  <2>1. /\ LevelType' /\ IndicatorType' /\ StartType' /\ PumpType' /\ TestType' /\ AgeType'
        /\ newDay' = FALSE /\ daysRunning' = 0
    BY <1>3, BootTyped DEF PowerCycle
  <2>2. daysRunning' \in 0 .. MAX_DAYS_RUNNING
    BY <2>1, TankThresholds
  <2>3. moment' \in DOMAIN After
    BY <1>3, PassTimeType DEF PowerCycle, TypeDefs
  <2>4. synced' \in BOOLEAN
    BY <1>3 DEF PowerCycle
  <2>5. board' = board /\ stuck' = stuck
    BY <1>3 DEF PowerCycle
  <2>6. WorldType'
    BY <2>1, <2>2, <2>3, <2>4, <2>5, Zenon DEF TypeDefs, WorldType
  <2> QED BY <2>1, <2>6 DEF TypeDefs
<1>4. CASE UNCHANGED vars
  <2>1. /\ UNCHANGED world /\ UNCHANGED wallClock /\ daysRunning' = daysRunning
        /\ UNCHANGED <<inited, initialReadTime, alarmVars, forcePumpOn, levelVars, alarm,
                       beeper, sys, testVars, health, queue>>
    BY <1>4 DEF vars
  <2>2. WorldType'
    BY <2>1, Zenon DEF world, wallClock, TypeDefs, WorldType
  <2> QED BY <2>1, <2>2, ProgramKept, Zenon DEF TypeDefs
<1>5. CASE \E s \in Breakable : SensorBreaks(s)
  <2>1. PICK s \in Breakable : SensorBreaks(s)
    BY <1>5
  <2>2. stuck' \subseteq Breakable
    BY <2>1 DEF SensorBreaks, TypeDefs, WorldType
  <2>3. WorldType'
    BY <2>1, <2>2, Zenon DEF SensorBreaks, wallClock, TypeDefs, WorldType
  <2>4. UNCHANGED <<inited, initialReadTime, alarmVars, forcePumpOn, levelVars, alarm,
                    beeper, sys, testVars, health, queue>>
    BY <2>1 DEF SensorBreaks
  <2> QED BY <2>3, <2>4, ProgramKept, Zenon DEF TypeDefs
<1> QED BY <1>1, <1>2, <1>3, <1>4, <1>5

LEMMA TypeStep == TypeDefs /\ [Next]_vars => TypeDefs'
<1> SUFFICES ASSUME TypeDefs, [Next]_vars PROVE TypeDefs'
  OBVIOUS
<1>1. CASE Pass
  BY <1>1, InitPassTyped, TestNormalTyped, TestInvertTyped, TestEndResult, ControlTyped,
     FailedTyped, Zenon DEF Pass
<1> QED BY <1>1, OthersTyped, Zenon DEF Next

LEMMA TypeInit == Init => TypeDefs
<1> SUFFICES ASSUME Init PROVE TypeDefs
  OBVIOUS
<1>1. WorldType
  <2>1. board \in Boards /\ newDay \in BOOLEAN /\ synced \in BOOLEAN /\ stuck \subseteq Breakable
    BY DEF Init
  <2>2. moment \in DOMAIN After
    BY DEF Init, After
  <2>3. daysRunning \in 0 .. MAX_DAYS_RUNNING
    BY TankThresholds DEF Init
  <2> QED BY <2>1, <2>2, <2>3, Zenon DEF WorldType
<1>2. LevelType
  <2>1. \A s \in Sensors : Never \in Never .. Threshold(s) + 1
    BY ThresholdType
  <2>2. Stamped
    BY <2>1 DEF Init, Stamped
  <2>3. lastOverflowCondition \in Never .. OVERFLOW_STATE_THRESHOLD + 1
    BY TankThresholds DEF Init
  <2> QED BY <2>2, <2>3 DEF Init, LevelType
<1>3. IndicatorType
  BY TankThresholds DEF Init, IndicatorType
<1>4. inited \in BOOLEAN /\ sensorCheck \in BOOLEAN /\ sensorsInvert \in BOOLEAN /\ PumpType
  BY Zenon DEF Init, PumpType
<1>5. /\ initialReadTime \in 0 .. minInitialSensorReadTime + 1
      /\ sensorTestTime \in 0 .. minSensorTestReadtime + 1
      /\ normal \in [Sensors -> Level] /\ health \in Level
  BY TankThresholds DEF Init
<1>6. AgeType
  BY TankThresholds DEF Init, AgeType
<1> QED BY <1>1, <1>2, <1>3, <1>4, <1>5, <1>6, Zenon DEF TypeDefs, StartType, TestType

-----------------------------------------------------------------------------
\* Levels

\* The order that keeps the levels nested: of two neighbours in the same state,
\* the one that has to change first is pending at least as long.
Ordered(a, b, tank, stamps) ==
  /\ tank[b] <= tank[a]
  /\ tank[a] = 1 /\ tank[b] = 1 => stamps[a] <= stamps[b]
  /\ tank[a] = 0 /\ tank[b] = 0 => stamps[b] <= stamps[a]

\* A pass keeps the order of the stamps of two neighbours, a below b.
LEMMA StampOrder ==
  ASSUME TypeDefs, NEW a \in Sensors, NEW b \in Sensors, Threshold(a) = Threshold(b),
         NEW r \in [Sensors -> Level], r[b] <= r[a],
         Ordered(a, b, tankState, lastChange)
  PROVE  LET stamps == trackSensorChanges(r)
         IN  /\ tankState[a] = 1 /\ tankState[b] = 1 => stamps[a] <= stamps[b]
             /\ tankState[a] = 0 /\ tankState[b] = 0 => stamps[b] <= stamps[a]
<1> DEFINE stamps == trackSensorChanges(r)
           t == Threshold(a)
<1>1. /\ t \in Nat /\ lastChange[a] \in Never .. t + 1 /\ lastChange[b] \in Never .. t + 1
      /\ tankState[a] \in {0, 1} /\ tankState[b] \in {0, 1}
      /\ r[a] \in {0, 1} /\ r[b] \in {0, 1}
  BY ThresholdType DEF TypeDefs, LevelType, Stamped
<1>2. /\ stamps[a] = IF r[a] = tankState[a] THEN Never
                     ELSE IF lastChange[a] = Never THEN 0 ELSE Older(lastChange[a], t)
      /\ stamps[b] = IF r[b] = tankState[b] THEN Never
                     ELSE IF lastChange[b] = Never THEN 0 ELSE Older(lastChange[b], t)
  BY DEF trackSensorChanges
<1> HIDE DEF stamps, t
<1>3. /\ Older(lastChange[a], t) \in Never .. t + 1 /\ Older(lastChange[b], t) \in Never .. t + 1
      /\ lastChange[a] # Never => Older(lastChange[a], t) \in 0 .. t + 1
      /\ lastChange[b] # Never => Older(lastChange[b], t) \in 0 .. t + 1
  BY <1>1, OlderType
<1>4. /\ lastChange[a] \in 0 .. t + 1 /\ lastChange[b] \in 0 .. t + 1
           /\ lastChange[a] <= lastChange[b]
           => Older(lastChange[a], t) <= Older(lastChange[b], t)
      /\ lastChange[a] \in 0 .. t + 1 /\ lastChange[b] \in 0 .. t + 1
           /\ lastChange[b] <= lastChange[a]
           => Older(lastChange[b], t) <= Older(lastChange[a], t)
  BY <1>1, OlderOrder
<1>5. CASE tankState[a] = 1 /\ tankState[b] = 1
  <2>1. lastChange[a] <= lastChange[b]
    BY <1>5 DEF Ordered
  <2>2. stamps[a] <= stamps[b]
    BY <1>1, <1>2, <1>3, <1>4, <1>5, <2>1
  <2> QED BY <1>5, <2>2 DEF stamps
<1>6. CASE tankState[a] = 0 /\ tankState[b] = 0
  <2>1. lastChange[b] <= lastChange[a]
    BY <1>6 DEF Ordered
  <2>2. stamps[b] <= stamps[a]
    BY <1>1, <1>2, <1>3, <1>4, <1>6, <2>1
  <2> QED BY <1>6, <2>2 DEF stamps
<1> QED BY <1>5, <1>6 DEF stamps

\* Adopting changes keeps two neighbours ordered: b is not adopted past an a that
\* is due as well, and a fall of a takes b along.
PairDue(a, b, r, stamps, taken) ==
  /\ r[b] <= r[a]
  /\ a \in taken => stamps[a] > Threshold(a)
  /\ b \in taken => stamps[b] > Threshold(a)
  /\ b \in taken /\ stamps[a] > Threshold(a) => a \in taken
  /\ a \in taken /\ stamps[b] > Threshold(a) /\ r[b] = 0 => b \in taken

LEMMA PairStep ==
  ASSUME TypeDefs, NEW a \in Sensors, NEW b \in Sensors, Threshold(a) = Threshold(b),
         NEW raw, Seen(raw) \in [Sensors -> Level],
         PairDue(a, b, Seen(raw), trackSensorChanges(Seen(raw)), Taken(raw)),
         Ordered(a, b, tankState, lastChange)
  PROVE  Ordered(a, b, NewTank(raw), trackSensorChanges(Seen(raw)))
<1> DEFINE t == Threshold(a)
           r == Seen(raw)
           stamps == trackSensorChanges(r)
           taken == Taken(raw)
           new == NewTank(raw)
<1>1. /\ t \in Nat /\ r[a] \in {0, 1} /\ r[b] \in {0, 1}
      /\ tankState[a] \in {0, 1} /\ tankState[b] \in {0, 1}
  BY ThresholdType DEF TypeDefs, LevelType
<1>2. stamps[a] \in Never .. t + 1 /\ stamps[b] \in Never .. t + 1
  <2>1. Stamped
    BY DEF TypeDefs, LevelType
  <2> QED BY <2>1, StampsType
<1>3. /\ r[a] = tankState[a] => stamps[a] = Never
      /\ r[b] = tankState[b] => stamps[b] = Never
  BY DEF trackSensorChanges
<1>4. /\ tankState[a] = 1 /\ tankState[b] = 1 => stamps[a] <= stamps[b]
      /\ tankState[a] = 0 /\ tankState[b] = 0 => stamps[b] <= stamps[a]
  BY StampOrder DEF PairDue
<1>5. tankState[b] <= tankState[a]
  BY DEF Ordered
<1>6. /\ new[a] = IF a \in taken THEN r[a] ELSE tankState[a]
      /\ new[b] = IF b \in taken THEN r[b] ELSE tankState[b]
  BY DEF NewTank
<1>7. /\ r[b] <= r[a]
      /\ a \in taken => stamps[a] > t
      /\ b \in taken => stamps[b] > t
      /\ b \in taken /\ stamps[a] > t => a \in taken
      /\ a \in taken /\ stamps[b] > t /\ r[b] = 0 => b \in taken
  BY DEF PairDue
<1>8. Ordered(a, b, new, stamps)
  <2> HIDE DEF new, t, r, stamps, taken
  <2>1. CASE a \in taken /\ b \in taken
    BY <1>1, <1>2, <1>3, <1>4, <1>5, <1>6, <1>7, <2>1 DEF Ordered
  <2>2. CASE a \in taken /\ b \notin taken
    BY <1>1, <1>2, <1>3, <1>4, <1>5, <1>6, <1>7, <2>2 DEF Ordered
  <2>3. CASE a \notin taken /\ b \in taken
    BY <1>1, <1>2, <1>3, <1>4, <1>5, <1>6, <1>7, <2>3 DEF Ordered
  <2>4. CASE a \notin taken /\ b \notin taken
    BY <1>1, <1>2, <1>3, <1>4, <1>5, <1>6, <1>7, <2>4 DEF Ordered
  <2> QED BY <2>1, <2>2, <2>3, <2>4
<1> QED BY <1>8

\* Which changes a pass adopts, of sound readings.
LEMMA TakenResult ==
  ASSUME TypeDefs, NEW raw \in [Sensors -> Level], Nested(raw)
  PROVE  LET r == Seen(raw)
             stamps == trackSensorChanges(r)
             taken == Taken(raw)
         IN  /\ r \in [Sensors -> Level] /\ r.high <= r.mid /\ r.mid <= r.low
             /\ \A s \in Sensors : s \in taken => stamps[s] > Threshold(s)
             /\ "mid" \in taken /\ stamps["low"] > Threshold("low") => "low" \in taken
             /\ "high" \in taken /\ stamps["mid"] > Threshold("mid") => "mid" \in taken
             /\ "low" \in taken /\ stamps["mid"] > Threshold("mid") /\ r.mid = 0
                  => "mid" \in taken
             /\ "mid" \in taken /\ stamps["high"] > Threshold("high") /\ r.high = 0
                  => "high" \in taken
<1> DEFINE r == Seen(raw)
           stamps == trackSensorChanges(r)
           c == Changed(stamps)
<1>1. r \in [Sensors -> Level] /\ r.high <= r.mid /\ r.mid <= r.low
  <2>1. r \in [Sensors -> Level] /\ \A s \in Sensors \ {"pump"} : r[s] = raw[s]
    BY SeenType
  <2>2. r.high = raw.high /\ r.mid = raw.mid /\ r.low = raw.low
    BY <2>1 DEF Sensors
  <2> QED BY <2>1, <2>2 DEF Nested
<1>2. \A s \in Sensors : s \in c <=> stamps[s] > Threshold(s)
  BY DEF Changed
<1>3. {"low", "mid", "high"} \subseteq Sensors
  BY DEF Sensors
<1>4. /\ r.low \in {0, 1} /\ r.mid \in {0, 1} /\ r.high \in {0, 1}
  BY <1>1, <1>3
<1> HIDE DEF r, stamps
<1>5. /\ LowError(c, r) => MidError(c, r)
      /\ MidError(c, r) => HighError(c, r)
      /\ r.mid = 0 /\ ~LowError(c, r) => ~MidError(c, r)
      /\ r.high = 0 /\ ~MidError(c, r) => ~HighError(c, r)
  <2>1. r.mid = 0 => r.high # 1 /\ r.mid # 1
    BY <1>1, <1>4
  <2>2. r.high = 0 => r.high # 1
    OBVIOUS
  <2> HIDE DEF c
  <2>3. LowError(c, r) => MidError(c, r)
    BY Zenon DEF MidError
  <2>4. MidError(c, r) => HighError(c, r)
    BY Zenon DEF HighError
  <2>5. r.mid = 0 /\ ~LowError(c, r) => ~MidError(c, r)
    BY <2>1 DEF MidError
  <2>6. r.high = 0 /\ ~MidError(c, r) => ~HighError(c, r)
    BY <2>2 DEF HighError
  <2> QED BY <2>3, <2>4, <2>5, <2>6
<1> HIDE DEF c
<1>6. /\ "low" \in Adopted(c, r) <=> "low" \in c /\ ~LowError(c, r)
      /\ "mid" \in Adopted(c, r) <=> "mid" \in c /\ ~MidError(c, r)
      /\ "high" \in Adopted(c, r) <=> "high" \in c /\ ~HighError(c, r)
      /\ Adopted(c, r) \subseteq c
  BY DEF Adopted
<1>7. Taken(raw) = Adopted(c, r)
  BY DEF Taken, c, stamps, r
<1>8. \A s \in Sensors : s \in Taken(raw) => stamps[s] > Threshold(s)
  BY <1>2, <1>6, <1>7
<1>9. /\ "mid" \in Taken(raw) /\ stamps["low"] > Threshold("low") => "low" \in Taken(raw)
      /\ "high" \in Taken(raw) /\ stamps["mid"] > Threshold("mid") => "mid" \in Taken(raw)
      /\ "low" \in Taken(raw) /\ stamps["mid"] > Threshold("mid") /\ r.mid = 0
           => "mid" \in Taken(raw)
      /\ "mid" \in Taken(raw) /\ stamps["high"] > Threshold("high") /\ r.high = 0
           => "high" \in Taken(raw)
  BY <1>2, <1>3, <1>5, <1>6, <1>7, Zenon
<1> QED BY <1>1, <1>8, <1>9 DEF stamps, r

\* A pass of sound sensors keeps all levels ordered.
LEMMA LevelsStep ==
  ASSUME TypeDefs, NEW raw \in [Sensors -> Level], Nested(raw),
         Ordered("low", "mid", tankState, lastChange),
         Ordered("mid", "high", tankState, lastChange)
  PROVE  /\ Ordered("low", "mid", NewTank(raw), trackSensorChanges(Seen(raw)))
         /\ Ordered("mid", "high", NewTank(raw), trackSensorChanges(Seen(raw)))
<1>1. /\ Threshold("low") = Threshold("mid") /\ Threshold("mid") = Threshold("high")
      /\ "low" \in Sensors /\ "mid" \in Sensors /\ "high" \in Sensors
  BY DEF Threshold, Sensors
<1>2. Seen(raw) \in [Sensors -> Level]
  BY SeenType
<1>3. /\ PairDue("low", "mid", Seen(raw), trackSensorChanges(Seen(raw)), Taken(raw))
      /\ PairDue("mid", "high", Seen(raw), trackSensorChanges(Seen(raw)), Taken(raw))
  BY <1>1, TakenResult DEF PairDue
<1>4. Ordered("low", "mid", NewTank(raw), trackSensorChanges(Seen(raw)))
  BY <1>1, <1>2, <1>3, PairStep
<1>5. Ordered("mid", "high", NewTank(raw), trackSensorChanges(Seen(raw)))
  BY <1>1, <1>2, <1>3, PairStep
<1> QED BY <1>4, <1>5

-----------------------------------------------------------------------------
\* The invariant

\* Before the first judgement nothing is tested, tracked or sounded; a test that
\* turns the pins round is under way; an emergency needs the backup.
PhaseInv ==
  /\ ~inited => /\ ~sensorCheck /\ alarm = 0 /\ health # 0
                /\ \A s \in Sensors : lastChange[s] = Never
  /\ sensorsInvert => sensorCheck
  /\ EMERGENCY_PUMP_EVENT => forcePumpOn

\* A monitor that failed shows it.
FailInv == health = 0 => ~sensorCheck /\ beeper = 1 /\ (Mega => sys = 1)

\* Sound sensors: neighbours are ordered and so are their pending changes.
OrderInv ==
  stuck = {} => /\ Ordered("low", "mid", tankState, lastChange)
                /\ Ordered("mid", "high", tankState, lastChange)

Inv == TypeDefs /\ PhaseInv /\ FailInv /\ OrderInv /\ AlarmMeansOverflow

\* Levels as they are read, with no change pending, are ordered.
LEMMA FreshLevels ==
  ASSUME NEW tank, Nested(tank), NEW stamps, \A s \in Sensors : stamps[s] = Never
  PROVE  Ordered("low", "mid", tank, stamps) /\ Ordered("mid", "high", tank, stamps)
<1>1. stamps["low"] = Never /\ stamps["mid"] = Never /\ stamps["high"] = Never
  BY DEF Sensors
<1>2. tank["high"] <= tank["mid"] /\ tank["mid"] <= tank["low"]
  BY DEF Nested
<1> QED BY <1>1, <1>2 DEF Ordered

LEMMA InitPassInv ==
  ASSUME Inv, InitPass
  PROVE  PhaseInv' /\ FailInv' /\ OrderInv' /\ AlarmMeansOverflow'
<1>1. PICK r \in Readings :
        /\ tankState' = r
        /\ \/ doSensorTest /\ inited'
           \/ UNCHANGED <<sensorCheck, sensorsInvert, sensorTestTime, normal>>
        /\ UNCHANGED <<world, newDay, daysRunning, alarmVars, forcePumpOn, lastChange,
                       lastOverflowCondition, overFlowAlarmStart, alarm, beeper,
                       lastSensorTest, health>>
  BY Zenon DEF InitPass
<1>2. /\ ~inited /\ ~sensorCheck /\ ~sensorsInvert /\ alarm = 0 /\ health # 0
      /\ \A s \in Sensors : lastChange[s] = Never
      /\ EMERGENCY_PUMP_EVENT => forcePumpOn
  BY Zenon DEF Inv, PhaseInv, InitPass
<1>3. /\ stuck' = stuck /\ lastChange' = lastChange /\ alarm' = alarm /\ health' = health
      /\ EMERGENCY_PUMP_EVENT' = EMERGENCY_PUMP_EVENT /\ forcePumpOn' = forcePumpOn
  BY <1>1 DEF world, alarmVars
<1>4. PhaseInv'
  <2>1. ~inited' => ~sensorCheck'
    BY <1>1, <1>2 DEF doSensorTest
  <2>2. sensorsInvert' => sensorCheck'
    BY <1>1, <1>2 DEF doSensorTest
  <2> QED BY <1>2, <1>3, <2>1, <2>2, Zenon DEF PhaseInv
<1>5. FailInv'
  BY <1>2, <1>3 DEF FailInv
<1>6. AlarmMeansOverflow'
  BY <1>2, <1>3 DEF AlarmMeansOverflow
<1>7. OrderInv'
  <2> SUFFICES ASSUME stuck' = {} PROVE /\ Ordered("low", "mid", tankState', lastChange')
                                        /\ Ordered("mid", "high", tankState', lastChange')
    BY DEF OrderInv
  <2>1. Nested(tankState')
    BY <1>1, <1>2, <1>3, SoundReading
  <2> QED BY <1>2, <1>3, <2>1, FreshLevels
<1> QED BY <1>4, <1>5, <1>6, <1>7

\* Time keeps the order of two neighbours no pass looks at.
LEMMA OrderWaits ==
  ASSUME TypeDefs, LevelsWait, NEW a \in Sensors, NEW b \in Sensors,
         Threshold(a) = Threshold(b), Ordered(a, b, tankState, lastChange)
  PROVE  Ordered(a, b, tankState', lastChange')
<1> DEFINE t == Threshold(a)
<1>1. /\ t \in Nat /\ lastChange[a] \in Never .. t + 1 /\ lastChange[b] \in Never .. t + 1
  BY ThresholdType DEF TypeDefs, LevelType, Stamped
<1>2. /\ lastChange'[a] = Older(lastChange[a], t) /\ lastChange'[b] = Older(lastChange[b], t)
      /\ tankState' = tankState
  BY DEF LevelsWait
<1> HIDE DEF t
<1>3. /\ lastChange[a] <= lastChange[b] => lastChange'[a] <= lastChange'[b]
      /\ lastChange[b] <= lastChange[a] => lastChange'[b] <= lastChange'[a]
  BY <1>1, <1>2 DEF Older, Min2
<1> QED BY <1>2, <1>3 DEF Ordered

\* A pass that does not look at the levels: a test, its end, or a failed monitor.
LEMMA WaitInv ==
  ASSUME Inv, LevelsWait, stuck' = stuck,
         sensorCheck' \/ lastSensorTest' = 0 \/ health' = 0
  PROVE  OrderInv' /\ AlarmMeansOverflow'
<1>1. OrderInv'
  <2> SUFFICES ASSUME stuck' = {} PROVE /\ Ordered("low", "mid", tankState', lastChange')
                                        /\ Ordered("mid", "high", tankState', lastChange')
    BY DEF OrderInv
  <2>1. /\ Threshold("low") = Threshold("mid") /\ Threshold("mid") = Threshold("high")
        /\ "low" \in Sensors /\ "mid" \in Sensors /\ "high" \in Sensors
    BY DEF Threshold, Sensors
  <2>2. /\ Ordered("low", "mid", tankState, lastChange)
        /\ Ordered("mid", "high", tankState, lastChange)
    BY DEF Inv, OrderInv
  <2>3. Ordered("low", "mid", tankState', lastChange')
    BY <2>1, <2>2, OrderWaits DEF Inv
  <2>4. Ordered("mid", "high", tankState', lastChange')
    BY <2>1, <2>2, OrderWaits DEF Inv
  <2> QED BY <2>3, <2>4
<1>2. AlarmMeansOverflow'
  <2>1. /\ lastOverflowCondition' = Older(lastOverflowCondition, OVERFLOW_STATE_THRESHOLD)
        /\ overFlowAlarmStart' = Older(overFlowAlarmStart, OVERFLOW_ALARM_TIME_THRESHOLD)
        /\ tankState' = tankState /\ alarm' = alarm
    BY DEF LevelsWait
  <2>2. /\ OVERFLOW_STATE_THRESHOLD \in Nat /\ OVERFLOW_ALARM_TIME_THRESHOLD \in Nat
        /\ lastOverflowCondition \in Never .. OVERFLOW_STATE_THRESHOLD + 1
        /\ overFlowAlarmStart \in Never .. OVERFLOW_ALARM_TIME_THRESHOLD + 1
    BY TankThresholds DEF Inv, TypeDefs, LevelType, IndicatorType
  <2>3. lastOverflowCondition > OVERFLOW_STATE_THRESHOLD
          => lastOverflowCondition' > OVERFLOW_STATE_THRESHOLD
    BY <2>1, <2>2 DEF Older, Min2
  <2>4. overFlowAlarmStart # Never => overFlowAlarmStart' # Never
    BY <2>1, <2>2 DEF Older, Min2
  <2>5. alarm = 1 => /\ tankState.pump = 1 /\ tankState.high = 1
                     /\ lastOverflowCondition > OVERFLOW_STATE_THRESHOLD
                     /\ overFlowAlarmStart # Never
    BY Zenon DEF Inv, AlarmMeansOverflow
  <2> QED BY <2>1, <2>3, <2>4, <2>5, Zenon DEF AlarmMeansOverflow
<1> QED BY <1>1, <1>2

LEMMA TestPassInv ==
  ASSUME Inv, TestNormalPass \/ TestInvertPass
  PROVE  PhaseInv' /\ FailInv' /\ OrderInv' /\ AlarmMeansOverflow'
<1>1. /\ inited /\ sensorCheck /\ LevelsWait
      /\ UNCHANGED <<world, inited, alarmVars, forcePumpOn, beeper, sys, sensorCheck, health>>
  BY Zenon DEF TestNormalPass, TestInvertPass
<1>2. /\ inited' = inited /\ sensorCheck' = sensorCheck /\ forcePumpOn' = forcePumpOn
      /\ EMERGENCY_PUMP_EVENT' = EMERGENCY_PUMP_EVENT /\ stuck' = stuck /\ health' = health
  BY <1>1 DEF world, alarmVars
<1>3. PhaseInv'
  <2>1. inited' /\ sensorCheck'
    BY <1>1, <1>2
  <2>2. EMERGENCY_PUMP_EVENT' => forcePumpOn'
    BY <1>2 DEF Inv, PhaseInv
  <2> QED BY <2>1, <2>2 DEF PhaseInv
<1>4. FailInv'
  <2>1. health # 0
    BY <1>1, Zenon DEF Inv, FailInv
  <2> QED BY <1>2, <2>1 DEF FailInv
<1>5. OrderInv' /\ AlarmMeansOverflow'
  BY <1>1, <1>2, WaitInv
<1> QED BY <1>3, <1>4, <1>5

LEMMA TestEndInv ==
  ASSUME Inv, TestEndPass
  PROVE  PhaseInv' /\ FailInv' /\ OrderInv' /\ AlarmMeansOverflow'
<1>1. /\ ~sensorCheck' /\ ~sensorsInvert' /\ LevelsWait /\ lastSensorTest' = 0
      /\ UNCHANGED <<world, alarmVars, inited>> /\ inited
      /\ forcePumpOn => forcePumpOn'
      /\ \/ health' = 0 /\ beeper' = 1 /\ (Mega => sys' = 1)
         \/ health' = health /\ forcePumpOn'
         \/ health' = 1
  BY TestEndResult DEF Inv
<1>2. /\ inited' = inited /\ EMERGENCY_PUMP_EVENT' = EMERGENCY_PUMP_EVENT /\ stuck' = stuck
      /\ board' = board
  BY <1>1 DEF world, alarmVars
<1>3. PhaseInv'
  <2>1. inited' /\ ~sensorsInvert'
    BY <1>1, <1>2
  <2>2. EMERGENCY_PUMP_EVENT' => forcePumpOn'
    BY <1>1, <1>2 DEF Inv, PhaseInv
  <2> QED BY <2>1, <2>2 DEF PhaseInv
<1>4. FailInv'
  <2>1. health # 0
    BY Zenon DEF Inv, FailInv, TestEndPass
  <2>2. health' = 0 => beeper' = 1 /\ (Mega => sys' = 1)
    BY <1>1, <2>1
  <2>3. Mega' <=> Mega
    BY <1>2 DEF Mega
  <2> QED BY <1>1, <2>2, <2>3, Zenon DEF FailInv
<1>5. OrderInv' /\ AlarmMeansOverflow'
  BY <1>1, <1>2, WaitInv
<1> QED BY <1>3, <1>4, <1>5

LEMMA ControlInv ==
  ASSUME Inv, ControlPass
  PROVE  PhaseInv' /\ FailInv' /\ OrderInv' /\ AlarmMeansOverflow'
<1>1. PICK r \in Readings : Evaluate(r)
  BY DEF ControlPass
<1>2. /\ inited /\ ~sensorCheck /\ health = 1
      /\ lastSensorTest' = Older(lastSensorTest, SENSOR_TEST_THRESHOLD)
      /\ stuck' = stuck /\ inited' = inited /\ forcePumpOn' = forcePumpOn /\ health' = health
  BY DEF ControlPass, Trusted, world
<1>3. r \in [Sensors -> Level]
  BY ReadingType
<1>4. /\ TestMayStart
      /\ alarm' = 1 => /\ tankState'.pump = 1 /\ tankState'.high = 1
                       /\ lastOverflowCondition' > OVERFLOW_STATE_THRESHOLD
                       /\ overFlowAlarmStart' \in 0 .. OVERFLOW_ALARM_TIME_THRESHOLD - 1
      /\ EMERGENCY_PUMP_EVENT' => forcePumpOn \/ EMERGENCY_PUMP_EVENT
  BY <1>1, <1>2, <1>3, EvaluateResult DEF Inv
<1>5. PhaseInv'
  <2>1. sensorsInvert' => sensorCheck'
    <3>1. ~sensorsInvert
      BY <1>2, Zenon DEF Inv, PhaseInv
    <3> QED BY <1>4, <3>1 DEF TestMayStart, doSensorTest
  <2>2. EMERGENCY_PUMP_EVENT' => forcePumpOn'
    BY <1>2, <1>4, Zenon DEF Inv, PhaseInv
  <2> QED BY <1>2, <2>1, <2>2, Zenon DEF PhaseInv
<1>6. FailInv'
  BY <1>2 DEF FailInv
<1>7. AlarmMeansOverflow'
  <2>1. overFlowAlarmStart' \in 0 .. OVERFLOW_ALARM_TIME_THRESHOLD - 1
          => /\ overFlowAlarmStart' # Never
             /\ overFlowAlarmStart' < OVERFLOW_ALARM_TIME_THRESHOLD
    BY TankThresholds
  <2> QED BY <1>4, <2>1, Zenon DEF AlarmMeansOverflow
<1>8. OrderInv'
  <2> SUFFICES ASSUME stuck' = {} PROVE /\ Ordered("low", "mid", tankState', lastChange')
                                        /\ Ordered("mid", "high", tankState', lastChange')
    BY DEF OrderInv
  <2>1. Nested(r)
    <3>1. ~sensorsInvert
      BY <1>2, Zenon DEF Inv, PhaseInv
    <3> QED BY <1>2, <3>1, SoundReading
  <2>2. /\ Ordered("low", "mid", tankState, lastChange)
        /\ Ordered("mid", "high", tankState, lastChange)
    BY <1>2 DEF Inv, OrderInv
  <2>3. tankState' = NewTank(r) /\ lastChange' = trackSensorChanges(Seen(r))
    BY <1>1, EvaluateParts
  <2> QED BY <1>3, <2>1, <2>2, <2>3, LevelsStep DEF Inv
<1> QED BY <1>5, <1>6, <1>7, <1>8

LEMMA FailedInv ==
  ASSUME Inv, FailedPass
  PROVE  PhaseInv' /\ FailInv' /\ OrderInv' /\ AlarmMeansOverflow'
<1>1. /\ inited /\ EMERGENCY_PUMP_EVENT' = EvaluatedAlarms[2]
      /\ LevelsWait /\ ~Trusted
      /\ UNCHANGED <<world, inited, forcePumpOn, beeper, sys, sensorCheck, sensorsInvert,
                     health>>
  BY Zenon DEF FailedPass
<1>2. EvaluatedAlarms[2] => EMERGENCY_PUMP_EVENT
  BY AlarmValues, TypeParts DEF Inv
<1>3. stuck' = stuck /\ board' = board
  BY <1>1 DEF world
<1>4. PhaseInv'
  BY <1>1, <1>2, Zenon DEF Inv, PhaseInv
<1>5. FailInv'
  <2>1. Mega' <=> Mega
    BY <1>3 DEF Mega
  <2> QED BY <1>1, <2>1, Zenon DEF Inv, FailInv
<1>6. OrderInv' /\ AlarmMeansOverflow'
  <2>1. health' = 0
    BY <1>1 DEF Inv, TypeDefs, TestType, Trusted
  <2> QED BY <1>1, <1>3, <2>1, WaitInv
<1> QED BY <1>4, <1>5, <1>6

\* Steps that are no passes: a restart begins anew, a sensor that breaks makes no
\* more promises, the rest stays.
LEMMA OthersInv ==
  ASSUME Inv,
         \/ ClockMoves \/ TimeArrives \/ PowerCycle \/ UNCHANGED vars
         \/ \E s \in Breakable : SensorBreaks(s)
  PROVE  PhaseInv' /\ FailInv' /\ OrderInv' /\ AlarmMeansOverflow'
<1>1. CASE PowerCycle
  <2>1. /\ ~inited' /\ ~sensorCheck' /\ ~sensorsInvert' /\ ~EMERGENCY_PUMP_EVENT'
        /\ alarm' = 0 /\ health' = 1 /\ tankState' = [s \in Sensors |-> 0]
        /\ lastChange' = [s \in Sensors |-> Never]
    BY <1>1 DEF PowerCycle, Boot
  <2>2. PhaseInv' /\ FailInv' /\ AlarmMeansOverflow'
    BY <2>1 DEF PhaseInv, FailInv, AlarmMeansOverflow
  <2>3. Nested(tankState') /\ \A s \in Sensors : lastChange'[s] = Never
    BY <2>1 DEF Nested, Sensors
  <2> QED BY <2>2, <2>3, FreshLevels DEF OrderInv
<1>2. CASE ClockMoves \/ TimeArrives \/ UNCHANGED vars \/ \E s \in Breakable : SensorBreaks(s)
  <2>1. /\ UNCHANGED <<inited, initialReadTime, alarmVars, forcePumpOn, levelVars, alarm,
                       beeper, sys, testVars, health, queue>>
        /\ board' = board /\ (stuck' = stuck \/ stuck' # {})
    <3>1. CASE ClockMoves
      BY <3>1 DEF ClockMoves, world
    <3>2. CASE TimeArrives
      BY <3>2 DEF TimeArrives
    <3>3. CASE UNCHANGED vars
      BY <3>3 DEF vars, world
    <3>4. CASE \E s \in Breakable : SensorBreaks(s)
      BY <3>4 DEF SensorBreaks
    <3> QED BY <1>2, <3>1, <3>2, <3>3, <3>4
  <2>2. /\ inited' = inited /\ sensorCheck' = sensorCheck /\ sensorsInvert' = sensorsInvert
        /\ forcePumpOn' = forcePumpOn /\ EMERGENCY_PUMP_EVENT' = EMERGENCY_PUMP_EVENT
        /\ tankState' = tankState /\ lastChange' = lastChange
        /\ lastOverflowCondition' = lastOverflowCondition
        /\ overFlowAlarmStart' = overFlowAlarmStart /\ lastSensorTest' = lastSensorTest
        /\ alarm' = alarm /\ beeper' = beeper /\ sys' = sys /\ health' = health
    BY <2>1 DEF alarmVars, levelVars, testVars
  <2>3. PhaseInv' /\ AlarmMeansOverflow'
    BY <2>2, Zenon DEF Inv, PhaseInv, AlarmMeansOverflow
  <2>4. FailInv'
    <3>1. Mega' <=> Mega
      BY <2>1 DEF Mega
    <3> QED BY <2>2, <3>1, Zenon DEF Inv, FailInv
  <2>5. OrderInv'
    BY <2>1, <2>2, Zenon DEF Inv, OrderInv
  <2> QED BY <2>3, <2>4, <2>5
<1> QED BY <1>1, <1>2

LEMMA InvStep == Inv /\ [Next]_vars => Inv'
<1> SUFFICES ASSUME Inv, [Next]_vars PROVE Inv'
  OBVIOUS
<1>1. TypeDefs'
  BY TypeStep DEF Inv
<1>2. PhaseInv' /\ FailInv' /\ OrderInv' /\ AlarmMeansOverflow'
  <2>1. CASE Pass
    BY <2>1, InitPassInv, TestPassInv, TestEndInv, ControlInv, FailedInv, Zenon DEF Pass
  <2> QED BY <2>1, OthersInv, Zenon DEF Next
<1> QED BY <1>1, <1>2 DEF Inv

LEMMA InvInit == Init => Inv
<1> SUFFICES ASSUME Init PROVE Inv
  OBVIOUS
<1>1. /\ ~inited /\ ~sensorCheck /\ ~sensorsInvert /\ ~EMERGENCY_PUMP_EVENT
      /\ alarm = 0 /\ health = 1 /\ tankState = [s \in Sensors |-> 0]
      /\ lastChange = [s \in Sensors |-> Never]
  BY DEF Init
<1>2. PhaseInv /\ FailInv /\ AlarmMeansOverflow
  BY <1>1 DEF PhaseInv, FailInv, AlarmMeansOverflow
<1>3. Nested(tankState) /\ \A s \in Sensors : lastChange[s] = Never
  BY <1>1 DEF Nested, Sensors
<1> QED BY <1>2, <1>3, TypeInit, FreshLevels DEF Inv, OrderInv

LEMMA Invariance == Spec => []Inv
<1> QED BY InvInit, InvStep, PTL DEF Spec

-----------------------------------------------------------------------------
\* The theorems

\* Types hold for ever: ages saturate, the queue keeps its limit.
THEOREM TypeCorrect == Spec => []TypeOK
<1>1. Inv => TypeOK
  BY TypeParts DEF Inv
<1> QED BY <1>1, Invariance, PTL

\* The levels a monitor with sound sensors shows are levels a tank can have.
THEOREM LevelsCorrect == Spec => []LevelsNested
<1>1. Inv => LevelsNested
  BY DEF Inv, OrderInv, Ordered, LevelsNested, Nested
<1> QED BY <1>1, Invariance, PTL

\* Whenever the alarm sounds there is an overflow, recorded for long enough, and it
\* sounds past its own time only in or right after a test, or after a failed one.
THEOREM AlarmCorrect == Spec => []AlarmMeansOverflow
<1>1. Inv => AlarmMeansOverflow
  BY DEF Inv
<1> QED BY <1>1, Invariance, PTL

\* No pass takes a failed test back, and no pass hides it.
THEOREM FailureCorrect == Spec => FailureIsFinal
<1> DEFINE Final == health = 0 /\ inited' => /\ health' = 0 /\ ~sensorCheck'
                                             /\ beeper' = 1 /\ (Mega => sys' = 1)
<1>1. ASSUME Inv, [Next]_vars PROVE Final
  <2> SUFFICES ASSUME health = 0, inited'
               PROVE  /\ health' = 0 /\ ~sensorCheck' /\ beeper' = 1 /\ (Mega => sys' = 1)
    OBVIOUS
  <2>1. ~sensorCheck /\ beeper = 1 /\ (Mega => sys = 1) /\ inited /\ ~Trusted
    <3>1. health # 1
      OBVIOUS
    <3> QED BY <1>1, <3>1, Zenon DEF Inv, FailInv, PhaseInv, Trusted
  <2>2. UNCHANGED <<health, sensorCheck, beeper, sys>>
    <3>1. FailedPass \/ ClockMoves \/ TimeArrives \/ UNCHANGED vars
          \/ \E s \in Breakable : SensorBreaks(s)
      <4>1. ~PowerCycle
        BY Zenon DEF PowerCycle, Boot
      <4> QED BY <1>1, <2>1, <4>1, Zenon DEF Next, Pass, InitPass, TestNormalPass,
            TestInvertPass, TestEndPass, ControlPass
    <3> QED BY <3>1 DEF FailedPass, ClockMoves, TimeArrives, vars, SensorBreaks, testVars
  <2>3. health' = health /\ sensorCheck' = sensorCheck /\ beeper' = beeper /\ sys' = sys
    BY <2>2
  <2> QED BY <2>1, <2>3, Zenon
<1>2. Inv /\ [Next]_vars => [Final]_vars
  BY <1>1, Zenon
<1> QED BY <1>2, Invariance, PTL DEF Spec, FailureIsFinal

\* A test whose level sensor is broken does not pass.
THEOREM StuckCorrect == Spec => StuckSensorIsNoticed
<1> DEFINE Noticed == (\E s \in stuck : normal[s] = StuckAt) /\ sensorsInvert
                        /\ ~sensorCheck' /\ inited' => health' = 0 \/ forcePumpOn'
<1>1. ASSUME Inv, [Next]_vars PROVE Noticed
  <2> SUFFICES ASSUME NEW s \in stuck, normal[s] = StuckAt, sensorsInvert,
                      ~sensorCheck', inited'
               PROVE  health' = 0 \/ forcePumpOn'
    BY Zenon
  <2>1. sensorCheck /\ inited
    BY <1>1, Zenon DEF Inv, PhaseInv
  <2>2. sensorCheck' # sensorCheck
    BY <2>1
  <2>3. TestEndPass
    <3>1. ~(TestInvertPass \/ ClockMoves \/ TimeArrives \/ UNCHANGED vars
            \/ \E q \in Breakable : SensorBreaks(q))
      BY <2>2 DEF TestInvertPass, ClockMoves, TimeArrives, vars, SensorBreaks, testVars
    <3>2. ~(InitPass \/ TestNormalPass \/ ControlPass \/ FailedPass \/ PowerCycle)
      BY <2>1, Zenon DEF InitPass, TestNormalPass, ControlPass, FailedPass, PowerCycle, Boot
    <3> QED BY <1>1, <3>1, <3>2, Zenon DEF Next, Pass
  <2>4. s \in Sensors
    BY <1>1, TankThresholds DEF Inv, TypeDefs, WorldType
  <2>5. ~(\E invert \in Readings : Passed(normal, invert))
    BY <2>4, StuckReading DEF Passed
  <2> QED BY <1>1, <2>3, <2>5, TestEndResult DEF Inv
<1>2. Inv /\ [Next]_vars => [Noticed]_vars
  BY <1>1, Zenon
<1> QED BY <1>2, Invariance, PTL DEF Spec, StuckSensorIsNoticed

\* The pump is expected only in its period or in an emergency.
THEOREM ExpectationCorrect == Spec => PumpExpectedInTime
<1> DEFINE Expected == synced /\ ControlPass
                         => /\ PUMP_EVENT' => Pumping \/ EMERGENCY_PUMP_EVENT
                            /\ EMERGENCY_PUMP_EVENT' => forcePumpOn' /\ ~Pumping
<1>1. ASSUME Inv, [Next]_vars PROVE Expected
  <2> SUFFICES ASSUME synced, ControlPass
               PROVE  /\ PUMP_EVENT' => Pumping \/ EMERGENCY_PUMP_EVENT
                      /\ EMERGENCY_PUMP_EVENT' => forcePumpOn' /\ ~Pumping
    OBVIOUS
  <2>1. PICK r \in Readings : Evaluate(r)
    BY DEF ControlPass
  <2>2. lastSensorTest' = Older(lastSensorTest, SENSOR_TEST_THRESHOLD)
        /\ r \in [Sensors -> Level]
    BY ReadingType DEF ControlPass
  <2>3. /\ PUMP_EVENT' => Pumping \/ EMERGENCY_PUMP_EVENT
        /\ EMERGENCY_PUMP_EVENT' => ~Pumping
    BY <1>1, <2>1, <2>2, EvaluateResult DEF Inv
  <2>4. EMERGENCY_PUMP_EVENT' => forcePumpOn'
    BY <1>1, ControlInv DEF PhaseInv
  <2> QED BY <2>3, <2>4
<1>2. Inv /\ [Next]_vars => [Expected]_vars
  BY <1>1, Zenon
<1> QED BY <1>2, Invariance, PTL DEF Spec, PumpExpectedInTime

-----------------------------------------------------------------------------
\* What runs out

\* A test runs out with every pass: what makes each one end.
THEOREM TestRunsOutCorrect == Spec => TestRunsOut
<1> DEFINE Nearer == /\ sensorTestTime' = sensorTestTime + 1
                     /\ sensorTestTime' <= minSensorTestReadtime
           A == sensorCheck /\ inited' =>
                  \/ ~sensorCheck'
                  \/ sensorsInvert' /\ ~sensorsInvert
                  \/ /\ sensorsInvert' = sensorsInvert
                     /\ sensorTestTime' >= sensorTestTime
                     /\ Pass => Nearer
<1>1. ASSUME Inv, [Next]_vars, sensorCheck, inited'
      PROVE  \/ ~sensorCheck'
             \/ sensorsInvert' /\ ~sensorsInvert
             \/ /\ sensorsInvert' = sensorsInvert
                /\ sensorTestTime' >= sensorTestTime
                /\ Pass => Nearer
  <2>1. inited
    BY <1>1, Zenon DEF Inv, PhaseInv
  <2>2. sensorTestTime \in 0 .. minSensorTestReadtime + 1 /\ sensorsInvert \in BOOLEAN
        /\ minSensorTestReadtime \in Nat
    BY <1>1, TankThresholds DEF Inv, TypeDefs, TestType
  <2> DEFINE age == Older(sensorTestTime, minSensorTestReadtime)
  <2>3. age <= minSensorTestReadtime => age = sensorTestTime + 1
    BY <2>2 DEF Older, Min2
  <2>4. age \in 0 .. minSensorTestReadtime + 1
    BY <2>2, OlderType
  <2>5. CASE TestEndPass
    BY <2>5 DEF TestEndPass
  <2>6. CASE TestInvertPass
    <3>1. age <= minSensorTestReadtime /\ sensorTestTime' = age /\ sensorsInvert' = sensorsInvert
      BY <2>6, Zenon DEF TestInvertPass
    <3> HIDE DEF age
    <3>2. Nearer /\ sensorTestTime' >= sensorTestTime
      BY <2>2, <2>3, <2>4, <3>1
    <3> QED BY <3>1, <3>2
  <2>7. CASE TestNormalPass
    <3>1. /\ ~sensorsInvert /\ sensorsInvert' = (age > minSensorTestReadtime)
          /\ sensorTestTime' = IF age > minSensorTestReadtime THEN 0 ELSE age
      BY <2>7, Zenon DEF TestNormalPass
    <3> HIDE DEF age
    <3>2. CASE age > minSensorTestReadtime
      BY <3>1, <3>2, Zenon
    <3>3. CASE ~(age > minSensorTestReadtime)
      <4>1. sensorTestTime' = age /\ age <= minSensorTestReadtime
        BY <2>2, <2>4, <3>1, <3>3
      <4>2. Nearer /\ sensorTestTime' >= sensorTestTime
        BY <2>2, <2>3, <2>4, <4>1
      <4>3. sensorsInvert = FALSE /\ sensorsInvert' = FALSE
        <5>1. (age > minSensorTestReadtime) = FALSE
          BY <2>2, <2>4, <3>3
        <5> QED BY <2>2, <3>1, <5>1
      <4> QED BY <4>2, <4>3
    <3> QED BY <3>2, <3>3
  <2>8. CASE ~Pass
    <3>1. ~PowerCycle
      BY <1>1 DEF PowerCycle, Boot
    <3>2. UNCHANGED testVars
      <4>1. CASE ClockMoves \/ TimeArrives \/ \E s \in Breakable : SensorBreaks(s)
        BY <4>1, Zenon DEF ClockMoves, TimeArrives, SensorBreaks
      <4>2. CASE UNCHANGED vars
        BY <4>2 DEF vars
      <4> QED BY <1>1, <2>8, <3>1, <4>1, <4>2, Zenon DEF Next
    <3>3. sensorTestTime' = sensorTestTime /\ sensorsInvert' = sensorsInvert
      BY <3>2 DEF testVars
    <3>4. sensorTestTime' >= sensorTestTime
      BY <2>2, <3>3
    <3> QED BY <2>8, <3>3, <3>4
  <2>9. ~InitPass /\ ~ControlPass /\ ~FailedPass
    BY <1>1, <2>1, Zenon DEF InitPass, ControlPass, FailedPass
  <2> QED BY <2>5, <2>6, <2>7, <2>8, <2>9, Zenon DEF Pass
<1>2. Inv /\ [Next]_vars => [A]_vars
  BY <1>1, Zenon
<1> QED BY <1>2, Invariance, PTL DEF Spec, TestRunsOut

\* An alarm runs out with every control pass.
THEOREM AlarmRunsOutCorrect == Spec => AlarmRunsOut
<1> DEFINE Silent == lastOverflowCondition' <= OVERFLOW_STATE_THRESHOLD /\ alarm' = 0
           Ages == /\ overFlowAlarmStart' > overFlowAlarmStart
                      \/ overFlowAlarmStart' = OVERFLOW_ALARM_TIME_THRESHOLD + 1
                   /\ overFlowAlarmStart' >= OVERFLOW_ALARM_TIME_THRESHOLD => alarm' = 0
           A == ControlPass /\ overFlowAlarmStart # Never => Silent \/ Ages
<1>1. ASSUME Inv, ControlPass, overFlowAlarmStart # Never
      PROVE  Silent \/ Ages
  <2> DEFINE overflow == lastOverflowCondition'
             start == OverflowAlarmStart(overflow)
  <2>1. PICK r \in Readings : Evaluate(r)
    BY <1>1 DEF ControlPass
  <2>2. PICK error : updateIndicators(error, overflow)
    BY <2>1, EvaluateParts
  <2>3. overFlowAlarmStart' = start /\ alarm' = Wail(overflow, start)
    BY <2>2, Zenon DEF updateIndicators
  <2>4. /\ OVERFLOW_STATE_THRESHOLD \in Nat /\ OVERFLOW_ALARM_TIME_THRESHOLD \in Nat
        /\ overFlowAlarmStart \in 0 .. OVERFLOW_ALARM_TIME_THRESHOLD + 1
    BY <1>1, TankThresholds DEF Inv, TypeDefs, IndicatorType
  <2>5. overflow \in Int
    <3>1. lastOverflowCondition' = trackOverFlow(NewTank(r))
      BY <2>1, EvaluateParts
    <3>2. trackOverFlow(NewTank(r)) \in Never .. OVERFLOW_STATE_THRESHOLD + 1
      BY <1>1, OverflowType, TypeParts DEF Inv
    <3> QED BY <2>4, <3>1, <3>2
  <2>6. overflow > OVERFLOW_STATE_THRESHOLD =>
          start = IF overFlowAlarmStart + 1 < OVERFLOW_ALARM_TIME_THRESHOLD + 1
                  THEN overFlowAlarmStart + 1 ELSE OVERFLOW_ALARM_TIME_THRESHOLD + 1
    <3> HIDE DEF overflow
    <3> QED BY <2>4, <2>5 DEF OverflowAlarmStart, Older, Min2
  <2> HIDE DEF start
  <2>7. CASE overflow > OVERFLOW_STATE_THRESHOLD
    <3>1. start > overFlowAlarmStart \/ start = OVERFLOW_ALARM_TIME_THRESHOLD + 1
      BY <2>4, <2>6, <2>7
    <3>2. start \in Nat
      BY <2>4, <2>6, <2>7
    <3>3. start >= OVERFLOW_ALARM_TIME_THRESHOLD => Wail(overflow, start) = 0
      BY <2>4, <3>2 DEF Wail
    <3> QED BY <2>3, <3>1, <3>3
  <2>8. CASE ~(overflow > OVERFLOW_STATE_THRESHOLD)
    <3>1. Wail(overflow, start) = 0
      BY <2>8, Zenon DEF Wail
    <3>2. overflow <= OVERFLOW_STATE_THRESHOLD
      BY <2>4, <2>5, <2>8
    <3> QED BY <2>3, <3>1, <3>2
  <2> QED BY <2>7, <2>8
<1>2. Inv /\ [Next]_vars => [A]_vars
  BY <1>1, Zenon
<1> QED BY <1>2, Invariance, PTL DEF Spec, AlarmRunsOut

=============================================================================
