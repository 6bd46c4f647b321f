------------------------ MODULE AquaController_proofs ------------------------
(***************************************************************************)
(* Proofs about the drinking-water storage controller, for every threshold,*)
(* set of clients and pace of the core task the assumptions allow.         *)
(***************************************************************************)
EXTENDS AquaProperties, TLAPS

USE DEF Never, Level

-----------------------------------------------------------------------------
\* The helpers

\* An age stays an age, and a stamp that is set stays set.
LEMMA OlderType ==
  ASSUME NEW t \in Nat, NEW age \in Never .. t + 1, NEW d \in Nat
  PROVE  /\ Older(age, d, t) \in Never .. t + 1
         /\ age # Never => Older(age, d, t) \in 0 .. t + 1
         /\ Older(age, d, t) = Never <=> age = Never
BY DEF Older, Min2

\* What trackSensorChanges and trackOverFlow make of a stamp.
LEMMA TrackedType ==
  ASSUME NEW t \in Nat, NEW age \in Never .. t + 1, NEW d \in Nat,
         NEW differs \in BOOLEAN
  PROVE  /\ Tracked(age, differs, d, t) \in Never .. t + 1
         /\ Tracked(age, differs, d, t) # Never <=> differs
<1>1. CASE differs
  <2>1. Tracked(age, differs, d, t) = IF age = Never THEN 0 ELSE Older(age, d, t)
    BY <1>1, Zenon DEF Tracked
  <2>2. Tracked(age, differs, d, t) \in 0 .. t + 1
    BY <2>1, OlderType
  <2>3. Tracked(age, differs, d, t) \in Never .. t + 1
        /\ Tracked(age, differs, d, t) # Never
    BY <2>2
  <2> QED BY <1>1, <2>3
<1>2. CASE ~differs
  <2>1. Tracked(age, differs, d, t) = Never
    BY <1>2, Zenon DEF Tracked
  <2> QED BY <1>2, <2>1
<1> QED BY <1>1, <1>2

\* The clock saturates.
LEMMA ClockType ==
  ASSUME uptime \in 0 .. ClockCap, NEW d \in Nat
  PROVE  Clock(d) \in 0 .. ClockCap
BY CapAssumption DEF Clock, Min2

\* What is written to the EEPROM fits its cells.
LEMMA WrittenType ==
  ASSUME NEW c \in SettingsType, NEW stamped \in BOOLEAN
  PROVE  Written(c, stamped) \in StoredType
<1>1. c.runtime % ByteRange \in 0 .. ByteRange - 1
  BY SizeAssumption DEF SettingsType
<1>2. c.relay \in Level /\ c.reset \in Level /\ c.notify \in Level
  BY DEF SettingsType
<1> QED BY <1>1, <1>2 DEF Written, StoredType

\* Settings stay settings when time passes,
LEMMA OlderConfType ==
  ASSUME conf \in SettingsType, NEW d \in Nat
  PROVE  OlderConf(d) \in SettingsType
<1>1. Min2(conf.start + d, ClockCap) \in 0 .. ClockCap
  BY CapAssumption DEF SettingsType, Min2
<1> QED BY <1>1 DEF SettingsType, OlderConf

\* when the pump is stopped or started,
LEMMA ConfAfterType ==
  ASSUME NEW c \in SettingsType
  PROVE  ConfAfterStop(c) \in SettingsType /\ ConfAfterRun(c) \in SettingsType
<1>1. 0 \in 0 .. ClockCap
  BY CapAssumption
<1>2. switchOffRelay(c) \in SettingsType
  BY <1>1 DEF SettingsType, switchOffRelay
<1>3. switchOnRelay(c) \in SettingsType
  BY <1>1 DEF SettingsType, switchOnRelay
<1> QED BY <1>2, <1>3 DEF ConfAfterStop, ConfAfterRun

\* which leaves the pump on or off,
LEMMA PumpAfterType ==
  ASSUME NEW c \in SettingsType, NEW p \in Level
  PROVE  PumpAfterStop(c, p) \in Level /\ PumpAfterRun(c, p) \in Level
BY DEF PumpAfterStop, PumpAfterRun

\* and when they are loaded from the EEPROM or set to the defaults.
LEMMA LoadedType ==
  ASSUME ee \in StoredType, NEW now \in 0 .. ClockCap
  PROVE  Loaded(now) \in SettingsType /\ InitialConf(now) \in SettingsType
<1>1. Loaded(now) \in SettingsType
  BY SizeAssumption DEF StoredType, SettingsType, Loaded
<1>2. Defaults(now) \in SettingsType
  BY SizeAssumption DEF SettingsType, Defaults
<1> QED BY <1>1, <1>2 DEF InitialConf

\* Notices beyond the limit are dropped.
LEMMA EnqueuedType ==
  ASSUME queue \in 0 .. NOTICE_LIMIT, NEW n \in Nat
  PROVE  Enqueued(n) \in 0 .. NOTICE_LIMIT
BY SizeAssumption DEF Enqueued, Min2

\* The end of a pass leaves the queue and the time of the last dispatch right.
LEMMA DispatchType ==
  ASSUME NoticeOK, NEW d \in Nat, NEW n \in Nat, NEW c,
         dispatchPendingNotification(d, n, c), UNCHANGED network
  PROVE  NoticeOK'
<1>1. Enqueued(n) \in 0 .. NOTICE_LIMIT
  BY EnqueuedType DEF NoticeOK
<1>2. Older(last_notify, d, CONSECUTIVE_NOTIFICATION_DELAY)
        \in 0 .. CONSECUTIVE_NOTIFICATION_DELAY + 1
  <2>1. last_notify \in Never .. CONSECUTIVE_NOTIFICATION_DELAY + 1
        /\ last_notify # Never
    BY ThresholdAssumption DEF NoticeOK
  <2> QED BY <2>1, OlderType, ThresholdAssumption
<1>3. /\ queue' \in 0 .. NOTICE_LIMIT
      /\ last_notify' \in 0 .. CONSECUTIVE_NOTIFICATION_DELAY + 1
  BY <1>1, <1>2, ThresholdAssumption, SizeAssumption
     DEF dispatchPendingNotification
<1> QED BY <1>3 DEF NoticeOK

\* So it is with the clock,
LEMMA AdvanceClockType ==
  ASSUME ClockOK, NEW d \in Nat, AdvanceClock(d)
  PROVE  ClockOK'
BY ClockType DEF ClockOK, AdvanceClock

\* the ages of the sensor test's stamps,
LEMMA TestAges ==
  ASSUME TestOK, NEW d \in Nat
  PROVE  /\ TestTimeAge(d) \in 0 .. SENSOR_RECENT_TEST_THRESHOLD + 1
         /\ SensorTestAge(d) \in Never .. SENSOR_RECENT_TEST_THRESHOLD + 1
<1>1. sensorTestTime \in Never .. SENSOR_RECENT_TEST_THRESHOLD + 1
      /\ sensorTestTime # Never
  BY ThresholdAssumption DEF TestOK
<1> QED
  BY <1>1, OlderType, ThresholdAssumption
     DEF TestOK, TestTimeAge, SensorTestAge

\* the test itself while time passes,
LEMMA AgeTestStampsType ==
  ASSUME TestOK, NEW d \in Nat, AgeTestStamps(d)
  PROVE  TestOK'
BY TestAges DEF TestOK, AgeTestStamps

\* when a test starts,
LEMMA DoSensorTestType ==
  ASSUME TestOK, NEW d \in Nat, doSensorTest(d)
  PROVE  TestOK'
<1>1. 0 \in 0 .. SENSOR_RECENT_TEST_THRESHOLD + 1
  BY ThresholdAssumption
<1> QED BY <1>1, TestAges DEF TestOK, doSensorTest

\* and the levels' stamps while time passes.
LEMMA AgeTankStampsType ==
  ASSUME TankOK, NEW d \in Nat, AgeTankStamps(d)
  PROVE  TankOK'
BY OlderType, ThresholdAssumption DEF TankOK, AgeTankStamps

-----------------------------------------------------------------------------
\* The evaluation of the levels

\* What trackSensorChanges makes of the three stamps.
LEMMA StampTypes ==
  ASSUME TankOK, NEW d \in Nat, NEW low \in Level, NEW high \in Level,
         NEW p \in Level
  PROVE  /\ LowStamp(d, low) \in Never .. SENSOR_STATE_CHANGE_THRESHOLD + 1
         /\ HighStamp(d, high)
              \in Never .. HIGH_SENSOR_STATE_CHANGE_THRESHOLD + 1
         /\ PumpStamp(d, p) \in Never .. PUMP_SENSOR_STATE_CHANGE_THRESHOLD + 1
<1>1. LowStamp(d, low) \in Never .. SENSOR_STATE_CHANGE_THRESHOLD + 1
  BY TrackedType, ThresholdAssumption DEF TankOK, LowStamp
<1>2. HighStamp(d, high) \in Never .. HIGH_SENSOR_STATE_CHANGE_THRESHOLD + 1
  BY TrackedType, ThresholdAssumption DEF TankOK, HighStamp
<1>3. PumpStamp(d, p) \in Never .. PUMP_SENSOR_STATE_CHANGE_THRESHOLD + 1
  BY TrackedType, ThresholdAssumption DEF TankOK, PumpStamp
<1> QED BY <1>1, <1>2, <1>3

\* An evaluation leaves levels, flags and stamps of their types.
LEMMA EvaluateType ==
  ASSUME TankOK, NEW d \in Nat, NEW low \in Level, NEW high \in Level,
         NEW p \in Level, evaluateTankState(d, low, high, p)
  PROVE  TankOK'
<1>1. tankState' \in [low : Level, high : Level, pump : Level]
  BY DEF TankOK, evaluateTankState, TankAfter
<1>2. TANK_FULL' \in BOOLEAN
  BY DEF evaluateTankState, trackTankFull
<1>3. lastTankFullDetect' \in Never .. TANK_FILLING_TIME_GAP + 1
  <2>1. Older(lastTankFullDetect, d, TANK_FILLING_TIME_GAP)
          \in Never .. TANK_FILLING_TIME_GAP + 1
    BY OlderType, ThresholdAssumption DEF TankOK
  <2>2. \/ lastTankFullDetect' = 0
        \/ lastTankFullDetect' = Never
        \/ lastTankFullDetect' = Older(lastTankFullDetect, d, TANK_FILLING_TIME_GAP)
    BY DEF evaluateTankState, trackTankFull
  <2> QED BY <2>1, <2>2, ThresholdAssumption
<1>4. lastOverflowCondition' \in Never .. OVERFLOW_STATE_THRESHOLD + 1
  <2>1. PICK b \in BOOLEAN :
          lastOverflowCondition'
            = Tracked(lastOverflowCondition, b, d, OVERFLOW_STATE_THRESHOLD)
    BY Zenon DEF evaluateTankState, trackOverFlow
  <2> QED BY <2>1, TrackedType, ThresholdAssumption DEF TankOK
<1> QED
  BY <1>1, <1>2, <1>3, <1>4, StampTypes DEF TankOK, evaluateTankState

-----------------------------------------------------------------------------
\* Type correctness, action by action

\* The values that Init and Boot assign.
LEMMA Zeroes ==
  /\ 0 \in 0 .. NOTICE_LIMIT
  /\ Never \in Never .. SENSOR_STATE_CHANGE_THRESHOLD + 1
  /\ Never \in Never .. HIGH_SENSOR_STATE_CHANGE_THRESHOLD + 1
  /\ Never \in Never .. PUMP_SENSOR_STATE_CHANGE_THRESHOLD + 1
  /\ Never \in Never .. OVERFLOW_STATE_THRESHOLD + 1
  /\ Never \in Never .. TANK_FILLING_TIME_GAP + 1
  /\ Never \in Never .. SENSOR_RECENT_TEST_THRESHOLD + 1
  /\ [low |-> 0, high |-> 0] \in [low : Level, high : Level]
  /\ [low |-> 0, high |-> 0, pump |-> 0]
       \in [low : Level, high : Level, pump : Level]
BY ThresholdAssumption, SizeAssumption

\* Init establishes the types.
LEMMA InitType == Init => TypeOK
<1> SUFFICES ASSUME Init PROVE TypeOK
  OBVIOUS
<1>1. uptime \in 0 .. ClockCap
  BY SizeAssumption, CapAssumption DEF Init, Min2
<1>2. /\ sensorTestTime \in 0 .. SENSOR_RECENT_TEST_THRESHOLD + 1
      /\ last_notify \in 0 .. CONSECUTIVE_NOTIFICATION_DELAY + 1
  BY <1>1, CapAssumption, ThresholdAssumption DEF Init, Min2
<1>3. ClockOK /\ NoticeOK /\ FlagsOK
  <2>1. ClockOK
    BY <1>1 DEF Init, ClockOK
  <2>2. queue = 0 /\ network \in BOOLEAN
    BY DEF Init
  <2>3. NoticeOK
    BY <1>2, <2>2, Zeroes DEF NoticeOK
  <2>4. FlagsOK
    BY DEF Init, FlagsOK
  <2> QED BY <2>1, <2>3, <2>4
<1>4. RelayOK
  <2>1. BootConf(uptime) \in SettingsType
    BY <1>1 DEF BootConf, SettingsType
  <2>2. Erased \in StoredType
    BY SizeAssumption DEF Erased, StoredType
  <2> QED BY <2>1, <2>2 DEF Init, RelayOK
<1>5. TankOK
  BY Zeroes DEF Init, TankOK
<1>6. TestOK
  <2>1. /\ sensorCheck = FALSE /\ sensorsInvert = FALSE
        /\ lastSensorTest = Never /\ health = 1
        /\ normal = [low |-> 0, high |-> 0]
    BY DEF Init
  <2> QED BY <1>2, <2>1, Zeroes DEF TestOK
<1> QED BY <1>3, <1>4, <1>5, <1>6 DEF TypeOK

\* So does a restart with any EEPROM content.
LEMMA BootType ==
  ASSUME NEW e \in StoredType, Boot(e)
  PROVE  TypeOK'
<1>1. uptime' \in 0 .. ClockCap
  BY SizeAssumption, CapAssumption DEF Boot, Min2
<1>2. /\ sensorTestTime' \in 0 .. SENSOR_RECENT_TEST_THRESHOLD + 1
      /\ last_notify' \in 0 .. CONSECUTIVE_NOTIFICATION_DELAY + 1
  BY <1>1, CapAssumption, ThresholdAssumption DEF Boot, Min2
<1>3. ClockOK' /\ NoticeOK' /\ FlagsOK'
  <2>1. ClockOK'
    BY <1>1 DEF Boot, ClockOK
  <2>2. queue' = 0 /\ network' \in BOOLEAN
    BY DEF Boot
  <2>3. NoticeOK'
    BY <1>2, <2>2, Zeroes DEF NoticeOK
  <2>4. FlagsOK'
    BY DEF Boot, FlagsOK
  <2> QED BY <2>1, <2>3, <2>4
<1>4. RelayOK'
  <2>1. BootConf(uptime') \in SettingsType
    BY <1>1 DEF BootConf, SettingsType
  <2> QED BY <2>1 DEF Boot, RelayOK
<1>5. TankOK'
  BY Zeroes DEF Boot, TankOK
<1>6. TestOK'
  <2>1. /\ sensorCheck' = FALSE /\ sensorsInvert' = FALSE
        /\ lastSensorTest' = Never /\ health' = 1
        /\ normal' = [low |-> 0, high |-> 0]
    BY DEF Boot
  <2> QED BY <1>2, <2>1, Zeroes DEF TestOK
<1> QED BY <1>3, <1>4, <1>5, <1>6 DEF TypeOK

\* A pass of the initial reads keeps the types.
LEMMA InitialReadPassType == TypeOK /\ InitialReadPass => TypeOK'
<1> SUFFICES ASSUME TypeOK, InitialReadPass PROVE TypeOK'
  OBVIOUS
<1>1. PICK d \in Elapsed, low \in Level, high \in Level :
        /\ AdvanceClock(d)
        /\ conf' = OlderConf(d)
        /\ tankState' = [low |-> low, high |-> high, pump |-> pump]
        /\ AgeTestStamps(d)
        /\ dispatchPendingNotification(d, 0, conf)
  BY DEF InitialReadPass
<1>2. d \in Nat
  BY SizeAssumption
<1>3. ClockOK' /\ TestOK'
  BY <1>1, <1>2, AdvanceClockType, AgeTestStampsType DEF TypeOK
<1>4. NoticeOK'
  BY <1>1, <1>2, DispatchType DEF TypeOK, InitialReadPass
<1>5. RelayOK'
  BY <1>1, <1>2, OlderConfType DEF TypeOK, RelayOK, InitialReadPass
<1>6. TankOK' /\ FlagsOK'
  BY <1>1 DEF TypeOK, RelayOK, TankOK, FlagsOK, InitialReadPass
<1> QED BY <1>3, <1>4, <1>5, <1>6 DEF TypeOK

\* So does the pass that initialises,
LEMMA InitialisePassType == TypeOK /\ InitialisePass => TypeOK'
<1> SUFFICES ASSUME TypeOK, InitialisePass PROVE TypeOK'
  OBVIOUS
<1>1. PICK d \in Elapsed, low \in Level, high \in Level :
        /\ AdvanceClock(d)
        /\ inited' = TRUE
        /\ conf' = InitialConf(Clock(d))
        /\ writeSettings(conf')
        /\ tankState' = [low |-> low, high |-> high, pump |-> pump]
        /\ doSensorTest(d)
        /\ dispatchPendingNotification(d, 1, conf')
  BY DEF InitialisePass
<1>2. d \in Nat
  BY SizeAssumption
<1>3. ClockOK' /\ TestOK'
  BY <1>1, <1>2, AdvanceClockType, DoSensorTestType DEF TypeOK
<1>4. NoticeOK'
  BY <1>1, <1>2, DispatchType DEF TypeOK, InitialisePass
<1>5. conf' \in SettingsType
  BY <1>1, <1>2, LoadedType, ClockType DEF TypeOK, RelayOK, ClockOK
<1>6. RelayOK'
  BY <1>1, <1>5, WrittenType DEF TypeOK, RelayOK, InitialisePass, writeSettings
<1>7. TankOK' /\ FlagsOK'
  BY <1>1 DEF TypeOK, RelayOK, TankOK, FlagsOK, InitialisePass
<1> QED BY <1>3, <1>4, <1>6, <1>7 DEF TypeOK

\* what every pass of a sensor test shares,
LEMMA TestFrameType ==
  ASSUME TypeOK, NEW d \in Elapsed, TestPassFrame(d), BEEPING' \in BOOLEAN
  PROVE  ClockOK' /\ RelayOK' /\ TankOK' /\ FlagsOK' /\ UNCHANGED network
<1>1. d \in Nat
  BY SizeAssumption
<1>2. ClockOK' /\ TankOK'
  BY <1>1, AdvanceClockType, AgeTankStampsType DEF TypeOK, TestPassFrame
<1>3. RelayOK'
  BY <1>1, OlderConfType DEF TypeOK, RelayOK, TestPassFrame
<1> QED BY <1>2, <1>3 DEF TypeOK, FlagsOK, TestPassFrame

\* a pass of the test's first phase,
LEMMA TestNormalPassType == TypeOK /\ TestNormalPass => TypeOK'
<1> SUFFICES ASSUME TypeOK, NEW d \in Elapsed, NEW low \in Level,
                    NEW high \in Level,
                    TestPassFrame(d),
                    normal' = [low |-> low, high |-> high],
                    sensorCheck' = TRUE,
                    sensorsInvert' = (TestTimeAge(d) > minSensorTestReadtime),
                    sensorTestTime' = IF sensorsInvert' THEN 0 ELSE TestTimeAge(d),
                    lastSensorTest' = SensorTestAge(d),
                    dispatchPendingNotification(d, 0, conf),
                    UNCHANGED <<health, BEEPING>>
             PROVE  TypeOK'
  BY DEF TestNormalPass
<1>1. d \in Nat
  BY SizeAssumption
<1>2. ClockOK' /\ RelayOK' /\ TankOK' /\ FlagsOK' /\ UNCHANGED network
  <2>1. BEEPING' \in BOOLEAN
    BY DEF TypeOK, FlagsOK
  <2> QED BY <2>1, TestFrameType
<1>3. NoticeOK'
  BY <1>1, <1>2, DispatchType DEF TypeOK
<1>4. TestOK'
  <2>1. 0 \in 0 .. SENSOR_RECENT_TEST_THRESHOLD + 1
    BY ThresholdAssumption
  <2>2. sensorTestTime' \in 0 .. SENSOR_RECENT_TEST_THRESHOLD + 1
    BY <1>1, <2>1, TestAges DEF TypeOK
  <2>3. lastSensorTest' \in Never .. SENSOR_RECENT_TEST_THRESHOLD + 1
    BY <1>1, TestAges DEF TypeOK
  <2>4. sensorsInvert' \in BOOLEAN /\ sensorCheck' \in BOOLEAN
    OBVIOUS
  <2>5. normal' \in [low : Level, high : Level] /\ health' \in Level
    BY DEF TypeOK, TestOK
  <2> QED BY <2>2, <2>3, <2>4, <2>5 DEF TestOK
<1> QED BY <1>2, <1>3, <1>4 DEF TypeOK

\* of its second phase,
LEMMA TestInvertPassType == TypeOK /\ TestInvertPass => TypeOK'
<1> SUFFICES ASSUME TypeOK, NEW d \in Elapsed, TestPassFrame(d),
                    AgeTestStamps(d), dispatchPendingNotification(d, 0, conf),
                    UNCHANGED BEEPING
             PROVE  TypeOK'
  BY DEF TestInvertPass
<1>1. d \in Nat
  BY SizeAssumption
<1>2. ClockOK' /\ RelayOK' /\ TankOK' /\ FlagsOK' /\ UNCHANGED network
  <2>1. BEEPING' \in BOOLEAN
    BY DEF TypeOK, FlagsOK
  <2> QED BY <2>1, TestFrameType
<1>3. NoticeOK' /\ TestOK'
  BY <1>1, <1>2, DispatchType, AgeTestStampsType DEF TypeOK
<1> QED BY <1>2, <1>3 DEF TypeOK

\* and the pass that ends it.
LEMMA TestEndPassType == TypeOK /\ TestEndPass => TypeOK'
<1> SUFFICES ASSUME TypeOK, TestEndPass PROVE TypeOK'
  OBVIOUS
<1>1. PICK d \in Elapsed, low \in Level, high \in Level :
        LET passed == normal.low # low /\ normal.high # high IN
        /\ TestPassFrame(d)
        /\ sensorCheck' = FALSE
        /\ sensorsInvert' = FALSE
        /\ sensorTestTime' = 0
        /\ lastSensorTest' = TestRecord(d)
        /\ normal' = [low |-> 0, high |-> 0]
        /\ health' = IF passed THEN 1 ELSE 0
        /\ BEEPING' = (BEEPING \/ ~passed)
        /\ dispatchPendingNotification(d, IF passed THEN 0 ELSE 1, conf)
  BY DEF TestEndPass
<1>2. d \in Nat
  BY SizeAssumption
<1>3. ClockOK' /\ RelayOK' /\ TankOK' /\ FlagsOK' /\ UNCHANGED network
  <2>1. BEEPING' \in BOOLEAN
    BY <1>1
  <2> QED BY <1>1, <2>1, TestFrameType
<1>4. NoticeOK'
  <2> DEFINE n == IF normal.low # low /\ normal.high # high THEN 0 ELSE 1
  <2>1. n \in Nat
    OBVIOUS
  <2>2. dispatchPendingNotification(d, n, conf)
    BY <1>1
  <2> HIDE DEF n
  <2> QED BY <1>2, <1>3, <2>1, <2>2, DispatchType DEF TypeOK
<1>5. TestOK'
  <2>1. TestRecord(d) \in Never .. SENSOR_RECENT_TEST_THRESHOLD + 1
    BY ThresholdAssumption DEF TestRecord
  <2>2. sensorTestTime' \in 0 .. SENSOR_RECENT_TEST_THRESHOLD + 1
    BY <1>1, ThresholdAssumption
  <2>3. /\ normal' \in [low : Level, high : Level] /\ health' \in Level
        /\ lastSensorTest' = TestRecord(d)
        /\ sensorCheck' \in BOOLEAN /\ sensorsInvert' \in BOOLEAN
    BY <1>1, Zeroes
  <2> QED BY <2>1, <2>2, <2>3 DEF TestOK
<1> QED BY <1>3, <1>4, <1>5 DEF TypeOK

\* What takeActions leaves, whichever of its branches is taken.
LEMMA TakeActionsType ==
  ASSUME TestOK, NoticeOK, NEW d \in Nat, NEW c \in SettingsType,
         NEW p \in Level, NEW error \in BOOLEAN, takeActions(d, c, p, error),
         UNCHANGED network
  PROVE  /\ conf' \in SettingsType /\ pump' \in Level /\ BEEPING' \in BOOLEAN
         /\ TestOK' /\ NoticeOK'
<1> DEFINE Stopped == /\ conf' = ConfAfterStop(c)
                      /\ pump' = PumpAfterStop(c, p)
                      /\ AgeTestStamps(d)
                      /\ dispatchPendingNotification(d, StateNotices, c)
           Ran == /\ conf' = ConfAfterRun(c)
                  /\ pump' = PumpAfterRun(c, p)
                  /\ AgeTestStamps(d)
                  /\ dispatchPendingNotification(
                       d, StateNotices + RunNotices(c), c)
           Tested == /\ conf' = c /\ pump' = p
                     /\ doSensorTest(d)
                     /\ dispatchPendingNotification(d, StateNotices, c)
           Idle == /\ conf' = c /\ pump' = p
                   /\ AgeTestStamps(d)
                   /\ dispatchPendingNotification(d, StateNotices, c)
<1>1. BEEPING' = error /\ (Stopped \/ Ran \/ Tested \/ Idle)
  BY DEF takeActions
<1>2. StateNotices \in Nat /\ StateNotices + RunNotices(c) \in Nat
  BY DEF StateNotices, RunNotices
<1>3. CASE Stopped
  <2>1. TestOK' /\ NoticeOK'
    BY <1>2, <1>3, AgeTestStampsType, DispatchType
  <2> QED BY <1>1, <1>3, <2>1, ConfAfterType, PumpAfterType
<1>4. CASE Ran
  <2>1. TestOK' /\ NoticeOK'
    <3> DEFINE n == StateNotices + RunNotices(c)
    <3>1. n \in Nat /\ dispatchPendingNotification(d, n, c)
      BY <1>2, <1>4
    <3> HIDE DEF n
    <3> QED BY <1>4, <3>1, AgeTestStampsType, DispatchType
  <2> QED BY <1>1, <1>4, <2>1, ConfAfterType, PumpAfterType
<1>5. CASE Tested
  BY <1>1, <1>2, <1>5, DoSensorTestType, DispatchType
<1>6. CASE Idle
  BY <1>1, <1>2, <1>6, AgeTestStampsType, DispatchType
<1> QED BY <1>1, <1>3, <1>4, <1>5, <1>6

\* The settings and the pump once the safe-guard has acted.
LEMMA GuardType ==
  ASSUME RelayOK, NEW d \in Nat
  PROVE  ConfAfterGuard(d) \in SettingsType /\ PumpAfterGuard(d) \in Level
<1>1. OlderConf(d) \in SettingsType
  BY OlderConfType DEF RelayOK
<1>2. ConfAfterGuard(d) \in SettingsType
  BY <1>1, ConfAfterType DEF ConfAfterGuard
<1>3. PumpAfterGuard(d) \in Level
  BY PumpAfterType DEF RelayOK, PumpAfterGuard
<1> QED BY <1>2, <1>3

\* A control pass keeps the types.
LEMMA ControlPassType == TypeOK /\ ControlPass => TypeOK'
<1> SUFFICES ASSUME TypeOK, ControlPass PROVE TypeOK'
  OBVIOUS
<1>1. PICK d \in Elapsed, low \in Level, high \in Level :
        LET p == PumpAfterGuard(d) IN
        /\ AdvanceClock(d)
        /\ SAFE_TO_RUN_PUMP' = ~RecentlyFull(d)
        /\ evaluateTankState(d, low, high, p)
        /\ takeActions(d, ConfAfterGuard(d), p, LevelError(d, low, high, p))
  BY DEF ControlPass
<1>2. d \in Nat /\ UNCHANGED <<inited, ee, network>>
  BY SizeAssumption DEF ControlPass
<1> DEFINE c == ConfAfterGuard(d)
           p == PumpAfterGuard(d)
           error == LevelError(d, low, high, p)
<1>3. c \in SettingsType /\ p \in Level
  BY <1>2, GuardType DEF TypeOK
<1>4. error \in BOOLEAN
  BY DEF LevelError, LowError, hasLowChanged, hasHighChanged
<1>5. evaluateTankState(d, low, high, p) /\ takeActions(d, c, p, error)
  BY <1>1
<1> HIDE DEF c, p, error
<1>6. TankOK'
  BY <1>2, <1>3, <1>5, EvaluateType DEF TypeOK
<1>7. /\ conf' \in SettingsType /\ pump' \in Level /\ BEEPING' \in BOOLEAN
      /\ TestOK' /\ NoticeOK'
  BY <1>2, <1>3, <1>4, <1>5, TakeActionsType DEF TypeOK
<1>8. RelayOK'
  BY <1>2, <1>7 DEF TypeOK, RelayOK
<1>9. ClockOK'
  BY <1>1, <1>2, AdvanceClockType DEF TypeOK
<1>10. FlagsOK'
  BY <1>1, <1>2, <1>7 DEF TypeOK, FlagsOK
<1> QED BY <1>6, <1>7, <1>8, <1>9, <1>10 DEF TypeOK

\* So do both kinds of restart,
LEMMA RestartType == TypeOK /\ (ResetPass \/ PowerCycle) => TypeOK'
<1>1. Erased \in StoredType
  BY SizeAssumption DEF Erased, StoredType
<1>2. TypeOK => ee \in StoredType
  BY DEF TypeOK, RelayOK
<1> QED BY <1>1, <1>2, BootType DEF ResetPass, PowerCycle

\* a pass after a failed test,
LEMMA UnhealthyPassType == TypeOK /\ UnhealthyPass => TypeOK'
<1> SUFFICES ASSUME TypeOK, UnhealthyPass PROVE TypeOK'
  OBVIOUS
<1>1. PICK d \in Elapsed :
        /\ AdvanceClock(d)
        /\ conf' = OlderConf(d)
        /\ AgeTankStamps(d)
        /\ AgeTestStamps(d)
        /\ dispatchPendingNotification(d, 0, conf)
  BY DEF UnhealthyPass
<1>2. /\ d \in Nat
      /\ UNCHANGED <<inited, ee, pump, SAFE_TO_RUN_PUMP, BEEPING, network>>
  BY SizeAssumption DEF UnhealthyPass
<1>3. ClockOK' /\ TankOK' /\ TestOK' /\ NoticeOK'
  BY <1>1, <1>2, AdvanceClockType, AgeTankStampsType, AgeTestStampsType,
     DispatchType DEF TypeOK
<1>4. RelayOK' /\ FlagsOK'
  BY <1>1, <1>2, OlderConfType DEF TypeOK, RelayOK, FlagsOK
<1> QED BY <1>3, <1>4 DEF TypeOK

\* A handler only has to leave the settings, the pump and the queue typed.
LEMMA ServesType ==
  ASSUME TypeOK, NEW e \in Endpoints, Serves(e), RelayOK',
         queue' \in 0 .. NOTICE_LIMIT
  PROVE  TypeOK'
<1> USE DEF Serves, clockVars, tankVars, testVars
<1>1. ClockOK' /\ FlagsOK'
  BY DEF TypeOK, ClockOK, FlagsOK
<1>2. TankOK'
  BY DEF TypeOK, TankOK
<1>3. TestOK'
  BY DEF TypeOK, TestOK
<1>4. NoticeOK'
  BY DEF TypeOK, NoticeOK
<1> QED BY <1>1, <1>2, <1>3, <1>4 DEF TypeOK

\* The three handlers that switch the pump.
LEMMA SwitchType ==
  ASSUME TypeOK, switchAOn \/ switchAOff \/ toggleSwitch
  PROVE  TypeOK'
<1>1. PICK e \in Endpoints : Serves(e)
  BY DEF switchAOn, switchAOff, toggleSwitch, Serves
<1>2. UNCHANGED ee /\ (Run \/ Stop \/ UNCHANGED <<conf, pump, queue>>)
  BY DEF switchAOn, switchAOff, toggleSwitch
<1>3. queue' \in 0 .. NOTICE_LIMIT /\ RelayOK'
  <2>1. CASE Run
    <3>1. RunNotices(conf) \in Nat
      BY DEF RunNotices
    <3>2. queue' \in 0 .. NOTICE_LIMIT
      BY <2>1, <3>1, EnqueuedType DEF TypeOK, NoticeOK, Run
    <3> QED BY <1>2, <2>1, <3>2, ConfAfterType, PumpAfterType
            DEF TypeOK, RelayOK, Run
  <2>2. CASE Stop
    BY <1>2, <2>2, ConfAfterType, PumpAfterType
       DEF TypeOK, RelayOK, NoticeOK, Stop
  <2>3. CASE UNCHANGED <<conf, pump, queue>>
    BY <1>2, <2>3 DEF TypeOK, RelayOK, NoticeOK
  <2> QED BY <1>2, <2>1, <2>2, <2>3
<1> QED BY <1>1, <1>3, ServesType

\* The handlers that load, change or save the settings.
LEMMA SettingsHandlersType ==
  ASSUME TypeOK,
         \/ getSwitchRuntime \/ getNotify \/ getNotifyURL
         \/ setSwitchRuntime \/ setNotify \/ setNotifyURL \/ handleReset
  PROVE  TypeOK'
<1>1. PICK e \in Endpoints : Serves(e)
  BY DEF getSwitchRuntime, getNotify, getNotifyURL, setSwitchRuntime,
         setNotify, setNotifyURL, handleReset, Serves
<1>2. UNCHANGED <<pump, queue>>
  BY DEF getSwitchRuntime, getNotify, getNotifyURL, setSwitchRuntime,
         setNotify, setNotifyURL, handleReset, readSettings
<1>3. conf' \in SettingsType
  <2>1. Loaded(uptime) \in SettingsType
    BY LoadedType DEF TypeOK, RelayOK, ClockOK
  <2>2. \A r \in Runtimes : [conf EXCEPT !.runtime = r] \in SettingsType
    BY SizeAssumption DEF TypeOK, RelayOK, SettingsType
  <2>3. /\ [conf EXCEPT !.reset = 1] \in SettingsType
        /\ \A n \in {0, 1} : [conf EXCEPT !.notify = n] \in SettingsType
    BY DEF TypeOK, RelayOK, SettingsType
  <2> QED BY <2>1, <2>2, <2>3
          DEF TypeOK, RelayOK, getSwitchRuntime, getNotify, getNotifyURL,
              setSwitchRuntime, setNotify, setNotifyURL, handleReset,
              readSettings
<1>4. ee' \in StoredType
  <2>1. ee' = ee \/ \E c \in {conf, conf'} : writeSettings(c)
    BY DEF getSwitchRuntime, getNotify, getNotifyURL, setSwitchRuntime,
           setNotify, setNotifyURL, handleReset, readSettings
  <2>2. CASE ee' = ee
    BY <2>2 DEF TypeOK, RelayOK
  <2>3. CASE \E c \in {conf, conf'} : writeSettings(c)
    BY <1>3, <2>3, WrittenType DEF TypeOK, RelayOK, writeSettings
  <2> QED BY <2>1, <2>2, <2>3
<1>5. RelayOK' /\ queue' \in 0 .. NOTICE_LIMIT
  BY <1>2, <1>3, <1>4 DEF TypeOK, RelayOK, NoticeOK
<1> QED BY <1>1, <1>5, ServesType

\* a WiFi event,
LEMMA WiFiEventType == TypeOK /\ WiFiEvent => TypeOK'
<1> SUFFICES ASSUME TypeOK, WiFiEvent PROVE TypeOK'
  OBVIOUS
<1> USE DEF WiFiEvent, clockVars, tankVars, testVars
<1>1. ClockOK' /\ FlagsOK' /\ RelayOK'
  BY DEF TypeOK, ClockOK, FlagsOK, RelayOK
<1>2. TankOK'
  BY DEF TypeOK, TankOK
<1>3. TestOK'
  BY DEF TypeOK, TestOK
<1>4. NoticeOK'
  BY DEF TypeOK, NoticeOK
<1> QED BY <1>1, <1>2, <1>3, <1>4 DEF TypeOK

\* and a step that changes nothing.
LEMMA StutterType == TypeOK /\ UNCHANGED vars => TypeOK'
<1> SUFFICES ASSUME TypeOK, UNCHANGED vars PROVE TypeOK'
  OBVIOUS
<1> USE DEF vars, clockVars, tankVars, testVars, noticeVars
<1>1. ClockOK' /\ FlagsOK' /\ RelayOK'
  BY DEF TypeOK, ClockOK, FlagsOK, RelayOK
<1>2. TankOK'
  BY DEF TypeOK, TankOK
<1>3. TestOK' /\ NoticeOK'
  BY DEF TypeOK, TestOK, NoticeOK
<1> QED BY <1>1, <1>2, <1>3 DEF TypeOK

\* Every variable keeps its type: the ages stay below their caps, the queue
\* within NOTICE_LIMIT, and what is stored fits the cells of the EEPROM.
THEOREM TypeCorrect == Spec => []TypeOK
<1>1. TypeOK /\ [Next]_vars => TypeOK'
  <2> SUFFICES ASSUME TypeOK, [Next]_vars PROVE TypeOK'
    OBVIOUS
  <2>1. CASE CoreTask
    BY <2>1, InitialReadPassType, InitialisePassType, TestNormalPassType,
       TestInvertPassType, TestEndPassType, ControlPassType, RestartType,
       UnhealthyPassType DEF CoreTask
  <2>2. CASE Handlers
    BY <2>2, SwitchType, SettingsHandlersType DEF Handlers
  <2>3. CASE WiFiEvent \/ PowerCycle
    BY <2>3, WiFiEventType, RestartType
  <2>4. CASE UNCHANGED vars
    BY <2>4, StutterType
  <2> QED BY <2>1, <2>2, <2>3, <2>4 DEF Next
<1> QED BY <1>1, InitType, PTL DEF Spec
=============================================================================
