--------------------------- MODULE AquaController ---------------------------
(***************************************************************************)
(* The drinking-water storage controller (AQUA-001, an ESP8266 sketch):    *)
(* two level sensors, one relay that runs the pump, a periodic core task,  *)
(* an HTTP server whose handlers run between two passes of that task, and  *)
(* settings kept both in RAM (conf) and in EEPROM.                         *)
(*                                                                         *)
(* Time advances with the passes of the core task.  A variable that holds  *)
(* millis() in the code holds here its AGE: the ticks elapsed since it was *)
(* assigned, which saturates just past the largest threshold it is         *)
(* compared with; Never stands for the code's 0.  So millis() - x > T is   *)
(* x > T, and x > 0 && millis() - x > T is also x > T, as Never < 0 <= T.  *)
(***************************************************************************)
EXTENDS Integers

CONSTANTS
  CONSECUTIVE_PUMP_RUN_DELAY,         \* thresholds of the sketch, in ticks
  SENSOR_RECENT_TEST_THRESHOLD,
  CONSECUTIVE_NOTIFICATION_DELAY,
  SENSOR_STATE_CHANGE_THRESHOLD,
  HIGH_SENSOR_STATE_CHANGE_THRESHOLD,
  PUMP_SENSOR_STATE_CHANGE_THRESHOLD,
  OVERFLOW_STATE_THRESHOLD,
  minInitialSensorReadTime,
  minSensorTestReadtime,
  TANK_FILLING_TIME_GAP,
  DEFAULT_RUNTIME,
  NOTICE_LIMIT,    \* most notices in the queue
  ByteRange,       \* values one EEPROM cell can hold (256)
  Runtimes,        \* runtimes clients ask for
  Endpoints,       \* the HTTP endpoints clients use
  Elapsed,         \* ticks that may pass between two passes of the core task
  SetupTimes,      \* how long setup() may take
  ClockCap,        \* where uptime and the relay's ages saturate
  LongUptime       \* whether millis() may pass 2^31 (after 24.8 days)

Reloading == {"getRuntime", "getNotify", "getNotifyURL"}
AllEndpoints == Reloading \cup {"reset", "toggle", "on", "off", "setRuntime",
                                "setNotify", "setNotifyURL"}

ASSUME ThresholdAssumption ==
  /\ CONSECUTIVE_PUMP_RUN_DELAY \in Nat
  /\ SENSOR_RECENT_TEST_THRESHOLD \in Nat
  /\ CONSECUTIVE_NOTIFICATION_DELAY \in Nat
  /\ SENSOR_STATE_CHANGE_THRESHOLD \in Nat
  /\ HIGH_SENSOR_STATE_CHANGE_THRESHOLD \in Nat
  /\ PUMP_SENSOR_STATE_CHANGE_THRESHOLD \in Nat
  /\ OVERFLOW_STATE_THRESHOLD \in Nat
  /\ minInitialSensorReadTime \in Nat
  /\ minSensorTestReadtime \in Nat
  /\ TANK_FILLING_TIME_GAP \in Nat

ASSUME SizeAssumption ==
  /\ DEFAULT_RUNTIME \in Nat \ {0}
  /\ NOTICE_LIMIT \in Nat
  /\ ByteRange \in Nat \ {0}
  /\ DEFAULT_RUNTIME < ByteRange
  /\ Runtimes \subseteq Nat
  /\ Endpoints \subseteq AllEndpoints
  /\ Elapsed \subseteq Nat \ {0}
  /\ SetupTimes \subseteq Nat
  /\ LongUptime \in BOOLEAN

\* The initial reads (10 s) end before a pump run is allowed (15 s after
\* boot), and a recent test (60 s) outlasts a test phase (10 s).
ASSUME OrderAssumption ==
  /\ minInitialSensorReadTime <= CONSECUTIVE_PUMP_RUN_DELAY
  /\ minSensorTestReadtime <= SENSOR_RECENT_TEST_THRESHOLD

\* The saturated ages are past every threshold they are compared with.
ASSUME CapAssumption ==
  /\ ClockCap \in Nat
  /\ ByteRange <= ClockCap
  /\ CONSECUTIVE_PUMP_RUN_DELAY < ClockCap
  /\ \A r \in Runtimes : r < ClockCap

VARIABLES
  uptime,              \* millis(), saturated at ClockCap
  signBit,             \* the top bit of millis()
  inited,
  conf,                \* the settings in RAM
  ee,                  \* the settings in EEPROM
  pump,                \* the pump flag, and the RELAY_SWITCH pin it follows
  tankState,           \* the debounced low, high and pump states
  lastLowChange, lastHighChange, lastPumpChange, lastOverflowCondition,
  TANK_FULL, lastTankFullDetect, SAFE_TO_RUN_PUMP,
  sensorCheck, sensorsInvert, sensorTestTime, lastSensorTest,
  normal,              \* normalLow and normalHigh, the test's first readings
  health,
  BEEPING,
  queue,               \* number of notices waiting
  last_notify,
  network

clockVars  == <<uptime, signBit>>
tankVars   == <<tankState, lastLowChange, lastHighChange, lastPumpChange,
                lastOverflowCondition, TANK_FULL, lastTankFullDetect>>
testVars   == <<sensorCheck, sensorsInvert, sensorTestTime, lastSensorTest,
                normal, health>>
noticeVars == <<queue, last_notify, network>>
vars == <<clockVars, inited, conf, ee, pump, tankVars, SAFE_TO_RUN_PUMP,
          testVars, BEEPING, noticeVars>>

Level == {0, 1}
Never == -1

Min2(a, b) == IF a < b THEN a ELSE b

\* The age of a stamp d ticks later, as far as threshold t can tell.
Older(age, d, t) == IF age = Never THEN Never ELSE Min2(age + d, t + 1)

\* millis() now, and the uptime-long age of a stamp taken at boot.
Clock(d) == Min2(uptime + d, ClockCap)

-----------------------------------------------------------------------------
\* Settings

\* An erased EEPROM: every cell is 0, the timestamp too.
Erased == [relay |-> 0, runtime |-> 0, reset |-> 0, notify |-> 0,
           stamped |-> FALSE]

\* EEPROM.write stores one byte of each field; relay_start comes back as a stamp
\* of the first 255 ms after boot, so it is not kept.  relay_stop is written and
\* loaded beside it, but nothing reads it: it is left out of conf too.
\* The low byte of the timestamp is zero once in 256 writes.
Written(c, stamped) ==
  [relay |-> c.relay, runtime |-> c.runtime % ByteRange, reset |-> c.reset,
   notify |-> c.notify, stamped |-> stamped]

writeSettings(c) == \E stamped \in BOOLEAN : ee' = Written(c, stamped)

\* The settings as readSettings leaves them in conf, when millis() is now.
Loaded(now) ==
  [relay |-> ee.relay, runtime |-> ee.runtime, start |-> now,
   reset |-> ee.reset, notify |-> ee.notify]

Defaults(now) ==
  [relay |-> 0, runtime |-> DEFAULT_RUNTIME, start |-> now,
   reset |-> 0, notify |-> 1]

InitialConf(now) == IF ee.stamped THEN Loaded(now) ELSE Defaults(now)

OlderConf(d) == [conf EXCEPT !.start = Min2(@ + d, ClockCap)]

-----------------------------------------------------------------------------
\* The pump

MayRun(c) == c.relay = 0 /\ c.start > CONSECUTIVE_PUMP_RUN_DELAY
switchOnRelay(c)  == [c EXCEPT !.relay = 1, !.start = 0]
\* mutants: the record is not updated; a pending reset is forgotten
BadSwitchOffRelay(c) == c
RewritingSwitchOffRelay(c) == [c EXCEPT !.relay = 0, !.reset = 0]
switchOffRelay(c) == [c EXCEPT !.relay = 0]

\* stopPump does nothing unless conf says that the relay is on.
ConfAfterStop(c) == IF c.relay = 1 THEN switchOffRelay(c) ELSE c
BadPumpAfterStop(c, p) == p      \* mutant: the pump flag is not cleared
PumpAfterStop(c, p) == IF c.relay = 1 THEN 0 ELSE p

\* runPump switches the relay on or queues a notice that refuses.
ConfAfterRun(c) == IF MayRun(c) THEN switchOnRelay(c) ELSE c
PumpAfterRun(c, p) == IF MayRun(c) THEN 1 ELSE p
RunNotices(c) == IF MayRun(c) THEN 0 ELSE 1

-----------------------------------------------------------------------------
\* Notices

\* mutant: the limit is not looked at
BadEnqueued(n) == IF network THEN queue + n ELSE queue

\* The queue once n notices were handed to enqueueNotification.
Enqueued(n) == IF network THEN Min2(queue + n, NOTICE_LIMIT) ELSE queue

\* The end of a pass: n notices were queued in it and conf is c by now.  Due
\* notices leave one at a time; without WiFi the head stays queued.
dispatchPendingNotification(d, n, c) ==
  LET age == Older(last_notify, d, CONSECUTIVE_NOTIFICATION_DELAY)
      q   == Enqueued(n)
  IN  IF age > CONSECUTIVE_NOTIFICATION_DELAY /\ c.notify = 1 /\ q > 0
        THEN last_notify' = 0 /\ queue' \in {q - 1, q}
        ELSE last_notify' = age /\ queue' = q

-----------------------------------------------------------------------------
\* Boot

BootConf(now) == [relay |-> 0, runtime |-> 0, start |-> now,
                  reset |-> 0, notify |-> 1]

Init ==
  /\ ee = Erased
  /\ uptime \in {Min2(t, ClockCap) : t \in SetupTimes}
  /\ signBit = FALSE
  /\ inited = FALSE
  /\ conf = BootConf(uptime)
  /\ pump = 0
  /\ tankState = [low |-> 0, high |-> 0, pump |-> 0]
  /\ lastLowChange = Never /\ lastHighChange = Never /\ lastPumpChange = Never
  /\ lastOverflowCondition = Never
  /\ TANK_FULL = FALSE /\ lastTankFullDetect = Never
  /\ SAFE_TO_RUN_PUMP = FALSE
  /\ sensorCheck = FALSE /\ sensorsInvert = FALSE
  /\ sensorTestTime = Min2(uptime, SENSOR_RECENT_TEST_THRESHOLD + 1)
  /\ lastSensorTest = Never
  /\ normal = [low |-> 0, high |-> 0]
  /\ health = 1
  /\ BEEPING = FALSE
  /\ queue = 0
  /\ last_notify = Min2(uptime, CONSECUTIVE_NOTIFICATION_DELAY + 1)
  /\ network \in BOOLEAN

\* The sketch starts again with this EEPROM: RAM is lost, setup() runs.
Boot(eeprom) ==
  /\ ee' = eeprom
  /\ uptime' \in {Min2(t, ClockCap) : t \in SetupTimes}
  /\ signBit' = FALSE
  /\ inited' = FALSE
  /\ conf' = BootConf(uptime')
  /\ pump' = 0
  /\ tankState' = [low |-> 0, high |-> 0, pump |-> 0]
  /\ lastLowChange' = Never /\ lastHighChange' = Never /\ lastPumpChange' = Never
  /\ lastOverflowCondition' = Never
  /\ TANK_FULL' = FALSE /\ lastTankFullDetect' = Never
  /\ SAFE_TO_RUN_PUMP' = FALSE
  /\ sensorCheck' = FALSE /\ sensorsInvert' = FALSE
  /\ sensorTestTime' = Min2(uptime', SENSOR_RECENT_TEST_THRESHOLD + 1)
  /\ lastSensorTest' = Never
  /\ normal' = [low |-> 0, high |-> 0]
  /\ health' = 1
  /\ BEEPING' = FALSE
  /\ queue' = 0
  /\ last_notify' = Min2(uptime', CONSECUTIVE_NOTIFICATION_DELAY + 1)
  /\ network' \in BOOLEAN

PowerCycle == Boot(ee)

-----------------------------------------------------------------------------
\* Time: d ticks pass, then the core task runs once.

AdvanceClock(d) ==
  /\ uptime' = Clock(d)
  /\ signBit' \in IF LongUptime THEN BOOLEAN ELSE {FALSE}

AgeTankStamps(d) ==
  /\ lastLowChange' = Older(lastLowChange, d, SENSOR_STATE_CHANGE_THRESHOLD)
  /\ lastHighChange' =
       Older(lastHighChange, d, HIGH_SENSOR_STATE_CHANGE_THRESHOLD)
  /\ lastPumpChange' =
       Older(lastPumpChange, d, PUMP_SENSOR_STATE_CHANGE_THRESHOLD)
  /\ lastOverflowCondition' =
       Older(lastOverflowCondition, d, OVERFLOW_STATE_THRESHOLD)
  /\ lastTankFullDetect' = Older(lastTankFullDetect, d, TANK_FILLING_TIME_GAP)
  /\ UNCHANGED <<tankState, TANK_FULL>>

TestTimeAge(d)   == Older(sensorTestTime, d, SENSOR_RECENT_TEST_THRESHOLD)
SensorTestAge(d) == Older(lastSensorTest, d, SENSOR_RECENT_TEST_THRESHOLD)

AgeTestStamps(d) ==
  /\ sensorTestTime' = TestTimeAge(d)
  /\ lastSensorTest' = SensorTestAge(d)
  /\ UNCHANGED <<sensorCheck, sensorsInvert, normal, health>>

doSensorTest(d) ==
  /\ sensorCheck' = TRUE
  /\ sensorTestTime' = 0
  /\ sensorsInvert' = FALSE
  /\ lastSensorTest' = SensorTestAge(d)
  /\ UNCHANGED <<normal, health>>

-----------------------------------------------------------------------------
\* Passes of the core task before the sketch is inited

\* The sensors are read for minInitialSensorReadTime.
InitialReadPass ==
  /\ ~inited
  /\ \E d \in Elapsed, low, high \in Level :
       /\ Clock(d) <= minInitialSensorReadTime
       /\ AdvanceClock(d)
       /\ conf' = OlderConf(d)
       /\ tankState' = [low |-> low, high |-> high, pump |-> pump]
       /\ AgeTestStamps(d)
       /\ dispatchPendingNotification(d, 0, conf)
  /\ UNCHANGED <<inited, ee, pump, lastLowChange, lastHighChange,
                 lastPumpChange, lastOverflowCondition, TANK_FULL,
                 lastTankFullDetect, SAFE_TO_RUN_PUMP, BEEPING, network>>

\* The last of those reads: load the settings, save them, start a sensor test.
InitialisePass ==
  /\ ~inited
  /\ \E d \in Elapsed, low, high \in Level :
       /\ Clock(d) > minInitialSensorReadTime
       /\ AdvanceClock(d)
       /\ inited' = TRUE
       /\ conf' = InitialConf(Clock(d))
       /\ writeSettings(conf')
       /\ tankState' = [low |-> low, high |-> high, pump |-> pump]
       /\ doSensorTest(d)
       /\ dispatchPendingNotification(d, 1, conf')
  /\ UNCHANGED <<pump, lastLowChange, lastHighChange, lastPumpChange,
                 lastOverflowCondition, TANK_FULL, lastTankFullDetect,
                 SAFE_TO_RUN_PUMP, BEEPING, network>>

-----------------------------------------------------------------------------
\* Passes of the core task during a sensor test

\* What every pass of a test leaves alone or only ages.
TestPassFrame(d) ==
  /\ inited /\ sensorCheck
  /\ AdvanceClock(d)
  /\ AgeTankStamps(d)
  /\ conf' = OlderConf(d)
  /\ UNCHANGED <<inited, ee, pump, SAFE_TO_RUN_PUMP, network>>

\* First phase: keep the last readings, then invert the level lines.
TestNormalPass ==
  \E d \in Elapsed, low, high \in Level :
    /\ ~sensorsInvert
    /\ TestPassFrame(d)
    /\ normal' = [low |-> low, high |-> high]
    /\ sensorCheck' = TRUE
    /\ sensorsInvert' = (TestTimeAge(d) > minSensorTestReadtime)
    /\ sensorTestTime' = IF sensorsInvert' THEN 0 ELSE TestTimeAge(d)
    /\ lastSensorTest' = SensorTestAge(d)
    /\ dispatchPendingNotification(d, 0, conf)
    /\ UNCHANGED <<health, BEEPING>>

\* Second phase, before its end: the readings are overwritten by later ones.
TestInvertPass ==
  \E d \in Elapsed :
    /\ sensorsInvert
    /\ TestTimeAge(d) <= minSensorTestReadtime
    /\ TestPassFrame(d)
    /\ AgeTestStamps(d)
    /\ dispatchPendingNotification(d, 0, conf)
    /\ UNCHANGED BEEPING

\* What lastSensorTest records at the end of a test.  It is a signed long: with
\* the top bit of millis() set it is negative, which the code takes for "never".
BadTestRecord(d) == TestTimeAge(d)          \* mutant: taken before the reset
LostTestRecord(d) == SensorTestAge(d)       \* mutant: not recorded
TestRecord(d) == IF signBit' THEN Never ELSE 0

\* The pass that ends the test and judges it: both sensors must have followed
\* the inversion.  The normal readings are dead from here to the next test,
\* which overwrites them.
TestEndPass ==
  \E d \in Elapsed, low, high \in Level :
    LET passed == normal.low # low /\ normal.high # high IN
    /\ sensorsInvert
    /\ TestTimeAge(d) > minSensorTestReadtime
    /\ TestPassFrame(d)
    /\ sensorCheck' = FALSE
    /\ sensorsInvert' = FALSE
    /\ sensorTestTime' = 0
    /\ lastSensorTest' = TestRecord(d)
    /\ normal' = [low |-> 0, high |-> 0]
    /\ health' = IF passed THEN 1 ELSE 0
    /\ BEEPING' = (BEEPING \/ ~passed)
    /\ dispatchPendingNotification(d, IF passed THEN 0 ELSE 1, conf)

-----------------------------------------------------------------------------
\* Passes of the core task once the tests are done and passed

\* relayConditionSafeGuard: is this a safe time to run, and has a run lasted
\* longer than its runtime?  It acts on conf and pump before anything else.
RecentlyFull(d) ==
  ~TANK_FULL /\ Older(lastTankFullDetect, d, TANK_FILLING_TIME_GAP)
                  \in 0 .. TANK_FILLING_TIME_GAP - 1
LateTimeOver(c) == c.start > c.runtime + 1        \* mutant: off by one
TimeOver(c) == c.start > c.runtime
BadMustStop(d) == pump = 1 /\ RecentlyFull(d)     \* mutant: no runtime limit
MustStop(d) == pump = 1 /\ (RecentlyFull(d) \/ TimeOver(OlderConf(d)))

ConfAfterGuard(d) ==
  IF MustStop(d) THEN ConfAfterStop(OlderConf(d)) ELSE OlderConf(d)
PumpAfterGuard(d) ==
  IF MustStop(d) THEN PumpAfterStop(conf, pump) ELSE pump

\* trackSensorChanges for one sensor: when it began to differ from tankState.
Tracked(stamp, differs, d, t) ==
  IF ~differs THEN Never ELSE IF stamp = Never THEN 0 ELSE Older(stamp, d, t)

LowStamp(d, low) ==
  Tracked(lastLowChange, low # tankState.low, d, SENSOR_STATE_CHANGE_THRESHOLD)
HighStamp(d, high) ==
  Tracked(lastHighChange, high # tankState.high, d,
          HIGH_SENSOR_STATE_CHANGE_THRESHOLD)
PumpStamp(d, p) ==
  Tracked(lastPumpChange, p # tankState.pump, d,
          PUMP_SENSOR_STATE_CHANGE_THRESHOLD)

hasLowChanged(d, low)   == LowStamp(d, low) > SENSOR_STATE_CHANGE_THRESHOLD
hasHighChanged(d, high) ==
  HighStamp(d, high) > HIGH_SENSOR_STATE_CHANGE_THRESHOLD
hasPumpChanged(d, p)    == PumpStamp(d, p) > PUMP_SENSOR_STATE_CHANGE_THRESHOLD

\* A level that cannot change this way: filling without the pump, or the low
\* sensor dry under a full one.  An error of the low sensor also holds back the
\* high one, whose branch looks at the same error variable.
LowError(d, low, high, p) ==
  hasLowChanged(d, low) /\ IF low = 1 THEN p # 1 ELSE high # 0
LevelError(d, low, high, p) ==
  \/ LowError(d, low, high, p)
  \/ hasHighChanged(d, high) /\ high = 1 /\ ~(low = 1 /\ p = 1)

TankAfter(d, low, high, p) ==
  [low  |-> IF hasLowChanged(d, low) /\ ~LowError(d, low, high, p)
              THEN low ELSE tankState.low,
   high |-> IF hasHighChanged(d, high) /\ ~LevelError(d, low, high, p)
              THEN high ELSE tankState.high,
   pump |-> IF hasPumpChanged(d, p) THEN p ELSE tankState.pump]

\* mutant: the stamp outlives the flag
BadTrackTankFull(d) ==
  LET full == tankState'.low = 1 /\ tankState'.high = 1 IN
  /\ TANK_FULL' = full
  /\ lastTankFullDetect' =
       IF full /\ ~TANK_FULL THEN 0
       ELSE Older(lastTankFullDetect, d, TANK_FILLING_TIME_GAP)

trackTankFull(d) ==
  LET full == tankState'.low = 1 /\ tankState'.high = 1 IN
  /\ TANK_FULL' = full
  /\ lastTankFullDetect' =
       IF full /\ ~TANK_FULL /\ lastTankFullDetect = Never THEN 0
       ELSE IF ~full /\ TANK_FULL THEN Never
       ELSE Older(lastTankFullDetect, d, TANK_FILLING_TIME_GAP)

\* mutant: the stamp is not cleared
BadTrackOverFlow(d) ==
  lastOverflowCondition' =
    Tracked(lastOverflowCondition, \/ lastOverflowCondition # Never
                                   \/ tankState'.pump = 1 /\ tankState'.high = 1,
            d, OVERFLOW_STATE_THRESHOLD)

trackOverFlow(d) ==
  lastOverflowCondition' =
    Tracked(lastOverflowCondition, tankState'.pump = 1 /\ tankState'.high = 1,
            d, OVERFLOW_STATE_THRESHOLD)

BadInsufficientWater(t) == t.low = 0 /\ t.pump = 0  \* mutant: high ignored
InsufficientWater(t) == t.low = 0 /\ t.high = 0 /\ t.pump = 0

evaluateTankState(d, low, high, p) ==
  /\ lastLowChange' = LowStamp(d, low)
  /\ lastHighChange' = HighStamp(d, high)
  /\ lastPumpChange' = PumpStamp(d, p)
  /\ tankState' = TankAfter(d, low, high, p)
  /\ trackTankFull(d)
  /\ trackOverFlow(d)

StateNotices == IF tankState' = tankState THEN 0 ELSE 1

\* mutant: off by one
LateWillOverflow == lastOverflowCondition' > OVERFLOW_STATE_THRESHOLD + 1
willOverflow == lastOverflowCondition' > OVERFLOW_STATE_THRESHOLD
wasTestedRecently(d) == SensorTestAge(d) \in 0 .. SENSOR_RECENT_TEST_THRESHOLD

\* takeActions, with the conf, the pump flag and the error flag that the guard
\* and the evaluation left.  A level error only sounds the beeper.
BadRefill(error, p) ==    \* mutant: a running pump is not looked at
  ~error /\ ~willOverflow /\ InsufficientWater(tankState')
Refill(error, p) ==
  ~error /\ ~willOverflow /\ InsufficientWater(tankState') /\ p = 0

takeActions(d, c, p, error) ==
  /\ BEEPING' = error
  /\ \/ /\ ~error /\ willOverflow /\ p = 1
        /\ conf' = ConfAfterStop(c)
        /\ pump' = PumpAfterStop(c, p)
        /\ AgeTestStamps(d)
        /\ dispatchPendingNotification(d, StateNotices, c)
     \/ /\ Refill(error, p) /\ wasTestedRecently(d)
        /\ conf' = ConfAfterRun(c)
        /\ pump' = PumpAfterRun(c, p)
        /\ AgeTestStamps(d)
        /\ dispatchPendingNotification(d, StateNotices + RunNotices(c), c)
     \/ /\ Refill(error, p) /\ ~wasTestedRecently(d)
        /\ conf' = c /\ pump' = p
        /\ doSensorTest(d)
        /\ dispatchPendingNotification(d, StateNotices, c)
     \/ /\ ~(~error /\ willOverflow /\ p = 1) /\ ~Refill(error, p)
        /\ conf' = c /\ pump' = p
        /\ AgeTestStamps(d)
        /\ dispatchPendingNotification(d, StateNotices, c)

BadSupervising == inited /\ ~sensorCheck          \* mutant: health ignored
Supervising == inited /\ ~sensorCheck /\ health = 1

ControlPass ==
  /\ Supervising /\ conf.reset # 1
  /\ \E d \in Elapsed, low, high \in Level :
       LET p == PumpAfterGuard(d) IN
       /\ AdvanceClock(d)
       /\ SAFE_TO_RUN_PUMP' = ~RecentlyFull(d)
       /\ evaluateTankState(d, low, high, p)
       /\ takeActions(d, ConfAfterGuard(d), p, LevelError(d, low, high, p))
  /\ UNCHANGED <<inited, ee, network>>

\* The pass that finds a reset requested erases the EEPROM and restarts.
ResetPass == Supervising /\ conf.reset = 1 /\ Boot(Erased)

\* Once a test has failed the core task only dispatches notices.
UnhealthyPass ==
  /\ inited /\ ~sensorCheck /\ health # 1
  /\ \E d \in Elapsed :
       /\ AdvanceClock(d)
       /\ conf' = OlderConf(d)
       /\ AgeTankStamps(d)
       /\ AgeTestStamps(d)
       /\ dispatchPendingNotification(d, 0, conf)
  /\ UNCHANGED <<inited, ee, pump, SAFE_TO_RUN_PUMP, BEEPING, network>>

CoreTask == \/ InitialReadPass \/ InitialisePass
            \/ TestNormalPass \/ TestInvertPass \/ TestEndPass
            \/ ControlPass \/ ResetPass \/ UnhealthyPass

-----------------------------------------------------------------------------
\* HTTP handlers: loop() serves a request after the passes that are due, so
\* none is served between the end of the initial reads and initialise().

Serves(e) ==
  /\ e \in Endpoints
  /\ inited \/ uptime <= minInitialSensorReadTime
  /\ UNCHANGED <<clockVars, inited, tankVars, SAFE_TO_RUN_PUMP, testVars,
                 BEEPING, last_notify, network>>

Run  == /\ conf' = ConfAfterRun(conf)
        /\ pump' = PumpAfterRun(conf, pump)
        /\ queue' = Enqueued(RunNotices(conf))
Stop == /\ conf' = ConfAfterStop(conf)
        /\ pump' = PumpAfterStop(conf, pump)
        /\ UNCHANGED queue

\* The safe-guard check of these three only sends a reply: they go on.
switchAOn ==
  /\ Serves("on")
  /\ IF conf.relay = 0 THEN Run ELSE UNCHANGED <<conf, pump, queue>>
  /\ UNCHANGED ee

switchAOff == Serves("off") /\ Stop /\ UNCHANGED ee

toggleSwitch ==
  /\ Serves("toggle")
  /\ IF conf.relay = 0 THEN Run ELSE Stop
  /\ UNCHANGED ee

\* What the getters of stored settings do to conf: the EEPROM's copy of every
\* field replaces it, relay, relay_start and reset included.
readSettings == conf' = Loaded(uptime) /\ UNCHANGED <<ee, pump, queue>>

getSwitchRuntime == Serves("getRuntime") /\ readSettings
getNotify        == Serves("getNotify") /\ readSettings
getNotifyURL     == Serves("getNotifyURL") /\ readSettings

\* mutant: loads the stored settings before it changes one
BadSetSwitchRuntime ==
  /\ Serves("setRuntime")
  /\ \E r \in Runtimes \ {0} : conf' = [Loaded(uptime) EXCEPT !.runtime = r]
  /\ writeSettings(conf')
  /\ UNCHANGED <<pump, queue>>

setSwitchRuntime ==
  /\ Serves("setRuntime")
  /\ \E r \in Runtimes \ {0} : conf' = [conf EXCEPT !.runtime = r]
  /\ writeSettings(conf')
  /\ UNCHANGED <<pump, queue>>

setNotify ==
  /\ Serves("setNotify")
  /\ \E n \in {0, 1} : conf' = [conf EXCEPT !.notify = n]
  /\ writeSettings(conf')
  /\ UNCHANGED <<pump, queue>>

\* The endpoint's text is left out: what is left is that every field is saved.
setNotifyURL ==
  /\ Serves("setNotifyURL")
  /\ writeSettings(conf)
  /\ UNCHANGED <<conf, pump, queue>>

handleReset ==
  /\ Serves("reset")
  /\ conf' = [conf EXCEPT !.reset = 1]
  /\ UNCHANGED <<ee, pump, queue>>

Handlers == \/ switchAOn \/ switchAOff \/ toggleSwitch
            \/ getSwitchRuntime \/ getNotify \/ getNotifyURL
            \/ setSwitchRuntime \/ setNotify \/ setNotifyURL \/ handleReset

\* Both WiFi event handlers, of a connection and of a disconnection, set it.
WiFiEvent ==
  /\ network' = TRUE
  /\ UNCHANGED <<clockVars, inited, conf, ee, pump, tankVars,
                 SAFE_TO_RUN_PUMP, testVars, BEEPING, queue, last_notify>>

Next == CoreTask \/ Handlers \/ WiFiEvent \/ PowerCycle

Spec == Init /\ [][Next]_vars

\* loop() never ends: the scheduler keeps running the core task.
FairSpec == Spec /\ WF_vars(CoreTask)
=============================================================================
