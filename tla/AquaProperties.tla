--------------------------- MODULE AquaProperties ---------------------------
(***************************************************************************)
(* What the drinking-water storage controller promises.  Properties that   *)
(* hold only as long as no client reads the stored settings back, or uses  *)
(* some other endpoint, say so; the runs that check them choose Endpoints. *)
(***************************************************************************)
EXTENDS AquaController

SettingsType == [relay : Level, runtime : Nat, start : 0 .. ClockCap,
                 reset : Level, notify : Level]
StoredType == [relay : Level, runtime : 0 .. ByteRange - 1, reset : Level,
               notify : Level, stamped : BOOLEAN]

ClockOK == uptime \in 0 .. ClockCap /\ signBit \in BOOLEAN

RelayOK == conf \in SettingsType /\ ee \in StoredType /\ pump \in Level

TankOK ==
  /\ tankState \in [low : Level, high : Level, pump : Level]
  /\ lastLowChange \in Never .. SENSOR_STATE_CHANGE_THRESHOLD + 1
  /\ lastHighChange \in Never .. HIGH_SENSOR_STATE_CHANGE_THRESHOLD + 1
  /\ lastPumpChange \in Never .. PUMP_SENSOR_STATE_CHANGE_THRESHOLD + 1
  /\ lastOverflowCondition \in Never .. OVERFLOW_STATE_THRESHOLD + 1
  /\ TANK_FULL \in BOOLEAN
  /\ lastTankFullDetect \in Never .. TANK_FILLING_TIME_GAP + 1

TestOK ==
  /\ sensorCheck \in BOOLEAN
  /\ sensorsInvert \in BOOLEAN
  /\ sensorTestTime \in 0 .. SENSOR_RECENT_TEST_THRESHOLD + 1
  /\ lastSensorTest \in Never .. SENSOR_RECENT_TEST_THRESHOLD + 1
  /\ normal \in [low : Level, high : Level]
  /\ health \in Level

NoticeOK ==
  /\ queue \in 0 .. NOTICE_LIMIT
  /\ last_notify \in 0 .. CONSECUTIVE_NOTIFICATION_DELAY + 1
  /\ network \in BOOLEAN

FlagsOK ==
  /\ inited \in BOOLEAN
  /\ SAFE_TO_RUN_PUMP \in BOOLEAN
  /\ BEEPING \in BOOLEAN

\* Every variable keeps its type, every age stays below its saturation, the
\* EEPROM's cells hold bytes and the notice queue keeps to its limit.
TypeOK == ClockOK /\ RelayOK /\ TankOK /\ TestOK /\ NoticeOK /\ FlagsOK

-----------------------------------------------------------------------------
\* The dry-run and overflow guards

\* The stamp of "tank was full" exists exactly while the debounced levels say
\* that the tank is full now: trackTankFull clears it in the very pass that
\* sees the level drop.  So the gap the safe guard measures from it, for a tank
\* that is no longer full, never blocks anything: this is what the code does, not
\* what its comments say (see RecentlyFullIsUnsafe in AquaGuard).
FullStampMeansFull ==
  /\ TANK_FULL <=> lastTankFullDetect # Never
  /\ TANK_FULL => tankState.low = 1 /\ tankState.high = 1

\* The same dead guard, seen by the handlers that could reply
\* SAFE_TO_RUN_PUMP=FALSE: once the first guarded pass has run, the flag is never
\* taken back until a restart, whatever the thresholds are.
SafeUntilRestart == [][SAFE_TO_RUN_PUMP => SAFE_TO_RUN_PUMP' \/ ~inited']_vars

\* The overflow stamp is only there while the debounced states say that a full
\* tank is being filled, and then the tank-full flag or a dry low sensor is.
OverflowStampMeansFilling ==
  lastOverflowCondition # Never =>
    /\ tankState.pump = 1 /\ tankState.high = 1
    /\ TANK_FULL \/ tankState.low = 0

\* No control pass that sees the overflow outlast its threshold leaves the pump
\* running, unless it found a level error instead (it sounds the beeper).
\* True while no client reloads the stored settings during a run.
OverflowStopsPump ==
  [][lastOverflowCondition' > OVERFLOW_STATE_THRESHOLD /\ pump' = 1 /\ ~BEEPING'
       => ~ControlPass]_vars

\* A run the core task starts by itself finds a tank that was debounced to dry,
\* not full, and a sensor test of this uptime that ended recently and passed.
RefillOnlyWhenDryAndTested ==
  [][pump = 0 /\ pump' = 1 /\ CoreTask =>
       /\ tankState'.low = 0 /\ tankState'.high = 0 /\ ~TANK_FULL'
       /\ health' = 1 /\ ~sensorCheck'
       /\ lastSensorTest' \in 0 .. SENSOR_RECENT_TEST_THRESHOLD
       /\ sensorTestTime' = lastSensorTest']_vars

\* A failed test is final: no pass of the core task starts the pump or another
\* test until the sketch restarts.
FailureIsFinal ==
  [][health = 0 /\ inited' => health' = 0 /\ ~sensorCheck' /\ BEEPING']_vars

\* No sensor test starts while the pump runs, even one that tankState does not
\* show yet: a test judges a still tank, unless a client starts the pump in it.
TestsStartOnStoppedPump ==
  [][sensorCheck' /\ ~sensorCheck => pump' = 0]_vars

\* A sensor test runs out: no request restarts, prolongs or interrupts it, and
\* each pass of the core task ends it, turns to its second phase or is at least
\* a tick nearer to the end of its phase.
TestRunsOut ==
  [][sensorCheck /\ inited' =>
       \/ ~sensorCheck'
       \/ sensorsInvert' /\ ~sensorsInvert
       \/ /\ sensorsInvert' = sensorsInvert
          /\ sensorTestTime' >= sensorTestTime
          /\ CoreTask => /\ sensorTestTime' > sensorTestTime
                         /\ sensorTestTime' <= minSensorTestReadtime]_vars

-----------------------------------------------------------------------------
\* The relay and its record in conf

\* A running pump is on record as running: stopPump, whatever calls it, acts
\* only then.  True while no client reloads the stored settings during a run;
\* initSettings reloads them too, but no run can start before it.
RunningIsRecorded == pump = 1 => conf.relay = 1

\* The converse fails, and runPump then refuses every start ("it was already
\* started or is still running"), only after a save stored the record of a run
\* and a restart loaded it.  True while no client reloads the stored settings.
StaleRecordIsStored == conf.relay = 1 /\ pump = 0 => ee.relay = 1

\* No control pass leaves a pump running past its runtime ("If time over [...]
\* then stop").
RunWithinRuntime == [][pump' = 1 /\ conf'.start > conf'.runtime => ~ControlPass]_vars

\* A request to switch off leaves the pump off.
OffSwitchesOff == [][switchAOff => pump' = 0]_vars

Load == getSwitchRuntime \/ getNotify \/ getNotifyURL

\* Whatever clients do, only a getter that loads the stored settings takes a run
\* off the record: no start, stop, save, test or time that passes does.
OnlyLoadsLoseTheRecord == [][RunningIsRecorded => RunningIsRecorded' \/ Load]_vars

\* Whatever clients did before, a run that is on record is under control: a
\* control pass leaves it running only within its runtime and, but for a level
\* error, without an overflow, and a request to switch off ends it.
RecordedRunIsControlled ==
  [][RunningIsRecorded =>
       /\ ControlPass /\ pump' = 1 =>
            /\ conf'.start <= conf'.runtime
            /\ lastOverflowCondition' > OVERFLOW_STATE_THRESHOLD => BEEPING'
       /\ switchAOff => pump' = 0]_vars

\* Nothing makes a recorded run younger, and each pass of the core task ages it,
\* in a sensor test and in a getter's reload too; only a control pass that ended
\* it may start the next one at once.
RunsAge ==
  [][pump = 1 /\ pump' = 1 /\ conf.relay = 1 /\ conf'.relay = 1 =>
       \/ /\ conf'.start >= conf.start
          /\ CoreTask => conf'.start > conf.start \/ conf'.start = ClockCap
       \/ /\ ControlPass /\ conf'.start = 0
          /\ \E d \in Elapsed : MustStop(d)]_vars

\* A run of a healthy controller comes to its end (fair core task).
RunEnds == pump = 1 /\ health = 1 ~> pump = 0 \/ health = 0

\* A run comes to its end, whatever happens.
EveryRunEnds == pump = 1 ~> pump = 0

-----------------------------------------------------------------------------
\* Refilling, resetting, settings

\* The end of a test is remembered for as long as it counts as recent.  The
\* code takes millis() for the time, so sensorTestTime, which is unsigned and
\* assigned beside lastSensorTest, gives the age the test really has.
TestIsRemembered ==
  inited /\ ~sensorCheck /\ sensorTestTime <= SENSOR_RECENT_TEST_THRESHOLD
    => lastSensorTest = sensorTestTime

\* A dry tank is refilled: the pump starts, unless the levels rise without it,
\* a sensor is found faulty, the record says that the pump runs already, or the
\* sketch restarts (fair core task).
RefillStarts ==
  Supervising /\ InsufficientWater(tankState) /\ pump = 0
    ~> \/ pump = 1 \/ ~InsufficientWater(tankState) \/ BEEPING
       \/ conf.relay = 1 \/ ~inited

\* A reset requested of an initialised controller is not forgotten: only a
\* getter that loads the stored settings withdraws it, and the first pass that
\* supervises the tank restarts.
ResetPrevails ==
  [][inited /\ conf.reset = 1 =>
       \/ ~inited'
       \/ conf'.reset = 1 /\ ~(Supervising /\ CoreTask)
       \/ Load]_vars

\* "Resetting in 5 seconds": a reset requested from a healthy controller
\* restarts it (fair core task).
ResetHonoured ==
  inited /\ health = 1 /\ conf.reset = 1 ~> ~inited \/ health = 0
=============================================================================
