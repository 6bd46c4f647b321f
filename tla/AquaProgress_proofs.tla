------------------------ MODULE AquaProgress_proofs ------------------------
(***************************************************************************)
(* What holds of the controller's runs, tests and resets step by step, for *)
(* every value of the constants and whatever clients ask, the getters that *)
(* load the stored settings over a run included.                           *)
(***************************************************************************)
EXTENDS AquaSafety_proofs

-----------------------------------------------------------------------------
\* The record of a run

\* Only a getter that loads the stored settings takes a run off the record.
THEOREM RecordLossCorrect == Spec => OnlyLoadsLoseTheRecord
<1>1. TypeOK /\ BootInv /\ [Next]_vars => [RunningIsRecorded => RunningIsRecorded' \/ Load]_vars
  <2> SUFFICES ASSUME TypeOK, BootInv, [Next]_vars, RunningIsRecorded, ~Load
               PROVE  RunningIsRecorded'
    OBVIOUS
  <2> QED BY StepKeepsRecord DEF RelayInv
<1> QED BY <1>1, BootInvariant, PTL DEF Spec, OnlyLoadsLoseTheRecord

\* A run on record is under control, whatever clients did before it got there.
THEOREM ControlCorrect == Spec => RecordedRunIsControlled
<1> DEFINE A == RunningIsRecorded =>
                  /\ ControlPass /\ pump' = 1 =>
                       /\ conf'.start <= conf'.runtime
                       /\ lastOverflowCondition' > OVERFLOW_STATE_THRESHOLD => BEEPING'
                  /\ switchAOff => pump' = 0
<1>1. ASSUME TypeOK, BootInv, RunningIsRecorded
      PROVE  /\ ControlPass /\ pump' = 1 =>
                  /\ conf'.start <= conf'.runtime
                  /\ lastOverflowCondition' > OVERFLOW_STATE_THRESHOLD => BEEPING'
             /\ switchAOff => pump' = 0
  <2>1. RelayInv
    BY <1>1 DEF RelayInv
  <2>2. ControlPass /\ pump' = 1 =>
          /\ conf'.start <= conf'.runtime
          /\ lastOverflowCondition' > OVERFLOW_STATE_THRESHOLD => BEEPING'
    BY <1>1, <2>1, ControlPassRecord
  <2>3. switchAOff => pump' = 0
    <3>1. conf \in SettingsType /\ pump \in Level /\ (pump = 1 => conf.relay = 1)
      BY <1>1 DEF TypeOK, RelayOK, RunningIsRecorded
    <3>2. switchAOff => pump' = PumpAfterStop(conf, pump)
      BY DEF switchAOff, Stop
    <3> QED BY <3>1, <3>2, RunAndStopRecord
  <2> QED BY <2>2, <2>3
<1>2. TypeOK /\ BootInv => A
  BY <1>1
<1> QED BY <1>2, BootInvariant, PTL DEF Spec, RecordedRunIsControlled

-----------------------------------------------------------------------------
\* The age of a run

\* No start is older than the uptime, so that loading the stored settings, whose
\* stamps are of the boot, makes no run younger.
AgeInv == conf.start <= uptime

\* Stopping keeps the stamp of the start, starting resets it.
LEMMA StartAfter ==
  ASSUME NEW c \in SettingsType
  PROVE  /\ ConfAfterStop(c).start = c.start
         /\ ConfAfterRun(c).start \in {0, c.start}
         /\ ConfAfterRun(c) = c \/ ConfAfterRun(c).start = 0
BY DEF SettingsType, ConfAfterStop, ConfAfterRun, switchOffRelay, switchOnRelay

\* An age one or more ticks later.
LEMMA OlderStart ==
  ASSUME conf \in SettingsType, NEW d \in Nat
  PROVE  /\ OlderConf(d).start >= conf.start
         /\ d # 0 => OlderConf(d).start > conf.start \/ OlderConf(d).start = ClockCap
         /\ uptime \in 0 .. ClockCap /\ conf.start <= uptime
              => OlderConf(d).start <= Clock(d)
<1>1. conf.start \in 0 .. ClockCap /\ ClockCap \in Nat
  BY CapAssumption DEF SettingsType
<1>2. OlderConf(d).start = Min2(conf.start + d, ClockCap)
  BY OlderConfFields
<1> QED BY <1>1, <1>2 DEF Min2, Clock

\* What handlers do to the stamp of the start.
LEMMA HandlerStart ==
  ASSUME TypeOK, Handlers
  PROVE  /\ conf'.start \in {0, conf.start, uptime} /\ uptime' = uptime
         /\ conf.relay = 1 /\ pump' = 1 => conf'.start \in {conf.start, uptime}
<1>1. conf \in SettingsType
  BY DEF TypeOK, RelayOK
<1>2. uptime' = uptime
  <2>1. PICK e \in Endpoints : Serves(e)
    BY DEF Handlers, switchAOn, switchAOff, toggleSwitch,
           getSwitchRuntime, getNotify, getNotifyURL, setSwitchRuntime,
           setNotify, setNotifyURL, handleReset, Serves
  <2> QED BY <2>1 DEF Serves, clockVars
<1>3. CASE switchAOn \/ switchAOff \/ toggleSwitch
  <2>1. Run \/ Stop \/ UNCHANGED <<conf, pump, queue>>
    BY <1>3 DEF switchAOn, switchAOff, toggleSwitch
  <2>2. CASE Run
    <3>1. conf' = ConfAfterRun(conf)
      BY <2>2 DEF Run
    <3>2. conf.relay = 1 => conf' = conf
      BY <3>1 DEF ConfAfterRun, MayRun
    <3> QED BY <1>1, <1>2, <3>1, <3>2, StartAfter
  <2>3. CASE Stop
    <3>1. conf' = ConfAfterStop(conf)
      BY <2>3 DEF Stop
    <3> QED BY <1>1, <1>2, <3>1, StartAfter
  <2>4. CASE UNCHANGED <<conf, pump, queue>>
    BY <1>2, <2>4
  <2> QED BY <2>1, <2>2, <2>3, <2>4
<1>4. CASE setSwitchRuntime \/ setNotify \/ setNotifyURL \/ handleReset
  <2>1. \/ conf' = conf
        \/ \E r \in Runtimes : conf' = [conf EXCEPT !.runtime = r]
        \/ \E n \in {0, 1} : conf' = [conf EXCEPT !.notify = n]
        \/ conf' = [conf EXCEPT !.reset = 1]
    BY <1>4 DEF setSwitchRuntime, setNotify, setNotifyURL, handleReset
  <2>2. conf'.start = conf.start
    BY <1>1, <2>1 DEF SettingsType
  <2> QED BY <1>2, <2>2
<1>5. CASE getSwitchRuntime \/ getNotify \/ getNotifyURL
  <2>1. conf'.start = uptime
    BY <1>5 DEF getSwitchRuntime, getNotify, getNotifyURL, readSettings, Loaded
  <2> QED BY <1>2, <2>1
<1> QED BY <1>3, <1>4, <1>5 DEF Handlers

\* What a control pass does to a run: it ages it, or ends it and, at most, starts
\* the next one.
LEMMA ControlPassStart ==
  ASSUME TypeOK, ControlPass
  PROVE  \E d \in Elapsed :
           /\ uptime' = Clock(d)
           /\ conf'.start \in {0, OlderConf(d).start}
           /\ conf.relay = 1 /\ pump = 1 /\ pump' = 1 /\ conf'.relay = 1 =>
                \/ conf' = OlderConf(d)
                \/ conf'.start = 0 /\ MustStop(d)
<1>1. PICK d \in Elapsed, low \in Level, high \in Level :
        /\ AdvanceClock(d)
        /\ takeActions(d, ConfAfterGuard(d), PumpAfterGuard(d),
                       LevelError(d, low, high, PumpAfterGuard(d)))
  BY DEF ControlPass
<1>2. d \in Nat /\ conf \in SettingsType /\ pump \in Level
  BY SizeAssumption DEF TypeOK, RelayOK
<1> DEFINE c == ConfAfterGuard(d)
           p == PumpAfterGuard(d)
           error == LevelError(d, low, high, p)
<1>3. c \in SettingsType /\ p \in Level
  BY <1>2, GuardType DEF TypeOK
<1>4. OlderConf(d) \in SettingsType
  BY <1>2, OlderConfType
<1>5. c.start = OlderConf(d).start
  BY <1>4, StartAfter DEF ConfAfterGuard
<1>6. MustStop(d) /\ conf.relay = 1 => p = 0 /\ c.relay = 0
  <2>1. OlderConf(d).relay = conf.relay
    BY <1>2, OlderConfFields
  <2>2. MustStop(d) => c = ConfAfterStop(OlderConf(d)) /\ p = PumpAfterStop(conf, pump)
    BY DEF ConfAfterGuard, PumpAfterGuard
  <2>3. ConfAfterStop(OlderConf(d)).relay = 0
    BY <1>4, RunAndStopStale
  <2>4. conf.relay = 1 => PumpAfterStop(conf, pump) = 0
    BY DEF PumpAfterStop
  <2> QED BY <2>2, <2>3, <2>4
<1>7. ~MustStop(d) => c = OlderConf(d) /\ p = pump
  BY DEF ConfAfterGuard, PumpAfterGuard
<1>8. takeActions(d, c, p, error)
  BY <1>1
<1> HIDE DEF c, p, error
<1>9. \/ conf' = ConfAfterStop(c) /\ pump' = PumpAfterStop(c, p)
      \/ conf' = ConfAfterRun(c) /\ pump' = PumpAfterRun(c, p)
      \/ conf' = c /\ pump' = p
  BY <1>8 DEF takeActions
<1>10. conf'.start \in {0, OlderConf(d).start}
  BY <1>3, <1>5, <1>9, StartAfter
<1>11. ASSUME conf.relay = 1, pump = 1, pump' = 1, conf'.relay = 1
       PROVE  conf' = OlderConf(d) \/ (conf'.start = 0 /\ MustStop(d))
  <2>1. conf' # ConfAfterStop(c)
    BY <1>3, <1>11, RunAndStopStale
  <2>2. conf' = c \/ conf'.start = 0
    BY <1>3, <1>9, <2>1, StartAfter
  <2>3. CASE MustStop(d)
    BY <1>6, <1>11, <2>2, <2>3
  <2>4. CASE ~MustStop(d)
    <3>1. c = OlderConf(d) /\ p = 1 /\ c.relay = 1
      BY <1>2, <1>7, <1>11, <2>4, OlderConfFields
    <3>2. ConfAfterRun(c) = c
      BY <3>1 DEF ConfAfterRun, MayRun
    <3> QED BY <1>9, <2>1, <3>1, <3>2
  <2> QED BY <2>3, <2>4
<1>12. uptime' = Clock(d)
  BY <1>1 DEF AdvanceClock
<1> QED BY <1>10, <1>11, <1>12

LEMMA StepKeepsAge ==
  ASSUME TypeOK, AgeInv, [Next]_vars
  PROVE  AgeInv'
<1>1. conf \in SettingsType /\ uptime \in 0 .. ClockCap /\ conf.start <= uptime
      /\ conf.start \in Nat /\ ClockCap \in Nat
  BY CapAssumption DEF TypeOK, RelayOK, ClockOK, AgeInv, SettingsType
<1>2. CASE InitialReadPass \/ TestNormalPass \/ TestInvertPass \/ TestEndPass
           \/ UnhealthyPass
  <2>1. PICK d \in Elapsed : conf' = OlderConf(d) /\ uptime' = Clock(d)
    BY <1>2 DEF InitialReadPass, TestNormalPass, TestInvertPass, TestEndPass,
                UnhealthyPass, TestPassFrame, AdvanceClock
  <2>2. OlderConf(d).start <= Clock(d)
    BY <1>1, SizeAssumption, OlderStart
  <2> QED BY <2>1, <2>2 DEF AgeInv
<1>3. CASE InitialisePass
  <2>1. PICK d \in Elapsed : conf' = InitialConf(Clock(d)) /\ uptime' = Clock(d)
    BY <1>3 DEF InitialisePass, AdvanceClock
  <2>2. conf'.start = Clock(d)
    BY <2>1 DEF InitialConf, Loaded, Defaults
  <2>3. Clock(d) \in 0 .. ClockCap
    BY <1>1, SizeAssumption, ClockType
  <2> QED BY <1>1, <2>1, <2>2, <2>3 DEF AgeInv
<1>4. CASE ControlPass
  <2>1. PICK d \in Elapsed : /\ uptime' = Clock(d)
                             /\ conf'.start \in {0, OlderConf(d).start}
    BY <1>4, ControlPassStart
  <2>2. OlderConf(d).start <= Clock(d) /\ Clock(d) \in 0 .. ClockCap
    BY <1>1, SizeAssumption, OlderStart, ClockType
  <2> QED BY <1>1, <2>1, <2>2 DEF AgeInv
<1>5. CASE ResetPass \/ PowerCycle
  <2>1. conf' = BootConf(uptime')
    BY <1>5 DEF ResetPass, PowerCycle, Boot
  <2>2. PICK t \in SetupTimes : uptime' = Min2(t, ClockCap)
    BY <1>5 DEF ResetPass, PowerCycle, Boot
  <2>3. conf'.start = uptime' /\ uptime' \in Nat
    BY <1>1, <2>1, <2>2, SizeAssumption DEF BootConf, Min2
  <2> QED BY <2>3 DEF AgeInv
<1>6. CASE Handlers
  BY <1>1, <1>6, HandlerStart DEF AgeInv
<1>7. CASE WiFiEvent \/ UNCHANGED vars
  BY <1>1, <1>7 DEF WiFiEvent, vars, clockVars, AgeInv
<1> QED BY <1>2, <1>3, <1>4, <1>5, <1>6, <1>7 DEF Next, CoreTask

LEMMA AgeInvariant == Spec => [](TypeOK /\ BootInv /\ AgeInv)
<1>1. Init => AgeInv
  <2> SUFFICES ASSUME Init PROVE AgeInv
    OBVIOUS
  <2>1. PICK t \in SetupTimes : uptime = Min2(t, ClockCap)
    BY DEF Init
  <2>2. conf.start = uptime /\ uptime \in Nat
    BY <2>1, SizeAssumption, CapAssumption DEF Init, BootConf, Min2
  <2> QED BY <2>2 DEF AgeInv
<1>2. TypeOK /\ AgeInv /\ [Next]_vars => AgeInv'
  BY StepKeepsAge
<1> QED BY <1>1, <1>2, BootInvariant, PTL DEF Spec

\* No step makes a recorded run younger and every pass ages it, so that it reaches
\* any runtime: with ControlCorrect, what ends the runs of a healthy controller.
THEOREM RunsAgeCorrect == Spec => RunsAge
<1> DEFINE A == pump = 1 /\ pump' = 1 /\ conf.relay = 1 /\ conf'.relay = 1 =>
       \/ /\ conf'.start >= conf.start
          /\ CoreTask => conf'.start > conf.start \/ conf'.start = ClockCap
       \/ /\ ControlPass /\ conf'.start = 0
          /\ \E d \in Elapsed : MustStop(d)
<1>1. ASSUME TypeOK, BootInv, AgeInv, [Next]_vars,
             pump = 1, pump' = 1, conf.relay = 1, conf'.relay = 1
      PROVE  \/ /\ conf'.start >= conf.start
                /\ CoreTask => conf'.start > conf.start \/ conf'.start = ClockCap
             \/ /\ ControlPass /\ conf'.start = 0
                /\ \E d \in Elapsed : MustStop(d)
  <2>1. conf \in SettingsType /\ uptime \in Nat /\ conf.start \in Nat /\ conf.start <= uptime
    BY <1>1 DEF TypeOK, RelayOK, ClockOK, AgeInv, SettingsType
  <2>2. ASSUME NEW d \in Elapsed, conf' = OlderConf(d)
        PROVE  conf'.start >= conf.start
               /\ (conf'.start > conf.start \/ conf'.start = ClockCap)
    BY <2>1, <2>2, SizeAssumption, OlderStart
  <2>3. CASE CoreTask
    <3>1. CASE ControlPass
      <4>1. PICK d \in Elapsed : conf' = OlderConf(d) \/ (conf'.start = 0 /\ MustStop(d))
        BY <1>1, <3>1, ControlPassStart
      <4> QED BY <2>2, <3>1, <4>1
    <3>2. CASE InitialReadPass \/ TestNormalPass \/ TestInvertPass \/ TestEndPass
               \/ UnhealthyPass
      <4>1. PICK d \in Elapsed : conf' = OlderConf(d)
        BY <3>2 DEF InitialReadPass, TestNormalPass, TestInvertPass, TestEndPass,
                    UnhealthyPass, TestPassFrame
      <4> QED BY <2>2, <4>1
    <3>3. ~InitialisePass /\ ~ResetPass
      BY <1>1 DEF InitialisePass, BootInv, ResetPass, Boot
    <3> QED BY <2>3, <3>1, <3>2, <3>3 DEF CoreTask
  <2>4. CASE ~CoreTask
    <3> SUFFICES conf'.start >= conf.start
      BY <2>4
    <3>1. CASE Handlers
      <4>1. conf'.start \in {conf.start, uptime}
        BY <1>1, <3>1, HandlerStart
      <4> QED BY <2>1, <4>1
    <3>2. CASE WiFiEvent \/ UNCHANGED vars
      BY <2>1, <3>2 DEF WiFiEvent, vars
    <3>3. ~PowerCycle
      BY <1>1 DEF PowerCycle, Boot
    <3> QED BY <1>1, <2>4, <3>1, <3>2, <3>3 DEF Next
  <2> QED BY <2>3, <2>4
<1>2. TypeOK /\ BootInv /\ AgeInv /\ [Next]_vars => [A]_vars
  BY <1>1
<1> QED BY <1>2, AgeInvariant, PTL DEF Spec, RunsAge

-----------------------------------------------------------------------------
\* The sensor test

\* No test runs before the sketch is initialised.
SetupInv == ~inited => ~sensorCheck

LEMMA StepKeepsSetup ==
  ASSUME SetupInv, [Next]_vars
  PROVE  SetupInv'
<1>1. CASE InitialReadPass
  BY <1>1 DEF InitialReadPass, AgeTestStamps, SetupInv
<1>2. CASE InitialisePass \/ TestNormalPass \/ TestInvertPass \/ TestEndPass \/ ControlPass
           \/ UnhealthyPass
  BY <1>2, ControlPassTest DEF InitialisePass, TestNormalPass, TestInvertPass, TestEndPass,
     TestPassFrame, UnhealthyPass, SetupInv
<1>3. CASE ResetPass \/ PowerCycle
  BY <1>3 DEF ResetPass, PowerCycle, Boot, SetupInv
<1>4. CASE Handlers \/ WiFiEvent \/ UNCHANGED vars
  BY <1>4, OthersLeaveTest DEF SetupInv
<1> QED BY <1>1, <1>2, <1>3, <1>4 DEF Next, CoreTask

LEMMA SetupInvariant == Spec => [](TypeOK /\ SetupInv)
<1>1. Init => SetupInv
  BY DEF Init, SetupInv
<1>2. SetupInv /\ [Next]_vars => SetupInv'
  BY StepKeepsSetup
<1> QED BY <1>1, <1>2, TypeCorrect, PTL DEF Spec

\* Until its phase is over, the time in a test grows with every pass.
LEMMA TestTimeGrows ==
  ASSUME TestOK, NEW d \in Elapsed, TestTimeAge(d) <= minSensorTestReadtime
  PROVE  TestTimeAge(d) > sensorTestTime
<1>1. /\ sensorTestTime \in Nat /\ d \in Nat /\ d # 0
      /\ SENSOR_RECENT_TEST_THRESHOLD \in Nat /\ minSensorTestReadtime \in Nat
  BY SizeAssumption, ThresholdAssumption DEF TestOK
<1>2. TestTimeAge(d) = Min2(sensorTestTime + d, SENSOR_RECENT_TEST_THRESHOLD + 1)
  BY <1>1 DEF TestTimeAge, Older, Never
<1> QED BY <1>1, <1>2, OrderAssumption DEF Min2

\* A test runs out, whatever clients do meanwhile: what makes every test end.
THEOREM TestRunsOutCorrect == Spec => TestRunsOut
<1> DEFINE A == sensorCheck /\ inited' =>
       \/ ~sensorCheck'
       \/ sensorsInvert' /\ ~sensorsInvert
       \/ /\ sensorsInvert' = sensorsInvert
          /\ sensorTestTime' >= sensorTestTime
          /\ CoreTask => /\ sensorTestTime' > sensorTestTime
                         /\ sensorTestTime' <= minSensorTestReadtime
<1>1. ASSUME TypeOK, SetupInv, [Next]_vars, sensorCheck, inited'
      PROVE  \/ ~sensorCheck'
             \/ sensorsInvert' /\ ~sensorsInvert
             \/ /\ sensorsInvert' = sensorsInvert
                /\ sensorTestTime' >= sensorTestTime
                /\ CoreTask => /\ sensorTestTime' > sensorTestTime
                               /\ sensorTestTime' <= minSensorTestReadtime
  <2>1. inited
    BY <1>1 DEF SetupInv
  <2>2. TestOK /\ sensorTestTime \in Nat /\ sensorsInvert \in BOOLEAN
    BY <1>1 DEF TypeOK, TestOK
  <2>3. CASE CoreTask
    <3>1. TestNormalPass \/ TestInvertPass \/ TestEndPass
      BY <1>1, <2>1, <2>3, ControlPassTest DEF CoreTask, InitialReadPass, InitialisePass,
         ResetPass, Supervising, UnhealthyPass
    <3>2. CASE TestEndPass
      BY <3>2 DEF TestEndPass
    <3>3. ASSUME NEW d \in Elapsed, sensorTestTime' = TestTimeAge(d),
                 TestTimeAge(d) <= minSensorTestReadtime
          PROVE  /\ sensorTestTime' > sensorTestTime /\ sensorTestTime' >= sensorTestTime
                 /\ sensorTestTime' <= minSensorTestReadtime
      <4>1. TestTimeAge(d) > sensorTestTime
        BY <2>2, <3>3, TestTimeGrows
      <4>2. TestTimeAge(d) \in Nat
        BY <2>2, SizeAssumption, TestAges
      <4> QED BY <2>2, <3>3, <4>1, <4>2
    <3>4. CASE TestInvertPass
      <4>1. PICK d \in Elapsed : /\ TestTimeAge(d) <= minSensorTestReadtime
                                 /\ AgeTestStamps(d)
        BY <3>4 DEF TestInvertPass
      <4>2. sensorTestTime' = TestTimeAge(d) /\ sensorsInvert' = sensorsInvert
        BY <4>1 DEF AgeTestStamps
      <4> QED BY <3>3, <4>1, <4>2
    <3>5. CASE TestNormalPass
      <4>1. PICK d \in Elapsed :
              /\ ~sensorsInvert
              /\ sensorsInvert' = (TestTimeAge(d) > minSensorTestReadtime)
              /\ sensorTestTime' = IF sensorsInvert' THEN 0 ELSE TestTimeAge(d)
        BY <3>5 DEF TestNormalPass
      <4>2. CASE sensorsInvert'
        BY <4>1, <4>2
      <4>3. CASE ~sensorsInvert'
        <5>1. TestTimeAge(d) \in Nat /\ minSensorTestReadtime \in Nat
          BY <2>2, SizeAssumption, ThresholdAssumption, TestAges
        <5>2. ~(TestTimeAge(d) > minSensorTestReadtime)
          BY <4>1, <4>3
        <5>3. TestTimeAge(d) <= minSensorTestReadtime /\ sensorTestTime' = TestTimeAge(d)
          BY <4>1, <4>3, <5>1, <5>2
        <5>4. sensorsInvert' = sensorsInvert
          <6>1. sensorsInvert' \in BOOLEAN
            BY <4>1
          <6> QED BY <2>2, <4>1, <4>3, <6>1
        <5> QED BY <3>3, <5>3, <5>4
      <4> QED BY <4>2, <4>3
    <3> QED BY <3>1, <3>2, <3>4, <3>5
  <2>4. CASE ~CoreTask
    <3>1. ~PowerCycle
      BY <1>1 DEF PowerCycle, Boot
    <3>2. Handlers \/ WiFiEvent \/ UNCHANGED vars
      BY <1>1, <2>4, <3>1 DEF Next
    <3>3. sensorsInvert' = sensorsInvert
      <4>1. CASE Handlers
        BY <4>1 DEF Handlers, switchAOn, switchAOff, toggleSwitch,
           getSwitchRuntime, getNotify, getNotifyURL, setSwitchRuntime,
           setNotify, setNotifyURL, handleReset, Serves, testVars
      <4>2. CASE WiFiEvent \/ UNCHANGED vars
        BY <4>2 DEF WiFiEvent, vars, testVars
      <4> QED BY <3>2, <4>1, <4>2
    <3>4. sensorTestTime' = sensorTestTime
      BY <3>2, OthersLeaveTest
    <3>5. sensorTestTime' >= sensorTestTime
      BY <2>2, <3>4
    <3> QED BY <2>4, <3>3, <3>5
  <2> QED BY <2>3, <2>4
<1>2. TypeOK /\ SetupInv /\ [Next]_vars => [A]_vars
  BY <1>1
<1> QED BY <1>2, SetupInvariant, PTL DEF Spec, TestRunsOut

-----------------------------------------------------------------------------
\* The reset

\* Handlers that do not load the stored settings withdraw no reset.
LEMMA HandlerKeepsReset ==
  ASSUME TypeOK, Handlers, ~Load, conf.reset = 1
  PROVE  conf'.reset = 1
<1>1. conf \in SettingsType
  BY DEF TypeOK, RelayOK
<1>2. CASE switchAOn \/ switchAOff \/ toggleSwitch
  <2>1. Run \/ Stop \/ UNCHANGED <<conf, pump, queue>>
    BY <1>2 DEF switchAOn, switchAOff, toggleSwitch
  <2>2. conf' \in {conf, switchOnRelay(conf), switchOffRelay(conf)}
    BY <2>1 DEF Run, Stop, ConfAfterRun, ConfAfterStop
  <2>3. switchOnRelay(conf).reset = 1 /\ switchOffRelay(conf).reset = 1
    BY <1>1 DEF SettingsType, switchOnRelay, switchOffRelay
  <2> QED BY <2>2, <2>3
<1>3. CASE setSwitchRuntime \/ setNotify \/ setNotifyURL \/ handleReset
  <2>1. \/ conf' = conf
        \/ \E r \in Runtimes : conf' = [conf EXCEPT !.runtime = r]
        \/ \E n \in {0, 1} : conf' = [conf EXCEPT !.notify = n]
        \/ conf' = [conf EXCEPT !.reset = 1]
    BY <1>3 DEF setSwitchRuntime, setNotify, setNotifyURL, handleReset
  <2> QED BY <1>1, <2>1 DEF SettingsType
<1> QED BY <1>2, <1>3 DEF Handlers, Load

\* A pending reset prevails: the safety half of ResetHonoured, which asks of the
\* scheduler only that a pass comes.
THEOREM ResetPrevailsCorrect == Spec => ResetPrevails
<1> DEFINE A == inited /\ conf.reset = 1 =>
       \/ ~inited'
       \/ conf'.reset = 1 /\ ~(Supervising /\ CoreTask)
       \/ Load
<1>1. ASSUME TypeOK, [Next]_vars, inited, conf.reset = 1, inited', ~Load
      PROVE  conf'.reset = 1 /\ ~(Supervising /\ CoreTask)
  <2>1. ~ResetPass /\ ~PowerCycle
    BY <1>1 DEF ResetPass, PowerCycle, Boot
  <2>2. ~(Supervising /\ CoreTask)
    BY <1>1, <2>1 DEF Supervising, CoreTask, InitialReadPass, InitialisePass, TestNormalPass,
       TestInvertPass, TestEndPass, TestPassFrame, ControlPass, UnhealthyPass
  <2>3. CASE CoreTask
    <3>1. TestNormalPass \/ TestInvertPass \/ TestEndPass \/ UnhealthyPass
      BY <1>1, <2>1, <2>3 DEF CoreTask, InitialReadPass, InitialisePass, ControlPass
    <3>2. PICK d \in Elapsed : conf' = OlderConf(d)
      BY <3>1 DEF TestNormalPass, TestInvertPass, TestEndPass, TestPassFrame, UnhealthyPass
    <3> QED BY <1>1, <2>2, <3>2 DEF OlderConf, TypeOK, RelayOK, SettingsType
  <2>4. CASE Handlers
    BY <1>1, <2>2, <2>4, HandlerKeepsReset
  <2>5. CASE WiFiEvent \/ UNCHANGED vars
    BY <1>1, <2>2, <2>5 DEF WiFiEvent, vars
  <2> QED BY <1>1, <2>1, <2>3, <2>4, <2>5 DEF Next
<1>2. TypeOK /\ [Next]_vars => [A]_vars
  BY <1>1
<1> QED BY <1>2, TypeCorrect, PTL DEF Spec, ResetPrevails
=============================================================================
