------------------------- MODULE AquaSafety_proofs -------------------------
(***************************************************************************)
(* The controller's safety properties, for every value of the constants.   *)
(* Those about the levels hold for all clients; those about the relay's    *)
(* record hold as long as no client reads the stored settings back.        *)
(***************************************************************************)
EXTENDS AquaController_proofs

USE DEF Never, Level

-----------------------------------------------------------------------------
\* The full and overflow stamps

\* FullStampMeansFull and OverflowStampMeansFilling are not inductive: the
\* initial reads overwrite tankState, so no stamp may exist before inited.
LevelInv ==
  /\ FullStampMeansFull
  /\ OverflowStampMeansFilling
  /\ ~inited => ~TANK_FULL /\ lastOverflowCondition = Never

\* Whatever leaves the levels alone and only ages their stamps keeps LevelInv.
LEMMA AgingKeepsLevels ==
  ASSUME TypeOK, LevelInv, NEW d \in Nat, AgeTankStamps(d), inited' = inited
  PROVE  LevelInv'
<1> USE DEF LevelInv, AgeTankStamps
<1>1. lastTankFullDetect' = Never <=> lastTankFullDetect = Never
  <2>1. lastTankFullDetect \in Never .. TANK_FILLING_TIME_GAP + 1 /\ TANK_FILLING_TIME_GAP \in Nat
    BY ThresholdAssumption DEF TypeOK, TankOK
  <2>2. Older(lastTankFullDetect, d, TANK_FILLING_TIME_GAP) = Never
          <=> lastTankFullDetect = Never
    BY ONLY <2>1, d \in Nat, OlderType, Zenon
  <2> QED BY <2>2
<1>2. lastOverflowCondition' = Never <=> lastOverflowCondition = Never
  <2>1. lastOverflowCondition \in Never .. OVERFLOW_STATE_THRESHOLD + 1 /\ OVERFLOW_STATE_THRESHOLD \in Nat
    BY ThresholdAssumption DEF TypeOK, TankOK
  <2>2. Older(lastOverflowCondition, d, OVERFLOW_STATE_THRESHOLD) = Never
          <=> lastOverflowCondition = Never
    BY ONLY <2>1, d \in Nat, OlderType, Zenon
  <2> QED BY <2>2
<1>3. FullStampMeansFull'
  BY <1>1 DEF FullStampMeansFull
<1>4. OverflowStampMeansFilling'
  BY <1>2 DEF OverflowStampMeansFilling
<1> QED BY <1>2, <1>3, <1>4

\* So does whatever leaves the levels and their stamps unchanged.
LEMMA UnchangedKeepsLevels ==
  ASSUME LevelInv, UNCHANGED <<tankVars, inited>>
  PROVE  LevelInv'
BY DEF LevelInv, FullStampMeansFull, OverflowStampMeansFilling, tankVars

\* A control pass sets flag and stamps together.
LEMMA ControlPassKeepsLevels ==
  ASSUME TypeOK, LevelInv, ControlPass
  PROVE  LevelInv'
<1>1. PICK d \in Elapsed, low \in Level, high \in Level :
        evaluateTankState(d, low, high, PumpAfterGuard(d))
  BY DEF ControlPass
<1>2. d \in Nat
  BY SizeAssumption
<1>3. tankState' \in [low : Level, high : Level, pump : Level]
  <2>1. PumpAfterGuard(d) \in Level
    BY <1>2, GuardType DEF TypeOK
  <2> QED BY <1>1, <1>2, <2>1, EvaluateType DEF TypeOK, TankOK
<1>4. /\ TANK_FULL' = (tankState'.low = 1 /\ tankState'.high = 1)
      /\ lastTankFullDetect' =
           IF TANK_FULL' /\ ~TANK_FULL /\ lastTankFullDetect = Never THEN 0
           ELSE IF ~TANK_FULL' /\ TANK_FULL THEN Never
           ELSE Older(lastTankFullDetect, d, TANK_FILLING_TIME_GAP)
  BY <1>1 DEF evaluateTankState, trackTankFull
<1>5. FullStampMeansFull'
  <2>1. TANK_FULL <=> lastTankFullDetect # Never
    BY DEF LevelInv, FullStampMeansFull
  <2>2. Older(lastTankFullDetect, d, TANK_FILLING_TIME_GAP) = Never
          <=> lastTankFullDetect = Never
    BY <1>2, OlderType, ThresholdAssumption DEF TypeOK, TankOK
  <2>3. TANK_FULL \in BOOLEAN /\ TANK_FULL' \in BOOLEAN
    BY <1>4 DEF TypeOK, TankOK
  <2>4. 0 # Never
    OBVIOUS
  <2>5. TANK_FULL' <=> lastTankFullDetect' # Never
    BY <1>4, <2>1, <2>2, <2>3, <2>4
  <2>6. TANK_FULL' => tankState'.low = 1 /\ tankState'.high = 1
    BY <1>4
  <2> QED BY <2>5, <2>6 DEF FullStampMeansFull
<1>6. OverflowStampMeansFilling'
  <2> DEFINE b == tankState'.pump = 1 /\ tankState'.high = 1
  <2>1. lastOverflowCondition'
          = Tracked(lastOverflowCondition, b, d, OVERFLOW_STATE_THRESHOLD)
    BY <1>1, Zenon DEF evaluateTankState, trackOverFlow
  <2>2. b \in BOOLEAN
    OBVIOUS
  <2>3. lastOverflowCondition' # Never => b
    <3> HIDE DEF b
    <3> QED BY <1>2, <2>1, <2>2, TrackedType, ThresholdAssumption
            DEF TypeOK, TankOK
  <2>4. TANK_FULL' \/ tankState'.low = 0 \/ tankState'.high # 1
    <3>1. tankState'.low \in {0, 1}
      BY <1>3
    <3> QED BY <1>4, <3>1
  <2> QED BY <2>3, <2>4 DEF OverflowStampMeansFilling
<1>7. inited'
  BY DEF ControlPass, Supervising
<1> QED BY <1>5, <1>6, <1>7 DEF LevelInv

\* Every step keeps LevelInv.
LEMMA StepKeepsLevels ==
  ASSUME TypeOK, LevelInv, [Next]_vars
  PROVE  LevelInv'
<1>1. CASE InitialReadPass
  BY <1>1 DEF InitialReadPass, LevelInv, FullStampMeansFull,
              OverflowStampMeansFilling
<1>2. CASE InitialisePass
  BY <1>2 DEF InitialisePass, LevelInv, FullStampMeansFull,
              OverflowStampMeansFilling
<1>3. CASE TestNormalPass \/ TestInvertPass \/ TestEndPass
  <2>1. PICK d \in Elapsed : TestPassFrame(d)
    BY <1>3 DEF TestNormalPass, TestInvertPass, TestEndPass
  <2>2. d \in Nat /\ AgeTankStamps(d) /\ inited' = inited
    BY <2>1, SizeAssumption DEF TestPassFrame
  <2> QED BY <2>2, AgingKeepsLevels
<1>4. CASE ControlPass
  BY <1>4, ControlPassKeepsLevels
<1>5. CASE ResetPass \/ PowerCycle
  BY <1>5 DEF ResetPass, PowerCycle, Boot, LevelInv, FullStampMeansFull,
              OverflowStampMeansFilling
<1>6. CASE UnhealthyPass
  <2>1. PICK d \in Elapsed : AgeTankStamps(d)
    BY <1>6 DEF UnhealthyPass
  <2>2. d \in Nat /\ inited' = inited
    BY <1>6, <2>1, SizeAssumption DEF UnhealthyPass
  <2> QED BY <2>1, <2>2, AgingKeepsLevels
<1>7. CASE Handlers
  <2>1. PICK e \in Endpoints : Serves(e)
    BY <1>7 DEF Handlers, switchAOn, switchAOff, toggleSwitch,
                getSwitchRuntime, getNotify, getNotifyURL, setSwitchRuntime,
                setNotify, setNotifyURL, handleReset, Serves
  <2> QED BY <2>1, UnchangedKeepsLevels DEF Serves
<1>8. CASE WiFiEvent
  BY <1>8, UnchangedKeepsLevels DEF WiFiEvent
<1>9. CASE UNCHANGED vars
  BY <1>9, UnchangedKeepsLevels DEF vars
<1> QED
  BY <1>1, <1>2, <1>3, <1>4, <1>5, <1>6, <1>7, <1>8, <1>9 DEF Next, CoreTask

\* LevelInv is an invariant: every step keeps it, whatever the clients do.
THEOREM LevelsCorrect == Spec => [](TypeOK /\ LevelInv)
<1>1. Init => LevelInv
  BY DEF Init, LevelInv, FullStampMeansFull, OverflowStampMeansFilling
<1>2. TypeOK /\ LevelInv /\ [Next]_vars => LevelInv'
  BY StepKeepsLevels
<1> QED BY <1>1, <1>2, TypeCorrect, PTL DEF Spec

\* The stamp of a full tank exists exactly while the tank counts as full, so it
\* can never say that a tank which is no longer full was full a moment ago.
THEOREM FullStampCorrect == Spec => []FullStampMeansFull
BY LevelsCorrect, PTL DEF LevelInv

\* The overflow stamp only runs while the pump fills a tank that reads full.
THEOREM OverflowStampCorrect == Spec => []OverflowStampMeansFilling
BY LevelsCorrect, PTL DEF LevelInv

\* So relayConditionSafeGuard never takes SAFE_TO_RUN_PUMP back.
THEOREM SafeFlagCorrect == Spec => SafeUntilRestart
<1>1. /\ TypeOK /\ LevelInv /\ [Next]_vars
      => [SAFE_TO_RUN_PUMP => SAFE_TO_RUN_PUMP' \/ ~inited']_vars
  <2> SUFFICES ASSUME TypeOK, LevelInv, Next, SAFE_TO_RUN_PUMP
               PROVE  SAFE_TO_RUN_PUMP' \/ ~inited'
    OBVIOUS
  <2>1. CASE ControlPass
    <3>1. PICK d \in Elapsed : SAFE_TO_RUN_PUMP' = ~RecentlyFull(d)
      BY <2>1 DEF ControlPass
    <3>2. ~TANK_FULL => lastTankFullDetect = Never
      BY DEF LevelInv, FullStampMeansFull
    <3>3. ~RecentlyFull(d)
      <4>1. CASE TANK_FULL
        BY <4>1 DEF RecentlyFull
      <4>2. CASE ~TANK_FULL
        <5>1. Older(lastTankFullDetect, d, TANK_FILLING_TIME_GAP) = Never
          BY <3>2, <4>2, Zenon DEF Older
        <5> QED BY <5>1 DEF RecentlyFull
      <4> QED BY <4>1, <4>2
    <3> QED BY <3>1, <3>3
  <2>2. CASE ResetPass \/ PowerCycle
    BY <2>2 DEF ResetPass, PowerCycle, Boot
  <2>3. CASE InitialReadPass \/ InitialisePass \/ UnhealthyPass \/ WiFiEvent
    BY <2>3 DEF InitialReadPass, InitialisePass, UnhealthyPass, WiFiEvent
  <2>4. CASE TestNormalPass \/ TestInvertPass \/ TestEndPass
    BY <2>4 DEF TestNormalPass, TestInvertPass, TestEndPass, TestPassFrame
  <2>5. CASE Handlers
    BY <2>5 DEF Handlers, switchAOn, switchAOff, toggleSwitch,
                getSwitchRuntime, getNotify, getNotifyURL, setSwitchRuntime,
                setNotify, setNotifyURL, handleReset, Serves
  <2> QED BY <2>1, <2>2, <2>3, <2>4, <2>5 DEF Next, CoreTask
<1> QED BY <1>1, LevelsCorrect, PTL DEF Spec, SafeUntilRestart

-----------------------------------------------------------------------------
\* The relay and its record

\* No client reads the stored settings back into conf.
NoReload == Endpoints \cap Reloading = {}

\* No run starts before inited, because until then the record says that the
\* relay was switched on at boot, too short a time ago.
BootInv == ~inited => pump = 0 /\ conf.start = uptime

\* Time passing changes two ages in conf and nothing else.
LEMMA OlderConfFields ==
  ASSUME conf \in SettingsType, NEW d \in Nat
  PROVE  /\ OlderConf(d).relay = conf.relay
         /\ OlderConf(d).runtime = conf.runtime
         /\ OlderConf(d).start = Min2(conf.start + d, ClockCap)
BY DEF SettingsType, OlderConf

\* BootInv holds for all clients: a request to start is refused before inited,
\* and settings that are read back have the age of the boot.
LEMMA StepKeepsBoot ==
  ASSUME TypeOK, BootInv, [Next]_vars
  PROVE  BootInv'
<1> SUFFICES ASSUME ~inited' PROVE pump' = 0 /\ conf'.start = uptime'
  BY DEF BootInv
<1>1. conf \in SettingsType /\ (~inited => pump = 0 /\ conf.start = uptime)
  BY DEF TypeOK, RelayOK, BootInv
<1>2. CASE CoreTask /\ ~ResetPass
  <2>1. InitialReadPass
    BY <1>2 DEF CoreTask, InitialisePass, TestNormalPass, TestInvertPass,
                TestEndPass, ControlPass, UnhealthyPass, TestPassFrame,
                Supervising
  <2>2. PICK d \in Elapsed : uptime' = Clock(d) /\ conf' = OlderConf(d)
    BY <2>1 DEF InitialReadPass, AdvanceClock
  <2>3. ~inited /\ pump' = pump
    BY <2>1 DEF InitialReadPass
  <2> QED BY <1>1, <2>2, <2>3, SizeAssumption, OlderConfFields DEF Clock
<1>3. CASE ResetPass \/ PowerCycle
  BY <1>3 DEF ResetPass, PowerCycle, Boot, BootConf
<1>4. CASE Handlers
  <2>1. PICK e \in Endpoints : Serves(e)
    BY <1>4 DEF Handlers, switchAOn, switchAOff, toggleSwitch,
                getSwitchRuntime, getNotify, getNotifyURL, setSwitchRuntime,
                setNotify, setNotifyURL, handleReset, Serves
  <2>2. /\ uptime' = uptime /\ uptime <= minInitialSensorReadTime
        /\ pump = 0 /\ conf.start = uptime
    BY <1>1, <2>1 DEF Serves, clockVars
  <2>3. CASE switchAOn \/ switchAOff \/ toggleSwitch
    <3>1. Run \/ Stop \/ UNCHANGED <<conf, pump, queue>>
      BY <2>3 DEF switchAOn, switchAOff, toggleSwitch
    <3>2. ~MayRun(conf)
      BY <1>1, <2>2, OrderAssumption, ThresholdAssumption
         DEF MayRun, SettingsType
    <3>3. switchOffRelay(conf).start = conf.start
      BY <1>1 DEF switchOffRelay, SettingsType
    <3> QED BY <2>2, <3>1, <3>2, <3>3
            DEF Run, Stop, ConfAfterRun, PumpAfterRun, ConfAfterStop,
                PumpAfterStop
  <2>4. CASE setSwitchRuntime \/ setNotify \/ setNotifyURL \/ handleReset
    <3>1. /\ pump' = pump
          /\ \/ conf' = conf
             \/ \E r \in Runtimes : conf' = [conf EXCEPT !.runtime = r]
             \/ \E n \in {0, 1} : conf' = [conf EXCEPT !.notify = n]
             \/ conf' = [conf EXCEPT !.reset = 1]
      BY <2>4 DEF setSwitchRuntime, setNotify, setNotifyURL, handleReset
    <3> QED BY <1>1, <2>2, <3>1 DEF SettingsType
  <2>5. CASE getSwitchRuntime \/ getNotify \/ getNotifyURL
    BY <2>2, <2>5 DEF getSwitchRuntime, getNotify, getNotifyURL, readSettings,
                      Loaded
  <2> QED BY <1>4, <2>3, <2>4, <2>5 DEF Handlers
<1>5. CASE WiFiEvent \/ UNCHANGED vars
  BY <1>1, <1>5 DEF WiFiEvent, vars, clockVars
<1> QED BY <1>2, <1>3, <1>4, <1>5 DEF Next

\* So BootInv holds in every state.
LEMMA BootInvariant == Spec => [](TypeOK /\ BootInv)
<1>1. Init => BootInv
  BY DEF Init, BootConf, BootInv
<1>2. TypeOK /\ BootInv /\ [Next]_vars => BootInv'
  BY StepKeepsBoot
<1> QED BY <1>1, <1>2, TypeCorrect, PTL DEF Spec

\* RunningIsRecorded is not inductive: initialise() loads the settings into
\* conf, so it takes BootInv that no run starts before it.
RelayInv == RunningIsRecorded /\ BootInv

\* runPump and stopPump keep the pump on record, and stopPump stops it.
LEMMA RunAndStopRecord ==
  ASSUME NEW c \in SettingsType, NEW p \in Level, p = 1 => c.relay = 1
  PROVE  /\ PumpAfterRun(c, p) = 1 => ConfAfterRun(c).relay = 1
         /\ PumpAfterStop(c, p) = 0
<1>1. switchOnRelay(c).relay = 1
  BY DEF SettingsType, switchOnRelay
<1>2. PumpAfterRun(c, p) = 1 => ConfAfterRun(c).relay = 1
  BY <1>1 DEF PumpAfterRun, ConfAfterRun
<1>3. PumpAfterStop(c, p) = 0
  BY DEF PumpAfterStop
<1> QED BY <1>2, <1>3

\* A pump that still runs after the safe-guard is on record, and in time.
LEMMA GuardRecord ==
  ASSUME TypeOK, RelayInv, NEW d \in Nat, PumpAfterGuard(d) = 1
  PROVE  /\ ConfAfterGuard(d) = OlderConf(d)
         /\ ConfAfterGuard(d).relay = 1
         /\ ~TimeOver(ConfAfterGuard(d))
<1>1. conf \in SettingsType /\ pump \in Level
  BY DEF TypeOK, RelayOK
<1>2. pump = 1 => conf.relay = 1
  BY DEF RelayInv, RunningIsRecorded
<1>3. ~MustStop(d) /\ pump = 1
  BY <1>1, <1>2, RunAndStopRecord DEF PumpAfterGuard
<1>4. ConfAfterGuard(d) = OlderConf(d)
  BY <1>3 DEF ConfAfterGuard
<1>5. ~TimeOver(OlderConf(d))
  BY <1>3 DEF MustStop
<1> QED BY <1>1, <1>2, <1>3, <1>4, <1>5, OlderConfFields

\* What a control pass leaves: a running pump is on record, within its runtime,
\* and not filling an overflowing tank unless the beeper sounds.
LEMMA ControlPassRecord ==
  ASSUME TypeOK, RelayInv, ControlPass, pump' = 1
  PROVE  /\ conf'.relay = 1
         /\ conf'.start <= conf'.runtime
         /\ lastOverflowCondition' > OVERFLOW_STATE_THRESHOLD => BEEPING'
<1>1. PICK d \in Elapsed, low \in Level, high \in Level :
        takeActions(d, ConfAfterGuard(d), PumpAfterGuard(d),
                    LevelError(d, low, high, PumpAfterGuard(d)))
  BY DEF ControlPass
<1>2. d \in Nat
  BY SizeAssumption
<1> DEFINE c == ConfAfterGuard(d)
           p == PumpAfterGuard(d)
           error == LevelError(d, low, high, p)
<1>3. c \in SettingsType /\ p \in Level
  BY <1>2, GuardType DEF TypeOK
<1>4. p = 1 => c.relay = 1 /\ ~TimeOver(c)
  BY <1>2, GuardRecord
<1>5. takeActions(d, c, p, error)
  BY <1>1
<1> HIDE DEF c, p, error
<1>6. BEEPING' = error
  BY <1>5 DEF takeActions
<1>7. c.start \in Nat /\ c.runtime \in Nat
  BY <1>3 DEF SettingsType
<1>8. CASE ~error /\ willOverflow /\ p = 1
  <2>1. pump' = PumpAfterStop(c, p)
    BY <1>5, <1>8 DEF takeActions, Refill
  <2> QED BY <1>3, <1>4, <2>1, RunAndStopRecord
<1>9. CASE Refill(error, p)
  <2>1. p = 0 /\ ~willOverflow
    BY <1>9 DEF Refill
  <2>2. /\ pump' = PumpAfterRun(c, p) /\ conf' = ConfAfterRun(c)
        \/ pump' = p
    BY <1>5, <2>1 DEF takeActions
  <2>3. MayRun(c) /\ conf' = switchOnRelay(c)
    BY <2>1, <2>2 DEF PumpAfterRun, ConfAfterRun
  <2>4. conf'.relay = 1 /\ conf'.start = 0 /\ conf'.runtime = c.runtime
    BY <1>3, <2>3 DEF SettingsType, switchOnRelay
  <2> QED BY <1>7, <2>1, <2>4 DEF willOverflow
<1>10. CASE ~(~error /\ willOverflow /\ p = 1) /\ ~Refill(error, p)
  <2>1. conf' = c /\ pump' = p
    BY <1>5, <1>10 DEF takeActions
  <2>2. error \/ ~willOverflow
    BY <1>10, <2>1
  <2> QED BY <1>4, <1>6, <1>7, <2>1, <2>2 DEF TimeOver, willOverflow
<1> QED BY <1>8, <1>9, <1>10

\* Handlers that do not reload conf keep the pump on record.
LEMMA HandlerKeepsRecord ==
  ASSUME TypeOK, RunningIsRecorded, Handlers, ~Load
  PROVE  RunningIsRecorded'
<1>1. /\ conf \in SettingsType /\ pump \in Level
      /\ pump = 1 => conf.relay = 1
  BY DEF TypeOK, RelayOK, RunningIsRecorded
<1>2. CASE switchAOn \/ switchAOff \/ toggleSwitch
  <2>1. Run \/ Stop \/ UNCHANGED <<conf, pump, queue>>
    BY <1>2 DEF switchAOn, switchAOff, toggleSwitch
  <2>2. pump' = 1 => conf'.relay = 1
    BY <1>1, <2>1, RunAndStopRecord DEF Run, Stop
  <2> QED BY <2>2 DEF RunningIsRecorded
<1>3. CASE setSwitchRuntime \/ setNotify \/ setNotifyURL \/ handleReset
  <2>1. /\ pump' = pump
        /\ \/ conf' = conf
           \/ \E r \in Runtimes : conf' = [conf EXCEPT !.runtime = r]
           \/ \E n \in {0, 1} : conf' = [conf EXCEPT !.notify = n]
           \/ conf' = [conf EXCEPT !.reset = 1]
    BY <1>3 DEF setSwitchRuntime, setNotify, setNotifyURL, handleReset
  <2>2. conf'.relay = conf.relay
    BY <1>1, <2>1 DEF SettingsType
  <2> QED BY <1>1, <2>1, <2>2 DEF RunningIsRecorded
<1> QED BY <1>2, <1>3 DEF Handlers, Load

\* Every step but a load of the stored settings keeps RelayInv.
LEMMA StepKeepsRecord ==
  ASSUME TypeOK, RelayInv, [Next]_vars, ~Load
  PROVE  RelayInv'
<1>1. /\ conf \in SettingsType /\ pump \in Level
      /\ pump = 1 => conf.relay = 1
      /\ ~inited => pump = 0
  BY DEF TypeOK, RelayOK, RelayInv, BootInv, RunningIsRecorded
<1>2. BootInv'
  BY StepKeepsBoot DEF RelayInv
<1>3. RunningIsRecorded'
  <2>1. CASE InitialReadPass \/ TestNormalPass \/ TestInvertPass \/ TestEndPass
             \/ UnhealthyPass
    <3>1. PICK d \in Elapsed : conf' = OlderConf(d) /\ pump' = pump
      BY <2>1 DEF InitialReadPass, TestNormalPass, TestInvertPass,
                  TestEndPass, UnhealthyPass, TestPassFrame
    <3>2. conf'.relay = conf.relay
      BY <1>1, <3>1, SizeAssumption, OlderConfFields
    <3> QED BY <1>1, <3>1, <3>2 DEF RunningIsRecorded
  <2>2. CASE InitialisePass
    BY <1>1, <2>2 DEF InitialisePass, RunningIsRecorded
  <2>3. CASE ControlPass
    BY <2>3, ControlPassRecord DEF RunningIsRecorded
  <2>4. CASE ResetPass \/ PowerCycle
    BY <2>4 DEF ResetPass, PowerCycle, Boot, RunningIsRecorded
  <2>5. CASE WiFiEvent \/ UNCHANGED vars
    BY <1>1, <2>5 DEF WiFiEvent, vars, RunningIsRecorded
  <2>6. CASE Handlers
    BY <2>6, HandlerKeepsRecord DEF RelayInv
  <2> QED BY <2>1, <2>2, <2>3, <2>4, <2>5, <2>6 DEF Next, CoreTask
<1> QED BY <1>2, <1>3 DEF RelayInv

\* So RelayInv holds in every state.
LEMMA RelayInvariant == ASSUME NoReload PROVE Spec => [](TypeOK /\ RelayInv)
<1>1. Init => RelayInv
  BY DEF Init, BootConf, RelayInv, BootInv, RunningIsRecorded
<1>2. TypeOK /\ RelayInv /\ [Next]_vars => RelayInv'
  <2>1. ~Load
    BY DEF NoReload, Reloading, Load, getSwitchRuntime, getNotify, getNotifyURL, Serves
  <2> QED BY <2>1, StepKeepsRecord
<1> QED BY <1>1, <1>2, TypeCorrect, PTL DEF Spec

\* As long as no client reads the stored settings back, a running pump is on
\* record as running, so that whoever stops it does stop it.
THEOREM RecordCorrect == ASSUME NoReload PROVE Spec => []RunningIsRecorded
BY RelayInvariant, PTL DEF RelayInv

\* Then no control pass leaves the pump running past its runtime,
THEOREM RuntimeCorrect == ASSUME NoReload PROVE Spec => RunWithinRuntime
<1>1. TypeOK /\ RelayInv /\ [Next]_vars
      => [pump' = 1 /\ conf'.start > conf'.runtime => ~ControlPass]_vars
  <2> SUFFICES ASSUME TypeOK, RelayInv, pump' = 1,
                      conf'.start > conf'.runtime, ControlPass
               PROVE  FALSE
    OBVIOUS
  <2>1. conf'.start <= conf'.runtime
    BY ControlPassRecord
  <2>2. conf'.start \in Nat /\ conf'.runtime \in Nat
    <3>1. TypeOK'
      BY ControlPassType
    <3> QED BY <3>1 DEF TypeOK, RelayOK, SettingsType
  <2> QED BY <2>1, <2>2
<1> QED BY <1>1, RelayInvariant, PTL DEF Spec, RunWithinRuntime

\* nor running into an overflow that has lasted,
THEOREM OverflowCorrect == ASSUME NoReload PROVE Spec => OverflowStopsPump
<1>1. TypeOK /\ RelayInv /\ [Next]_vars
      => [lastOverflowCondition' > OVERFLOW_STATE_THRESHOLD /\ pump' = 1
            /\ ~BEEPING' => ~ControlPass]_vars
  BY ControlPassRecord
<1> QED BY <1>1, RelayInvariant, PTL DEF Spec, OverflowStopsPump

\* and a request to switch off leaves the pump off.
THEOREM OffCorrect == ASSUME NoReload PROVE Spec => OffSwitchesOff
<1>1. TypeOK /\ RelayInv /\ [Next]_vars => [switchAOff => pump' = 0]_vars
  <2> SUFFICES ASSUME TypeOK, RelayInv, switchAOff PROVE pump' = 0
    OBVIOUS
  <2>1. conf \in SettingsType /\ pump \in Level /\ (pump = 1 => conf.relay = 1)
    BY DEF TypeOK, RelayOK, RelayInv, RunningIsRecorded
  <2>2. pump' = PumpAfterStop(conf, pump)
    BY DEF switchAOff, Stop
  <2> QED BY <2>1, <2>2, RunAndStopRecord
<1> QED BY <1>1, RelayInvariant, PTL DEF Spec, OffSwitchesOff

\* Neither starting nor stopping leaves a record of a run that is not there,
\* unless there was one before.
LEMMA RunAndStopStale ==
  ASSUME NEW c \in SettingsType, NEW p \in Level
  PROVE  /\ ConfAfterRun(c).relay = 1 /\ PumpAfterRun(c, p) = 0
              => c.relay = 1 /\ p = 0
         /\ ConfAfterStop(c).relay = 0
<1>1. switchOffRelay(c).relay = 0
  BY DEF SettingsType, switchOffRelay
<1>2. ConfAfterStop(c).relay = 0
  BY <1>1 DEF ConfAfterStop, SettingsType
<1>3. ConfAfterRun(c).relay = 1 /\ PumpAfterRun(c, p) = 0 => c.relay = 1 /\ p = 0
  BY DEF ConfAfterRun, PumpAfterRun
<1> QED BY <1>2, <1>3

LEMMA ControlPassStale ==
  ASSUME TypeOK, RelayInv, ControlPass, conf'.relay = 1, pump' = 0
  PROVE  conf.relay = 1 /\ pump = 0
<1>1. PICK d \in Elapsed, low \in Level, high \in Level :
        takeActions(d, ConfAfterGuard(d), PumpAfterGuard(d),
                    LevelError(d, low, high, PumpAfterGuard(d)))
  BY DEF ControlPass
<1>2. d \in Nat /\ conf \in SettingsType /\ pump \in Level
  BY SizeAssumption DEF TypeOK, RelayOK
<1> DEFINE c == ConfAfterGuard(d)
           p == PumpAfterGuard(d)
           error == LevelError(d, low, high, p)
<1>3. c \in SettingsType /\ p \in Level
  BY <1>2, GuardType DEF TypeOK
<1>4. c.relay = 1 /\ p = 0 => conf.relay = 1 /\ pump = 0
  <2>1. OlderConf(d) \in SettingsType /\ OlderConf(d).relay = conf.relay
    BY <1>2, OlderConfType, OlderConfFields
  <2>2. CASE MustStop(d)
    BY <2>1, <2>2, RunAndStopStale DEF ConfAfterGuard
  <2>3. CASE ~MustStop(d)
    BY <2>1, <2>3 DEF ConfAfterGuard, PumpAfterGuard
  <2> QED BY <2>2, <2>3
<1>5. takeActions(d, c, p, error)
  BY <1>1
<1> HIDE DEF c, p, error
<1>6. \/ conf' = ConfAfterStop(c)
      \/ conf' = ConfAfterRun(c) /\ pump' = PumpAfterRun(c, p)
      \/ conf' = c /\ pump' = p
  BY <1>5 DEF takeActions
<1>7. c.relay = 1 /\ p = 0
  BY <1>3, <1>6, RunAndStopStale
<1> QED BY <1>4, <1>7

\* A save stores the record that conf holds.
LEMMA SavedRecord ==
  ASSUME NEW c, writeSettings(c)
  PROVE  ee'.relay = c.relay
BY DEF writeSettings, Written

LEMMA StepKeepsStale ==
  ASSUME NoReload, TypeOK, RelayInv, StaleRecordIsStored, [Next]_vars
  PROVE  StaleRecordIsStored'
<1> SUFFICES ASSUME conf'.relay = 1, pump' = 0 PROVE ee'.relay = 1
  BY DEF StaleRecordIsStored
<1>1. conf \in SettingsType /\ pump \in Level
  BY DEF TypeOK, RelayOK
<1>2. conf.relay = 1 /\ pump = 0 => ee.relay = 1
  BY DEF StaleRecordIsStored
<1>3. CASE InitialReadPass \/ TestNormalPass \/ TestInvertPass \/ TestEndPass
           \/ UnhealthyPass
  <2>1. PICK d \in Elapsed : conf' = OlderConf(d) /\ UNCHANGED <<ee, pump>>
    BY <1>3 DEF InitialReadPass, TestNormalPass, TestInvertPass, TestEndPass,
                UnhealthyPass, TestPassFrame
  <2>2. conf'.relay = conf.relay
    BY <1>1, <2>1, SizeAssumption, OlderConfFields
  <2> QED BY <1>2, <2>1, <2>2
<1>4. CASE InitialisePass
  <2>1. writeSettings(conf')
    BY <1>4 DEF InitialisePass
  <2> QED BY <2>1, SavedRecord
<1>5. CASE ControlPass
  BY <1>2, <1>5, ControlPassStale DEF ControlPass
<1>6. CASE ResetPass \/ PowerCycle
  BY <1>6 DEF ResetPass, PowerCycle, Boot, BootConf
<1>7. CASE switchAOn \/ switchAOff \/ toggleSwitch
  <2>1. UNCHANGED ee /\ (Run \/ Stop \/ UNCHANGED <<conf, pump, queue>>)
    BY <1>7 DEF switchAOn, switchAOff, toggleSwitch
  <2> QED BY <1>1, <1>2, <2>1, RunAndStopStale DEF Run, Stop
<1>8. CASE setSwitchRuntime \/ setNotify \/ setNotifyURL
  <2>1. \E c \in {conf, conf'} : writeSettings(c) /\ (conf' = conf \/ c = conf')
    BY <1>8 DEF setSwitchRuntime, setNotify, setNotifyURL
  <2> QED BY <2>1, SavedRecord
<1>9. CASE handleReset
  <2>1. conf'.relay = conf.relay /\ UNCHANGED <<ee, pump>>
    BY <1>1, <1>9 DEF handleReset, SettingsType
  <2> QED BY <1>2, <2>1
<1>10. CASE getSwitchRuntime \/ getNotify \/ getNotifyURL
  BY <1>10 DEF NoReload, Reloading, getSwitchRuntime, getNotify, getNotifyURL,
               Serves
<1>11. CASE WiFiEvent \/ UNCHANGED vars
  BY <1>2, <1>11 DEF WiFiEvent, vars
<1> QED BY <1>3, <1>4, <1>5, <1>6, <1>7, <1>8, <1>9, <1>10, <1>11
        DEF Next, CoreTask, Handlers

\* A record of a run that is not there comes from the EEPROM: it was saved
\* during a run, and a restart loaded it.
THEOREM StaleRecordCorrect == ASSUME NoReload PROVE Spec => []StaleRecordIsStored
<1>1. Init => StaleRecordIsStored
  BY DEF Init, BootConf, StaleRecordIsStored
<1>2. TypeOK /\ RelayInv /\ StaleRecordIsStored /\ [Next]_vars
      => StaleRecordIsStored'
  BY StepKeepsStale
<1> QED BY <1>1, <1>2, RelayInvariant, PTL DEF Spec

-----------------------------------------------------------------------------
\* The sensor test

\* No sensor test starts while the pump runs, whatever the clients do before.
THEOREM TestStartCorrect == Spec => TestsStartOnStoppedPump
<1>1. ASSUME BootInv, Next, sensorCheck', ~sensorCheck
      PROVE  pump' = 0
  <2>1. CASE ControlPass
    <3>1. PICK d \in Elapsed, low \in Level, high \in Level :
            takeActions(d, ConfAfterGuard(d), PumpAfterGuard(d),
                        LevelError(d, low, high, PumpAfterGuard(d)))
      BY <2>1 DEF ControlPass
    <3> DEFINE p == PumpAfterGuard(d)
               error == LevelError(d, low, high, p)
    <3>2. ~AgeTestStamps(d)
      BY <1>1 DEF AgeTestStamps
    <3>3. Refill(error, p) /\ pump' = p
      BY <3>1, <3>2 DEF takeActions
    <3> QED BY <3>3 DEF Refill
  <2>2. CASE InitialisePass
    BY <1>1, <2>2 DEF InitialisePass, BootInv
  <2>3. CASE InitialReadPass \/ UnhealthyPass
    BY <1>1, <2>3 DEF InitialReadPass, UnhealthyPass, AgeTestStamps
  <2>4. CASE TestNormalPass \/ TestInvertPass \/ TestEndPass
    BY <1>1, <2>4 DEF TestNormalPass, TestInvertPass, TestEndPass, TestPassFrame
  <2>5. CASE ResetPass \/ PowerCycle
    BY <1>1, <2>5 DEF ResetPass, PowerCycle, Boot
  <2>6. CASE Handlers
    BY <1>1, <2>6 DEF Handlers, switchAOn, switchAOff, toggleSwitch,
                getSwitchRuntime, getNotify, getNotifyURL, setSwitchRuntime,
                setNotify, setNotifyURL, handleReset, Serves, testVars
  <2>7. CASE WiFiEvent
    BY <1>1, <2>7 DEF WiFiEvent, testVars
  <2> QED BY <1>1, <2>1, <2>2, <2>3, <2>4, <2>5, <2>6, <2>7 DEF Next, CoreTask
<1>2. BootInv /\ [Next]_vars => [sensorCheck' /\ ~sensorCheck => pump' = 0]_vars
  BY <1>1
<1> QED BY <1>2, BootInvariant, PTL DEF Spec, TestsStartOnStoppedPump

\* Between two tests the record of the last one has its age, or is lost; a
\* failed one leaves the controller inited, out of the test and beeping.
TestInv ==
  /\ inited /\ ~sensorCheck => lastSensorTest \in {Never, sensorTestTime}
  /\ health = 0 => inited /\ ~sensorCheck /\ BEEPING

\* While millis() stays below 2^31 the record is not lost.
KeptInv ==
  /\ ~signBit
  /\ inited /\ ~sensorCheck => lastSensorTest = sensorTestTime

\* The two ages grow together.
LEMMA AgingKeepsTest ==
  ASSUME TestOK, NEW d \in Nat, AgeTestStamps(d)
  PROVE  /\ lastSensorTest = sensorTestTime => lastSensorTest' = sensorTestTime'
         /\ lastSensorTest = Never => lastSensorTest' = Never
         /\ UNCHANGED <<sensorCheck, health>>
<1> USE DEF AgeTestStamps, TestTimeAge, SensorTestAge
<1>1. lastSensorTest = sensorTestTime => lastSensorTest' = sensorTestTime'
  BY Zenon
<1>2. lastSensorTest = Never => lastSensorTest' = Never
  BY Zenon DEF Older
<1> QED BY <1>1, <1>2

\* What a control pass does to the sensor test: it only ages it or starts one.
LEMMA ControlPassTest ==
  ASSUME ControlPass
  PROVE  /\ \E d \in Elapsed : AgeTestStamps(d) \/ doSensorTest(d)
         /\ inited /\ inited' /\ ~sensorCheck /\ health = 1
         /\ \E d \in Elapsed : AdvanceClock(d)
<1>1. PICK d \in Elapsed, low \in Level, high \in Level :
        /\ AdvanceClock(d)
        /\ takeActions(d, ConfAfterGuard(d), PumpAfterGuard(d),
                       LevelError(d, low, high, PumpAfterGuard(d)))
  BY DEF ControlPass
<1>2. AgeTestStamps(d) \/ doSensorTest(d)
  BY <1>1 DEF takeActions
<1> QED BY <1>1, <1>2 DEF ControlPass, Supervising

\* Handlers and WiFi events leave the test alone.
LEMMA OthersLeaveTest ==
  ASSUME Handlers \/ WiFiEvent \/ UNCHANGED vars
  PROVE  UNCHANGED <<inited, signBit, sensorCheck, sensorTestTime,
                     lastSensorTest, health, BEEPING>>
<1>1. CASE Handlers
  <2>1. PICK e \in Endpoints : Serves(e)
    BY <1>1 DEF Handlers, switchAOn, switchAOff, toggleSwitch,
                getSwitchRuntime, getNotify, getNotifyURL, setSwitchRuntime,
                setNotify, setNotifyURL, handleReset, Serves
  <2> QED BY <2>1 DEF Serves, clockVars, testVars
<1>2. CASE WiFiEvent \/ UNCHANGED vars
  BY <1>2 DEF WiFiEvent, vars, clockVars, testVars
<1> QED BY <1>1, <1>2

\* Every step keeps TestInv.
LEMMA StepKeepsTest ==
  ASSUME TypeOK, TestInv, [Next]_vars
  PROVE  TestInv'
<1> USE DEF TestInv
<1>1. CASE InitialReadPass
  BY <1>1 DEF InitialReadPass, AgeTestStamps
<1>2. CASE InitialisePass
  BY <1>2 DEF InitialisePass, doSensorTest
<1>3. CASE TestNormalPass
  BY <1>3 DEF TestNormalPass, TestPassFrame
<1>4. CASE TestInvertPass
  BY <1>4 DEF TestInvertPass, TestPassFrame, AgeTestStamps
<1>5. CASE TestEndPass
  <2>1. PICK passed \in BOOLEAN : /\ health' = IF passed THEN 1 ELSE 0
                                 /\ BEEPING' = (BEEPING \/ ~passed)
    BY <1>5 DEF TestEndPass
  <2>2. lastSensorTest' \in {Never, sensorTestTime'}
    BY <1>5 DEF TestEndPass, TestRecord
  <2>3. ~sensorCheck' /\ inited'
    BY <1>5 DEF TestEndPass, TestPassFrame
  <2>4. health' = 0 => ~passed
    BY <2>1
  <2>5. health' = 0 => BEEPING'
    BY <2>1, <2>4, Zenon
  <2> QED BY <2>2, <2>3, <2>5
<1>6. CASE ControlPass
  <2>1. PICK d \in Elapsed : AgeTestStamps(d) \/ doSensorTest(d)
    BY <1>6, ControlPassTest
  <2>2. inited /\ inited' /\ ~sensorCheck /\ health = 1
    BY <1>6, ControlPassTest
  <2>3. CASE AgeTestStamps(d)
    BY <2>2, <2>3, AgingKeepsTest, SizeAssumption DEF TypeOK
  <2>4. CASE doSensorTest(d)
    BY <2>2, <2>4 DEF doSensorTest
  <2> QED BY <2>1, <2>3, <2>4
<1>7. CASE UnhealthyPass
  <2>1. PICK d \in Elapsed : AgeTestStamps(d)
    BY <1>7 DEF UnhealthyPass
  <2>2. UNCHANGED <<inited, BEEPING>> /\ inited /\ ~sensorCheck
    BY <1>7 DEF UnhealthyPass
  <2> QED BY <2>1, <2>2, AgingKeepsTest, SizeAssumption DEF TypeOK
<1>8. CASE ResetPass \/ PowerCycle
  BY <1>8 DEF ResetPass, PowerCycle, Boot
<1>9. CASE Handlers \/ WiFiEvent \/ UNCHANGED vars
  BY <1>9, OthersLeaveTest
<1> QED BY <1>1, <1>2, <1>3, <1>4, <1>5, <1>6, <1>7, <1>8, <1>9
        DEF Next, CoreTask

\* So TestInv holds in every state.
LEMMA TestInvariant == Spec => [](TypeOK /\ TestInv)
<1>1. Init => TestInv
  BY DEF Init, TestInv
<1>2. TypeOK /\ TestInv /\ [Next]_vars => TestInv'
  BY StepKeepsTest
<1> QED BY <1>1, <1>2, TypeCorrect, PTL DEF Spec

\* After a failed test no pass starts the pump or another test.
THEOREM FailureCorrect == Spec => FailureIsFinal
<1>1. /\ TypeOK /\ TestInv /\ TypeOK' /\ TestInv' /\ [Next]_vars
      => [health = 0 /\ inited' => health' = 0 /\ ~sensorCheck' /\ BEEPING']_vars
  <2> SUFFICES ASSUME TypeOK, TestInv, TestInv', Next, health = 0, inited'
               PROVE  health' = 0 /\ ~sensorCheck' /\ BEEPING'
    OBVIOUS
  <2>1. inited /\ ~sensorCheck
    BY DEF TestInv
  <2>2. health' = 0
    <3>1. CASE UnhealthyPass
      BY <3>1 DEF UnhealthyPass, AgeTestStamps
    <3>2. CASE Handlers \/ WiFiEvent
      BY <3>2, OthersLeaveTest
    <3>3. ~(InitialReadPass \/ InitialisePass \/ TestNormalPass
              \/ TestInvertPass \/ TestEndPass \/ ControlPass \/ ResetPass)
      BY <2>1 DEF InitialReadPass, InitialisePass, TestNormalPass,
                  TestInvertPass, TestEndPass, TestPassFrame, ControlPass,
                  ResetPass, Supervising
    <3>4. ~PowerCycle
      BY DEF PowerCycle, Boot
    <3> QED BY <3>1, <3>2, <3>3, <3>4 DEF Next, CoreTask
  <2> QED BY <2>2 DEF TestInv
<1> QED BY <1>1, TestInvariant, PTL DEF Spec, FailureIsFinal

\* Only the refill of a control pass starts the pump by itself.
LEMMA OnlyRefillStarts ==
  ASSUME TypeOK, CoreTask, pump = 0, pump' = 1
  PROVE  /\ ControlPass
         /\ \E d \in Elapsed :
              /\ InsufficientWater(tankState') /\ trackTankFull(d)
              /\ wasTestedRecently(d) /\ AgeTestStamps(d)
<1>1. ControlPass
  BY DEF CoreTask, InitialReadPass, InitialisePass, TestNormalPass,
         TestInvertPass, TestEndPass, TestPassFrame, ResetPass, Boot,
         UnhealthyPass
<1>2. PICK d \in Elapsed, low \in Level, high \in Level :
        /\ evaluateTankState(d, low, high, PumpAfterGuard(d))
        /\ takeActions(d, ConfAfterGuard(d), PumpAfterGuard(d),
                       LevelError(d, low, high, PumpAfterGuard(d)))
  BY <1>1 DEF ControlPass
<1> DEFINE p == PumpAfterGuard(d)
           error == LevelError(d, low, high, p)
<1>3. p = 0
  BY DEF PumpAfterGuard, MustStop
<1>4. trackTankFull(d)
  BY <1>2 DEF evaluateTankState
<1>5. Refill(error, p) /\ wasTestedRecently(d) /\ AgeTestStamps(d)
  <2> HIDE DEF p, error
  <2>1. takeActions(d, ConfAfterGuard(d), p, error)
    BY <1>2 DEF p, error
  <2> QED BY <2>1, <1>3 DEF takeActions
<1> QED BY <1>1, <1>4, <1>5 DEF Refill

\* A refill finds a dry tank and a test of this uptime that passed recently.
THEOREM RefillCorrect == Spec => RefillOnlyWhenDryAndTested
<1>1. TypeOK /\ TestInv /\ [Next]_vars
      => [pump = 0 /\ pump' = 1 /\ CoreTask =>
            /\ tankState'.low = 0 /\ tankState'.high = 0 /\ ~TANK_FULL'
            /\ health' = 1 /\ ~sensorCheck'
            /\ lastSensorTest' \in 0 .. SENSOR_RECENT_TEST_THRESHOLD
            /\ sensorTestTime' = lastSensorTest']_vars
  <2> SUFFICES ASSUME TypeOK, TestInv, pump = 0, pump' = 1, CoreTask
               PROVE  /\ tankState'.low = 0 /\ tankState'.high = 0
                      /\ ~TANK_FULL' /\ health' = 1 /\ ~sensorCheck'
                      /\ lastSensorTest' \in 0 .. SENSOR_RECENT_TEST_THRESHOLD
                      /\ sensorTestTime' = lastSensorTest'
    OBVIOUS
  <2>1. PICK d \in Elapsed :
          /\ InsufficientWater(tankState') /\ trackTankFull(d)
          /\ wasTestedRecently(d) /\ AgeTestStamps(d)
    BY OnlyRefillStarts
  <2>2. inited /\ ~sensorCheck /\ health = 1
    BY OnlyRefillStarts, ControlPassTest
  <2>3. tankState'.low = 0 /\ tankState'.high = 0
    BY <2>1 DEF InsufficientWater
  <2>4. ~TANK_FULL'
    <3>1. TANK_FULL' = (tankState'.low = 1 /\ tankState'.high = 1)
      BY <2>1, Zenon DEF trackTankFull
    <3>2. ~(tankState'.low = 1 /\ tankState'.high = 1)
      BY <2>3
    <3> QED BY <3>1, <3>2, Zenon
  <2>5. lastSensorTest' \in 0 .. SENSOR_RECENT_TEST_THRESHOLD
    BY <2>1 DEF wasTestedRecently, AgeTestStamps
  <2>6. lastSensorTest # Never
    BY <2>1, <2>5, AgingKeepsTest, SizeAssumption, ThresholdAssumption
       DEF TypeOK
  <2>7. lastSensorTest = sensorTestTime
    BY <2>2, <2>6 DEF TestInv
  <2>8. sensorTestTime' = lastSensorTest' /\ health' = 1 /\ ~sensorCheck'
    BY <2>1, <2>2, <2>7, AgingKeepsTest, SizeAssumption DEF TypeOK
  <2> QED BY <2>3, <2>4, <2>5, <2>8
<1> QED BY <1>1, TestInvariant, PTL DEF Spec, RefillOnlyWhenDryAndTested

\* As long as millis() stays below 2^31, the end of a test is remembered.
THEOREM RememberedCorrect == ASSUME ~LongUptime PROVE Spec => []TestIsRemembered
<1>1. Init => KeptInv
  BY DEF Init, KeptInv
<1>2. TypeOK /\ KeptInv /\ [Next]_vars => KeptInv'
  <2> SUFFICES ASSUME TypeOK, KeptInv, [Next]_vars PROVE KeptInv'
    OBVIOUS
  <2> USE DEF KeptInv
  <2>1. CASE CoreTask /\ ~ResetPass
    <3>1. ~signBit'
      BY <2>1, ControlPassTest DEF CoreTask, InitialReadPass, InitialisePass,
         TestNormalPass, TestInvertPass, TestEndPass, TestPassFrame,
         UnhealthyPass, AdvanceClock
    <3>2. CASE InitialReadPass \/ InitialisePass \/ TestNormalPass
                 \/ TestInvertPass
      BY <3>1, <3>2 DEF InitialReadPass, InitialisePass, TestNormalPass,
         TestInvertPass, TestPassFrame, AgeTestStamps, doSensorTest
    <3>3. CASE TestEndPass
      BY <3>1, <3>3 DEF TestEndPass, TestRecord
    <3>4. CASE ControlPass
      <4>1. PICK d \in Elapsed : AgeTestStamps(d) \/ doSensorTest(d)
        BY <3>4, ControlPassTest
      <4>2. inited /\ inited' /\ ~sensorCheck
        BY <3>4, ControlPassTest
      <4>3. CASE AgeTestStamps(d)
        BY <3>1, <4>2, <4>3, AgingKeepsTest, SizeAssumption DEF TypeOK
      <4>4. CASE doSensorTest(d)
        BY <3>1, <4>4 DEF doSensorTest
      <4> QED BY <4>1, <4>3, <4>4
    <3>5. CASE UnhealthyPass
      <4>1. PICK d \in Elapsed : AgeTestStamps(d)
        BY <3>5 DEF UnhealthyPass
      <4>2. inited /\ ~sensorCheck
        BY <3>5 DEF UnhealthyPass
      <4> QED BY <3>1, <4>1, <4>2, AgingKeepsTest, SizeAssumption DEF TypeOK
    <3> QED BY <2>1, <3>2, <3>3, <3>4, <3>5 DEF CoreTask
  <2>2. CASE ResetPass \/ PowerCycle
    BY <2>2 DEF ResetPass, PowerCycle, Boot
  <2>3. CASE Handlers \/ WiFiEvent \/ UNCHANGED vars
    BY <2>3, OthersLeaveTest
  <2> QED BY <2>1, <2>2, <2>3 DEF Next
<1>3. KeptInv => TestIsRemembered
  BY DEF KeptInv, TestIsRemembered
<1> QED BY <1>1, <1>2, <1>3, TypeCorrect, PTL DEF Spec
=============================================================================
