----------------------- MODULE PumpController_proofs -----------------------
(***************************************************************************)
(* Proofs about the irrigation pump controller, for every threshold, every *)
(* set of runtimes and every set of clients the assumptions allow.         *)
(***************************************************************************)
EXTENDS PumpController, TLAPS

USE DEF Level

-----------------------------------------------------------------------------
\* The helpers

\* A remainder is below the modulus and not above the number.
LEMMA Remainder ==
  ASSUME NEW a \in Nat, NEW b \in Nat \ {0}
  PROVE  a % b \in 0 .. b - 1 /\ a % b <= a
<1>1. a % b \in 0 .. b - 1
  OBVIOUS
<1>2. CASE a < b
  BY <1>2
<1>3. CASE a >= b
  BY <1>1, <1>3
<1> QED BY <1>1, <1>2, <1>3

\* A runtime is a number.
LEMMA RuntimeType ==
  ASSUME NEW r \in Runtimes \cup (0 .. ByteRange - 1)
  PROVE  r \in Nat
<1>1. CASE r \in Runtimes
  BY <1>1, PumpSizes
<1>2. CASE r \in 0 .. ByteRange - 1
  BY <1>2, PumpSizes
<1> QED BY <1>1, <1>2

\* An age stays below its saturation.
LEMMA OlderType ==
  ASSUME NEW t \in Nat, NEW age \in 0 .. t + 1, NEW d \in Nat
  PROVE  Older(age, d, t) \in 0 .. t + 1
BY DEF Older, Min2

\* Settings that are written fit their bytes; the reset request and, up to its
\* byte, the runtime are the ones of RAM.
LEMMA WrittenType ==
  ASSUME NEW c \in Recorded, NEW e \in Written(c)
  PROVE  e \in Stored /\ e.reset = c.reset /\ e.runtime <= c.runtime
<1>0. c.runtime \in Runtimes \cup (0 .. ByteRange - 1)
  BY DEF Recorded
<1>1. c.runtime \in Nat /\ ByteRange \in Nat \ {0}
  BY <1>0, RuntimeType, PumpSizes
<1>2. c.runtime % ByteRange \in 0 .. ByteRange - 1 /\ c.runtime % ByteRange <= c.runtime
  BY <1>1, Remainder
<1>3. PICK o \in ByteOrders : e = [relay |-> c.relay, runtime |-> c.runtime % ByteRange,
                               order |-> o, reset |-> c.reset, notify |-> c.notify]
  BY DEF Written, ByteOrders
<1>4. c.relay \in {0, 1} /\ c.reset \in {0, 1} /\ c.notify \in {0, 1}
  BY DEF Recorded
<1> QED BY <1>2, <1>3, <1>4 DEF Stored

\* Loaded settings are settings with the stored runtime and reset request.
LEMMA LoadedType ==
  ASSUME ee \in Stored, NEW c \in Loaded
  PROVE  c \in Recorded /\ c.reset = ee.reset /\ c.runtime = ee.runtime
<1>1. PICK age \in INIT_DELAY .. ClockCap :
        c = [relay |-> ee.relay, runtime |-> ee.runtime, start |-> age,
             stop |-> StopCap + 1, order |-> ee.order, reset |-> ee.reset,
             notify |-> ee.notify]
  BY DEF Loaded
<1>2. age \in 0 .. ClockCap /\ StopCap + 1 \in 0 .. StopCap + 1
  BY PumpThresholds, PumpClock DEF StopCap
<1>3. /\ ee.relay \in {0, 1} /\ ee.reset \in {0, 1} /\ ee.notify \in {0, 1}
      /\ ee.order \in Orders /\ ee.runtime \in Runtimes \cup (0 .. ByteRange - 1)
  BY DEF Stored, Orders
<1> HIDE DEF Orders
<1> QED BY <1>1, <1>2, <1>3 DEF Recorded

\* The settings after setup().
LEMMA BootType ==
  ASSUME ee \in Stored
  PROVE  /\ BootSettings \in Recorded /\ BootSettings.reset = 0 /\ BootSettings.relay = 0
         /\ BootSettings.runtime \in {DEFAULT_RUNTIME, ee.runtime}
         /\ ee.reset = 1 => BootSettings.runtime = DEFAULT_RUNTIME /\ BootSettings.notify = 0
<1> DEFINE stored == IF ee.reset = 1 THEN Erased ELSE ee
           runtime == IF stored.runtime = 0 THEN DEFAULT_RUNTIME ELSE stored.runtime
           notify == IF stored.runtime = 0 THEN 0 ELSE stored.notify
<1>1. BootSettings = [relay |-> 0, runtime |-> runtime, start |-> INIT_DELAY,
                      stop |-> StopCap + 1, order |-> "none", reset |-> stored.reset,
                      notify |-> notify]
  BY DEF BootSettings
<1>2. Erased.runtime = 0 /\ Erased.reset = 0 /\ Erased.notify = 0
  BY DEF Erased
<1>3. ee.runtime \in 0 .. ByteRange - 1 /\ ee.reset \in {0, 1} /\ ee.notify \in {0, 1}
  BY DEF Stored
<1>4. stored.reset = 0 /\ notify \in {0, 1} /\ (ee.reset = 1 => notify = 0)
  BY <1>2, <1>3
<1>5. runtime \in {DEFAULT_RUNTIME, ee.runtime}
      /\ (ee.reset = 1 => runtime = DEFAULT_RUNTIME)
  BY <1>2
<1>6. runtime \in 0 .. ByteRange - 1
  BY <1>3, <1>5, PumpSizes
<1>7. INIT_DELAY \in 0 .. ClockCap /\ StopCap + 1 \in 0 .. StopCap + 1 /\ "none" \in Orders
  BY PumpThresholds, PumpClock DEF StopCap, Orders, ByteOrders
<1> HIDE DEF stored, runtime, notify
<1> QED BY <1>1, <1>4, <1>5, <1>6, <1>7 DEF Recorded

\* Settings stay settings when time passes and when the relays switch; their
\* ages do not go back, and a tick counts up to where they saturate.
LEMMA OlderConfType ==
  ASSUME conf \in Recorded, NEW d \in {0, 1}
  PROVE  /\ OlderConf(d) \in Recorded
         /\ OlderConf(d).relay = conf.relay /\ OlderConf(d).runtime = conf.runtime
         /\ OlderConf(d).order = conf.order /\ OlderConf(d).reset = conf.reset
         /\ OlderConf(d).start >= conf.start /\ OlderConf(d).stop >= conf.stop
         /\ d = 0 => OlderConf(d).start = conf.start
         /\ d = 1 => /\ OlderConf(d).start \in {conf.start + 1, ClockCap}
                     /\ OlderConf(d).stop \in {conf.stop + 1, StopCap + 1}
<1>1. conf.start \in 0 .. ClockCap /\ ClockCap \in Nat
  BY PumpClock DEF Recorded
<1>2. conf.stop \in 0 .. StopCap + 1 /\ StopCap \in Nat
  BY PumpThresholds DEF Recorded, StopCap
<1>3. /\ Min2(conf.start + d, ClockCap) \in 0 .. ClockCap
      /\ Min2(conf.start + d, ClockCap) >= conf.start
      /\ d = 0 => Min2(conf.start + d, ClockCap) = conf.start
      /\ d = 1 => Min2(conf.start + d, ClockCap) \in {conf.start + 1, ClockCap}
  BY <1>1 DEF Min2
<1>4. Older(conf.stop, d, StopCap) \in 0 .. StopCap + 1
  BY <1>2, OlderType
<1>5. /\ Older(conf.stop, d, StopCap) >= conf.stop
      /\ d = 1 => Older(conf.stop, d, StopCap) \in {conf.stop + 1, StopCap + 1}
  BY <1>2 DEF Older, Min2
<1> QED BY <1>3, <1>4, <1>5 DEF OlderConf, Recorded

LEMMA SwitchType ==
  ASSUME NEW c \in Recorded
  PROVE  /\ switchOnCompositeRelay(c) \in Recorded
         /\ switchOffCompositeRelay(c) \in Recorded
         /\ switchOnCompositeRelay(c).reset = c.reset
         /\ switchOffCompositeRelay(c).reset = c.reset
         /\ switchOnCompositeRelay(c).runtime = c.runtime
         /\ switchOffCompositeRelay(c).runtime = c.runtime
         /\ switchOnCompositeRelay(c).relay = 1 /\ switchOnCompositeRelay(c).start = 0
         /\ switchOnCompositeRelay(c).order = Stamped("started")
<1>1. 0 \in 0 .. ClockCap /\ 0 \in 0 .. StopCap + 1
  BY PumpThresholds, PumpClock DEF StopCap
<1>2. "none" \in Orders /\ Stamped("started") \in Orders /\ Stamped("later") \in Orders
  BY DEF Orders, ByteOrders, Stamped
<1> HIDE DEF Orders, Stamped
<1>3. switchOnCompositeRelay(c) \in Recorded /\ switchOffCompositeRelay(c) \in Recorded
  BY <1>1, <1>2 DEF Recorded, switchOnCompositeRelay, switchOffCompositeRelay
<1> QED BY <1>3 DEF Recorded, switchOnCompositeRelay, switchOffCompositeRelay

\* The queue keeps its limit.
LEMMA QueueType ==
  ASSUME queue \in 0 .. NOTICE_LIMIT, NEW n \in Nat, Notify(n)
  PROVE  queue' \in 0 .. NOTICE_LIMIT
<1>1. Min2(queue + n, NOTICE_LIMIT) \in 0 .. NOTICE_LIMIT
  BY PumpSizes DEF Min2
<1> QED BY <1>1, PumpSizes DEF Notify

-----------------------------------------------------------------------------
\* The parts of a pass

\* What relayConditionSafeGuard makes of settings c: they stay or the pump is
\* switched off, and a pass in which it runs leaves a run on record only with
\* water and in time.
LEMMA GuardResult ==
  ASSUME TypeOK, NEW d \in {0, 1}, NEW runs \in BOOLEAN, NEW c \in Recorded,
         Guard(d, runs, c)
  PROVE  /\ conf' \in Recorded /\ pump' \in {0, 1}
         /\ conf'.reset = c.reset /\ conf'.runtime = c.runtime
         /\ switchOpen' \in BOOLEAN /\ LIQUID_LEVEL_OK' \in BOOLEAN
         /\ lastOpenSwitchDetect' \in 0 .. FLOAT_SWITCH_DEBOUNCE
         /\ pump' = 1 => conf' = c /\ pump = 1
         /\ runs /\ pump' = 1 /\ c.relay = 1 => LIQUID_LEVEL_OK' /\ ~TimeOver(c)
         /\ ~runs => LIQUID_LEVEL_OK' = LIQUID_LEVEL_OK
<1>1. CASE ~runs
  <2>1. /\ conf' = c /\ pump' = pump /\ switchOpen' = switchOpen
        /\ lastOpenSwitchDetect' = lastOpenSwitchDetect
        /\ LIQUID_LEVEL_OK' = LIQUID_LEVEL_OK
    BY <1>1, Zenon DEF Guard
  <2>2. switchOpen' \in BOOLEAN /\ LIQUID_LEVEL_OK' \in BOOLEAN
    BY <2>1, Zenon DEF TypeOK
  <2> QED BY <1>1, <2>1, <2>2 DEF TypeOK
<1>2. CASE runs
  <2>1. PICK open \in BOOLEAN : FloatSwitch(open, d)
    BY <1>2 DEF Guard
  <2>2. IF c.relay = 1 /\ MustStop(c, LIQUID_LEVEL_OK')
        THEN conf' = switchOffCompositeRelay(c) /\ pump' = 0
        ELSE conf' = c /\ UNCHANGED pump
    BY <1>2, Zenon DEF Guard
  <2>3. switchOpen' \in BOOLEAN /\ LIQUID_LEVEL_OK' \in BOOLEAN
    BY <2>1, Zenon DEF FloatSwitch
  <2>4. lastOpenSwitchDetect' \in 0 .. FLOAT_SWITCH_DEBOUNCE
    <3>1. lastOpenSwitchDetect \in 0 .. FLOAT_SWITCH_DEBOUNCE /\ FLOAT_SWITCH_DEBOUNCE \in Nat
      BY PumpThresholds DEF TypeOK
    <3> QED BY <2>1, <3>1 DEF FloatSwitch, Min2
  <2>5. CASE c.relay = 1 /\ MustStop(c, LIQUID_LEVEL_OK')
    BY <1>2, <2>2, <2>3, <2>4, <2>5, SwitchType
  <2>6. CASE ~(c.relay = 1 /\ MustStop(c, LIQUID_LEVEL_OK'))
    <3>1. conf' = c /\ pump' = pump
      BY <2>2, <2>6
    <3>2. c.relay = 1 => LIQUID_LEVEL_OK' /\ ~TimeOver(c)
      BY <2>6 DEF MustStop
    <3> QED BY <1>2, <2>3, <2>4, <3>1, <3>2 DEF TypeOK
  <2> QED BY <2>5, <2>6
<1> QED BY <1>1, <1>2

\* checkPumpRunningStatus keeps its types.
LEMMA FeedbackType ==
  ASSUME TypeOK, NEW flows \in BOOLEAN, NEW d \in {0, 1}, checkPumpRunningStatus(flows, d)
  PROVE  /\ PUMP_CONNECTION_ON' \in BOOLEAN
         /\ lastPumpStopFeedbackTime' \in 0 .. PUMP_CONNECTION_SENSOR_NOISE_THRESHOLD + 1
<1> DEFINE age == Older(lastPumpStopFeedbackTime, d, PUMP_CONNECTION_SENSOR_NOISE_THRESHOLD)
<1>1. age \in 0 .. PUMP_CONNECTION_SENSOR_NOISE_THRESHOLD + 1
  BY OlderType, PumpThresholds DEF TypeOK
<1>2. lastPumpStopFeedbackTime' = IF PUMP_CONNECTION_ON /\ ~flows THEN 0 ELSE age
  BY DEF checkPumpRunningStatus
<1>3. PUMP_CONNECTION_ON' \in BOOLEAN
  BY Zenon DEF checkPumpRunningStatus
<1> HIDE DEF age
<1> QED BY <1>1, <1>2, <1>3, PumpThresholds

\* Notices of a pass.
LEMMA PassQueue ==
  ASSUME TypeOK, NEW a, NEW b,
         Notify((IF a THEN 1 ELSE 0) + (IF b THEN 1 ELSE 0))
  PROVE  queue' \in 0 .. NOTICE_LIMIT
<1> DEFINE n == (IF a THEN 1 ELSE 0) + (IF b THEN 1 ELSE 0)
<1>1. n \in Nat
  OBVIOUS
<1> HIDE DEF n
<1>2. Notify(n)
  BY DEF n
<1> QED BY <1>1, <1>2, QueueType DEF TypeOK

\* A pass as a whole, for the invariants.
LEMMA PassResult ==
  ASSUME TypeOK, NEW d \in {0, 1}, LoopPass(d)
  PROVE  /\ TypeOK'
         /\ conf.reset = 0 /\ conf'.reset = 0 /\ conf'.runtime = conf.runtime
         /\ ee' = ee /\ reloaded' = reloaded /\ signBit' = signBit
         /\ pump' = 1 =>
              /\ pump = 1 /\ conf'.relay = conf.relay /\ conf'.order = conf.order
              /\ conf.relay = 1 =>
                   \/ LIQUID_LEVEL_OK' /\ conf'.start <= conf'.runtime
                   \/ LIQUID_LEVEL_OK' = LIQUID_LEVEL_OK /\ conf'.start = conf.start
         /\ PUMP_RUN_REQUEST_TOKEN /\ conf'.order # "later" => PUMP_RUN_REQUEST_TOKEN'
<1>1. PICK runs \in BOOLEAN : Guard(d, runs, OlderConf(d)) /\ (d = 1 => runs)
  <2>1. \E runs \in IF d = 0 THEN BOOLEAN ELSE {TRUE} : Guard(d, runs, OlderConf(d))
    BY DEF LoopPass
  <2>2. CASE d = 0
    <3>1. PICK runs \in BOOLEAN : Guard(d, runs, OlderConf(d))
      BY <2>1, <2>2
    <3>2. d # 1
      BY <2>2
    <3> QED BY <3>1, <3>2, Zenon
  <2>3. CASE d = 1
    <3>1. (IF d = 0 THEN BOOLEAN ELSE {TRUE}) = {TRUE}
      BY <2>3
    <3>2. PICK runs \in {TRUE} : Guard(d, runs, OlderConf(d))
      BY <2>1, <3>1, Zenon
    <3>3. runs \in BOOLEAN /\ runs
      BY <3>2, Zenon
    <3> QED BY <3>2, <3>3, Zenon
  <2> QED BY <2>2, <2>3
<1>2. PICK flows \in BOOLEAN : checkPumpRunningStatus(flows, d)
  BY DEF LoopPass
<1>3. PICK due \in BOOLEAN :
        /\ checkUnauthorizedRun(due)
        /\ Notify((IF PUMP_CONNECTION_ON' # PUMP_CONNECTION_ON THEN 1 ELSE 0)
                  + (IF CanCheck(due) /\ systemFault' THEN 1 ELSE 0))
  <2>1. (IF d = 0 THEN BOOLEAN ELSE AgesArePositive) \subseteq BOOLEAN
    BY DEF AgesArePositive, StopIsPositive
  <2>2. PICK due \in IF d = 0 THEN BOOLEAN ELSE AgesArePositive :
          /\ checkUnauthorizedRun(due)
          /\ Notify((IF PUMP_CONNECTION_ON' # PUMP_CONNECTION_ON THEN 1 ELSE 0)
                    + (IF CanCheck(due) /\ systemFault' THEN 1 ELSE 0))
    BY DEF LoopPass
  <2> QED BY <2>1, <2>2
<1> DEFINE c == OlderConf(d)
<1>4. /\ c \in Recorded /\ c.relay = conf.relay /\ c.runtime = conf.runtime
      /\ c.order = conf.order /\ c.reset = conf.reset /\ (d = 0 => c.start = conf.start)
  BY OlderConfType DEF TypeOK
<1>5. Guard(d, runs, c)
  BY <1>1
<1> HIDE DEF c
<1>6. /\ conf' \in Recorded /\ pump' \in {0, 1}
      /\ conf'.reset = c.reset /\ conf'.runtime = c.runtime
      /\ switchOpen' \in BOOLEAN /\ LIQUID_LEVEL_OK' \in BOOLEAN
      /\ lastOpenSwitchDetect' \in 0 .. FLOAT_SWITCH_DEBOUNCE
      /\ pump' = 1 => conf' = c /\ pump = 1
      /\ runs /\ pump' = 1 /\ c.relay = 1 => LIQUID_LEVEL_OK' /\ ~TimeOver(c)
      /\ ~runs => LIQUID_LEVEL_OK' = LIQUID_LEVEL_OK
  BY <1>4, <1>5, GuardResult
<1>7. PUMP_CONNECTION_ON' \in BOOLEAN
      /\ lastPumpStopFeedbackTime' \in 0 .. PUMP_CONNECTION_SENSOR_NOISE_THRESHOLD + 1
  BY <1>2, FeedbackType
<1>8. systemFault' \in BOOLEAN
  <2>1. systemFault \in BOOLEAN
    BY DEF TypeOK
  <2> QED BY <1>3, <2>1, Zenon DEF checkUnauthorizedRun
<1>9. queue' \in 0 .. NOTICE_LIMIT
  BY <1>3, PassQueue
<1>10. beeping' \in BOOLEAN
  BY Zenon DEF LoopPass
<1>11. PICK positive \in BOOLEAN :
         PUMP_RUN_REQUEST_TOKEN' =
           (PUMP_RUN_REQUEST_TOKEN /\ ~(positive /\ canReleaseToken(conf')))
  <2>1. StopIsPositive \subseteq BOOLEAN
    BY DEF StopIsPositive
  <2> QED BY <2>1 DEF LoopPass
<1>12. ee' = ee /\ reloaded' = reloaded /\ signBit' = signBit /\ conf.reset = 0
  BY DEF LoopPass
<1>13. TypeOK'
  <2>1. reloaded' \in BOOLEAN /\ signBit' \in BOOLEAN
    BY <1>12, Zenon DEF TypeOK
  <2>2. PUMP_RUN_REQUEST_TOKEN' \in BOOLEAN
    BY <1>11, Zenon
  <2> QED BY <1>6, <1>7, <1>8, <1>9, <1>10, <1>12, <2>1, <2>2 DEF TypeOK
<1>14. PUMP_RUN_REQUEST_TOKEN /\ conf'.order # "later" => PUMP_RUN_REQUEST_TOKEN'
  <2>1. conf'.order # "later" => ~canReleaseToken(conf')
    BY Zenon DEF canReleaseToken
  <2> QED BY <1>11, <2>1, Zenon
<1>15. ASSUME pump' = 1, conf.relay = 1
       PROVE  \/ LIQUID_LEVEL_OK' /\ conf'.start <= conf'.runtime
              \/ LIQUID_LEVEL_OK' = LIQUID_LEVEL_OK /\ conf'.start = conf.start
  <2>1. conf' = c
    BY <1>6, <1>15
  <2>2. CASE runs
    <3>1. LIQUID_LEVEL_OK' /\ ~(c.start > c.runtime)
      BY <1>4, <1>6, <1>15, <2>2 DEF TimeOver
    <3>2. c.start \in Nat /\ c.runtime \in Nat
      <4>1. c.runtime \in Runtimes \cup (0 .. ByteRange - 1) /\ c.start \in 0 .. ClockCap
        BY <1>4 DEF Recorded
      <4> QED BY <4>1, RuntimeType, PumpClock
    <3>3. c.start <= c.runtime
      BY <3>1, <3>2
    <3> QED BY <2>1, <3>1, <3>3, Zenon
  <2>3. CASE ~runs
    <3>1. LIQUID_LEVEL_OK' = LIQUID_LEVEL_OK
      BY <1>6, <2>3
    <3>2. conf'.start = conf.start
      BY <1>1, <1>4, <2>1, <2>3
    <3> QED BY <3>1, <3>2
  <2> QED BY <2>2, <2>3
<1>16. pump' = 1 => pump = 1 /\ conf'.relay = conf.relay /\ conf'.order = conf.order
  BY <1>4, <1>6
<1> QED BY <1>4, <1>6, <1>12, <1>13, <1>14, <1>15, <1>16

-----------------------------------------------------------------------------
\* Types

LEMMA BootTyped ==
  ASSUME TypeOK, Boot
  PROVE  TypeOK'
<1>1. conf' \in Recorded
  BY BootType DEF Boot, TypeOK
<1>2. ee' \in Stored
  <2>1. BootSettings \in Recorded /\ ee' \in Written(BootSettings)
    BY BootType DEF Boot, TypeOK, writeSettings
  <2> QED BY <2>1, WrittenType
<1>3. /\ pump' = 0 /\ PUMP_RUN_REQUEST_TOKEN' = FALSE /\ PUMP_CONNECTION_ON' = FALSE
      /\ lastPumpStopFeedbackTime' = PUMP_CONNECTION_SENSOR_NOISE_THRESHOLD + 1
      /\ switchOpen' = FALSE /\ lastOpenSwitchDetect' = 0 /\ LIQUID_LEVEL_OK' = TRUE
      /\ systemFault' = FALSE /\ beeping' = FALSE /\ queue' = 0
      /\ signBit' = FALSE /\ reloaded' = FALSE
  BY DEF Boot
<1>4. /\ lastPumpStopFeedbackTime' \in 0 .. PUMP_CONNECTION_SENSOR_NOISE_THRESHOLD + 1
      /\ lastOpenSwitchDetect' \in 0 .. FLOAT_SWITCH_DEBOUNCE
      /\ queue' \in 0 .. NOTICE_LIMIT
  BY <1>3, PumpThresholds, PumpSizes
<1>5. /\ PUMP_RUN_REQUEST_TOKEN' \in BOOLEAN /\ PUMP_CONNECTION_ON' \in BOOLEAN
      /\ switchOpen' \in BOOLEAN /\ LIQUID_LEVEL_OK' \in BOOLEAN
      /\ systemFault' \in BOOLEAN /\ beeping' \in BOOLEAN
      /\ signBit' \in BOOLEAN /\ reloaded' \in BOOLEAN
  BY <1>3
<1> QED BY <1>1, <1>2, <1>3, <1>4, <1>5 DEF TypeOK

\* What the handlers have in common: sensors and faults stay.
LEMMA HandlerTyped ==
  ASSUME TypeOK, conf' \in Recorded, ee' \in Stored, pump' \in {0, 1},
         queue' \in 0 .. NOTICE_LIMIT,
         PUMP_RUN_REQUEST_TOKEN' \in BOOLEAN, reloaded' \in BOOLEAN,
         signBit' \in BOOLEAN,
         UNCHANGED <<sensorVars, faultVars>>
  PROVE  TypeOK'
<1>1. /\ PUMP_CONNECTION_ON' = PUMP_CONNECTION_ON /\ switchOpen' = switchOpen
      /\ LIQUID_LEVEL_OK' = LIQUID_LEVEL_OK /\ systemFault' = systemFault
      /\ beeping' = beeping /\ lastOpenSwitchDetect' = lastOpenSwitchDetect
      /\ lastPumpStopFeedbackTime' = lastPumpStopFeedbackTime
  BY DEF sensorVars, faultVars
<1>2. /\ PUMP_CONNECTION_ON' \in BOOLEAN /\ switchOpen' \in BOOLEAN
      /\ LIQUID_LEVEL_OK' \in BOOLEAN /\ systemFault' \in BOOLEAN /\ beeping' \in BOOLEAN
  BY <1>1, Zenon DEF TypeOK
<1> QED BY <1>1, <1>2 DEF TypeOK

LEMMA RunTyped ==
  ASSUME TypeOK, runPump
  PROVE  TypeOK'
<1>1. queue' \in 0 .. NOTICE_LIMIT
  <2>1. Min2(queue + 1, NOTICE_LIMIT) \in 0 .. NOTICE_LIMIT
    BY PumpSizes DEF TypeOK, Min2
  <2> QED BY <2>1 DEF runPump, TypeOK
<1>2. conf' \in Recorded /\ pump' \in {0, 1}
  BY SwitchType DEF runPump, TypeOK
<1>3. reloaded' \in BOOLEAN /\ PUMP_RUN_REQUEST_TOKEN' \in BOOLEAN /\ signBit' \in BOOLEAN
  BY Zenon DEF runPump, TypeOK
<1>4. ee' \in Stored /\ UNCHANGED <<sensorVars, faultVars>>
  BY DEF runPump, TypeOK
<1> QED BY <1>1, <1>2, <1>3, <1>4, HandlerTyped

LEMMA StopTyped ==
  ASSUME TypeOK, stopPump
  PROVE  TypeOK'
<1>1. conf' \in Recorded /\ pump' \in {0, 1} /\ ee' \in Stored /\ queue' \in 0 .. NOTICE_LIMIT
      /\ UNCHANGED <<sensorVars, faultVars>>
  BY SwitchType DEF stopPump, TypeOK
<1>2. reloaded' \in BOOLEAN /\ PUMP_RUN_REQUEST_TOKEN' \in BOOLEAN /\ signBit' \in BOOLEAN
  BY Zenon DEF stopPump, TypeOK
<1> QED BY <1>1, <1>2, HandlerTyped

LEMMA SaveTyped ==
  ASSUME TypeOK, NEW c \in Recorded, Save(c)
  PROVE  TypeOK'
<1>1. conf' = c /\ pump' = pump /\ queue' = queue /\ UNCHANGED <<sensorVars, faultVars>>
  BY DEF Save
<1>2. ee' \in Stored
  BY WrittenType DEF Save, writeSettings
<1>3. reloaded' \in BOOLEAN /\ PUMP_RUN_REQUEST_TOKEN' \in BOOLEAN /\ signBit' \in BOOLEAN
  BY Zenon DEF Save, TypeOK
<1>4. pump' \in {0, 1} /\ queue' \in 0 .. NOTICE_LIMIT
  BY <1>1 DEF TypeOK
<1> QED BY <1>1, <1>2, <1>3, <1>4, HandlerTyped

\* A client's change of the settings saves conf with one field replaced.
Change == setSwitchRuntime \/ setNotify \/ setNotifyURL \/ handleReset

LEMMA ChangeSaves ==
  ASSUME TypeOK, Change
  PROVE  \E c \in Recorded :
           /\ Save(c)
           /\ c.relay = conf.relay /\ c.start = conf.start /\ c.order = conf.order
           /\ c.stop = conf.stop
           /\ (c.runtime = conf.runtime \/ c.runtime \in Runtimes)
<1> USE DEF TypeOK
<1>1. CASE setSwitchRuntime
  <2>1. PICK r \in Runtimes : Save([conf EXCEPT !.runtime = r])
    BY <1>1 DEF setSwitchRuntime
  <2> DEFINE c == [conf EXCEPT !.runtime = r]
  <2>2. /\ c \in Recorded /\ c.relay = conf.relay /\ c.start = conf.start
        /\ c.stop = conf.stop /\ c.order = conf.order /\ c.runtime \in Runtimes
    BY DEF Recorded
  <2>3. Save(c)
    BY <2>1
  <2> HIDE DEF c
  <2> QED BY <2>2, <2>3
<1>2. CASE setNotify
  <2>1. PICK n \in Level : Save([conf EXCEPT !.notify = n])
    BY <1>2 DEF setNotify
  <2> DEFINE c == [conf EXCEPT !.notify = n]
  <2>2. /\ c \in Recorded /\ c.relay = conf.relay /\ c.start = conf.start
        /\ c.stop = conf.stop /\ c.order = conf.order /\ c.runtime = conf.runtime
    BY DEF Recorded
  <2>3. Save(c)
    BY <2>1
  <2> HIDE DEF c
  <2> QED BY <2>2, <2>3
<1>3. CASE setNotifyURL
  BY <1>3 DEF setNotifyURL
<1>4. CASE handleReset
  <2> DEFINE c == [conf EXCEPT !.reset = 1]
  <2>1. /\ c \in Recorded /\ c.relay = conf.relay /\ c.start = conf.start
        /\ c.stop = conf.stop /\ c.order = conf.order /\ c.runtime = conf.runtime
    BY DEF Recorded
  <2>2. Save(c)
    BY <1>4 DEF handleReset
  <2> HIDE DEF c
  <2> QED BY <2>1, <2>2
<1> QED BY <1>1, <1>2, <1>3, <1>4 DEF Change

LEMMA TypeStep == TypeOK /\ [Next]_vars => TypeOK'
<1> SUFFICES ASSUME TypeOK, [Next]_vars PROVE TypeOK'
  OBVIOUS
<1>1. CASE LoopPass(0) \/ LoopPass(1)
  BY <1>1, PassResult
<1>2. CASE RestartPass \/ PowerCycle
  BY <1>2, BootTyped DEF RestartPass, PowerCycle
<1>3. CASE switchAOn \/ switchAOff \/ toggleSwitch
  <2>1. runPump \/ stopPump
    BY <1>3, Zenon DEF switchAOn, switchAOff, toggleSwitch
  <2> QED BY <2>1, RunTyped, StopTyped
<1>4. CASE Change
  <2>1. PICK c \in Recorded : Save(c)
    BY <1>4, ChangeSaves, Zenon
  <2> QED BY <2>1, SaveTyped
<1>5. CASE readSettings
  <2>1. conf' \in Recorded /\ pump' \in {0, 1} /\ ee' \in Stored
        /\ queue' \in 0 .. NOTICE_LIMIT /\ UNCHANGED <<sensorVars, faultVars>>
    BY <1>5, LoadedType DEF readSettings, TypeOK
  <2>2. reloaded' \in BOOLEAN /\ PUMP_RUN_REQUEST_TOKEN' \in BOOLEAN /\ signBit' \in BOOLEAN
    BY <1>5, Zenon DEF readSettings, TypeOK
  <2> QED BY <2>1, <2>2, HandlerTyped
<1>6. CASE UNCHANGED vars
  <2>1. /\ conf' = conf /\ ee' = ee /\ pump' = pump /\ queue' = queue
        /\ UNCHANGED <<sensorVars, faultVars>>
        /\ reloaded' = reloaded /\ PUMP_RUN_REQUEST_TOKEN' = PUMP_RUN_REQUEST_TOKEN
        /\ signBit' = signBit
    BY <1>6 DEF vars
  <2>2. reloaded' \in BOOLEAN /\ PUMP_RUN_REQUEST_TOKEN' \in BOOLEAN /\ signBit' \in BOOLEAN
    BY <2>1, Zenon DEF TypeOK
  <2>3. conf' \in Recorded /\ pump' \in {0, 1} /\ ee' \in Stored /\ queue' \in 0 .. NOTICE_LIMIT
    BY <2>1 DEF TypeOK
  <2> QED BY <2>1, <2>2, <2>3, HandlerTyped
<1>7. CASE LongUptimeBegins
  <2>1. /\ conf' = conf /\ ee' = ee /\ pump' = pump /\ queue' = queue
        /\ UNCHANGED <<sensorVars, faultVars>>
        /\ reloaded' = reloaded /\ PUMP_RUN_REQUEST_TOKEN' = PUMP_RUN_REQUEST_TOKEN
        /\ signBit' = TRUE
    BY <1>7 DEF LongUptimeBegins
  <2>2. reloaded' \in BOOLEAN /\ PUMP_RUN_REQUEST_TOKEN' \in BOOLEAN /\ signBit' \in BOOLEAN
    BY <2>1, Zenon DEF TypeOK
  <2>3. conf' \in Recorded /\ pump' \in {0, 1} /\ ee' \in Stored /\ queue' \in 0 .. NOTICE_LIMIT
    BY <2>1 DEF TypeOK
  <2> QED BY <2>1, <2>2, <2>3, HandlerTyped
<1> QED BY <1>1, <1>2, <1>3, <1>4, <1>5, <1>6, <1>7 DEF Next, Change

LEMMA TypeInit == Init => TypeOK
<1> SUFFICES ASSUME Init PROVE TypeOK
  OBVIOUS
<1>1. /\ INIT_DELAY \in 0 .. ClockCap /\ StopCap + 1 \in 0 .. StopCap + 1
      /\ DEFAULT_RUNTIME \in 0 .. ByteRange - 1 /\ "none" \in Orders
  BY PumpThresholds, PumpClock, PumpSizes DEF StopCap, Orders, ByteOrders
<1>2. conf \in Recorded
  <2>1. conf = [relay |-> 0, runtime |-> DEFAULT_RUNTIME, start |-> INIT_DELAY,
                stop |-> StopCap + 1, order |-> "none", reset |-> 0, notify |-> 0]
    BY DEF Init
  <2> HIDE DEF Orders
  <2> QED BY <1>1, <2>1 DEF Recorded
<1>3. ee \in Stored
  <2>1. ee = [relay |-> 0, runtime |-> DEFAULT_RUNTIME, order |-> "none",
              reset |-> 0, notify |-> 0]
    BY DEF Init, Erased
  <2>2. "none" \in ByteOrders
    BY DEF ByteOrders
  <2> HIDE DEF ByteOrders
  <2> QED BY <1>1, <2>1, <2>2 DEF Stored
<1>4. /\ lastPumpStopFeedbackTime \in 0 .. PUMP_CONNECTION_SENSOR_NOISE_THRESHOLD + 1
      /\ lastOpenSwitchDetect \in 0 .. FLOAT_SWITCH_DEBOUNCE
      /\ queue \in 0 .. NOTICE_LIMIT /\ pump \in {0, 1}
  BY PumpThresholds, PumpSizes DEF Init
<1>5. /\ PUMP_RUN_REQUEST_TOKEN \in BOOLEAN /\ PUMP_CONNECTION_ON \in BOOLEAN
      /\ switchOpen \in BOOLEAN /\ LIQUID_LEVEL_OK \in BOOLEAN
      /\ systemFault \in BOOLEAN /\ beeping \in BOOLEAN
      /\ signBit \in BOOLEAN /\ reloaded \in BOOLEAN
  BY DEF Init
<1> QED BY <1>2, <1>3, <1>4, <1>5 DEF TypeOK

-----------------------------------------------------------------------------
\* The invariant

Bounds == Runtimes \cup {DEFAULT_RUNTIME}

\* No runtime, in RAM or stored, is longer than one a client may have asked for.
BoundInv ==
  /\ \E r \in Bounds : conf.runtime <= r
  /\ \E r \in Bounds : ee.runtime <= r

\* A run that no getter has disturbed is on record, held and bounded.
RunInv ==
  pump = 1 /\ ~reloaded =>
    /\ conf.relay = 1 /\ PUMP_RUN_REQUEST_TOKEN /\ conf.order \in {"started", "negative"}
    /\ \E r \in Bounds : conf.start <= r
    /\ ~LIQUID_LEVEL_OK => conf.start = 0

\* A reset that RAM knows of is stored.
ResetInv == conf.reset = 1 => ee.reset = 1

Inv == TypeOK /\ BoundInv /\ RunInv /\ ResetInv

LEMMA BoundsType == Bounds \subseteq Nat /\ DEFAULT_RUNTIME \in Bounds
BY PumpSizes DEF Bounds

\* What a save does to the invariant.
LEMMA SaveKeepsInv ==
  ASSUME Inv, NEW c \in Recorded, Save(c),
         c.relay = conf.relay, c.start = conf.start, c.order = conf.order,
         c.runtime = conf.runtime \/ c.runtime \in Runtimes
  PROVE  BoundInv' /\ RunInv' /\ ResetInv'
<1>1. /\ conf' = c /\ ee' \in Written(c) /\ pump' = pump /\ reloaded' = reloaded
      /\ PUMP_RUN_REQUEST_TOKEN' = PUMP_RUN_REQUEST_TOKEN
      /\ LIQUID_LEVEL_OK' = LIQUID_LEVEL_OK
  BY DEF Save, writeSettings, sensorVars
<1>2. ee' \in Stored /\ ee'.reset = c.reset /\ ee'.runtime <= c.runtime
  BY <1>1, WrittenType
<1>3. PICK r \in Bounds : c.runtime <= r
  <2>1. CASE c.runtime = conf.runtime
    BY <2>1 DEF Inv, BoundInv
  <2>2. CASE c.runtime \in Runtimes
    <3>1. c.runtime \in Bounds /\ c.runtime \in Nat
      BY <2>2, PumpSizes DEF Bounds
    <3>2. c.runtime <= c.runtime
      BY <3>1
    <3> QED BY <3>1, <3>2, Zenon
  <2> QED BY <2>1, <2>2
<1>4. ee'.runtime <= r
  <2>1. ee'.runtime \in Nat /\ c.runtime \in Nat /\ r \in Nat
    <3>1. ee'.runtime \in 0 .. ByteRange - 1
      BY <1>2 DEF Stored
    <3>2. c.runtime \in Runtimes \cup (0 .. ByteRange - 1)
      BY DEF Recorded
    <3> QED BY <3>1, <3>2, RuntimeType, BoundsType
  <2> QED BY <2>1, <1>2, <1>3
<1>5. BoundInv'
  <2>1. \E q \in Bounds : conf'.runtime <= q
    BY <1>1, <1>3
  <2>2. \E q \in Bounds : ee'.runtime <= q
    BY <1>4
  <2> QED BY <2>1, <2>2 DEF BoundInv, Bounds
<1>6. RunInv'
  BY <1>1, Zenon DEF Inv, RunInv, Bounds
<1>7. ResetInv'
  BY <1>1, <1>2 DEF ResetInv
<1> QED BY <1>5, <1>6, <1>7

LEMMA BootKeepsInv ==
  ASSUME Inv, Boot
  PROVE  BoundInv' /\ RunInv' /\ ResetInv'
<1>1. /\ conf' = BootSettings /\ ee' \in Written(BootSettings) /\ pump' = 0
  BY DEF Boot, writeSettings
<1>2. /\ BootSettings \in Recorded /\ BootSettings.reset = 0
      /\ BootSettings.runtime \in {DEFAULT_RUNTIME, ee.runtime}
  BY BootType DEF Inv, TypeOK
<1>3. ee' \in Stored /\ ee'.runtime <= BootSettings.runtime
  BY <1>1, <1>2, WrittenType
<1>4. PICK r \in Bounds : BootSettings.runtime <= r
  <2>1. CASE BootSettings.runtime = DEFAULT_RUNTIME
    BY <2>1, BoundsType
  <2>2. CASE BootSettings.runtime = ee.runtime
    BY <2>2 DEF Inv, BoundInv
  <2> QED BY <1>2, <2>1, <2>2
<1>5. ee'.runtime <= r
  <2>1. ee'.runtime \in Nat /\ BootSettings.runtime \in Nat /\ r \in Nat
    <3>1. ee'.runtime \in 0 .. ByteRange - 1
      BY <1>3 DEF Stored
    <3>2. BootSettings.runtime \in Runtimes \cup (0 .. ByteRange - 1)
      BY <1>2 DEF Recorded
    <3> QED BY <3>1, <3>2, RuntimeType, BoundsType
  <2> QED BY <2>1, <1>3, <1>4
<1>6. BoundInv'
  <2>1. \E q \in Bounds : conf'.runtime <= q
    BY <1>1, <1>4
  <2>2. \E q \in Bounds : ee'.runtime <= q
    BY <1>5
  <2> QED BY <2>1, <2>2 DEF BoundInv, Bounds
<1>7. RunInv'
  BY <1>1 DEF RunInv
<1>8. ResetInv'
  BY <1>1, <1>2 DEF ResetInv
<1> QED BY <1>6, <1>7, <1>8

LEMMA PassKeepsInv ==
  ASSUME Inv, NEW d \in {0, 1}, LoopPass(d)
  PROVE  BoundInv' /\ RunInv' /\ ResetInv'
<1>1. /\ TypeOK' /\ conf'.reset = 0 /\ conf'.runtime = conf.runtime
      /\ ee' = ee /\ reloaded' = reloaded
      /\ pump' = 1 =>
           /\ pump = 1 /\ conf'.relay = conf.relay /\ conf'.order = conf.order
           /\ conf.relay = 1 =>
                \/ LIQUID_LEVEL_OK' /\ conf'.start <= conf'.runtime
                \/ LIQUID_LEVEL_OK' = LIQUID_LEVEL_OK /\ conf'.start = conf.start
      /\ PUMP_RUN_REQUEST_TOKEN /\ conf'.order # "later" => PUMP_RUN_REQUEST_TOKEN'
  BY PassResult DEF Inv
<1>2. BoundInv'
  BY <1>1 DEF Inv, BoundInv, Bounds
<1>3. ResetInv'
  BY <1>1 DEF ResetInv
<1>4. ASSUME pump' = 1, ~reloaded'
      PROVE  /\ conf'.relay = 1 /\ PUMP_RUN_REQUEST_TOKEN' /\ conf'.order \in {"started", "negative"}
             /\ \E r \in Bounds : conf'.start <= r
             /\ ~LIQUID_LEVEL_OK' => conf'.start = 0
  <2>1. pump = 1 /\ ~reloaded
    BY <1>1, <1>4
  <2>2. /\ conf.relay = 1 /\ PUMP_RUN_REQUEST_TOKEN /\ conf.order \in {"started", "negative"}
        /\ \E r \in Bounds : conf.start <= r
        /\ ~LIQUID_LEVEL_OK => conf.start = 0
    BY <2>1, Zenon DEF Inv, RunInv
  <2>3. conf'.relay = 1 /\ conf'.order \in {"started", "negative"}
    BY <1>1, <1>4, <2>2, Zenon
  <2>4. PUMP_RUN_REQUEST_TOKEN'
    <3>1. conf'.order # "later"
      BY <2>3
    <3> QED BY <1>1, <2>2, <3>1, Zenon
  <2>5. \/ LIQUID_LEVEL_OK' /\ conf'.start <= conf'.runtime
        \/ LIQUID_LEVEL_OK' = LIQUID_LEVEL_OK /\ conf'.start = conf.start
    BY <1>1, <1>4, <2>2, Zenon
  <2>6. CASE LIQUID_LEVEL_OK' /\ conf'.start <= conf'.runtime
    <3>1. PICK r \in Bounds : conf'.runtime <= r
      BY <1>1 DEF Inv, BoundInv
    <3>2. conf'.start \in Nat /\ conf'.runtime \in Nat /\ r \in Nat
      <4>1. conf'.start \in 0 .. ClockCap /\ conf'.runtime \in Runtimes \cup (0 .. ByteRange - 1)
        BY <1>1 DEF TypeOK, Recorded
      <4> QED BY <4>1, RuntimeType, PumpClock, BoundsType
    <3>3. conf'.start <= r
      BY <2>6, <3>1, <3>2
    <3> QED BY <2>3, <2>4, <2>6, <3>3, Zenon
  <2>7. CASE LIQUID_LEVEL_OK' = LIQUID_LEVEL_OK /\ conf'.start = conf.start
    <3>1. \E r \in Bounds : conf'.start <= r
      BY <2>2, <2>7
    <3>2. ~LIQUID_LEVEL_OK' => conf'.start = 0
      BY <2>2, <2>7, Zenon
    <3> QED BY <2>3, <2>4, <3>1, <3>2, Zenon
  <2> QED BY <2>5, <2>6, <2>7
<1>5. RunInv'
  BY <1>4, Zenon DEF RunInv, Bounds
<1> QED BY <1>2, <1>3, <1>5

LEMMA RunKeepsInv ==
  ASSUME Inv, runPump
  PROVE  BoundInv' /\ RunInv' /\ ResetInv'
<1>1. ee' = ee /\ PUMP_RUN_REQUEST_TOKEN' /\ LIQUID_LEVEL_OK' = LIQUID_LEVEL_OK
  BY DEF runPump, sensorVars
<1>2. CASE MayRun(conf)
  <2>1. conf' = switchOnCompositeRelay(conf) /\ pump' = 1
    BY <1>2 DEF runPump
  <2>2. /\ conf'.reset = conf.reset /\ conf'.runtime = conf.runtime
        /\ conf'.relay = 1 /\ conf'.start = 0 /\ conf'.order \in {"started", "negative"}
    BY <2>1, SwitchType DEF Inv, TypeOK, Stamped
  <2>3. BoundInv' /\ ResetInv'
    BY <1>1, <2>2 DEF Inv, BoundInv, ResetInv, Bounds
  <2>4. \E r \in Bounds : conf'.start <= r
    <3>1. conf'.start <= DEFAULT_RUNTIME
      BY <2>2, PumpSizes
    <3> QED BY <3>1, BoundsType, Zenon
  <2> QED BY <1>1, <2>2, <2>3, <2>4 DEF RunInv, Bounds
<1>3. CASE ~MayRun(conf)
  <2>1. conf' = conf /\ pump' = pump /\ reloaded' = reloaded
    BY <1>3 DEF runPump
  <2>2. BoundInv' /\ ResetInv'
    BY <1>1, <2>1 DEF Inv, BoundInv, ResetInv, Bounds
  <2>3. RunInv'
    BY <1>1, <2>1, Zenon DEF Inv, RunInv, Bounds
  <2> QED BY <2>2, <2>3
<1> QED BY <1>2, <1>3

LEMMA StopKeepsInv ==
  ASSUME Inv, stopPump
  PROVE  BoundInv' /\ RunInv' /\ ResetInv'
<1>1. ee' = ee /\ pump' = 0 /\ conf' = switchOffCompositeRelay(conf)
  BY DEF stopPump
<1>2. conf'.reset = conf.reset /\ conf'.runtime = conf.runtime
  BY <1>1, SwitchType DEF Inv, TypeOK
<1> QED BY <1>1, <1>2 DEF Inv, BoundInv, RunInv, ResetInv, Bounds

LEMMA InvStep == Inv /\ [Next]_vars => Inv'
<1> SUFFICES ASSUME Inv, [Next]_vars PROVE Inv'
  OBVIOUS
<1>0. TypeOK'
  BY TypeStep DEF Inv
<1> SUFFICES BoundInv' /\ RunInv' /\ ResetInv'
  BY <1>0 DEF Inv
<1>1. CASE LoopPass(0) \/ LoopPass(1)
  BY <1>1, PassKeepsInv
<1>2. CASE RestartPass \/ PowerCycle
  BY <1>2, BootKeepsInv DEF RestartPass, PowerCycle
<1>3. CASE switchAOn \/ switchAOff \/ toggleSwitch
  <2>1. runPump \/ stopPump
    BY <1>3, Zenon DEF switchAOn, switchAOff, toggleSwitch
  <2> QED BY <2>1, RunKeepsInv, StopKeepsInv
<1>4. CASE Change
  <2>1. PICK c \in Recorded :
          /\ Save(c)
          /\ c.relay = conf.relay /\ c.start = conf.start /\ c.order = conf.order
          /\ (c.runtime = conf.runtime \/ c.runtime \in Runtimes)
    BY <1>4, ChangeSaves, Zenon DEF Inv
  <2> QED BY <2>1, SaveKeepsInv
<1>5. CASE readSettings
  <2>1. conf' \in Loaded /\ reloaded' = TRUE /\ ee' = ee
    BY <1>5 DEF readSettings
  <2>2. conf'.reset = ee.reset /\ conf'.runtime = ee.runtime
    BY <2>1, LoadedType DEF Inv, TypeOK
  <2> QED BY <2>1, <2>2 DEF Inv, BoundInv, RunInv, ResetInv, Bounds
<1>6. CASE UNCHANGED vars
  BY <1>6, Zenon DEF vars, sensorVars, Inv, BoundInv, RunInv, ResetInv, Bounds
<1>7. CASE LongUptimeBegins
  BY <1>7, Zenon DEF LongUptimeBegins, sensorVars, Inv, BoundInv, RunInv, ResetInv, Bounds
<1> QED BY <1>1, <1>2, <1>3, <1>4, <1>5, <1>6, <1>7 DEF Next, Change

LEMMA InvInit == Init => Inv
<1> SUFFICES ASSUME Init PROVE Inv
  OBVIOUS
<1>1. /\ conf.runtime = DEFAULT_RUNTIME /\ ee.runtime = DEFAULT_RUNTIME
      /\ pump = 0 /\ conf.reset = 0
  BY DEF Init, Erased
<1>2. BoundInv
  BY <1>1, BoundsType DEF BoundInv
<1>3. RunInv /\ ResetInv
  BY <1>1 DEF RunInv, ResetInv
<1> QED BY <1>2, <1>3, TypeInit DEF Inv

LEMMA Invariance == Spec => []Inv
<1> QED BY InvInit, InvStep, PTL DEF Spec

-----------------------------------------------------------------------------
\* The end of a run

\* A pump that rests, and whose settings no getter has touched, is off record and
\* can be started unless it was stopped a while ago; a request still held is one
\* that was stopped or refused, so that it can be given up while stamps are positive.
RestInv ==
  pump = 0 /\ ~reloaded =>
    /\ conf.relay = 0 /\ conf.order \in {"none", "later", "negative"}
    /\ conf.order = "none" => MayRun(conf)
    /\ PUMP_RUN_REQUEST_TOKEN => conf.order \in {"later", "negative"}

\* The stamps that a getter loads over a run are old enough for the check.
OldInv ==
  pump = 1 /\ reloaded =>
    /\ conf.start > OPERATION_FEEDBACK_CHECK_DELAY
    /\ conf.stop > OPERATION_FEEDBACK_CHECK_DELAY

\* A stamp is negative only past 2^31 ms.
SignInv == conf.order = "negative" => signBit

EndInv == Inv /\ RestInv /\ OldInv /\ SignInv

\* What the guard makes of the settings of a pass: they grow older, and it stops
\* the pump or leaves it alone; in a pass of a tick it does what MustStop says.
LEMMA PassSettings ==
  ASSUME TypeOK, NEW d \in {0, 1}, LoopPass(d)
  PROVE  \/ /\ conf' = OlderConf(d) /\ pump' = pump
            /\ d = 1 /\ conf.relay = 1 => ~TimeOver(conf')
         \/ /\ conf' = switchOffCompositeRelay(OlderConf(d)) /\ pump' = 0
            /\ conf.relay = 1
<1>1. PICK runs \in IF d = 0 THEN BOOLEAN ELSE {TRUE} : Guard(d, runs, OlderConf(d))
  BY DEF LoopPass
<1>2. d = 1 => runs
  BY <1>1
<1> DEFINE c == OlderConf(d)
<1>3. Guard(d, runs, c) /\ c.relay = conf.relay
  BY <1>1, OlderConfType DEF TypeOK
<1> SUFFICES \/ conf' = c /\ pump' = pump /\ (d = 1 /\ conf.relay = 1 => ~TimeOver(conf'))
             \/ conf' = switchOffCompositeRelay(c) /\ pump' = 0 /\ conf.relay = 1
  OBVIOUS
<1> HIDE DEF c
<1>4. CASE ~runs
  BY <1>2, <1>3, <1>4, Zenon DEF Guard
<1>5. CASE runs
  <2>1. IF c.relay = 1 /\ MustStop(c, LIQUID_LEVEL_OK')
        THEN conf' = switchOffCompositeRelay(c) /\ pump' = 0
        ELSE conf' = c /\ UNCHANGED pump
    BY <1>3, <1>5, Zenon DEF Guard
  <2> QED BY <1>3, <2>1, Zenon DEF MustStop
<1> QED BY <1>4, <1>5

\* A stop writes down that it was later than the start, or a negative stamp.
LEMMA StopOrder ==
  ASSUME NEW c \in Recorded
  PROVE  /\ switchOffCompositeRelay(c).relay = 0
         /\ switchOffCompositeRelay(c).order \in {"none", "later", "negative"}
         /\ c.order # "none" => switchOffCompositeRelay(c).order \in {"later", "negative"}
         /\ switchOffCompositeRelay(c).order = "negative" => signBit
BY DEF Recorded, switchOffCompositeRelay, Stamped

\* Once started a pump may have to wait, but not longer than the settings that
\* are loaded or booted have been waiting.
LEMMA Delays ==
  /\ \A a \in INIT_DELAY .. ClockCap :
       a > CONSECUTIVE_PUMP_RUN_DELAY /\ a > OPERATION_FEEDBACK_CHECK_DELAY
  /\ INIT_DELAY \in INIT_DELAY .. ClockCap
  /\ StopCap + 1 > OPERATION_FEEDBACK_CHECK_DELAY
BY PumpThresholds, PumpClock DEF StopCap

LEMMA PassKeepsEnd ==
  ASSUME EndInv, NEW d \in {0, 1}, LoopPass(d)
  PROVE  RestInv' /\ OldInv' /\ SignInv'
<1>1. /\ reloaded' = reloaded /\ signBit' = signBit
      /\ PUMP_RUN_REQUEST_TOKEN' \in {FALSE, PUMP_RUN_REQUEST_TOKEN}
  BY Zenon DEF LoopPass, EndInv, Inv, TypeOK
<1> DEFINE c == OlderConf(d)
<1>2. /\ c \in Recorded /\ c.relay = conf.relay /\ c.order = conf.order
      /\ c.start >= conf.start /\ c.stop >= conf.stop
  BY OlderConfType DEF EndInv, Inv, TypeOK
<1>3. \/ conf' = c /\ pump' = pump
      \/ conf' = switchOffCompositeRelay(c) /\ pump' = 0 /\ conf.relay = 1
  BY PassSettings DEF EndInv, Inv
<1>4. /\ conf.start \in Nat /\ conf.stop \in Nat /\ c.start \in Nat /\ c.stop \in Nat
      /\ CONSECUTIVE_PUMP_RUN_DELAY \in Nat /\ OPERATION_FEEDBACK_CHECK_DELAY \in Nat
  BY <1>2, PumpThresholds, PumpClock DEF EndInv, Inv, TypeOK, Recorded, StopCap
<1> HIDE DEF c
<1>5. CASE conf' = c /\ pump' = pump
  <2>1. MayRun(conf) => MayRun(conf')
    BY <1>2, <1>4, <1>5 DEF MayRun
  <2>2. RestInv'
    BY <1>1, <1>2, <1>5, <2>1, Zenon DEF EndInv, RestInv
  <2>3. OldInv'
    BY <1>1, <1>2, <1>4, <1>5 DEF EndInv, OldInv
  <2>4. SignInv'
    BY <1>1, <1>2, <1>5, Zenon DEF EndInv, SignInv
  <2> QED BY <2>2, <2>3, <2>4
<1>6. CASE conf' = switchOffCompositeRelay(c) /\ pump' = 0 /\ conf.relay = 1
  <2>1. conf'.relay = 0 /\ conf'.order \in {"none", "later", "negative"}
        /\ (c.order # "none" => conf'.order \in {"later", "negative"})
        /\ (conf'.order = "negative" => signBit)
    BY <1>2, <1>6, StopOrder
  <2>2. ~reloaded => conf.order \in {"started", "negative"}
    <3>1. ~reloaded => pump # 0
      BY <1>6 DEF EndInv, RestInv
    <3>2. ~reloaded => pump = 1
      BY <3>1 DEF EndInv, Inv, TypeOK
    <3> QED BY <3>2, Zenon DEF EndInv, Inv, RunInv
  <2>3. ~reloaded => conf'.order \in {"later", "negative"}
    BY <1>2, <2>1, <2>2
  <2>4. SignInv'
    BY <1>1, <2>1, Zenon DEF SignInv
  <2> QED BY <1>1, <1>6, <2>1, <2>3, <2>4 DEF RestInv, OldInv
<1> QED BY <1>3, <1>5, <1>6

LEMMA BootKeepsEnd ==
  ASSUME TypeOK, Boot
  PROVE  RestInv' /\ OldInv' /\ SignInv'
<1>1. conf' = BootSettings /\ pump' = 0 /\ PUMP_RUN_REQUEST_TOKEN' = FALSE
  BY DEF Boot
<1>2. BootSettings.relay = 0 /\ BootSettings.order = "none"
      /\ BootSettings.start = INIT_DELAY
  BY DEF BootSettings
<1> QED BY <1>1, <1>2, Delays DEF RestInv, OldInv, SignInv, MayRun

LEMMA RunKeepsEnd ==
  ASSUME EndInv, runPump
  PROVE  RestInv' /\ OldInv' /\ SignInv'
<1>1. CASE MayRun(conf)
  <2>1. pump' = 1 /\ reloaded' = FALSE /\ conf' = switchOnCompositeRelay(conf)
        /\ signBit' = signBit
    BY <1>1 DEF runPump
  <2>2. conf'.order = "negative" => signBit
    BY <2>1, SwitchType DEF EndInv, Inv, TypeOK, Stamped
  <2> QED BY <2>1, <2>2 DEF RestInv, OldInv, SignInv
<1>2. CASE ~MayRun(conf)
  <2>1. conf' = conf /\ pump' = pump /\ reloaded' = reloaded /\ signBit' = signBit
    BY <1>2 DEF runPump
  <2>2. MayRun(conf') = MayRun(conf)
    BY <2>1
  <2>3. conf.order \in Orders
    BY DEF EndInv, Inv, TypeOK, Recorded
  <2> QED BY <1>2, <2>1, <2>2, <2>3 DEF EndInv, RestInv, OldInv, SignInv, Orders, ByteOrders
<1> QED BY <1>1, <1>2

LEMMA StopKeepsEnd ==
  ASSUME EndInv, stopPump, conf.relay # 0
  PROVE  RestInv' /\ OldInv' /\ SignInv'
<1>1. conf' = switchOffCompositeRelay(conf) /\ pump' = 0 /\ reloaded' = reloaded
      /\ signBit' = signBit
  BY DEF stopPump
<1>2. /\ conf'.relay = 0 /\ conf'.order \in {"none", "later", "negative"}
      /\ conf.order # "none" => conf'.order \in {"later", "negative"}
      /\ conf'.order = "negative" => signBit
  BY <1>1, StopOrder DEF EndInv, Inv, TypeOK
<1>3. ~reloaded => conf.order \in {"started", "negative"}
  <2>1. ~reloaded => pump = 1
    BY DEF EndInv, RestInv, Inv, TypeOK
  <2> QED BY <2>1, Zenon DEF EndInv, Inv, RunInv
<1> QED BY <1>1, <1>2, <1>3 DEF RestInv, OldInv, SignInv

LEMMA SaveKeepsEnd ==
  ASSUME EndInv, NEW c \in Recorded, Save(c),
         c.relay = conf.relay, c.start = conf.start, c.order = conf.order,
         c.stop = conf.stop
  PROVE  RestInv' /\ OldInv' /\ SignInv'
<1>1. /\ conf' = c /\ pump' = pump /\ reloaded' = reloaded /\ signBit' = signBit
      /\ PUMP_RUN_REQUEST_TOKEN' = PUMP_RUN_REQUEST_TOKEN
  BY DEF Save
<1>2. MayRun(conf') = MayRun(conf)
  BY <1>1 DEF MayRun
<1> QED BY <1>1, <1>2, Zenon DEF EndInv, RestInv, OldInv, SignInv

LEMMA EndStep == EndInv /\ [Next]_vars => EndInv'
<1> SUFFICES ASSUME EndInv, [Next]_vars PROVE EndInv'
  OBVIOUS
<1>0. Inv' /\ TypeOK
  BY InvStep DEF EndInv, Inv
<1> SUFFICES RestInv' /\ OldInv' /\ SignInv'
  BY <1>0 DEF EndInv
<1>1. CASE LoopPass(0) \/ LoopPass(1)
  BY <1>1, PassKeepsEnd
<1>2. CASE RestartPass \/ PowerCycle
  BY <1>0, <1>2, BootKeepsEnd DEF RestartPass, PowerCycle
<1>3. CASE switchAOn \/ switchAOff \/ toggleSwitch
  <2>1. runPump \/ (stopPump /\ conf.relay # 0)
    BY <1>3 DEF switchAOn, switchAOff, toggleSwitch
  <2> QED BY <2>1, RunKeepsEnd, StopKeepsEnd
<1>4. CASE Change
  <2>1. PICK c \in Recorded :
          /\ Save(c)
          /\ c.relay = conf.relay /\ c.start = conf.start /\ c.order = conf.order
          /\ c.stop = conf.stop
    BY <1>0, <1>4, ChangeSaves, Zenon
  <2> QED BY <2>1, SaveKeepsEnd
<1>5. CASE readSettings
  <2>1. conf' \in Loaded /\ reloaded' = TRUE
    BY <1>5 DEF readSettings
  <2>2. PICK age \in INIT_DELAY .. ClockCap : /\ conf'.start = age /\ conf'.stop = StopCap + 1
                                             /\ conf'.order = ee.order
    BY <2>1 DEF Loaded
  <2>3. conf'.order # "negative"
    BY <1>0, <2>2 DEF TypeOK, Stored, ByteOrders
  <2> QED BY <2>1, <2>2, <2>3, Delays DEF RestInv, OldInv, SignInv
<1>6. CASE UNCHANGED vars
  <2>1. conf' = conf /\ pump' = pump /\ reloaded' = reloaded /\ signBit' = signBit
        /\ PUMP_RUN_REQUEST_TOKEN' = PUMP_RUN_REQUEST_TOKEN
    BY <1>6 DEF vars
  <2>2. MayRun(conf') = MayRun(conf)
    BY <2>1
  <2> QED BY <2>1, <2>2, Zenon DEF EndInv, RestInv, OldInv, SignInv
<1>7. CASE LongUptimeBegins
  <2>1. conf' = conf /\ pump' = pump /\ reloaded' = reloaded /\ signBit' = TRUE
        /\ PUMP_RUN_REQUEST_TOKEN' = PUMP_RUN_REQUEST_TOKEN
    BY <1>7 DEF LongUptimeBegins
  <2>2. MayRun(conf') = MayRun(conf)
    BY <2>1
  <2> QED BY <2>1, <2>2, Zenon DEF EndInv, RestInv, OldInv, SignInv
<1> QED BY <1>1, <1>2, <1>3, <1>4, <1>5, <1>6, <1>7 DEF Next, Change

LEMMA EndHolds == Spec => []EndInv
<1>1. Init => EndInv
  <2> SUFFICES ASSUME Init PROVE RestInv /\ OldInv /\ SignInv
    BY InvInit DEF EndInv
  <2>1. /\ conf.relay = 0 /\ conf.order = "none" /\ conf.start = INIT_DELAY
        /\ pump = 0 /\ PUMP_RUN_REQUEST_TOKEN = FALSE
    BY DEF Init
  <2> QED BY <2>1, Delays DEF RestInv, OldInv, SignInv, MayRun
<1> QED BY <1>1, EndStep, PTL DEF Spec

-----------------------------------------------------------------------------
\* The theorems

\* Types hold for ever: settings that come from a client or from EEPROM bytes
\* fit their fields, and no burst of notices overfills the queue.
THEOREM TypeCorrect == Spec => []TypeOK
<1>1. Inv => TypeOK
  BY DEF Inv
<1> QED BY <1>1, Invariance, PTL

\* A running pump that no getter has disturbed is on record and its request held,
\* for all thresholds and runtimes.
THEOREM RequestCorrect == Spec => []RunIsRequested
<1>1. Inv => RunIsRequested
  BY Zenon DEF Inv, RunInv, RunIsRequested
<1> QED BY <1>1, Invariance, PTL

\* Such a run is never older than the longest runtime ever in force, and a bad
\* liquid level does not let it age at all.
THEOREM SafeRunCorrect == Spec => []SafeRun
<1>1. Inv => SafeRun
  BY Zenon DEF Inv, RunInv, SafeRun, Bounds
<1> QED BY <1>1, Invariance, PTL

\* The request for a reset survives everything but the erasure it asks for.
THEOREM ResetCorrect == Spec => ResetErases
<1> DEFINE Erases == conf.reset = 1 /\ conf'.reset = 0 =>
                       conf'.runtime = DEFAULT_RUNTIME /\ conf'.notify = 0
<1>1. ASSUME Inv, [Next]_vars PROVE Erases
  <2> SUFFICES ASSUME conf.reset = 1, conf'.reset = 0
               PROVE  conf'.runtime = DEFAULT_RUNTIME /\ conf'.notify = 0
    OBVIOUS
  <2>1. conf.reset # 0 /\ conf' # conf
    OBVIOUS
  <2>2. RestartPass \/ PowerCycle
    BY <1>1, <2>1, Zenon DEF Next, vars, LoopPass, switchAOn, switchAOff, toggleSwitch,
       setSwitchRuntime, setNotify, setNotifyURL, handleReset, readSettings, Served,
       LongUptimeBegins
  <2>3. conf' = BootSettings
    BY <2>2 DEF RestartPass, PowerCycle, Boot
  <2>4. ee.reset = 1
    BY <1>1 DEF Inv, ResetInv
  <2> QED BY <1>1, <2>3, <2>4, BootType DEF Inv, TypeOK
<1>2. Inv /\ [Next]_vars => [Erases]_vars
  BY <1>1, Zenon
<1> QED BY <1>2, Invariance, PTL DEF Spec, ResetErases

\* A runtime that may be in force is below the age at which ages saturate.
LEMMA RuntimeBelowCap ==
  ASSUME NEW c \in Recorded
  PROVE  c.runtime \in Nat /\ c.runtime < ClockCap
<1>1. c.runtime \in Runtimes \cup (0 .. ByteRange - 1)
  BY DEF Recorded
<1>2. CASE c.runtime \in Runtimes
  BY <1>2, PumpSizes, PumpClock
<1>3. CASE c.runtime \in 0 .. ByteRange - 1
  BY <1>3, PumpSizes, PumpClock
<1> QED BY <1>1, <1>2, <1>3

\* What ends a run, or finds none, is a stop of TimedPump or nothing to it.
LEMMA EndTimed ==
  ASSUME ~Undisturbed'
  PROVE  [Timed!Next]_(Timed!vars)
<1>1. RunAge' = 0 /\ RunTime' = 0 /\ Undisturbed' = FALSE
  BY DEF RunAge, RunTime, Undisturbed
<1>2. CASE Undisturbed
  BY <1>1, <1>2 DEF Timed!Next, Timed!Stop
<1>3. CASE ~Undisturbed
  <2>1. RunAge = 0 /\ RunTime = 0 /\ Undisturbed = FALSE
    BY <1>3 DEF RunAge, RunTime, Undisturbed
  <2> QED BY <1>1, <2>1 DEF Timed!vars
<1> QED BY <1>2, <1>3

LEMMA PassTimed ==
  ASSUME Inv, NEW d \in {0, 1}, LoopPass(d)
  PROVE  [Timed!Next]_(Timed!vars)
<1>1. CASE ~Undisturbed'
  BY <1>1, EndTimed
<1>2. CASE Undisturbed'
  <2>1. reloaded' = reloaded /\ pump' = 1
    BY <1>2 DEF Undisturbed, LoopPass
  <2>2. /\ conf' = OlderConf(d) /\ pump' = pump
        /\ d = 1 /\ conf.relay = 1 => ~TimeOver(conf')
    BY <2>1, PassSettings DEF Inv
  <2>3. Undisturbed /\ conf.relay = 1
    BY <1>2, <2>1, <2>2 DEF Undisturbed, Inv, RunInv
  <2>4. /\ RunAge = conf.start /\ RunTime = conf.runtime
        /\ RunAge' = conf'.start /\ RunTime' = conf'.runtime
    BY <1>2, <2>3 DEF RunAge, RunTime, Undisturbed
  <2>5. conf'.runtime = conf.runtime /\ conf' \in Recorded
        /\ (d = 0 => conf'.start = conf.start)
        /\ (d = 1 => conf'.start \in {conf.start + 1, ClockCap})
    BY <2>2, OlderConfType DEF Inv, TypeOK
  <2>6. CASE d = 0
    BY <1>2, <2>3, <2>4, <2>5, <2>6 DEF Timed!vars
  <2>7. CASE d = 1
    <3>1. /\ conf.start \in Nat /\ conf'.start \in Nat /\ ClockCap \in Nat
          /\ conf.runtime \in Nat /\ conf.runtime < ClockCap
      BY <2>5, RuntimeBelowCap, PumpClock DEF Inv, TypeOK, Recorded
    <3>2. conf'.start <= conf.runtime
      BY <2>2, <2>3, <2>5, <2>7, <3>1 DEF TimeOver
    <3>3. conf'.start = conf.start + 1 /\ conf.start < conf.runtime
      BY <2>5, <2>7, <3>1, <3>2
    <3> QED BY <1>2, <2>3, <2>4, <2>5, <3>3 DEF Timed!Next, Timed!Tick
  <2> QED BY <2>6, <2>7
<1> QED BY <1>1, <1>2

LEMMA TimedStep ==
  ASSUME Inv, [Next]_vars
  PROVE  [Timed!Next]_(Timed!vars)
<1>1. CASE LoopPass(0) \/ LoopPass(1)
  BY <1>1, PassTimed
<1>2. CASE RestartPass \/ PowerCycle \/ stopPump \/ readSettings
  <2>1. ~Undisturbed'
    BY <1>2 DEF RestartPass, PowerCycle, Boot, stopPump, readSettings, Undisturbed
  <2> QED BY <2>1, EndTimed
<1>3. CASE runPump /\ conf.relay = 0
  <2>1. Undisturbed = FALSE
    BY <1>3 DEF Undisturbed, Inv, RunInv
  <2>2. CASE MayRun(conf)
    <3>1. conf' = switchOnCompositeRelay(conf) /\ Undisturbed' = TRUE
      BY <1>3, <2>2 DEF runPump, Undisturbed
    <3>2. conf' \in Recorded /\ conf'.start = 0
      BY <3>1, SwitchType DEF Inv, TypeOK
    <3>3. RunAge' = 0 /\ RunTime' \in Nat
      BY <3>1, <3>2, RuntimeBelowCap DEF RunAge, RunTime
    <3> QED BY <2>1, <3>1, <3>3 DEF Timed!Next, Timed!Start
  <2>3. CASE ~MayRun(conf)
    <3>1. Undisturbed' = FALSE
      BY <1>3, <2>1, <2>3 DEF runPump, Undisturbed
    <3> QED BY <3>1, EndTimed
  <2> QED BY <2>2, <2>3
<1>4. CASE Change
  <2>1. PICK c \in Recorded : Save(c) /\ c.start = conf.start
    BY <1>4, ChangeSaves, Zenon DEF Inv
  <2>2. conf' = c /\ Undisturbed' = Undisturbed
    BY <2>1 DEF Save, Undisturbed
  <2>3. CASE Undisturbed
    <3>1. RunAge' = RunAge /\ RunTime' \in Nat
      BY <2>1, <2>2, <2>3, RuntimeBelowCap DEF RunAge, RunTime
    <3> QED BY <2>2, <2>3, <3>1 DEF Timed!Next, Timed!SetRuntime
  <2>4. CASE ~Undisturbed
    BY <2>2, <2>4, EndTimed
  <2> QED BY <2>3, <2>4
<1>5. CASE UNCHANGED vars \/ LongUptimeBegins
  BY <1>5 DEF vars, LongUptimeBegins, Timed!vars, RunAge, RunTime, Undisturbed
<1>6. switchAOn \/ switchAOff \/ toggleSwitch => stopPump \/ (runPump /\ conf.relay = 0)
  BY DEF switchAOn, switchAOff, toggleSwitch
<1> QED BY <1>1, <1>2, <1>3, <1>4, <1>5, <1>6 DEF Next, Change

\* The controller implements the abstract timed pump: whatever clients do, an
\* undisturbed run ages tick by tick and never past the runtime in force.
THEOREM PumpImplementsTimedPump == Spec => ImplementsTimedPump
<1>1. Init => Timed!Init
  BY DEF Init, Timed!Init, RunAge, RunTime, Undisturbed
<1>2. Inv /\ [Next]_vars => [Timed!Next]_(Timed!vars)
  BY TimedStep
<1> QED BY <1>1, <1>2, Invariance, PTL DEF Spec, ImplementsTimedPump, Timed!Spec

\* While millis() is below 2^31, no client, by asking again and again, keeps alive
\* a request that was refused or whose run has ended: the time to its end only
\* shrinks.  Beyond, the stamps are negative and the request stays.
THEOREM TokenRunsOutCorrect == Spec => TokenRunsOut
<1> DEFINE A == PUMP_RUN_REQUEST_TOKEN /\ pump = 0 /\ ~reloaded /\ ~signBit =>
       \/ ~PUMP_RUN_REQUEST_TOKEN' \/ pump' = 1 \/ reloaded' \/ signBit'
       \/ /\ conf'.stop >= conf.stop
          /\ LoopPass(1) => /\ conf'.stop > conf.stop
                            /\ conf'.stop <= START_REQUEST_TOKEN_INVALIDATE_TIME
<1>1. ASSUME EndInv, [Next]_vars PROVE A
  <2> SUFFICES ASSUME PUMP_RUN_REQUEST_TOKEN, pump = 0, ~reloaded, ~signBit,
                      PUMP_RUN_REQUEST_TOKEN', pump' # 1, ~reloaded', ~signBit'
               PROVE  /\ conf'.stop >= conf.stop
                      /\ LoopPass(1) => /\ conf'.stop > conf.stop
                                        /\ conf'.stop <= START_REQUEST_TOKEN_INVALIDATE_TIME
    BY Zenon
  <2>1. conf.relay = 0 /\ conf.order = "later"
    <3>1. conf.relay = 0 /\ conf.order \in {"later", "negative"}
      BY <1>1, Zenon DEF EndInv, RestInv
    <3>2. conf.order # "negative"
      BY <1>1 DEF EndInv, SignInv
    <3> QED BY <3>1, <3>2
  <2>2. conf.stop \in Nat /\ StopCap \in Nat /\ TypeOK /\ conf \in Recorded
    BY <1>1, PumpThresholds DEF EndInv, Inv, TypeOK, Recorded, StopCap
  <2>3. ASSUME NEW d \in {0, 1}, LoopPass(d)
        PROVE  conf'.stop >= conf.stop /\ (d = 1 => conf'.stop > conf.stop /\ conf'.stop <= StopCap)
    <3>1. conf' = OlderConf(d)
      BY <2>1, <2>2, <2>3, PassSettings
    <3>2. /\ conf'.order = "later" /\ conf'.stop >= conf.stop /\ conf'.stop \in Nat
          /\ d = 1 => conf'.stop \in {conf.stop + 1, StopCap + 1}
      BY <2>1, <2>2, <3>1, OlderConfType DEF Recorded
    <3>3. ~(conf'.stop > StopCap)
      <4>1. StopIsPositive = {TRUE}
        BY DEF StopIsPositive
      <4>2. PICK positive \in StopIsPositive :
              PUMP_RUN_REQUEST_TOKEN' =
                (PUMP_RUN_REQUEST_TOKEN /\ ~(positive /\ canReleaseToken(conf')))
        BY <2>3, Zenon DEF LoopPass
      <4>3. positive
        BY <4>1, <4>2
      <4>4. ~canReleaseToken(conf')
        BY <4>2, <4>3, Zenon
      <4> QED BY <3>2, <4>4, Zenon DEF canReleaseToken, StopCap
    <3> QED BY <2>2, <3>2, <3>3
  <2>4. CASE LoopPass(0)
    <3>1. conf'.stop >= conf.stop
      BY <2>3, <2>4
    <3>2. LoopPass(1) => conf'.stop > conf.stop /\ conf'.stop <= StopCap
      BY <2>3
    <3> QED BY <3>1, <3>2 DEF StopCap
  <2>5. CASE LoopPass(1)
    BY <2>3, <2>5 DEF StopCap
  <2>6. CASE ~LoopPass(0) /\ ~LoopPass(1)
    <3> SUFFICES conf'.stop = conf.stop
      BY <2>2, <2>6
    <3>1. CASE RestartPass \/ PowerCycle \/ readSettings
      BY <3>1 DEF RestartPass, PowerCycle, Boot, readSettings
    <3>2. CASE switchAOn \/ switchAOff \/ toggleSwitch
      <4>1. runPump
        BY <2>1, <3>2 DEF switchAOn, switchAOff, toggleSwitch
      <4> QED BY <4>1 DEF runPump
    <3>3. CASE Change
      BY <2>2, <3>3, ChangeSaves DEF Save
    <3>4. CASE UNCHANGED vars \/ LongUptimeBegins
      BY <3>4 DEF vars, LongUptimeBegins
    <3> QED BY <1>1, <2>6, <3>1, <3>2, <3>3, <3>4 DEF Next, Change
  <2> QED BY <2>4, <2>5, <2>6
<1>2. EndInv /\ [Next]_vars => [A]_vars
  BY <1>1, Zenon
<1> QED BY <1>2, EndHolds, PTL DEF Spec, TokenRunsOut

\* While millis() is below 2^31, a run that nobody asked for is a fault at the
\* first pass of a tick, for all delays the assumptions allow.  Beyond, an age
\* taken as a long may be negative and hold the check back.
THEOREM AlarmsAtOnceCorrect == Spec => AlarmsAtOnce
<1> DEFINE A == LoopPass(1) /\ ~signBit /\ ~PUMP_RUN_REQUEST_TOKEN /\ pump' = 1
                  => systemFault'
<1>1. ASSUME EndInv, LoopPass(1), ~signBit, ~PUMP_RUN_REQUEST_TOKEN, pump' = 1 PROVE systemFault'
  <2>1. conf' = OlderConf(1) /\ pump = 1
    BY <1>1, PassSettings DEF EndInv, Inv
  <2>2. reloaded
    BY <1>1, <2>1, Zenon DEF EndInv, Inv, RunInv
  <2>3. /\ conf.start > OPERATION_FEEDBACK_CHECK_DELAY
        /\ conf.stop > OPERATION_FEEDBACK_CHECK_DELAY
    BY <1>1, <2>1, <2>2 DEF EndInv, OldInv
  <2>4. conf'.start >= conf.start /\ conf'.stop >= conf.stop /\ conf' \in Recorded
    BY <1>1, <2>1, OlderConfType DEF EndInv, Inv, TypeOK
  <2>5. /\ conf.start \in Nat /\ conf.stop \in Nat /\ conf'.start \in Nat /\ conf'.stop \in Nat
        /\ OPERATION_FEEDBACK_CHECK_DELAY \in Nat
    BY <1>1, <2>4, PumpThresholds, PumpClock DEF EndInv, Inv, TypeOK, Recorded, StopCap
  <2>6. /\ conf'.start > OPERATION_FEEDBACK_CHECK_DELAY
        /\ conf'.stop > OPERATION_FEEDBACK_CHECK_DELAY
    BY <2>3, <2>4, <2>5
  <2>7. PICK due \in IF 1 = 0 THEN BOOLEAN ELSE AgesArePositive : checkUnauthorizedRun(due)
    BY <1>1 DEF LoopPass
  <2>8. due = TRUE
    <3>1. AgesArePositive = {TRUE}
      BY <1>1 DEF AgesArePositive, StopIsPositive
    <3> QED BY <2>7, <3>1
  <2>9. CanCheck(due)
    BY <2>6, <2>8 DEF CanCheck
  <2> QED BY <1>1, <2>7, <2>9, Zenon DEF checkUnauthorizedRun, Requested
<1>2. EndInv => A
  BY <1>1, Zenon
<1> QED BY <1>2, EndHolds, PTL DEF Spec, AlarmsAtOnce

=============================================================================
