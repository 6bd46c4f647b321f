-------------------------- MODULE PumpController --------------------------
(***************************************************************************)
(* The irrigation pump controller (HMU-PC-001, an ESP8266 sketch): two     *)
(* relays that together run a pump, a float switch, a current sensor, a    *)
(* token that says whether a client asked for the run, and settings kept   *)
(* in RAM (conf) and in EEPROM (ee).                                       *)
(*                                                                         *)
(* A pass of loop() takes d ticks (0 for the usual few milliseconds) and   *)
(* serves at most one request at its end; a request is a step of its own   *)
(* here.  Stamps are kept as ages, saturated past every threshold.  What   *)
(* only spaces repeated work out (4 s between two fault checks, 5 s        *)
(* between two notices, 1.5 s between two beeps) may or may not be over.   *)
(*                                                                         *)
(* relay_start and relay_stop are signed longs: past 2^31 ms (signBit) a   *)
(* new stamp is negative, and an age taken as a long may be.  The uptime   *)
(* stays below 2^32 ms, and runtimes below 2147484 s, whose milliseconds   *)
(* fit the int they are multiplied in.                                     *)
(***************************************************************************)
EXTENDS Integers

CONSTANTS
  INIT_DELAY,                            \* thresholds of the sketch, in ticks
  CONSECUTIVE_PUMP_RUN_DELAY, OPERATION_FEEDBACK_CHECK_DELAY,
  START_REQUEST_TOKEN_INVALIDATE_TIME, PUMP_CONNECTION_SENSOR_NOISE_THRESHOLD,
  FLOAT_SWITCH_DEBOUNCE,                 \* the literal 1000 of the guard
  DEFAULT_RUNTIME,
  NOTICE_LIMIT,
  ByteRange,                             \* values of an EEPROM cell (256)
  Runtimes,                              \* runtimes clients ask for
  Endpoints,                             \* endpoints clients use
  ClockCap,                              \* where the age of a run saturates
  LongUptime                             \* may millis() pass 2^31 (after 24.8 days)?

Level == {0, 1}
Getters == {"getRuntime", "getNotify", "getNotifyURL"}
AllEndpoints == Getters \cup {"reset", "toggle", "on", "off", "setRuntime",
                              "setNotify", "setNotifyURL"}

ASSUME PumpThresholds ==
  /\ INIT_DELAY \in Nat
  /\ CONSECUTIVE_PUMP_RUN_DELAY \in Nat
  /\ OPERATION_FEEDBACK_CHECK_DELAY \in Nat
  /\ START_REQUEST_TOKEN_INVALIDATE_TIME \in Nat
  /\ PUMP_CONNECTION_SENSOR_NOISE_THRESHOLD \in Nat
  /\ FLOAT_SWITCH_DEBOUNCE \in Nat
  /\ OPERATION_FEEDBACK_CHECK_DELAY <= START_REQUEST_TOKEN_INVALIDATE_TIME

ASSUME PumpSizes ==
  /\ NOTICE_LIMIT \in Nat
  /\ ByteRange \in Nat \ {0}
  /\ DEFAULT_RUNTIME \in 1 .. ByteRange - 1
  /\ Runtimes \subseteq Nat \ {0}
  /\ Endpoints \subseteq AllEndpoints

\* After the 20 s of setup() every stamp of 0 is older than the thresholds.
ASSUME PumpClock ==
  /\ ClockCap \in Nat
  /\ CONSECUTIVE_PUMP_RUN_DELAY < INIT_DELAY /\ INIT_DELAY <= ClockCap
  /\ START_REQUEST_TOKEN_INVALIDATE_TIME < INIT_DELAY
  /\ ByteRange <= ClockCap
  /\ \A r \in Runtimes : r < ClockCap
  /\ LongUptime \in BOOLEAN

VARIABLES
  conf, ee,
  pump,                    \* do both relays let the pump run?
  PUMP_RUN_REQUEST_TOKEN,
  PUMP_CONNECTION_ON, lastPumpStopFeedbackTime,
  switchOpen, lastOpenSwitchDetect, LIQUID_LEVEL_OK,
  systemFault, beeping,
  queue,
  signBit,                 \* the top bit of millis()
  reloaded                 \* history: a getter loaded conf since the last start

sensorVars == <<PUMP_CONNECTION_ON, lastPumpStopFeedbackTime,
                switchOpen, lastOpenSwitchDetect, LIQUID_LEVEL_OK>>
faultVars == <<systemFault, beeping>>
vars == <<conf, ee, pump, PUMP_RUN_REQUEST_TOKEN, sensorVars, faultVars, queue,
          signBit, reloaded>>

Min2(a, b) == IF a < b THEN a ELSE b
Older(age, d, t) == Min2(age + d, t + 1)

-----------------------------------------------------------------------------
\* Settings

\* How relay_start and relay_stop compare: no start (0), a start that is not
\* before the stop, a stop later than the start, or one of them negative.
ByteOrders == {"none", "started", "later"}
Orders == ByteOrders \cup {"negative"}

StopCap == START_REQUEST_TOKEN_INVALIDATE_TIME

Erased == [relay |-> 0, runtime |-> 0, order |-> "none", reset |-> 0, notify |-> 0]

\* mutant: a cell keeps more than a byte
WideWritten(c) ==
  {[relay |-> c.relay, runtime |-> c.runtime, order |-> c.order,
    reset |-> c.reset, notify |-> c.notify]}

\* EEPROM.write keeps one byte of a field: the runtime's remainder and, of two
\* stamps, no more than bytes whose order says nothing.
Written(c) ==
  {[relay |-> c.relay, runtime |-> c.runtime % ByteRange, order |-> o,
    reset |-> c.reset, notify |-> c.notify] :
     o \in IF c.order = "none" THEN {"none"} ELSE ByteOrders}

writeSettings(c) == ee' \in Written(c)

\* The settings as readSettings leaves them in conf: stamps of the first 255 ms,
\* as old as the uptime.
Loaded ==
  {[relay |-> ee.relay, runtime |-> ee.runtime, start |-> age, stop |-> StopCap + 1,
    order |-> ee.order, reset |-> ee.reset, notify |-> ee.notify] :
     age \in {a \in INIT_DELAY .. ClockCap : a >= conf.start}}

OlderConf(d) ==
  [conf EXCEPT !.start = Min2(@ + d, ClockCap), !.stop = Older(@, d, StopCap)]

-----------------------------------------------------------------------------
\* The pump

\* A start or a stop as it is stamped now.
Stamped(order) == IF signBit THEN "negative" ELSE order

switchOnCompositeRelay(c) ==
  [c EXCEPT !.relay = 1, !.start = 0, !.order = Stamped("started")]

\* mutant: the stop is not stamped
UnstampedStop(c) == [c EXCEPT !.relay = 0]

switchOffCompositeRelay(c) ==
  [c EXCEPT !.relay = 0, !.stop = 0,
            !.order = IF @ = "none" THEN "none" ELSE Stamped("later")]

MayRun(c) == c.start > CONSECUTIVE_PUMP_RUN_DELAY

\* mutant: a tick too late
LateTimeOver(c) == c.start > c.runtime + 1

TimeOver(c) == c.start > c.runtime

\* mutant: the level does not matter
DryRun(c, levelOK) == TimeOver(c)

\* relayConditionSafeGuard stops a run on record whose time is over or whose
\* liquid level is not ok.
MustStop(c, levelOK) == ~levelOK \/ TimeOver(c)

\* n notices join the queue, which drops what it has no room for; one may leave.
Notify(n) ==
  LET waiting == Min2(queue + n, NOTICE_LIMIT)
  IN  queue' \in IF conf'.notify = 1 /\ waiting > 0 THEN {waiting, waiting - 1}
                                                 ELSE {waiting}

-----------------------------------------------------------------------------
\* loop()

\* setup() and the first pass's initSettings: a stored reset erases everything,
\* missing settings are replaced, the relays are off and the stamps are 0.
BootSettings ==
  LET stored == IF ee.reset = 1 THEN Erased ELSE ee
      first == stored.runtime = 0
  IN  [relay |-> 0, runtime |-> IF first THEN DEFAULT_RUNTIME ELSE stored.runtime,
       start |-> INIT_DELAY, stop |-> StopCap + 1, order |-> "none",
       reset |-> stored.reset, notify |-> IF first THEN 0 ELSE stored.notify]

Boot ==
  /\ conf' = BootSettings
  /\ writeSettings(BootSettings)
  /\ pump' = 0
  /\ PUMP_RUN_REQUEST_TOKEN' = FALSE
  /\ PUMP_CONNECTION_ON' = FALSE
  /\ lastPumpStopFeedbackTime' = PUMP_CONNECTION_SENSOR_NOISE_THRESHOLD + 1
  /\ switchOpen' = FALSE /\ lastOpenSwitchDetect' = 0
  /\ LIQUID_LEVEL_OK' = TRUE
  /\ systemFault' = FALSE /\ beeping' = FALSE
  /\ queue' = 0
  /\ signBit' = FALSE /\ reloaded' = FALSE

PowerCycle == Boot

\* A pass that finds a reset requested restarts.
RestartPass == conf.reset = 1 /\ Boot

\* The float switch as the guard leaves it, when it reads open or not: the stamp
\* counts only while the switch is open.
FloatSwitch(open, d) ==
  /\ switchOpen' = open
  /\ lastOpenSwitchDetect' =
       IF open /\ switchOpen THEN Min2(lastOpenSwitchDetect + d, FLOAT_SWITCH_DEBOUNCE)
       ELSE 0
  /\ LIQUID_LEVEL_OK' = ~(open /\ lastOpenSwitchDetect' >= FLOAT_SWITCH_DEBOUNCE)

\* relayConditionSafeGuard, which returns early within 100 ms of its last run.
Guard(d, runs, c) ==
  IF ~runs
  THEN /\ conf' = c
       /\ UNCHANGED <<pump, switchOpen, lastOpenSwitchDetect, LIQUID_LEVEL_OK>>
  ELSE /\ \E open \in BOOLEAN : FloatSwitch(open, d)
       /\ IF c.relay = 1 /\ MustStop(c, LIQUID_LEVEL_OK')
          THEN conf' = switchOffCompositeRelay(c) /\ pump' = 0
          ELSE conf' = c /\ UNCHANGED pump

\* checkPumpRunningStatus: current after a stop is noise for a while.
checkPumpRunningStatus(flows, d) ==
  LET age == Older(lastPumpStopFeedbackTime, d, PUMP_CONNECTION_SENSOR_NOISE_THRESHOLD)
  IN  /\ PUMP_CONNECTION_ON' =
           (flows /\ (PUMP_CONNECTION_ON \/ age > PUMP_CONNECTION_SENSOR_NOISE_THRESHOLD))
      /\ lastPumpStopFeedbackTime' = IF PUMP_CONNECTION_ON /\ ~flows THEN 0 ELSE age

\* Is the age of the stop, are both ages positive longs?  A saturated one need
\* not be past 2^31 ms.
StopIsPositive == IF signBit /\ conf'.stop = StopCap + 1 THEN BOOLEAN ELSE {TRUE}
AgesArePositive ==
  IF signBit /\ conf'.start = ClockCap THEN BOOLEAN ELSE StopIsPositive

CanCheck(due) ==
  /\ due
  /\ conf'.start > OPERATION_FEEDBACK_CHECK_DELAY
  /\ conf'.stop > OPERATION_FEEDBACK_CHECK_DELAY

\* mutant: the negation is lost
Swapped == ~PUMP_RUN_REQUEST_TOKEN

Requested == PUMP_RUN_REQUEST_TOKEN

\* checkUnauthorizedRun: without a request, a current or a closed relay is a
\* fault, and so is a pin error; when there is none RED_FLAG was never assigned.
checkUnauthorizedRun(due) ==
  systemFault' \in IF ~CanCheck(due) THEN {systemFault}
                  ELSE IF Requested THEN {FALSE}
                  ELSE IF PUMP_CONNECTION_ON' \/ pump' = 1 THEN {TRUE}
                  ELSE BOOLEAN

\* mutant: the order of start and stop is not looked at
HastyRelease(c) == c.stop > START_REQUEST_TOKEN_INVALIDATE_TIME

\* invalidateUserRequest
canReleaseToken(c) ==
  c.stop > START_REQUEST_TOKEN_INVALIDATE_TIME /\ c.order = "later"

\* A pass of d ticks.  A tick is longer than what spaces the checks out.
LoopPass(d) ==
  /\ conf.reset = 0
  /\ \E runs \in IF d = 0 THEN BOOLEAN ELSE {TRUE} : Guard(d, runs, OlderConf(d))
  /\ \E flows \in BOOLEAN : checkPumpRunningStatus(flows, d)
  /\ \E due \in IF d = 0 THEN BOOLEAN ELSE AgesArePositive :
       /\ checkUnauthorizedRun(due)
       /\ Notify((IF PUMP_CONNECTION_ON' # PUMP_CONNECTION_ON THEN 1 ELSE 0)
                + (IF CanCheck(due) /\ systemFault' THEN 1 ELSE 0))
  /\ beeping' \in IF systemFault' THEN BOOLEAN ELSE {FALSE}
  /\ \E positive \in StopIsPositive :
       PUMP_RUN_REQUEST_TOKEN' =
         (PUMP_RUN_REQUEST_TOKEN /\ ~(positive /\ canReleaseToken(conf')))
  /\ UNCHANGED <<ee, signBit, reloaded>>

\* The uptime passes 2^31 ms between two passes.
LongUptimeBegins ==
  /\ LongUptime /\ ~signBit
  /\ signBit' = TRUE
  /\ UNCHANGED <<conf, ee, pump, PUMP_RUN_REQUEST_TOKEN, sensorVars, faultVars,
                 queue, reloaded>>

-----------------------------------------------------------------------------
\* The handlers, one request at the end of a pass

Served(e) == e \in Endpoints /\ conf.reset = 0

\* runPump.  A bad liquid level only adds a reply of its own to a request.
runPump ==
  /\ IF MayRun(conf)
     THEN conf' = switchOnCompositeRelay(conf) /\ pump' = 1 /\ reloaded' = FALSE
          /\ UNCHANGED queue
     ELSE UNCHANGED <<conf, pump, reloaded>> /\ queue' = Min2(queue + 1, NOTICE_LIMIT)
  /\ PUMP_RUN_REQUEST_TOKEN' = TRUE
  /\ UNCHANGED <<ee, sensorVars, faultVars, signBit>>

stopPump ==
  /\ conf' = switchOffCompositeRelay(conf) /\ pump' = 0
  /\ UNCHANGED <<ee, PUMP_RUN_REQUEST_TOKEN, sensorVars, faultVars, queue,
                 signBit, reloaded>>

switchAOn == Served("on") /\ conf.relay = 0 /\ runPump

switchAOff == Served("off") /\ conf.relay = 1 /\ stopPump

toggleSwitch ==
  /\ Served("toggle")
  /\ \/ conf.relay = 0 /\ runPump
     \/ conf.relay # 0 /\ stopPump

Save(c) ==
  /\ conf' = c
  /\ writeSettings(c)
  /\ UNCHANGED <<pump, PUMP_RUN_REQUEST_TOKEN, sensorVars, faultVars, queue,
                 signBit, reloaded>>

setSwitchRuntime ==
  Served("setRuntime") /\ \E r \in Runtimes : Save([conf EXCEPT !.runtime = r])

setNotify ==
  Served("setNotify") /\ \E n \in Level : Save([conf EXCEPT !.notify = n])

\* The URL itself is left out, but not that all settings are written with it.
setNotifyURL == Served("setNotifyURL") /\ Save(conf)

handleReset == Served("reset") /\ Save([conf EXCEPT !.reset = 1])

\* getSwitchRuntime, getNotify and getNotifyURL load the stored settings first.
readSettings ==
  /\ \E e \in Getters : Served(e)
  /\ conf' \in Loaded
  /\ reloaded' = TRUE
  /\ UNCHANGED <<ee, pump, PUMP_RUN_REQUEST_TOKEN, sensorVars, faultVars, queue,
                 signBit>>

-----------------------------------------------------------------------------
Init ==
  /\ ee = [Erased EXCEPT !.runtime = DEFAULT_RUNTIME]
  /\ conf = [relay |-> 0, runtime |-> DEFAULT_RUNTIME, start |-> INIT_DELAY,
             stop |-> StopCap + 1, order |-> "none", reset |-> 0, notify |-> 0]
  /\ pump = 0
  /\ PUMP_RUN_REQUEST_TOKEN = FALSE
  /\ PUMP_CONNECTION_ON = FALSE
  /\ lastPumpStopFeedbackTime = PUMP_CONNECTION_SENSOR_NOISE_THRESHOLD + 1
  /\ switchOpen = FALSE /\ lastOpenSwitchDetect = 0
  /\ LIQUID_LEVEL_OK = TRUE
  /\ systemFault = FALSE /\ beeping = FALSE
  /\ queue = 0
  /\ signBit = FALSE /\ reloaded = FALSE

Next ==
  \/ LoopPass(0)
  \/ LoopPass(1)
  \/ LongUptimeBegins
  \/ RestartPass
  \/ PowerCycle
  \/ switchAOn
  \/ switchAOff
  \/ toggleSwitch
  \/ setSwitchRuntime
  \/ setNotify
  \/ setNotifyURL
  \/ handleReset
  \/ readSettings

Spec == Init /\ [][Next]_vars

\* loop() runs for ever, so time passes between its passes and a pass that finds
\* a reset requested restarts.  Clients and power failures owe nothing.
FairSpec == Spec /\ WF_vars(LoopPass(1)) /\ WF_vars(RestartPass)

-----------------------------------------------------------------------------
\* Properties

Stored == [relay : Level, runtime : 0 .. ByteRange - 1, order : ByteOrders,
           reset : Level, notify : Level]

Recorded == [relay : Level, runtime : Runtimes \cup (0 .. ByteRange - 1),
             start : 0 .. ClockCap, stop : 0 .. StopCap + 1, order : Orders,
             reset : Level, notify : Level]

\* Every variable has its type: stored settings fit their bytes, the queue its limit.
TypeOK ==
  /\ conf \in Recorded /\ ee \in Stored
  /\ pump \in Level /\ PUMP_RUN_REQUEST_TOKEN \in BOOLEAN
  /\ PUMP_CONNECTION_ON \in BOOLEAN
  /\ lastPumpStopFeedbackTime \in 0 .. PUMP_CONNECTION_SENSOR_NOISE_THRESHOLD + 1
  /\ switchOpen \in BOOLEAN /\ lastOpenSwitchDetect \in 0 .. FLOAT_SWITCH_DEBOUNCE
  /\ LIQUID_LEVEL_OK \in BOOLEAN
  /\ systemFault \in BOOLEAN /\ beeping \in BOOLEAN
  /\ queue \in 0 .. NOTICE_LIMIT
  /\ signBit \in BOOLEAN /\ reloaded \in BOOLEAN

\* A pump that runs is on record and the request for it is still held, so the
\* accident check never takes a client's run for a fault, however long it lasts
\* and whatever ran before it - unless a getter loaded stale settings over it.
RunIsRequested ==
  pump = 1 /\ ~reloaded => conf.relay = 1 /\ PUMP_RUN_REQUEST_TOKEN

\* No run outlasts the longest runtime a client may have set, whatever changes
\* the runtime meanwhile; a pump started against an empty tank (the handlers go
\* on after refusing) stops within a tick, and one that empties the tank at once.
SafeRun ==
  pump = 1 /\ ~reloaded =>
    /\ \E r \in Runtimes \cup {DEFAULT_RUNTIME} : conf.start <= r
    /\ ~LIQUID_LEVEL_OK => conf.start = 0

\* A reset once requested ends with the settings erased, a power failure before
\* the restart included.
ResetErases ==
  [][conf.reset = 1 /\ conf'.reset = 0 =>
       conf'.runtime = DEFAULT_RUNTIME /\ conf'.notify = 0]_vars

\* A run is timed: it starts at age 0, no step makes it younger, and time passes
\* in it only while it is younger than the runtime in force, which clients change
\* at will.  A getter that loads stale settings over it ends what is promised.
Undisturbed == pump = 1 /\ ~reloaded
RunAge == IF Undisturbed THEN conf.start ELSE 0
RunTime == IF Undisturbed THEN conf.runtime ELSE 0

Timed == INSTANCE TimedPump WITH running <- Undisturbed, age <- RunAge, runtime <- RunTime

ImplementsTimedPump == Timed!Spec

\* In the first 2^31 ms, a request held while the pump rests is running out:
\* requests that are refused do not renew it, each pass of a tick brings its end
\* nearer, and the pass in which it is old enough gives it up.
TokenRunsOut ==
  [][PUMP_RUN_REQUEST_TOKEN /\ pump = 0 /\ ~reloaded /\ ~signBit =>
       \/ ~PUMP_RUN_REQUEST_TOKEN' \/ pump' = 1 \/ reloaded' \/ signBit'
       \/ /\ conf'.stop >= conf.stop
          /\ LoopPass(1) => /\ conf'.stop > conf.stop
                            /\ conf'.stop <= START_REQUEST_TOKEN_INVALIDATE_TIME]_vars

\* In the first 2^31 ms, the first pass of a tick that finds the pump running
\* without a request, and does not stop it, raises the alarm: the two delays that
\* hold the check back after a start and after a stop are over by then.
AlarmsAtOnce ==
  [][LoopPass(1) /\ ~signBit /\ ~PUMP_RUN_REQUEST_TOKEN /\ pump' = 1 => systemFault']_vars

\* In the first 2^31 ms, the request for a run that has ended or was refused is
\* given up again, so a later current without a request counts as one.
TokenReleased ==
  PUMP_RUN_REQUEST_TOKEN /\ pump = 0 /\ ~signBit ~>
    (~PUMP_RUN_REQUEST_TOKEN \/ pump = 1 \/ reloaded \/ signBit)

=============================================================================
