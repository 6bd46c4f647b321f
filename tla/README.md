# A verification development of open-home-automation

The repository holds the firmware of a home: 14 Arduino sketches under
`src/sketches` (10.6 thousand lines) and the libraries they use under
`src/libraries`. This directory holds TLA+ models of that firmware, the
configurations that check them with TLC, and theorems checked by TLAPS.

## The system

Every sketch is one device with one thread: `setup()` once, then `loop()` for
ever. What makes the sketches hard is not threads but *time and order*: a loop
pass reads sensors, compares `millis()` with remembered stamps and drives relays,
while HTTP requests, radio codes, WiFi events and power cuts fall between any two
passes; and most of the state exists twice, in RAM and, one byte per field, in
EEPROM.

| Component (source under `src/sketches`) | State | Operations and interactions | Hard behaviour | Correct when |
|---|---|---|---|---|
| **Drinking-water storage controller** (`drinking_water_storage_controller`) | settings `conf` + EEPROM, pump and relay, debounced levels, stamps, sensor test, notice queue | core task once a second; 10 HTTP endpoints that change state; WiFi events; notices to a server | requests between passes, a getter that reloads all settings, power cut during a run, sensor test against refill, signed and one-byte time | a run is on record, ends in time and before an overflow; a dry tank is refilled after a recent test; settings survive |
| **QueueArray** (`src/libraries/QueueArray`) | circular array, size, head, tail | `enqueue` doubles, `dequeue` halves; used by four sketches for notices | wrap-around while the size changes | first in, first out; indices inside the array |
| **WiFi water pump controller** (`wifi-water-pump-controller`) | two relays, settings `conf` + EEPROM, run request token, float switch, current sensor, fault flag | loop; 9 HTTP endpoints; notices | token and settings set by a request, taken back by a later pass; debounced safe guard; a getter that reloads all settings during a run | a run holds its token, is on record and ends in time and before it runs dry; a run nobody asked for raises the alarm |
| **Apartment tank monitor, mega** (`apartment_pump_controller_mega_only_unit`) | four sensors, indicators, alarm, pump expectation, run counters | loop once a second, clock, notices | readings debounced one by one and held back by each other, a test that turns the sensors round, an overflow alarm that wails, daily events hit or missed by a pass | levels are possible; the alarm means an overflow; a broken sensor is noticed for good; the pump is expected in time |
| **Apartment tank monitor, ESP32** (`apartment_tank_monitor_esp32`) | as above | as above, network time | alarms skipped without time | as above |
| **Smart bell** (`smart_bell`) | detection lock, settings in RAM, in the EEPROM library's buffer and in flash, start counter | bell input, 8 settings endpoints, radio and POST | lock time-out, erase without commit, a one-byte time-out, reset by three interrupted starts | settings are lost only to a reset that was meant; one stroke per ring |
| **IoT template** (`iot_template`) | array of at most ten messages, configuration in EEPROM, MQTT connection | publish, clean up, reschedule, connect | removal while iterating, one loop counter used by two loops, a connection lost between two publishes | what is stored is delivered; the store drains |
| **IR switch board** (`ir_switch_board`) | two relays, one timer | remote-control commands, timer | timer replaced or cleared while due | timer acts on its relay once |
| **WiFi switch board** (`wifi-switchboard`) | relays + EEPROM | HTTP | restore after a power cut | EEPROM holds what the relays show |
| **Smart monitor** (`smart_monitor`) | motion condition, light and pump alarms | loop, clock | pump alarm only looked at without motion | pump off outside its period |
| **SIM800L caller** (`esp8266_sim800l_caller`) | call state, timer | HTTP, modem | cancel against dial | every call is hung up |
| **Door bell receiver** (`door_bell_reciever`) | a waiting code, the relay, a timer | radio code switches the bell on, the timer off | a code repeated six times | one stroke per burst |
| **Anydispense, air quality station, OLED clock** | little or none | distance samples, display | sample window | - |

The other libraries (JSON, MQTT, IR, displays, clocks, WiFi portal) are third
party and not modelled.

## Modules

| Module | What it is |
|---|---|
| `AquaController` | the drinking-water controller: one action per kind of core pass, one per HTTP handler, WiFi events, power cuts |
| `AquaProperties` | its type invariant, safety, action and liveness properties |
| `AquaGuard` | the guard against a recently full tank as its comments describe it, beside the controller |
| `AquaController_proofs` | type correctness, for every value of the constants |
| `AquaSafety_proofs` | its main safety properties, for every value of the constants |
| `AquaProgress_proofs` | that runs, sensor tests and resets get on, and that a recorded run stays under control |
| `QueueArray` | the circular buffer |
| `Fifo` | what the buffer promises: a bounded first-in first-out queue |
| `QueueArray_proofs` | its invariants, and that it implements `Fifo` |
| `PumpController` | the irrigation pump controller: passes of its loop, handlers, restarts |
| `TimedPump` | what a controller with a runtime promises of its pump: a run that ages only within the runtime in force |
| `PumpController_proofs` | its types, requests, safe runs, alarms and resets, and that it implements `TimedPump` |
| `TankMonitor` | the tank monitor of both boards, with the tank, the clock and broken sensors around it |
| `TankMonitor_proofs` | its types and all its safety and action properties |
| `IotMessageStore` | the message store of the IoT template and the life of its device |
| `IotMessageStore_proofs` | its types, its order, and that nothing is lost or delivered twice before a publish fails |
| `SmartBell`, `BellReceiver` | the two devices of the door bell |
| `DoorBell` | the two composed over a lossy radio, and their properties |
| `Chime` | what the two promise together: a call strikes once or not at all, while it is fresh, and a stroke takes its time |
| `DoorBell_proofs` | its types and safety properties, and that it implements `Chime` |

### How `AquaController` corresponds to the code

*A step is a core pass or a request.* `loop()` runs `coreTask()` when it is due
and then serves a request; nothing interrupts either, except WiFi events, which
set one flag. So every action is a whole pass or a whole handler:
`coreTask()` (607-631) splits by its own conditions into `InitialReadPass`,
`InitialisePass`, `TestNormalPass`, `TestInvertPass`, `TestEndPass`,
`ControlPass`, `ResetPass` and `UnhealthyPass`, each ending in
`dispatchPendingNotification`; the handlers keep their names.

*A pass in its order.* `ControlPass` composes what the code calls in order, each
working on what the previous one left: `relayConditionSafeGuard` (512-546) may
stop the pump (`ConfAfterGuard`, `PumpAfterGuard`), `evaluateTankState` (709-865)
debounces the levels and sets the stamps, `takeActions` (648-689) stops, starts or
begins a sensor test, and the notices of the pass are queued and at most one is
sent. The sensor readings `low` and `high` of a pass are arbitrary.

*Time is relative.* A stamp `x = millis()` is kept as its age in ticks, which
saturates one past the threshold it is compared with; `Never` (-1) stands for the
code's 0. Each core pass lets `d \in Elapsed` ticks go by. Requests take no time.
`conf.relay_start` and the uptime saturate at `ClockCap`; `relay_stop`, which is
written, saved and loaded but read by nothing, is left out.
`lastSensorTest` is a signed `long` in the code (85); `signBit` is the top bit of
`millis()`, and with it set a test is recorded as a negative time, which the code
takes for "never".

*Settings live twice.* `conf` is RAM, `ee` the EEPROM. `writeSettings` stores one
byte per field: the runtime modulo `ByteRange`, and of the timestamp only whether
its low byte is zero (`stamped`), which is all `initSettings` looks at. A
getter calls `readSettings`, which replaces *all* of `conf`, so `readSettings` is
part of three handlers. `Boot` is `setup()`; `PowerCycle` boots with the EEPROM as
it is, `ResetPass` with an erased one.

*The pump.* `pump` is the flag the code calls "running" and the relay pin, which
are always set together.

*Left out*: message texts, logging, the configuration portal, the endpoint's
text (only its being saved matters; texts fit their 50 characters),
`PUMP_RUN_REQUEST_TOKEN` and `systemFault` (written, never read), the content of
notices. `EEPROM.commit` is one step in this and the other models: flash is never
half written. Runtimes whose product with 1000 overflows an `int` are excluded by
`Runtimes`.

### QueueArray

`contents`, `size`, `items`, `head`, `tail` are the class's fields. `enqueue` and
`dequeue` are its methods with the `resize` inside them. The callers test
`count() < NOTICE_LIMIT` and `!isEmpty()` first, so `Limit` bounds `enqueue` and
`exit()` is not reached; a failing `malloc` is not modelled.

### PumpController

*A step is a pass or a request.* `loop()` serves at most one request at its end.
`LoopPass(d)` is a pass of `d` ticks (0 for the usual few milliseconds, 1 for
enough of them) in the order of the code: `relayConditionSafeGuard` (`Guard`, with
`FloatSwitch` and its debouncing), `checkPumpRunningStatus`, `checkUnauthorizedRun`,
`handleSystemFault`, the notices, `invalidateUserRequest` (`canReleaseToken`). What
only spaces repeated work out (100 ms between guards, 4 s between fault checks)
may or may not be over in a pass of no tick and is over in one of a tick. The
handlers keep their names; the getters that reload `conf` are one action,
`readSettings`.

*Stamps.* `relay_start` and `relay_stop` are ages, plus the order of the two
(`order`), which is what `invalidateUserRequest` compares. EEPROM keeps one byte of
each, so a reload may bring any order. Both are signed `long`s: with `signBit`, the top
bit of `millis()`, a new stamp is negative (`Stamped`, order "negative"), which
`canReleaseToken` (1107-1109) takes for no stamp, and an age of 2^31 ms or more is
negative too (`StopIsPositive`, `AgesArePositive`), which `CanCheck` (555-557) takes for
too young. `LongUptimeBegins` sets the bit; uptimes of 2^32 ms and runtimes of
2147484 s and more, whose milliseconds overflow an `int`, are excluded. `RED_FLAG` is a local variable that only
some paths assign: on the others `systemFault` takes either value.

*History.* `reloaded` says that a getter has replaced `conf` since the last start;
the properties are about runs of which it is false.

### TankMonitor

One module for two sketches: `board` tells them apart where they differ (clock,
system LED, backup from the start on the ESP32, notices, `runningDaysCounter`).
A pass is one of `InitPass`, `TestNormalPass`, `TestInvertPass`, `TestEndPass`,
`ControlPass` and `FailedPass`, by the conditions `inited`, `sensorCheck`,
`sensorsInvert` and `health` of `loop()`. `Evaluate` is `evaluateAlarms`,
`trackSensorChanges`, `evaluateTankState`, `doMiscTasks` and `updateIndicators` of
one pass; `LowError`, `MidError`, `HighError` are the readings that the evaluation
of one level calls an error, which holds back the levels after it. The branches of
`evaluateTankState` under `POWER_SAVER` (1153-1262), a constant `false`, are not
translated. Every pass ages all stamps, also the passes of a test and those after a
failed one, which look at none of them (`LevelsWait`).

The world is modelled too: a tank in which water reaches a level only by way of the
lower ones (`Tanks`), level pins that turn a sound sensor's reading round
(`Reading`), sensors that break and then read `StuckAt`, a clock of three moments
(the second of a test, a pumping period, the rest), a date, and network time that
may arrive late. Left out: the indicator test and the maintenance mode, which
nothing starts, the displays and the temperature.

### IotMessageStore

`messages` is the array `messages[]`; a message's topic and payload are its `id`.
`processMessages` publishes from the last to the first (`Tried`) and then runs
`cleanUpMessages`: its inner loop uses the counter of the outer one, so a pass deals
with one removable message only, and its gap is closed one place too early
(`Shifted`). `failing` is the message whose publish failed, with all before it, as
the client has closed the connection. `phase` is how far `setup()` and
`initSettings` got; `UnbegunPass` is the pass of a device that has just been
configured by the server, whose client was never set up: it restarts.

### SmartBell, BellReceiver, DoorBell

`SmartBell` has the settings three times: `conf`, the buffer of the EEPROM library
(`ee`) and flash. `Setup` is `setup()` with its counter of interrupted starts,
`FirstPass` the pass that loads the settings, `checkBell(ring)` the detection with
its lock; `since` is `sinceLastDetection`, a signed `long`: past `HALF_WRAP` it is negative and no
longer over the time-out, until the difference wraps. A time-out of `HALF_WRAP` (2147484 s)
or more overflows the `int` it is multiplied by 1000 in (712): any lock may follow, and
`tooLong` remembers it.
`BellReceiver` is one pass that ticks the timer and takes a code. `DoorBell` puts a
burst between the two: while it lasts the receiver may hear the code any number of
times or never; `Tick` ends it, and both devices have their own power cuts. The
receiver is done with what it heard within the tick (its loop only polls); the
smart bell may be busy for as long as it likes. A burst of six repeats is shorter than a
stroke. Codes of other senders are not modelled.

## Runs

Thresholds are scaled down so that the orders among them still occur. In `AquaRuns` a
run may start (2 ticks after the last start) after the initial reads (1); a test phase
takes 2 passes and stays recent for 3; the low sensor debounces slower (2) than the high
one and the pump (1); the queue has no room, so notices are dropped. In `AquaClients`,
where every endpoint but `toggle` (that is in `AquaRuns`) may be used at any moment, each
of these is as short as it can be: one initial read, a pass per test phase, a run from 1
tick after the last start, debouncing by a stamp older than 0, and one slot in the notice
queue. `ByteRange` is one more than the default runtime; the runtime that clients of
`AquaClients` ask for (3) does not fit it and is read back as 0. Two-valued sensors, one
runtime beside the default one and one slot of the notice queue suffice because the code
tells no more apart. The gap to the last full tank plays no part in the two (0): the guard
that compares it is dead, as `AquaBadGuard` (gap 4) shows and `SafeFlagCorrect` proves for
every gap. `Elapsed = {1}` is the scheduler's period; a late pass looks like several
sensors changing at once, which arbitrary readings already allow. `LongUptime = FALSE`:
the runs stay below 2^31 ms.

The other modules' instances:

- `QueueArray`: three values, so that an order can be told; limit 5
  (`NOTICE_LIMIT`), at which the array goes 2, 4, 8 and back.
- `PumpController`: `setup()` takes longer (2) than a stop takes to be forgotten (1)
  and than a run to be allowed (1); two runtimes, of which one does not fit
  `ByteRange = 2` and is read back as 0, "no settings". Of the getters one
  suffices, as they do the same. `LongUptime = TRUE`: the uptime may pass 2^31 ms at any
  moment.
- `TankMonitor`: both boards in one run; debouncing of a pass, a test of two passes
  a phase, an alarm that sounds once, one day until `MAX_DAYS_RUNNING`, and the low
  sensor breakable. Every sensor has the same code but for the order in which they are
  evaluated, and the low one comes first, so its error holds back the others.
- `IotMessageStore`: room for three messages, two of them the sketch's (the others are
  `declare_online`'s), one failed publish, one lost connection, one power cut. A
  published message, a failed one and a waiting one together fill the store, which is
  what the clean-up needs to go wrong. `MAX_SUBMITS`, `MAX_FAILURES`, `MAX_LOSSES` and
  `MAX_CYCLES` bound the model and not the code.
- `DoorBell`: a press (2) plus a POST (1) fits the shortest lock (3); one time-out
  that fits its byte, one that does not, and one whose milliseconds overflow; a detection
  lock of up to 7 against a signed half-range of 10, so that the difference of two stamps
  turns negative.

| Run | Question |
|---|---|
| `AquaRuns` | on, off, toggle, set the runtime, reset, and a fair core task. A running pump is on record (`RunningIsRecorded`) and a record without a run comes from a save before a power cut (`StaleRecordIsStored`); no pass lets a run outlast its runtime or an overflow (`RunWithinRuntime`, `OverflowStopsPump`); a sensor test never starts on a running pump; a healthy controller's run ends, a dry tank gets water, a reset happens |
| `AquaClients` | on, off, reset, all getters and setters, so `conf` is reloaded at any moment. Types, with stored bytes and the queue's limit; a run that is on record ends at its runtime, at an overflow and when a client asks (`RecordedRunIsControlled`), and only a getter takes it off the record (`OnlyLoadsLoseTheRecord`) or withdraws a reset (`ResetPrevails`); the overflow stamp only runs while filling; the last test is remembered; a refill only happens on a dry tank after a recent passed test; a failed test is final |
| `QueueArray` | no waste, implements `Fifo` |
| `PumpController` | every kind of request. A pump that runs on record holds its token (`RunIsRequested`) and is neither older than any runtime asked for nor dry (`SafeRun`); it is a run of `TimedPump`, which ages within the runtime in force (`ImplementsTimedPump`); the token of a run that ended is given up (`TokenReleased`), and the first tick of a run without one raises the alarm (`AlarmsAtOnce`), both below 2^31 ms |
| `TankMonitor` | possible levels, an alarm that means an overflow and outlasts its time only on account of a test, a failure that is final, a stuck sensor that is noticed, a pump expected in its time |
| `IotMessageStore` | until a publish fails, published messages come first (`PublishedFirst`), so that the clean-up's wrong index removes nothing that waits; what waits is delivered; the store drains; a new device gets ready |
| `DoorBell` | a call strikes once or not at all, while it is fresh, for the time of a stroke (`ImplementsChime`); a ring meets a bell at rest, whatever time-out below the overflow clients set; settings are kept |

Five runs show the code doing what its own text denies (details in
`PROJECT.json`, "findings"):

| Run | What happens |
|---|---|
| `AquaBadRuntime` | `GET /notify` during a run loads `relay = 0`; from then on `stopPump()` does nothing and the pump outlasts its runtime |
| `AquaBadOnDuringTest` | `GET /switch/1/set/on` during a sensor test that fails: no pass looks at the pump again |
| `AquaBadGuard` | the tank is full, its level drops, and the next pass finds it safe to run the pump: the stamp that should forbid it for two minutes was cleared with the drop |
| `TankBadSchedule` | after `MAX_DAYS_RUNNING` days the mega's `RESET_EVENT` stays set and takes the branch of the daily sensor test, while `doReset` does nothing |
| `IotBadCleanUp` | after a failed publish the clean-up removes a message that was never published |

### Observations

Behaviour met while modelling that the models reproduce and the properties are
worded around.

Drinking-water controller:

- `GET /reset` is only `conf.reset = 1` in RAM. A getter before the next pass
  takes it back, and after a failed sensor test nobody looks at it.
  `ResetHonoured` is checked for healthy controllers and without getters.
- "It cannot be run consecutively" (1512) is measured from the *start* of the
  previous run, so after any run longer than 15 s the pump can be restarted at once.
- "less than 2 minutes since tank was full" (522): `trackTankFull` clears the stamp
  in the pass that sees the tank no longer full, so the check never stops or refuses
  a run (`AquaBadGuard`; `SafeFlagCorrect` proves it for all thresholds).
- A start answered `400 SAFE_TO_RUN_PUMP=FALSE` starts the pump all the same, as the
  handler goes on (1229). With the guard above dead, the answer is only given between the
  start of the sketch and its first control pass.
- Past 2^31 ms a test is recorded as a negative time, so no test counts as recent,
  tests repeat and the refill never comes: with `LongUptime = TRUE`,
  `TestIsRemembered` is violated.
- Settings saved when `millis()` is a multiple of 256 look like a first run and
  are lost at the next start; a runtime of 256 is read back as 0.
- The handler of a WiFi *disconnection* sets `network = true` (277).

WiFi pump controller:

- "Attempting to block" an unauthorised run (569, 574) never blocks it: only the fault
  flag is set and a beep given.
- A handler goes on after it has answered 400, so a start refused for a bad liquid level
  runs until the guard's next look (hence `conf.start = 0` in `SafeRun`).
- A getter during a run may leave the pump off record, after which neither the guard
  nor `off` stops it until it is switched on again.
- Within one millisecond a stop is not later than its start, and the token stays.
- Past 2^31 ms (24.8 days) new stamps are negative: the token is never released again
  until a restart or a getter brings other stamps. An age of 2^31 ms or more is negative
  and switches the check for an unauthorised run off, and on again 24.8 days later.

Tank monitor:

- During a test and after a failed one no pass updates the indicators: an alarm that is
  on sounds past its 60 s, after a failed test until a restart.
- A change stamp is not cleared when the new level is adopted, but by the next pass that
  reads it: a reading that flips back in that pass is adopted at once, on one reading.
- Sound sensors fail a test if water or pump change between its two phases.
- A pump sensor that fails hides a level sensor that fails in the same test.
- A failed RTC is reported in every pass; the second of a daily test can be missed by
  a late pass; a full queue drops even the notice of a failure.
- The comment "between 5 am and 2 pm or between 5 pm and 7 pm" (1022) stands over
  5:30 and 16:50.
- After 2^31 ms the signed stamps are negative and nothing is debounced any more; the
  model stops before.

IoT template:

- `requires_ack` of a rescheduled message goes where its type is expected, so the
  message is sent again as a command with the empty content "{}"; `ack_received` is
  never set, so every such message is sent again.
- `publish_error` is kept after a later success, so such a message is sent twice.
- A removable message in the first place stays while others are there.
- A device that has just been configured restarts in its first pass, on a client that
  was not set up; `GetsReady` says that it then works.

Door bell:

- `/notify/test` notifies only in the pass that has just detected a ring.
- A notify address of four characters is accepted and then never posted to; the default
  "0.0.0.0" is.
- A time-out of more than 255 s is in use until a restart, while the getter reports
  its byte. From 2147484 s on its milliseconds overflow an `int`, for which `setBellSensorTimeout`
  has no upper check: the lock in force may then be any, shorter than a stroke too.
- After 24.8 days without a ring the difference of stamps is negative, and rings are
  ignored until it wraps.

### Deadlock and fairness

Deadlock is checked in every run: the controller never stops.

**Fairness.** `FairSpec` adds `WF_vars(CoreTask)`: `loop()` calls
`runner.execute()` for ever and the task is `TASK_FOREVER`, so the core task keeps
running whatever requests do. Requests, sensor readings, WiFi events and power
cuts are not fair.

`PumpController`'s `FairSpec` adds `WF_vars(LoopPass(1))` and
`WF_vars(RestartPass)`: `loop()` runs for ever, time passes in it, and a pass that
finds a reset requested restarts. `IotMessageStore`'s adds `WF_vars(Progress)`, the
passes of which each phase has one: the server that holds the configuration answers
at last, and a broker that can be reached is reached. `TankMonitor`, `DoorBell` and
`QueueArray` state safety only.

## Proofs

*Drinking-water controller.* Assumed of the constants: natural thresholds, a default runtime that fits a byte,
saturation past every threshold, and two orders among the sketch's thresholds
(`OrderAssumption`: 10 s of initial reads end before the 15 s after which a run
may start; a test phase of 10 s is shorter than the 60 s a test stays recent).
TLC evaluates them in every run.

- `TypeCorrect` (`AquaController_proofs`): `TypeOK` is inductive; one lemma per
  action over lemmas per helper (`OlderType`, `TrackedType`, `WrittenType`, ...).
- `OverflowStampCorrect` and `SafeFlagCorrect` (`AquaSafety_proofs`), for all clients.
  `SafeFlagCorrect` is about a guard that never acts: it holds because the full stamp
  exists exactly while the tank counts as full (`FullStampMeansFull`). That alone is not
  inductive, because the initial reads overwrite `tankState`; `LevelInv` adds that
  no stamp exists before `inited`.
- `TestStartCorrect`, for all clients, from `BootInv`: before `inited` the pump is
  off and `relay_start` is as old as the uptime, so that `OrderAssumption` rules a
  start out until `initialise()` has started the first test.
- `RecordCorrect`, `RuntimeCorrect`, `OverflowCorrect`, `OffCorrect`,
  `StaleRecordCorrect`, assuming `NoReload` (no client uses a getter that reloads
  `conf`; `AquaBadRuntime` shows that it is needed). `RunningIsRecorded` alone is
  not inductive, because `initialise()` loads `conf`; `RelayInv` joins it to
  `BootInv`. The action properties follow from `RelayInv` and a lemma on what a
  control pass leaves (`ControlPassRecord`).
- `FailureCorrect` and `RefillCorrect`, for all clients, from `TestInv`: between two
  tests the record of the last one has its age or is lost (`millis()` past 2^31),
  and a failed test leaves the controller inited, out of the test and beeping.
  `RememberedCorrect` assumes `~LongUptime`, under which the record is not lost
  (`KeptInv`); past 2^31 ms the property fails.
- `AquaProgress_proofs`, for all clients, the getters that reload `conf` included.
  `RecordLossCorrect`: only such a getter takes a run off the record.
  `ControlCorrect`: a run that is on record is under control, whatever happened
  before, so that `NoReload` above is needed for the record alone.
  `RunsAgeCorrect` (no step makes a recorded run younger, each core pass ages it),
  `TestRunsOutCorrect` and `ResetPrevailsCorrect` are what `RunEnds`, `RefillStarts`
  and `ResetHonoured` need of the code, the scheduler's fairness apart. `AgeInv` says
  that no start is older than the uptime, so that the stamps of the boot that a getter
  loads are not younger than those they replace; `SetupInv` that no test runs before
  `inited`. A control pass may end a run by its runtime and start the next one in the
  same pass, the one case in which the age of a recorded run falls.
- `QueueArray_proofs`: `IndexInv` (types, `IndicesAgree`, `NoWaste`) is inductive
  for every `Limit`; under it every step of the array is a step of `Fifo`
  (`QueueArrayImplementsFifo`): item `i` sits `i - 1` cells after `head`, and
  `resize` keeps the order.

*`PumpController_proofs`*: for all thresholds, runtimes and clients, assuming that a
start takes longer than the thresholds a stamp of 0 is compared with (`PumpClock`;
`setup()` waits 20 s). `RunIsRequested` and `SafeRun` are not inductive. `RunInv` says
that an undisturbed run is on record with its token, that its order is "started" (so that
`invalidateUserRequest` cannot take the token), that its age is within its runtime, and
that it has just started if the level is bad; `BoundInv` that every runtime in RAM or
EEPROM is bounded by one that a client asked for, which a remainder by `ByteRange` keeps.
`ResetCorrect` needs `ResetInv`: a reset in RAM is stored, so that a power cut does not
lose it.

`PumpImplementsTimedPump` maps the undisturbed run to `TimedPump`: each pass of the loop
ages it by no or one tick, which the guard allows only below the runtime in force, while
clients change that runtime and the level and the token go their own ways.
`TokenRunsOutCorrect` and `AlarmsAtOnceCorrect` rest on `EndInv`: a pump that rests, and
whose settings no getter has touched, is off record, may be started unless it was stopped
a while ago, and a token still held is one that can be given up (`RestInv`; the refusal of
a start sets the token too); and stamps that a getter loads over a run are old enough for the
accident check (`OldInv`, by `PumpClock`). Both are about uptimes below 2^31 ms: `SignInv`
says that no stamp is negative before.

*`TankMonitor_proofs`*: for both boards, all thresholds and any set of breakable sensors.
`LevelsNested` is not inductive: that no level is adopted alone depends on how long its
neighbours have been read differently. `OrderInv` says it (`Ordered`): of two neighbouring
levels with the same debounced state, the one that has to change first has been pending
for at least as long as the other; with it, the errors of `HighError` hold back exactly
the rest. `PhaseInv` and `FailInv` tie the test's phases, the
failure, the beeper and the system LED together. `StuckCorrect` rests on the fact that a
stuck sensor reads the same in both phases (`StuckReading`). `OrderWaits` and `WaitInv` carry
`OrderInv` and the alarm through the passes in which the stamps only age.
`TestRunsOutCorrect` and `AlarmRunsOutCorrect` that every pass brings the end of
a test, and every control pass the end of an alarm, nearer.

*`IotMessageStore_proofs`*: for every size of the store. `PublishedFirst` is inductive: a
pass publishes from the last to the first, a message is appended unpublished, and a removal
keeps the order. That a nonempty set of positions has a greatest
(`GreatestExists`) rests on the library's well-founded minimum. `NothingLostCorrect` uses it:
until a publish fails, the place that the clean-up empties by mistake holds a published
message too, so a waiting message goes only by being delivered (`IotBadCleanUp` shows what
one failure does). `OnceCorrect` needs `OnceInv`: a data message has one place in the store at most,
an identity already submitted, and is undelivered until it is published, so that what
is sent again is a command. `NearerCorrect` gives the distance that every change of
phase shortens.

*`DoorBell_proofs`*: for all time-outs that clients may set, those that overflow included
(`RingFindsBellAtRest` excepts only a lock that came of one), assuming `StrokeIsShort`: a
press of the bell and a POST together last no longer than the shortest lock (in the code
2 s and the few seconds of a POST against 15 s). `StrokeInv` bounds the press by the time since the
detection, and says that a struck burst's bell is still pressed while the burst lasts;
`SettingsInv` follows the three copies of the settings through interrupted starts.
`DoorBellImplementsChime` maps a burst that is on its way or heard, and not yet struck, to
the call of `Chime`, and the relay and its timer to the stroke: repeats, losses, power cuts
of either device and handlers of the smart bell are steps of `Chime` or stutter.

*Only model-checked*: the liveness properties (`RunEnds`, `RefillStarts`,
`ResetHonoured`, `TokenReleased`, `Delivered`, `Settles`, `GetsReady`), as the prover does
not reach fairness. For `RunEnds`, `ResetHonoured`, `TokenReleased` and `GetsReady` the
safety half is proved: each pass the scheduler owes brings the end nearer, and no other
step but the ones they name takes it back; for `RefillStarts`, that the test it waits for
runs out and is remembered. `Delivered` and `Settles` would take an order on whole stores
that a pass lowers, over which the prover has no induction. Every safety property and
refinement of the passing runs is also proved. Some theorems state properties that are in
no run's list (`RunsAge`, `TokenRunsOut`, `NothingLost`, ...): TLC
checked them on instances like those of the runs before they were proved.

## Not modelled

| Part | Why |
|---|---|
| IR switch board | one timer over two relays, set by a remote control whose codes are the state; `minutes * 60000` overflows a 16-bit `int` |
| WiFi switch board | relays written through to EEPROM by every request: a weaker instance of what `PumpController` and `SmartBell` cover |
| Smart monitor | two alarms against a motion sensor, no state kept across a restart |
| SIM800L caller | a call state driven by the text that a modem answers, through a serial library |
| Anydispense | arithmetic over samples of a distance sensor |
| Air quality station, OLED clock | read or show values, nothing to get wrong in an order |
| Vendored libraries | JSON, MQTT, MySensors, IR, displays, clocks, WiFi portal: third-party code, modelled only where a sketch uses it and as that use (the radio's repeats, `client.connected()`, the EEPROM's buffer) |

The libraries are most of the repository: the project's own sketches are 10.6 thousand
of its 123 thousand lines, and the modelled ones 8.3 thousand of these. Texts,
configuration portals, pin set-up and logging are left out of every model.

## Plan

1. `NotificationService`: notices with their content over `QueueArray`'s `Fifo`, WiFi
   loss, a POST whose result is dropped; order and loss.
2. `IrTimer`, `Switchboard`, `SmartMonitor`, `SimCaller`, then the dispenser.

Runs are few on purpose: one passing run per component and question, with small
constants, and a run of a disagreement only where a document or text of the code
states the contrary.
