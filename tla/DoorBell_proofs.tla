-------------------------- MODULE DoorBell_proofs --------------------------
(***************************************************************************)
(* Proofs about the smart bell and its receiver, for every threshold and   *)
(* every set of values that clients may set.                               *)
(***************************************************************************)
EXTENDS DoorBell, TLAPS

-----------------------------------------------------------------------------
\* The helpers

\* A remainder is below the modulus and not above the number.
LEMMA Remainder ==
  ASSUME NEW a \in Nat, NEW b \in Nat \ {0}
  PROVE  a % b \in 0 .. b - 1 /\ (a < b => a % b = a)
OBVIOUS

\* The next tick's time since the last ring stays in its range and grows by
\* no more than the tick.
LEMMA SinceGrows ==
  ASSUME NEW s \in 0 .. 2 * HALF_WRAP - 1
  PROVE  /\ (s + 1) % (2 * HALF_WRAP) \in 0 .. 2 * HALF_WRAP - 1
         /\ (s + 1) % (2 * HALF_WRAP) <= s + 1
<1> DEFINE w == 2 * HALF_WRAP
<1>1. w \in Nat \ {0}
  BY BellSizes
<1>2. s \in 0 .. w - 1
  OBVIOUS
<1> HIDE DEF w
<1>3. (s + 1) % w \in 0 .. w - 1 /\ (s + 1) % w <= s + 1
  <2>1. s + 1 \in Nat /\ s + 1 <= w
    BY <1>1, <1>2
  <2>2. /\ (s + 1) % w \in 0 .. w - 1
        /\ s + 1 < w => (s + 1) % w = s + 1
    BY <1>1, <2>1, Remainder
  <2> QED BY <1>1, <1>2, <2>1, <2>2
<1> QED BY <1>3 DEF w

\* What is stored are settings, and what is stored of stored ones is they.
LEMMA BytesType ==
  ASSUME NEW c \in Settings
  PROVE  /\ Bytes(c) \in Settings /\ Bytes(c).timeout < ByteRange
         /\ c.timeout < ByteRange => Bytes(c) = c
         /\ Bytes(c).starting = c.starting /\ Bytes(c).reset = c.reset
         /\ Bytes(c).notify = c.notify /\ Bytes(c).mode = c.mode /\ Bytes(c).url = c.url
<1>0. c.timeout \in Nat /\ ByteRange \in Nat \ {0}
  BY BellSizes DEF Settings
<1>1. /\ c.timeout % ByteRange \in 0 .. ByteRange - 1
      /\ c.timeout < ByteRange => c.timeout % ByteRange = c.timeout
  BY <1>0, Remainder
<1>2. c.timeout % ByteRange \in Nat
  BY <1>0, <1>1
<1> QED BY <1>1, <1>2, BellSizes DEF Bytes, Settings

\* Erased settings are settings.
LEMMA ErasedType == Erased \in Settings /\ Erased.timeout < ByteRange
BY BellSizes DEF Erased, Settings

-----------------------------------------------------------------------------
\* Types

\* The timeout in force is a long, and of no use only after an overflow.
TimeoutType ==
  /\ BELL_TIMEOUT \in -HALF_WRAP .. HALF_WRAP - 1 /\ tooLong \in BOOLEAN
  /\ tooLong \/ BELL_TIMEOUT >= MIN_TIMEOUT

LEMMA TimeoutFits ==
  ASSUME NEW t \in Nat, t >= MIN_TIMEOUT, t < HALF_WRAP, BELL_TIMEOUT' = t,
         tooLong' \in BOOLEAN
  PROVE  TimeoutType'
BY BellSizes DEF TimeoutType

\* setup() on stored settings keeps the types of the smart bell.
LEMMA SetupType ==
  ASSUME TypeOK, Setup(flash)
  PROVE  /\ phase' = "setup"
         /\ conf' \in Settings /\ ee' \in Settings /\ flash' \in Settings
         /\ ee'.timeout < ByteRange /\ flash'.timeout < ByteRange
         /\ flash'.starting <= 2
         /\ TimeoutType'
         /\ BELL_DETECTION_LOCK' \in BOOLEAN /\ canNotify' \in BOOLEAN
         /\ since' \in 0 .. 2 * HALF_WRAP - 1
         /\ starts' \in 0 .. 3 /\ asked' \in BOOLEAN
<1> DEFINE counted == [flash EXCEPT !.starting = @ + 1]
<1>1. counted \in Settings /\ counted.timeout = flash.timeout
      /\ counted.starting = flash.starting + 1
  BY DEF TypeOK, Settings
<1>2. [Erased EXCEPT !.timeout = flash.timeout, !.starting = counted.starting] \in Settings
  BY <1>1, ErasedType DEF TypeOK, Settings, Erased
<1>3. ThirdStart(counted) <=> counted.starting >= 3
  BY DEF ThirdStart
<1> HIDE DEF counted
<1>4. /\ flash' = IF ThirdStart(counted) THEN flash ELSE counted
      /\ ee' = IF counted.reset = 1 \/ ThirdStart(counted) THEN Erased ELSE counted
      /\ conf' = IF counted.reset = 1 \/ ThirdStart(counted)
                 THEN [Erased EXCEPT !.timeout = flash.timeout,
                                     !.starting = counted.starting]
                 ELSE counted
  BY Zenon DEF Setup, counted
<1>5. conf' \in Settings /\ ee' \in Settings /\ flash' \in Settings
  BY <1>1, <1>2, <1>4, ErasedType DEF TypeOK
<1>6. ee'.timeout < ByteRange /\ flash'.timeout < ByteRange
  BY <1>1, <1>4, ErasedType DEF TypeOK
<1>7. flash'.starting <= 2
  <2>1. flash.starting \in 0 .. 3
    BY DEF TypeOK, Settings
  <2> QED BY <1>1, <1>3, <1>4, <2>1 DEF TypeOK
<1>8. /\ TimeoutType'
      /\ since' \in 0 .. 2 * HALF_WRAP - 1
      /\ starts' \in 0 .. 3
  <2>1. BELL_TIMEOUT' = DEFAULT_TIMEOUT /\ tooLong' = FALSE
    BY DEF Setup
  <2>2. tooLong' \in BOOLEAN
    BY <2>1
  <2>3. DEFAULT_TIMEOUT \in Nat /\ DEFAULT_TIMEOUT >= MIN_TIMEOUT /\ DEFAULT_TIMEOUT < HALF_WRAP
    BY BellSizes
  <2>4. TimeoutType'
    BY <2>1, <2>2, <2>3, TimeoutFits
  <2> QED BY <2>4, BellSizes DEF Setup, TypeOK
<1>9. /\ BELL_DETECTION_LOCK' \in BOOLEAN /\ canNotify' \in BOOLEAN /\ asked' \in BOOLEAN
      /\ phase' = "setup"
  BY DEF Setup, TypeOK
<1> QED BY <1>5, <1>6, <1>7, <1>8, <1>9

\* What Save stores are settings.
LEMMA SaveType ==
  ASSUME NEW c \in Settings, c.starting = 0, Save(c)
  PROVE  /\ conf' \in Settings /\ ee' \in Settings /\ flash' \in Settings
         /\ ee'.timeout < ByteRange /\ flash'.timeout < ByteRange
         /\ flash'.starting <= 2
BY BytesType DEF Save, writeSettings

\* What a client's change saves are settings that count no starts, and the same
\* request for a reset unless this is one.
Change == setNotify \/ setBellNotifyMode \/ setBellSensorTimeout \/ setBellNotifyURL
            \/ handleReset

LEMMA ChangeSaves ==
  ASSUME TypeOK, phase = "loop" => conf.starting = 0, Change
  PROVE  /\ \E c \in Settings : c.starting = 0 /\ Save(c) /\ (c.reset = conf.reset \/ asked')
         /\ TimeoutType'
         /\ asked' \in BOOLEAN /\ (asked => asked')
<1>0. phase = "loop" /\ conf.starting = 0
  BY DEF Change, setNotify, setBellNotifyMode, setBellSensorTimeout, setBellNotifyURL,
         handleReset, Save, Serving
<1> DEFINE same == BELL_TIMEOUT' = BELL_TIMEOUT /\ tooLong' = tooLong
<1>6. same => TimeoutType'
  BY DEF TypeOK, TimeoutType
<1> HIDE DEF same
<1>1. CASE setNotify
  <2>1. PICK n \in Notifies : Save([conf EXCEPT !.notify = n])
    BY <1>1 DEF setNotify
  <2> DEFINE c == [conf EXCEPT !.notify = n]
  <2>2. c \in Settings /\ c.starting = 0 /\ c.reset = conf.reset
    BY <1>0, BellSizes DEF TypeOK, Settings
  <2>3. Save(c)
    BY <2>1
  <2> HIDE DEF c
  <2>4. same
    BY <1>1 DEF setNotify, same
  <2> QED BY <1>1, <1>6, <2>2, <2>3, <2>4 DEF setNotify, TypeOK
<1>2. CASE setBellNotifyMode
  <2>1. PICK m \in Modes : Save([conf EXCEPT !.mode = m])
    BY <1>2 DEF setBellNotifyMode
  <2> DEFINE c == [conf EXCEPT !.mode = m]
  <2>2. c \in Settings /\ c.starting = 0 /\ c.reset = conf.reset
    BY <1>0, BellSizes DEF TypeOK, Settings
  <2>3. Save(c)
    BY <2>1
  <2> HIDE DEF c
  <2>4. same
    BY <1>2 DEF setBellNotifyMode, same
  <2> QED BY <1>2, <1>6, <2>2, <2>3, <2>4 DEF setBellNotifyMode, TypeOK
<1>3. CASE setBellSensorTimeout
  <2>1. PICK t \in Timeouts :
           /\ Save([conf EXCEPT !.timeout = t])
           /\ BELL_TIMEOUT' \in IF t < HALF_WRAP THEN {t} ELSE -HALF_WRAP .. HALF_WRAP - 1
           /\ tooLong' = (t >= HALF_WRAP)
    BY <1>3 DEF setBellSensorTimeout
  <2> DEFINE c == [conf EXCEPT !.timeout = t]
  <2>2. c \in Settings /\ c.starting = 0 /\ c.reset = conf.reset
    BY <1>0, BellSizes DEF TypeOK, Settings
  <2>3. Save(c)
    BY <2>1
  <2> HIDE DEF c
  <2>4. t \in Nat /\ t >= MIN_TIMEOUT /\ HALF_WRAP \in Nat
    BY BellSizes
  <2>5. TimeoutType'
    <3>1. CASE t < HALF_WRAP
      <4>1. BELL_TIMEOUT' = t /\ tooLong' \in BOOLEAN
        BY <2>1, <3>1
      <4> QED BY <2>4, <3>1, <4>1, TimeoutFits
    <3>2. CASE ~(t < HALF_WRAP)
      <4>1. BELL_TIMEOUT' \in -HALF_WRAP .. HALF_WRAP - 1
        BY <2>1, <3>2
      <4>2. tooLong' = TRUE
        <5>1. (t >= HALF_WRAP) = TRUE
          BY <2>4, <3>2
        <5> QED BY <2>1, <5>1
      <4> QED BY <4>1, <4>2 DEF TimeoutType
    <3> QED BY <3>1, <3>2
  <2> QED BY <1>3, <2>2, <2>3, <2>5 DEF setBellSensorTimeout, TypeOK
<1>4. CASE setBellNotifyURL
  <2>1. PICK u \in Urls : Save([conf EXCEPT !.url = u])
    BY <1>4 DEF setBellNotifyURL
  <2> DEFINE c == [conf EXCEPT !.url = u]
  <2>2. c \in Settings /\ c.starting = 0 /\ c.reset = conf.reset
    BY <1>0, BellSizes DEF TypeOK, Settings
  <2>3. Save(c)
    BY <2>1
  <2> HIDE DEF c
  <2>4. same
    BY <1>4 DEF setBellNotifyURL, same
  <2> QED BY <1>4, <1>6, <2>2, <2>3, <2>4 DEF setBellNotifyURL, TypeOK
<1>5. CASE handleReset
  <2> DEFINE c == [conf EXCEPT !.reset = 1]
  <2>1. c \in Settings /\ c.starting = 0
    BY <1>0 DEF TypeOK, Settings
  <2>2. Save(c)
    BY <1>5 DEF handleReset
  <2> HIDE DEF c
  <2>3. same
    BY <1>5 DEF handleReset, same
  <2> QED BY <1>5, <1>6, <2>1, <2>2, <2>3 DEF handleReset, TypeOK
<1> QED BY <1>1, <1>2, <1>3, <1>4, <1>5 DEF Change

\* The smart bell's part of the type invariant.
BellType ==
  /\ phase \in {"setup", "loop"}
  /\ conf \in Settings /\ ee \in Settings /\ flash \in Settings
  /\ ee.timeout < ByteRange /\ flash.timeout < ByteRange /\ flash.starting <= 2
  /\ TimeoutType
  /\ BELL_DETECTION_LOCK \in BOOLEAN /\ canNotify \in BOOLEAN
  /\ since \in 0 .. 2 * HALF_WRAP - 1
  /\ starts \in 0 .. 3 /\ asked \in BOOLEAN

\* Every step keeps the smart bell's types; in loop() the count of starts is zero,
\* so that what is saved there counts fewer than three.
LEMMA BellTypeStep ==
  ASSUME TypeOK, phase = "loop" => conf.starting = 0, [Next]_vars
  PROVE  BellType'
<1> USE DEF BellType
<1>0. BellType
  BY DEF TypeOK, TimeoutType
<1>10. BELL_TIMEOUT' = BELL_TIMEOUT /\ tooLong' = tooLong => TimeoutType'
  BY <1>0 DEF TimeoutType
<1>1. ASSUME NEW ring \in BOOLEAN, Ring(ring) PROVE BellType'
  <2>1. conf' \in Settings
    BY <1>0, <1>1 DEF Ring, checkBell, Posted
  <2>2. since' \in 0 .. 2 * HALF_WRAP - 1
    BY <1>0, <1>1, BellSizes DEF Ring, checkBell
  <2>3. BELL_DETECTION_LOCK' \in BOOLEAN /\ canNotify' \in BOOLEAN
    BY <1>0, <1>1, Zenon DEF Ring, checkBell
  <2>4. TimeoutType'
    BY <1>1, <1>10 DEF Ring, checkBell
  <2> QED BY <1>0, <1>1, <2>1, <2>2, <2>3, <2>4 DEF Ring, checkBell
<1>2. CASE Test
  <2>1. TimeoutType'
    BY <1>2, <1>10 DEF Test, testNotify
  <2> QED BY <1>0, <1>2, <2>1 DEF Test, testNotify, Posted
<1>3. CASE FirstPass
  <2> DEFINE c == IF ee.mode \in 1 .. 3 THEN [ee EXCEPT !.starting = 0]
                  ELSE [ee EXCEPT !.notify = 0, !.mode = 3, !.timeout = DEFAULT_TIMEOUT,
                                  !.starting = 0, !.url = TRUE]
  <2>1. c \in Settings /\ c.starting = 0 /\ c.timeout < ByteRange
    <3>1. CASE ee.mode \in 1 .. 3
      BY <1>0, <3>1 DEF Settings
    <3>2. CASE ee.mode \notin 1 .. 3
      <4>1. c = [notify |-> 0, mode |-> 3, timeout |-> DEFAULT_TIMEOUT, starting |-> 0,
                 reset |-> ee.reset, url |-> TRUE]
        BY <1>0, <3>2 DEF Settings
      <4>2. DEFAULT_TIMEOUT \in Nat /\ DEFAULT_TIMEOUT < ByteRange
        BY BellSizes
      <4> HIDE DEF c
      <4> QED BY <1>0, <4>1, <4>2 DEF Settings
    <3> QED BY <3>1, <3>2
  <2> HIDE DEF c
  <2>2. conf' = c /\ ee' = Bytes(c) /\ flash' = Bytes(c)
    BY <1>0, <1>3, Zenon DEF FirstPass, writeSettings, c
  <2>3. BELL_TIMEOUT' = IF ValidTimeout(c.timeout) THEN c.timeout ELSE BELL_TIMEOUT
    BY <1>0, <1>3, Zenon DEF FirstPass, c
  <2>4. TimeoutType'
    <3>1. tooLong' = tooLong
      BY <1>3 DEF FirstPass
    <3>2. CASE ValidTimeout(c.timeout)
      <4>1. c.timeout \in Nat /\ c.timeout >= MIN_TIMEOUT /\ c.timeout < HALF_WRAP
        BY <2>1, <3>2, BellSizes DEF ValidTimeout, Settings
      <4>2. tooLong' \in BOOLEAN
        BY <1>0, <3>1 DEF TimeoutType
      <4> QED BY <2>3, <3>2, <4>1, <4>2, TimeoutFits
    <3>3. CASE ~ValidTimeout(c.timeout)
      BY <1>10, <2>3, <3>1, <3>3
    <3> QED BY <3>2, <3>3
  <2>5. /\ phase' = "loop" /\ BELL_DETECTION_LOCK' \in BOOLEAN
        /\ canNotify' \in BOOLEAN /\ asked' \in BOOLEAN
        /\ since' = 0 /\ starts' = 0
    BY <1>0, <1>3 DEF FirstPass
  <2> QED BY <1>0, <2>1, <2>2, <2>4, <2>5, BytesType, BellSizes
<1>4. CASE RestartPass
  BY <1>0, <1>4, SetupType DEF RestartPass
<1>5. CASE Change
  <2>1. PICK c \in Settings : c.starting = 0 /\ Save(c)
    BY <1>5, ChangeSaves
  <2>2. /\ conf' \in Settings /\ ee' \in Settings /\ flash' \in Settings
        /\ ee'.timeout < ByteRange /\ flash'.timeout < ByteRange /\ flash'.starting <= 2
    BY <2>1, SaveType
  <2> QED BY <1>0, <1>5, <2>1, <2>2, ChangeSaves DEF Save
<1>6. CASE readSettings
  <2>1. TimeoutType'
    BY <1>6, <1>10 DEF readSettings
  <2> QED BY <1>0, <1>6, <2>1 DEF readSettings
<1>7. CASE BellPower
  BY <1>0, <1>7, SetupType DEF BellPower, PowerCycle
<1>8. CASE Hear \/ Strike \/ ReceiverPower \/ UNCHANGED vars
  <2>1. UNCHANGED bellVars
    BY <1>8 DEF Hear, Strike, ReceiverPower, vars
  <2>2. TimeoutType'
    BY <1>10, <2>1 DEF bellVars
  <2> QED BY <1>0, <2>1, <2>2 DEF bellVars
<1>9. CASE Tick
  <2>1. since' \in 0 .. 2 * HALF_WRAP - 1
    BY <1>0, <1>9, SinceGrows DEF Tick, BellTick
  <2>2. TimeoutType'
    BY <1>9, <1>10 DEF Tick, BellTick
  <2> QED BY <1>0, <1>9, <2>1, <2>2 DEF Tick, BellTick
<1> QED BY <1>1, <1>2, <1>3, <1>4, <1>5, <1>6, <1>7, <1>8, <1>9
        DEF Next, Bell, Change

\* Every step keeps the types of the receiver and the radio.
LEMMA ReceiverTypeStep ==
  ASSUME TypeOK, [Next]_vars
  PROVE  /\ available' \in BOOLEAN /\ BELL_RELAY_ON' \in BOOLEAN
         /\ pressedFor' \in 0 .. BELL_PRESS_THRESHOLD
         /\ burst' \in BOOLEAN /\ struck' \in BOOLEAN
<1> USE DEF TypeOK
<1> DEFINE Goal == /\ available' \in BOOLEAN /\ BELL_RELAY_ON' \in BOOLEAN
                   /\ pressedFor' \in 0 .. BELL_PRESS_THRESHOLD
                   /\ burst' \in BOOLEAN /\ struck' \in BOOLEAN
<1>1. ASSUME NEW ring \in BOOLEAN, Ring(ring) PROVE Goal
  <2>1. burst' \in BOOLEAN /\ struck' \in BOOLEAN
    BY <1>1, Zenon DEF Ring, Send
  <2> QED BY <1>1, <2>1 DEF Ring, receiverVars
<1>2. CASE Test
  <2>1. burst' \in BOOLEAN /\ struck' \in BOOLEAN
    BY <1>2, Zenon DEF Test, Send
  <2> QED BY <1>2, <2>1 DEF Test, receiverVars
<1>3. CASE (Bell /\ Quiet) \/ UNCHANGED vars
  BY <1>3 DEF Quiet, receiverVars, vars
<1>4. CASE BellPower
  BY <1>4 DEF BellPower, receiverVars
<1>5. CASE Hear
  BY <1>5 DEF Hear, Receive
<1>6. CASE Strike
  <2>1. available' \in BOOLEAN /\ BELL_RELAY_ON' \in BOOLEAN /\ struck' \in BOOLEAN
    BY <1>6, Zenon DEF Strike, ReceiverPass
  <2>2. pressedFor' \in 0 .. BELL_PRESS_THRESHOLD
    BY <1>6, PressIsPositive DEF Strike, ReceiverPass
  <2> QED BY <1>6, <2>1, <2>2 DEF Strike
<1>7. CASE ReceiverPower
  <2>1. available' = FALSE /\ BELL_RELAY_ON' = FALSE /\ pressedFor' = 0
        /\ burst' = burst /\ struck' = struck
    BY <1>7 DEF ReceiverPower, ReceiverRestart
  <2>2. pressedFor' \in 0 .. BELL_PRESS_THRESHOLD
    BY <2>1, PressIsPositive
  <2>3. burst' \in BOOLEAN /\ struck' \in BOOLEAN
    BY <2>1
  <2> QED BY <2>1, <2>2, <2>3, Zenon
<1>8. CASE Tick
  <2>1. pressedFor' \in 0 .. BELL_PRESS_THRESHOLD
    BY <1>8, PressIsPositive DEF Tick, ReceiverTick, bell_off_due
  <2> QED BY <1>8, <2>1 DEF Tick, ReceiverTick
<1> QED BY <1>1, <1>2, <1>3, <1>4, <1>5, <1>6, <1>7, <1>8 DEF Next

-----------------------------------------------------------------------------
\* The stroke of the bell

\* A ring or a test that is on its way, or struck, is as old as the time since
\* the last ring allows; and a code on its way finds the bell that it struck.
StrokeInv ==
  /\ (burst \/ available) => since <= POST_LIMIT
  /\ BELL_RELAY_ON => since <= POST_LIMIT + pressedFor
  /\ struck /\ (burst \/ available) => BELL_RELAY_ON /\ pressedFor = 0

\* The stroke keeps its age when only the smart bell works, which may send a
\* burst or set the time since the last ring back.
LEMMA BellKeepsStroke ==
  ASSUME TypeOK, StrokeInv, UNCHANGED receiverVars,
         since' \in {since, 0},
         burst' => burst \/ since' <= POST_LIMIT,
         struck' => struck,
         struck' /\ burst' => burst
  PROVE  StrokeInv'
<1>1. POST_LIMIT \in Nat /\ since \in Nat /\ pressedFor \in Nat
  BY BellSizes DEF TypeOK
<1> QED BY <1>1 DEF StrokeInv, receiverVars

LEMMA StrokeStep ==
  ASSUME TypeOK, StrokeInv, [Next]_vars
  PROVE  StrokeInv'
<1>0. POST_LIMIT \in Nat /\ since \in 0 .. 2 * HALF_WRAP - 1 /\ pressedFor \in Nat
      /\ BELL_PRESS_THRESHOLD \in Nat \ {0}
  BY BellSizes, PressIsPositive DEF TypeOK
<1>1. ASSUME NEW ring \in BOOLEAN, Ring(ring) PROVE StrokeInv'
  <2>1. since' \in {since, 0} /\ UNCHANGED receiverVars
    BY <1>1 DEF Ring, checkBell
  <2>2. ring /\ Breached => since' <= POST_LIMIT
    <3>1. ring /\ Breached => since' = 0
      BY <1>1, Zenon DEF Ring, checkBell
    <3> QED BY <1>0, <3>1
  <2>3. burst' = (burst \/ (ring /\ Breached /\ SendsRF))
        /\ struck' = (struck /\ ~(ring /\ Breached /\ SendsRF))
    BY <1>1, Zenon DEF Ring, Send
  <2>4. (burst' => burst \/ since' <= POST_LIMIT) /\ (struck' => struck)
        /\ (struck' /\ burst' => burst)
    BY <2>2, <2>3, Zenon
  <2> QED BY <2>1, <2>4, BellKeepsStroke
<1>2. CASE Test
  <2>1. since' = since /\ since <= POST_LIMIT /\ UNCHANGED receiverVars
    BY <1>2 DEF Test, testNotify
  <2>2. burst' = (burst \/ SendsRF) /\ struck' = (struck /\ ~SendsRF)
    BY <1>2, Zenon DEF Test, Send
  <2>3. (burst' => burst \/ since' <= POST_LIMIT) /\ (struck' => struck)
        /\ (struck' /\ burst' => burst)
    BY <2>1, <2>2
  <2> QED BY <2>1, <2>3, BellKeepsStroke
<1>3. CASE Bell /\ Quiet
  <2>1. since' \in {since, 0}
    BY <1>3 DEF Bell, FirstPass, RestartPass, Setup, setNotify, setBellNotifyMode,
                setBellSensorTimeout, setBellNotifyURL, handleReset, readSettings, Save
  <2>2. UNCHANGED receiverVars /\ burst' = burst /\ struck' = struck
    BY <1>3 DEF Quiet
  <2>3. (burst' => burst \/ since' <= POST_LIMIT) /\ (struck' => struck)
        /\ (struck' /\ burst' => burst)
    BY <2>2, Zenon
  <2> QED BY <2>1, <2>2, <2>3, BellKeepsStroke
<1>4. CASE BellPower
  <2>1. since' = 0 /\ UNCHANGED receiverVars /\ burst' = FALSE /\ struck' = struck
    BY <1>4 DEF BellPower, PowerCycle, Setup
  <2>2. (burst' => burst \/ since' <= POST_LIMIT) /\ (struck' => struck)
        /\ (struck' /\ burst' => burst)
    BY <2>1
  <2> QED BY <2>1, <2>2, BellKeepsStroke
<1>5. CASE Hear
  BY <1>5 DEF Hear, Receive, StrokeInv, bellVars
<1>6. CASE Strike
  <2>1. since' = since /\ burst' = burst /\ ~available'
    BY <1>6 DEF Strike, ReceiverPass, bellVars
  <2>2. CASE BELL_RELAY_ON /\ ~bell_off_due
    <3>1. BELL_RELAY_ON' /\ pressedFor' = pressedFor
      BY <1>6, <2>2 DEF Strike, ReceiverPass
    <3>2. struck' = struck
      BY <1>6, <2>2, Zenon DEF Strike, TypeOK
    <3> QED BY <2>1, <2>2, <3>1, <3>2 DEF StrokeInv
  <2>3. CASE ~(BELL_RELAY_ON /\ ~bell_off_due)
    <3>1. BELL_RELAY_ON' = available /\ pressedFor' = 0
      BY <1>6, <2>3 DEF Strike, ReceiverPass, TypeOK
    <3>2. struck' => struck \/ BELL_RELAY_ON'
      BY <1>6, Zenon DEF Strike
    <3>3. struck /\ burst => pressedFor = 0 /\ BELL_RELAY_ON
      BY DEF StrokeInv
    <3>4. ~(struck /\ burst)
      BY <1>0, <2>3, <3>3 DEF bell_off_due
    <3> QED BY <1>0, <2>1, <3>1, <3>2, <3>4 DEF StrokeInv
  <2> QED BY <2>2, <2>3
<1>7. CASE ReceiverPower
  BY <1>7 DEF ReceiverPower, ReceiverRestart, StrokeInv, bellVars
<1>8. CASE Tick
  <2>1. ~burst' /\ ~available' /\ BELL_RELAY_ON' = BELL_RELAY_ON
    BY <1>8 DEF Tick, ReceiverTick
  <2>2. since' \in Nat /\ since' <= since + 1
    BY <1>0, <1>8, SinceGrows, BellSizes DEF Tick, BellTick
  <2>3. BELL_RELAY_ON => pressedFor' = pressedFor + 1
    BY <1>8 DEF Tick, ReceiverTick
  <2> QED BY <1>0, <2>1, <2>2, <2>3 DEF StrokeInv
<1>9. CASE UNCHANGED vars
  BY <1>9 DEF vars, bellVars, receiverVars, StrokeInv
<1> QED BY <1>1, <1>2, <1>3, <1>4, <1>5, <1>6, <1>7, <1>8, <1>9 DEF Next

-----------------------------------------------------------------------------
\* Settings

\* What is in RAM, in the buffer and in flash, and how many starts are counted.
SettingsInv ==
  /\ phase = "setup" => ee.reset = 0
  /\ phase = "setup" /\ starts < 3 => flash.starting = starts
  /\ phase = "setup" /\ starts < 3 /\ ~asked => ee = flash
  /\ phase = "loop" => starts = 0 /\ conf.starting = 0 /\ ee = Bytes(conf) /\ flash = ee
  /\ ~asked => flash.reset = 0

\* A start keeps count: from flash it takes the count and, unless it erases, all.
LEMMA SetupSettings ==
  ASSUME TypeOK, SettingsInv, Setup(flash)
  PROVE  SettingsInv'
<1> DEFINE counted == [flash EXCEPT !.starting = @ + 1]
<1>1. counted \in Settings /\ counted.reset = flash.reset
      /\ counted.starting = flash.starting + 1
  BY DEF TypeOK, Settings
<1> HIDE DEF counted
<1>2. /\ flash' = IF ThirdStart(counted) THEN flash ELSE counted
      /\ ee' = IF counted.reset = 1 \/ ThirdStart(counted) THEN Erased ELSE counted
  BY Zenon DEF Setup, counted
<1>3. phase' = "setup" /\ asked' = asked /\ starts' = IF starts < 3 THEN starts + 1 ELSE starts
  BY DEF Setup
<1>4. flash.starting \in 0 .. 2 /\ flash.reset \in {0, 1} /\ starts \in 0 .. 3
  BY DEF TypeOK, Settings
<1>5. starts < 3 => flash.starting = starts
  <2>1. CASE phase = "setup"
    BY <2>1 DEF SettingsInv
  <2>2. CASE phase = "loop"
    <3>1. flash.starting = conf.starting
      BY <2>2, BytesType DEF SettingsInv, TypeOK
    <3> QED BY <2>2, <3>1 DEF SettingsInv
  <2> QED BY <2>1, <2>2 DEF TypeOK
<1>6. ee'.reset = 0
  BY <1>1, <1>2, <1>4 DEF Erased
<1>7. starts' < 3 => flash'.starting = starts' /\ flash' = counted
  BY <1>1, <1>2, <1>3, <1>4, <1>5 DEF ThirdStart
<1>8. starts' < 3 /\ ~asked => ee' = flash'
  BY <1>1, <1>2, <1>3, <1>4, <1>5, <1>7 DEF ThirdStart, SettingsInv
<1>9. ~asked => flash'.reset = 0
  BY <1>1, <1>2 DEF SettingsInv
<1> QED BY <1>3, <1>6, <1>7, <1>8, <1>9 DEF SettingsInv

LEMMA SettingsStep ==
  ASSUME TypeOK, SettingsInv, [Next]_vars
  PROVE  SettingsInv'
<1> DEFINE kept == UNCHANGED <<phase, ee, flash, starts, asked>>
<1>0. ee \in Settings /\ ee.timeout < ByteRange /\ Bytes(ee) = ee
  BY BytesType DEF TypeOK
<1>1. ASSUME kept, conf' = conf \/ (phase = "loop" /\ conf' = ee)
      PROVE  SettingsInv'
  <2>1. CASE conf' = conf
    BY <1>1, <2>1 DEF SettingsInv
  <2>2. CASE phase = "loop" /\ conf' = ee
    <3>1. ee.starting = 0
      BY <2>2, BytesType DEF SettingsInv, TypeOK
    <3> QED BY <1>0, <1>1, <2>2, <3>1 DEF SettingsInv
  <2> QED BY <1>1, <2>1, <2>2
<1>2. ASSUME NEW ring \in BOOLEAN, Ring(ring) PROVE SettingsInv'
  <2>1. kept /\ phase = "loop"
    BY <1>2 DEF Ring, checkBell, Serving
  <2>2. conf' = conf \/ conf' = ee
    BY <1>2 DEF Ring, checkBell, Posted
  <2> QED BY <1>1, <2>1, <2>2
<1>3. CASE Test
  <2>1. kept /\ phase = "loop" /\ (conf' = conf \/ conf' = ee)
    BY <1>3 DEF Test, testNotify, Serving, Posted
  <2> QED BY <1>1, <2>1
<1>4. CASE FirstPass
  <2> DEFINE c == IF ee.mode \in 1 .. 3 THEN [ee EXCEPT !.starting = 0]
                  ELSE [ee EXCEPT !.notify = 0, !.mode = 3, !.timeout = DEFAULT_TIMEOUT,
                                  !.starting = 0, !.url = TRUE]
  <2>1. c.starting = 0 /\ c.reset = ee.reset /\ c \in Settings
    <3>1. CASE ee.mode \in 1 .. 3
      BY <1>0, <3>1 DEF Settings
    <3>2. CASE ee.mode \notin 1 .. 3
      <4>1. c = [notify |-> 0, mode |-> 3, timeout |-> DEFAULT_TIMEOUT, starting |-> 0,
                 reset |-> ee.reset, url |-> TRUE]
        BY <1>0, <3>2 DEF Settings
      <4>2. DEFAULT_TIMEOUT \in Nat
        BY BellSizes
      <4> HIDE DEF c
      <4> QED BY <1>0, <4>1, <4>2 DEF Settings
    <3> QED BY <3>1, <3>2
  <2> HIDE DEF c
  <2>2. conf' = c /\ ee' = Bytes(c) /\ flash' = Bytes(c)
    BY <1>4, Zenon DEF FirstPass, writeSettings, c
  <2>3. phase = "setup" /\ phase' = "loop" /\ starts' = 0 /\ asked' = FALSE
    BY <1>4 DEF FirstPass
  <2>4. flash'.reset = 0
    BY <2>1, <2>2, <2>3, BytesType DEF SettingsInv
  <2> QED BY <2>1, <2>2, <2>3, <2>4 DEF SettingsInv
<1>5. CASE RestartPass
  BY <1>5, SetupSettings DEF RestartPass
<1>6. CASE Change
  <2>1. phase = "loop" => conf.starting = 0
    BY DEF SettingsInv
  <2>2. PICK c \in Settings : /\ c.starting = 0 /\ Save(c)
                             /\ (c.reset = conf.reset \/ asked')
    BY <1>6, <2>1, ChangeSaves
  <2>3. asked => asked'
    BY <1>6, <2>1, ChangeSaves
  <2>4. conf' = c /\ ee' = Bytes(c) /\ flash' = Bytes(c)
        /\ phase = "loop" /\ phase' = "loop" /\ starts' = starts
    BY <2>2 DEF Save, Serving, writeSettings
  <2>5. flash'.reset = c.reset
    BY <2>4, BytesType
  <2>6. flash.reset = conf.reset
    BY <2>4, BytesType DEF SettingsInv, TypeOK
  <2> QED BY <2>2, <2>3, <2>4, <2>5, <2>6 DEF SettingsInv
<1>7. CASE readSettings
  <2>1. kept /\ phase = "loop" /\ conf' = ee
    BY <1>7 DEF readSettings, Serving
  <2> QED BY <1>1, <2>1
<1>8. CASE BellPower
  BY <1>8, SetupSettings DEF BellPower, PowerCycle
<1>9. CASE Hear \/ Strike \/ ReceiverPower \/ UNCHANGED vars
  <2>1. kept /\ conf' = conf
    BY <1>9 DEF Hear, Strike, ReceiverPower, bellVars, vars
  <2> QED BY <1>1, <2>1
<1>10. CASE Tick
  <2>1. kept /\ conf' = conf
    BY <1>10 DEF Tick, BellTick
  <2> QED BY <1>1, <2>1
<1> QED BY <1>2, <1>3, <1>4, <1>5, <1>6, <1>7, <1>8, <1>9, <1>10 DEF Next, Bell, Change

-----------------------------------------------------------------------------
\* The theorems

Inv == TypeOK /\ StrokeInv /\ SettingsInv

LEMMA InitInv == Init => Inv
<1> SUFFICES ASSUME Init PROVE Inv
  OBVIOUS
<1>0. Erased.timeout = 0 /\ Erased.reset = 0
  BY DEF Erased
<1>1. [Erased EXCEPT !.starting = 1] \in Settings
      /\ [Erased EXCEPT !.starting = 1].timeout = 0
      /\ [Erased EXCEPT !.starting = 1].starting = 1
      /\ [Erased EXCEPT !.starting = 1].reset = 0
  BY <1>0, ErasedType DEF Settings
<1>2. conf = flash /\ ee = flash /\ flash = [Erased EXCEPT !.starting = 1]
      /\ phase = "setup" /\ starts = 1 /\ asked = FALSE /\ since = 0
      /\ BELL_TIMEOUT = DEFAULT_TIMEOUT /\ tooLong = FALSE
      /\ BELL_DETECTION_LOCK = FALSE /\ canNotify = FALSE
      /\ available = FALSE /\ BELL_RELAY_ON = FALSE /\ pressedFor = 0
      /\ burst = FALSE /\ struck = FALSE
  BY DEF Init, BellInit, ReceiverInit
<1>3. /\ DEFAULT_TIMEOUT \in -HALF_WRAP .. HALF_WRAP - 1 /\ DEFAULT_TIMEOUT >= MIN_TIMEOUT
      /\ 0 \in 0 .. 2 * HALF_WRAP - 1
      /\ 0 \in 0 .. BELL_PRESS_THRESHOLD /\ 0 < ByteRange /\ POST_LIMIT \in Nat
  BY BellSizes, PressIsPositive
<1>4. TypeOK
  <2>1. /\ phase \in {"setup", "loop"} /\ starts \in 0 .. 3 /\ flash.starting <= 2
        /\ since \in 0 .. 2 * HALF_WRAP - 1 /\ pressedFor \in 0 .. BELL_PRESS_THRESHOLD
        /\ BELL_TIMEOUT \in -HALF_WRAP .. HALF_WRAP - 1 /\ BELL_TIMEOUT >= MIN_TIMEOUT
    BY <1>1, <1>2, <1>3
  <2>2. /\ BELL_DETECTION_LOCK \in BOOLEAN /\ canNotify \in BOOLEAN /\ asked \in BOOLEAN
        /\ available \in BOOLEAN /\ BELL_RELAY_ON \in BOOLEAN
        /\ burst \in BOOLEAN /\ struck \in BOOLEAN /\ tooLong \in BOOLEAN
    BY <1>2
  <2> QED BY <1>1, <1>2, <1>3, <2>1, <2>2 DEF TypeOK
<1>5. StrokeInv
  BY <1>2, <1>3 DEF StrokeInv
<1>6. SettingsInv
  BY <1>1, <1>2 DEF SettingsInv
<1> QED BY <1>4, <1>5, <1>6 DEF Inv

LEMMA InvStep == Inv /\ [Next]_vars => Inv'
<1> SUFFICES ASSUME Inv, [Next]_vars PROVE Inv'
  OBVIOUS
<1>1. TypeOK /\ StrokeInv /\ SettingsInv
  BY DEF Inv
<1>2. BellType'
  BY <1>1, BellTypeStep DEF SettingsInv
<1>3. TypeOK'
  BY <1>1, <1>2, ReceiverTypeStep DEF TypeOK, BellType, TimeoutType
<1> QED BY <1>1, <1>3, StrokeStep, SettingsStep DEF Inv

LEMMA InvHolds == Spec => []Inv
BY InitInv, InvStep, PTL DEF Spec

\* The variables keep their types, the stored settings their bytes, and flash
\* never counts more than two starts.
THEOREM TypeCorrect == Spec => []TypeOK
<1>1. Inv => TypeOK
  BY DEF Inv
<1> QED BY <1>1, InvHolds, PTL

\* The call that Chime sees: a burst that is on its way or was heard, and has not
\* struck yet.
Fresh == (burst \/ available) /\ ~struck

\* The age of the stroke as Chime sees it
Age == IF BELL_RELAY_ON THEN pressedFor ELSE 0

\* What the smart bell does makes a call, loses one or concerns Chime not at all.
LEMMA BellPromised ==
  ASSUME TypeOK, UNCHANGED receiverVars,
         NEW sent \in BOOLEAN, Send(sent) \/ (burst' = FALSE /\ struck' = struck)
                                          \/ (UNCHANGED <<burst, struck>>)
  PROVE  Promised!Call \/ Promised!Lose \/ UNCHANGED Promised!vars
<1>1. BELL_RELAY_ON' = BELL_RELAY_ON /\ Age' = Age /\ available' = available
  BY DEF receiverVars, Age
<1>2. Fresh' \in {TRUE, FALSE, Fresh} /\ Fresh \in BOOLEAN
  BY DEF Fresh
<1>3. CASE Fresh' = TRUE
  BY <1>1, <1>3, Zenon DEF Promised!Call, Fresh, Age
<1>4. CASE Fresh' = FALSE
  BY <1>1, <1>4, Zenon DEF Promised!Lose, Fresh, Age
<1> QED BY <1>2, <1>3, <1>4

\* A pass of the receiver strikes, releases, or drops what it heard while the
\* bell is pressed.
LEMMA PassPromised ==
  ASSUME TypeOK, StrokeInv, Strike
  PROVE  [Promised!Next]_(Promised!vars)
<1>0. /\ available' = FALSE /\ burst' = burst
      /\ BELL_RELAY_ON' = ((BELL_RELAY_ON /\ ~bell_off_due) \/ available)
      /\ pressedFor' = IF BELL_RELAY_ON /\ ~bell_off_due THEN pressedFor ELSE 0
      /\ available \/ bell_off_due
      /\ struck' = (struck \/ (BELL_RELAY_ON' /\ (bell_off_due \/ ~BELL_RELAY_ON)))
  BY DEF Strike, ReceiverPass
<1>1. CASE BELL_RELAY_ON /\ ~bell_off_due
  <2>1. BELL_RELAY_ON' = BELL_RELAY_ON /\ Age' = Age /\ struck' = struck
    BY <1>0, <1>1 DEF Age, TypeOK
  <2>2. Fresh' = FALSE \/ Fresh' = Fresh
    BY <1>0, <2>1 DEF Fresh, TypeOK
  <2>3. CASE Fresh' = FALSE
    BY <2>1, <2>3, Zenon DEF Promised!Next, Promised!Lose, Fresh, Age
  <2>4. CASE Fresh' = Fresh
    BY <2>1, <2>4, Zenon DEF Promised!vars, Fresh, Age
  <2> QED BY <2>2, <2>3, <2>4
<1>2. CASE ~(BELL_RELAY_ON /\ ~bell_off_due) /\ available
  <2>1. BELL_RELAY_ON' = TRUE /\ pressedFor' = 0 /\ struck' = TRUE
    BY <1>0, <1>2 DEF bell_off_due
  <2>2. ~struck
    BY <1>2, PressIsPositive DEF StrokeInv, bell_off_due
  <2>3. Fresh /\ Fresh' = FALSE /\ Age' = 0
    BY <1>2, <2>1, <2>2 DEF Fresh, Age
  <2>4. (BELL_RELAY_ON /\ Age = BELL_PRESS_THRESHOLD) \/ ~BELL_RELAY_ON
    BY <1>2, PressIsPositive DEF bell_off_due, Age, TypeOK
  <2>5. Promised!Strike
    BY <2>1, <2>3, <2>4, Zenon DEF Promised!Strike, Promised!Ended, Fresh, Age
  <2> QED BY <2>5 DEF Promised!Next
<1>3. CASE ~(BELL_RELAY_ON /\ ~bell_off_due) /\ ~available
  <2>1. BELL_RELAY_ON /\ bell_off_due /\ Age = BELL_PRESS_THRESHOLD
    BY <1>0, <1>3, PressIsPositive DEF bell_off_due, Age, TypeOK
  <2>2. BELL_RELAY_ON' = FALSE /\ Age' = 0 /\ struck' = struck
    BY <1>0, <1>3, <2>1 DEF Age, TypeOK
  <2>3. Fresh' = Fresh
    BY <1>0, <1>3, <2>2 DEF Fresh, TypeOK
  <2>4. Promised!Release
    BY <2>1, <2>2, <2>3, Zenon DEF Promised!Release, Promised!Ended, Fresh, Age
  <2> QED BY <2>4 DEF Promised!Next
<1> QED BY <1>1, <1>2, <1>3

LEMMA PromisedStep ==
  ASSUME TypeOK, StrokeInv, [Next]_vars
  PROVE  [Promised!Next]_(Promised!vars)
<1>1. ASSUME NEW ring \in BOOLEAN, Ring(ring) PROVE [Promised!Next]_(Promised!vars)
  <2>1. (ring /\ Breached /\ SendsRF) \in BOOLEAN
        /\ Send(ring /\ Breached /\ SendsRF) /\ UNCHANGED receiverVars
    BY <1>1 DEF Ring
  <2> QED BY <2>1, BellPromised, Zenon DEF Promised!Next
<1>2. CASE Test
  <2>1. SendsRF \in BOOLEAN /\ Send(SendsRF) /\ UNCHANGED receiverVars
    BY <1>2 DEF Test, SendsRF
  <2> QED BY <2>1, BellPromised, Zenon DEF Promised!Next
<1>3. CASE (Bell /\ Quiet) \/ UNCHANGED vars
  <2>1. UNCHANGED receiverVars /\ UNCHANGED <<burst, struck>>
    BY <1>3 DEF Quiet, vars
  <2> QED BY <2>1, BellPromised, Zenon DEF Promised!Next
<1>4. CASE BellPower
  <2>1. UNCHANGED receiverVars /\ burst' = FALSE /\ struck' = struck
    BY <1>4 DEF BellPower
  <2> QED BY <2>1, BellPromised, Zenon DEF Promised!Next
<1>5. CASE Hear
  <2>1. burst /\ burst' = burst /\ struck' = struck /\ available' = TRUE
        /\ BELL_RELAY_ON' = BELL_RELAY_ON /\ pressedFor' = pressedFor
    BY <1>5 DEF Hear, Receive
  <2>2. Fresh' = Fresh /\ Age' = Age
    BY <2>1 DEF Fresh, Age
  <2> QED BY <2>1, <2>2, Zenon DEF Promised!vars, Fresh, Age
<1>6. CASE Strike
  BY <1>6, PassPromised
<1>7. CASE ReceiverPower
  <2>1. burst' = FALSE /\ available' = FALSE /\ BELL_RELAY_ON' = FALSE
    BY <1>7 DEF ReceiverPower, ReceiverRestart, TypeOK
  <2>2. Fresh' = FALSE /\ Age' = 0
    BY <2>1 DEF Fresh, Age
  <2> QED BY <2>1, <2>2, Zenon DEF Promised!Next, Promised!PowerFails, Fresh, Age
<1>8. CASE Tick
  <2>1. /\ burst' = FALSE /\ available' = FALSE /\ BELL_RELAY_ON' = BELL_RELAY_ON
        /\ pressedFor' = IF BELL_RELAY_ON THEN pressedFor + 1 ELSE 0
        /\ ~bell_off_due
    BY <1>8 DEF Tick, ReceiverTick
  <2>2. Fresh' = FALSE /\ Age' = IF BELL_RELAY_ON THEN Age + 1 ELSE 0
    BY <2>1 DEF Fresh, Age
  <2>3. ~(BELL_RELAY_ON /\ Age = BELL_PRESS_THRESHOLD)
    BY <2>1, PressIsPositive DEF bell_off_due, Age
  <2> QED BY <2>1, <2>2, <2>3, Zenon
          DEF Promised!Next, Promised!Tick, Promised!Ended, Fresh, Age
<1> QED BY <1>1, <1>2, <1>3, <1>4, <1>5, <1>6, <1>7, <1>8 DEF Next

\* The two devices keep the promise of Chime: a burst, however often it is heard,
\* strikes once or not at all, and the stroke takes the time it should.
THEOREM DoorBellImplementsChime == Spec => ImplementsChime
<1>1. Init => Promised!Init
  BY DEF Init, ReceiverInit, Promised!Init
<1>2. Inv /\ [Next]_vars => [Promised!Next]_(Promised!vars)
  BY PromisedStep DEF Inv
<1> QED BY <1>1, <1>2, InvHolds, PTL DEF Spec, ImplementsChime, Promised!Spec

\* A ring that the smart bell detects finds the bell at rest, for all timeouts that
\* clients set while the one in force fits a long.
THEOREM RestCorrect == Spec => RingFindsBellAtRest
<1> DEFINE A == \A ring \in BOOLEAN : Ring(ring) /\ since' # since /\ ~tooLong => ~BELL_RELAY_ON
<1>1. Inv => A
  <2> SUFFICES ASSUME Inv, NEW ring \in BOOLEAN, Ring(ring), since' # since,
                      ~tooLong
               PROVE  ~BELL_RELAY_ON
    OBVIOUS
  <2>1. Elapsed > BELL_TIMEOUT
    BY DEF Ring, checkBell, Breached
  <2>2. /\ since \in 0 .. 2 * HALF_WRAP - 1 /\ HALF_WRAP \in Nat
        /\ BELL_TIMEOUT \in Int /\ BELL_TIMEOUT >= MIN_TIMEOUT
        /\ pressedFor \in 0 .. BELL_PRESS_THRESHOLD
        /\ POST_LIMIT \in Nat /\ BELL_PRESS_THRESHOLD \in Nat /\ MIN_TIMEOUT \in Nat
    BY BellSizes, PressIsPositive DEF Inv, TypeOK
  <2>3. since > BELL_TIMEOUT
    BY <2>1, <2>2 DEF Elapsed
  <2> QED BY <2>2, <2>3, StrokeIsShort DEF Inv, StrokeInv
<1> QED BY <1>1, InvHolds, PTL DEF Spec, RingFindsBellAtRest

\* Settings are only lost to a reset that was asked for or to the third start.
THEOREM SettingsCorrect == Spec => SettingsAreKept
<1> DEFINE A == phase = "setup" /\ phase' = "loop" /\ flash.mode # 0 /\ ~asked /\ starts < 3 =>
                  /\ conf'.notify = flash.notify /\ conf'.mode = flash.mode
                  /\ conf'.url = flash.url
<1>1. Inv /\ [Next]_vars => A
  <2> SUFFICES ASSUME Inv, [Next]_vars, phase = "setup", phase' = "loop",
                      flash.mode # 0, ~asked, starts < 3
               PROVE  /\ conf'.notify = flash.notify /\ conf'.mode = flash.mode
                      /\ conf'.url = flash.url
    OBVIOUS
  <2>1. FirstPass
    BY DEF Next, Ring, checkBell, Test, testNotify, Bell, BellPower, PowerCycle, Hear,
           Strike, ReceiverPower, Tick, BellTick, RestartPass, Setup, setNotify,
           setBellNotifyMode, setBellSensorTimeout, setBellNotifyURL, handleReset,
           readSettings, Save, Serving, bellVars, vars
  <2>2. ee = flash /\ ee \in Settings
    BY DEF Inv, TypeOK, SettingsInv
  <2>3. ee.mode \in 1 .. 3
    BY <2>2 DEF Settings
  <2>4. conf' = [ee EXCEPT !.starting = 0]
    BY <2>1, <2>3 DEF FirstPass
  <2> QED BY <2>2, <2>4 DEF Settings
<1> QED BY <1>1, InvHolds, PTL DEF Spec, SettingsAreKept

\* In a device that serves, RAM holds what is stored, but for the bits of the
\* timeout that do not fit its byte: getters and notifications change no other.
THEOREM LoadsCorrect == Spec => []LoadsChangeNothing
<1>1. Inv => LoadsChangeNothing
  <2> SUFFICES ASSUME Inv, Serving
               PROVE  /\ conf = [ee EXCEPT !.timeout = conf.timeout]
                      /\ conf.timeout % ByteRange = ee.timeout
    BY DEF LoadsChangeNothing
  <2>1. ee = Bytes(conf) /\ conf \in Settings
    BY DEF Inv, SettingsInv, Serving, TypeOK
  <2> QED BY <2>1 DEF Bytes, Settings
<1> QED BY <1>1, InvHolds, PTL

=============================================================================
