----------------------------- MODULE SmartBell -----------------------------
(***************************************************************************)
(* The smart bell (an ESP8266 sketch) senses the button of a door bell,    *)
(* tells a receiver by radio and a server by a POST, and then does not     *)
(* look at the button for a while.  Its settings are in RAM (conf), in the *)
(* buffer of the EEPROM library (ee) and, committed, in flash.             *)
(*                                                                         *)
(* Three starts that do not get as far as the first pass of loop() reset   *)
(* the device.  The sensor's supply is off, and the LED on, whenever       *)
(* BELL_DETECTION_LOCK is set: they change together and only there.        *)
(***************************************************************************)
EXTENDS Integers

CONSTANTS
  MIN_TIMEOUT, DEFAULT_TIMEOUT,   \* 15 and 35 s, in ticks
  HALF_WRAP,                      \* 2^31 ms: a long holds the rest as negative
  ByteRange,                      \* values of an EEPROM cell (256)
  POST_LIMIT,                     \* how long a POST takes
  Timeouts, Modes, Notifies, Urls \* values clients set

ASSUME BellSizes ==
  /\ MIN_TIMEOUT \in Nat \ {0} /\ DEFAULT_TIMEOUT \in Nat
  /\ HALF_WRAP \in Nat /\ ByteRange \in Nat
  /\ MIN_TIMEOUT <= DEFAULT_TIMEOUT /\ DEFAULT_TIMEOUT < ByteRange
  /\ ByteRange > 3 /\ ByteRange < HALF_WRAP
  /\ POST_LIMIT \in Nat
  /\ \A t \in Timeouts : t \in Nat /\ t >= MIN_TIMEOUT
  /\ Modes \subseteq 1 .. 3 /\ Notifies \subseteq {0, 1} /\ Urls \subseteq BOOLEAN

VARIABLES
  phase,                          \* "setup" or, from its first pass on, "loop"
  conf, ee, flash,
  BELL_TIMEOUT,
  BELL_DETECTION_LOCK, canNotify,
  since,                          \* sinceLastDetection, modulo 2 * HALF_WRAP
  tooLong,                        \* history: did the timeout in force overflow?
  starts, asked                   \* history, since the last first pass of loop():
                                  \* starts, and was a reset asked for?

bellVars == <<phase, conf, ee, flash, BELL_TIMEOUT, BELL_DETECTION_LOCK,
              canNotify, since, tooLong, starts, asked>>

-----------------------------------------------------------------------------
\* Settings; url is whether the endpoint is longer than four characters.

Erased == [notify |-> 0, mode |-> 0, timeout |-> 0, starting |-> 0, reset |-> 0,
           url |-> FALSE]

\* mutant: a cell holds more than a byte
Words(c) == c

\* One byte is kept of each field.
Bytes(c) == [c EXCEPT !.timeout = @ % ByteRange]

writeSettings(c) == ee' = Bytes(c) /\ flash' = Bytes(c)

\* mutant: any timeout is used
AnyTimeout(t) == t > 0

ValidTimeout(t) == t >= MIN_TIMEOUT

\* mutant: one start too early
SecondStart(c) == c.starting >= 2

ThirdStart(c) == c.starting >= 3

-----------------------------------------------------------------------------
\* setup(): the start is counted and stored, unless it is the third; a reset
\* erases the settings, which are only committed with the next write.
Setup(stored) ==
  LET counted == [stored EXCEPT !.starting = @ + 1]
      erase == counted.reset = 1 \/ ThirdStart(counted)
  IN  /\ phase' = "setup"
      /\ flash' = IF ThirdStart(counted) THEN stored ELSE counted
      /\ ee' = IF erase THEN Erased ELSE counted
      /\ conf' = IF erase THEN [Erased EXCEPT !.timeout = stored.timeout,
                                              !.starting = counted.starting]
                 ELSE counted
      /\ BELL_TIMEOUT' = DEFAULT_TIMEOUT
      /\ BELL_DETECTION_LOCK' = FALSE /\ canNotify' = FALSE
      /\ since' = 0 /\ tooLong' = FALSE
      /\ starts' = IF starts < 3 THEN starts + 1 ELSE starts
      /\ UNCHANGED asked

PowerCycle == Setup(flash)

\* The first pass, once WiFi is connected: initSettings.
FirstPass ==
  LET valid == ee.mode \in 1 .. 3
      c == IF valid THEN [ee EXCEPT !.starting = 0]
           ELSE [ee EXCEPT !.notify = 0, !.mode = 3, !.timeout = DEFAULT_TIMEOUT,
                           !.starting = 0, !.url = TRUE]
  IN  /\ phase = "setup" /\ phase' = "loop"
      /\ conf' = c
      /\ writeSettings(c)
      /\ BELL_TIMEOUT' = IF ValidTimeout(c.timeout) THEN c.timeout ELSE BELL_TIMEOUT
      /\ BELL_DETECTION_LOCK' = TRUE
      /\ since' = 0
      /\ starts' = 0 /\ asked' = FALSE
      /\ UNCHANGED <<canNotify, tooLong>>

RestartPass ==
  /\ phase = "loop" /\ conf.reset = 1
  /\ Setup(flash)

Serving == phase = "loop" /\ conf.reset = 0

SendsRF == conf.notify = 1 /\ conf.mode \in {1, 3}

\* notifyURL loads the settings before it posts.
PostsURL == conf.notify = 1 /\ conf.mode \in {2, 3} /\ conf.url

Posted == conf' = IF PostsURL THEN ee ELSE conf

\* The time since the last ring as a long holds it
Elapsed == IF since < HALF_WRAP THEN since ELSE since - 2 * HALF_WRAP

Breached == Elapsed > BELL_TIMEOUT

\* checkBell: the lock is opened after the timeout, and a ring closes it again.
checkBell(ring) ==
  /\ Serving
  /\ canNotify' = (Breached /\ ring)
  /\ BELL_DETECTION_LOCK' = IF Breached THEN ring ELSE BELL_DETECTION_LOCK
  /\ IF Breached /\ ring THEN since' = 0 /\ Posted ELSE UNCHANGED <<since, conf>>
  /\ UNCHANGED <<phase, ee, flash, BELL_TIMEOUT, tooLong, starts, asked>>

\* The test notifies only in a pass that has just detected a ring.
testNotify ==
  /\ Serving /\ canNotify /\ since <= POST_LIMIT
  /\ Posted
  /\ UNCHANGED <<phase, ee, flash, BELL_TIMEOUT, BELL_DETECTION_LOCK, canNotify,
                 since, tooLong, starts, asked>>

Save(c) ==
  /\ Serving
  /\ conf' = c
  /\ writeSettings(c)
  /\ UNCHANGED <<phase, BELL_DETECTION_LOCK, canNotify, since, starts>>

setNotify ==
  /\ \E n \in Notifies : Save([conf EXCEPT !.notify = n])
  /\ UNCHANGED <<BELL_TIMEOUT, tooLong, asked>>

setBellNotifyMode ==
  /\ \E m \in Modes : Save([conf EXCEPT !.mode = m])
  /\ UNCHANGED <<BELL_TIMEOUT, tooLong, asked>>

\* There is no upper limit to a timeout: its product with 1000 may overflow an int,
\* after which BELL_TIMEOUT can be any long.
setBellSensorTimeout ==
  /\ \E t \in Timeouts :
       /\ Save([conf EXCEPT !.timeout = t])
       /\ BELL_TIMEOUT' \in IF t < HALF_WRAP THEN {t} ELSE -HALF_WRAP .. HALF_WRAP - 1
       /\ tooLong' = (t >= HALF_WRAP)
  /\ UNCHANGED asked

setBellNotifyURL ==
  /\ \E u \in Urls : Save([conf EXCEPT !.url = u])
  /\ UNCHANGED <<BELL_TIMEOUT, tooLong, asked>>

handleReset ==
  /\ Save([conf EXCEPT !.reset = 1])
  /\ asked' = TRUE
  /\ UNCHANGED <<BELL_TIMEOUT, tooLong>>

\* The four getters load the stored settings first.
readSettings ==
  /\ Serving
  /\ conf' = ee
  /\ UNCHANGED <<phase, ee, flash, BELL_TIMEOUT, BELL_DETECTION_LOCK, canNotify,
                 since, tooLong, starts, asked>>

BellTick ==
  /\ since' = (since + 1) % (2 * HALF_WRAP)
  /\ UNCHANGED <<phase, conf, ee, flash, BELL_TIMEOUT, BELL_DETECTION_LOCK,
                 canNotify, tooLong, starts, asked>>

\* The first start, with zeros in flash.
BellInit ==
  /\ phase = "setup"
  /\ flash = [Erased EXCEPT !.starting = 1] /\ ee = flash /\ conf = flash
  /\ BELL_TIMEOUT = DEFAULT_TIMEOUT
  /\ BELL_DETECTION_LOCK = FALSE /\ canNotify = FALSE
  /\ since = 0 /\ tooLong = FALSE
  /\ starts = 1 /\ asked = FALSE

=============================================================================
