----------------------------- MODULE DoorBell -----------------------------
(***************************************************************************)
(* The smart bell and the door bell receiver, and the radio between them:  *)
(* a burst repeats the code six times, any of which may be lost.  Time     *)
(* passes in ticks, longer than a burst; the receiver, which only polls,   *)
(* is done with what it has before a tick is over, the smart bell may be   *)
(* busy with a POST or wait for WiFi.                                      *)
(***************************************************************************)
EXTENDS SmartBell, BellReceiver

\* The relay lets go of the bell before the smart bell looks for the next ring.
ASSUME StrokeIsShort == POST_LIMIT + BELL_PRESS_THRESHOLD <= MIN_TIMEOUT

VARIABLES
  burst,              \* is the code being sent?
  struck              \* history: has the bell rung for the last burst?

vars == <<bellVars, receiverVars, burst, struck>>

Send(sent) ==
  /\ burst' = (burst \/ sent)
  /\ struck' = (struck /\ ~sent)

Ring(ring) ==
  /\ checkBell(ring)
  /\ Send(ring /\ Breached /\ SendsRF)
  /\ UNCHANGED receiverVars

Test == testNotify /\ Send(SendsRF) /\ UNCHANGED receiverVars

Quiet == UNCHANGED <<receiverVars, burst, struck>>

\* What the smart bell does without the radio
Bell ==
  \/ FirstPass
  \/ RestartPass
  \/ setNotify
  \/ setBellNotifyMode
  \/ setBellSensorTimeout
  \/ setBellNotifyURL
  \/ handleReset
  \/ readSettings

BellPower ==
  /\ PowerCycle
  /\ burst' = FALSE
  /\ UNCHANGED <<receiverVars, struck>>

Hear == burst /\ Receive /\ UNCHANGED <<bellVars, burst, struck>>

Strike ==
  /\ ReceiverPass
  /\ struck' = (struck \/ (BELL_RELAY_ON' /\ (bell_off_due \/ ~BELL_RELAY_ON)))
  /\ UNCHANGED <<bellVars, burst>>

\* A restart takes longer than a burst.
ReceiverPower ==
  /\ ~burst
  /\ ReceiverRestart
  /\ UNCHANGED <<bellVars, burst, struck>>

Tick ==
  /\ BellTick /\ ReceiverTick
  /\ burst' = FALSE
  /\ UNCHANGED struck

Init == BellInit /\ ReceiverInit /\ burst = FALSE /\ struck = FALSE

Next ==
  \/ \E ring \in BOOLEAN : Ring(ring)
  \/ Test
  \/ Bell /\ Quiet
  \/ BellPower
  \/ Hear
  \/ Strike
  \/ ReceiverPower
  \/ Tick

Spec == Init /\ [][Next]_vars

-----------------------------------------------------------------------------
\* Properties

Settings == [notify : {0, 1}, mode : 0 .. 3, timeout : Nat, starting : 0 .. 3,
             reset : {0, 1}, url : BOOLEAN]

\* Every variable has its type; what is stored fits its bytes, and two starts are
\* all that are ever counted in flash.
TypeOK ==
  /\ phase \in {"setup", "loop"}
  /\ conf \in Settings /\ ee \in Settings /\ flash \in Settings
  /\ ee.timeout < ByteRange /\ flash.timeout < ByteRange /\ flash.starting <= 2
  /\ BELL_TIMEOUT \in -HALF_WRAP .. HALF_WRAP - 1 /\ tooLong \in BOOLEAN
  /\ tooLong \/ BELL_TIMEOUT >= MIN_TIMEOUT
  /\ BELL_DETECTION_LOCK \in BOOLEAN /\ canNotify \in BOOLEAN
  /\ since \in 0 .. 2 * HALF_WRAP - 1
  /\ starts \in 0 .. 3 /\ asked \in BOOLEAN
  /\ available \in BOOLEAN /\ BELL_RELAY_ON \in BOOLEAN
  /\ pressedFor \in 0 .. BELL_PRESS_THRESHOLD
  /\ burst \in BOOLEAN /\ struck \in BOOLEAN

\* A burst, which the receiver may hear up to six times, and a second burst right
\* after it, ring the bell once, and no later than the burst lasts; the stroke
\* then takes its time, whatever is heard meanwhile, unless the power fails.
Promised ==
  INSTANCE Chime WITH
    Press <- BELL_PRESS_THRESHOLD,
    call <- (burst \/ available) /\ ~struck,
    pressed <- BELL_RELAY_ON,
    age <- IF BELL_RELAY_ON THEN pressedFor ELSE 0

ImplementsChime == Promised!Spec

\* A ring at the door finds the bell at rest, so it is not swallowed by the
\* stroke of an earlier ring or test, whatever timeout its byte in EEPROM holds or
\* is in force after a restart, unless clients set one that does not fit a long.
RingFindsBellAtRest ==
  [][\A ring \in BOOLEAN :
       Ring(ring) /\ since' # since /\ ~tooLong => ~BELL_RELAY_ON]_vars

\* The settings are lost only to a reset that was asked for or to three starts
\* in a row that did not reach the loop, wherever the power fails.
SettingsAreKept ==
  [][phase = "setup" /\ phase' = "loop" /\ flash.mode # 0 /\ ~asked /\ starts < 3 =>
       /\ conf'.notify = flash.notify /\ conf'.mode = flash.mode
       /\ conf'.url = flash.url]_vars

\* What a getter loads, and a notification on its way to the server, changes
\* nothing in a device that serves but a timeout too large for its byte.
LoadsChangeNothing ==
  Serving => conf = [ee EXCEPT !.timeout = conf.timeout]
             /\ conf.timeout % ByteRange = ee.timeout

=============================================================================
