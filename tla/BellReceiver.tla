--------------------------- MODULE BellReceiver ---------------------------
(***************************************************************************)
(* The door bell receiver (an Arduino with a radio receiver): the code of  *)
(* the smart bell switches the bell's relay on, and a timer switches it    *)
(* off again.                                                              *)
(***************************************************************************)
EXTENDS Naturals

CONSTANT BELL_PRESS_THRESHOLD        \* in ticks

ASSUME PressIsPositive == BELL_PRESS_THRESHOLD \in Nat \ {0}

VARIABLES
  available,                         \* a received code waits for loop()
  BELL_RELAY_ON,
  pressedFor                         \* age of the task that calls bell_off

receiverVars == <<available, BELL_RELAY_ON, pressedFor>>

ReceiverInit == available = FALSE /\ BELL_RELAY_ON = FALSE /\ pressedFor = 0

\* mutant: the task does not wait
DueAtOnce == BELL_RELAY_ON

\* Is it time for bell_off?
bell_off_due == BELL_RELAY_ON /\ pressedFor >= BELL_PRESS_THRESHOLD

\* The interrupt handler of the radio receives the code of the smart bell.
Receive == available' = TRUE /\ UNCHANGED <<BELL_RELAY_ON, pressedFor>>

\* loop(): the timer ticks first, then a code that waits rings a bell that is
\* not ringing, and the code is done with either way.
ReceiverPass ==
  LET stillOn == BELL_RELAY_ON /\ ~bell_off_due
  IN  /\ available \/ bell_off_due
      /\ BELL_RELAY_ON' = (stillOn \/ available)
      /\ pressedFor' = IF stillOn THEN pressedFor ELSE 0
      /\ available' = FALSE

\* setup() after a power failure
ReceiverRestart == available' = FALSE /\ BELL_RELAY_ON' = FALSE /\ pressedFor' = 0

ReceiverTick ==
  /\ ~available /\ ~bell_off_due
  /\ pressedFor' = IF BELL_RELAY_ON THEN pressedFor + 1 ELSE 0
  /\ UNCHANGED <<available, BELL_RELAY_ON>>

=============================================================================
