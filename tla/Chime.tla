------------------------------- MODULE Chime -------------------------------
(***************************************************************************)
(* What the smart bell and its receiver promise together: a call, which    *)
(* may get lost, is struck once or not at all, while it is fresh, and a    *)
(* stroke presses the bell for a set time.                                 *)
(***************************************************************************)
EXTENDS Naturals

CONSTANT Press                \* how long a stroke presses the bell

VARIABLES
  call,                       \* is there a call that the bell may yet answer?
  pressed, age                \* is the bell pressed, and for how long?

vars == <<call, pressed, age>>

Init == call = FALSE /\ pressed = FALSE /\ age = 0

Ended == pressed /\ age = Press

\* A call while one is fresh is not a second one.
Call == call' = TRUE /\ UNCHANGED <<pressed, age>>

\* It is not heard, or it finds the bell pressed.
Lose == call' = FALSE /\ UNCHANGED <<pressed, age>>

Strike ==
  /\ call /\ (Ended \/ ~pressed)
  /\ call' = FALSE /\ pressed' = TRUE /\ age' = 0

Release == Ended /\ pressed' = FALSE /\ age' = 0 /\ UNCHANGED call

PowerFails == call' = FALSE /\ pressed' = FALSE /\ age' = 0

Tick ==
  /\ ~Ended
  /\ call' = FALSE
  /\ age' = IF pressed THEN age + 1 ELSE 0
  /\ UNCHANGED pressed

Next == Call \/ Lose \/ Strike \/ Release \/ PowerFails \/ Tick

Spec == Init /\ [][Next]_vars
=============================================================================
