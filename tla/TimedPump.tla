----------------------------- MODULE TimedPump -----------------------------
(***************************************************************************)
(* What a controller with a runtime promises of its pump: a run has a      *)
(* beginning, from which its age counts, and it is not let run on once it  *)
(* is as old as the runtime in force.                                      *)
(***************************************************************************)
EXTENDS Naturals

VARIABLES
  running,
  age,                \* of the run, in ticks
  runtime             \* in force for the run; 0 when there is none

vars == <<running, age, runtime>>

Init == running = FALSE /\ age = 0 /\ runtime = 0

Start == ~running /\ running' = TRUE /\ age' = 0 /\ runtime' \in Nat

Tick == running /\ age < runtime /\ age' = age + 1 /\ UNCHANGED <<running, runtime>>

SetRuntime == running /\ runtime' \in Nat /\ UNCHANGED <<running, age>>

Stop == running /\ running' = FALSE /\ age' = 0 /\ runtime' = 0

Next == Start \/ Tick \/ SetRuntime \/ Stop

Spec == Init /\ [][Next]_vars
=============================================================================
