----------------------------- MODULE AquaGuard -----------------------------
(***************************************************************************)
(* The guard against running the pump while the tank was full only a       *)
(* moment ago, as its comments describe it, beside the controller: the     *)
(* code forgets the moment, so it is kept here in a variable of its own.   *)
(***************************************************************************)
EXTENDS AquaProperties

VARIABLE lastFull  \* uptime when the tank was last found full, or Never

Watch ==
  lastFull' = CASE ~inited' -> Never
                [] inited' /\ TANK_FULL' -> uptime'
                [] OTHER -> lastFull

WatchedSpec ==
  /\ Init /\ lastFull = Never
  /\ [][Next /\ Watch]_<<vars, lastFull>>

\* "if it has been less than 2 minutes since tank was full. it cannot be very
\* low yet!!": a control pass that finds the tank no longer full, but full less
\* than TANK_FILLING_TIME_GAP ago, takes SAFE_TO_RUN_PUMP back, which stops a
\* running pump and answers clients 400.  (Told only while uptime is exact.)
RecentlyFullIsUnsafe ==
  [][ControlPass /\ ~TANK_FULL /\ lastFull # Never /\ uptime' < ClockCap
       /\ uptime' - lastFull < TANK_FILLING_TIME_GAP
       => ~SAFE_TO_RUN_PUMP']_vars
=============================================================================
