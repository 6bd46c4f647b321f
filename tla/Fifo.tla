-------------------------------- MODULE Fifo --------------------------------
(***************************************************************************)
(* What QueueArray promises its users: a bounded first-in first-out queue. *)
(***************************************************************************)
EXTENDS Naturals, Sequences

CONSTANTS
  Values,   \* what the queue holds
  Limit     \* its users push only below this count

VARIABLE fifo

Init == fifo = <<>>

Push(v) == Len(fifo) < Limit /\ fifo' = Append(fifo, v)

Pop == fifo # <<>> /\ fifo' = Tail(fifo)

Next == Pop \/ \E v \in Values : Push(v)

Spec == Init /\ [][Next]_fifo
=============================================================================
