----------------------------- MODULE QueueArray -----------------------------
(***************************************************************************)
(* The circular buffer of the QueueArray library, the notice queue of four *)
(* sketches: enqueue doubles a full array, dequeue halves one of which at  *)
(* most a quarter is used.  Its users check count() before they push and   *)
(* isEmpty() before they pop, so its exit() is never reached.              *)
(***************************************************************************)
EXTENDS Integers

CONSTANTS
  Values,       \* what the queue holds
  Limit,        \* its users push only below this count (NOTICE_LIMIT)
  Unused        \* the content of a cell that was never assigned

initialSize == 2

ASSUME LimitAssumption == Limit \in Nat
ASSUME UnusedAssumption == Unused \notin Values

VARIABLES
  contents,     \* the array, a function on 0 .. size - 1
  size, items,
  head, tail    \* the next cell to take from, and to store in

vars == <<contents, size, items, head, tail>>

isEmpty == items = 0
BadIsFull == items > size       \* mutant: off by one
isFull  == items = size

Init ==
  /\ contents = [i \in 0 .. initialSize - 1 |-> Unused]
  /\ size = initialSize /\ items = 0 /\ head = 0 /\ tail = 0

BadWrapped(i, n) == i           \* mutant: no wrap-around

\* The index i, which is at most n, wrapped around an array of n cells.
Wrapped(i, n) == IF i = n THEN 0 ELSE i

\* mutant: the cells are copied from 0, not from head
BadResized(s) ==
  [i \in 0 .. s - 1 |-> IF i < items THEN contents[i] ELSE Unused]

\* The array that resize(s) allocates for the current items.
Resized(s) ==
  [i \in 0 .. s - 1 |->
     IF i < items THEN contents[(head + i) % size] ELSE Unused]

\* The array that resize(s) allocates once dequeue has taken the head.
ResizedRest(s) ==
  [i \in 0 .. s - 1 |->
     IF i < items - 1 THEN contents[(Wrapped(head + 1, size) + i) % size]
                      ELSE Unused]

enqueue(v) ==
  /\ items < Limit
  /\ items' = items + 1
  /\ IF isFull
       THEN /\ size' = size * 2
            /\ head' = 0
            /\ tail' = Wrapped(items + 1, size * 2)
            /\ contents' = [Resized(size * 2) EXCEPT ![items] = v]
       ELSE /\ tail' = Wrapped(tail + 1, size)
            /\ contents' = [contents EXCEPT ![tail] = v]
            /\ UNCHANGED <<size, head>>

\* mutant: only an array of which less than a quarter is used
LazyShrinks == items > 1 /\ items - 1 < size \div 4

\* Whether the array shrinks with one item less in it.
Shrinks == items > 1 /\ items - 1 <= size \div 4

dequeue ==
  /\ ~isEmpty
  /\ items' = items - 1
  /\ IF Shrinks
       THEN /\ size' = size \div 2
            /\ head' = 0
            /\ tail' = items - 1
            /\ contents' = ResizedRest(size \div 2)
       ELSE /\ head' = Wrapped(head + 1, size)
            /\ UNCHANGED <<contents, size, tail>>

Next == dequeue \/ \E v \in Values : enqueue(v)

Spec == Init /\ [][Next]_vars

-----------------------------------------------------------------------------
\* The array and its indices keep their types and bounds.
TypeOK ==
  /\ size \in Nat /\ size >= initialSize
  /\ items \in 0 .. size /\ items <= Limit
  /\ head \in Nat /\ head < size
  /\ tail \in Nat /\ tail < size
  /\ contents \in [0 .. size - 1 -> Values \cup {Unused}]

\* The items fill the cells from head to just before tail, around the end.
IndicesAgree == tail = IF head + items < size THEN head + items
                                              ELSE head + items - size

\* The array is never more than four times what it holds, small arrays aside:
\* halving at a quarter keeps up with every sequence of pushes and pops.
NoWaste == size > 3 => 4 * items > size

\* The items, oldest first.
ItemsFrom(c, n, h, k) == [i \in 1 .. k |-> c[(h + i - 1) % n]]
Queued == ItemsFrom(contents, size, head, items)

Abstract == INSTANCE Fifo WITH fifo <- Queued

\* Whatever is pushed and popped, the array behaves as the queue of Fifo.
ImplementsFifo == Abstract!Spec
=============================================================================
