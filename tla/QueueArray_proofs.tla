-------------------------- MODULE QueueArray_proofs --------------------------
(***************************************************************************)
(* Proofs about the circular buffer, for every limit and set of values.    *)
(* Types alone are not inductive: that the head and the tail stay inside   *)
(* the array needs NoWaste (an array that halves still has room) and       *)
(* IndicesAgree (a full array has its tail at its head).                   *)
(***************************************************************************)
EXTENDS QueueArray, SequenceTheorems, TLAPS

IndexInv == TypeOK /\ IndicesAgree /\ NoWaste

\* An index modulo the size lies inside the array.
LEMMA ModRange ==
  ASSUME NEW n \in Nat \ {0}, NEW k \in Nat
  PROVE  k % n \in 0 .. n - 1
  OBVIOUS

\* An index that wraps around at most once.
LEMMA ModWrap ==
  ASSUME NEW n \in Nat \ {0}, NEW k \in 0 .. 2 * n - 1
  PROVE  k % n = IF k < n THEN k ELSE k - n
<1>1. CASE k < n
  BY <1>1
<1>2. CASE ~(k < n)
  BY <1>2
<1> QED BY <1>1, <1>2

\* The array that an enqueue's resize allocates holds values or unused cells.
LEMMA ResizedType ==
  ASSUME TypeOK, NEW s \in Nat
  PROVE  Resized(s) \in [0 .. s - 1 -> Values \cup {Unused}]
<1>1. SUFFICES ASSUME NEW i \in 0 .. s - 1, i < items
               PROVE  contents[(head + i) % size] \in Values \cup {Unused}
  BY DEF Resized
<1>2. (head + i) % size \in 0 .. size - 1
  BY ModRange DEF TypeOK, initialSize
<1> QED
  BY <1>2 DEF TypeOK

\* So does the one that a dequeue's resize allocates.
LEMMA ResizedRestType ==
  ASSUME TypeOK, NEW s \in Nat
  PROVE  ResizedRest(s) \in [0 .. s - 1 -> Values \cup {Unused}]
<1>1. SUFFICES ASSUME NEW i \in 0 .. s - 1
               PROVE  contents[(Wrapped(head + 1, size) + i) % size]
                        \in Values \cup {Unused}
  BY DEF ResizedRest
<1>2. Wrapped(head + 1, size) + i \in Nat
  BY DEF TypeOK, Wrapped, initialSize
<1>3. (Wrapped(head + 1, size) + i) % size \in 0 .. size - 1
  <2>1. size \in Nat \ {0}
    BY DEF TypeOK, initialSize
  <2> QED BY <1>2, <2>1, ModRange
<1> QED
  BY <1>3 DEF TypeOK

\* An enqueue keeps the array and its indices right.
LEMMA EnqueueInv ==
  ASSUME IndexInv, NEW v \in Values, enqueue(v)
  PROVE  IndexInv'
<1> USE LimitAssumption DEF IndexInv, enqueue, initialSize
<1>1. CASE isFull
  <2>1. Resized(size * 2) \in [0 .. size * 2 - 1 -> Values \cup {Unused}]
    BY ResizedType DEF TypeOK
  <2>2. contents' \in [0 .. size' - 1 -> Values \cup {Unused}]
    BY <1>1, <2>1 DEF TypeOK
  <2>3. TypeOK'
    BY <1>1, <2>2 DEF TypeOK, isFull, Wrapped
  <2>4. IndicesAgree' /\ NoWaste'
    BY <1>1 DEF TypeOK, isFull, Wrapped, IndicesAgree, NoWaste
  <2> QED BY <2>3, <2>4
<1>2. CASE ~isFull
  <2>1. contents' \in [0 .. size' - 1 -> Values \cup {Unused}]
    BY <1>2 DEF TypeOK
  <2>2. TypeOK'
    BY <1>2, <2>1 DEF TypeOK, isFull, Wrapped
  <2>3. IndicesAgree' /\ NoWaste'
    BY <1>2 DEF TypeOK, isFull, Wrapped, IndicesAgree, NoWaste
  <2> QED BY <2>2, <2>3
<1> QED BY <1>1, <1>2

\* A dequeue keeps the array and its indices right.
LEMMA DequeueInv ==
  ASSUME IndexInv, dequeue
  PROVE  IndexInv'
<1> USE LimitAssumption DEF IndexInv, dequeue, initialSize, isEmpty
<1>1. CASE Shrinks
  <2>1. size \div 2 \in Nat /\ size >= 4 /\ size \div 2 >= 2
        /\ items - 1 < size \div 2
    BY <1>1 DEF TypeOK, Shrinks
  <2>2. ResizedRest(size \div 2) \in [0 .. size \div 2 - 1 -> Values \cup {Unused}]
    BY <2>1, ResizedRestType
  <2>3. TypeOK'
    BY <1>1, <2>1, <2>2 DEF TypeOK
  <2>4. IndicesAgree'
    BY <1>1, <2>1 DEF TypeOK, IndicesAgree
  <2>5. NoWaste'
    BY <1>1, <2>1 DEF TypeOK, NoWaste
  <2> QED BY <2>3, <2>4, <2>5
<1>2. CASE ~Shrinks
  <2>1. TypeOK'
    BY <1>2 DEF TypeOK, Wrapped
  <2>2. IndicesAgree'
    BY <1>2 DEF TypeOK, Wrapped, IndicesAgree
  <2>3. NoWaste'
    BY <1>2 DEF TypeOK, Shrinks, NoWaste
  <2> QED BY <2>1, <2>2, <2>3
<1> QED BY <1>1, <1>2

\* The array and its indices are always right.
THEOREM IndexCorrect == Spec => []IndexInv
<1>1. Init => IndexInv
  BY LimitAssumption
     DEF Init, IndexInv, TypeOK, IndicesAgree, NoWaste, initialSize
<1>2. IndexInv /\ [Next]_vars => IndexInv'
  <2> SUFFICES ASSUME IndexInv, [Next]_vars PROVE IndexInv'
    OBVIOUS
  <2>1. CASE dequeue
    BY <2>1, DequeueInv
  <2>2. CASE \E v \in Values : enqueue(v)
    BY <2>2, EnqueueInv
  <2>3. CASE UNCHANGED vars
    BY <2>3 DEF vars, IndexInv, TypeOK, IndicesAgree, NoWaste
  <2> QED BY <2>1, <2>2, <2>3 DEF Next
<1> QED BY <1>1, <1>2, PTL DEF Spec

\* Each of its parts, for every limit: the bounds of the array and its indices,
THEOREM TypeCorrect == Spec => []TypeOK
BY IndexCorrect, PTL DEF IndexInv

\* the tail where head and items put it,
THEOREM TailCorrect == Spec => []IndicesAgree
BY IndexCorrect, PTL DEF IndexInv

\* and an array never more than four times what it holds.
THEOREM NoWasteCorrect == Spec => []NoWaste
BY IndexCorrect, PTL DEF IndexInv

\* The array never grows to four times the most its users push, however the
\* pushes and pops alternate.
THEOREM ArrayIsSmall == Spec => [](size <= 3 \/ size < 4 * Limit)
<1>1. IndexInv => (size <= 3 \/ size < 4 * Limit)
  BY LimitAssumption DEF IndexInv, TypeOK, NoWaste, initialSize
<1> QED BY <1>1, IndexCorrect, PTL

-----------------------------------------------------------------------------
\* The circular buffer implements the bounded queue.

Cells == Values \cup {Unused}

\* Item i of k lies i - 1 cells after the head h of n cells, around the end.
LEMMA ItemCells ==
  ASSUME NEW n \in Nat \ {0}, NEW h \in Nat, h < n, NEW k \in 0 .. n,
         NEW c \in [0 .. n - 1 -> Cells]
  PROVE  /\ ItemsFrom(c, n, h, k) \in Seq(Cells)
         /\ Len(ItemsFrom(c, n, h, k)) = k
         /\ \A i \in 1 .. k :
              ItemsFrom(c, n, h, k)[i] =
                c[IF h + i - 1 < n THEN h + i - 1 ELSE h + i - 1 - n]
<1>1. ASSUME NEW i \in 1 .. k
      PROVE  (h + i - 1) % n = IF h + i - 1 < n THEN h + i - 1
                                                ELSE h + i - 1 - n
  <2> DEFINE j == h + i - 1
  <2>1. j \in 0 .. 2 * n - 1
    OBVIOUS
  <2> HIDE DEF j
  <2>2. j % n = IF j < n THEN j ELSE j - n
    BY <2>1, ModWrap
  <2> QED BY <2>2 DEF j
<1>2. ASSUME NEW i \in 1 .. k
      PROVE  c[(h + i - 1) % n] \in Cells
  BY <1>1
<1>3. ItemsFrom(c, n, h, k) \in [1 .. k -> Cells]
  BY <1>2 DEF ItemsFrom
<1>4. k \in Nat
  OBVIOUS
<1>5. ItemsFrom(c, n, h, k) \in Seq(Cells) /\ Len(ItemsFrom(c, n, h, k)) = k
  BY <1>3, <1>4, SeqDef
<1> QED
  BY <1>1, <1>5 DEF ItemsFrom

\* The same of the queue's own array, in this state and in the next.
Cell(i)     == IF head + i - 1 < size THEN head + i - 1 ELSE head + i - 1 - size
NextCell(i) == IF head' + i - 1 < size' THEN head' + i - 1
                                        ELSE head' + i - 1 - size'

\* Item i of the queue, in terms of the cells of the array,
LEMMA QueuedCells ==
  ASSUME TypeOK
  PROVE  /\ Queued \in Seq(Cells) /\ Len(Queued) = items
         /\ \A i \in 1 .. items : Queued[i] = contents[Cell(i)]
<1>1. size \in Nat \ {0} /\ head \in Nat /\ head < size /\ items \in 0 .. size
  BY DEF TypeOK, initialSize
<1>2. contents \in [0 .. size - 1 -> Cells]
  BY DEF TypeOK, Cells
<1>3. /\ ItemsFrom(contents, size, head, items) \in Seq(Cells)
      /\ Len(ItemsFrom(contents, size, head, items)) = items
      /\ \A i \in 1 .. items :
           ItemsFrom(contents, size, head, items)[i] = contents[Cell(i)]
  BY ONLY <1>1, <1>2, ItemCells, Zenon DEF Cell
<1> QED BY ONLY <1>3 DEF Queued

\* and the same after a step.
LEMMA QueuedCellsNext ==
  ASSUME TypeOK'
  PROVE  /\ Queued' \in Seq(Cells) /\ Len(Queued') = items'
         /\ \A i \in 1 .. items' : Queued'[i] = contents'[NextCell(i)]
<1>1. size' \in Nat \ {0} /\ head' \in Nat /\ head' < size' /\ items' \in 0 .. size'
  BY DEF TypeOK, initialSize
<1>2. contents' \in [0 .. size' - 1 -> Cells]
  BY DEF TypeOK, Cells
<1>3. /\ ItemsFrom(contents', size', head', items') \in Seq(Cells)
      /\ Len(ItemsFrom(contents', size', head', items')) = items'
      /\ \A i \in 1 .. items' :
           ItemsFrom(contents', size', head', items')[i] = contents'[NextCell(i)]
  BY ONLY <1>1, <1>2, ItemCells, Zenon DEF NextCell
<1> QED BY ONLY <1>3 DEF Queued

\* Enqueueing appends.
LEMMA EnqueueAppends ==
  ASSUME IndexInv, NEW v \in Values, enqueue(v)
  PROVE  Abstract!Push(v)
<1> USE DEF IndexInv
<1>1. TypeOK /\ IndicesAgree /\ TypeOK'
  BY EnqueueInv
<1>2. v \in Cells
  BY DEF Cells
<1>3. items' = items + 1 /\ items < Limit
  BY DEF enqueue
<1>4. ASSUME NEW i \in 1 .. items PROVE Queued'[i] = Queued[i]
  <2>1. Queued'[i] = contents'[NextCell(i)] /\ Queued[i] = contents[Cell(i)]
    <3>1. i \in 1 .. items'
      BY <1>1, <1>3 DEF TypeOK
    <3> QED BY <1>1, <3>1, QueuedCells, QueuedCellsNext
  <2>2. Cell(i) \in 0 .. size - 1
    BY <1>1 DEF Cell, TypeOK, initialSize
  <2>3. CASE isFull
    <3>1. NextCell(i) = i - 1
      BY <1>1, <2>3 DEF NextCell, enqueue, isFull, TypeOK, initialSize
    <3>2. contents'[i - 1] = Resized(size * 2)[i - 1]
      <4>1. contents' = [Resized(size * 2) EXCEPT ![items] = v]
        BY <2>3 DEF enqueue
      <4>2. i - 1 # items
        BY <1>1 DEF TypeOK
      <4>3. i - 1 \in DOMAIN Resized(size * 2)
        BY <1>1, <2>3 DEF Resized, TypeOK, isFull
      <4> QED BY <4>1, <4>2, <4>3
    <3>3. Resized(size * 2)[i - 1] = contents[(head + (i - 1)) % size]
      BY <1>1, <2>3 DEF Resized, TypeOK, isFull, initialSize
    <3>4. (head + (i - 1)) % size = Cell(i)
      <4> DEFINE j == head + (i - 1)
      <4>1. j \in 0 .. 2 * size - 1 /\ size \in Nat \ {0}
        BY <1>1 DEF TypeOK, initialSize
      <4> HIDE DEF j
      <4>2. j % size = IF j < size THEN j ELSE j - size
        BY <4>1, ModWrap
      <4> QED BY <1>1, <4>2 DEF j, Cell, TypeOK
    <3> QED BY <2>1, <3>1, <3>2, <3>3, <3>4
  <2>4. CASE ~isFull
    <3>1. NextCell(i) = Cell(i) /\ Cell(i) # tail
      BY <1>1, <2>4
         DEF NextCell, Cell, enqueue, isFull, TypeOK, IndicesAgree, initialSize
    <3>2. contents' = [contents EXCEPT ![tail] = v]
      BY <2>4 DEF enqueue
    <3> QED BY <1>1, <2>1, <2>2, <3>1, <3>2 DEF TypeOK
  <2> QED BY <2>3, <2>4
<1>5. Queued'[items + 1] = v
  <2>1. Queued'[items + 1] = contents'[NextCell(items + 1)]
    <3>1. items' \in 1 .. items'
      BY <1>1, <1>3 DEF TypeOK
    <3>2. Queued'[items'] = contents'[NextCell(items')]
      BY <1>1, <3>1, QueuedCellsNext
    <3> QED BY <1>3, <3>2
  <2>2. CASE isFull
    <3>1. NextCell(items + 1) = items
      BY <1>1, <2>2 DEF NextCell, enqueue, isFull, TypeOK, initialSize
    <3>2. contents'[items] = v
      BY <1>1, <2>2 DEF enqueue, isFull, TypeOK, Resized, initialSize
    <3> QED BY <2>1, <3>1, <3>2
  <2>3. CASE ~isFull
    <3>1. NextCell(items + 1) = tail
      BY <1>1, <2>3
         DEF NextCell, enqueue, isFull, TypeOK, IndicesAgree, initialSize
    <3>2. contents'[tail] = v
      BY <1>1, <2>3 DEF enqueue, TypeOK
    <3> QED BY <2>1, <3>1, <3>2
  <2> QED BY <2>2, <2>3
<1>6. Queued' = Append(Queued, v)
  <2>1. Queued \in Seq(Cells) /\ Len(Queued) = items
    BY <1>1, QueuedCells
  <2>2. Queued' \in Seq(Cells) /\ Len(Queued') = items + 1
    BY <1>1, <1>3, QueuedCellsNext
  <2>3. /\ Append(Queued, v) \in Seq(Cells)
        /\ Len(Append(Queued, v)) = items + 1
        /\ \A i \in 1 .. items : Append(Queued, v)[i] = Queued[i]
        /\ Append(Queued, v)[items + 1] = v
    BY <1>2, <2>1, AppendProperties
  <2>4. \A i \in 1 .. items + 1 : Queued'[i] = Append(Queued, v)[i]
    BY <1>1, <1>4, <1>5, <2>3 DEF TypeOK
  <2> QED BY <2>2, <2>3, <2>4, SeqEqual
<1> QED
  BY <1>1, <1>3, <1>6, QueuedCells DEF Abstract!Push

\* Dequeueing takes the oldest item.
LEMMA DequeuePops ==
  ASSUME IndexInv, dequeue
  PROVE  Abstract!Pop
<1> USE DEF IndexInv
<1>1. TypeOK /\ TypeOK'
  BY DequeueInv
<1>2. items' = items - 1 /\ items > 0
  BY <1>1 DEF dequeue, isEmpty, TypeOK
<1>3. Queued # <<>>
  BY <1>1, <1>2, QueuedCells, EmptySeq
<1>4. ASSUME NEW i \in 1 .. items - 1 PROVE Queued'[i] = Queued[i + 1]
  <2> DEFINE k == i + 1
  <2>1. k \in 1 .. items /\ i \in 1 .. items'
    BY <1>1, <1>2 DEF TypeOK
  <2>2. Cell(k) = IF head + i < size THEN head + i ELSE head + i - size
    BY <1>1 DEF Cell, TypeOK
  <2> HIDE DEF k
  <2>3. Queued[k] = contents[Cell(k)] /\ Queued'[i] = contents'[NextCell(i)]
    BY <1>1, <2>1, QueuedCells, QueuedCellsNext
  <2>4. contents'[NextCell(i)] = contents[Cell(k)]
    <3>1. CASE Shrinks
      <4>1. i - 1 < size \div 2 /\ size' = size \div 2 /\ head' = 0
            /\ contents' = ResizedRest(size \div 2)
        BY <1>1, <1>2, <3>1 DEF dequeue, Shrinks, TypeOK
      <4>2. NextCell(i) = i - 1
        BY <1>1, <4>1 DEF NextCell, TypeOK
      <4>3. ResizedRest(size \div 2)[i - 1]
              = contents[(Wrapped(head + 1, size) + (i - 1)) % size]
        BY <1>1, <4>1 DEF ResizedRest, TypeOK
      <4> DEFINE j == Wrapped(head + 1, size) + (i - 1)
      <4>4. j \in 0 .. 2 * size - 1 /\ size \in Nat \ {0}
        BY <1>1 DEF Wrapped, TypeOK, initialSize
      <4>5. (IF j < size THEN j ELSE j - size) = Cell(k)
        BY <1>1, <1>2, <2>2 DEF Wrapped, TypeOK, initialSize
      <4> HIDE DEF j
      <4>6. j % size = IF j < size THEN j ELSE j - size
        BY <4>4, ModWrap
      <4> QED BY <4>1, <4>2, <4>3, <4>5, <4>6 DEF j
    <3>2. CASE ~Shrinks
      <4>1. contents' = contents /\ NextCell(i) = Cell(k)
        <5>1. contents' = contents /\ size' = size /\ head' = Wrapped(head + 1, size)
          BY <3>2 DEF dequeue
        <5> QED BY <1>1, <1>2, <2>2, <5>1 DEF NextCell, Wrapped, TypeOK
      <4> QED BY <4>1
    <3> QED BY <3>1, <3>2
  <2> QED BY <2>3, <2>4 DEF k
<1>5. Queued' = Tail(Queued)
  <2>1. Queued \in Seq(Cells) /\ Len(Queued) = items
    BY <1>1, QueuedCells
  <2>2. Queued' \in Seq(Cells) /\ Len(Queued') = items - 1
    BY <1>1, <1>2, QueuedCellsNext
  <2>3. /\ Tail(Queued) \in Seq(Cells)
        /\ Len(Tail(Queued)) = items - 1
        /\ \A i \in 1 .. items - 1 : Tail(Queued)[i] = Queued[i + 1]
    BY <1>3, <2>1, HeadTailProperties
  <2>4. \A i \in 1 .. items - 1 : Queued'[i] = Tail(Queued)[i]
    BY <1>4, <2>3
  <2> QED BY <2>2, <2>3, <2>4, SeqEqual
<1> QED
  BY <1>3, <1>5 DEF Abstract!Pop

\* Whatever is pushed and popped, the array behaves as the queue of Fifo.
THEOREM QueueArrayImplementsFifo == Spec => ImplementsFifo
<1>1. Init => Abstract!Init
  <2> SUFFICES ASSUME Init PROVE Queued = <<>>
    BY DEF Abstract!Init
  <2>1. TypeOK /\ items = 0
    BY LimitAssumption DEF Init, TypeOK, initialSize
  <2> QED BY <2>1, QueuedCells, EmptySeq
<1>2. IndexInv /\ [Next]_vars => [Abstract!Next]_Queued
  <2> SUFFICES ASSUME IndexInv, [Next]_vars
               PROVE  Abstract!Next \/ UNCHANGED Queued
    OBVIOUS
  <2>1. CASE dequeue
    BY <2>1, DequeuePops DEF Abstract!Next
  <2>2. CASE \E v \in Values : enqueue(v)
    BY <2>2, EnqueueAppends DEF Abstract!Next
  <2>3. CASE UNCHANGED vars
    BY <2>3 DEF vars, Queued
  <2> QED BY <2>1, <2>2, <2>3 DEF Next
<1> QED
  BY <1>1, <1>2, IndexCorrect, PTL DEF Spec, ImplementsFifo, Abstract!Spec
=============================================================================
