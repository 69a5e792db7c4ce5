----------------------------- MODULE RingBuffer -----------------------------
(***************************************************************************)
(* RingBuffer, src/src/buffers/ring_buffer.py: a fixed array that keeps    *)
(* the newest elements.  The elements are numbered as they are appended,   *)
(* so that two of them never look alike.  Array indices start at 0.        *)
(***************************************************************************)
EXTENDS Integers, Sequences, SequencesExt

CONSTANTS
  Capacities, \* the capacities to explore
  MaxAppends, \* bound: elements appended
  Empty       \* the content of an unused cell

RingAssumption == Capacities \subseteq Nat \ {0} /\ MaxAppends \in Nat

VARIABLES
  capacity, \* _capacity
  buffer,   \* _buffer
  start,    \* _start
  size,     \* _size
  log,      \* the elements appended since the last clear (history)
  next      \* the number of the next element (history)

vars == <<capacity, buffer, start, size, log, next>>

Blank(c) == [i \in 0 .. c - 1 |-> Empty]

Init ==
  /\ capacity \in Capacities
  /\ buffer = Blank(capacity)
  /\ start = 0 /\ size = 0 /\ log = <<>> /\ next = 1

Cell(i) == (start + i) % capacity

\* append: the next free cell, or the oldest one when the buffer is full.
Add ==
  /\ next <= MaxAppends
  /\ buffer' = [buffer EXCEPT ![IF size < capacity THEN Cell(size) ELSE start] = next]
  /\ IF size < capacity
     THEN size' = size + 1 /\ UNCHANGED start
     ELSE start' = Cell(1) /\ UNCHANGED size
  /\ log' = Append(log, next)
  /\ next' = next + 1
  /\ UNCHANGED capacity

Clear ==
  /\ buffer' = Blank(capacity)
  /\ start' = 0 /\ size' = 0 /\ log' = <<>>
  /\ UNCHANGED <<capacity, next>>

Next == Add \/ Clear
Spec == Init /\ [][Next]_vars

\* buffer[from : to], the slice of a Python list.
Slice(from, to) == [i \in 1 .. to - from |-> buffer[from + i - 1]]

ToList ==
  IF start + size <= capacity THEN Slice(start, start + size)
  ELSE Slice(start, capacity) \o Slice(0, Cell(size))

\* buf[i] for an index in range, counted from the end when it is negative.
GetItem(i) == buffer[Cell(IF i >= 0 THEN i ELSE i + size)]
Oldest == buffer[start]
Newest == buffer[Cell(size - 1)]
MutIter == [i \in 1 .. size |-> buffer[(i - 1) % capacity]]
Iter == [i \in 1 .. size |-> buffer[Cell(i - 1)]]

-----------------------------------------------------------------------------
\* The cells, the start and the size fit the capacity.
TypeOK ==
  /\ DOMAIN buffer = 0 .. capacity - 1
  /\ start \in 0 .. capacity - 1 /\ size \in 0 .. capacity

\* Every way to read the buffer shows the same thing: the newest elements
\* appended since the last clear, oldest first, as many as the capacity holds.
ReadsAgree ==
  LET kept == SubSeq(log, Len(log) - size + 1, Len(log))
  IN  /\ size = IF Len(log) < capacity THEN Len(log) ELSE capacity
      /\ ToList = kept /\ Iter = kept
      /\ size > 0 => Oldest = Head(kept) /\ Newest = Last(kept)
      /\ \A i \in 0 .. size - 1 :
           GetItem(i) = kept[i + 1] /\ GetItem(i - size) = kept[i + 1]
=============================================================================
