------------------------ MODULE SerializationBuffer ------------------------
(***************************************************************************)
(* Class SerializationBuffer as operators on a record: the internal buffer *)
(* and the five integers beside it.  A value is the sequence of bytes it   *)
(* occupies, so the thirteen overloads of << (and of >>) are one operator, *)
(* which differ in sizeof(data) only.                                      *)
(***************************************************************************)
EXTENDS Integers, Sequences

CONSTANTS
  Capacity,   \* the constructor's argument, or eCapacity::DEFAULT
  NoByte      \* what new char[] left in a cell nobody has written

ASSUME CapacityAssumption == Capacity \in Nat \ {0}

Constructed ==
  [cells |-> [i \in 0 .. Capacity - 1 |-> NoByte],
   useSize |-> 0, freeSize |-> Capacity, front |-> 0, rear |-> 0]

\* Bytes stored from an index on, and the k bytes from an index on.
Stored(cells, at, bytes) ==
  [i \in DOMAIN cells |->
     IF i \in at .. at + Len(bytes) - 1 THEN bytes[i - at + 1] ELSE cells[i]]
Loaded(cells, at, k) == [i \in 1 .. k |-> cells[at + i - 1]]

\* GetRearBufferPtr for a caller that writes there: no size moves.
WrittenBehindRear(b, bytes) ==
  [b EXCEPT !.cells = Stored(@, b.rear, bytes)]

\* GetFrontBufferPtr for a caller that overwrites what is queued.
OverwrittenAtFront(b, bytes) ==
  [b EXCEPT !.cells = Stored(@, b.front, bytes)]

\* MoveRear: refused when it does not fit.
MovedRear(b, k) ==
  IF b.freeSize < k \/ k < 1 THEN b
  ELSE [b EXCEPT !.rear = @ + k, !.useSize = @ + k, !.freeSize = @ - k]

\* Enqueue and <<: what does not fit is dropped, and << does not say so.
Put(b, bytes) ==
  IF b.freeSize < Len(bytes) THEN b
  ELSE MovedRear(WrittenBehindRear(b, bytes), Len(bytes))

\* Mutant: the bytes read are given back to freeSize, as in a ring.
MovedFrontReclaiming(b, k) ==
  IF b.useSize < k \/ k < 1 THEN b
  ELSE [b EXCEPT !.front = @ + k, !.useSize = @ - k, !.freeSize = @ + k]

\* MoveFront: the space is not free again before ClearBuffer.
MovedFront(b, k) ==
  IF b.useSize < k \/ k < 1 THEN b
  ELSE [b EXCEPT !.front = @ + k, !.useSize = @ - k]

\* Dequeue and >>: the bytes for the caller's variable, which stays as it is
\* when less is queued; MovedFront is the buffer afterwards.
Got(b, k, variable) ==
  IF b.useSize < k THEN variable ELSE Loaded(b.cells, b.front, k)

\* Mutant: freeSize keeps its value.
ClearedKeepsFree(b) == [b EXCEPT !.front = 0, !.rear = 0, !.useSize = 0]

ClearBuffer(b) ==
  [b EXCEPT !.front = 0, !.rear = 0, !.useSize = 0, !.freeSize = Capacity]

\* What is queued: what SendPacket hands to the ring of a session, from
\* GetFrontBufferPtr and GetUseSize.
Queued(b) == Loaded(b.cells, b.front, b.useSize)

-----------------------------------------------------------------------------
\* Type of the record, for cells that hold elements of a set.
BufferOf(Cells) ==
  [cells : [0 .. Capacity - 1 -> Cells], useSize : 0 .. Capacity,
   freeSize : 0 .. Capacity, front : 0 .. Capacity, rear : 0 .. Capacity]

\* The two sizes and the two indices agree: what lies between the indices is
\* used, what lies behind the rear is free.
SizesAgree(b) == b.front + b.useSize = b.rear /\ b.rear + b.freeSize = Capacity
=============================================================================
