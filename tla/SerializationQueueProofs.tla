---------------------- MODULE SerializationQueueProofs ----------------------
(***************************************************************************)
(* For every capacity and all sizes of values: the integers of a           *)
(* serialization buffer stay consistent, and the buffer implements the     *)
(* linear queue.                                                           *)
(***************************************************************************)
EXTENDS SerializationQueue, SequenceTheorems, TLAPS

-----------------------------------------------------------------------------
\* The operators keep a buffer well-formed.

WellFormed(b) == b \in BufferOf(Bytes) /\ SizesAgree(b)

LEMMA ConstructedWellFormed == WellFormed(Constructed)
BY CapacityAssumption, QueueAssumption
DEF WellFormed, Constructed, BufferOf, SizesAgree

LEMMA StoredType ==
  ASSUME NEW cells \in [0 .. Capacity - 1 -> Bytes], NEW at \in Nat,
         NEW bytes \in Seq(Bytes)
  PROVE  Stored(cells, at, bytes) \in [0 .. Capacity - 1 -> Bytes]
<1>1. ASSUME NEW i \in 0 .. Capacity - 1, i \in at .. at + Len(bytes) - 1
      PROVE  bytes[i - at + 1] \in Bytes
  <2>1. i - at + 1 \in 1 .. Len(bytes)
    BY <1>1, CapacityAssumption
  <2> QED
    BY <2>1
<1> QED
  BY <1>1 DEF Stored

LEMMA WrittenWellFormed ==
  ASSUME NEW b, WellFormed(b), NEW bytes \in Seq(Bytes)
  PROVE  /\ WellFormed(WrittenBehindRear(b, bytes))
         /\ WrittenBehindRear(b, bytes) =
              [b EXCEPT !.cells = Stored(b.cells, b.rear, bytes)]
<1>1. b.cells \in [0 .. Capacity - 1 -> Bytes] /\ b.rear \in Nat
  BY CapacityAssumption DEF WellFormed, BufferOf
<1>2. Stored(b.cells, b.rear, bytes) \in [0 .. Capacity - 1 -> Bytes]
  BY <1>1, StoredType
<1> QED
  BY <1>2 DEF WellFormed, BufferOf, SizesAgree, WrittenBehindRear

\* The integers of a well-formed buffer.
LEMMA FieldsOf ==
  ASSUME NEW b, WellFormed(b)
  PROVE  /\ b \in BufferOf(Bytes)
         /\ b.cells \in [0 .. Capacity - 1 -> Bytes]
         /\ b.useSize \in Nat /\ b.freeSize \in Nat
         /\ b.front \in Nat /\ b.rear \in Nat
         /\ b.front + b.useSize = b.rear /\ b.rear + b.freeSize = Capacity
BY CapacityAssumption DEF WellFormed, BufferOf, SizesAgree

\* What MoveRear and MoveFront do when they do not refuse.
LEMMA MovedRearCases ==
  ASSUME NEW b, WellFormed(b), NEW k \in Nat, NEW n, n = MovedRear(b, k)
  PROVE  \/ n = b /\ (b.freeSize < k \/ k < 1)
         \/ /\ k >= 1 /\ k <= b.freeSize
            /\ n \in BufferOf(Bytes) /\ n.cells = b.cells
            /\ n.rear = b.rear + k /\ n.useSize = b.useSize + k
            /\ n.freeSize = b.freeSize - k /\ n.front = b.front
<1>1. CASE b.freeSize < k \/ k < 1
  BY <1>1 DEF MovedRear
<1>2. CASE ~(b.freeSize < k \/ k < 1)
  <2>1. k >= 1 /\ k <= b.freeSize
    BY <1>2, FieldsOf
  <2>2. /\ b.rear + k \in 0 .. Capacity /\ b.useSize + k \in 0 .. Capacity
        /\ b.freeSize - k \in 0 .. Capacity
    BY <2>1, FieldsOf, CapacityAssumption
  <2>3. n = [b EXCEPT !.rear = b.rear + k, !.useSize = b.useSize + k,
                      !.freeSize = b.freeSize - k]
    BY <1>2 DEF MovedRear
  <2>4. b \in BufferOf(Bytes)
    BY FieldsOf
  <2> DEFINE r == b.rear + k
             u == b.useSize + k
             f == b.freeSize - k
  <2>5. /\ r \in 0 .. Capacity /\ u \in 0 .. Capacity /\ f \in 0 .. Capacity
        /\ n = [b EXCEPT !.rear = r, !.useSize = u, !.freeSize = f]
    BY <2>2, <2>3
  <2>6. /\ n \in BufferOf(Bytes) /\ n.rear = r /\ n.useSize = u
        /\ n.freeSize = f /\ n.front = b.front /\ n.cells = b.cells
    <3> HIDE DEF r, u, f
    <3> QED
      BY <2>4, <2>5 DEF BufferOf
  <2> QED
    BY <2>1, <2>6
<1> QED
  BY <1>1, <1>2

LEMMA MovedFrontCases ==
  ASSUME NEW b, WellFormed(b), NEW k \in Nat, NEW n, n = MovedFront(b, k)
  PROVE  \/ n = b /\ (b.useSize < k \/ k < 1)
         \/ /\ k >= 1 /\ k <= b.useSize
            /\ n \in BufferOf(Bytes) /\ n.cells = b.cells
            /\ n.front = b.front + k /\ n.useSize = b.useSize - k
            /\ n.freeSize = b.freeSize /\ n.rear = b.rear
<1>1. CASE b.useSize < k \/ k < 1
  BY <1>1 DEF MovedFront
<1>2. CASE ~(b.useSize < k \/ k < 1)
  <2>1. k >= 1 /\ k <= b.useSize
    BY <1>2, FieldsOf
  <2>2. b.front + k \in 0 .. Capacity /\ b.useSize - k \in 0 .. Capacity
    BY <2>1, FieldsOf, CapacityAssumption
  <2>3. n = [b EXCEPT !.front = b.front + k, !.useSize = b.useSize - k]
    BY <1>2 DEF MovedFront
  <2>4. b \in BufferOf(Bytes)
    BY FieldsOf
  <2> DEFINE r == b.front + k
             u == b.useSize - k
  <2>5. /\ r \in 0 .. Capacity /\ u \in 0 .. Capacity
        /\ n = [b EXCEPT !.front = r, !.useSize = u]
    BY <2>2, <2>3
  <2>6. /\ n \in BufferOf(Bytes) /\ n.front = r /\ n.useSize = u
        /\ n.freeSize = b.freeSize /\ n.rear = b.rear /\ n.cells = b.cells
    <3> HIDE DEF r, u
    <3> QED
      BY <2>4, <2>5 DEF BufferOf
  <2> QED
    BY <2>1, <2>6
<1> QED
  BY <1>1, <1>2

LEMMA MovedRearWellFormed ==
  ASSUME NEW b, WellFormed(b), NEW k \in Nat
  PROVE  WellFormed(MovedRear(b, k))
<1> DEFINE n == MovedRear(b, k)
<1>1. CASE n = b
  BY <1>1
<1>2. CASE /\ n \in BufferOf(Bytes) /\ n.rear = b.rear + k
           /\ n.useSize = b.useSize + k /\ n.freeSize = b.freeSize - k
           /\ n.front = b.front
  BY <1>2, FieldsOf, CapacityAssumption DEF WellFormed, SizesAgree
<1> QED
  BY <1>1, <1>2, MovedRearCases

LEMMA MovedFrontWellFormed ==
  ASSUME NEW b, WellFormed(b), NEW k \in Nat
  PROVE  WellFormed(MovedFront(b, k))
<1> DEFINE n == MovedFront(b, k)
<1>1. CASE n = b
  BY <1>1
<1>2. CASE /\ n \in BufferOf(Bytes) /\ n.front = b.front + k
           /\ n.useSize = b.useSize - k /\ n.freeSize = b.freeSize
           /\ n.rear = b.rear
  BY <1>2, FieldsOf, CapacityAssumption DEF WellFormed, SizesAgree
<1> QED
  BY <1>1, <1>2, MovedFrontCases

LEMMA PutWellFormed ==
  ASSUME NEW b, WellFormed(b), NEW bytes \in Seq(Bytes)
  PROVE  WellFormed(Put(b, bytes))
<1>1. WellFormed(WrittenBehindRear(b, bytes))
  BY WrittenWellFormed
<1>2. WellFormed(MovedRear(WrittenBehindRear(b, bytes), Len(bytes)))
  BY <1>1, MovedRearWellFormed
<1> QED
  BY <1>2 DEF Put

LEMMA ClearedWellFormed ==
  ASSUME NEW b, WellFormed(b)
  PROVE  /\ WellFormed(ClearBuffer(b))
         /\ ClearBuffer(b).useSize = 0 /\ ClearBuffer(b).freeSize = Capacity
<1> DEFINE n == ClearBuffer(b)
<1>1. b \in BufferOf(Bytes) /\ 0 \in 0 .. Capacity /\ Capacity \in 0 .. Capacity
  BY FieldsOf, CapacityAssumption
<1>2. n = [b EXCEPT !.front = 0, !.rear = 0, !.useSize = 0, !.freeSize = Capacity]
  BY DEF ClearBuffer
<1>3. /\ n \in BufferOf(Bytes) /\ n.front = 0 /\ n.rear = 0
      /\ n.useSize = 0 /\ n.freeSize = Capacity
  <2> HIDE DEF n
  <2> QED
    BY <1>1, <1>2 DEF BufferOf
<1> QED
  BY <1>3, CapacityAssumption DEF WellFormed, SizesAgree

LEMMA ValuesAreSequences ==
  ASSUME NEW bytes \in Values
  PROVE  bytes \in Seq(Bytes) /\ Len(bytes) \in Sizes
<1>1. PICK k \in Sizes : bytes \in [1 .. k -> Bytes]
  BY DEF Values
<1> QED
  BY <1>1, QueueAssumption

LEMMA TypeStep == TypeOK /\ [Next]_vars => TypeOK'
<1> SUFFICES ASSUME TypeOK, [Next]_vars PROVE TypeOK'
  OBVIOUS
<1>1. WellFormed(buf)
  BY DEF TypeOK, WellFormed
<1>2. WellFormed(buf)'
  <2>1. ASSUME NEW bytes \in Values, PutValue(bytes) PROVE WellFormed(buf)'
    BY <1>1, <2>1, PutWellFormed, ValuesAreSequences DEF PutValue
  <2>2. ASSUME NEW bytes \in Values, WriteBehindRear(bytes)
        PROVE  WellFormed(buf)'
    BY <1>1, <2>2, WrittenWellFormed, ValuesAreSequences DEF WriteBehindRear
  <2>3. ASSUME NEW k \in Sizes, GetValue(k) \/ MoveRear(k) \/ MoveFront(k)
        PROVE  WellFormed(buf)'
    BY <1>1, <2>3, QueueAssumption, MovedFrontWellFormed, MovedRearWellFormed
    DEF GetValue, MoveRear, MoveFront
  <2>4. ASSUME Clear PROVE WellFormed(buf)'
    BY <1>1, <2>4, ClearedWellFormed DEF Clear
  <2>5. ASSUME UNCHANGED vars PROVE WellFormed(buf)'
    BY <1>1, <2>5 DEF vars
  <2> QED
    BY <2>1, <2>2, <2>3, <2>4, <2>5 DEF Next
<1> QED
  BY <1>2 DEF TypeOK, WellFormed

\* Every index and size of a buffer stays within its capacity and the four
\* integers always agree, whatever is put, read, refused or cleared
\* (SerializationBuffer.cpp 43-468).
THEOREM BufferTypeCorrect == Spec => []TypeOK
<1>1. Init => TypeOK
  BY ConstructedWellFormed DEF Init, TypeOK, WellFormed
<1> QED
  BY <1>1, TypeStep, PTL DEF Spec

-----------------------------------------------------------------------------
\* The refinement.

\* What the buffer holds, as a sequence.
LEMMA QueuedSequence ==
  ASSUME NEW b, WellFormed(b)
  PROVE  /\ Queued(b) \in Seq(Bytes) /\ Len(Queued(b)) = b.useSize
         /\ \A i \in 1 .. b.useSize : Queued(b)[i] = b.cells[b.front + i - 1]
<1>1. ASSUME NEW i \in 1 .. b.useSize
      PROVE  b.cells[b.front + i - 1] \in Bytes
  <2>1. b.front + i - 1 \in 0 .. Capacity - 1
    BY FieldsOf, CapacityAssumption
  <2> QED
    BY <2>1, FieldsOf
<1>2. Queued(b) = [i \in 1 .. b.useSize |-> b.cells[b.front + i - 1]]
  BY DEF Queued, Loaded
<1>3. b.useSize \in Nat
  BY FieldsOf
<1>4. Queued(b) \in [1 .. b.useSize -> Bytes]
  BY <1>1, <1>2
<1>5. \A i \in 1 .. b.useSize : Queued(b)[i] = b.cells[b.front + i - 1]
  BY <1>2
<1>6. Queued(b) \in Seq(Bytes) /\ Len(Queued(b)) = b.useSize
  <2> DEFINE n == b.useSize
             q == Queued(b)
  <2>1. n \in Nat /\ q \in [1 .. n -> Bytes]
    BY <1>3, <1>4
  <2> HIDE DEF n, q
  <2>2. q \in Seq(Bytes) /\ Len(q) = n
    BY <2>1
  <2> QED
    BY <2>2 DEF n, q
<1> QED
  BY <1>5, <1>6

\* Storing behind the rear leaves what is queued alone.
LEMMA StoredBehind ==
  ASSUME NEW b, WellFormed(b), NEW bytes \in Seq(Bytes),
         Len(bytes) <= b.freeSize, NEW n, n = WrittenBehindRear(b, bytes)
  PROVE  /\ WellFormed(n) /\ Queued(n) = Queued(b)
         /\ n.useSize = b.useSize /\ n.freeSize = b.freeSize
         /\ n.front = b.front /\ n.rear = b.rear
         /\ \A i \in 1 .. Len(bytes) : n.cells[b.rear + i - 1] = bytes[i]
<1>1. WellFormed(n)
  BY WrittenWellFormed
<1>2. /\ n.useSize = b.useSize /\ n.freeSize = b.freeSize
      /\ n.front = b.front /\ n.rear = b.rear
      /\ n.cells = Stored(b.cells, b.rear, bytes)
  BY DEF WrittenBehindRear, WellFormed, BufferOf
<1>3. DOMAIN b.cells = 0 .. Capacity - 1
  BY FieldsOf
<1>4. ASSUME NEW i \in 1 .. b.useSize
      PROVE  n.cells[b.front + i - 1] = b.cells[b.front + i - 1]
  <2>1. /\ b.front + i - 1 \in 0 .. Capacity - 1
        /\ b.front + i - 1 \notin b.rear .. b.rear + Len(bytes) - 1
    BY FieldsOf, CapacityAssumption
  <2> QED
    BY <1>2, <1>3, <2>1 DEF Stored
<1>5. ASSUME NEW i \in 1 .. Len(bytes)
      PROVE  n.cells[b.rear + i - 1] = bytes[i]
  <2>1. /\ b.rear + i - 1 \in 0 .. Capacity - 1
        /\ b.rear + i - 1 \in b.rear .. b.rear + Len(bytes) - 1
        /\ (b.rear + i - 1) - b.rear + 1 = i
    BY FieldsOf, CapacityAssumption
  <2> QED
    BY <1>2, <1>3, <2>1 DEF Stored
<1>6. Queued(n) = Queued(b)
  BY <1>2, <1>4 DEF Queued, Loaded
<1> QED
  BY <1>1, <1>2, <1>5, <1>6

\* MoveRear appends the cells behind the rear to what is queued.
LEMMA MovedRearAppends ==
  ASSUME NEW b, WellFormed(b), NEW k \in Nat, k >= 1, k <= b.freeSize,
         NEW bytes \in Seq(Bytes), Len(bytes) = k,
         \A i \in 1 .. k : b.cells[b.rear + i - 1] = bytes[i]
  PROVE  /\ Queued(MovedRear(b, k)) = Queued(b) \o bytes
         /\ MovedRear(b, k).freeSize = b.freeSize - k
<1> DEFINE n == MovedRear(b, k)
<1>1. /\ n.cells = b.cells /\ n.front = b.front
      /\ n.useSize = b.useSize + k /\ n.freeSize = b.freeSize - k
  BY MovedRearCases, FieldsOf
<1>2. WellFormed(n)
  BY MovedRearWellFormed
<1> HIDE DEF n
<1>3. /\ Queued(n) \in Seq(Bytes) /\ Queued(b) \in Seq(Bytes)
      /\ Len(Queued(n)) = b.useSize + k /\ Len(Queued(b)) = b.useSize
  BY <1>1, <1>2, QueuedSequence
<1> DEFINE both == Queued(b) \o bytes
<1>4. /\ both \in Seq(Bytes) /\ Len(both) = b.useSize + k
      /\ \A i \in 1 .. b.useSize + k :
           both[i] = IF i <= b.useSize THEN Queued(b)[i] ELSE bytes[i - b.useSize]
  <2>1. /\ both \in Seq(Bytes)
        /\ Len(both) = Len(Queued(b)) + Len(bytes)
        /\ \A i \in 1 .. Len(Queued(b)) + Len(bytes) :
             both[i] = IF i <= Len(Queued(b)) THEN Queued(b)[i]
                       ELSE bytes[i - Len(Queued(b))]
    <3>1. Queued(b) \in Seq(Bytes)
      BY <1>3
    <3> QED
      BY <3>1, ConcatProperties
  <2> HIDE DEF both
  <2> QED
    BY <1>3, <2>1
<1> HIDE DEF both
<1>5. ASSUME NEW i \in 1 .. b.useSize + k
      PROVE  Queued(n)[i] = both[i]
  <2>1. Queued(n)[i] = b.cells[b.front + i - 1]
    BY <1>1, <1>2, QueuedSequence
  <2>2. CASE i <= b.useSize
    <3>1. i \in 1 .. b.useSize
      BY <2>2, FieldsOf
    <3>2. both[i] = Queued(b)[i]
      BY <2>2, <1>4
    <3> QED
      BY <2>1, <3>1, <3>2, QueuedSequence
  <2>3. CASE i > b.useSize
    <3>1. i - b.useSize \in 1 .. k
      BY <2>3, FieldsOf
    <3>2. both[i] = bytes[i - b.useSize]
      BY <2>3, <1>4, FieldsOf
    <3>3. b.front + i - 1 = b.rear + (i - b.useSize) - 1
      BY FieldsOf
    <3> QED
      BY <2>1, <3>1, <3>2, <3>3
  <2> QED
    BY <2>2, <2>3, FieldsOf
<1>6. Queued(n) = both
  BY <1>3, <1>4, <1>5, SeqEqual
<1> QED
  BY <1>1, <1>6 DEF n, both

\* MoveFront drops what is at the front.
LEMMA MovedFrontDrops ==
  ASSUME NEW b, WellFormed(b), NEW k \in Nat, k >= 1, k <= b.useSize
  PROVE  /\ Queued(MovedFront(b, k)) = SubSeq(Queued(b), k + 1, Len(Queued(b)))
         /\ MovedFront(b, k).freeSize = b.freeSize
<1> DEFINE n == MovedFront(b, k)
           rest == SubSeq(Queued(b), k + 1, Len(Queued(b)))
<1>1. /\ n.cells = b.cells /\ n.front = b.front + k
      /\ n.useSize = b.useSize - k /\ n.freeSize = b.freeSize
  BY MovedFrontCases, FieldsOf
<1>2. WellFormed(n)
  BY MovedFrontWellFormed
<1> HIDE DEF n
<1>3. /\ Queued(n) \in Seq(Bytes) /\ Queued(b) \in Seq(Bytes)
      /\ Len(Queued(n)) = b.useSize - k /\ Len(Queued(b)) = b.useSize
  BY <1>1, <1>2, QueuedSequence
<1>4. /\ rest \in Seq(Bytes) /\ Len(rest) = b.useSize - k
      /\ \A i \in 1 .. b.useSize - k : rest[i] = Queued(b)[k + i]
  <2>1. \A i \in k + 1 .. b.useSize : Queued(b)[i] \in Bytes
    BY <1>3, FieldsOf, ElementOfSeq
  <2>2. /\ rest \in Seq(Bytes)
        /\ Len(rest) = IF k + 1 <= b.useSize THEN b.useSize - (k + 1) + 1 ELSE 0
        /\ \A i \in 1 .. b.useSize - (k + 1) + 1 :
             rest[i] = Queued(b)[(k + 1) + i - 1]
    BY <1>3, <2>1, FieldsOf, SubSeqProperties
  <2> HIDE DEF rest
  <2>3. b.useSize \in Nat /\ b.useSize - (k + 1) + 1 = b.useSize - k
    BY FieldsOf
  <2>4. Len(rest) = b.useSize - k
    BY <2>2, <2>3
  <2>5. ASSUME NEW i \in 1 .. b.useSize - k
        PROVE  rest[i] = Queued(b)[k + i]
    <3>1. i \in Int /\ (k + 1) + i - 1 = k + i
      BY <2>3
    <3> QED
      BY <2>2, <2>3, <3>1
  <2> QED
    BY <2>2, <2>4, <2>5
<1> HIDE DEF rest
<1>5. ASSUME NEW i \in 1 .. b.useSize - k
      PROVE  Queued(n)[i] = rest[i]
  <2>1. Queued(n)[i] = b.cells[(b.front + k) + i - 1]
    BY <1>1, <1>2, QueuedSequence
  <2>2. rest[i] = Queued(b)[k + i]
    BY <1>4
  <2>3. k + i \in 1 .. b.useSize /\ (b.front + k) + i - 1 = b.front + (k + i) - 1
    BY FieldsOf
  <2> QED
    BY <2>1, <2>2, <2>3, QueuedSequence
<1>6. Queued(n) = rest
  BY <1>3, <1>4, <1>5, SeqEqual
<1> QED
  BY <1>1, <1>6 DEF n, rest

\* What >> and Dequeue hand out is the front of what is queued.
LEMMA GotIsFront ==
  ASSUME NEW b, WellFormed(b), NEW k \in Nat, k <= b.useSize, NEW v
  PROVE  Got(b, k, v) = SubSeq(Queued(b), 1, k)
<1>1. Got(b, k, v) = [i \in 1 .. k |-> b.cells[b.front + i - 1]]
  BY FieldsOf DEF Got, Loaded
<1>2. SubSeq(Queued(b), 1, k) = [i \in 1 .. k |-> Queued(b)[i]]
  BY QueuedSequence, FieldsOf
<1>3. \A i \in 1 .. k : i \in 1 .. b.useSize
  BY FieldsOf
<1> QED
  BY <1>1, <1>2, <1>3, QueuedSequence

\* Clearing, and a fresh buffer, leave nothing queued.
LEMMA NothingQueued ==
  ASSUME NEW b, WellFormed(b), b.useSize = 0
  PROVE  Queued(b) = <<>>
BY QueuedSequence, EmptySeq

\* << and Enqueue: refused, or put as a whole behind what is queued.
LEMMA PutAppends ==
  ASSUME NEW b, WellFormed(b), NEW bytes \in Seq(Bytes), Len(bytes) >= 1
  PROVE  \/ Put(b, bytes) = b
         \/ /\ Len(bytes) <= b.freeSize
            /\ Queued(Put(b, bytes)) = Queued(b) \o bytes
            /\ Put(b, bytes).freeSize = b.freeSize - Len(bytes)
<1>1. CASE b.freeSize < Len(bytes)
  BY <1>1 DEF Put
<1>2. CASE ~(b.freeSize < Len(bytes))
  <2> DEFINE w == WrittenBehindRear(b, bytes)
             k == Len(bytes)
  <2>1. k \in Nat /\ k <= b.freeSize
    BY <1>2, FieldsOf
  <2>2. /\ WellFormed(w) /\ Queued(w) = Queued(b)
        /\ w.freeSize = b.freeSize /\ w.rear = b.rear
        /\ \A i \in 1 .. k : w.cells[b.rear + i - 1] = bytes[i]
    BY <2>1, StoredBehind
  <2>3. Put(b, bytes) = MovedRear(w, k)
    BY <1>2 DEF Put
  <2> HIDE DEF w
  <2>4. /\ Queued(MovedRear(w, k)) = Queued(w) \o bytes
        /\ MovedRear(w, k).freeSize = w.freeSize - k
    BY <2>1, <2>2, MovedRearAppends
  <2> QED
    BY <2>1, <2>2, <2>3, <2>4
<1> QED
  BY <1>1, <1>2

\* MoveRear after a caller of GetRearBufferPtr: the bytes that lie behind the
\* rear are a value of the linear queue.
LEMMA CellsBehindRear ==
  ASSUME NEW b, WellFormed(b), NEW k \in Sizes, k <= b.freeSize
  PROVE  \E bytes \in Values :
           /\ bytes \in Seq(Bytes) /\ Len(bytes) = k
           /\ \A i \in 1 .. k : b.cells[b.rear + i - 1] = bytes[i]
<1> DEFINE bytes == [i \in 1 .. k |-> b.cells[b.rear + i - 1]]
<1>1. k \in Nat /\ k >= 1
  BY QueueAssumption
<1>2. ASSUME NEW i \in 1 .. k PROVE b.cells[b.rear + i - 1] \in Bytes
  <2>1. b.rear + i - 1 \in 0 .. Capacity - 1
    BY <1>1, FieldsOf, CapacityAssumption
  <2> QED
    BY <2>1, FieldsOf
<1>3. bytes \in [1 .. k -> Bytes]
  BY <1>2
<1>4. bytes \in Values
  BY <1>3 DEF Values
<1>5. \A i \in 1 .. k : b.cells[b.rear + i - 1] = bytes[i]
  OBVIOUS
<1> HIDE DEF bytes
<1>6. bytes \in Seq(Bytes) /\ Len(bytes) = k
  BY <1>1, <1>3
<1> QED
  BY <1>4, <1>5, <1>6

LEMMA QueueStep == TypeOK /\ [Next]_vars => [Queue!Next]_<<Queued(buf), buf.freeSize, out>>
<1> DEFINE Step == [Queue!Next]_<<Queued(buf), buf.freeSize, out>>
<1> SUFFICES ASSUME TypeOK, [Next]_vars PROVE Step
  OBVIOUS
<1>1. WellFormed(buf)
  BY DEF TypeOK, WellFormed
<1>2. ASSUME buf' = buf, out' = out PROVE Step
  BY <1>2 DEF Queued, Loaded
<1>3. ASSUME NEW bytes \in Values, PutValue(bytes) PROVE Step
  <2>1. /\ bytes \in Seq(Bytes) /\ Len(bytes) >= 1
    BY ValuesAreSequences, QueueAssumption
  <2>2. buf' = Put(buf, bytes) /\ out' = out
    BY <1>3 DEF PutValue
  <2>3. CASE buf' = buf
    BY <1>2, <2>2, <2>3
  <2>4. CASE /\ Len(bytes) <= buf.freeSize
             /\ Queued(buf)' = Queued(buf) \o bytes
             /\ buf'.freeSize = buf.freeSize - Len(bytes)
    BY <2>2, <2>4 DEF Queue!Next, Queue!Put
  <2> QED
    BY <1>1, <2>1, <2>2, <2>3, <2>4, PutAppends DEF Queued, Loaded
<1>4. ASSUME NEW bytes \in Values, WriteBehindRear(bytes) PROVE Step
  <2>1. /\ Queued(buf)' = Queued(buf) /\ buf'.freeSize = buf.freeSize
        /\ out' = out
    BY <1>1, <1>4, ValuesAreSequences, StoredBehind
    DEF WriteBehindRear, Queued, Loaded
  <2> QED
    BY <2>1
<1>5. ASSUME NEW k \in Sizes, GetValue(k) PROVE Step
  <2>1. k \in Nat /\ k >= 1 /\ buf.useSize \in Nat
    BY <1>1, QueueAssumption, FieldsOf
  <2>2. buf' = MovedFront(buf, k) /\ out' = Got(buf, k, out)
    BY <1>5 DEF GetValue
  <2>3. CASE buf.useSize < k
    BY <1>2, <2>2, <2>3 DEF MovedFront, Got
  <2>4. CASE k <= buf.useSize
    <3>1. k \in 1 .. Capacity /\ k <= Len(Queued(buf))
      <4>1. Len(Queued(buf)) = buf.useSize
        BY <1>1, QueuedSequence
      <4>2. buf.useSize <= Capacity
        BY <1>1 DEF WellFormed, BufferOf
      <4> QED
        BY <2>1, <2>4, <4>1, <4>2, CapacityAssumption
    <3>2. /\ Queued(buf)' = SubSeq(Queued(buf), k + 1, Len(Queued(buf)))
          /\ buf'.freeSize = buf.freeSize
      BY <1>1, <2>1, <2>2, <2>4, MovedFrontDrops DEF Queued, Loaded
    <3>3. out' = SubSeq(Queued(buf), 1, k)
      BY <1>1, <2>1, <2>2, <2>4, GotIsFront
    <3> QED
      BY <3>1, <3>2, <3>3 DEF Queue!Next, Queue!Take
  <2> QED
    BY <2>1, <2>3, <2>4
<1>6. ASSUME NEW k \in Sizes, MoveRear(k) PROVE Step
  <2>1. k \in Nat /\ k >= 1 /\ buf.freeSize \in Nat
    BY <1>1, QueueAssumption, FieldsOf
  <2>2. buf' = MovedRear(buf, k) /\ out' = out
    BY <1>6 DEF MoveRear
  <2>3. CASE buf.freeSize < k
    BY <1>2, <2>2, <2>3 DEF MovedRear
  <2>4. CASE k <= buf.freeSize
    <3>1. PICK bytes \in Values :
            /\ bytes \in Seq(Bytes) /\ Len(bytes) = k
            /\ \A i \in 1 .. k : buf.cells[buf.rear + i - 1] = bytes[i]
      BY <1>1, <2>4, CellsBehindRear
    <3>2. /\ Queued(MovedRear(buf, k)) = Queued(buf) \o bytes
          /\ MovedRear(buf, k).freeSize = buf.freeSize - k
      <4>1. /\ bytes \in Seq(Bytes) /\ Len(bytes) = k
            /\ \A i \in 1 .. k : buf.cells[buf.rear + i - 1] = bytes[i]
        BY <3>1
      <4> QED
        BY <1>1, <2>1, <2>4, <4>1, MovedRearAppends
    <3>3. Queued(buf)' = Queued(MovedRear(buf, k))
      BY <2>2 DEF Queued, Loaded
    <3> QED
      BY <2>2, <2>4, <3>1, <3>2, <3>3 DEF Queue!Next, Queue!Put
  <2> QED
    BY <2>1, <2>3, <2>4
<1>7. ASSUME NEW k \in Sizes, MoveFront(k) PROVE Step
  <2>1. k \in Nat /\ k >= 1 /\ buf.useSize \in Nat
    BY <1>1, QueueAssumption, FieldsOf
  <2>2. buf' = MovedFront(buf, k) /\ out' = out
    BY <1>7 DEF MoveFront
  <2>3. CASE buf.useSize < k
    BY <1>2, <2>2, <2>3 DEF MovedFront
  <2>4. CASE k <= buf.useSize
    <3>1. k \in 1 .. Capacity /\ k <= Len(Queued(buf))
      <4>1. Len(Queued(buf)) = buf.useSize
        BY <1>1, QueuedSequence
      <4>2. buf.useSize <= Capacity
        BY <1>1 DEF WellFormed, BufferOf
      <4> QED
        BY <2>1, <2>4, <4>1, <4>2, CapacityAssumption
    <3>2. /\ Queued(buf)' = SubSeq(Queued(buf), k + 1, Len(Queued(buf)))
          /\ buf'.freeSize = buf.freeSize
      BY <1>1, <2>1, <2>2, <2>4, MovedFrontDrops DEF Queued, Loaded
    <3> QED
      BY <2>2, <3>1, <3>2 DEF Queue!Next, Queue!Skip
  <2> QED
    BY <2>1, <2>3, <2>4
<1>8. ASSUME Clear PROVE Step
  <2>1. buf' = ClearBuffer(buf) /\ out' = out
    BY <1>8 DEF Clear
  <2>2. buf'.freeSize = Capacity /\ Queued(buf)' = <<>>
    BY <1>1, <2>1, ClearedWellFormed, NothingQueued DEF Queued, Loaded
  <2> QED
    BY <2>1, <2>2 DEF Queue!Next, Queue!Reset
<1>9. CASE UNCHANGED vars
  BY <1>2, <1>9 DEF vars
<1> QED
  BY <1>3, <1>4, <1>5, <1>6, <1>7, <1>8, <1>9 DEF Next

\* The buffer is the linear queue its header promises, for every capacity and
\* all sizes of values (SerializationBuffer.h 15-83).
THEOREM BufferIsLinearQueue == Spec => ImplementsLinearQueue
<1>1. Init => Queue!Init
  BY ConstructedWellFormed, NothingQueued DEF Init, Queue!Init, Constructed
<1> QED
  BY <1>1, BufferTypeCorrect, QueueStep, PTL DEF Spec, ImplementsLinearQueue, Queue!Spec
=============================================================================
