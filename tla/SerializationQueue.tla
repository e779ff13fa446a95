------------------------- MODULE SerializationQueue -------------------------
(***************************************************************************)
(* One SerializationBuffer under every sequence of calls its user can      *)
(* make, the calls it refuses included, and the linear queue it implements.*)
(* The class is for one thread ("not to be shared between threads", its    *)
(* header says), so a call is a step.                                      *)
(***************************************************************************)
EXTENDS SerializationBuffer

CONSTANTS
  Bytes,      \* the values of a byte, NoByte among them
  Sizes       \* the sizeof of the values put and got, and sizes asked for

ASSUME QueueAssumption == NoByte \in Bytes /\ Sizes \subseteq Nat \ {0}

VARIABLES
  buf,   \* the buffer
  out    \* the bytes the last successful >> or Dequeue stored

vars == <<buf, out>>

Values == UNION {[1 .. k -> Bytes] : k \in Sizes}

Init == buf = Constructed /\ out = <<>>

\* << and Enqueue.
PutValue(bytes) == buf' = Put(buf, bytes) /\ UNCHANGED out

\* >> and Dequeue.
GetValue(k) == out' = Got(buf, k, out) /\ buf' = MovedFront(buf, k)

\* The memcpy of a caller of GetRearBufferPtr, who keeps to the free space.
WriteBehindRear(bytes) ==
  /\ Len(bytes) <= buf.freeSize
  /\ buf' = WrittenBehindRear(buf, bytes)
  /\ UNCHANGED out

MoveRear(k) == buf' = MovedRear(buf, k) /\ UNCHANGED out
MoveFront(k) == buf' = MovedFront(buf, k) /\ UNCHANGED out
Clear == buf' = ClearBuffer(buf) /\ UNCHANGED out

Next ==
  \/ \E bytes \in Values : PutValue(bytes) \/ WriteBehindRear(bytes)
  \/ \E k \in Sizes : GetValue(k) \/ MoveRear(k) \/ MoveFront(k)
  \/ Clear

Spec == Init /\ [][Next]_vars

-----------------------------------------------------------------------------
\* Properties.

\* Type invariant: every index and size stays within the buffer, and the four
\* integers of the class never disagree, whatever mix of accepted and refused
\* calls came before: each call updates only some of them.
TypeOK == buf \in BufferOf(Bytes) /\ SizesAgree(buf)

\* The buffer implements the linear queue: nothing is reordered, read twice
\* or read before it was put, a value is taken whole or not at all, and the
\* space of what was taken stays taken until ClearBuffer.
Queue == INSTANCE LinearQueue
  WITH Bound <- Capacity, content <- Queued(buf), room <- buf.freeSize,
       taken <- out

ImplementsLinearQueue == Queue!Spec
=============================================================================
