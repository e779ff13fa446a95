---------------------------- MODULE RingIndices ----------------------------
(***************************************************************************)
(* The index arithmetic of class RingBuffer.  n is the member __capacity:  *)
(* the requested size plus one, so that rear = front means "empty" only.   *)
(* Each operator takes the rear and the front as its caller loaded them:   *)
(* the C++ functions load both members, rear first, into locals.           *)
(***************************************************************************)
EXTENDS Integers

\* GetUseSize: bytes queued between front and rear.
UseSize(n, rear, front) ==
  IF rear >= front THEN rear - front ELSE n - (front - rear)

\* GetFreeSize: bytes that may still be enqueued; one slot is never used.
FreeSize(n, rear, front) ==
  IF rear >= front THEN n - (rear - front) - 1 ELSE (front - rear) - 1

\* Mutant: the unused slot is always taken from the end of the buffer.
DirectEnqueueSizeShort(n, rear, front) ==
  IF rear >= front THEN n - rear - 1 ELSE front - rear - 1

\* GetDirectEnqueueSize: free bytes from rear up without wrapping.
DirectEnqueueSize(n, rear, front) ==
  IF rear >= front
  THEN IF front > 0 THEN n - rear ELSE n - rear - 1
  ELSE front - rear - 1

\* GetDirectDequeueSize: queued bytes from front up without wrapping.
DirectDequeueSize(n, rear, front) ==
  IF rear >= front THEN rear - front ELSE n - front

\* The index after size more bytes.
Advance(n, index, size) == (index + size) % n

\* The rear after Enqueue or MoveRear, which refuse what does not fit.
MovedRear(n, rear, front, size) ==
  IF FreeSize(n, rear, front) < size \/ size < 1
  THEN rear ELSE Advance(n, rear, size)

\* The front after Dequeue or MoveFront, which refuse more than is queued.
MovedFront(n, rear, front, size) ==
  IF UseSize(n, rear, front) < size \/ size < 1
  THEN front ELSE Advance(n, front, size)
=============================================================================
