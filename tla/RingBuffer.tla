----------------------------- MODULE RingBuffer -----------------------------
(***************************************************************************)
(* The contents of class RingBuffer: the internal buffer is a function     *)
(* from 0 .. n - 1, where n is __capacity, and a run of bytes a sequence.  *)
(* The steps between two accesses of an index another thread writes are    *)
(* those of the modules that use a ring, SendRing and RecvRing.            *)
(***************************************************************************)
EXTENDS RingIndices, Sequences

\* The constructors: __capacity for a requested size.
MinCapacity == 2
CapacityOf(size) == IF size < MinCapacity THEN MinCapacity + 1 ELSE size + 1

\* memcpy of k bytes from the buffer, and of bytes into it; neither wraps.
CopyOut(buffer, from, k) == [i \in 1 .. k |-> buffer[from + i - 1]]
CopyIn(buffer, to, bytes) ==
  [i \in DOMAIN buffer |->
     IF i \in to .. to + Len(bytes) - 1 THEN bytes[i - to + 1] ELSE buffer[i]]

\* The test of Enqueue, Dequeue and Peek for two memcpys instead of one.
Wraps(n, index, k) == Advance(n, index, k) <= index /\ Advance(n, index, k) # 0

\* Bytes up to the end of the internal buffer, before those from its start.
FirstPart(n, index, k) ==
  IF Wraps(n, index, k) THEN k - Advance(n, index, k) ELSE k

\* The k bytes from front on, as two memcpys copy them.
Contents(n, buffer, front, k) ==
  LET first == FirstPart(n, front, k) IN
  IF k < 1 THEN <<>>
  ELSE CopyOut(buffer, front, first) \o CopyOut(buffer, 0, k - first)

\* What Dequeue and Peek hand to their caller: nothing if less is queued.
Peeked(n, buffer, rear, front, k) ==
  IF UseSize(n, rear, front) < k THEN <<>> ELSE Contents(n, buffer, front, k)
=============================================================================
