----------------------------- MODULE ByteStream -----------------------------
(***************************************************************************)
(* What a ring buffer promises the two sides that use it: a bounded FIFO   *)
(* queue.  The bytes are those of a stream, numbered modulo Numbers: a Put *)
(* appends the next ones, a Take hands out the oldest ones.                *)
(***************************************************************************)
EXTENDS Naturals, Sequences

CONSTANTS Bound, Numbers

VARIABLES
  queue,   \* the bytes that were put and not yet taken
  next,    \* number of the next byte to put
  taken    \* the bytes of the last Take

Init == queue = <<>> /\ next = 0 /\ taken = <<>>

Put(k) ==
  /\ Len(queue) + k <= Bound
  /\ queue' = queue \o [i \in 1 .. k |-> (next + i - 1) % Numbers]
  /\ next' = (next + k) % Numbers
  /\ UNCHANGED taken

Take(k) ==
  /\ k <= Len(queue)
  /\ taken' = SubSeq(queue, 1, k)
  /\ queue' = SubSeq(queue, k + 1, Len(queue))
  /\ UNCHANGED next

Next == \E k \in 1 .. Bound : Put(k) \/ Take(k)

Spec == Init /\ [][Next]_<<queue, next, taken>>
=============================================================================
