------------------------------ MODULE SendRing ------------------------------
(***************************************************************************)
(* The send ring of a session.  SendPacket enqueues header and payload     *)
(* under the session lock, while the holder of bWaitSend hands the queued  *)
(* bytes to WSASend and moves the front when the send completes.  Neither  *)
(* side takes a lock of the other: they meet in the two indices only.      *)
(*                                                                         *)
(* One action per load or store of an index the other side stores or       *)
(* loads, and per memcpy.  Stores become visible in program order, as they *)
(* do on the x64 build.  The bytes of the stream are numbered modulo       *)
(* Numbers, so that a lost, doubled, stale or torn byte shows.             *)
(***************************************************************************)
EXTENDS RingBuffer

CONSTANTS
  Size,      \* sessionSendBufferSize
  Header,    \* sizeof(NET_PACKET_HEADER)
  Numbers    \* bound: bytes are numbered modulo Numbers

N == CapacityOf(Size)

ASSUME SendSizes ==
  /\ Size \in Nat
  /\ Header \in Nat \ {0}
  /\ Numbers \in Nat /\ Numbers > N

VARIABLES
  buffer,      \* __internalBuffer
  rear,        \* __queueRearIndex, stored by SendPacket
  front,       \* __queueFrontIndex, stored by the holder of bWaitSend
  put,         \* SendPacket: where it is, the size it enqueues, the size left
  send,        \* PostSend and its WSASend: where it is, what it has loaded
  next,        \* number of the next byte of the stream
  sent         \* bytes of the last completed WSASend

vars == <<buffer, rear, front, put, send, next, sent>>

Indices == 0 .. N - 1
NoPut  == [at |-> "idle", size |-> 0, rest |-> 0]
NoSend == [at |-> "idle", seen |-> 0, first |-> 0, second |-> 0, data |-> <<>>]

Init ==
  /\ buffer = [i \in Indices |-> Numbers]
  /\ rear = 0 /\ front = 0
  /\ put = NoPut /\ send = NoSend
  /\ next = 0
  /\ sent = <<>>

\* Bytes k .. l - 1 of a run that starts with the next byte of the stream.
Stream(k, l) == [i \in 1 .. l - k |-> (next + k + i - 1) % Numbers]

-----------------------------------------------------------------------------
\* SendPacket: one look at the free size, then RingBuffer::Enqueue twice.

\* Mutant: the header is forgotten in the look at the free size.
AcceptPacketWithoutHeader(len) ==
  /\ put.at = "idle"
  /\ FreeSize(N, rear, front) >= len
  /\ put' = [at |-> "enqueue", size |-> Header, rest |-> len]
  /\ UNCHANGED <<buffer, rear, front, send, next, sent>>

AcceptPacket(len) ==
  /\ put.at = "idle"
  /\ FreeSize(N, rear, front) >= len + Header
  /\ put' = [at |-> "enqueue", size |-> Header, rest |-> len]
  /\ UNCHANGED <<buffer, rear, front, send, next, sent>>

\* The next of the two calls of Enqueue, or the end of them.
AfterEnqueue ==
  IF put.rest = 0 THEN NoPut ELSE [at |-> "enqueue", size |-> put.rest, rest |-> 0]

\* Enqueue returns 0 when it finds no room, which SendPacket ignores: the
\* peer would never get these bytes of the stream.
EnqueueStarts ==
  LET fits == FreeSize(N, rear, front) >= put.size IN
  /\ put.at = "enqueue"
  /\ put' = IF fits THEN [put EXCEPT !.at = "first"] ELSE AfterEnqueue
  /\ next' = IF fits THEN next ELSE (next + put.size) % Numbers
  /\ UNCHANGED <<buffer, rear, front, send, sent>>

\* Mutant: the rear is stored before the second memcpy.
EnqueueFirstPublishing ==
  /\ put.at = "first"
  /\ buffer' = CopyIn(buffer, rear, Stream(0, FirstPart(N, rear, put.size)))
  /\ rear' = Advance(N, rear, put.size)
  /\ next' = (next + put.size) % Numbers
  /\ put' = AfterEnqueue
  /\ UNCHANGED <<front, send, sent>>

EnqueueFirst ==
  /\ put.at = "first"
  /\ buffer' = CopyIn(buffer, rear, Stream(0, FirstPart(N, rear, put.size)))
  /\ put' = [put EXCEPT !.at = IF Wraps(N, rear, put.size) THEN "second" ELSE "publish"]
  /\ UNCHANGED <<rear, front, send, next, sent>>

EnqueueSecond ==
  /\ put.at = "second"
  /\ buffer' = CopyIn(buffer, 0, Stream(FirstPart(N, rear, put.size), put.size))
  /\ put' = [put EXCEPT !.at = "publish"]
  /\ UNCHANGED <<rear, front, send, next, sent>>

EnqueuePublishes ==
  /\ put.at = "publish"
  /\ rear' = Advance(N, rear, put.size)
  /\ next' = (next + put.size) % Numbers
  /\ put' = AfterEnqueue
  /\ UNCHANGED <<buffer, front, send, sent>>

-----------------------------------------------------------------------------
\* PostSend and PostSendForSendPacket: the buffers of WSASend, from three
\* loads of the rear.  The front is the sender's own.

SendLooks ==
  /\ send.at = "idle"
  /\ rear # front
  /\ send' = [send EXCEPT !.at = "first", !.seen = rear]
  /\ UNCHANGED <<buffer, rear, front, put, next, sent>>

SendFirst ==
  /\ send.at = "first"
  /\ send' = [send EXCEPT !.first = DirectDequeueSize(N, rear, front),
                          !.at = IF send.seen > front THEN "reading" ELSE "second"]
  /\ UNCHANGED <<buffer, rear, front, put, next, sent>>

\* Mutant: the second part is given the size of the whole queue.
SendSecondWhole ==
  /\ send.at = "second"
  /\ send' = [send EXCEPT !.second = UseSize(N, rear, front), !.at = "reading"]
  /\ UNCHANGED <<buffer, rear, front, put, next, sent>>

SendSecond ==
  /\ send.at = "second"
  /\ send' = [send EXCEPT !.second = rear, !.at = "reading"]
  /\ UNCHANGED <<buffer, rear, front, put, next, sent>>

\* The network reads the buffers of a WSASend at any time (external).
NetworkReads ==
  /\ send.at = "reading"
  /\ send' = [send EXCEPT !.at = "done",
                !.data = CopyOut(buffer, front, send.first)
                           \o CopyOut(buffer, 0, send.second)]
  /\ UNCHANGED <<buffer, rear, front, put, next, sent>>

\* The completion: MoveFront by the bytes sent.
SendCompletes ==
  /\ send.at = "done"
  /\ front' = MovedFront(N, rear, front, send.first + send.second)
  /\ sent' = send.data
  /\ send' = NoSend
  /\ UNCHANGED <<buffer, rear, put, next>>

-----------------------------------------------------------------------------
SendPacketStep ==
  \/ \E len \in 1 .. N : AcceptPacket(len)
  \/ EnqueueStarts \/ EnqueueFirst \/ EnqueueSecond \/ EnqueuePublishes

SendStep ==
  \/ SendLooks \/ SendFirst \/ SendSecond \/ NetworkReads \/ SendCompletes

Next == SendPacketStep \/ SendStep

Spec == Init /\ [][Next]_vars

-----------------------------------------------------------------------------
\* Properties.

Used == UseSize(N, rear, front)

\* Type invariant of the ring and of its two sides.
TypeOK ==
  /\ buffer \in [Indices -> 0 .. Numbers]
  /\ rear \in Indices
  /\ front \in Indices
  /\ put \in [at : {"idle", "enqueue", "first", "second", "publish"},
              size : Nat, rest : Nat]
  /\ send.at \in {"idle", "first", "second", "reading", "done"}
  /\ send.seen \in Indices
  /\ send.first \in Indices
  /\ send.second \in Indices
  /\ next \in 0 .. Numbers - 1

\* The space SendPacket found free stays free until both of its Enqueues are
\* done, whatever completes meanwhile: neither call returns 0, so a header is
\* never followed by anything but its payload.
AcceptedPacketFits == put.size + put.rest + Used <= N - 1

\* What a WSASend reads was published before, and what Enqueue writes is
\* free: the two never touch the same byte, however old the loaded indices.
SendsOnlyPublished ==
  /\ send.at = "second" => send.first <= Used
  /\ send.at \in {"reading", "done"} => send.first + send.second <= Used

Promised ==
  INSTANCE ByteStream WITH
    Bound <- N - 1,
    queue <- Contents(N, buffer, front, Used),
    taken <- sent

\* The two sides see a bounded FIFO queue: the peer gets every byte of an
\* accepted packet once and in order, although header and payload are
\* published apart and a send may start between the two.
IsByteStream == Promised!Spec
=============================================================================
