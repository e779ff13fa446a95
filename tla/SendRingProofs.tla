--------------------------- MODULE SendRingProofs ---------------------------
(***************************************************************************)
(* SendRing: an accepted packet fits until both of its Enqueues are done,  *)
(* a WSASend reads published bytes only, and the ring is a bounded FIFO    *)
(* queue of bytes, for every ring size, every header size and every        *)
(* interleaving of SendPacket and the sender.                              *)
(*                                                                         *)
(* None of this is inductive.  IInv remembers why the second buffer of a   *)
(* WSASend ends at the rear; BytesInv adds which bytes lie behind the rear *)
(* while Enqueue runs, and which the network has read.                     *)
(***************************************************************************)
EXTENDS SendRing, RingIndexTheorems

SendTypes ==
  /\ rear \in Indices
  /\ front \in Indices
  /\ put \in [at : {"idle", "enqueue", "first", "second", "publish"},
              size : Nat, rest : Nat]
  /\ send \in [at : {"idle", "first", "second", "reading", "done"},
               seen : Indices, first : Indices, second : Indices,
               data : {send.data}]

\* What the sender loaded still bounds what is queued now.  If it saw the
\* rear below the front, the rear is there still: it cannot pass the front.
LoadsHold ==
  /\ send.at \in {"idle", "first"} => send.first = 0 /\ send.second = 0
  /\ send.at = "first" => send.seen # front
  /\ send.at \in {"first", "second"} /\ send.seen < front => rear < front
  /\ send.at = "second" =>
       send.seen < front /\ send.first = N - front /\ send.second = 0

IInv == SendTypes /\ AcceptedPacketFits /\ SendsOnlyPublished /\ LoadsHold

\* The capacity of a ring is at least three: two bytes and the unused slot.
LEMMA CapacityIsNat == N \in Nat /\ N >= 3
  BY SendSizes DEF N, CapacityOf, MinCapacity

\* A new session's send ring is empty and nothing is loaded.
LEMMA SendInit == Init => IInv
<1> SUFFICES ASSUME Init PROVE IInv
  OBVIOUS
<1>1. SendTypes
  BY CapacityIsNat DEF Init, SendTypes, Indices, NoPut, NoSend
<1>2. Used = 0 /\ put.size = 0 /\ put.rest = 0 /\ send.at = "idle"
  BY DEF Init, Used, UseSize, NoPut, NoSend
<1> QED
  BY <1>1, <1>2, CapacityIsNat
  DEF Init, IInv, AcceptedPacketFits, SendsOnlyPublished, LoadsHold, NoSend

\* Every step of SendPacket keeps IInv: it only adds to what is queued, and
\* no more than the free size it looked at.
LEMMA SendPacketKeeps ==
  ASSUME IInv, SendPacketStep
  PROVE  IInv'
<1> USE CapacityIsNat DEF Indices
<1>types. /\ rear \in 0 .. N - 1 /\ front \in 0 .. N - 1
          /\ put.size \in Nat /\ put.rest \in Nat
          /\ put = [at |-> put.at, size |-> put.size, rest |-> put.rest]
  BY DEF IInv, SendTypes
<1>use. Used + FreeSize(N, rear, front) = N - 1 /\ Used \in Nat
  BY <1>types, UseAndFree DEF Used
<1>1. ASSUME NEW len \in 1 .. N, AcceptPacket(len) PROVE IInv'
  <2>1. Header \in Nat /\ len \in Nat /\ Header + len <= FreeSize(N, rear, front)
    BY <1>1, <1>types, SendSizes, UseAndFree DEF AcceptPacket
  <2>2. /\ put' = [at |-> "enqueue", size |-> Header, rest |-> len]
        /\ Used' = Used
    BY <1>1 DEF AcceptPacket, Used
  <2>3. SendTypes'
    BY <1>1, <2>1, <2>2 DEF AcceptPacket, IInv, SendTypes
  <2>4. AcceptedPacketFits'
    BY <1>use, <1>types, <2>1, <2>2, UseAndFree DEF AcceptedPacketFits
  <2>5. SendsOnlyPublished' /\ LoadsHold'
    BY <1>1, <2>2 DEF AcceptPacket, IInv, SendsOnlyPublished, LoadsHold
  <2> QED
    BY <2>3, <2>4, <2>5 DEF IInv
<1>2. CASE EnqueueStarts
  BY <1>2, <1>types, <1>use
  DEF EnqueueStarts, AfterEnqueue, NoPut, IInv, SendTypes, AcceptedPacketFits,
      SendsOnlyPublished, LoadsHold, Used
<1>3. CASE EnqueueFirst
  BY <1>3, <1>types, <1>use
  DEF EnqueueFirst, IInv, SendTypes, AcceptedPacketFits, SendsOnlyPublished,
      LoadsHold, Used
<1>4. CASE EnqueueSecond
  BY <1>4, <1>types, <1>use
  DEF EnqueueSecond, IInv, SendTypes, AcceptedPacketFits, SendsOnlyPublished,
      LoadsHold, Used
<1>5. CASE EnqueuePublishes
  <2>1. /\ rear' \in 0 .. N - 1
        /\ Used' = Used + put.size
        /\ rear < front => rear <= rear' /\ rear' < front
    <3>1. put.size <= FreeSize(N, rear, front)
      BY <1>types, <1>use, UseAndFree DEF IInv, AcceptedPacketFits
    <3>2. rear' = Advance(N, rear, put.size) /\ front' = front
      BY <1>5 DEF EnqueuePublishes
    <3> QED
      BY <1>types, <3>1, <3>2, EnqueueAdds DEF Used
  <2>2. put'.size = put.rest /\ put'.rest = 0
    BY <1>5, <1>types DEF EnqueuePublishes, AfterEnqueue, NoPut
  <2>3. SendTypes'
    BY <1>5, <2>1, <1>types DEF EnqueuePublishes, AfterEnqueue, NoPut, IInv, SendTypes
  <2>4. AcceptedPacketFits'
    BY <2>1, <2>2, <1>types, <1>use DEF IInv, AcceptedPacketFits
  <2>5. SendsOnlyPublished' /\ LoadsHold'
    BY <1>5, <2>1, <1>types, <1>use
    DEF EnqueuePublishes, IInv, SendTypes, SendsOnlyPublished, LoadsHold
  <2> QED
    BY <2>3, <2>4, <2>5 DEF IInv
<1> QED
  BY <1>1, <1>2, <1>3, <1>4, <1>5 DEF SendPacketStep

\* Every step of the sender keeps IInv: what it loads is queued already, and
\* it takes from the ring no more than it sent.
LEMMA SendKeeps ==
  ASSUME IInv, SendStep
  PROVE  IInv'
<1> USE CapacityIsNat DEF Indices
<1>types. /\ rear \in 0 .. N - 1 /\ front \in 0 .. N - 1
          /\ put.size \in Nat /\ put.rest \in Nat
          /\ send.seen \in 0 .. N - 1 /\ send.first \in 0 .. N - 1
          /\ send.second \in 0 .. N - 1
          /\ send = [at |-> send.at, seen |-> send.seen, first |-> send.first,
                     second |-> send.second, data |-> send.data]
  BY DEF IInv, SendTypes
<1>use. Used \in 0 .. N - 1
  BY <1>types, UseAndFree DEF Used
<1>1. CASE SendLooks
  BY <1>1, <1>types
  DEF SendLooks, IInv, SendTypes, AcceptedPacketFits, SendsOnlyPublished,
      LoadsHold, Used
<1>2. CASE SendFirst
  <2>1. /\ DirectDequeueSize(N, rear, front) \in 0 .. N - 1
        /\ DirectDequeueSize(N, rear, front) <= Used
        /\ rear < front => DirectDequeueSize(N, rear, front) = N - front
    <3>1. DirectDequeueSize(N, rear, front) \in 0 .. Used
      BY <1>types, DirectSizes DEF Used
    <3> QED
      BY <3>1, <1>types, <1>use DEF DirectDequeueSize
  <2>2. SendTypes'
    BY <1>2, <1>types, <2>1 DEF SendFirst, IInv, SendTypes
  <2>3. AcceptedPacketFits'
    BY <1>2 DEF SendFirst, IInv, AcceptedPacketFits, Used
  <2>4. SendsOnlyPublished' /\ LoadsHold'
    BY <1>2, <1>types, <2>1
    DEF SendFirst, IInv, SendsOnlyPublished, LoadsHold, Used
  <2> QED
    BY <2>2, <2>3, <2>4 DEF IInv
<1>3. CASE SendSecond
  <2>1. /\ send' = [at |-> "reading", seen |-> send.seen, first |-> send.first,
                    second |-> rear, data |-> send.data]
        /\ UNCHANGED <<rear, front, put, Used>>
    BY <1>3, <1>types DEF SendSecond, Used
  <2>2. send.first + rear = Used
    BY <1>3, <1>types DEF SendSecond, IInv, LoadsHold, Used, UseSize
  <2>3. SendTypes'
    BY <1>types, <2>1 DEF IInv, SendTypes
  <2>4. AcceptedPacketFits'
    BY <2>1 DEF IInv, AcceptedPacketFits
  <2>5. SendsOnlyPublished' /\ LoadsHold'
    BY <1>types, <1>use, <2>1, <2>2 DEF SendsOnlyPublished, LoadsHold
  <2> QED
    BY <2>3, <2>4, <2>5 DEF IInv
<1>4. CASE NetworkReads
  BY <1>4, <1>types
  DEF NetworkReads, IInv, SendTypes, AcceptedPacketFits, SendsOnlyPublished,
      LoadsHold, Used
<1>5. CASE SendCompletes
  <2>1. front' \in 0 .. N - 1 /\ Used' <= Used
    <3>1. send.first + send.second \in Nat /\ send.first + send.second <= Used
      BY <1>5, <1>types DEF SendCompletes, IInv, SendsOnlyPublished
    <3>2. rear' = rear /\ front' = MovedFront(N, rear, front, send.first + send.second)
      BY <1>5 DEF SendCompletes
    <3> QED
      BY <1>types, <1>use, <3>1, <3>2, DequeueTakes DEF Used
  <2>2. Used' \in Nat /\ put' = put
    BY <1>5, <2>1, <1>types, UseAndFree DEF SendCompletes, Used
  <2> QED
    BY <1>5, <1>types, <1>use, <2>1, <2>2
    DEF SendCompletes, NoSend, IInv, SendTypes, AcceptedPacketFits,
        SendsOnlyPublished, LoadsHold
<1> QED
  BY <1>1, <1>2, <1>3, <1>4, <1>5 DEF SendStep

\* A step that changes no variable keeps IInv.
LEMMA SendStutters ==
  ASSUME IInv, UNCHANGED vars
  PROVE  IInv'
BY DEF vars, IInv, SendTypes, AcceptedPacketFits, SendsOnlyPublished, LoadsHold, Used

\* IInv holds in every state of the ring.
THEOREM SendRingInvariance == Spec => []IInv
<1>1. IInv /\ [Next]_vars => IInv'
  BY SendPacketKeeps, SendKeeps, SendStutters DEF Next
<1> QED
  BY <1>1, SendInit, PTL DEF Spec

\* Neither Enqueue of an accepted packet is ever refused: lines 706-714 of
\* AsyncNetworkServerEngine.cpp never queue a header without its payload.
THEOREM HeaderNeverAlone == Spec => []AcceptedPacketFits
<1>1. IInv => AcceptedPacketFits
  BY DEF IInv
<1> QED
  BY <1>1, SendRingInvariance, PTL

\* The buffers of a WSASend hold published bytes only, although the rear
\* moves between the three loads that compute them.
THEOREM SenderSeesPublished == Spec => []SendsOnlyPublished
<1>1. IInv => SendsOnlyPublished
  BY DEF IInv
<1> QED
  BY <1>1, SendRingInvariance, PTL

-----------------------------------------------------------------------------
\* The bytes: the ring implements ByteStream.

\* The next k bytes of the stream lie behind the rear, not published yet.
Ahead(k) ==
  \A i \in 1 .. k : buffer[Advance(N, rear, i - 1)] = (next + i - 1) % Numbers

\* The numbers of the bytes of the stream; Numbers itself is a byte never written.
Byte == 0 .. Numbers

\* Types of the bytes and of the number of the next one.
DataTypes ==
  /\ buffer \in Buffers(N, Byte)
  /\ next \in 0 .. Numbers - 1

\* What Enqueue has copied so far is the stream from its next byte on.
CopiedAhead ==
  /\ put.at = "idle" => put.size = 0 /\ put.rest = 0
  /\ put.at # "idle" => put.size > 0
  /\ put.at = "second" => Wraps(N, rear, put.size) /\ Ahead(FirstPart(N, rear, put.size))
  /\ put.at = "publish" => Ahead(put.size)

\* A WSASend covers the oldest bytes, at least one, and what the network has read
\* of them is still what the ring holds.
ReadsOldest ==
  /\ send.at # "idle" => rear # front
  /\ send.at \in {"reading", "done"} => send.first > 0
  /\ send.at = "reading" =>
       /\ front + send.first <= N
       /\ send.second > 0 => front + send.first = N
  /\ send.at = "done" =>
       send.data = Contents(N, buffer, front, send.first + send.second)

\* The inductive invariant with the bytes of the ring.
BytesInv == IInv /\ DataTypes /\ CopiedAhead /\ ReadsOldest

\* The number of a byte is below Numbers.
LEMMA ByteInRange ==
  ASSUME NEW i \in Nat
  PROVE  i % Numbers \in 0 .. Numbers - 1
  BY CapacityIsNat, SendSizes

\* Stream(k, l) is the sequence of the l - k bytes that follow the k next ones.
LEMMA StreamRun ==
  ASSUME next \in Nat, NEW k \in Nat, NEW l \in Nat, k <= l
  PROVE  /\ Stream(k, l) \in Seq(Byte)
         /\ Len(Stream(k, l)) = l - k
         /\ \A i \in 1 .. l - k : Stream(k, l)[i] = (next + k + i - 1) % Numbers
<1>1. \A i \in 1 .. l - k : (next + k + i - 1) % Numbers \in Byte
  <2> TAKE i \in 1 .. l - k
  <2>1. next + k + i - 1 \in Nat
    OBVIOUS
  <2> QED
    BY <2>1, ByteInRange, SendSizes DEF Byte
<1>2. Stream(k, l) \in [1 .. l - k -> Byte]
  BY <1>1 DEF Stream
<1>3. l - k \in Nat
  OBVIOUS
<1>4. Stream(k, l) \in Seq(Byte) /\ Len(Stream(k, l)) = l - k
  BY <1>2, <1>3
<1> QED
  BY <1>4 DEF Stream

\* A new ring holds no byte of the stream.
LEMMA BytesInit == Init => BytesInv
<1> SUFFICES ASSUME Init PROVE BytesInv
  OBVIOUS
<1>1. IInv
  BY SendInit
<1>2. DataTypes
  BY CapacityIsNat, SendSizes DEF Init, DataTypes, Buffers, Indices, Byte
<1> QED
  BY <1>1, <1>2 DEF Init, BytesInv, CopiedAhead, ReadsOldest, NoPut, NoSend

\* The first memcpy of Enqueue puts the stream behind the rear and touches no
\* queued byte.
LEMMA FirstCopies ==
  ASSUME BytesInv, EnqueueFirst
  PROVE  /\ buffer' \in Buffers(N, Byte)
         /\ Ahead(FirstPart(N, rear, put.size))'
         /\ \A k \in 0 .. Used :
              Contents(N, buffer', front, k) = Contents(N, buffer, front, k)
<1> DEFINE m == FirstPart(N, rear, put.size)
<1> USE CapacityIsNat DEF Indices
<1>1. /\ rear \in 0 .. N - 1 /\ front \in 0 .. N - 1
      /\ put.size \in Nat /\ put.rest \in Nat /\ put.size > 0
      /\ next \in 0 .. Numbers - 1 /\ buffer \in Buffers(N, Byte)
      /\ put.at = "first"
  BY DEF BytesInv, IInv, SendTypes, DataTypes, CopiedAhead, EnqueueFirst
<1>2. put.size + Used <= N - 1 /\ Used \in 0 .. N - 1
  <2>1. Used \in 0 .. N - 1
    BY <1>1, UseAndFree DEF Used
  <2>2. put.size + put.rest + Used <= N - 1
    BY DEF BytesInv, IInv, AcceptedPacketFits
  <2> QED
    BY <1>1, <2>1, <2>2
<1>3. m = IF rear + put.size > N THEN N - rear ELSE put.size
  BY <1>1, <1>2, WrapByCases
<1>4. m \in 1 .. put.size /\ rear + m <= N
  BY <1>1, <1>3
<1>5. /\ Stream(0, m) \in Seq(Byte)
      /\ Len(Stream(0, m)) = m
      /\ \A i \in 1 .. m : Stream(0, m)[i] = (next + i - 1) % Numbers
  <2>1. next \in Nat /\ 0 \in Nat /\ m \in Nat /\ 0 <= m /\ m - 0 = m
    BY <1>1, <1>4, SendSizes
  <2>2. \A i \in 1 .. m : next + 0 + i - 1 = next + i - 1
    BY <2>1
  <2> HIDE DEF m
  <2> QED
    BY <2>1, <2>2, StreamRun
<1>6. buffer' = CopyIn(buffer, rear, Stream(0, m)) /\ rear' = rear /\ next' = next
      /\ front' = front /\ N' = N
  BY DEF EnqueueFirst
<1> HIDE DEF m
<1>7. /\ buffer' \in Buffers(N, Byte)
      /\ \A j \in 0 .. N - 1 : buffer'[j] =
           IF rear <= j /\ j < rear + m THEN Stream(0, m)[j - rear + 1] ELSE buffer[j]
  <2> DEFINE b == Stream(0, m)
  <2>0. /\ buffer \in Buffers(N, Byte) /\ N \in Nat
        /\ rear \in Nat /\ b \in Seq(Byte)
    BY <1>1, <1>5
  <2>1. rear \in Nat /\ b \in Seq(Byte) /\ Len(b) = m
    BY <1>1, <1>5
  <2> HIDE DEF b
  <2>2. /\ CopyIn(buffer, rear, b) \in Buffers(N, Byte)
        /\ \A j \in 0 .. N - 1 : CopyIn(buffer, rear, b)[j] = Copied(buffer, rear, b, j)
    BY <2>0, CapacityIsNat, CopyInAt
  <2> QED
    BY <1>6, <2>1, <2>2 DEF b, Copied
<1>8. \A i \in 1 .. m : buffer'[Advance(N, rear, i - 1)] = (next + i - 1) % Numbers
  <2> TAKE i \in 1 .. m
  <2>1. Advance(N, rear, i - 1) = rear + (i - 1)
    <3>1. i - 1 \in 0 .. N - 1 /\ rear + (i - 1) < N
      BY <1>1, <1>2, <1>4
    <3> QED
      BY <1>1, <3>1, AdvanceByCases
  <2>2. buffer'[rear + (i - 1)] = Stream(0, m)[i]
    BY <1>1, <1>4, <1>7
  <2> QED
    BY <1>5, <2>1, <2>2
<1>9. Ahead(FirstPart(N, rear, put.size))'
  <2>1. FirstPart(N, rear, put'.size) = m
    BY <1>1 DEF m, EnqueueFirst, BytesInv, IInv, SendTypes
  <2> QED
    BY <1>6, <1>8, <2>1 DEF Ahead
<1>10. ASSUME NEW k \in 0 .. Used
       PROVE  Contents(N, buffer', front, k) = Contents(N, buffer, front, k)
  <2>1. Used = IF rear >= front THEN rear - front ELSE N - (front - rear)
    BY DEF Used, UseSize
  <2>2. \A j \in 0 .. N - 1 :
          (IF front <= rear THEN front <= j /\ j < rear ELSE front <= j \/ j < rear)
            => buffer'[j] = buffer[j]
    BY <1>1, <1>2, <1>4, <1>7, <2>1
  <2>3. k \in 0 .. UseSize(N, rear, front)
    BY DEF Used
  <2> DEFINE new == buffer'
  <2>4. new \in Buffers(N, Byte) /\ N \in Nat
    BY <1>7
  <2>5. \A j \in 0 .. N - 1 :
          (IF front <= rear THEN front <= j /\ j < rear ELSE front <= j \/ j < rear)
            => new[j] = buffer[j]
    BY <2>2
  <2> HIDE DEF new
  <2>6. rear \in 0 .. N - 1 /\ front \in 0 .. N - 1 /\ buffer \in Buffers(N, Byte)
    BY <1>1
  <2>7. Contents(N, new, front, k) = Contents(N, buffer, front, k)
    BY CapacityIsNat, <2>3, <2>4, <2>5, <2>6, QueuedKept
  <2> QED
    BY <2>7 DEF new
<1> QED
  BY <1>7, <1>9, <1>10

\* The second memcpy completes the run from the start of the buffer and touches no
\* queued byte.
LEMMA SecondCopies ==
  ASSUME BytesInv, EnqueueSecond
  PROVE  /\ buffer' \in Buffers(N, Byte)
         /\ Ahead(put.size)'
         /\ \A k \in 0 .. Used :
              Contents(N, buffer', front, k) = Contents(N, buffer, front, k)
<1> DEFINE m == FirstPart(N, rear, put.size)
           rest == put.size - m
<1> USE CapacityIsNat DEF Indices
<1>1. /\ rear \in 0 .. N - 1 /\ front \in 0 .. N - 1
      /\ put.size \in Nat /\ put.rest \in Nat /\ put.size > 0
      /\ next \in 0 .. Numbers - 1 /\ buffer \in Buffers(N, Byte)
      /\ put.at = "second" /\ Wraps(N, rear, put.size) /\ Ahead(m)
  BY DEF BytesInv, IInv, SendTypes, DataTypes, CopiedAhead, EnqueueSecond
<1>2. put.size + Used <= N - 1 /\ Used \in 0 .. N - 1
  <2>1. Used \in 0 .. N - 1
    BY <1>1, UseAndFree DEF Used
  <2>2. put.size + put.rest + Used <= N - 1
    BY DEF BytesInv, IInv, AcceptedPacketFits
  <2> QED
    BY <1>1, <2>1, <2>2
<1>3. m = N - rear /\ rear + put.size > N
  <2>1. put.size \in 1 .. N - 1
    BY <1>1, <1>2
  <2> QED
    BY <1>1, <2>1, WrapByCases
<1>4. Used = IF rear >= front THEN rear - front ELSE N - (front - rear)
  BY DEF Used, UseSize
<1>5. rear >= front /\ rest \in 1 .. front - 1 /\ m \in 1 .. put.size
  BY <1>1, <1>2, <1>3, <1>4
<1> HIDE DEF m
<1>6. /\ Stream(m, put.size) \in Seq(Byte)
      /\ Len(Stream(m, put.size)) = rest
      /\ \A i \in 1 .. rest : Stream(m, put.size)[i] = (next + m + i - 1) % Numbers
  <2>1. next \in Nat /\ m \in Nat /\ m <= put.size
    BY <1>1, <1>5, SendSizes
  <2> QED
    BY <1>1, <2>1, StreamRun
<1>7. buffer' = CopyIn(buffer, 0, Stream(m, put.size)) /\ rear' = rear /\ next' = next
      /\ front' = front /\ put'.size = put.size
  BY DEF EnqueueSecond, BytesInv, IInv, SendTypes, m
<1>8. /\ buffer' \in Buffers(N, Byte)
      /\ \A j \in 0 .. N - 1 : buffer'[j] =
           IF j < rest THEN Stream(m, put.size)[j + 1] ELSE buffer[j]
  <2> DEFINE b == Stream(m, put.size)
  <2>0. /\ buffer \in Buffers(N, Byte) /\ 0 \in Nat /\ b \in Seq(Byte)
    BY <1>1, <1>6
  <2>1. Len(b) = rest
    BY <1>6
  <2> HIDE DEF b
  <2>2. /\ CopyIn(buffer, 0, b) \in Buffers(N, Byte)
        /\ \A j \in 0 .. N - 1 : CopyIn(buffer, 0, b)[j] = Copied(buffer, 0, b, j)
    BY <2>0, CapacityIsNat, CopyInAt
  <2>3. \A j \in 0 .. N - 1 :
          Copied(buffer, 0, b, j) = IF j < rest THEN b[j + 1] ELSE buffer[j]
    BY <1>5, <2>1 DEF Copied
  <2> QED
    BY <1>7, <2>2, <2>3 DEF b
<1>9. \A i \in 1 .. put.size : buffer'[Advance(N, rear, i - 1)] = (next + i - 1) % Numbers
  <2> TAKE i \in 1 .. put.size
  <2>1. i - 1 \in 0 .. N - 1
    BY <1>1, <1>2
  <2>2. Advance(N, rear, i - 1)
          = IF rear + (i - 1) < N THEN rear + (i - 1) ELSE rear + (i - 1) - N
    BY <1>1, <2>1, AdvanceByCases
  <2>3. CASE i <= m
    <3>1. i \in 1 .. m
      BY <1>1, <1>5, <2>3
    <3>2. Advance(N, rear, i - 1) = rear + (i - 1) /\ rear + (i - 1) \in rear .. N - 1
      BY <1>1, <1>3, <2>2, <3>1
    <3>3. buffer'[rear + (i - 1)] = buffer[rear + (i - 1)]
      BY <1>1, <1>5, <1>8, <3>2
    <3> QED
      BY <1>1, <3>1, <3>2, <3>3 DEF Ahead
  <2>4. CASE i > m
    <3>1. i - m \in 1 .. rest /\ m + (i - m) = i
      BY <1>1, <1>5, <2>4
    <3>2. Advance(N, rear, i - 1) = i - m - 1
      BY <1>1, <1>3, <2>2, <2>4
    <3>3. buffer'[i - m - 1] = Stream(m, put.size)[i - m]
      BY <1>1, <1>5, <1>8, <3>1
    <3>4. next + m + (i - m) - 1 = next + i - 1
      BY <1>1, <1>5
    <3> QED
      BY <1>6, <3>1, <3>2, <3>3, <3>4
  <2> QED
    BY <1>1, <1>5, <2>3, <2>4
<1>10. Ahead(put.size)'
  BY <1>7, <1>9 DEF Ahead
<1>11. ASSUME NEW k \in 0 .. Used
       PROVE  Contents(N, buffer', front, k) = Contents(N, buffer, front, k)
  <2>2. \A j \in 0 .. N - 1 :
          (IF front <= rear THEN front <= j /\ j < rear ELSE front <= j \/ j < rear)
            => buffer'[j] = buffer[j]
    BY <1>1, <1>5, <1>8
  <2>3. k \in 0 .. UseSize(N, rear, front)
    BY DEF Used
  <2> DEFINE new == buffer'
  <2>4. new \in Buffers(N, Byte) /\ N \in Nat
    BY <1>8
  <2>5. \A j \in 0 .. N - 1 :
          (IF front <= rear THEN front <= j /\ j < rear ELSE front <= j \/ j < rear)
            => new[j] = buffer[j]
    BY <2>2
  <2> HIDE DEF new
  <2>6. rear \in 0 .. N - 1 /\ front \in 0 .. N - 1 /\ buffer \in Buffers(N, Byte)
    BY <1>1
  <2>7. Contents(N, new, front, k) = Contents(N, buffer, front, k)
    BY CapacityIsNat, <2>3, <2>4, <2>5, <2>6, QueuedKept
  <2> QED
    BY <2>7 DEF new
<1> QED
  BY <1>8, <1>10, <1>11

\* The queue of the abstract stream.
Queued == Contents(N, buffer, front, Used)

\* The facts about types that the steps need.
LEMMA BytesTypes ==
  ASSUME BytesInv
  PROVE  /\ rear \in 0 .. N - 1 /\ front \in 0 .. N - 1
         /\ put = [at |-> put.at, size |-> put.size, rest |-> put.rest]
         /\ put.size \in Nat /\ put.rest \in Nat
         /\ send = [at |-> send.at, seen |-> send.seen, first |-> send.first,
                    second |-> send.second, data |-> send.data]
         /\ send.first \in 0 .. N - 1 /\ send.second \in 0 .. N - 1
         /\ send.seen \in 0 .. N - 1
         /\ buffer \in Buffers(N, Byte)
         /\ next \in Nat
         /\ Used \in 0 .. N - 1
         /\ Used + FreeSize(N, rear, front) = N - 1
         /\ put.size + put.rest + Used <= N - 1
<1>1. rear \in 0 .. N - 1 /\ front \in 0 .. N - 1
  BY DEF BytesInv, IInv, SendTypes, Indices
<1>2. Used \in 0 .. N - 1 /\ Used + FreeSize(N, rear, front) = N - 1
  BY <1>1, CapacityIsNat, UseAndFree DEF Used
<1> QED
  BY <1>1, <1>2, SendSizes
  DEF BytesInv, IInv, SendTypes, DataTypes, AcceptedPacketFits, Indices

\* A write that leaves the queued bytes alone disturbs neither the queue nor a
\* WSASend under way.
LEMMA WritesKeepReads ==
  ASSUME BytesInv, UNCHANGED <<rear, front, send>>,
         \A k \in 0 .. Used : Contents(N, buffer', front, k) = Contents(N, buffer, front, k)
  PROVE  ReadsOldest' /\ Queued' = Queued
<1>1. /\ send.first \in 0 .. N - 1 /\ send.second \in 0 .. N - 1 /\ Used \in 0 .. N - 1
  BY BytesTypes
<1>2. send.at = "done" => send.first + send.second \in 0 .. Used
  BY <1>1, CapacityIsNat DEF BytesInv, IInv, SendsOnlyPublished
<1>3. Used \in 0 .. Used /\ Used' = Used
  BY <1>1, CapacityIsNat DEF Used
<1>4. Queued' = Queued
  BY <1>3 DEF Queued
<1> QED
  BY <1>2, <1>4 DEF BytesInv, ReadsOldest

\* Every step of SendPacket is a Put of the stream or leaves it alone: the bytes
\* become visible when the rear is stored, all of one Enqueue at once.
LEMMA SendPacketStreams ==
  ASSUME BytesInv, SendPacketStep
  PROVE  /\ BytesInv'
         /\ \/ UNCHANGED <<Queued, next, sent>>
            \/ put.size \in 1 .. N - 1 /\ Promised!Put(put.size)
<1> USE CapacityIsNat DEF Indices
<1>inv. IInv'
  BY SendPacketKeeps DEF BytesInv
<1>types. /\ rear \in 0 .. N - 1 /\ front \in 0 .. N - 1
          /\ put = [at |-> put.at, size |-> put.size, rest |-> put.rest]
          /\ put.size \in Nat /\ put.rest \in Nat
          /\ buffer \in Buffers(N, Byte)
          /\ next \in Nat
          /\ Used \in 0 .. N - 1
          /\ Used + FreeSize(N, rear, front) = N - 1
          /\ put.size + put.rest + Used <= N - 1
  BY BytesTypes
<1>old. DataTypes /\ CopiedAhead /\ ReadsOldest
  BY DEF BytesInv
<1>1. ASSUME NEW len \in 1 .. N, AcceptPacket(len)
      PROVE  BytesInv' /\ UNCHANGED <<Queued, next, sent>>
  <2>1. UNCHANGED <<buffer, rear, front, send, next, sent>>
    BY <1>1 DEF AcceptPacket
  <2>2. CopiedAhead'
    BY <1>1, SendSizes DEF AcceptPacket, CopiedAhead
  <2>3. DataTypes' /\ ReadsOldest' /\ Queued' = Queued
    BY <1>old, <2>1 DEF DataTypes, ReadsOldest, Queued, Used
  <2> QED
    BY <1>inv, <2>1, <2>2, <2>3 DEF BytesInv
<1>2. CASE EnqueueStarts
  <2>1. FreeSize(N, rear, front) >= put.size
    BY <1>types, UseAndFree
  <2>2. /\ UNCHANGED <<buffer, rear, front, send, next, sent>>
        /\ put' = [put EXCEPT !.at = "first"] /\ put.at = "enqueue"
    BY <1>2, <2>1 DEF EnqueueStarts
  <2>3. CopiedAhead'
    BY <1>types, <1>old, <2>2 DEF CopiedAhead
  <2>4. DataTypes' /\ ReadsOldest' /\ Queued' = Queued
    BY <1>old, <2>2 DEF DataTypes, ReadsOldest, Queued, Used
  <2> QED
    BY <1>inv, <2>2, <2>3, <2>4 DEF BytesInv
<1>3. CASE EnqueueFirst
  <2>1. /\ buffer' \in Buffers(N, Byte)
        /\ Ahead(FirstPart(N, rear, put.size))'
        /\ \A k \in 0 .. Used :
             Contents(N, buffer', front, k) = Contents(N, buffer, front, k)
    BY <1>3, FirstCopies
  <2>2. /\ UNCHANGED <<rear, front, send, next, sent>> /\ put.at = "first"
        /\ put' = [at |-> IF Wraps(N, rear, put.size) THEN "second" ELSE "publish",
                   size |-> put.size, rest |-> put.rest]
    BY <1>3, <1>types DEF EnqueueFirst
  <2>3. ReadsOldest' /\ Queued' = Queued
    BY <2>1, <2>2, WritesKeepReads
  <2>4. DataTypes'
    BY <1>old, <2>1, <2>2 DEF DataTypes
  <2>5. CopiedAhead'
    <3>1. put'.size = put.size /\ put.size > 0 /\ rear' = rear
      BY <1>old, <2>2 DEF CopiedAhead
    <3>2. Wraps(N, rear', put'.size) <=> Wraps(N, rear, put.size)
      BY <3>1
    <3>3. ~Wraps(N, rear', put'.size) => Ahead(put.size)'
      <4>1. ~Wraps(N, rear', put'.size) => FirstPart(N, rear', put'.size) = put'.size
        BY DEF FirstPart
      <4> QED
        BY <2>1, <4>1 DEF Ahead
    <3> QED
      BY <2>1, <2>2, <3>1, <3>2, <3>3 DEF CopiedAhead
  <2> QED
    BY <1>inv, <2>2, <2>3, <2>4, <2>5 DEF BytesInv
<1>4. CASE EnqueueSecond
  <2>1. /\ buffer' \in Buffers(N, Byte)
        /\ Ahead(put.size)'
        /\ \A k \in 0 .. Used :
             Contents(N, buffer', front, k) = Contents(N, buffer, front, k)
    BY <1>4, SecondCopies
  <2>2. /\ UNCHANGED <<rear, front, send, next, sent>> /\ put.at = "second"
        /\ put' = [at |-> "publish", size |-> put.size, rest |-> put.rest]
    BY <1>4, <1>types DEF EnqueueSecond
  <2>3. ReadsOldest' /\ Queued' = Queued
    BY <2>1, <2>2, WritesKeepReads
  <2>4. DataTypes'
    BY <1>old, <2>1, <2>2 DEF DataTypes
  <2>5. CopiedAhead'
    BY <1>old, <2>1, <2>2 DEF CopiedAhead
  <2> QED
    BY <1>inv, <2>2, <2>3, <2>4, <2>5 DEF BytesInv
<1>5. CASE EnqueuePublishes
  <2>1. /\ rear' = Advance(N, rear, put.size) /\ next' = (next + put.size) % Numbers
        /\ put' = AfterEnqueue /\ UNCHANGED <<buffer, front, send, sent>>
        /\ put.at = "publish"
    BY <1>5 DEF EnqueuePublishes
  <2>2. put.size > 0 /\ Ahead(put.size)
    BY <1>old, <2>1 DEF CopiedAhead
  <2>3. put.size <= FreeSize(N, rear, front)
    BY <1>types, UseAndFree
  <2>4. rear' \in 0 .. N - 1 /\ Used' = Used + put.size
    BY <1>types, <2>1, <2>3, EnqueueAdds DEF Used
  <2>5. rear' # front'
    BY <1>types, <2>2, <2>4 DEF Used, UseSize
  <2>6. DataTypes'
    BY <1>old, <1>types, <2>1, ByteInRange DEF DataTypes
  <2>7. CopiedAhead'
    BY <1>types, <2>1 DEF CopiedAhead, AfterEnqueue, NoPut
  <2>8. ReadsOldest'
    BY <1>old, <2>1, <2>5 DEF ReadsOldest
  <2>9. Promised!Put(put.size)
    <3> DEFINE h == [i \in 1 .. put.size |-> (next + i - 1) % Numbers]
    <3>1. \A i \in 1 .. put.size : buffer[Advance(N, rear, i - 1)] = h[i]
      BY <2>2 DEF Ahead
    <3>2. h \in Seq(Byte) /\ Len(h) = put.size
      <4>1. \A i \in 1 .. put.size : (next + i - 1) % Numbers \in Byte
        <5> TAKE i \in 1 .. put.size
        <5>1. next + i - 1 \in Nat
          BY <1>types
        <5> QED
          BY <5>1, ByteInRange, SendSizes DEF Byte
      <4>2. h \in [1 .. put.size -> Byte]
        BY <4>1
      <4> HIDE DEF h
      <4> QED
        BY <1>types, <4>2
    <3> HIDE DEF h
    <3>3. Contents(N, buffer, front, UseSize(N, rear, front) + Len(h))
            = Contents(N, buffer, front, UseSize(N, rear, front))
                \o h
      <4>1. /\ N \in Nat /\ front \in 0 .. N - 1 /\ rear \in 0 .. N - 1
            /\ buffer \in Buffers(N, Byte)
        BY <1>types
      <4>2. LiesAt(N, buffer, rear, h)
        BY <3>1, <3>2 DEF LiesAt
      <4> QED
        BY <2>3, <3>2, <4>1, <4>2, ContentsGrow
    <3>4. Queued' = Queued \o h
      BY <2>1, <2>4, <3>2, <3>3 DEF Queued, Used
    <3>5. Len(Queued) = Used
      <4>1. /\ N \in Nat /\ front \in 0 .. N - 1 /\ Used \in 0 .. N - 1
            /\ buffer \in Buffers(N, Byte) /\ 0 \in 0 .. Used
        BY <1>types
      <4> QED
        BY <4>1, ContentsShrink DEF Queued
    <3>6. Len(Queued) + put.size <= N - 1
      BY <1>types, <3>5
    <3> QED
      BY <2>1, <3>4, <3>6 DEF Promised!Put, h, Queued
  <2>10. put.size \in 1 .. N - 1
    BY <1>types, <2>2
  <2> QED
    BY <1>inv, <2>6, <2>7, <2>8, <2>9, <2>10 DEF BytesInv
<1> QED
  BY <1>1, <1>2, <1>3, <1>4, <1>5 DEF SendPacketStep

\* Every step of the sender is a Take of the stream or leaves it alone: the
\* completion hands out exactly the bytes the front passes.
LEMMA SendStreams ==
  ASSUME BytesInv, SendStep
  PROVE  /\ BytesInv'
         /\ \/ UNCHANGED <<Queued, next, sent>>
            \/ \E k \in 1 .. N - 1 : Promised!Take(k)
<1> USE CapacityIsNat DEF Indices
<1>inv. IInv'
  BY SendKeeps DEF BytesInv
<1>types. /\ rear \in 0 .. N - 1 /\ front \in 0 .. N - 1
          /\ send = [at |-> send.at, seen |-> send.seen, first |-> send.first,
                     second |-> send.second, data |-> send.data]
          /\ send.first \in 0 .. N - 1 /\ send.second \in 0 .. N - 1
          /\ send.seen \in 0 .. N - 1
          /\ buffer \in Buffers(N, Byte)
          /\ Used \in 0 .. N - 1
  BY BytesTypes
<1>old. DataTypes /\ CopiedAhead /\ ReadsOldest
  BY DEF BytesInv
<1>loads. LoadsHold /\ SendsOnlyPublished
  BY DEF BytesInv, IInv
<1>1. ASSUME UNCHANGED <<buffer, rear, front, put, next, sent>>, ReadsOldest'
      PROVE  BytesInv' /\ UNCHANGED <<Queued, next, sent>>
  <2>1. DataTypes' /\ CopiedAhead' /\ Queued' = Queued
    BY <1>old, <1>1 DEF DataTypes, CopiedAhead, Ahead, Queued, Used
  <2> QED
    BY <1>inv, <1>1, <2>1 DEF BytesInv
<1>2. CASE SendLooks
  <2>1. ReadsOldest'
    BY <1>2, <1>types DEF SendLooks, ReadsOldest
  <2> QED
    BY <1>1, <1>2, <2>1 DEF SendLooks
<1>3. CASE SendFirst
  <2>1. /\ DirectDequeueSize(N, rear, front) > 0
        /\ front + DirectDequeueSize(N, rear, front) <= N
    BY <1>3, <1>old, <1>types, DirectSizes DEF SendFirst, ReadsOldest
  <2>2. send.second = 0
    BY <1>3, <1>loads DEF SendFirst, LoadsHold
  <2>3. ReadsOldest'
    BY <1>3, <1>old, <1>types, <2>1, <2>2 DEF SendFirst, ReadsOldest
  <2> QED
    BY <1>1, <1>3, <2>3 DEF SendFirst
<1>4. CASE SendSecond
  <2>1. send.first = N - front /\ send.first > 0
    BY <1>4, <1>loads, <1>types DEF SendSecond, LoadsHold
  <2>2. ReadsOldest'
    BY <1>4, <1>old, <1>types, <2>1 DEF SendSecond, ReadsOldest
  <2> QED
    BY <1>1, <1>4, <2>2 DEF SendSecond
<1>5. CASE NetworkReads
  <2> DEFINE k == send.first + send.second
  <2>1. /\ send.at = "reading" /\ send.first > 0
        /\ front + send.first <= N
        /\ send.second > 0 => front + send.first = N
        /\ k <= Used
    BY <1>5, <1>old, <1>loads DEF NetworkReads, ReadsOldest, SendsOnlyPublished
  <2>2. /\ k \in 0 .. N - 1 /\ send.first \in 0 .. k
        /\ send.first < k => front + send.first = N
        /\ k - send.first = send.second
    BY <1>types, <2>1
  <2>3. CopyOut(buffer, front, send.first) \o CopyOut(buffer, 0, k - send.first)
          = RunAt(N, buffer, front, k)
    <3> HIDE DEF k
    <3> QED
      BY <1>types, <2>1, <2>2, TwoCopies, ZenonT(60)
  <2>4. Contents(N, buffer, front, k) = RunAt(N, buffer, front, k)
    <3> HIDE DEF k
    <3> QED
      BY <1>types, <2>2, ContentsAt
  <2>5. /\ send' = [at |-> "done", seen |-> send.seen, first |-> send.first,
                    second |-> send.second, data |-> Contents(N, buffer, front, k)]
        /\ UNCHANGED <<buffer, rear, front, put, next, sent>>
    BY <1>5, <1>types, <2>2, <2>3, <2>4 DEF NetworkReads
  <2>6. ReadsOldest'
    BY <1>old, <2>1, <2>5 DEF ReadsOldest
  <2> QED
    BY <1>1, <2>5, <2>6
<1>6. CASE SendCompletes
  <2> DEFINE k == send.first + send.second
             left == Advance(N, front, k)
  <2>1. /\ send.at = "done" /\ send.first > 0 /\ k <= Used
        /\ send.data = Contents(N, buffer, front, k)
    BY <1>6, <1>old, <1>loads DEF SendCompletes, ReadsOldest, SendsOnlyPublished
  <2>2. k \in 1 .. N - 1 /\ k \in 0 .. Used
    BY <1>types, <2>1
  <2>3. /\ front' = left /\ UNCHANGED <<buffer, rear, put, next>>
        /\ send' = NoSend /\ sent' = Contents(N, buffer, front, k)
    <3>1. MovedFront(N, rear, front, k) = left
      BY <2>1, <2>2, <1>types DEF MovedFront, Used
    <3> QED
      BY <1>6, <2>1, <3>1 DEF SendCompletes
  <2>4. Used' = Used - k
    <3>1. MovedFront(N, rear, front, k) = left
      BY <2>1, <2>2, <1>types DEF MovedFront, Used
    <3>2. UseSize(N, rear, MovedFront(N, rear, front, k)) = UseSize(N, rear, front) - k
      <4>1. k \in Nat /\ k <= UseSize(N, rear, front)
        BY <2>1, <2>2 DEF Used
      <4> HIDE DEF k
      <4> QED
        BY <1>types, <4>1, DequeueTakes
    <3> QED
      BY <2>3, <3>1, <3>2 DEF Used
  <2> HIDE DEF k, left
  <2>5. /\ Len(Queued) = Used
        /\ SubSeq(Queued, 1, k) = Contents(N, buffer, front, k)
        /\ SubSeq(Queued, k + 1, Used) = Contents(N, buffer, left, Used - k)
    BY <1>types, <2>2, ContentsShrink, SMTT(30) DEF Queued, left
  <2>6. Queued' = SubSeq(Queued, k + 1, Len(Queued)) /\ sent' = SubSeq(Queued, 1, k)
    BY <2>3, <2>4, <2>5 DEF Queued
  <2>7. Promised!Take(k)
    BY <2>1, <2>3, <2>5, <2>6 DEF Promised!Take, Queued
  <2>8. DataTypes' /\ CopiedAhead' /\ ReadsOldest'
    BY <1>old, <2>3 DEF DataTypes, CopiedAhead, Ahead, ReadsOldest, NoSend
  <2> QED
    BY <1>inv, <2>2, <2>7, <2>8 DEF BytesInv
<1> QED
  BY <1>2, <1>3, <1>4, <1>5, <1>6 DEF SendStep

\* A step that changes no variable changes no byte.
LEMMA BytesStutter ==
  ASSUME BytesInv, UNCHANGED vars
  PROVE  BytesInv' /\ UNCHANGED <<Queued, next, sent>>
<1>1. IInv'
  BY SendStutters DEF BytesInv
<1>2. DataTypes' /\ CopiedAhead' /\ ReadsOldest'
  BY DEF BytesInv, vars, DataTypes, CopiedAhead, Ahead, ReadsOldest
<1> QED
  BY <1>1, <1>2 DEF BytesInv, vars, Queued, Used

\* BytesInv holds in every state of the ring.
THEOREM BytesInvariance == Spec => []BytesInv
<1>1. BytesInv /\ [Next]_vars => BytesInv'
  BY SendPacketStreams, SendStreams, BytesStutter DEF Next
<1> QED
  BY <1>1, BytesInit, PTL DEF Spec

\* The indices stay inside the buffer, whatever sizes are enqueued and sent.
THEOREM SendRingTypes == Spec => []TypeOK
<1>1. BytesInv => TypeOK
  BY SendSizes
  DEF BytesInv, IInv, SendTypes, DataTypes, Buffers, Byte, Indices, TypeOK
<1> QED
  BY <1>1, BytesInvariance, PTL

\* The peer gets every byte of every accepted packet once and in order, for every
\* ring size and every interleaving of SendPacket with the send under way: the
\* ring of AsyncNetworkServerEngine.cpp:706-714 and 812-858 implements ByteStream.
THEOREM SendRingIsStream == Spec => IsByteStream
<1>1. Init => Promised!Init
  <2> SUFFICES ASSUME Init PROVE Promised!Init
    OBVIOUS
  <2>1. Used = 0
    BY DEF Init, Used, UseSize
  <2> QED
    BY <2>1 DEF Init, Promised!Init, Contents
<1>2. ASSUME BytesInv, [Next]_vars
      PROVE  [Promised!Next]_<<Queued, next, sent>>
  <2>1. CASE SendPacketStep
    BY <1>2, <2>1, SendPacketStreams DEF Promised!Next
  <2>2. CASE SendStep
    BY <1>2, <2>2, SendStreams DEF Promised!Next
  <2>3. CASE UNCHANGED vars
    BY <1>2, <2>3, BytesStutter
  <2> QED
    BY <1>2, <2>1, <2>2, <2>3 DEF Next
<1>3. BytesInv /\ [Next]_vars
        => [Promised!Next]_<<Contents(N, buffer, front, Used), next, sent>>
  BY <1>2 DEF Queued
<1> QED
  BY <1>1, <1>3, BytesInvariance, PTL DEF Spec, IsByteStream, Promised!Spec
=============================================================================
