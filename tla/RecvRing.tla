------------------------------ MODULE RecvRing ------------------------------
(***************************************************************************)
(* The receive ring of a session: PostRecv hands the free space of the     *)
(* ring to WSARecv, and the worker that gets the completion moves the rear *)
(* and gives OnRecv every packet that is complete.  The network cuts the   *)
(* peer's stream anywhere: inside a header, or across the end of the       *)
(* internal buffer.                                                        *)
(*                                                                         *)
(* One receive of a session is pending or handled at a time (SessionEngine *)
(* shows it), so each call is one step here.  A byte is a record that says *)
(* which byte of which packet it is.  A WSARecv that fails and the end of  *)
(* the connection are SessionEngine's.                                     *)
(*                                                                         *)
(* The ring takes packets that recvPacket does not.  Dequeue writes such a *)
(* payload past the end of its buffer on the heap, OnRecv gets nothing,    *)
(* and what comes of it is undefined: the model ends with that OnRecv.     *)
(***************************************************************************)
EXTENDS RingBuffer

CONSTANTS
  Size,      \* sessionRecvBufferSize
  Header,    \* sizeof(NET_PACKET_HEADER)
  MaxLen,    \* the longest payload a peer sends
  Capacity,  \* of recvPacket: eCapacity::DEFAULT
  Packets,   \* bound: packets are numbered modulo Packets
  WireMax    \* bound: bytes on their way from the peer

N == CapacityOf(Size)

ASSUME RecvSizes ==
  /\ {Header, MaxLen, Packets} \subseteq Nat \ {0}
  /\ {Size, Capacity, WireMax} \subseteq Nat
  /\ Header + MaxLen <= Size

VARIABLES
  buffer,      \* __internalBuffer
  rear, front, \* __queueRearIndex, __queueFrontIndex
  recv,        \* the receive: where it is, its two buffers, bytes transferred
  wire,        \* bytes the peer sent and no receive has taken
  owed,        \* packets the peer sent and OnRecv has not got
  next,        \* number of the peer's next packet
  given        \* the last OnRecv: the bytes it got, the packet it was owed

vars == <<buffer, rear, front, recv, wire, owed, next, given>>

Byte(p, i) == [packet |-> p.number, at |-> i, len |-> p.len]
Frame(p) == [i \in 1 .. Header + p.len |-> Byte(p, i)]
Payload(p) == SubSeq(Frame(p), Header + 1, Header + p.len)

NoByte == [packet |-> Packets, at |-> 0, len |-> 0]
NoPacket == [number |-> 0, len |-> 0]

\* Mutant: the second buffer is as long as all of the free space.
PostTooMuch(r, f) ==
  [at |-> "posted", first |-> DirectEnqueueSize(N, r, f),
   second |-> IF r >= f THEN FreeSize(N, r, f) ELSE 0, transferred |-> 0]

\* PostRecv: the two buffers of WSARecv.
Post(r, f) ==
  LET first == DirectEnqueueSize(N, r, f) IN
  [at |-> "posted", first |-> first, second |-> FreeSize(N, r, f) - first,
   transferred |-> 0]

Init ==
  /\ buffer = [i \in 0 .. N - 1 |-> NoByte]
  /\ rear = 0 /\ front = 0
  /\ recv = Post(0, 0)
  /\ wire = <<>> /\ owed = <<>>
  /\ next = 0
  /\ given = [bytes |-> <<>>, packet |-> NoPacket]

-----------------------------------------------------------------------------
\* The peer sends a packet (external).
PeerSends(len) ==
  LET p == [number |-> next, len |-> len] IN
  /\ Len(wire) + Header + len <= WireMax
  /\ wire' = wire \o Frame(p)
  /\ owed' = Append(owed, p)
  /\ next' = (next + 1) % Packets
  /\ UNCHANGED <<buffer, rear, front, recv, given>>

\* The network fills the buffers of the receive in order (external).
NetworkWrites(k) ==
  LET first == IF k < recv.first THEN k ELSE recv.first IN
  /\ recv.at = "posted"
  /\ k <= Len(wire) /\ k <= recv.first + recv.second
  /\ buffer' = CopyIn(CopyIn(buffer, rear, SubSeq(wire, 1, first)),
                      0, SubSeq(wire, first + 1, k))
  /\ wire' = SubSeq(wire, k + 1, Len(wire))
  /\ recv' = [recv EXCEPT !.at = "completed", !.transferred = k]
  /\ UNCHANGED <<rear, front, owed, next, given>>

\* The completion: MoveRear by the bytes transferred.
RecvCompletes ==
  /\ recv.at = "completed"
  /\ rear' = MovedRear(N, rear, front, recv.transferred)
  /\ recv' = [recv EXCEPT !.at = "parsing"]
  /\ UNCHANGED <<buffer, front, wire, owed, next, given>>

-----------------------------------------------------------------------------
\* The loop of IOCPWorkerThread over the packets in the ring.

Used == UseSize(N, rear, front)

\* Peek of the header: the length it announces.
PeekedLen == Peeked(N, buffer, rear, front, Header)[1].len

\* Mutant: a packet is complete as soon as its header is.
HasHeader == Used > Header

\* Mutant: a packet is complete when more than the packet has arrived.
HasMore == Used > Header /\ Used > Header + PeekedLen

HasPacket == Used > Header /\ Used >= Header + PeekedLen

\* MoveFront over the header, Dequeue of the payload to the rear of recvPacket
\* without a look at its size, MoveRear, which refuses what does not fit, OnRecv.
ParsePacket ==
  LET len  == PeekedLen
      body == MovedFront(N, rear, front, Header)
  IN
  /\ recv.at = "parsing"
  /\ HasPacket
  /\ front' = MovedFront(N, rear, body, len)
  /\ given' = [bytes |-> IF len <= Capacity THEN Peeked(N, buffer, rear, body, len)
                        ELSE <<>>,
               packet |-> Head(owed)]
  /\ owed' = Tail(owed)
  /\ UNCHANGED <<buffer, rear, recv, wire, next>>

\* The next receive: PostRecv.
ParseEnds ==
  /\ recv.at = "parsing"
  /\ ~HasPacket
  /\ recv' = Post(rear, front)
  /\ UNCHANGED <<buffer, rear, front, wire, owed, next, given>>

\* No payload was written past the end of recvPacket.
HeapIntact == given.packet.len <= Capacity

Next ==
  /\ HeapIntact
  /\ \/ \E len \in 0 .. MaxLen : PeerSends(len)
     \/ \E k \in 1 .. N : NetworkWrites(k)
     \/ RecvCompletes \/ ParsePacket \/ ParseEnds

Spec == Init /\ [][Next]_vars

-----------------------------------------------------------------------------
\* Properties.

\* Bytes in the ring before they are counted in the rear.
Arrived ==
  IF recv.at = "completed" THEN Used + recv.transferred ELSE Used

InRing == Contents(N, buffer, front, Arrived)

\* Where each packet of ps ends when they are sent one after the other.
EndsOf(ps) ==
  LET end[i \in 0 .. Len(ps)] ==
        IF i = 0 THEN 0 ELSE end[i - 1] + Header + ps[i].len
  IN end

IsStreamOf(bytes, ps) ==
  /\ Len(bytes) = EndsOf(ps)[Len(ps)]
  /\ \A i \in DOMAIN ps :
       SubSeq(bytes, EndsOf(ps)[i - 1] + 1, EndsOf(ps)[i]) = Frame(ps[i])

\* Ring and network together hold exactly the packets OnRecv is still owed:
\* no byte is lost, doubled or overwritten by a later receive.
StreamIntact == IsStreamOf(InRing \o wire, owed)

\* OnRecv gets the packets the peer sent in order, however the network cut the
\* stream and wherever the ring wraps: whole if recvPacket holds the payload,
\* and without a byte of it if not.
WholePacketsInOrder ==
  given.bytes = IF HeapIntact THEN Payload(given.packet) ELSE <<>>

\* A receive is posted only when OnRecv got every packet that had arrived.
\* The code holds back one thing: a packet without payload that is last.
NothingHeldBack ==
  recv.at = "posted" /\ owed # <<>> =>
    \/ Used < Header + Head(owed).len
    \/ Used = Header /\ Head(owed).len = 0

\* A receive always has room for a byte: WSARecv with nothing to fill would
\* complete with 0 bytes and be taken for the end of the connection.
RoomToReceive == recv.at = "posted" => recv.first > 0
=============================================================================
