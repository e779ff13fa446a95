---------------------------- MODULE PacketBuffers ----------------------------
(***************************************************************************)
(* The serialization buffers of a thread of the server: recvPacket, which  *)
(* a worker uses for every packet of every session, and the one or two     *)
(* buffers a handler builds its packets in and reuses between sends.       *)
(*                                                                         *)
(* A handler is the list of what it does to its buffers, one call a step;  *)
(* which calls they are depends on the packet it reads and on what it      *)
(* finds.  Buffers are local to their thread, so one thread is enough;     *)
(* whom a packet goes to and what the values are is FighterWorld's.        *)
(***************************************************************************)
EXTENDS FighterProtocol, TLC

CONSTANTS
  Capacity,    \* of the buffers, eCapacity::DEFAULT in the code
  Me, Others,  \* the character a handler is about, the others it meets
  Unknown,     \* a packet type no handler has
  MaxMet       \* bound: others met in one round of a handler

\* What a cell holds before it is written, and a variable before it is read.
NoByte == <<<<"nothing", "nothing">>, 0>>
Unset == <<>>

Buffer == INSTANCE SerializationBuffer

\* A buffer holds the largest packet, SC_CREATE_MY_CHARACTER.
ASSUME PacketAssumption ==
  /\ Me \notin Others /\ Unknown \notin ClientTypes /\ MaxMet \in Nat
  /\ Capacity \in Nat /\ Capacity >= 12

VARIABLES
  recvPacket,  \* the worker's buffer for received packets
  local,       \* the buffers of the handler: packetBuf, packetBuf2
  packet,      \* the client's packet that is being handled
  got,         \* the variables the handler read from it
  todo,        \* the calls the handler has still to make
  sent         \* the last SendPacket: its bytes, and the packet it means

vars == <<recvPacket, local, packet, got, todo, sent>>

-----------------------------------------------------------------------------
\* The packets of a client; two numbers tell a packet from the one before.

Written(p) ==
  [f \in {"Direction", "X", "Y", "Time"} |-> <<f, ToString(p.number)>>]

Payload(p) ==
  IF p.type = Unknown THEN Code(Unknown) \o Bytes(Written(p)["X"], WORD)
  ELSE Wire(p.type, Written(p))

Unread == [Direction |-> Unset, X |-> Unset, Y |-> Unset, Time |-> Unset]

Init ==
  /\ recvPacket = Buffer!Constructed
  /\ local = [i \in 1 .. 2 |-> Buffer!Constructed]
  /\ packet = [type |-> Unknown, number |-> 1]
  /\ got = Unread
  /\ todo = <<>>
  /\ sent = [bytes |-> Unset, type |-> "none", of |-> Unset]

-----------------------------------------------------------------------------
\* The calls handlers make, and the packets they mean by them.

Make(i, puts) == [call |-> "make", buf |-> i, puts |-> puts]
Convert(i) == [call |-> "convert", buf |-> i]
Clear(i) == [call |-> "clear", buf |-> i]
Send(i, type, of) == [call |-> "send", buf |-> i, type |-> type, of |-> of]
Dispatch == [call |-> "dispatch", buf |-> 0]

About(c, dir) ==
  [ID |-> <<"id", c>>, Direction |-> <<dir, c>>, X |-> <<"x", c>>,
   Y |-> <<"y", c>>, HP |-> <<"hp", c>>]

\* OnAccept: the packet for the new client, turned into the one for the
\* others (SendPacketByAcceptEvent gets it as myCharacInfoPacket).
Greet(o) ==
  <<Make(2, MakePacketCreate("SC_CREATE_OTHER_CHARACTER", o.who)),
    Send(2, "SC_CREATE_OTHER_CHARACTER", About(o.who, "stop2Dir")), Clear(2)>>
  \o IF ~o.moving THEN <<>>
     ELSE <<Make(2, MakePacketMoveStart(o.who)),
            Send(2, "SC_MOVE_START", About(o.who, "move8Dir")), Clear(2)>>

OnAccept(met) ==
  <<Make(1, MakePacketCreate("SC_CREATE_MY_CHARACTER", Me)),
    Send(1, "SC_CREATE_MY_CHARACTER", About(Me, "stop2Dir")), Convert(1),
    Send(1, "SC_CREATE_OTHER_CHARACTER", About(Me, "stop2Dir"))>>
  \o FlattenSeq([i \in DOMAIN met |-> Greet(met[i])])

OnRelease ==
  <<Make(1, MakePacketDeleteCharacter(Member(Me).characterID)),
    Send(1, "SC_DELETE_CHARACTER", About(Me, "stop2Dir"))>>

\* SendPacketBySectorUpdate: DELETE both ways, then CREATE and MOVE_START
\* both ways; packetBuf carries two kinds of packet.
Leave(o) ==
  <<Clear(1), Make(1, MakePacketDeleteCharacter(Member(o.who).characterID)),
    Send(1, "SC_DELETE_CHARACTER", About(o.who, "stop2Dir"))>>

Meet(o) ==
  <<Clear(1), Make(1, MakePacketCreate("SC_CREATE_OTHER_CHARACTER", o.who)),
    Send(1, "SC_CREATE_OTHER_CHARACTER", About(o.who, "stop2Dir"))>>
  \o IF ~o.moving THEN <<>>
     ELSE <<Clear(2), Make(2, MakePacketMoveStart(o.who)),
            Send(2, "SC_MOVE_START", About(o.who, "move8Dir"))>>

SendPacketBySectorUpdate(left, met) ==
  OnRelease
  \o FlattenSeq([i \in DOMAIN left |-> Leave(left[i])])
  \o <<Clear(1), Make(1, MakePacketCreate("SC_CREATE_OTHER_CHARACTER", Me)),
       Make(2, MakePacketMoveStart(Me)),
       Send(1, "SC_CREATE_OTHER_CHARACTER", About(Me, "stop2Dir")),
       Send(2, "SC_MOVE_START", About(Me, "move8Dir"))>>
  \o FlattenSeq([i \in DOMAIN met |-> Meet(met[i])])

-----------------------------------------------------------------------------
\* The handlers of the packets: read are the variables, p the packet meant.

\* The position is out of dfERROR_RANGE: SYNC, and the server's position
\* instead of the client's from there on.
Corrected(far) ==
  IF ~far THEN <<>>
  ELSE <<Make(1, MakePacketSyncXYPos(Member(Me).characterID, Member(Me).xPos,
                                     Member(Me).yPos)),
         Send(1, "SC_SYNC", About(Me, "stop2Dir")), Clear(1)>>

Answer == [CS_MOVE_START |-> "SC_MOVE_START", CS_MOVE_STOP |-> "SC_MOVE_STOP",
           CS_ATTACK1 |-> "SC_ATTACK1", CS_ATTACK2 |-> "SC_ATTACK2",
           CS_ATTACK3 |-> "SC_ATTACK3"]

\* ProcessPacketMoveStart, MoveStop and Attack1 to Attack3.
Acts(type, read, p, far) ==
  LET x  == IF far THEN Member(Me).xPos ELSE read.X
      y  == IF far THEN Member(Me).yPos ELSE read.Y
      of == [ID |-> <<"id", Me>>, Direction |-> Written(p)["Direction"],
             X |-> IF far THEN <<"x", Me>> ELSE Written(p)["X"],
             Y |-> IF far THEN <<"y", Me>> ELSE Written(p)["Y"]]
  IN Corrected(far) \o
     <<Make(1, MakePacketAction(Answer[type], Member(Me).characterID,
                                read.Direction, x, y)),
       Send(1, Answer[type], of)>>

\* Mutant: the buffer is not cleared before DAMAGE.
HitsUncleared(damaged) ==
  <<Make(1, MakePacketDamage(Member(Me).characterID,
                             Member(damaged).characterID, Member(damaged).hp)),
    Send(1, "SC_DAMAGE", [AttackID |-> <<"id", Me>>, DamageID |-> <<"id", damaged>>,
                          DamageHP |-> <<"hp", damaged>>])>>

\* The second half of an attack that hit somebody.
Hits(damaged) ==
  <<Clear(1),
    Make(1, MakePacketDamage(Member(Me).characterID,
                             Member(damaged).characterID, Member(damaged).hp)),
    Send(1, "SC_DAMAGE", [AttackID |-> <<"id", Me>>, DamageID |-> <<"id", damaged>>,
                          DamageHP |-> <<"hp", damaged>>])>>

ProcessPacketEcho(read, p) ==
  <<Make(1, MakePacketEcho(read.Time)),
    Send(1, "SC_ECHO", [Time |-> Written(p)["Time"]])>>

\* What the handler of a type does, for what it finds.
Handlers(type, read, p) ==
  CASE type = "CS_ECHO" -> {ProcessPacketEcho(read, p)}
    [] type \in {"CS_MOVE_START", "CS_MOVE_STOP"} ->
         {Acts(type, read, p, far) : far \in BOOLEAN}
    [] OTHER -> {Acts(type, read, p, far) \o hit :
                   far \in BOOLEAN, hit \in {<<>>} \cup {Hits(o) : o \in Others}}

-----------------------------------------------------------------------------
\* The actions.

\* A handler starts with buffers of its own.
Starts(calls) ==
  /\ todo' = calls
  /\ local' = [i \in 1 .. 2 |-> Buffer!Constructed]

Meetings ==
  UNION {[1 .. k -> [who : Others, moving : BOOLEAN]] : k \in 0 .. MaxMet}

\* OnAccept, OnRelease or a frame's sector update (external: when, and whom
\* it meets).
ServerEvent ==
  /\ todo = <<>>
  /\ \/ \E met \in Meetings : Starts(OnAccept(met))
     \/ Starts(OnRelease)
     \/ \E left, met \in Meetings : Starts(SendPacketBySectorUpdate(left, met))
  /\ UNCHANGED <<recvPacket, packet, got, sent>>

\* Mutant: recvPacket still holds what the last handler did not read.
ReceivesUncleared(type) ==
  LET p == [type |-> type, number |-> 3 - packet.number] IN
  /\ todo = <<>>
  /\ recvPacket' = Buffer!MovedRear(
       Buffer!WrittenBehindRear(recvPacket, Payload(p)), Len(Payload(p)))
  /\ packet' = p
  /\ got' = Unread
  /\ todo' = <<Dispatch>>
  /\ UNCHANGED <<local, sent>>

\* The worker takes a packet out of a receive ring: ClearBuffer, Dequeue to
\* the rear, MoveRear.
Receives(type) ==
  LET p == [type |-> type, number |-> 3 - packet.number] IN
  /\ todo = <<>>
  /\ recvPacket' = Buffer!MovedRear(
       Buffer!WrittenBehindRear(Buffer!ClearBuffer(recvPacket), Payload(p)),
       Len(Payload(p)))
  /\ packet' = p
  /\ got' = Unread
  /\ todo' = <<Dispatch>>
  /\ UNCHANGED <<local, sent>>

\* DispatchPacketToContents of a packet no handler has: the rest of it stays.
Ignores ==
  LET type == Buffer!Got(recvPacket, WORD, Unset) IN
  /\ todo = <<Dispatch>>
  /\ \A t \in ClientTypes : type # Code(t)
  /\ recvPacket' = Buffer!MovedFront(recvPacket, WORD)
  /\ todo' = <<>>
  /\ UNCHANGED <<local, packet, got, sent>>

\* DispatchPacketToContents, and the handler's reads.
ReadsEcho ==
  LET b == Buffer!MovedFront(recvPacket, WORD) IN
  /\ todo = <<Dispatch>>
  /\ Buffer!Got(recvPacket, WORD, Unset) = Code("CS_ECHO")
  /\ got' = [Unread EXCEPT !.Time = Buffer!Got(b, DWORD, Unset)]
  /\ recvPacket' = Buffer!MovedFront(b, DWORD)
  /\ \E calls \in Handlers("CS_ECHO", got', packet) : Starts(calls)
  /\ UNCHANGED <<packet, sent>>

ReadsAction(type) ==
  LET b == Buffer!MovedFront(recvPacket, WORD)
      c == Buffer!MovedFront(b, BYTE)
      d == Buffer!MovedFront(c, WORD)
  IN
  /\ todo = <<Dispatch>>
  /\ Buffer!Got(recvPacket, WORD, Unset) = Code(type)
  /\ got' = [Unread EXCEPT !.Direction = Buffer!Got(b, BYTE, Unset),
               !.X = Buffer!Got(c, WORD, Unset), !.Y = Buffer!Got(d, WORD, Unset)]
  /\ recvPacket' = Buffer!MovedFront(d, WORD)
  /\ \E calls \in Handlers(type, got', packet) : Starts(calls)
  /\ UNCHANGED <<packet, sent>>

\* The handler's next call.
Calls(call) == todo # <<>> /\ Head(todo).call = call /\ todo' = Tail(todo)

Rewrites(b) ==
  /\ local' = [local EXCEPT ![Head(todo).buf] = b]
  /\ UNCHANGED <<recvPacket, packet, got, sent>>

\* The << of a builder, one after the other.
PutAll(b, puts) ==
  LET after[k \in 0 .. Len(puts)] ==
        IF k = 0 THEN b ELSE Buffer!Put(after[k - 1], puts[k])
  IN after[Len(puts)]

Builds ==
  /\ Calls("make")
  /\ Rewrites(PutAll(local[Head(todo).buf], Head(todo).puts))

\* ConvertPacketCreateMyCharaterToCreateOtherCharacter.
Converts ==
  /\ Calls("convert")
  /\ Rewrites(Buffer!OverwrittenAtFront(local[Head(todo).buf],
                                        Code("SC_CREATE_OTHER_CHARACTER")))

Clears ==
  /\ Calls("clear")
  /\ Rewrites(Buffer!ClearBuffer(local[Head(todo).buf]))

\* SendPacket copies what is queued and leaves the buffer as it is.
Sends ==
  /\ Calls("send")
  /\ sent' = [bytes |-> Buffer!Queued(local[Head(todo).buf]),
              type |-> Head(todo).type, of |-> Head(todo).of]
  /\ UNCHANGED <<recvPacket, local, packet, got>>

Next ==
  \/ ServerEvent
  \/ \E type \in ClientTypes \cup {Unknown} : Receives(type)
  \/ Ignores \/ ReadsEcho
  \/ \E type \in ClientTypes \ {"CS_ECHO"} : ReadsAction(type)
  \/ Builds \/ Converts \/ Clears \/ Sends

Spec == Init /\ [][Next]_vars

-----------------------------------------------------------------------------
\* Properties.

\* Whatever a handler built and sent in a buffer before, SendPacket gets one
\* packet, laid out as the protocol header says, with the values it is meant
\* to carry: nothing of an earlier packet is left in front, no field is
\* dropped by a full buffer, and the direction, position and time are those
\* the client wrote unless the server corrected them.
SentAsLaidOut ==
  sent.type # "none" => sent.bytes = Wire(sent.type, sent.of)

\* A handler's variables are the fields of the packet it was called for,
\* although recvPacket served packets before it that were read in part only.
ReadsOwnPacket ==
  packet.type \in ClientTypes /\ todo # <<Dispatch>> =>
    \A i \in DOMAIN Layout(packet.type) :
      LET f == Layout(packet.type)[i][1] IN
      got[f] = Bytes(Written(packet)[f], Layout(packet.type)[i][2])
=============================================================================
