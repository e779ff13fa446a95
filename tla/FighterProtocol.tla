--------------------------- MODULE FighterProtocol ---------------------------
(***************************************************************************)
(* The packets of the game twice: as the protocol header lays them out for *)
(* the client, and as the functions MakePacket... write them.  A value is  *)
(* known by the name of what it is of; byte k of it is <<name, k>>.        *)
(***************************************************************************)
EXTENDS Naturals, Sequences, SequencesExt

Bytes(value, width) == [k \in 1 .. width |-> <<value, k>>]

\* sizeof of the C types.
BYTE == 1
WORD == 2
DWORD == 4

\* The word in front of each packet that says which it is.
Code(type) == Bytes(<<type, "type">>, WORD)

-----------------------------------------------------------------------------
\* The fields the header gives each packet, with their bytes.
Placement == <<<<"Direction", 1>>, <<"X", 2>>, <<"Y", 2>>>>
Named(fields) == <<<<"ID", 4>>>> \o fields

ClientTypes == {"CS_MOVE_START", "CS_MOVE_STOP", "CS_ATTACK1", "CS_ATTACK2",
                "CS_ATTACK3", "CS_ECHO"}

Layout(type) ==
  CASE type \in {"SC_CREATE_MY_CHARACTER", "SC_CREATE_OTHER_CHARACTER"} ->
         Named(Append(Placement, <<"HP", 1>>))
    [] type \in {"SC_MOVE_START", "SC_MOVE_STOP", "SC_ATTACK1", "SC_ATTACK2",
                 "SC_ATTACK3"} -> Named(Placement)
    [] type = "SC_DELETE_CHARACTER" -> Named(<<>>)
    [] type = "SC_SYNC" -> Named(<<<<"X", 2>>, <<"Y", 2>>>>)
    [] type = "SC_DAMAGE" ->
         <<<<"AttackID", 4>>, <<"DamageID", 4>>, <<"DamageHP", 1>>>>
    [] type \in {"SC_ECHO", "CS_ECHO"} -> <<<<"Time", 4>>>>
    [] OTHER -> Placement   \* the other packets of a client

\* A packet of a type as its reader expects it: of[f] is the value whose
\* field f it is.
Wire(type, of) ==
  Code(type) \o FlattenSeq([i \in DOMAIN Layout(type) |->
    Bytes(of[Layout(type)[i][1]], Layout(type)[i][2])])

-----------------------------------------------------------------------------
\* The operands of << in each builder, in order; a parameter is the bytes of
\* the variable it was called with.

MakePacketEcho(time) == <<Code("SC_ECHO"), time>>

MakePacketSyncXYPos(id, x, y) == <<Code("SC_SYNC"), id, x, y>>

MakePacketDeleteCharacter(id) == <<Code("SC_DELETE_CHARACTER"), id>>

\* MoveStart, MoveStop and Attack1 to Attack3 differ in their code only.
MakePacketAction(type, id, dir, x, y) == <<Code(type), id, dir, x, y>>

MakePacketDamage(attacker, damaged, hp) ==
  <<Code("SC_DAMAGE"), attacker, damaged, hp>>

\* The members of CharacterInfo that packets show.
Member(c) ==
  [characterID |-> Bytes(<<"id", c>>, DWORD), xPos |-> Bytes(<<"x", c>>, WORD),
   yPos |-> Bytes(<<"y", c>>, WORD), stop2Dir |-> Bytes(<<"stop2Dir", c>>, BYTE),
   move8Dir |-> Bytes(<<"move8Dir", c>>, BYTE), hp |-> Bytes(<<"hp", c>>, BYTE)]

MakePacketCreate(type, c) ==
  <<Code(type), Member(c).characterID, Member(c).stop2Dir, Member(c).xPos,
    Member(c).yPos, Member(c).hp>>

MakePacketMoveStart(c) ==
  MakePacketAction("SC_MOVE_START", Member(c).characterID, Member(c).move8Dir,
                   Member(c).xPos, Member(c).yPos)
=============================================================================
