---------------------------- MODULE FighterViews ----------------------------
(***************************************************************************)
(* What each client is told of the other characters, when no two handlers  *)
(* of the game server overlap: each callback and each character's part of  *)
(* a frame is one step.  This is the promise of the sector scheme; how the *)
(* locks keep it when handlers do overlap is not this module's.            *)
(*                                                                         *)
(* A view is a function from the characters a client shows to their        *)
(* action: the direction the client moves them in, or NoAction.  Facing,   *)
(* attacks, hp and the positions inside a view are left out, and every     *)
(* SendPacket succeeds.                                                    *)
(*                                                                         *)
(* A frame can leave a character on a sector of negative coordinates.  The *)
(* lists and locks are then indexed outside their arrays; what comes of it *)
(* is undefined, and the model ends with that frame.                       *)
(***************************************************************************)
EXTENDS SectorGrid

CONSTANTS
  Characters,          \* the characters, and the clients they belong to
  Dirs,                \* directions clients use, a subset of 0 .. 7
  SpeedX, SpeedY,      \* dfSPEED_PLAYER_X, dfSPEED_PLAYER_Y
  ErrorRange,          \* dfERROR_RANGE
  ClientX, ClientY     \* bound: the positions clients report

ASSUME ViewSizes ==
  /\ Dirs \subseteq 0 .. 7
  /\ {SpeedX, SpeedY, ErrorRange} \subseteq Nat
  /\ ClientX \subseteq Words /\ ClientY \subseteq Words

VARIABLES
  mCharacterList,   \* the characters in the container
  info,             \* their CharacterInfo: position, action, curPos, oldPos
  mSectorList,      \* the characters on each sector
  view              \* what each client shows of the others

vars == <<mCharacterList, info, mSectorList, view>>

NoAction == -1    \* INVALID_ACTION

NewInfo(x, y) ==
  LET s == ConvertWorldPosToSectorPos(x, y) IN
  [x |-> x, y |-> y, action |-> NoAction, cur |-> s, old |-> s]

Init ==
  /\ mCharacterList = {}
  /\ info = [c \in Characters |-> NewInfo(0, 0)]
  /\ mSectorList = [s \in Sectors |-> {}]
  /\ view = [c \in Characters |-> <<>>]

\* A view after DELETE of the characters in gone, and after CREATE,
\* MOVE_START or MOVE_STOP of those in shown with their actions.
Told(v, gone, shown, infos) ==
  [d \in (DOMAIN v \ gone) \cup shown |->
     IF d \in shown THEN infos[d].action ELSE v[d]]

\* The clients SendPacketToSector reaches in the given sectors.
OnSectors(lists, sectors) == UNION {lists[s] : s \in sectors}

-----------------------------------------------------------------------------
\* OnAccept: a character appears at the corner of a random sector.
OnAccept(c, x, y) ==
  LET new    == NewInfo(x, y)
      others == OnSectors(mSectorList, SectorAround(new.cur, TRUE))
      infos  == [info EXCEPT ![c] = new]
  IN
  /\ c \notin mCharacterList
  /\ mCharacterList' = mCharacterList \cup {c}
  /\ info' = infos
  /\ mSectorList' = [mSectorList EXCEPT ![new.cur] = @ \cup {c}]
  /\ view' = [v \in Characters |->
                IF v = c THEN Told(<<>>, {}, others, infos)
                ELSE Told(view[v], {}, IF v \in others THEN {c} ELSE {}, infos)]

\* OnRelease.  The client of c is gone: what it showed is forgotten.
OnRelease(c) ==
  LET lists  == [mSectorList EXCEPT ![info[c].cur] = @ \ {c}]
      others == OnSectors(lists, SectorAround(info[c].cur, TRUE))
  IN
  /\ c \in mCharacterList
  /\ mCharacterList' = mCharacterList \ {c}
  /\ info' = [info EXCEPT ![c] = NewInfo(0, 0)]
  /\ mSectorList' = lists
  /\ view' = [v \in Characters |->
                IF v = c THEN <<>>
                ELSE Told(view[v], IF v \in others THEN {c} ELSE {}, {}, info)]

-----------------------------------------------------------------------------
\* ProcessPacketMoveStart and ProcessPacketMoveStop: the client's position is
\* taken unless it is too far off, the sector stays as it is until a frame.

Near(a, b) == a - b <= ErrorRange /\ b - a <= ErrorRange

Reported(c, x, y, action) ==
  IF Near(info[c].x, x) /\ Near(info[c].y, y)
  THEN [info EXCEPT ![c].x = x, ![c].y = y, ![c].action = action]
  ELSE [info EXCEPT ![c].action = action]

Report(c, x, y, action) ==
  LET infos  == Reported(c, x, y, action)
      others == OnSectors(mSectorList, SectorAround(info[c].cur, TRUE)) \ {c}
  IN
  /\ c \in mCharacterList
  /\ info' = infos
  /\ view' = [v \in Characters |->
                Told(view[v], {}, IF v \in others THEN {c} ELSE {}, infos)]
  /\ UNCHANGED <<mCharacterList, mSectorList>>

MoveStart(c, dir, x, y) == Report(c, x, y, dir)
MoveStop(c, x, y) == Report(c, x, y, NoAction)

-----------------------------------------------------------------------------
\* One character's part of a frame of UpdateThread.

\* The directions, counted clockwise from LL = 0.
StepX(dir) == CASE dir \in {0, 1, 7} -> -SpeedX
                [] dir \in {3, 4, 5} -> SpeedX
                [] OTHER -> 0
StepY(dir) == CASE dir \in {1, 2, 3} -> -SpeedY
                [] dir \in {5, 6, 7} -> SpeedY
                [] OTHER -> 0

\* Mutant: nothing stops a step at the left or the upper edge.
MayStepOverEdge(p) ==
  /\ StepX(p.action) > 0 => p.x + StepX(p.action) < Right
  /\ StepY(p.action) > 0 => p.y + StepY(p.action) < Bottom

\* A step is taken whole or not at all, and never onto the world's edge.
MayStep(p) ==
  LET dx == StepX(p.action)
      dy == StepY(p.action)
  IN
  /\ dx < 0 => p.x + dx > 0
  /\ dx > 0 => p.x + dx < Right
  /\ dy < 0 => p.y + dy > 0
  /\ dy > 0 => p.y + dy < Bottom

Stepped(p) ==
  IF MayStep(p)
  THEN [p EXCEPT !.x = @ + StepX(p.action), !.y = @ + StepY(p.action)]
  ELSE p

\* Mutant: the sector changes without a look at the end of the grid.
Sector_UpdateUnchecked(p) ==
  LET s == ConvertWorldPosToSectorPos(p.x, p.y) IN
  IF s = p.cur THEN p ELSE [p EXCEPT !.old = p.cur, !.cur = s]

\* Mutant: oldPos keeps the sector of the change before.
Sector_UpdateKeepsOld(p) ==
  LET s == ConvertWorldPosToSectorPos(p.x, p.y) IN
  IF OutOfRange(s) \/ s = p.cur THEN p ELSE [p EXCEPT !.cur = s]

\* Sector_UpdateCharacter: the two sectors it keeps in the character.
Sector_UpdateCharacter(p) ==
  LET s == ConvertWorldPosToSectorPos(p.x, p.y) IN
  IF OutOfRange(s) \/ s = p.cur THEN p ELSE [p EXCEPT !.old = p.cur, !.cur = s]

\* SendPacketBySectorUpdate: c goes out of the views of the others in the
\* sectors it left behind and into those of the new ones, and they of its.
SectorUpdateViews(c, infos, lists) ==
  LET gone  == OnSectors(lists, RemoveSectors(infos[c].old, infos[c].cur)) \ {c}
      shown == OnSectors(lists, AddSectors(infos[c].old, infos[c].cur)) \ {c}
  IN
  [v \in Characters |->
     IF v = c THEN Told(view[c], gone, shown, infos)
     ELSE Told(view[v], IF v \in gone THEN {c} ELSE {},
                        IF v \in shown THEN {c} ELSE {}, infos)]

Frame(c) ==
  LET p     == Sector_UpdateCharacter(Stepped(info[c]))
      infos == [info EXCEPT ![c] = p]
      lists == [s \in Sectors |->
                  IF p.cur = info[c].cur THEN mSectorList[s]
                  ELSE (mSectorList[s] \ (IF s = info[c].cur THEN {c} ELSE {}))
                         \cup (IF s = p.cur THEN {c} ELSE {})]
  IN
  /\ c \in mCharacterList
  /\ info[c].action # NoAction
  /\ info' = infos
  /\ mSectorList' = lists
  /\ view' = IF p.cur = info[c].cur THEN view ELSE SectorUpdateViews(c, infos, lists)
  /\ UNCHANGED mCharacterList

\* No list or lock has been indexed outside its array.
OnGrid == \A c \in Characters : info[c].cur \in Sectors

Next ==
  /\ OnGrid
  /\ \E c \in Characters :
       \/ \E x \in 0 .. Right - 1, y \in 0 .. Bottom - 1 :
            /\ x % SectorWidth = 0 /\ y % SectorHeight = 0
            /\ OnAccept(c, x, y)
       \/ OnRelease(c)
       \/ \E x \in ClientX, y \in ClientY :
            \/ \E dir \in Dirs : MoveStart(c, dir, x, y)
            \/ MoveStop(c, x, y)
       \/ Frame(c)

Spec == Init /\ [][Next]_vars

-----------------------------------------------------------------------------
\* Properties.

\* Type invariant; positions are WORDs.
TypeOK ==
  /\ mCharacterList \subseteq Characters
  /\ info \in [Characters ->
                 [x : Words, y : Words, action : Dirs \cup {NoAction},
                  cur : [x : Int, y : Int], old : Sectors]]
  /\ mSectorList \in [Sectors -> SUBSET Characters]

\* Past the positions a short can hold.
PastShort(p) == p.x >= ShortEnd \/ p.y >= ShortEnd

\* The one way off the grid: a character's sector is on it unless its client
\* has reported it past the shorts.  Beyond the grid and up to there the test
\* of Sector_UpdateCharacter refuses every sector there is no list for.
OffGridOnlyPastShort ==
  \A c \in Characters : info[c].cur \in Sectors \/ PastShort(info[c])

\* Sectors that share a border or a corner, or are the same.
Neighbours(s, t) == s.x - t.x \in -1 .. 1 /\ s.y - t.y \in -1 .. 1

\* A client shows exactly the characters of the sectors around its own, each
\* doing what it does: CREATE, DELETE, MOVE_START and MOVE_STOP of accept,
\* release, handlers and sector changes add up, however far a character was
\* moved between two frames, as long as nobody has left the grid.
ViewsExact ==
  OnGrid =>
    \A c \in mCharacterList :
      view[c] =
        [d \in {e \in mCharacterList \ {c} :
                  Neighbours(info[e].cur, info[c].cur)} |-> info[d].action]
=============================================================================
