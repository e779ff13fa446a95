-------------------------- MODULE AttackRangeProofs --------------------------
(***************************************************************************)
(* For every grid, every range no wider than a sector and less than half   *)
(* as high, and any number of characters: what clients are told adds up to *)
(* exactly the characters around their own, the lists an attack searches   *)
(* hold everyone in its range, and whom it hits is around the attacker.    *)
(* The last section is about what attacks and silence lead to: whom a      *)
(* frame cuts off, in the module Vitality.                                 *)
(***************************************************************************)
EXTENDS AttackRange, WellFoundedInduction, TLAPS

-----------------------------------------------------------------------------
\* The inductive invariant: views are those of the lists, and the lists those
\* of the sectors in the CharacterInfos.

\* The lists of the sectors are those of the sectors in the CharacterInfos.
ListsFit ==
  mSectorList = [s \in Sectors |-> {c \in mCharacterList : info[c].cur = s}]

\* The inductive invariant.
IInv == TypeOK /\ OffGridOnlyPastShort /\ ListsFit /\ ViewsExact

\* The view that shows the characters in S as infos has them.
Picture(S, infos) == [d \in S |-> infos[d].action]

\* The characters around that of c.
Around(c) ==
  {e \in mCharacterList \ {c} : Neighbours(info[e].cur, info[c].cur)}

\* ViewsExact, client by client.
LEMMA ViewsArePictures ==
  ViewsExact <=>
    (OnGrid => \A c \in mCharacterList : view[c] = Picture(Around(c), info))
BY DEF ViewsExact, Picture, Around

-----------------------------------------------------------------------------
\* The grid.

\* The sector of a position is one of non-negative coordinates, inside the
\* grid if the position is.
LEMMA Division ==
  ASSUME NEW n \in Nat, NEW w \in Nat \ {0}
  PROVE  /\ n \div w \in Nat
         /\ \A m \in Nat : n <= m => n \div w <= m \div w
<1>1. n \div w \in Nat
  OBVIOUS
<1>2. ASSUME NEW m \in Nat, n <= m PROVE n \div w <= m \div w
  <2> DEFINE p == n \div w
             q == m \div w
  <2>1. /\ p \in Int /\ q \in Int
        /\ w * p <= n /\ m < w * q + w
    OBVIOUS
  <2> HIDE DEF p, q
  <2>2. w * p < w * (q + 1)
    BY <1>2, <2>1
  <2>3. p < q + 1
    BY <2>1, <2>2
  <2> QED
    BY <2>1, <2>3 DEF p, q
<1> QED
  BY <1>1, <1>2

\* A position a short can hold is on the map, or the test of
\* Sector_UpdateCharacter finds its sector out of range.
LEMMA SectorOfPosition ==
  ASSUME NEW x \in Words, NEW y \in Words
  PROVE  LET s == ConvertWorldPosToSectorPos(x, y) IN
         /\ s \in [x : Int, y : Int]
         /\ x < ShortEnd /\ y < ShortEnd =>
              s = [x |-> x \div SectorWidth, y |-> y \div SectorHeight]
         /\ x < ShortEnd /\ y < ShortEnd /\ ~OutOfRange(s) => s \in Sectors
         /\ x <= Right /\ y <= Bottom => s \in Sectors
<1>1. /\ x \in Nat /\ y \in Nat /\ AsShort(x) \in Int /\ AsShort(y) \in Int
      /\ x < ShortEnd => AsShort(x) = x
      /\ y < ShortEnd => AsShort(y) = y
      /\ Right < ShortEnd /\ Bottom < ShortEnd /\ ShortEnd \in Nat
  BY GridSizes DEF Words, AsShort
<1>2. /\ x \div SectorWidth \in Nat /\ y \div SectorHeight \in Nat
      /\ Right \div SectorWidth \in Nat /\ Bottom \div SectorHeight \in Nat
  BY <1>1, Division, GridSizes
<1>3. /\ x <= Right => x \div SectorWidth <= Right \div SectorWidth
      /\ y <= Bottom => y \div SectorHeight <= Bottom \div SectorHeight
  BY <1>1, Division, GridSizes
<1>4. \A n \in Int, d \in Nat \ {0} :
        Quotient(n, d) \in Int /\ (n >= 0 => Quotient(n, d) = n \div d)
  BY DEF Quotient
<1>5. /\ Quotient(AsShort(x), SectorWidth) \in Int
      /\ Quotient(AsShort(y), SectorHeight) \in Int
      /\ x < ShortEnd => Quotient(AsShort(x), SectorWidth) = x \div SectorWidth
      /\ y < ShortEnd => Quotient(AsShort(y), SectorHeight) = y \div SectorHeight
  <2> DEFINE a == AsShort(x)
             b == AsShort(y)
  <2>1. /\ a \in Int /\ b \in Int
        /\ SectorWidth \in Nat \ {0} /\ SectorHeight \in Nat \ {0}
        /\ x < ShortEnd => a = x /\ a >= 0
        /\ y < ShortEnd => b = y /\ b >= 0
    BY <1>1, GridSizes
  <2> HIDE DEF a, b
  <2>2. /\ Quotient(a, SectorWidth) \in Int /\ Quotient(b, SectorHeight) \in Int
        /\ a >= 0 => Quotient(a, SectorWidth) = a \div SectorWidth
        /\ b >= 0 => Quotient(b, SectorHeight) = b \div SectorHeight
    BY <1>4, <2>1
  <2> QED
    BY <2>1, <2>2 DEF a, b
<1>6. x <= Right /\ y <= Bottom => x < ShortEnd /\ y < ShortEnd
  BY <1>1, GridSizes
<1> QED
  BY <1>2, <1>3, <1>5, <1>6
     DEF ConvertWorldPosToSectorPos, OutOfRange, Sectors, Width, Height

\* Positions are numbers.
LEMMA PositionsAreNat ==
  ASSUME TypeOK
  PROVE  /\ mCharacterList \subseteq Characters
         /\ \A c \in Characters : info[c].x \in Nat /\ info[c].y \in Nat
BY GridSizes DEF TypeOK, Words

\* Who is near me has me near.
LEMMA NeighboursSymmetric ==
  ASSUME NEW s \in Sectors, NEW t \in Sectors
  PROVE  Neighbours(s, t) <=> Neighbours(t, s)
BY DEF Neighbours, Sectors, Width, Height

\* GetSectorAround with its own sector gives the neighbours.
LEMMA SectorAroundIsNeighbours ==
  ASSUME NEW s \in Sectors
  PROVE  SectorAround(s, TRUE) = {t \in Sectors : Neighbours(t, s)}
BY DEF SectorAround, Neighbours, Sectors

-----------------------------------------------------------------------------
\* Whom a broadcast reaches, in lists that fit.

\* Lists that hold every character on its sector.
Fits(lists, list, infos) ==
  /\ \A c \in list : infos[c].cur \in Sectors
  /\ lists = [s \in Sectors |-> {c \in list : infos[c].cur = s}]

\* A broadcast to a set of sectors reaches who is on them.
LEMMA Reaches ==
  ASSUME NEW lists, NEW list, NEW infos, Fits(lists, list, infos),
         NEW S \in SUBSET Sectors
  PROVE  OnSectors(lists, S) = {c \in list : infos[c].cur \in S}
BY DEF OnSectors, Fits

\* The characters on the sectors around s.
Nearby(list, infos, s) == {c \in list : Neighbours(infos[c].cur, s)}

\* A broadcast to the sectors around s reaches who is near s.
LEMMA ReachesAround ==
  ASSUME NEW lists, NEW list, NEW infos, Fits(lists, list, infos),
         NEW s \in Sectors
  PROVE  OnSectors(lists, SectorAround(s, TRUE)) = Nearby(list, infos, s)
<1> DEFINE S == SectorAround(s, TRUE)
<1>1. S = {t \in Sectors : Neighbours(t, s)}
  BY SectorAroundIsNeighbours
<1>2. S \in SUBSET Sectors
  BY <1>1
<1> HIDE DEF S
<1>3. OnSectors(lists, S) = {c \in list : infos[c].cur \in S}
  BY <1>2 DEF OnSectors, Fits
<1>4. OnSectors(lists, S) = Nearby(list, infos, s)
  BY <1>1, <1>3 DEF Fits, Nearby
<1> QED
  BY <1>4 DEF S

\* The broadcasts of Sector_UpdateCharacter reach who goes out of sight and who
\* comes into sight.
LEMMA ReachesUpdated ==
  ASSUME NEW lists, NEW list, NEW infos, Fits(lists, list, infos),
         NEW old \in Sectors, NEW cur \in Sectors
  PROVE  /\ OnSectors(lists, RemoveSectors(old, cur))
              = Nearby(list, infos, old) \ Nearby(list, infos, cur)
         /\ OnSectors(lists, AddSectors(old, cur))
              = Nearby(list, infos, cur) \ Nearby(list, infos, old)
<1> DEFINE S == RemoveSectors(old, cur)
           T == AddSectors(old, cur)
<1>1. /\ S = {t \in Sectors : Neighbours(t, old) /\ ~Neighbours(t, cur)}
      /\ T = {t \in Sectors : Neighbours(t, cur) /\ ~Neighbours(t, old)}
  BY SectorAroundIsNeighbours DEF RemoveSectors, AddSectors
<1>2. S \in SUBSET Sectors /\ T \in SUBSET Sectors
  BY <1>1
<1> HIDE DEF S, T
<1>3. /\ OnSectors(lists, S) = {c \in list : infos[c].cur \in S}
      /\ OnSectors(lists, T) = {c \in list : infos[c].cur \in T}
  BY <1>2 DEF OnSectors, Fits
<1>4. /\ OnSectors(lists, S) = Nearby(list, infos, old) \ Nearby(list, infos, cur)
      /\ OnSectors(lists, T) = Nearby(list, infos, cur) \ Nearby(list, infos, old)
  BY <1>1, <1>3 DEF Fits, Nearby
<1> QED
  BY <1>4 DEF S, T

\* A view that is told of some after it forgot others.
LEMMA ToldPicture ==
  ASSUME NEW S, NEW gone, NEW shown, NEW i, NEW j,
         \A d \in (S \ gone) \ shown : i[d].action = j[d].action
  PROVE  Told(Picture(S, i), gone, shown, j) = Picture((S \ gone) \cup shown, j)
BY DEF Told, Picture

\* A client that is told nothing keeps its picture.
LEMMA ToldNothing ==
  ASSUME NEW shown, NEW j
  PROVE  Told(<<>>, {}, shown, j) = Picture(shown, j)
BY DEF Told, Picture

\* A picture is made of actions only.
LEMMA SamePicture ==
  ASSUME NEW S, NEW i, NEW j, \A d \in S : i[d].action = j[d].action
  PROVE  Picture(S, i) = Picture(S, j)
BY DEF Picture

-----------------------------------------------------------------------------
\* The steps.

\* CharacterInfos of characters on the grid.
InfoType ==
  [x : Words, y : Words, action : Dirs \cup {NoAction}, cur : Sectors, old : Sectors]

\* On the grid the invariant speaks of such CharacterInfos, and of lists that
\* hold every character.
LEMMA GridTypes ==
  ASSUME IInv, OnGrid
  PROVE  /\ mCharacterList \subseteq Characters
         /\ info \in [Characters -> InfoType]
         /\ Fits(mSectorList, mCharacterList, info)
BY DEF IInv, TypeOK, OnGrid, InfoType, ListsFit, Fits

\* Such CharacterInfos have the type of all.
LEMMA TypesOnGrid ==
  ASSUME NEW infos \in [Characters -> InfoType]
  PROVE  /\ infos \in [Characters ->
                         [x : Words, y : Words, action : Dirs \cup {NoAction},
                          cur : [x : Int, y : Int], old : Sectors]]
         /\ \A c \in Characters : infos[c].cur \in Sectors
<1>1. \A s \in Sectors : s \in [x : Int, y : Int]
  BY Division, GridSizes DEF Sectors, Width, Height
<1> QED
  BY <1>1 DEF InfoType

\* What OnAccept stores has that type.
LEMMA NewInfoType ==
  ASSUME NEW x \in Words, NEW y \in Words, ConvertWorldPosToSectorPos(x, y) \in Sectors
  PROVE  NewInfo(x, y) \in InfoType
BY DEF NewInfo, InfoType

\* Before the first OnAccept nobody is on a list or in a view.
LEMMA AtFirst == Init => IInv
<1> SUFFICES ASSUME Init PROVE IInv
  OBVIOUS
<1>1. 0 \in Words /\ ConvertWorldPosToSectorPos(0, 0) \in Sectors
  <2>1. 0 \in Words
    BY GridSizes DEF Words
  <2> QED
    BY <2>1, SectorOfPosition, GridSizes
<1>2. NewInfo(0, 0) \in InfoType
  BY <1>1, NewInfoType
<1>3. TypeOK /\ OffGridOnlyPastShort
  BY <1>2, TypesOnGrid DEF Init, TypeOK, OffGridOnlyPastShort
<1> QED
  BY <1>3 DEF Init, IInv, ListsFit, ViewsExact

\* A move, a stop or an attack tells everyone around it of the action.
LEMMA ReportStep ==
  ASSUME IInv, OnGrid, NEW c \in mCharacterList, NEW x \in Words, NEW y \in Words,
         NEW action \in Dirs \cup {NoAction}, Report(c, x, y, action)
  PROVE  IInv'
<1> DEFINE others == OnSectors(mSectorList, SectorAround(info[c].cur, TRUE)) \ {c}
           shown(v) == IF v \in others THEN {c} ELSE {}
<1>1. /\ mCharacterList \subseteq Characters
      /\ info \in [Characters -> InfoType]
      /\ Fits(mSectorList, mCharacterList, info)
  BY GridTypes
<1>2. /\ mCharacterList' = mCharacterList
      /\ mSectorList' = mSectorList
      /\ info' = Reported(c, x, y, action)
      /\ view' = [v \in Characters |-> Told(view[v], {}, shown(v), info')]
  BY DEF Report
<1>3. /\ info' \in [Characters -> InfoType]
      /\ \A d \in Characters : info'[d].cur = info[d].cur
      /\ \A d \in Characters \ {c} : info'[d] = info[d]
  BY <1>1, <1>2 DEF Reported, InfoType
<1>4. others = {e \in mCharacterList \ {c} : Neighbours(info[e].cur, info[c].cur)}
  <2> DEFINE s == info[c].cur
  <2>1. s \in Sectors
    BY <1>1 DEF InfoType
  <2> HIDE DEF s
  <2>2. OnSectors(mSectorList, SectorAround(s, TRUE))
          = Nearby(mCharacterList, info, s)
    BY <1>1, <2>1, ReachesAround
  <2> QED
    BY <2>2 DEF s, Nearby
<1> HIDE DEF others
<1>5. ASSUME NEW v \in mCharacterList
      PROVE  view'[v] = Picture(Around(v)', info')
  <2>1. view[v] = Picture(Around(v), info)
    BY ViewsArePictures DEF IInv
  <2>2. Around(v)' = Around(v)
    BY <1>1, <1>2, <1>3 DEF Around
  <2>3. shown(v) \subseteq Around(v) /\ (c \in Around(v) => shown(v) = {c})
    <3>1. info[v].cur \in Sectors /\ info[c].cur \in Sectors
      BY <1>1 DEF InfoType
    <3> QED
      BY <1>4, <3>1, NeighboursSymmetric DEF Around
  <2>4. \A d \in (Around(v) \ {}) \ shown(v) : info[d].action = info'[d].action
    BY <1>1, <1>3, <2>3 DEF Around
  <2>5. Told(view[v], {}, shown(v), info') = Picture((Around(v) \ {}) \cup shown(v), info')
    BY <2>1, <2>4, ToldPicture
  <2>6. (Around(v) \ {}) \cup shown(v) = Around(v)'
    BY <2>2, <2>3
  <2> QED
    BY <1>1, <1>2, <2>5, <2>6
<1>6. ViewsExact'
  BY <1>2, <1>5 DEF ViewsExact, Picture, Around
<1>7. TypeOK' /\ OffGridOnlyPastShort'
  BY <1>2, <1>3, TypesOnGrid DEF TypeOK, OffGridOnlyPastShort, IInv
<1>8. ListsFit'
  BY <1>1, <1>2, <1>3 DEF ListsFit, Fits
<1> QED
  BY <1>6, <1>7, <1>8 DEF IInv

\* OnAccept shows the newcomer and those around it to each other.
LEMMA AcceptStep ==
  ASSUME IInv, OnGrid, NEW c \in Characters, NEW x \in Words, NEW y \in Words,
         ConvertWorldPosToSectorPos(x, y) \in Sectors,
         OnAccept(c, x, y)
  PROVE  IInv'
<1> DEFINE new    == NewInfo(x, y)
           others == OnSectors(mSectorList, SectorAround(new.cur, TRUE))
           shown(v) == IF v \in others THEN {c} ELSE {}
<1>1. /\ mCharacterList \subseteq Characters
      /\ info \in [Characters -> InfoType]
      /\ Fits(mSectorList, mCharacterList, info)
  BY GridTypes
<1>2. /\ c \notin mCharacterList
      /\ mCharacterList' = mCharacterList \cup {c}
      /\ info' = [info EXCEPT ![c] = new]
      /\ mSectorList' = [mSectorList EXCEPT ![new.cur] = @ \cup {c}]
      /\ view' = [v \in Characters |->
                    IF v = c THEN Told(<<>>, {}, others, info')
                    ELSE Told(view[v], {}, shown(v), info')]
  BY DEF OnAccept
<1>3. new \in InfoType
  BY NewInfoType
<1>4. others = Nearby(mCharacterList, info, new.cur)
  <2> HIDE DEF new
  <2>1. new.cur \in Sectors
    BY <1>3 DEF InfoType
  <2> QED
    BY <1>1, <2>1, ReachesAround
<1> HIDE DEF others, new
<1>5. /\ info' \in [Characters -> InfoType]
      /\ info'[c] = new
      /\ \A d \in Characters \ {c} : info'[d] = info[d]
  BY <1>1, <1>2, <1>3
<1>6. ASSUME NEW v \in mCharacterList'
      PROVE  view'[v] = Picture(Around(v)', info')
  <2>1. CASE v = c
    <3>1. Around(c)' = others
      BY <1>1, <1>2, <1>4, <1>5 DEF Around, Nearby
    <3> QED
      BY <1>2, <2>1, <3>1, ToldNothing
  <2>2. CASE v # c
    <3>1. v \in mCharacterList
      BY <1>2, <2>2
    <3>2. view[v] = Picture(Around(v), info)
      BY <3>1, ViewsArePictures DEF IInv
    <3>3. (Around(v) \ {}) \cup shown(v) = Around(v)'
      <4>1. info[v].cur \in Sectors /\ new.cur \in Sectors
        BY <1>1, <1>3, <3>1 DEF InfoType
      <4> QED
        BY <1>1, <1>2, <1>4, <1>5, <2>2, <3>1, <4>1, NeighboursSymmetric DEF Around, Nearby
    <3>4. \A d \in (Around(v) \ {}) \ shown(v) : info[d].action = info'[d].action
      BY <1>1, <1>2, <1>5 DEF Around
    <3>5. Told(view[v], {}, shown(v), info') = Picture((Around(v) \ {}) \cup shown(v), info')
      BY <3>2, <3>4, ToldPicture
    <3> QED
      BY <1>1, <1>2, <2>2, <3>1, <3>3, <3>5
  <2> QED
    BY <2>1, <2>2
<1>7. ViewsExact'
  BY <1>6 DEF ViewsExact, Picture, Around
<1>8. mSectorList' \in [Sectors -> SUBSET Characters]
  BY <1>2, <1>3 DEF IInv, TypeOK, InfoType
<1>9. TypeOK' /\ OffGridOnlyPastShort'
  BY <1>1, <1>2, <1>5, <1>8, TypesOnGrid DEF TypeOK, OffGridOnlyPastShort
<1>10. ListsFit'
  <2>1. new.cur \in Sectors
    BY <1>3 DEF InfoType
  <2>2. mSectorList' = [t \in Sectors |->
                          IF t = new.cur THEN mSectorList[t] \cup {c} ELSE mSectorList[t]]
    BY <1>1, <1>2, <2>1 DEF Fits
  <2>3. ASSUME NEW t \in Sectors
        PROVE  mSectorList'[t] = {d \in mCharacterList' : info'[d].cur = t}
    <3>1. mSectorList[t] = {d \in mCharacterList : info[d].cur = t}
      BY <1>1 DEF Fits
    <3> QED
      BY <1>1, <1>2, <1>5, <2>2, <3>1
  <2> QED
    BY <2>2, <2>3 DEF ListsFit
<1> QED
  BY <1>7, <1>9, <1>10 DEF IInv

\* OnRelease takes the character out of the views it was in.
LEMMA ReleaseStep ==
  ASSUME IInv, OnGrid, NEW c \in Characters, OnRelease(c)
  PROVE  IInv'
<1> DEFINE s == info[c].cur
           lists  == [mSectorList EXCEPT ![s] = @ \ {c}]
           others == OnSectors(lists, SectorAround(s, TRUE))
           gone(v) == IF v \in others THEN {c} ELSE {}
<1>1. /\ mCharacterList \subseteq Characters
      /\ info \in [Characters -> InfoType]
      /\ Fits(mSectorList, mCharacterList, info)
  BY GridTypes
<1>2. /\ c \in mCharacterList
      /\ mCharacterList' = mCharacterList \ {c}
      /\ info' = [info EXCEPT ![c] = NewInfo(0, 0)]
      /\ mSectorList' = lists
      /\ view' = [v \in Characters |->
                    IF v = c THEN <<>> ELSE Told(view[v], gone(v), {}, info)]
  BY DEF OnRelease
<1>3. s \in Sectors
  BY <1>1, <1>2 DEF InfoType
<1>4. Fits(lists, mCharacterList', info)
  BY <1>1, <1>2, <1>3 DEF Fits
<1>5. others = Nearby(mCharacterList', info, s)
  <2> HIDE DEF s, lists
  <2> QED
    BY <1>3, <1>4, ReachesAround
<1>6. /\ info' \in [Characters -> InfoType]
      /\ \A d \in Characters \ {c} : info'[d] = info[d]
  <2>1. 0 \in Words
    BY GridSizes DEF Words
  <2>2. NewInfo(0, 0) \in InfoType
    BY <2>1, SectorOfPosition, NewInfoType, GridSizes
  <2> QED
    BY <1>1, <1>2, <2>2
<1> HIDE DEF others
<1>7. ASSUME NEW v \in mCharacterList'
      PROVE  view'[v] = Picture(Around(v)', info')
  <2>1. v \in mCharacterList /\ v # c
    BY <1>2
  <2>2. view[v] = Picture(Around(v), info)
    BY <2>1, ViewsArePictures DEF IInv
  <2>3. (Around(v) \ gone(v)) \cup {} = Around(v)'
    <3>1. info[v].cur \in Sectors
      BY <1>1, <2>1 DEF InfoType
    <3> QED
      BY <1>1, <1>2, <1>3, <1>5, <1>6, <2>1, <3>1, NeighboursSymmetric DEF Around, Nearby
  <2>4. Told(view[v], gone(v), {}, info) = Picture((Around(v) \ gone(v)) \cup {}, info)
    BY <2>2, ToldPicture
  <2>5. Picture(Around(v)', info) = Picture(Around(v)', info')
    <3>1. \A d \in Around(v)' : info[d].action = info'[d].action
      BY <1>1, <1>2, <1>6 DEF Around
    <3> QED
      BY <3>1, SamePicture
  <2> QED
    BY <1>1, <1>2, <2>1, <2>3, <2>4, <2>5
<1>8. ViewsExact'
  BY <1>7 DEF ViewsExact, Picture, Around
<1>9. TypeOK' /\ OffGridOnlyPastShort'
  BY <1>1, <1>2, <1>6, TypesOnGrid DEF IInv, TypeOK, OffGridOnlyPastShort
<1>10. ListsFit'
  BY <1>1, <1>2, <1>4, <1>6 DEF ListsFit, Fits
<1> QED
  BY <1>8, <1>9, <1>10 DEF IInv

\* A frame's step keeps the position in the world and changes no sector.
LEMMA StepStays ==
  ASSUME NEW p \in InfoType, p.action # NoAction
  PROVE  /\ Stepped(p) \in InfoType
         /\ Stepped(p).action = p.action /\ Stepped(p).cur = p.cur
<1>1. CASE MayStep(p)
  <2>1. /\ StepX(p.action) \in {-SpeedX, SpeedX, 0} /\ StepY(p.action) \in {-SpeedY, SpeedY, 0}
        /\ SpeedX \in Nat /\ SpeedY \in Nat
    BY ViewSizes DEF StepX, StepY
  <2>2. p.x + StepX(p.action) \in Words /\ p.y + StepY(p.action) \in Words
    BY <1>1, <2>1, GridSizes DEF MayStep, InfoType, Words
  <2> QED
    BY <1>1, <2>2 DEF Stepped, InfoType
<1>2. CASE ~MayStep(p)
  BY <1>2 DEF Stepped
<1> QED
  BY <1>1, <1>2

\* A frame remembers the sector it leaves, and leaves the grid only from a
\* position past the shorts.
LEMMA UpdateStays ==
  ASSUME NEW p \in InfoType
  PROVE  LET q == Sector_UpdateCharacter(p) IN
         /\ q \in [x : Words, y : Words, action : Dirs \cup {NoAction},
                   cur : [x : Int, y : Int], old : Sectors]
         /\ q.action = p.action
         /\ q.cur # p.cur => q.old = p.cur
         /\ q.cur \in Sectors \/ PastShort(q)
         /\ q.cur \in Sectors => q \in InfoType
<1> DEFINE s == ConvertWorldPosToSectorPos(p.x, p.y)
<1>1. /\ s \in [x : Int, y : Int]
      /\ ~OutOfRange(s) => s \in Sectors \/ PastShort(p)
  BY SectorOfPosition, GridSizes DEF InfoType, PastShort, Words
<1>2. p.cur \in [x : Int, y : Int] /\ p.cur \in Sectors
  BY Division, GridSizes DEF InfoType, Sectors, Width, Height
<1> HIDE DEF s
<1>3. Sector_UpdateCharacter(p)
        = IF OutOfRange(s) \/ s = p.cur THEN p ELSE [p EXCEPT !.old = p.cur, !.cur = s]
  BY DEF Sector_UpdateCharacter, s
<1> QED
  BY <1>1, <1>2, <1>3 DEF InfoType, PastShort

\* A frame that changes the sector tells those who lose sight and those who gain
\* it.
LEMMA FrameStep ==
  ASSUME IInv, OnGrid, NEW c \in Characters, Frame(c)
  PROVE  IInv'
<1> DEFINE old  == info[c].cur
           p    == Sector_UpdateCharacter(Stepped(info[c]))
           lists == [s \in Sectors |->
                       IF p.cur = old THEN mSectorList[s]
                       ELSE (mSectorList[s] \ (IF s = old THEN {c} ELSE {}))
                              \cup (IF s = p.cur THEN {c} ELSE {})]
<1>1. /\ mCharacterList \subseteq Characters
      /\ info \in [Characters -> InfoType]
      /\ Fits(mSectorList, mCharacterList, info)
  BY GridTypes
<1>2. /\ c \in mCharacterList
      /\ info[c].action # NoAction
      /\ mCharacterList' = mCharacterList
      /\ info' = [info EXCEPT ![c] = p]
      /\ mSectorList' = lists
      /\ view' = IF p.cur = old THEN view ELSE SectorUpdateViews(c, info', mSectorList')
  BY DEF Frame
<1>3. /\ p \in [x : Words, y : Words, action : Dirs \cup {NoAction},
               cur : [x : Int, y : Int], old : Sectors]
      /\ p.action = info[c].action
      /\ p.cur # old => p.old = old
      /\ p.cur \in Sectors \/ PastShort(p)
      /\ p.cur \in Sectors => p \in InfoType
  BY <1>1, <1>2, StepStays, UpdateStays
<1> HIDE DEF p
<1>4. /\ info'[c] = p
      /\ \A d \in Characters \ {c} : info'[d] = info[d]
      /\ \A d \in Characters : info'[d].action = info[d].action
  BY <1>1, <1>2, <1>3
<1>5. old \in Sectors
  BY <1>1, <1>2 DEF InfoType
<1>6. mSectorList' \in [Sectors -> SUBSET Characters]
  BY <1>2 DEF IInv, TypeOK
<1>7. TypeOK' /\ OffGridOnlyPastShort'
  <2>1. /\ info \in [Characters ->
                      [x : Words, y : Words, action : Dirs \cup {NoAction},
                       cur : [x : Int, y : Int], old : Sectors]]
        /\ \A d \in Characters : info[d].cur \in Sectors
    BY <1>1, TypesOnGrid
  <2>2. info' \in [Characters ->
                      [x : Words, y : Words, action : Dirs \cup {NoAction},
                       cur : [x : Int, y : Int], old : Sectors]]
    BY <1>2, <1>3, <2>1
  <2>3. \A d \in Characters : info'[d].cur \in Sectors \/ PastShort(info'[d])
    BY <1>3, <1>4, <2>1
  <2> QED
    BY <1>1, <1>2, <1>6, <2>2, <2>3 DEF TypeOK, OffGridOnlyPastShort
<1>8. ListsFit'
  <2>1. ASSUME NEW t \in Sectors
        PROVE  mSectorList'[t] = {d \in mCharacterList' : info'[d].cur = t}
    <3>1. mSectorList[t] = {d \in mCharacterList : info[d].cur = t}
      BY <1>1 DEF Fits
    <3> QED
      BY <1>1, <1>2, <1>4, <3>1
  <2> QED
    BY <1>2, <2>1 DEF ListsFit
<1>9. ASSUME p.cur \in Sectors
      PROVE  Fits(mSectorList', mCharacterList', info')
  BY <1>1, <1>2, <1>4, <1>8, <1>9 DEF ListsFit, Fits, InfoType
<1>10. ASSUME p.cur \in Sectors, NEW v \in mCharacterList'
       PROVE  view'[v] = Picture(Around(v)', info')
  <2>1. v \in mCharacterList /\ view[v] = Picture(Around(v), info)
    BY <1>2, ViewsArePictures DEF IInv
  <2>2. CASE p.cur = old
    <3>1. Around(v)' = Around(v)
      BY <1>1, <1>2, <1>4, <2>2 DEF Around
    <3>2. \A d \in Around(v) : info[d].action = info'[d].action
      BY <1>1, <1>4 DEF Around
    <3>3. Picture(Around(v), info) = Picture(Around(v), info')
      BY <3>2, SamePicture
    <3> QED
      BY <1>2, <2>1, <2>2, <3>1, <3>3
  <2>3. CASE p.cur # old
    <3> DEFINE left == OnSectors(mSectorList', RemoveSectors(old, p.cur)) \ {c}
               met  == OnSectors(mSectorList', AddSectors(old, p.cur)) \ {c}
               gone  == IF v = c THEN left ELSE IF v \in left THEN {c} ELSE {}
               shown == IF v = c THEN met ELSE IF v \in met THEN {c} ELSE {}
    <3>1. /\ left = (Nearby(mCharacterList, info', old)
                      \ Nearby(mCharacterList, info', p.cur)) \ {c}
          /\ met = (Nearby(mCharacterList, info', p.cur)
                      \ Nearby(mCharacterList, info', old)) \ {c}
      <4> HIDE DEF old
      <4>1. Fits(mSectorList', mCharacterList, info')
        BY <1>2, <1>9, <1>10
      <4>2. /\ OnSectors(mSectorList', RemoveSectors(old, p.cur))
                 = Nearby(mCharacterList, info', old) \ Nearby(mCharacterList, info', p.cur)
            /\ OnSectors(mSectorList', AddSectors(old, p.cur))
                 = Nearby(mCharacterList, info', p.cur) \ Nearby(mCharacterList, info', old)
        BY <1>5, <1>10, <4>1, ReachesUpdated
      <4> QED
        BY <4>2
    <3>2. view'[v] = Told(view[v], gone, shown, info')
      BY <1>1, <1>2, <1>3, <1>4, <2>1, <2>3 DEF SectorUpdateViews
    <3> HIDE DEF left, met
    <3>3. (Around(v) \ gone) \cup shown = Around(v)'
      <4>1. CASE v = c
        BY <1>1, <1>2, <1>4, <3>1, <4>1 DEF Around, Nearby
      <4>2. CASE v # c
        <5>1. info[v].cur \in Sectors
          BY <1>1, <2>1 DEF InfoType
        <5> QED
          BY <1>1, <1>2, <1>4, <1>5, <1>10, <2>1, <3>1, <4>2, <5>1, NeighboursSymmetric
             DEF Around, Nearby
      <4> QED
        BY <4>1, <4>2
    <3>4. \A d \in (Around(v) \ gone) \ shown : info[d].action = info'[d].action
      BY <1>1, <1>4 DEF Around
    <3> HIDE DEF gone, shown
    <3> QED
      BY <2>1, <3>2, <3>3, <3>4, ToldPicture
  <2> QED
    BY <2>2, <2>3
<1>11. ViewsExact'
  <2>1. OnGrid' => p.cur \in Sectors
    BY <1>1, <1>2, <1>4 DEF OnGrid
  <2> QED
    BY <1>10, <2>1 DEF ViewsExact, Picture, Around
<1> QED
  BY <1>7, <1>8, <1>11 DEF IInv

\* An attack reports a position and changes no action.
LEMMA AttackStep ==
  ASSUME IInv, OnGrid, NEW c \in Characters, NEW x \in Words, NEW y \in Words,
         Attack(c, x, y)
  PROVE  IInv'
<1>1. /\ mCharacterList \subseteq Characters
      /\ info \in [Characters -> InfoType]
      /\ Fits(mSectorList, mCharacterList, info)
  BY GridTypes
<1>2. /\ mCharacterList' = mCharacterList
      /\ mSectorList' = mSectorList
      /\ view' = view
      /\ info' = Reported(c, x, y, info[c].action)
  BY DEF Attack
<1>3. /\ info' \in [Characters -> InfoType]
      /\ \A d \in Characters : info'[d].cur = info[d].cur /\ info'[d].action = info[d].action
  BY <1>1, <1>2 DEF Reported, InfoType
<1>4. ASSUME NEW v \in mCharacterList'
      PROVE  view'[v] = Picture(Around(v)', info')
  <2>1. v \in mCharacterList /\ view[v] = Picture(Around(v), info)
    BY <1>2, ViewsArePictures DEF IInv
  <2>2. Around(v)' = Around(v)
    BY <1>1, <1>2, <1>3 DEF Around
  <2>3. \A d \in Around(v) : info[d].action = info'[d].action
    BY <1>1, <1>3 DEF Around
  <2>4. Picture(Around(v), info) = Picture(Around(v), info')
    BY <2>3, SamePicture
  <2> QED
    BY <1>2, <2>1, <2>2, <2>4
<1>5. ViewsExact'
  BY <1>4 DEF ViewsExact, Picture, Around
<1>6. TypeOK' /\ OffGridOnlyPastShort'
  BY <1>2, <1>3, TypesOnGrid DEF TypeOK, OffGridOnlyPastShort, IInv
<1>7. ListsFit'
  BY <1>1, <1>2, <1>3 DEF ListsFit, Fits
<1> QED
  BY <1>5, <1>6, <1>7 DEF IInv

\* Every step preserves the invariant.
LEMMA Step == IInv /\ [NextWithAttacks]_vars => IInv'
<1> SUFFICES ASSUME IInv, [NextWithAttacks]_vars PROVE IInv'
  OBVIOUS
<1>1. ASSUME OnGrid, NEW c \in Characters,
             NEW x \in 0 .. Right - 1, NEW y \in 0 .. Bottom - 1, OnAccept(c, x, y)
      PROVE  IInv'
  <2>1. x \in Words /\ y \in Words /\ x <= Right /\ y <= Bottom
    BY GridSizes DEF Words
  <2>2. ConvertWorldPosToSectorPos(x, y) \in Sectors
    BY <2>1, SectorOfPosition
  <2> QED
    BY <1>1, <2>1, <2>2, AcceptStep
<1>2. ASSUME OnGrid, NEW c \in Characters, OnRelease(c) PROVE IInv'
  BY <1>2, ReleaseStep
<1>3. ASSUME OnGrid, NEW c \in Characters, NEW x \in ClientX, NEW y \in ClientY,
             \/ \E dir \in Dirs : MoveStart(c, dir, x, y)
             \/ MoveStop(c, x, y)
      PROVE  IInv'
  <2>1. x \in Words /\ y \in Words
    BY ViewSizes
  <2>2. c \in mCharacterList
    BY <1>3 DEF MoveStart, MoveStop, Report
  <2>3. \E action \in Dirs \cup {NoAction} : Report(c, x, y, action)
    BY <1>3 DEF MoveStart, MoveStop
  <2> QED
    BY <1>3, <2>1, <2>2, <2>3, ReportStep
<1>4. ASSUME OnGrid, NEW c \in Characters, Frame(c) PROVE IInv'
  BY <1>4, FrameStep
<1>5. ASSUME OnGrid, NEW c \in Characters, NEW x \in ClientX, NEW y \in ClientY,
             Attack(c, x, y)
      PROVE  IInv'
  <2>1. x \in Words /\ y \in Words
    BY ViewSizes
  <2> QED
    BY <1>5, <2>1, AttackStep
<1>6. CASE UNCHANGED vars
  BY <1>6 DEF vars, IInv, TypeOK, OffGridOnlyPastShort, ListsFit, ViewsExact, OnGrid
<1> QED
  BY <1>1, <1>2, <1>3, <1>4, <1>5, <1>6 DEF NextWithAttacks, Next

-----------------------------------------------------------------------------
\* Accepts, releases, handlers, attacks and frames keep the lists and views
\* those of the sectors of the characters.
THEOREM InvariantHolds == SpecWithAttacks => []IInv
<1>1. SpecWithAttacks => Init /\ [][NextWithAttacks]_vars
  BY DEF SpecWithAttacks
<1> QED
  BY <1>1, AtFirst, Step, PTL

\* Positions stay WORDs and the sector a character has left one of the grid,
\* whatever positions clients report.
THEOREM ViewsTypeCorrect == SpecWithAttacks => []TypeOK
<1>1. IInv => TypeOK
  BY DEF IInv
<1> QED
  BY <1>1, InvariantHolds, PTL

\* The first list or lock outside the grid is that of a character whose client
\* has reported it past the shorts, 2^15 - 1: whatever grid, frames and
\* reports, nothing else leads there.
THEOREM OnlyPastShortLeavesGrid == SpecWithAttacks => []OffGridOnlyPastShort
<1>1. IInv => OffGridOnlyPastShort
  BY DEF IInv
<1> QED
  BY <1>1, InvariantHolds, PTL

\* Until then, what the client of every character is told adds up to exactly
\* the characters on the sectors around its own and what they do.
THEOREM ViewsAreExact == SpecWithAttacks => []ViewsExact
<1>1. IInv => ViewsExact
  BY DEF IInv
<1> QED
  BY <1>1, InvariantHolds, PTL

\* Every position is one a short can hold.
InShort == \A c \in Characters : info[c].x < ShortEnd /\ info[c].y < ShortEnd

\* Only a report can put a position past the shorts.
LEMMA InShortStep ==
  ASSUME \A n \in ClientX \cup ClientY : n < ShortEnd
  PROVE  IInv /\ InShort /\ [NextWithAttacks]_vars => InShort'
<1> SUFFICES ASSUME IInv, InShort, [NextWithAttacks]_vars
             PROVE  InShort'
  OBVIOUS
<1>1. /\ 0 < ShortEnd /\ Right < ShortEnd /\ Bottom < ShortEnd
      /\ {ShortEnd, Right, Bottom, SpeedX, SpeedY} \subseteq Nat
      /\ \A c \in Characters : info[c].x \in Nat /\ info[c].y \in Nat
      /\ DOMAIN info = Characters
  BY PositionsAreNat, GridSizes, ViewSizes DEF IInv, TypeOK
<1>2. ASSUME NEW c \in Characters,
             NEW x \in 0 .. Right - 1, NEW y \in 0 .. Bottom - 1, OnAccept(c, x, y)
      PROVE  InShort'
  BY <1>1, <1>2 DEF OnAccept, NewInfo, InShort
<1>3. ASSUME NEW c \in Characters, OnRelease(c)
      PROVE  InShort'
  BY <1>1, <1>3 DEF OnRelease, NewInfo, InShort
<1>4. ASSUME NEW c \in Characters, NEW x \in ClientX, NEW y \in ClientY,
             NEW action, info' = Reported(c, x, y, action)
      PROVE  InShort'
  <2>1. x < ShortEnd /\ y < ShortEnd
    OBVIOUS
  <2>2. \A d \in Characters :
          /\ info'[d].x = info[d].x \/ info'[d].x = x
          /\ info'[d].y = info[d].y \/ info'[d].y = y
    <3>1. info \in [Characters ->
                      [x : Words, y : Words, action : Dirs \cup {NoAction},
                       cur : [x : Int, y : Int], old : Sectors]]
      BY DEF IInv, TypeOK
    <3>2. CASE Near(info[c].x, x) /\ Near(info[c].y, y)
      <4>1. info' = [info EXCEPT ![c].x = x, ![c].y = y, ![c].action = action]
        BY <1>4, <3>2 DEF Reported
      <4> QED
        BY <3>1, <4>1
    <3>3. CASE ~(Near(info[c].x, x) /\ Near(info[c].y, y))
      <4>1. info' = [info EXCEPT ![c].action = action]
        BY <1>4, <3>3 DEF Reported
      <4> QED
        BY <3>1, <4>1
    <3> QED
      BY <3>2, <3>3
  <2> QED
    BY <2>1, <2>2 DEF InShort
<1>5. ASSUME NEW c \in Characters, Frame(c)
      PROVE  InShort'
  <2> DEFINE p == Stepped(info[c])
             q == Sector_UpdateCharacter(p)
  <2>1. info' = [info EXCEPT ![c] = q]
    BY <1>5 DEF Frame
  <2>2. info[c] \in [x : Words, y : Words, action : Dirs \cup {NoAction},
                     cur : [x : Int, y : Int], old : Sectors]
    BY DEF IInv, TypeOK
  <2>3. p.x < ShortEnd /\ p.y < ShortEnd
    <3>1. CASE MayStep(info[c])
      <4> DEFINE dx == StepX(info[c].action)
                 dy == StepY(info[c].action)
      <4>1. dx \in {-SpeedX, SpeedX, 0} /\ dy \in {-SpeedY, SpeedY, 0}
        BY DEF StepX, StepY
      <4>2. p.x = info[c].x + dx /\ p.y = info[c].y + dy
        BY <2>2, <3>1 DEF Stepped
      <4>3. /\ dx > 0 => info[c].x + dx < Right
            /\ dy > 0 => info[c].y + dy < Bottom
        BY <3>1 DEF MayStep
      <4>4. info[c].x < ShortEnd /\ info[c].y < ShortEnd
        BY DEF InShort
      <4> HIDE DEF dx, dy, p
      <4> QED
        BY <1>1, <4>1, <4>2, <4>3, <4>4
    <3>2. CASE ~MayStep(info[c])
      BY <3>2 DEF Stepped, InShort
    <3> QED
      BY <3>1, <3>2
  <2>4. q.x = p.x /\ q.y = p.y
    <3>1. p \in [x : Int, y : Int, action : Dirs \cup {NoAction},
                 cur : [x : Int, y : Int], old : Sectors]
      <4> DEFINE r  == info[c]
                 dx == StepX(r.action)
                 dy == StepY(r.action)
      <4>1. dx \in Int /\ dy \in Int
        BY <1>1 DEF StepX, StepY
      <4>2. r \in [x : Int, y : Int, action : Dirs \cup {NoAction},
                  cur : [x : Int, y : Int], old : Sectors]
        BY <1>1, <2>2
      <4>3. p = r \/ p = [r EXCEPT !.x = r.x + dx, !.y = r.y + dy]
        BY DEF Stepped
      <4> HIDE DEF p, r, dx, dy
      <4>4. r.x + dx \in Int /\ r.y + dy \in Int
        BY <4>1, <4>2
      <4>5. [r EXCEPT !.x = r.x + dx, !.y = r.y + dy]
              \in [x : Int, y : Int, action : Dirs \cup {NoAction},
                  cur : [x : Int, y : Int], old : Sectors]
        BY <4>2, <4>4
      <4> QED
        BY <4>2, <4>3, <4>5
    <3> HIDE DEF p
    <3> QED
      BY <3>1 DEF Sector_UpdateCharacter
  <2> HIDE DEF q, p
  <2> QED
    BY <1>1, <2>1, <2>3, <2>4 DEF InShort
<1>6. CASE UNCHANGED vars
  BY <1>6 DEF vars, InShort
<1>7. ASSUME NEW c \in Characters, NEW x \in ClientX, NEW y \in ClientY,
             \/ \E dir \in Dirs : MoveStart(c, dir, x, y)
             \/ MoveStop(c, x, y)
             \/ Attack(c, x, y)
      PROVE  \E action : info' = Reported(c, x, y, action)
  BY <1>7 DEF MoveStart, MoveStop, Report, Attack
<1> QED
  BY <1>2, <1>3, <1>4, <1>5, <1>6, <1>7 DEF NextWithAttacks, Next

\* In particular if no client reports past the shorts: then no list or lock is
\* ever indexed outside its array, and the views are exact for good.
THEOREM ReportsInShortKeepGrid ==
  ASSUME \A n \in ClientX \cup ClientY : n < ShortEnd
  PROVE  SpecWithAttacks => [](OnGrid /\ ViewsExact)
<1>1. Init => InShort
  <2>1. 0 < ShortEnd
    BY GridSizes
  <2> QED
    BY <2>1 DEF Init, NewInfo, InShort
<1>2. IInv /\ InShort /\ [NextWithAttacks]_vars => InShort'
  BY InShortStep
<1>3. IInv /\ InShort => OnGrid /\ ViewsExact
  <2> SUFFICES ASSUME IInv, InShort
               PROVE  OnGrid
    BY DEF IInv
  <2>1. \A c \in Characters : ~PastShort(info[c])
    BY PositionsAreNat, GridSizes DEF IInv, InShort, PastShort
  <2>2. OnGrid
    BY <2>1 DEF IInv, OffGridOnlyPastShort, OnGrid
  <2> QED
    BY <2>2
<1> QED
  BY <1>1, <1>2, <1>3, InvariantHolds, PTL DEF SpecWithAttacks

-----------------------------------------------------------------------------
\* The search for victims stays on sectors around the attacker's.

\* The sectors an attack searches are on the grid, around the attacker's.
LEMMA SearchedSectors ==
  ASSUME NEW a, NEW dir \in {LL, RR}, info[a].cur \in Sectors
  PROVE  LET rows == SearchRows(a) IN
         \A i \in DOMAIN rows, x \in SearchColumns(a, dir) \cup {info[a].cur.x} :
           /\ [x |-> x, y |-> rows[i]] \in Sectors
           /\ Neighbours(info[a].cur, [x |-> x, y |-> rows[i]])
<1> DEFINE s    == info[a].cur
           up   == Quotient(info[a].y - RangeY, SectorHeight)
           down == Quotient(info[a].y + RangeY, SectorHeight)
           rows == SearchRows(a)
<1>1. s \in [x : 0 .. Width - 1, y : 0 .. Height - 1] /\ Width \in Int /\ Height \in Int
  BY Division, GridSizes DEF Sectors, Width, Height
<1>2. \/ rows = <<s.y>>
      \/ rows = <<s.y, s.y - 1>> /\ s.y - 1 > -1
      \/ rows = <<s.y, s.y + 1>> /\ s.y + 1 < Height
  BY DEF SearchRows
<1>3. \A i \in DOMAIN rows :
        rows[i] \in 0 .. Height - 1 /\ s.y - rows[i] \in -1 .. 1
  BY <1>1, <1>2
<1>4. \A x \in SearchColumns(a, dir) \cup {s.x} :
        x \in 0 .. Width - 1 /\ s.x - x \in -1 .. 1
  BY <1>1 DEF SearchColumns
<1> HIDE DEF s, rows
<1>5. \A i \in DOMAIN rows, x \in SearchColumns(a, dir) \cup {s.x} :
        /\ [x |-> x, y |-> rows[i]] \in Sectors
        /\ Neighbours(s, [x |-> x, y |-> rows[i]])
  BY <1>3, <1>4 DEF Sectors, Neighbours
<1> QED
  BY <1>5 DEF s, rows

\* A victim is on a searched list, and without one every list of the first
\* pass had nobody in range.
LEMMA VictimsAreOnSearched ==
  ASSUME NEW a, NEW dir \in {LL, RR}
  PROVE  LET rows    == SearchRows(a)
             columns == SearchColumns(a, dir)
             On(i, x) == VictimsOn(a, dir, [x |-> x, y |-> rows[i]])
         IN
         /\ \A d \in Victims(a, dir) :
              \E i \in DOMAIN rows, x \in columns \cup {info[a].cur.x} : d \in On(i, x)
         /\ Victims(a, dir) = {} => \A i \in DOMAIN rows, x \in columns : On(i, x) = {}
<1> DEFINE rows     == SearchRows(a)
           columns  == SearchColumns(a, dir)
           On(i, x) == VictimsOn(a, dir, [x |-> x, y |-> rows[i]])
           own      == info[a].cur.x
           InRow(i) == IF On(i, own) # {} THEN On(i, own) ELSE UNION {On(i, x) : x \in columns}
<1>1. 1 \in DOMAIN rows
  BY DEF SearchRows
<1>2. Victims(a, dir) = IF InRow(1) # {} THEN InRow(1) ELSE UNION {InRow(i) : i \in DOMAIN rows}
  BY DEF Victims
<1> HIDE DEF rows, columns, On, own
<1>3. \A d \in Victims(a, dir) :
        \E i \in DOMAIN rows, x \in columns \cup {own} : d \in On(i, x)
  <2>1. \A i : \A d \in InRow(i) : \E x \in columns \cup {own} : d \in On(i, x)
    OBVIOUS
  <2> HIDE DEF InRow
  <2> QED
    BY <1>1, <1>2, <2>1
<1>4. Victims(a, dir) = {} => \A i \in DOMAIN rows, x \in columns : On(i, x) = {}
  <2>1. \A i : InRow(i) = {} => \A x \in columns : On(i, x) = {}
    OBVIOUS
  <2> HIDE DEF InRow
  <2> QED
    BY <1>2, <2>1
<1> QED
  BY <1>3, <1>4 DEF rows, columns, On, own

\* Whom an attack hits is near the attacker.
LEMMA SearchStaysNear == IInv => DamageReachesAttacker
<1> SUFFICES ASSUME IInv, OnGrid, NEW p \in Pairs, NEW dir \in {LL, RR},
                    p[2] \in Victims(p[1], dir)
             PROVE  Neighbours(info[p[1]].cur, info[p[2]].cur)
  BY DEF DamageReachesAttacker
<1> DEFINE a == p[1]
           d == p[2]
           rows == SearchRows(a)
<1>1. a \in mCharacterList
  BY DEF Pairs
<1>2. info[a].cur \in Sectors
  BY <1>1, PositionsAreNat DEF IInv, OnGrid
<1>3. PICK i \in DOMAIN rows, x \in SearchColumns(a, dir) \cup {info[a].cur.x} :
        d \in VictimsOn(a, dir, [x |-> x, y |-> rows[i]])
  BY VictimsAreOnSearched
<1> DEFINE s == [x |-> x, y |-> rows[i]]
<1>4. s \in Sectors /\ Neighbours(info[a].cur, s)
  BY <1>2, <1>3, SearchedSectors
<1> HIDE DEF s
<1>5. d \in mSectorList[s]
  BY <1>3 DEF VictimsOn, s
<1>6. info[d].cur = s
  BY <1>4, <1>5 DEF IInv, ListsFit
<1> QED
  BY <1>4, <1>6

\* Whoever an attack hits is on a sector around the attacker's: the search
\* for a victim follows the lists, and they fit.
THEOREM AttackerSeesDamage == SpecWithAttacks => []DamageReachesAttacker
BY InvariantHolds, SearchStaysNear, PTL

-----------------------------------------------------------------------------
\* The search misses nobody: first the numbers.

\* Division by the side of a sector.
LEMMA DivBounds ==
  ASSUME NEW n \in Nat, NEW w \in Nat \ {0}
  PROVE  /\ n \div w \in Nat
         /\ w * (n \div w) <= n /\ n < w * (n \div w) + w
         /\ n < w => n \div w = 0
OBVIOUS

\* Positions less than a sector apart are in the same or in adjacent sectors.
LEMMA Adjacent ==
  ASSUME NEW n \in Nat, NEW m \in Nat, NEW w \in Nat \ {0}, n <= m, m <= n + w
  PROVE  m \div w \in {n \div w, n \div w + 1}
<1> DEFINE q == n \div w
           p == m \div w
<1>1. /\ q \in Nat /\ p \in Nat
      /\ w * q <= n /\ n < w * q + w /\ w * p <= m /\ m < w * p + w
  BY DivBounds
<1> HIDE DEF p, q
<1>2. w * q < w * (p + 1) /\ w * p < w * (q + 2)
  BY <1>1
<1>3. q < p + 1 /\ p < q + 2
  BY <1>1, <1>2
<1> QED
  BY <1>1, <1>3 DEF p, q

\* A row that the range reaches is searched.
LEMMA OtherRow ==
  ASSUME NEW u \in Nat, NEW v \in Nat, NEW g \in Nat, NEW h \in Nat \ {0},
         2 * g < h, u <= v + g, v <= u + g
  PROVE  LET r    == u \div h
             t    == v \div h
             up   == Quotient(u - g, h)
             down == Quotient(u + g, h)
         IN
         \/ t = r
         \/ t = r - 1 /\ up = r - 1
         \/ t = r + 1 /\ down = r + 1 /\ ~(up > -1 /\ up = r - 1)
<1> DEFINE r    == u \div h
           t    == v \div h
           up   == Quotient(u - g, h)
           down == Quotient(u + g, h)
<1>1. /\ r \in Nat /\ h * r <= u /\ u < h * r + h
      /\ t \in Nat /\ h * t <= v /\ v < h * t + h
  BY DivBounds
<1>2. g < h
  OBVIOUS
<1>3. t = r \/ t = r - 1 \/ t = r + 1
  <2>1. CASE u <= v
    BY <1>1, <1>2, <2>1, Adjacent
  <2>2. CASE v <= u
    BY <1>1, <1>2, <2>2, Adjacent
  <2> QED
    BY <2>1, <2>2
<1>4. down \in Nat /\ h * down <= u + g /\ u + g < h * down + h
  BY DivBounds DEF Quotient
<1>5. CASE u < g
  <2>1. r = 0
    BY <1>2, <1>5, DivBounds
  <2>2. up = 0
    BY <1>2, <1>5, DivBounds DEF Quotient
  <2>3. t = 1 => down = 1
    <3> HIDE DEF r, t, up, down
    <3> QED
      BY <1>1, <1>2, <1>4, <1>5
  <2> QED
    BY <1>1, <1>3, <2>1, <2>2, <2>3
<1>6. CASE u >= g
  <2>1. up \in Nat /\ h * up <= u - g /\ u - g < h * up + h
    BY <1>6, DivBounds DEF Quotient
  <2> HIDE DEF r, t, up, down
  <2>2. ASSUME t = r - 1 PROVE up = r - 1
    <3>1. h * t = h * r - h
      BY <1>1, <2>2
    <3>2. h * up < h * r /\ h * (r - 2) < h * up
      BY <1>1, <1>2, <2>1, <2>2, <3>1
    <3> QED
      BY <1>1, <2>1, <3>2
  <2>3. ASSUME t = r + 1 PROVE down = r + 1 /\ up # r - 1
    <3>1. h * t = h * r + h
      BY <1>1, <2>3
    <3>2. h * r < h * down /\ h * down < h * (r + 2) /\ h * (r - 1) < h * up
      BY <1>1, <1>2, <1>4, <1>6, <2>1, <2>3, <3>1
    <3> QED
      BY <1>1, <1>4, <2>1, <3>2
  <2> QED
    BY <1>3, <2>2, <2>3 DEF r, t, up, down
<1> QED
  BY <1>5, <1>6

\* Of some numbers one is the smallest.
LEMMA Smallest ==
  ASSUME NEW T, T \subseteq Nat, T # {}
  PROVE  \E x \in T : \A y \in T : x <= y
<1> DEFINE R == OpToRel(<, Nat)
<1>1. PICK x \in T : \A y \in T : <<y, x>> \notin R
  <2>1. IsWellFoundedOn(R, Nat)
    BY NatLessThanWellFounded
  <2> HIDE DEF R
  <2> QED
    BY <2>1, WFMin
<1>2. \A y \in T : ~(y < x)
  BY <1>1 DEF OpToRel
<1> QED
  BY <1>2

\* Where someone can be hit, there is a victim: one that is closest.
LEMMA ClosestExists ==
  ASSUME TypeOK, NEW a \in Characters, NEW dir \in {LL, RR}, NEW s \in Sectors,
         NEW d \in mSectorList[s] \ {a}, CanBeHit(a, d, dir)
  PROVE  VictimsOn(a, dir, s) # {}
<1> DEFINE ahead(e) == AheadX(a, e, dir)
           aside(e) == AsideY(a, e)
           reached  == {e \in mSectorList[s] \ {a} : CanBeHit(a, e, dir)}
<1>1. \A e \in reached : ahead(e) \in Nat /\ aside(e) \in Nat
  BY PositionsAreNat, RangesFitSectors DEF CanBeHit, AsideY, TypeOK
<1>2. d \in reached
  OBVIOUS
<1> HIDE DEF ahead, aside, reached
<1>3. PICK m \in {ahead(e) : e \in reached} : \A e \in reached : m <= ahead(e)
  <2> DEFINE T == {ahead(e) : e \in reached}
  <2>1. T \subseteq Nat /\ T # {}
    BY <1>1, <1>2
  <2>2. \E x \in T : \A y \in T : x <= y
    <3> HIDE DEF T
    <3> QED
      BY <2>1, Smallest
  <2> QED
    BY <2>2
<1>4. PICK f \in reached : ahead(f) = m /\ \A e \in reached : ahead(e) = m => aside(f) <= aside(e)
  <2> DEFINE T == {aside(e) : e \in {g \in reached : ahead(g) = m}}
  <2>1. T \subseteq Nat /\ T # {}
    BY <1>1, <1>3
  <2>2. \E x \in T : \A y \in T : x <= y
    <3> HIDE DEF T
    <3> QED
      BY <2>1, Smallest
  <2> QED
    BY <2>2
<1>5. \A e \in reached : ~Closer(ahead(e), aside(e), ahead(f), aside(f))
  BY <1>1, <1>3, <1>4 DEF Closer
<1>6. f \in VictimsOn(a, dir, s)
  BY <1>4, <1>5 DEF VictimsOn, reached, ahead, aside
<1> QED
  BY <1>6

-----------------------------------------------------------------------------
\* Whoever is in range is on a sector that is searched.
LEMMA RangeIsSearched ==
  ASSUME TypeOK, OffGridOnlyPastShort,
         NEW a \in Characters, NEW d \in Characters, NEW dir \in {LL, RR},
         Fresh(a), Fresh(d), InRange(a, d, dir)
  PROVE  \E i \in DOMAIN SearchRows(a), x \in SearchColumns(a, dir) :
           info[d].cur = [x |-> x, y |-> SearchRows(a)[i]]
<1> DEFINE r == info[a].y \div SectorHeight
           t == info[d].y \div SectorHeight
           p == info[a].x \div SectorWidth
           q == info[d].x \div SectorWidth
           up   == Quotient(info[a].y - RangeY, SectorHeight)
           down == Quotient(info[a].y + RangeY, SectorHeight)
           rows == SearchRows(a)
<1>1. /\ info[a].x \in Nat /\ info[a].y \in Nat /\ info[d].x \in Nat /\ info[d].y \in Nat
      /\ info[a].cur \in Sectors /\ info[d].cur \in Sectors
  BY PositionsAreNat DEF OffGridOnlyPastShort, Fresh
<1>2. info[a].cur = [x |-> p, y |-> r] /\ info[d].cur = [x |-> q, y |-> t]
  <2>1. \A c \in Characters :
          /\ info[c].x \in Words /\ info[c].y \in Words
          /\ info[c].x \in Nat /\ info[c].y \in Nat
    BY PositionsAreNat DEF TypeOK
  <2>2. \A c \in {a, d} : info[c].x < ShortEnd /\ info[c].y < ShortEnd
    BY <2>1, GridSizes DEF Fresh, PastShort
  <2> QED
    BY <2>1, <2>2, SectorOfPosition DEF Fresh
<1>3. /\ SectorWidth \in Nat \ {0} /\ SectorHeight \in Nat \ {0}
      /\ RangeX \in Nat /\ RangeX <= SectorWidth /\ RangeY \in Nat /\ 2 * RangeY < SectorHeight
  BY GridSizes, RangesFitSectors
<1>4. /\ p \in Nat /\ q \in Nat /\ r \in Nat /\ t \in Nat
  BY <1>1, <1>3, DivBounds
<1>5. q \in 0 .. Width - 1 /\ t \in 0 .. Height - 1 /\ Width \in Int /\ Height \in Int
  BY <1>1, <1>2, Division, GridSizes DEF Sectors, Width, Height
<1>6. q \in SearchColumns(a, dir)
  <2>1. CASE dir = LL
    <3>1. info[d].x <= info[a].x /\ info[a].x <= info[d].x + SectorWidth
      BY <1>1, <1>3, <2>1 DEF InRange, AheadX
    <3>2. p \in {q, q + 1}
      BY <1>1, <1>3, <3>1, Adjacent
    <3> HIDE DEF p, q
    <3> QED
      BY <1>2, <1>4, <1>5, <2>1, <3>2 DEF SearchColumns
  <2>2. CASE dir = RR
    <3>1. info[a].x <= info[d].x /\ info[d].x <= info[a].x + SectorWidth
      BY <1>1, <1>3, <2>2 DEF InRange, AheadX, LL, RR
    <3>2. q \in {p, p + 1}
      BY <1>1, <1>3, <3>1, Adjacent
    <3> HIDE DEF p, q
    <3> QED
      BY <1>2, <1>4, <1>5, <2>2, <3>2 DEF SearchColumns, LL, RR
  <2> QED
    BY <2>1, <2>2
<1>7. \/ t = r
      \/ t = r - 1 /\ up = r - 1
      \/ t = r + 1 /\ down = r + 1 /\ ~(up > -1 /\ up = r - 1)
  <2> DEFINE u == info[a].y
             v == info[d].y
             h == SectorHeight
  <2>1. u <= v + RangeY /\ v <= u + RangeY
    BY <1>1, <1>3 DEF InRange, AsideY
  <2>2. u \in Nat /\ v \in Nat /\ h \in Nat \ {0} /\ RangeY \in Nat /\ 2 * RangeY < h
    BY <1>1, <1>3
  <2> HIDE DEF u, v, h
  <2>3. \/ v \div h = u \div h
        \/ v \div h = u \div h - 1 /\ Quotient(u - RangeY, h) = u \div h - 1
        \/ /\ v \div h = u \div h + 1 /\ Quotient(u + RangeY, h) = u \div h + 1
           /\ ~(Quotient(u - RangeY, h) > -1 /\ Quotient(u - RangeY, h) = u \div h - 1)
    BY <2>1, <2>2, OtherRow
  <2> QED
    BY <2>3 DEF u, v, h
<1>8. rows = IF up > -1 /\ up = r - 1 THEN <<r, up>>
             ELSE IF down < Height /\ down = r + 1 THEN <<r, down>>
             ELSE <<r>>
  BY <1>2 DEF SearchRows
<1> HIDE DEF p, q, r, t, up, down, rows
<1>9. \E i \in DOMAIN rows : rows[i] = t
  <2>1. CASE t = r
    <3>1. 1 \in DOMAIN rows /\ rows[1] = r
      BY <1>8
    <3> QED
      BY <2>1, <3>1
  <2>2. CASE t = r - 1 /\ up = r - 1
    <3>1. rows = <<r, t>>
      BY <1>4, <1>5, <1>8, <2>2
    <3> QED
      BY <3>1
  <2>3. CASE t = r + 1 /\ down = r + 1 /\ ~(up > -1 /\ up = r - 1)
    <3>1. rows = <<r, t>>
      BY <1>4, <1>5, <1>8, <2>3
    <3> QED
      BY <3>1
  <2> QED
    BY <1>7, <2>1, <2>2, <2>3
<1> QED
  BY <1>2, <1>6, <1>9 DEF rows

\* With fitting lists the search finds someone when anyone is in range.
LEMMA SearchMissesNobody == IInv => NobodyInRangeIsMissed
<1> SUFFICES ASSUME IInv, NEW pair \in Pairs, NEW dir \in {LL, RR},
                    Fresh(pair[1]), Fresh(pair[2]),
                    InRange(pair[1], pair[2], dir), ~OnCorner(pair[1], pair[2], dir),
                    Victims(pair[1], dir) = {}
             PROVE  FALSE
  BY DEF NobodyInRangeIsMissed
<1> DEFINE a == pair[1]
           d == pair[2]
           rows == SearchRows(a)
<1>1. /\ TypeOK /\ OffGridOnlyPastShort
      /\ a \in Characters /\ d \in mCharacterList /\ d \in Characters /\ d # a
  BY DEF IInv, TypeOK, Pairs
<1>2. PICK i \in DOMAIN rows, x \in SearchColumns(a, dir) :
        info[d].cur = [x |-> x, y |-> rows[i]]
  BY <1>1, RangeIsSearched
<1>3. CanBeHit(a, d, dir)
  <2>1. AsideY(a, d) \in Nat /\ RangeX \in Nat /\ RangeY \in Nat
    BY <1>1, PositionsAreNat, RangesFitSectors, GridSizes DEF AsideY
  <2> QED
    BY <2>1 DEF InRange, OnCorner, CanBeHit, Closer
<1>4. info[d].cur \in Sectors /\ d \in mSectorList[info[d].cur] \ {a}
  BY <1>1 DEF IInv, ListsFit, OffGridOnlyPastShort, Fresh
<1>5. VictimsOn(a, dir, info[d].cur) # {}
  BY <1>1, <1>3, <1>4, ClosestExists
<1>6. VictimsOn(a, dir, [x |-> x, y |-> rows[i]]) = {}
  BY VictimsAreOnSearched
<1> QED
  BY <1>2, <1>5, <1>6

\* While the sectors of both fit their positions, an attack hits someone if
\* anyone is in its range, the far corners aside: two columns and one other
\* row are enough.
THEOREM NobodyIsMissed == SpecWithAttacks => []NobodyInRangeIsMissed
BY InvariantHolds, SearchMissesNobody, PTL
-----------------------------------------------------------------------------
\* Whom a frame cuts off, of the module Vitality: for every timeout and all
\* numbers of characters, hits and ticks, until the clock starts again only the
\* dead and the silent.

CONSTANTS ClockRange, ClockWraps, MaxLag, Timeout, CharRange, DefaultHp, Damages,
          MaxHits
VARIABLES clock, age, lastRecvTime, hp, cut, present, endTime, unvisited, hits

Clock == INSTANCE Vitality

\* What the clock says of a client is what passed since it was last heard of,
\* and neither its last message nor the start of the frame is in the future.
ClockHolds ==
  /\ clock \in Nat /\ clock < ClockRange
  /\ endTime \in Nat /\ endTime <= clock
  /\ age \in [Characters -> Nat]
  /\ lastRecvTime \in [Characters -> Nat]
  /\ \A c \in Characters :
       /\ lastRecvTime[c] <= clock
       /\ age[c] <= Timeout => clock - lastRecvTime[c] = age[c]

LEMMA ClockHoldsAtFirst ==
  ASSUME Clock!VitalityConstants, Clock!Init
  PROVE  ClockHolds
BY DEF Clock!VitalityConstants, Clock!Init, ClockHolds

LEMMA ClockStep ==
  ASSUME Clock!VitalityConstants, ClockWraps = FALSE, ClockHolds,
         [Clock!Next]_(Clock!vars)
  PROVE  ClockHolds'
<1>1. CASE Clock!Tick
  <2>1. clock + 1 < ClockRange /\ ClockRange \in Nat
    BY <1>1 DEF Clock!VitalityConstants, Clock!Tick, ClockHolds
  <2>2. clock' = clock + 1
    BY <1>1, <2>1 DEF Clock!Tick, ClockHolds
  <2>3. age' \in [Characters -> Nat]
    BY <1>1 DEF Clock!VitalityConstants, Clock!Tick, ClockHolds
  <2>4. ASSUME NEW c \in Characters, age'[c] <= Timeout
        PROVE  clock' - lastRecvTime'[c] = age'[c]
    <3>1. age'[c] = IF age[c] > Timeout THEN age[c] ELSE age[c] + 1
      BY <1>1 DEF Clock!Tick
    <3>2. age[c] <= Timeout /\ age'[c] = age[c] + 1
      BY <3>1, <2>4 DEF Clock!VitalityConstants, ClockHolds
    <3> QED
      BY <1>1, <2>2, <3>2 DEF Clock!VitalityConstants, Clock!Tick, ClockHolds
  <2> QED
    BY <1>1, <2>1, <2>2, <2>3, <2>4 DEF Clock!Tick, ClockHolds
<1>2. ASSUME NEW d \in Characters, Clock!OnRecv(d) PROVE ClockHolds'
  BY <1>2 DEF Clock!VitalityConstants, Clock!OnRecv, ClockHolds
<1>3. CASE Clock!FrameStarts
  BY <1>3 DEF Clock!FrameStarts, ClockHolds
<1>4. ASSUME NEW d \in Characters,
             \/ \E damage \in Damages : Clock!Damage(d, damage)
             \/ Clock!Visit(d)
             \/ Clock!OnRelease(d)
      PROVE  ClockHolds'
  BY <1>4 DEF Clock!Damage, Clock!Visit, Clock!OnRelease, ClockHolds
<1>5. CASE UNCHANGED Clock!vars
  BY <1>5 DEF Clock!vars, ClockHolds
<1> QED
  BY <1>1, <1>2, <1>3, <1>4, <1>5 DEF Clock!Next

\* Whom a frame cuts is dead or silent now, though its endTime is older.
LEMMA CutStep ==
  ASSUME Clock!VitalityConstants, ClockHolds, [Clock!Next]_(Clock!vars),
         NEW c \in cut' \ cut
  PROVE  hp[c] < 1 \/ age[c] > Timeout
<1>1. PICK d \in Characters : Clock!Visit(d)
  BY DEF Clock!Next, Clock!vars, Clock!Tick, Clock!OnRecv, Clock!Damage,
         Clock!FrameStarts, Clock!OnRelease
<1>2. c = d /\ (Clock!Dead(c) \/ Clock!Silent(c))
  BY <1>1 DEF Clock!Visit
<1>3. CASE Clock!Silent(c)
  <2>1. endTime - lastRecvTime[c] > Timeout
    BY <1>3 DEF Clock!Silent
  <2>2. /\ endTime \in Nat /\ clock \in Nat /\ endTime <= clock
        /\ lastRecvTime[c] \in Nat /\ age[c] \in Nat /\ Timeout \in Nat
        /\ age[c] <= Timeout => clock - lastRecvTime[c] = age[c]
    BY <1>2 DEF Clock!VitalityConstants, ClockHolds
  <2> QED
    BY <2>1, <2>2
<1> QED
  BY <1>2, <1>3 DEF Clock!Dead

\* Until timeGetTime starts again, a connection is cut only if its character is
\* dead or nothing was received for the timeout (MmoTcpFighterServer.cpp
\* 194-224), whatever arrives between the start of a frame and its visits.
THEOREM HeardOfAreKept ==
  ASSUME Clock!VitalityConstants, ClockWraps = FALSE
  PROVE  Clock!Spec => Clock!OnlySilentOrDeadAreCut
<1> DEFINE OnlySuch == \A c \in cut' \ cut : hp[c] < 1 \/ age[c] > Timeout
<1>1. ClockHolds /\ [Clock!Next]_(Clock!vars) => ClockHolds'
  BY ClockStep
<1>2. ClockHolds /\ [Clock!Next]_(Clock!vars) => [OnlySuch]_(Clock!vars)
  BY CutStep
<1> HIDE DEF OnlySuch
<1>3. Clock!Spec => [][OnlySuch]_(Clock!vars)
  BY <1>1, <1>2, ClockHoldsAtFirst, PTL DEF Clock!Spec
<1> QED
  BY <1>3 DEF OnlySuch, Clock!OnlySilentOrDeadAreCut
=============================================================================
