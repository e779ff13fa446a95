---------------------------- MODULE AttackRange ----------------------------
(***************************************************************************)
(* Whom an attack hits.  SearchCollisionOnSectors looks for the victim on  *)
(* the lists of at most four sectors, so whether the range of an attack is *)
(* what the player sees depends on the grid, on the size of the range and  *)
(* on how well the lists fit the positions; the positions, reports and     *)
(* frames are those of FighterViews.                                       *)
(*                                                                         *)
(* What an attack now would do is a property of the state, so the victims  *)
(* are operators; hp is in Vitality.                                       *)
(***************************************************************************)
EXTENDS FighterViews, FiniteSets

CONSTANTS RangeX, RangeY    \* dfATTACKn_RANGE_X, dfATTACKn_RANGE_Y

\* As in MmoTcpFighterContentSettings.h: 100 of 192 and 20 of 128.
ASSUME RangesFitSectors ==
  /\ RangeX \in 1 .. SectorWidth
  /\ RangeY \in Nat /\ 2 * RangeY < SectorHeight

LL == 0
RR == 4

\* How far d is in front of a that faces dir; negative is behind.
AheadX(a, d, dir) == IF dir = LL THEN info[a].x - info[d].x ELSE info[d].x - info[a].x
AsideY(a, d) == IF info[a].y > info[d].y THEN info[a].y - info[d].y
                ELSE info[d].y - info[a].y

\* Nearer in front, or level and nearer to the side.
Closer(x, y, u, v) == x < u \/ (x = u /\ y < v)

\* The tests of the inner loop, the first victim against the range itself.
CanBeHit(a, d, dir) ==
  /\ AheadX(a, d, dir) \in 0 .. RangeX
  /\ AsideY(a, d) <= RangeY
  /\ Closer(AheadX(a, d, dir), AsideY(a, d), RangeX, RangeY)

\* The victim on one sector; several if they stand on the same spot.
VictimsOn(a, dir, s) ==
  LET reached == {d \in mSectorList[s] \ {a} : CanBeHit(a, d, dir)} IN
  {d \in reached :
     \A e \in reached :
       ~Closer(AheadX(a, e, dir), AsideY(a, e), AheadX(a, d, dir), AsideY(a, d))}

\* The other row that is searched, if any: the one above before the one below.
SearchRows(a) ==
  LET y    == info[a].cur.y
      up   == Quotient(info[a].y - RangeY, SectorHeight)
      down == Quotient(info[a].y + RangeY, SectorHeight)
  IN
  IF up > -1 /\ up = y - 1 THEN <<y, up>>
  ELSE IF down < Height /\ down = y + 1 THEN <<y, down>>
  ELSE <<y>>

\* Mutant: only the attacker's own column.
OwnColumn(a, dir) == {info[a].cur.x} \cap 0 .. Width - 1

\* Mutant: a third column.
ThreeColumns(a, dir) ==
  (IF dir = LL THEN info[a].cur.x - 2 .. info[a].cur.x
   ELSE info[a].cur.x .. info[a].cur.x + 2) \cap 0 .. Width - 1

\* The attacker's column and the next one in front.
SearchColumns(a, dir) ==
  (IF dir = LL THEN info[a].cur.x - 1 .. info[a].cur.x
   ELSE info[a].cur.x .. info[a].cur.x + 1) \cap 0 .. Width - 1

\* SearchCollisionOnSectors: the first sector with a victim decides, row by
\* row and in each row the attacker's own column first.
Victims(a, dir) ==
  LET rows  == SearchRows(a)
      On(i, x) == VictimsOn(a, dir, [x |-> x, y |-> rows[i]])
      InRow(i) ==
        IF On(i, info[a].cur.x) # {} THEN On(i, info[a].cur.x)
        ELSE UNION {On(i, x) : x \in SearchColumns(a, dir)}
  IN
  IF InRow(1) # {} THEN InRow(1)
  ELSE UNION {InRow(i) : i \in DOMAIN rows}

-----------------------------------------------------------------------------
\* An attack also reports the attacker's position.
Attack(c, x, y) ==
  /\ c \in mCharacterList
  /\ info' = Reported(c, x, y, info[c].action)
  /\ UNCHANGED <<mCharacterList, mSectorList, view>>

NextWithAttacks ==
  \/ Next
  \/ OnGrid /\ \E c \in Characters, x \in ClientX, y \in ClientY : Attack(c, x, y)

SpecWithAttacks == Init /\ [][NextWithAttacks]_vars

-----------------------------------------------------------------------------
\* Properties, for every attack that could come now.

Pairs == {p \in mCharacterList \X mCharacterList : p[1] # p[2]}

\* A frame has seen the position, and a short can hold it.
Fresh(c) ==
  /\ ~PastShort(info[c])
  /\ info[c].cur = ConvertWorldPosToSectorPos(info[c].x, info[c].y)

\* In front and within the range.
InRange(a, d, dir) == AheadX(a, d, dir) \in 0 .. RangeX /\ AsideY(a, d) <= RangeY
OnCorner(a, d, dir) == AheadX(a, d, dir) = RangeX /\ AsideY(a, d) = RangeY

\* The two columns and the one other row hold everyone in range: while the
\* sectors of both fit their positions, an attack that hits nobody has nobody
\* in its range, the far corners aside.
NobodyInRangeIsMissed ==
  \A p \in Pairs, dir \in {LL, RR} :
    Fresh(p[1]) /\ Fresh(p[2]) /\ InRange(p[1], p[2], dir) /\ ~OnCorner(p[1], p[2], dir)
      => Victims(p[1], dir) # {}

\* Whoever an attack can hit is on a sector around the attacker's: the DAMAGE
\* that is sent around the victim reaches the attacker too.
DamageReachesAttacker ==
  OnGrid =>
    \A p \in Pairs, dir \in {LL, RR} :
      p[2] \in Victims(p[1], dir) => Neighbours(info[p[1]].cur, info[p[2]].cur)
=============================================================================
