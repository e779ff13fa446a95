----------------------------- MODULE SectorGrid -----------------------------
(***************************************************************************)
(* The grid of sectors laid over the world: which sector a position is in, *)
(* which sectors are visible from one, and which come into view and go out *)
(* of it when a character changes sector.                                  *)
(*                                                                         *)
(* Positions are WORDs, sectors pairs of shorts, and the conversion passes *)
(* one as the other: from ShortEnd on a position counts as negative.       *)
(***************************************************************************)
EXTENDS Integers

CONSTANTS
  Right, Bottom,               \* dfRANGE_MOVE_RIGHT, dfRANGE_MOVE_BOTTOM
  SectorWidth, SectorHeight,   \* dfSECTOR_PIXEL_WIDTH, dfSECTOR_PIXEL_HEIGHT
  ShortEnd                     \* the first number that is no short, 2^15

ASSUME GridSizes ==
  /\ {Right, Bottom, ShortEnd} \subseteq Nat
  /\ {SectorWidth, SectorHeight} \subseteq Nat \ {0}
  /\ Right < ShortEnd /\ Bottom < ShortEnd

\* dfWORLD_SECTOR_WIDTH and dfWORLD_SECTOR_HEIGHT.
Width  == Right \div SectorWidth + 1
Height == Bottom \div SectorHeight + 1

Sectors == [x : 0 .. Width - 1, y : 0 .. Height - 1]

\* Positions, and a position as a short.
Words == 0 .. 2 * ShortEnd - 1
AsShort(n) == IF n < ShortEnd THEN n ELSE n - 2 * ShortEnd

\* Division as in C: towards zero.
Quotient(n, d) == IF n < 0 THEN -((-n) \div d) ELSE n \div d

ConvertWorldPosToSectorPos(x, y) ==
  [x |-> Quotient(AsShort(x), SectorWidth), y |-> Quotient(AsShort(y), SectorHeight)]

\* The test of Sector_UpdateCharacter for OUT_OF_RANGE_SECTOR: upper ends only.
OutOfRange(s) == s.y >= Height \/ s.x >= Width

\* GetSectorAround: the neighbours inside the world, with s if include.
SectorAround(s, include) ==
  {t \in Sectors :
     /\ t.x \in s.x - 1 .. s.x + 1
     /\ t.y \in s.y - 1 .. s.y + 1
     /\ t = s => include}

\* GetUpdateSectorAround.
RemoveSectors(old, cur) == SectorAround(old, TRUE) \ SectorAround(cur, TRUE)
AddSectors(old, cur)    == SectorAround(cur, TRUE) \ SectorAround(old, TRUE)
=============================================================================
