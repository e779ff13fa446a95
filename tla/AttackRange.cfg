\* Two characters on four by two sectors, wider than the range of an attack; a
\* step of one sector.  Clients get to 12, beyond the grid, to 20, as a short on
\* sector -3, and to 28, as a short back on sector 0.  A frame off the grid ends
\* a behaviour: what follows is undefined.
SPECIFICATION SpecWithAttacks
CONSTANTS
  Characters = {c1, c2}
  Right = 11
  Bottom = 5
  SectorWidth = 3
  SectorHeight = 3
  ShortEnd = 15
  Dirs = {1, 5}
  SpeedX = 3
  SpeedY = 3
  ErrorRange = 10
  ClientX = {2, 12, 20, 28}
  ClientY = {2, 3}
  RangeX = 2
  RangeY = 1
INVARIANTS
  TypeOK
  OffGridOnlyPastShort
  ViewsExact
  NobodyInRangeIsMissed
  DamageReachesAttacker
SYMMETRY Symmetry
CHECK_DEADLOCK FALSE
