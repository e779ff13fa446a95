\* Two characters on a line of three sectors, two worker threads.
SPECIFICATION Spec
CONSTANTS
  Characters = {c1, c2}
  Acceptor = accept
  Workers = {w1, w2}
  Updater = update
  NoThread = nothread
  NoCharacter = nochar
  MaxPackets = 3
  RingMayFill = FALSE
  Right = 5
  Bottom = 1
  SectorWidth = 2
  SectorHeight = 2
  ShortEnd = 8
INVARIANTS
  TypeOK
  NoLockCycle
  NoUseOfDeleted
  HandlersFindTheirCharacter
  SectorListsExact
  NeighboursShown
  StayersPictureExact
SYMMETRY Symmetry
CHECK_DEADLOCK FALSE
