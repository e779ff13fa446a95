\* A ring of five usable bytes, packets of two to five bytes; a payload of three
\* fits the ring and not recvPacket, and with it a behaviour ends.
SPECIFICATION Spec
CONSTANTS
  Size = 5
  Header = 2
  MaxLen = 3
  Capacity = 2
  Packets = 4
  WireMax = 6
INVARIANTS
  StreamIntact
  WholePacketsInOrder
  NothingHeldBack
  RoomToReceive
CHECK_DEADLOCK FALSE
