\* A ring of five usable bytes.
SPECIFICATION Spec
CONSTANTS
  Size = 5
  Header = 2
  Numbers = 7
INVARIANTS
  AcceptedPacketFits
  SendsOnlyPublished
PROPERTIES
  IsByteStream
