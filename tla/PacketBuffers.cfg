SPECIFICATION Spec
CONSTANTS
  Capacity = 12
  Me = "me"
  Others = {"first", "second"}
  Unknown = "unknown"
  MaxMet = 2
INVARIANTS
  SentAsLaidOut
  ReadsOwnPacket
