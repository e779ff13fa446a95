\* One session, two workers, one caller: races on one session.
SPECIFICATION Spec
CONSTANTS
  Sessions = {s1}
  Handles = {h1}
  Acceptor = acceptor
  Workers = {w1, w2}
  Callers = {updater}
  NoThread = NoThread
  NoSession = NoSession
  InvalidSocket = InvalidSocket
  SendCapacity = 5
  RecvSize = 3
  SendsMayFail = FALSE
  MaxCalls = 3
  MaxArrivals = 4
SYMMETRY Symmetric
INVARIANTS
  TypeOK
  RefCountExact
  ZeroRefNever
  NoUseAfterFree
  SendTokenExclusive
  SendTokenNotLost
  InFlightIsQueued
  HandleStillOpen
PROPERTIES
  NoOperationAfterLastRef
  KeepsContract
