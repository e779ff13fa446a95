\* Disconnect against a PostRecv that has loaded the handle.
SPECIFICATION FairSpec
CONSTANTS
  Sessions = {s1}
  Handles = {h1}
  Acceptor = acceptor
  Workers = {w1}
  Callers = {updater}
  NoThread = NoThread
  NoSession = NoSession
  InvalidSocket = InvalidSocket
  SendCapacity = 4
  RecvSize = 2
  SendsMayFail = FALSE
  MaxCalls = 1
  MaxArrivals = 0
PROPERTY DisconnectReleases
