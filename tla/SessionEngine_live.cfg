\* Liveness, one session, two workers.
SPECIFICATION FairSpec
CONSTANTS
  Sessions = {s1}
  Handles = {h1}
  Acceptor = acceptor
  Workers = {w1, w2}
  Callers = {updater}
  NoThread = NoThread
  NoSession = NoSession
  InvalidSocket = InvalidSocket
  SendCapacity = 4
  RecvSize = 2
  SendsMayFail = FALSE
  MaxCalls = 2
  MaxArrivals = 2
PROPERTIES
  PeerGoneReleases
  CallsReturn
