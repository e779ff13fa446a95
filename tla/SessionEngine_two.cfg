\* Two sessions on two handles, two workers: calls across sessions, lock order.
SPECIFICATION Spec
CONSTANTS
  Sessions = {s1, s2}
  Handles = {h1, h2}
  Acceptor = acceptor
  Workers = {w1, w2}
  Callers = {updater}
  NoThread = NoThread
  NoSession = NoSession
  InvalidSocket = InvalidSocket
  SendCapacity = 3
  RecvSize = 2
  SendsMayFail = TRUE
  MaxCalls = 2
  MaxArrivals = 0
SYMMETRY Symmetric
INVARIANTS
  NoLockCycle
  NobodyWaitsForCallback
