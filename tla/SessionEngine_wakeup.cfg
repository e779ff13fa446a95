\* The lost wake-up of PostSend.
SPECIFICATION Spec
CONSTANTS
  Sessions = {s1}
  Handles = {h1}
  Acceptor = acceptor
  Workers = {w1, w2}
  Callers = {updater}
  NoThread = NoThread
  NoSession = NoSession
  InvalidSocket = InvalidSocket
  SendCapacity = 5
  RecvSize = 2
  SendsMayFail = FALSE
  MaxCalls = 3
  MaxArrivals = 0
INVARIANT QueuedDataHasASender
