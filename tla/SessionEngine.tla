--------------------------- MODULE SessionEngine ---------------------------
(***************************************************************************)
(* AsyncNetworkServerEngine: the accept thread, the IOCP worker threads    *)
(* and the threads that call SendPacket and Disconnect, over sessions that *)
(* are kept alive by the counter overlappedIOCnt.                          *)
(*                                                                         *)
(* One action is one step between two accesses of state another thread can *)
(* reach: an Interlocked operation, a lock, an index of a ring, a Winsock  *)
(* call, a completion.  A step that reads or writes only what its thread   *)
(* owns is merged with the next one.                                       *)
(*                                                                         *)
(* Data.  A packet is two units of a ring: its NET_PACKET_HEADER and its   *)
(* payload, which SendPacket enqueues one after the other.  A socket       *)
(* handle is a member of Handles and is reused once closed.                *)
(*                                                                         *)
(* External: Winsock and the completion port (the section "Kernel"), as    *)
(* the source uses them.                                                   *)
(***************************************************************************)
EXTENDS RingIndices, FiniteSets

CONSTANTS
  Sessions,      \* sessions that can be accepted
  Handles,       \* socket handle values
  Acceptor,      \* the accept thread
  Workers,       \* the IOCP worker threads
  Callers,       \* threads of the content that call the engine (UpdateThread)
  NoThread, NoSession, InvalidSocket,
  SendCapacity,  \* __capacity of the send ring, in units
  RecvSize,      \* usable units of the receive ring
  SendsMayFail,  \* whether WSASend can fail on a healthy connection
  MaxCalls,      \* bound: SendPacket and Disconnect calls of a behaviour
  MaxArrivals    \* bound: units a peer sends on one session

Threads == {Acceptor} \cup Workers \cup Callers

ASSUME ThreadsAssumption ==
  /\ IsFiniteSet(Threads)
  /\ Acceptor \notin Workers \cup Callers
  /\ Workers \cap Callers = {}
  /\ NoThread \notin Threads

ASSUME ValuesAssumption ==
  /\ NoSession \notin Sessions
  /\ InvalidSocket \notin Handles

ASSUME SizesAssumption ==
  /\ SendCapacity \in Nat /\ SendCapacity >= 3
  /\ RecvSize \in Nat /\ RecvSize >= 2
  /\ SendsMayFail \in BOOLEAN
  /\ MaxCalls \in Nat
  /\ MaxArrivals \in Nat

VARIABLES
  \* Threads.
  at,            \* where the thread is in IOCPWorkerThread or AcceptThread
  cur,           \* ptrSession of that loop
  call,          \* where it is in SendPacket or Disconnect, "none" outside
  target,        \* the session of that call
  handle,        \* socketForWSACall as loaded for a WSASend or WSARecv
  rearSeen,      \* the rear of the send ring as loaded by the worker
  calls,         \* calls made so far, bounded by MaxCalls
  \* The session table.
  mSessionMap, mSessionMapSRWLock,
  \* One entry per session: the members of struct Session.
  status,        \* "unborn", "live", "freed": the heap block
  socketForWSACall, socketForReleaseSession,
  sessionSRWLock, overlappedIOCnt, bWaitSend,
  sendFront, sendRear, recvUse,
  \* The kernel's side of a session.
  socketOpen,    \* the socket is not yet closed by closesocket
  conn,          \* "up", "closed" (FIN seen), "reset"
  recvIO, sendIO,  \* the overlapped operation and its queued completion
  recvBytes,     \* numberOfBytesTransferred of a completed receive
  inFlight,      \* units handed to WSASend and not yet taken off the ring
  failedPosts,   \* queued completions with FAILED_SEND_PACKET
  arrivals       \* units the peer has sent, bounded by MaxArrivals

engineVars == <<at, cur>>
callVars   == <<call, target, calls>>
loadVars   == <<handle, rearSeen>>
tableVars  == <<mSessionMap, mSessionMapSRWLock, sessionSRWLock>>
lifeVars   == <<status, socketForReleaseSession, socketOpen>>
recvVars   == <<recvIO, recvBytes, recvUse, arrivals>>
ringVars   == <<sendFront, sendRear>>
sendVars   == <<bWaitSend, sendIO, inFlight, failedPosts>>

vars == <<engineVars, callVars, loadVars, tableVars, lifeVars, recvVars,
          ringVars, sendVars, socketForWSACall, overlappedIOCnt, conn>>

-----------------------------------------------------------------------------
\* Locations.  "zeroRef" is a trap: code that runs on its caller's reference
\* has seen the counter at zero (the branches at 506-509, 552-556, 568-571).

EngineLocs ==
  {"outside", "accept", "created", "onAccept", "wait", "parse", "onRecv",
   "postRecv", "recvCall", "moveFront", "clearWait", "loadRear", "loadFront",
   "token", "peek", "giveUp", "prepare", "sendCall", "fin", "zeroRef",
   "relClose", "relMap", "relLock", "onRelease", "relUnlock", "relDelete"}

CallLocs ==
  {"none", "sendLookup", "sendLock", "sendCheck", "sendPayload", "sendToken",
   "sendIncr", "sendUndo", "sendPrepare", "sendWSA", "sendClear", "sendPost",
   "discLookup", "discLock", "discExchange", "discCancel", "unlock"}

Callbacks == {"onAccept", "onRecv", "onRelease"}

Idle(t) == IF t = Acceptor THEN "accept" ELSE "wait"

\* The content knows a session from its OnAccept on.
Announced(s) ==
  /\ status[s] # "unborn"
  /\ ~(at[Acceptor] = "created" /\ cur[Acceptor] = s)

Init ==
  /\ at = [t \in Threads |-> IF t \in Callers THEN "outside" ELSE Idle(t)]
  /\ cur = [t \in Threads |-> NoSession]
  /\ call = [t \in Threads |-> "none"]
  /\ target = [t \in Threads |-> NoSession]
  /\ handle = [t \in Threads |-> InvalidSocket]
  /\ rearSeen = [t \in Threads |-> 0]
  /\ calls = 0
  /\ mSessionMap = {}
  /\ mSessionMapSRWLock = NoThread
  /\ status = [s \in Sessions |-> "unborn"]
  /\ socketForWSACall = [s \in Sessions |-> InvalidSocket]
  /\ socketForReleaseSession = [s \in Sessions |-> InvalidSocket]
  /\ sessionSRWLock = [s \in Sessions |-> NoThread]
  /\ overlappedIOCnt = [s \in Sessions |-> 0]
  /\ bWaitSend = [s \in Sessions |-> FALSE]
  /\ sendFront = [s \in Sessions |-> 0]
  /\ sendRear = [s \in Sessions |-> 0]
  /\ recvUse = [s \in Sessions |-> 0]
  /\ socketOpen = [s \in Sessions |-> FALSE]
  /\ conn = [s \in Sessions |-> "up"]
  /\ recvIO = [s \in Sessions |-> "none"]
  /\ sendIO = [s \in Sessions |-> "none"]
  /\ recvBytes = [s \in Sessions |-> 0]
  /\ inFlight = [s \in Sessions |-> 0]
  /\ failedPosts = [s \in Sessions |-> 0]
  /\ arrivals = [s \in Sessions |-> 0]

\* Thread t goes on to location loc of its loop.
Goto(t, loc) == at' = [at EXCEPT ![t] = loc]

\* Thread t goes on to location loc of the call it is in.
GotoCall(t, loc) == call' = [call EXCEPT ![t] = loc]

\* InterlockedIncrement and InterlockedDecrement of overlappedIOCnt.
Incr(s) == overlappedIOCnt' = [overlappedIOCnt EXCEPT ![s] = @ + 1]
Decr(s) == overlappedIOCnt' = [overlappedIOCnt EXCEPT ![s] = @ - 1]

\* A WSASend or WSARecv on a loaded handle is accepted by the kernel.
SocketAccepts(t, s) ==
  /\ handle[t] # InvalidSocket
  /\ socketOpen[s]
  /\ conn[s] # "reset"

-----------------------------------------------------------------------------
\* AcceptThread.

\* accept() returns a handle that no open socket has; CreateSession builds
\* the session and inserts it under the map lock (the lock is free again at
\* the end of the step).  Init already holds the constructor's values of the
\* members the step leaves alone.
CreateSession(s, h) ==
  /\ at[Acceptor] = "accept"
  /\ status[s] = "unborn"
  /\ \A o \in Sessions : socketOpen[o] => socketForReleaseSession[o] # h
  /\ mSessionMapSRWLock = NoThread
  /\ status' = [status EXCEPT ![s] = "live"]
  /\ socketForWSACall' = [socketForWSACall EXCEPT ![s] = h]
  /\ socketForReleaseSession' = [socketForReleaseSession EXCEPT ![s] = h]
  /\ socketOpen' = [socketOpen EXCEPT ![s] = TRUE]
  /\ mSessionMap' = mSessionMap \cup {s}
  /\ Goto(Acceptor, "created")
  /\ cur' = [cur EXCEPT ![Acceptor] = s]
  /\ UNCHANGED <<callVars, loadVars, mSessionMapSRWLock, sessionSRWLock,
                 recvVars, ringVars, sendVars, overlappedIOCnt, conn>>

\* Mutant: the accept thread runs OnAccept without a reference.
AcceptWithoutRef ==
  /\ at[Acceptor] = "created"
  /\ Goto(Acceptor, "onAccept")
  /\ UNCHANGED <<cur, callVars, loadVars, tableVars, lifeVars, recvVars,
                 ringVars, sendVars, socketForWSACall, overlappedIOCnt, conn>>

\* The accept thread takes a reference and enters OnAccept.
AcceptRef ==
  /\ at[Acceptor] = "created"
  /\ Incr(cur[Acceptor])
  /\ Goto(Acceptor, "onAccept")
  /\ UNCHANGED <<cur, callVars, loadVars, tableVars, lifeVars, recvVars,
                 ringVars, sendVars, socketForWSACall, conn>>

-----------------------------------------------------------------------------
\* Callbacks.  While one runs its thread may call SendPacket and Disconnect.

AfterCallback(loc) ==
  CASE loc = "onAccept"  -> "postRecv"
    [] loc = "onRecv"    -> "parse"
    [] loc = "onRelease" -> "relUnlock"

CallbackReturns(t) ==
  /\ at[t] \in Callbacks
  /\ call[t] = "none"
  /\ Goto(t, AfterCallback(at[t]))
  /\ UNCHANGED <<cur, callVars, loadVars, tableVars, lifeVars, recvVars,
                 ringVars, sendVars, socketForWSACall, overlappedIOCnt, conn>>

-----------------------------------------------------------------------------
\* PostRecv, by the accept thread and by the workers.

\* The increment and the load of socketForWSACall into the argument of
\* WSARecv: a Disconnect between the two is one before both.
PostRecv(t) ==
  /\ at[t] = "postRecv"
  /\ Incr(cur[t])
  /\ handle' = [handle EXCEPT ![t] = socketForWSACall[cur[t]]]
  /\ Goto(t, "recvCall")
  /\ UNCHANGED <<cur, callVars, rearSeen, tableVars, lifeVars, recvVars,
                 ringVars, sendVars, socketForWSACall, conn>>

WSARecvPends(t) ==
  LET s == cur[t] IN
  /\ at[t] = "recvCall"
  /\ SocketAccepts(t, s)
  /\ recvIO' = [recvIO EXCEPT ![s] = "pending"]
  /\ handle' = [handle EXCEPT ![t] = InvalidSocket]
  /\ Goto(t, "fin")
  /\ UNCHANGED <<cur, callVars, rearSeen, tableVars, lifeVars, recvBytes,
                 recvUse, arrivals, ringVars, sendVars, socketForWSACall,
                 overlappedIOCnt, conn>>

\* Mutant: the error path does not give the reference back.
WSARecvErrorWithoutDecr(t) ==
  /\ at[t] = "recvCall"
  /\ handle' = [handle EXCEPT ![t] = InvalidSocket]
  /\ Goto(t, "fin")
  /\ UNCHANGED <<cur, callVars, rearSeen, tableVars, lifeVars, recvVars,
                 ringVars, sendVars, socketForWSACall, overlappedIOCnt, conn>>

\* WSARecv may fail on an open connection, too, and does on a dead handle.
WSARecvError(t) ==
  LET s == cur[t] IN
  /\ at[t] = "recvCall"
  /\ Decr(s)
  /\ Goto(t, IF overlappedIOCnt[s] = 1 THEN "zeroRef" ELSE "fin")
  /\ handle' = [handle EXCEPT ![t] = InvalidSocket]
  /\ UNCHANGED <<cur, callVars, rearSeen, tableVars, lifeVars, recvVars,
                 ringVars, sendVars, socketForWSACall, conn>>

-----------------------------------------------------------------------------
\* FIN_COMPLETION_IO_PROCESS and the end of an accept.

DropRef(t) ==
  LET s == cur[t] IN
  /\ at[t] = "fin"
  /\ Decr(s)
  /\ IF overlappedIOCnt[s] = 1
     THEN Goto(t, "relClose") /\ UNCHANGED cur
     ELSE Goto(t, Idle(t)) /\ cur' = [cur EXCEPT ![t] = NoSession]
  /\ UNCHANGED <<callVars, loadVars, tableVars, lifeVars, recvVars,
                 ringVars, sendVars, socketForWSACall, conn>>

-----------------------------------------------------------------------------
\* ReleaseSession.

CloseSocket(t) ==
  /\ at[t] = "relClose"
  /\ socketOpen' = [socketOpen EXCEPT ![cur[t]] = FALSE]
  /\ Goto(t, "relMap")
  /\ UNCHANGED <<cur, callVars, loadVars, tableVars, status,
                 socketForReleaseSession, recvVars, ringVars, sendVars,
                 socketForWSACall, overlappedIOCnt, conn>>

\* Mutant: the session stays in the map until it is deleted.
LockMapWithoutErase(t) ==
  /\ at[t] = "relMap"
  /\ mSessionMapSRWLock = NoThread
  /\ mSessionMapSRWLock' = t
  /\ Goto(t, "relLock")
  /\ UNCHANGED <<cur, callVars, loadVars, mSessionMap, sessionSRWLock, lifeVars,
                 recvVars, ringVars, sendVars, socketForWSACall,
                 overlappedIOCnt, conn>>

EraseFromMap(t) ==
  /\ at[t] = "relMap"
  /\ mSessionMapSRWLock = NoThread
  /\ mSessionMapSRWLock' = t
  /\ mSessionMap' = mSessionMap \ {cur[t]}
  /\ Goto(t, "relLock")
  /\ UNCHANGED <<cur, callVars, loadVars, sessionSRWLock, lifeVars, recvVars,
                 ringVars, sendVars, socketForWSACall, overlappedIOCnt, conn>>

\* Mutant: ReleaseSession does not wait for the session lock.
ReleaseWithoutLock(t) ==
  /\ at[t] = "relLock"
  /\ mSessionMapSRWLock' = NoThread
  /\ Goto(t, "onRelease")
  /\ UNCHANGED <<cur, callVars, loadVars, mSessionMap, sessionSRWLock,
                 lifeVars, recvVars, ringVars, sendVars, socketForWSACall,
                 overlappedIOCnt, conn>>

\* Takes the session lock with the map lock held, then frees the map lock:
\* who already holds the session lock finishes first, nobody waits behind.
LockForRelease(t) ==
  /\ at[t] = "relLock"
  /\ sessionSRWLock[cur[t]] = NoThread
  /\ sessionSRWLock' = [sessionSRWLock EXCEPT ![cur[t]] = t]
  /\ mSessionMapSRWLock' = NoThread
  /\ Goto(t, "onRelease")
  /\ UNCHANGED <<cur, callVars, loadVars, mSessionMap, lifeVars, recvVars,
                 ringVars, sendVars, socketForWSACall, overlappedIOCnt, conn>>

UnlockReleased(t) ==
  /\ at[t] = "relUnlock"
  /\ sessionSRWLock' = [sessionSRWLock EXCEPT ![cur[t]] = NoThread]
  /\ Goto(t, "relDelete")
  /\ UNCHANGED <<cur, callVars, loadVars, mSessionMap, mSessionMapSRWLock,
                 lifeVars, recvVars, ringVars, sendVars, socketForWSACall,
                 overlappedIOCnt, conn>>

DeleteSession(t) ==
  /\ at[t] = "relDelete"
  /\ status' = [status EXCEPT ![cur[t]] = "freed"]
  /\ Goto(t, Idle(t))
  /\ cur' = [cur EXCEPT ![t] = NoSession]
  /\ UNCHANGED <<callVars, loadVars, tableVars, socketForReleaseSession,
                 socketOpen, recvVars, ringVars, sendVars, socketForWSACall,
                 overlappedIOCnt, conn>>

-----------------------------------------------------------------------------
\* IOCPWorkerThread: GetQueuedCompletionStatus.  The queue is a set of
\* completions; several workers take them in no particular order.

Takes(w, s, loc) ==
  /\ at[w] = "wait"
  /\ Goto(w, loc)
  /\ cur' = [cur EXCEPT ![w] = s]

\* A receive with data: MoveRear publishes the bytes in the receive ring,
\* which only the holder of the one receive of a session touches.
DequeueRecv(w, s) ==
  /\ recvIO[s] = "done"
  /\ Takes(w, s, "parse")
  /\ recvIO' = [recvIO EXCEPT ![s] = "none"]
  /\ recvUse' = [recvUse EXCEPT ![s] = @ + recvBytes[s]]
  /\ recvBytes' = [recvBytes EXCEPT ![s] = 0]
  /\ UNCHANGED <<callVars, loadVars, tableVars, lifeVars, arrivals, ringVars,
                 sendVars, socketForWSACall, overlappedIOCnt, conn>>

\* A receive that failed, was cancelled or brought 0 bytes.
DequeueRecvEnd(w, s) ==
  /\ recvIO[s] \in {"eof", "failed", "aborted"}
  /\ Takes(w, s, "fin")
  /\ recvIO' = [recvIO EXCEPT ![s] = "none"]
  /\ UNCHANGED <<callVars, loadVars, tableVars, lifeVars, recvBytes, recvUse,
                 arrivals, ringVars, sendVars, socketForWSACall,
                 overlappedIOCnt, conn>>

\* Mutant: bWaitSend is cleared before the front has moved.
DequeueSendClearing(w, s) ==
  /\ sendIO[s] = "done"
  /\ Takes(w, s, "moveFront")
  /\ sendIO' = [sendIO EXCEPT ![s] = "none"]
  /\ bWaitSend' = [bWaitSend EXCEPT ![s] = FALSE]
  /\ UNCHANGED <<callVars, loadVars, tableVars, lifeVars, recvVars, ringVars,
                 inFlight, failedPosts, socketForWSACall, overlappedIOCnt, conn>>

DequeueSend(w, s) ==
  /\ sendIO[s] = "done"
  /\ Takes(w, s, "moveFront")
  /\ sendIO' = [sendIO EXCEPT ![s] = "none"]
  /\ UNCHANGED <<callVars, loadVars, tableVars, lifeVars, recvVars, ringVars,
                 bWaitSend, inFlight, failedPosts, socketForWSACall,
                 overlappedIOCnt, conn>>

\* A send that failed or was cancelled: bWaitSend stays set.
DequeueSendEnd(w, s) ==
  /\ sendIO[s] \in {"failed", "aborted"}
  /\ Takes(w, s, "fin")
  /\ sendIO' = [sendIO EXCEPT ![s] = "none"]
  /\ inFlight' = [inFlight EXCEPT ![s] = 0]
  /\ UNCHANGED <<callVars, loadVars, tableVars, lifeVars, recvVars, ringVars,
                 bWaitSend, failedPosts, socketForWSACall, overlappedIOCnt,
                 conn>>

\* A completion posted by PostSendForSendPacket: only gives the reference
\* of that call back.
DequeueFailedPost(w, s) ==
  /\ failedPosts[s] > 0
  /\ Takes(w, s, "fin")
  /\ failedPosts' = [failedPosts EXCEPT ![s] = @ - 1]
  /\ UNCHANGED <<callVars, loadVars, tableVars, lifeVars, recvVars, ringVars,
                 bWaitSend, sendIO, inFlight, socketForWSACall,
                 overlappedIOCnt, conn>>

\* Mutant: the next receive is posted before the packets are handled.
ParsePacketAndRepost(w) ==
  /\ at[w] = "parse"
  /\ recvUse[cur[w]] >= 2
  /\ recvUse' = [recvUse EXCEPT ![cur[w]] = @ - 2]
  /\ IF recvIO[cur[w]] = "none"
     THEN recvIO' = [recvIO EXCEPT ![cur[w]] = "pending"] /\ Incr(cur[w])
     ELSE UNCHANGED <<recvIO, overlappedIOCnt>>
  /\ Goto(w, "onRecv")
  /\ UNCHANGED <<cur, callVars, loadVars, tableVars, lifeVars,
                 recvBytes, arrivals, ringVars, sendVars, socketForWSACall,
                 conn>>

\* The parse loop: OnRecv for each complete packet, PostRecv after the last.
ParsePacket(w) ==
  /\ at[w] = "parse"
  /\ recvUse[cur[w]] >= 2
  /\ recvUse' = [recvUse EXCEPT ![cur[w]] = @ - 2]
  /\ Goto(w, "onRecv")
  /\ UNCHANGED <<cur, callVars, loadVars, tableVars, lifeVars, recvIO,
                 recvBytes, arrivals, ringVars, sendVars, socketForWSACall,
                 overlappedIOCnt, conn>>

ParseEnds(w) ==
  /\ at[w] = "parse"
  /\ recvUse[cur[w]] < 2
  /\ Goto(w, "postRecv")
  /\ UNCHANGED <<cur, callVars, loadVars, tableVars, lifeVars, recvVars,
                 ringVars, sendVars, socketForWSACall, overlappedIOCnt, conn>>

-----------------------------------------------------------------------------
\* IOCPWorkerThread: a completed send, then PostSend.

MoveFront(w) ==
  LET s == cur[w] IN
  /\ at[w] = "moveFront"
  /\ sendFront' = [sendFront EXCEPT ![s] =
                     MovedFront(SendCapacity, sendRear[s], @, inFlight[s])]
  /\ inFlight' = [inFlight EXCEPT ![s] = 0]
  /\ Goto(w, "clearWait")
  /\ UNCHANGED <<cur, callVars, loadVars, tableVars, lifeVars, recvVars,
                 sendRear, bWaitSend, sendIO, failedPosts, socketForWSACall,
                 overlappedIOCnt, conn>>

ClearWait(w) ==
  /\ at[w] = "clearWait"
  /\ bWaitSend' = [bWaitSend EXCEPT ![cur[w]] = FALSE]
  /\ Goto(w, "loadRear")
  /\ UNCHANGED <<cur, callVars, loadVars, tableVars, lifeVars, recvVars,
                 ringVars, sendIO, inFlight, failedPosts, socketForWSACall,
                 overlappedIOCnt, conn>>

\* GetUseSize() > 0 without the send token: two loads, either can be stale.
LoadRear(w) ==
  /\ at[w] = "loadRear"
  /\ rearSeen' = [rearSeen EXCEPT ![w] = sendRear[cur[w]]]
  /\ Goto(w, "loadFront")
  /\ UNCHANGED <<cur, callVars, handle, tableVars, lifeVars, recvVars,
                 ringVars, sendVars, socketForWSACall, overlappedIOCnt, conn>>

LoadFront(w) ==
  LET use == UseSize(SendCapacity, rearSeen[w], sendFront[cur[w]]) IN
  /\ at[w] = "loadFront"
  /\ Goto(w, IF use > 0 THEN "token" ELSE "fin")
  /\ rearSeen' = [rearSeen EXCEPT ![w] = 0]
  /\ UNCHANGED <<cur, callVars, handle, tableVars, lifeVars, recvVars,
                 ringVars, sendVars, socketForWSACall, overlappedIOCnt, conn>>

\* Mutant: bWaitSend is set without looking at its old value.
TakeTokenBlindly(w) ==
  /\ at[w] = "token"
  /\ bWaitSend' = [bWaitSend EXCEPT ![cur[w]] = TRUE]
  /\ Goto(w, "peek")
  /\ UNCHANGED <<cur, callVars, loadVars, tableVars, lifeVars, recvVars,
                 ringVars, sendIO, inFlight, failedPosts, socketForWSACall,
                 overlappedIOCnt, conn>>

\* InterlockedExchange(&bWaitSend, true): who reads false may send.
TakeToken(w) ==
  /\ at[w] = "token"
  /\ bWaitSend' = [bWaitSend EXCEPT ![cur[w]] = TRUE]
  /\ Goto(w, IF bWaitSend[cur[w]] THEN "fin" ELSE "peek")
  /\ UNCHANGED <<cur, callVars, loadVars, tableVars, lifeVars, recvVars,
                 ringVars, sendIO, inFlight, failedPosts, socketForWSACall,
                 overlappedIOCnt, conn>>

\* The distance of rear to front, the front being the holder's own.
Peek(w) ==
  LET s == cur[w] IN
  /\ at[w] = "peek"
  /\ rearSeen' = [rearSeen EXCEPT ![w] = sendRear[s]]
  /\ Goto(w, IF sendRear[s] = sendFront[s] THEN "giveUp" ELSE "prepare")
  /\ UNCHANGED <<cur, callVars, handle, tableVars, lifeVars, recvVars,
                 ringVars, sendVars, socketForWSACall, overlappedIOCnt, conn>>

\* Mutant: bWaitSend stays set when there was nothing to send.
GiveUpKeepsToken(w) ==
  /\ at[w] = "giveUp"
  /\ rearSeen' = [rearSeen EXCEPT ![w] = 0]
  /\ Goto(w, "fin")
  /\ UNCHANGED <<cur, callVars, handle, tableVars, lifeVars, recvVars,
                 ringVars, sendVars, socketForWSACall, overlappedIOCnt, conn>>

\* The ring was empty: clear bWaitSend and leave.
GiveUp(w) ==
  /\ at[w] = "giveUp"
  /\ bWaitSend' = [bWaitSend EXCEPT ![cur[w]] = FALSE]
  /\ rearSeen' = [rearSeen EXCEPT ![w] = 0]
  /\ Goto(w, "fin")
  /\ UNCHANGED <<cur, callVars, handle, tableVars, lifeVars, recvVars,
                 ringVars, sendIO, inFlight, failedPosts, socketForWSACall,
                 overlappedIOCnt, conn>>

\* The buffers of a WSASend: GetDirectDequeueSize reads the rear again, and
\* so does the second buffer when the data seen wraps around.
SendLength(s, seen) ==
  IF seen > sendFront[s]
  THEN DirectDequeueSize(SendCapacity, sendRear[s], sendFront[s])
  ELSE UseSize(SendCapacity, sendRear[s], sendFront[s])

\* The buffers, the increment and the load of socketForWSACall.
PrepareSend(w) ==
  LET s == cur[w] IN
  /\ at[w] = "prepare"
  /\ Incr(s)
  /\ inFlight' = [inFlight EXCEPT ![s] = SendLength(s, rearSeen[w])]
  /\ handle' = [handle EXCEPT ![w] = socketForWSACall[s]]
  /\ rearSeen' = [rearSeen EXCEPT ![w] = 0]
  /\ Goto(w, IF overlappedIOCnt[s] = 0 THEN "zeroRef" ELSE "sendCall")
  /\ UNCHANGED <<cur, callVars, tableVars, lifeVars, recvVars, ringVars,
                 bWaitSend, sendIO, failedPosts, socketForWSACall, conn>>

WSASendPends(w) ==
  LET s == cur[w] IN
  /\ at[w] = "sendCall"
  /\ SocketAccepts(w, s)
  /\ sendIO' = [sendIO EXCEPT ![s] = "pending"]
  /\ handle' = [handle EXCEPT ![w] = InvalidSocket]
  /\ Goto(w, "fin")
  /\ UNCHANGED <<cur, callVars, rearSeen, tableVars, lifeVars, recvVars,
                 ringVars, bWaitSend, inFlight, failedPosts, socketForWSACall,
                 overlappedIOCnt, conn>>

\* bWaitSend stays set.  WSASend can also lack buffers (WSAENOBUFS).
WSASendError(w) ==
  LET s == cur[w] IN
  /\ at[w] = "sendCall"
  /\ SendsMayFail \/ ~SocketAccepts(w, s)
  /\ Decr(s)
  /\ inFlight' = [inFlight EXCEPT ![s] = 0]
  /\ handle' = [handle EXCEPT ![w] = InvalidSocket]
  /\ Goto(w, IF overlappedIOCnt[s] = 1 THEN "zeroRef" ELSE "fin")
  /\ UNCHANGED <<cur, callVars, rearSeen, tableVars, lifeVars, recvVars,
                 ringVars, bWaitSend, sendIO, failedPosts, socketForWSACall,
                 conn>>

-----------------------------------------------------------------------------
\* SendPacket and Disconnect, from a callback or from a thread of the content.

InContent(t) == at[t] = "outside" \/ at[t] \in Callbacks

StartCall(t, s, loc) ==
  /\ InContent(t)
  /\ call[t] = "none"
  /\ calls < MaxCalls
  /\ Announced(s)
  /\ calls' = calls + 1
  /\ target' = [target EXCEPT ![t] = s]
  /\ GotoCall(t, loc)
  /\ UNCHANGED <<engineVars, loadVars, tableVars, lifeVars, recvVars,
                 ringVars, sendVars, socketForWSACall, overlappedIOCnt, conn>>

SendPacket(t, s) == StartCall(t, s, "sendLookup")
Disconnect(t, s) == StartCall(t, s, "discLookup")

\* Mutant: the map lock is not freed when the session is not found.
LookupKeepsMapLock(t, from, to) ==
  /\ call[t] = from
  /\ mSessionMapSRWLock = NoThread
  /\ mSessionMapSRWLock' = t
  /\ IF target[t] \in mSessionMap
     THEN GotoCall(t, to) /\ UNCHANGED target
     ELSE GotoCall(t, "none") /\ target' = [target EXCEPT ![t] = NoSession]
  /\ UNCHANGED <<engineVars, calls, loadVars, mSessionMap, sessionSRWLock,
                 lifeVars, recvVars, ringVars, sendVars, socketForWSACall,
                 overlappedIOCnt, conn>>

\* The map lock and FindSession; the map lock is kept when it finds one.
Lookup(t, from, to) ==
  /\ call[t] = from
  /\ mSessionMapSRWLock = NoThread
  /\ IF target[t] \in mSessionMap
     THEN mSessionMapSRWLock' = t /\ GotoCall(t, to) /\ UNCHANGED target
     ELSE /\ GotoCall(t, "none")
          /\ target' = [target EXCEPT ![t] = NoSession]
          /\ UNCHANGED mSessionMapSRWLock
  /\ UNCHANGED <<engineVars, calls, loadVars, mSessionMap, sessionSRWLock,
                 lifeVars, recvVars, ringVars, sendVars, socketForWSACall,
                 overlappedIOCnt, conn>>

\* The session lock, taken with the map lock held, then the map lock freed.
LockTarget(t, from, to) ==
  /\ call[t] = from
  /\ sessionSRWLock[target[t]] = NoThread
  /\ sessionSRWLock' = [sessionSRWLock EXCEPT ![target[t]] = t]
  /\ mSessionMapSRWLock' = NoThread
  /\ GotoCall(t, to)
  /\ UNCHANGED <<engineVars, target, calls, loadVars, mSessionMap, lifeVars,
                 recvVars, ringVars, sendVars, socketForWSACall,
                 overlappedIOCnt, conn>>

Unlock(t) ==
  /\ call[t] = "unlock"
  /\ sessionSRWLock' = [sessionSRWLock EXCEPT ![target[t]] = NoThread]
  /\ GotoCall(t, "none")
  /\ target' = [target EXCEPT ![t] = NoSession]
  /\ UNCHANGED <<engineVars, calls, loadVars, mSessionMap,
                 mSessionMapSRWLock, lifeVars, recvVars, ringVars, sendVars,
                 socketForWSACall, overlappedIOCnt, conn>>

RoomForPacket(s) == FreeSize(SendCapacity, sendRear[s], sendFront[s]) >= 2

\* The ring has no room for header and payload: the packet is dropped.
RefusePacket(t) ==
  /\ call[t] = "sendCheck"
  /\ ~RoomForPacket(target[t])
  /\ GotoCall(t, "unlock")
  /\ UNCHANGED <<engineVars, target, calls, loadVars, tableVars, lifeVars,
                 recvVars, ringVars, sendVars, socketForWSACall,
                 overlappedIOCnt, conn>>

\* Mutant: the rear is not wrapped around.
EnqueueUnwrapped(s) == sendRear' = [sendRear EXCEPT ![s] = @ + 1]

Enqueue(s) ==
  sendRear' = [sendRear EXCEPT ![s] = MovedRear(SendCapacity, @, sendFront[s], 1)]

EnqueueHeader(t) ==
  /\ call[t] = "sendCheck"
  /\ RoomForPacket(target[t])
  /\ Enqueue(target[t])
  /\ GotoCall(t, "sendPayload")
  /\ UNCHANGED <<engineVars, target, calls, loadVars, tableVars, lifeVars,
                 recvVars, sendFront, sendVars, socketForWSACall,
                 overlappedIOCnt, conn>>

EnqueuePayload(t) ==
  /\ call[t] = "sendPayload"
  /\ Enqueue(target[t])
  /\ GotoCall(t, "sendToken")
  /\ UNCHANGED <<engineVars, target, calls, loadVars, tableVars, lifeVars,
                 recvVars, sendFront, sendVars, socketForWSACall,
                 overlappedIOCnt, conn>>

\* PostSendForSendPacket: InterlockedExchange(&bWaitSend, true).
SendTakeToken(t) ==
  LET s == target[t] IN
  /\ call[t] = "sendToken"
  /\ bWaitSend' = [bWaitSend EXCEPT ![s] = TRUE]
  /\ GotoCall(t, IF bWaitSend[s] THEN "unlock" ELSE "sendIncr")
  /\ UNCHANGED <<engineVars, target, calls, loadVars, tableVars, lifeVars,
                 recvVars, ringVars, sendIO, inFlight, failedPosts,
                 socketForWSACall, overlappedIOCnt, conn>>

\* Mutant: the result of the increment is not tested.
SendIncrUntested(t) ==
  /\ call[t] = "sendIncr"
  /\ Incr(target[t])
  /\ GotoCall(t, "sendPrepare")
  /\ UNCHANGED <<engineVars, target, calls, loadVars, tableVars, lifeVars,
                 recvVars, ringVars, sendVars, socketForWSACall, conn>>

\* The call has no reference of its own.  An increment from zero tells it
\* that the last reference is gone and ReleaseSession is on its way.
SendIncr(t) ==
  LET s == target[t] IN
  /\ call[t] = "sendIncr"
  /\ Incr(s)
  /\ GotoCall(t, IF overlappedIOCnt[s] = 0 THEN "sendUndo" ELSE "sendPrepare")
  /\ UNCHANGED <<engineVars, target, calls, loadVars, tableVars, lifeVars,
                 recvVars, ringVars, sendVars, socketForWSACall, conn>>

\* InterlockedExchange(&overlappedIOCnt, 0); bWaitSend stays set.
SendUndo(t) ==
  /\ call[t] = "sendUndo"
  /\ overlappedIOCnt' = [overlappedIOCnt EXCEPT ![target[t]] = 0]
  /\ GotoCall(t, "unlock")
  /\ UNCHANGED <<engineVars, target, calls, loadVars, tableVars, lifeVars,
                 recvVars, ringVars, sendVars, socketForWSACall, conn>>

\* The buffers and the load of socketForWSACall.  The ring is empty when
\* another thread has sent this packet since it was enqueued.
SendPrepare(t) ==
  LET s == target[t] IN
  /\ call[t] = "sendPrepare"
  /\ IF sendRear[s] = sendFront[s]
     THEN GotoCall(t, "sendClear") /\ UNCHANGED <<inFlight, handle>>
     ELSE /\ GotoCall(t, "sendWSA")
          /\ inFlight' = [inFlight EXCEPT ![s] = SendLength(s, sendRear[s])]
          /\ handle' = [handle EXCEPT ![t] = socketForWSACall[s]]
  /\ UNCHANGED <<engineVars, target, calls, rearSeen, tableVars, lifeVars,
                 recvVars, ringVars, bWaitSend, sendIO, failedPosts,
                 socketForWSACall, overlappedIOCnt, conn>>

SendClear(t) ==
  /\ call[t] = "sendClear"
  /\ bWaitSend' = [bWaitSend EXCEPT ![target[t]] = FALSE]
  /\ GotoCall(t, "sendPost")
  /\ UNCHANGED <<engineVars, target, calls, loadVars, tableVars, lifeVars,
                 recvVars, ringVars, sendIO, inFlight, failedPosts,
                 socketForWSACall, overlappedIOCnt, conn>>

SendWSAPends(t) ==
  LET s == target[t] IN
  /\ call[t] = "sendWSA"
  /\ SocketAccepts(t, s)
  /\ sendIO' = [sendIO EXCEPT ![s] = "pending"]
  /\ handle' = [handle EXCEPT ![t] = InvalidSocket]
  /\ GotoCall(t, "unlock")
  /\ UNCHANGED <<engineVars, target, calls, rearSeen, tableVars, lifeVars,
                 recvVars, ringVars, bWaitSend, inFlight, failedPosts,
                 socketForWSACall, overlappedIOCnt, conn>>

SendWSAError(t) ==
  LET s == target[t] IN
  /\ call[t] = "sendWSA"
  /\ SendsMayFail \/ ~SocketAccepts(t, s)
  /\ inFlight' = [inFlight EXCEPT ![s] = 0]
  /\ handle' = [handle EXCEPT ![t] = InvalidSocket]
  /\ GotoCall(t, "sendPost")
  /\ UNCHANGED <<engineVars, target, calls, rearSeen, tableVars, lifeVars,
                 recvVars, ringVars, bWaitSend, sendIO, failedPosts,
                 socketForWSACall, overlappedIOCnt, conn>>

\* PostQueuedCompletionStatus hands the reference of the call to a worker.
SendPost(t) ==
  /\ call[t] = "sendPost"
  /\ failedPosts' = [failedPosts EXCEPT ![target[t]] = @ + 1]
  /\ GotoCall(t, "unlock")
  /\ UNCHANGED <<engineVars, target, calls, loadVars, tableVars, lifeVars,
                 recvVars, ringVars, bWaitSend, sendIO, inFlight,
                 socketForWSACall, overlappedIOCnt, conn>>

\* Disconnect: InterlockedExchange(&socketForWSACall, INVALID_SOCKET).
DiscExchange(t) ==
  LET s == target[t] IN
  /\ call[t] = "discExchange"
  /\ socketForWSACall' = [socketForWSACall EXCEPT ![s] = InvalidSocket]
  /\ GotoCall(t, IF socketForWSACall[s] = InvalidSocket
                 THEN "unlock" ELSE "discCancel")
  /\ UNCHANGED <<engineVars, target, calls, loadVars, tableVars, lifeVars,
                 recvVars, ringVars, sendVars, overlappedIOCnt, conn>>

\* CancelIoEx on a handle: the pending operations of the socket that has the
\* handle now, which is another session's when the handle was closed.
OwnsHandle(v, h) == socketOpen[v] /\ socketForReleaseSession[v] = h

Aborted(io, h) ==
  [v \in Sessions |-> IF OwnsHandle(v, h) /\ io[v] = "pending"
                      THEN "aborted" ELSE io[v]]

DiscCancel(t) ==
  LET h == socketForReleaseSession[target[t]] IN
  /\ call[t] = "discCancel"
  /\ recvIO' = Aborted(recvIO, h)
  /\ sendIO' = Aborted(sendIO, h)
  /\ GotoCall(t, "unlock")
  /\ UNCHANGED <<engineVars, target, calls, loadVars, tableVars, lifeVars,
                 recvBytes, recvUse, arrivals, ringVars, bWaitSend, inFlight,
                 failedPosts, socketForWSACall, overlappedIOCnt, conn>>

-----------------------------------------------------------------------------
\* Kernel (external): the peer, the network and the completion port.

RecvArrives(s, n) ==
  /\ recvIO[s] = "pending"
  /\ conn[s] = "up"
  /\ n \in 1 .. (RecvSize - recvUse[s])
  /\ arrivals[s] + n <= MaxArrivals
  /\ arrivals' = [arrivals EXCEPT ![s] = @ + n]
  /\ recvIO' = [recvIO EXCEPT ![s] = "done"]
  /\ recvBytes' = [recvBytes EXCEPT ![s] = n]
  /\ UNCHANGED <<engineVars, callVars, loadVars, tableVars, lifeVars, recvUse,
                 ringVars, sendVars, socketForWSACall, overlappedIOCnt, conn>>

RecvEnds(s) ==
  /\ recvIO[s] = "pending"
  /\ conn[s] # "up"
  /\ recvIO' = [recvIO EXCEPT ![s] = IF conn[s] = "closed" THEN "eof" ELSE "failed"]
  /\ UNCHANGED <<engineVars, callVars, loadVars, tableVars, lifeVars,
                 recvBytes, recvUse, arrivals, ringVars, sendVars,
                 socketForWSACall, overlappedIOCnt, conn>>

SendEnds(s) ==
  /\ sendIO[s] = "pending"
  /\ sendIO' = [sendIO EXCEPT ![s] = IF conn[s] = "reset" THEN "failed" ELSE "done"]
  /\ UNCHANGED <<engineVars, callVars, loadVars, tableVars, lifeVars,
                 recvVars, ringVars, bWaitSend, inFlight, failedPosts,
                 socketForWSACall, overlappedIOCnt, conn>>

PeerLeaves(s, how) ==
  /\ socketOpen[s]
  /\ \/ conn[s] = "up"     /\ how \in {"closed", "reset"}
     \/ conn[s] = "closed" /\ how = "reset"
  /\ conn' = [conn EXCEPT ![s] = how]
  /\ UNCHANGED <<engineVars, callVars, loadVars, tableVars, lifeVars,
                 recvVars, ringVars, sendVars, socketForWSACall,
                 overlappedIOCnt>>

-----------------------------------------------------------------------------
AcceptStep == AcceptRef \/ \E s \in Sessions, h \in Handles : CreateSession(s, h)

SharedStep(t) ==
  \/ CallbackReturns(t)
  \/ PostRecv(t) \/ WSARecvPends(t) \/ WSARecvError(t)
  \/ DropRef(t)
  \/ CloseSocket(t) \/ EraseFromMap(t) \/ LockForRelease(t)
  \/ UnlockReleased(t) \/ DeleteSession(t)

DequeueStep(w) ==
  \E s \in Sessions :
    \/ DequeueRecv(w, s) \/ DequeueRecvEnd(w, s)
    \/ DequeueSend(w, s) \/ DequeueSendEnd(w, s) \/ DequeueFailedPost(w, s)

WorkerStep(w) ==
  \/ DequeueStep(w)
  \/ ParsePacket(w) \/ ParseEnds(w)
  \/ MoveFront(w) \/ ClearWait(w) \/ LoadRear(w) \/ LoadFront(w)
  \/ TakeToken(w) \/ Peek(w) \/ GiveUp(w) \/ PrepareSend(w)
  \/ WSASendPends(w) \/ WSASendError(w)

StartStep(t) == \E s \in Sessions : SendPacket(t, s) \/ Disconnect(t, s)

CallStep(t) ==
  \/ Lookup(t, "sendLookup", "sendLock") \/ Lookup(t, "discLookup", "discLock")
  \/ LockTarget(t, "sendLock", "sendCheck")
  \/ LockTarget(t, "discLock", "discExchange")
  \/ Unlock(t)
  \/ RefusePacket(t) \/ EnqueueHeader(t) \/ EnqueuePayload(t)
  \/ SendTakeToken(t) \/ SendIncr(t) \/ SendUndo(t) \/ SendPrepare(t)
  \/ SendClear(t) \/ SendWSAPends(t) \/ SendWSAError(t) \/ SendPost(t)
  \/ DiscExchange(t) \/ DiscCancel(t)

KernelCompletes(s) == RecvEnds(s) \/ SendEnds(s)

PeerStep(s) ==
  \/ \E n \in 1 .. RecvSize : RecvArrives(s, n)
  \/ \E how \in {"closed", "reset"} : PeerLeaves(s, how)

\* Every thread waits for something from outside: the server is idle.
Rest ==
  /\ \A t \in Threads : at[t] \in {"accept", "wait", "outside"} /\ call[t] = "none"
  /\ UNCHANGED vars

Next ==
  \/ AcceptStep
  \/ \E t \in Threads : SharedStep(t) \/ StartStep(t) \/ CallStep(t)
  \/ \E w \in Workers : WorkerStep(w)
  \/ \E s \in Sessions : KernelCompletes(s) \/ PeerStep(s)
  \/ Rest

Spec == Init /\ [][Next]_vars

\* Threads run, callbacks return and a freed SRW lock is taken in the end;
\* the kernel completes every send, and every receive once the peer is gone.
\* Nobody has to call the engine, to connect, to send or to leave.
Fairness ==
  /\ WF_vars(AcceptRef)
  /\ \A t \in Threads : WF_vars(SharedStep(t)) /\ WF_vars(CallStep(t))
  /\ \A w \in Workers : WF_vars(WorkerStep(w))
  /\ \A s \in Sessions : WF_vars(KernelCompletes(s))

FairSpec == Spec /\ Fairness

-----------------------------------------------------------------------------
\* References counted by overlappedIOCnt.

\* Locations of a loop that runs on the reference of its accept or of its
\* completion, and those where it has taken the one of a new operation.
LoopRefLocs ==
  {"onAccept", "parse", "onRecv", "postRecv", "recvCall", "moveFront",
   "clearWait", "loadRear", "loadFront", "token", "peek", "giveUp",
   "prepare", "sendCall", "fin"}
PostRefLocs == {"recvCall", "sendCall"}
CallRefLocs == {"sendUndo", "sendPrepare", "sendWSA", "sendClear", "sendPost"}
ReleaseLocs ==
  {"relClose", "relMap", "relLock", "onRelease", "relUnlock", "relDelete"}

LoopRefs(s) == {t \in Threads : cur[t] = s /\ at[t] \in LoopRefLocs}
PostRefs(s) == {t \in Threads : cur[t] = s /\ at[t] \in PostRefLocs}
CallRefs(s) == {t \in Threads : target[t] = s /\ call[t] \in CallRefLocs}
Releasers(s) == {t \in Threads : cur[t] = s /\ at[t] \in ReleaseLocs}

Bit(b) == IF b THEN 1 ELSE 0

Refs(s) ==
  Cardinality(LoopRefs(s)) + Cardinality(PostRefs(s)) + Cardinality(CallRefs(s))
  + Bit(recvIO[s] # "none") + Bit(sendIO[s] # "none") + failedPosts[s]

\* Threads inside PostSend, PostSendForSendPacket or a send completion that
\* may touch the front of the ring and sendOverlapped.
TokenLocs == {"moveFront", "clearWait", "peek", "giveUp", "prepare", "sendCall"}
CallTokenLocs == {"sendIncr", "sendPrepare", "sendWSA", "sendClear"}
TokenHolders(s) ==
  {t \in Threads : cur[t] = s /\ at[t] \in TokenLocs}
    \cup {t \in Threads : target[t] = s /\ call[t] \in CallTokenLocs}

Queued(s) == UseSize(SendCapacity, sendRear[s], sendFront[s])

-----------------------------------------------------------------------------
\* Properties.

SendIndex == 0 .. SendCapacity - 1

\* Every variable has its type.
TypeOK ==
  /\ at \in [Threads -> EngineLocs]
  /\ cur \in [Threads -> Sessions \cup {NoSession}]
  /\ call \in [Threads -> CallLocs]
  /\ target \in [Threads -> Sessions \cup {NoSession}]
  /\ handle \in [Threads -> Handles \cup {InvalidSocket}]
  /\ rearSeen \in [Threads -> SendIndex]
  /\ calls \in Nat
  /\ mSessionMap \in SUBSET Sessions
  /\ mSessionMapSRWLock \in Threads \cup {NoThread}
  /\ status \in [Sessions -> {"unborn", "live", "freed"}]
  /\ socketForWSACall \in [Sessions -> Handles \cup {InvalidSocket}]
  /\ socketForReleaseSession \in [Sessions -> Handles \cup {InvalidSocket}]
  /\ sessionSRWLock \in [Sessions -> Threads \cup {NoThread}]
  /\ overlappedIOCnt \in [Sessions -> Int]
  /\ bWaitSend \in [Sessions -> BOOLEAN]
  /\ sendFront \in [Sessions -> SendIndex]
  /\ sendRear \in [Sessions -> SendIndex]
  /\ recvUse \in [Sessions -> Int]
  /\ socketOpen \in [Sessions -> BOOLEAN]
  /\ conn \in [Sessions -> {"up", "closed", "reset"}]
  /\ recvIO \in [Sessions -> {"none", "pending", "done", "eof", "failed", "aborted"}]
  /\ sendIO \in [Sessions -> {"none", "pending", "done", "failed", "aborted"}]
  /\ recvBytes \in [Sessions -> Int]
  /\ inFlight \in [Sessions -> Int]
  /\ failedPosts \in [Sessions -> Int]
  /\ arrivals \in [Sessions -> Int]

\* overlappedIOCnt of a session is the number of accepts, callbacks, posted
\* operations, queued completions and SendPacket calls that hold a reference
\* on it, the call that is about to store 0 included: the store at line 584
\* loses nobody's reference, and no error path drops one twice or never.
RefCountExact == \A s \in Sessions : overlappedIOCnt[s] = Refs(s)

\* PostRecv and PostSend never see the counter at zero: their callers hold a
\* reference, so the releases nested in them (lines 508, 570) and the early
\* return at 554 do not run.
ZeroRefNever == \A t \in Threads : at[t] # "zeroRef"

\* A session is deleted once, and after that no loop, no call, no posted
\* operation and no queued completion refers to it.
NoUseAfterFree ==
  \A s \in Sessions : status[s] # "live" =>
    /\ \A t \in Threads : cur[t] # s
    /\ \A t \in Threads : target[t] = s =>
         call[t] \in {"none", "sendLookup", "discLookup"}
    /\ recvIO[s] = "none" /\ sendIO[s] = "none" /\ failedPosts[s] = 0

\* At most one of the threads and the kernel works on the front of the send
\* ring and on sendOverlapped, and bWaitSend is set while one does.
SendTokenExclusive ==
  \A s \in Sessions :
    /\ \A t, u \in TokenHolders(s) : t = u
    /\ TokenHolders(s) # {} => bWaitSend[s] /\ sendIO[s] = "none"
    /\ sendIO[s] # "none" => bWaitSend[s]

\* bWaitSend is not left behind: while it is set on a session that is neither
\* disconnected nor being released and whose connection is up, the kernel or a
\* thread is there that will clear it or send on.  Otherwise every later
\* SendPacket returns at once and the client is told nothing any more ("the
\* server notifies the outcome of hits after processing it",
\* MmoTcpFighterNetworkMessageProtocol.h:13).  A session being released is left
\* out: a SendPacket that finds it takes the token, undoes its increment at
\* 582-584 and leaves the flag set.
SendTokenNotLost ==
  \A s \in Sessions :
    (/\ status[s] = "live" /\ conn[s] = "up"
     /\ socketForWSACall[s] # InvalidSocket
     /\ Releasers(s) = {}
     /\ bWaitSend[s]) => sendIO[s] # "none" \/ TokenHolders(s) # {}

\* What a send has in flight is queued data: MoveFront never takes the front
\* past the rear, and SendPacket never writes over bytes still being sent.
InFlightIsQueued ==
  \A s \in Sessions :
    /\ inFlight[s] <= Queued(s)
    /\ sendIO[s] # "none" => inFlight[s] > 0

\* A handle loaded for WSASend or WSARecv is that of the session's own open
\* socket when the call is made: closesocket never overtakes it.
HandleStillOpen ==
  \A t \in Threads : handle[t] # InvalidSocket =>
    LET s == IF at[t] \in PostRefLocs THEN cur[t] ELSE target[t] IN
    /\ socketOpen[s]
    /\ handle[t] = socketForReleaseSession[s]

\* Once a thread is in ReleaseSession the session starts no receive and no
\* send any more, and its counter stays at zero but for a SendPacket that
\* takes its increment back.
NoOperationAfterLastRef ==
  [][\A s \in Sessions : Releasers(s) # {} =>
       /\ recvIO'[s] = "none" /\ sendIO'[s] = "none"
       /\ overlappedIOCnt'[s] \in {0, 1}]_vars

WaitsForMap(t) ==
  at[t] = "relMap" \/ call[t] \in {"sendLookup", "discLookup"}

WaitsForSession(t, s) ==
  \/ at[t] = "relLock" /\ cur[t] = s
  \/ call[t] \in {"sendLock", "discLock"} /\ target[t] = s

\* A thread that holds the map lock and waits for a session lock waits for a
\* thread that does not wait for the map lock: OnRelease runs with the lock
\* of its session held and may call SendPacket, but nobody finds that session
\* any more.
NoLockCycle ==
  \A s \in Sessions : \A t, u \in Threads :
    (WaitsForSession(t, s) /\ sessionSRWLock[s] = u) =>
      /\ mSessionMapSRWLock = t
      /\ u # t
      /\ ~WaitsForMap(u)

\* While OnRelease runs under the lock of its session, nobody waits for that
\* lock: a handler that waits for the game server's own locks inside OnRelease
\* holds up no SendPacket of a thread that holds those.
NobodyWaitsForCallback ==
  \A t, u \in Threads :
    at[u] = "onRelease" => ~WaitsForSession(t, cur[u])

InCallback(s) == {t \in Threads : cur[t] = s /\ at[t] \in Callbacks}

Phase(s) ==
  CASE Cardinality(InCallback(s)) > 1 -> "overlapping"
    [] status[s] = "unborn" -> "none"
    [] status[s] = "freed"  -> "released"
    [] \E t \in Threads : cur[t] = s /\ at[t] = "created"   -> "none"
    [] \E t \in Threads : cur[t] = s /\ at[t] = "onAccept"  -> "accepting"
    [] \E t \in Threads : cur[t] = s /\ at[t] = "onRecv"    -> "receiving"
    [] \E t \in Threads : cur[t] = s /\ at[t] = "onRelease" -> "releasing"
    [] \E t \in Threads : cur[t] = s /\ at[t] \in {"relUnlock", "relDelete"} -> "released"
    [] OTHER -> "open"

Contract == INSTANCE SessionContract WITH phase <- [s \in Sessions |-> Phase(s)]

\* The engine keeps the promise of ISessionEventHandler: OnAccept, then
\* OnRecv one at a time, then OnRelease, each session on its own.
KeepsContract == Contract!Spec

\* A session whose peer closed or reset the connection is deleted in the end.
PeerGoneReleases ==
  \A s \in Sessions :
    (status[s] = "live" /\ conn[s] # "up") ~> (status[s] = "freed")

\* Every SendPacket and Disconnect returns: no cycle of map and session locks.
CallsReturn == \A t \in Threads : (call[t] # "none") ~> (call[t] = "none")

-----------------------------------------------------------------------------
\* Properties that the code does not have.

Attended(s) ==
  \/ sendIO[s] # "none"
  \/ \E t \in Threads : cur[t] = s /\ at[t] \in LoopRefLocs
  \/ \E t \in Threads : target[t] = s /\ call[t] # "none"

\* Data that SendPacket has accepted for an open connection is being sent, or
\* a thread is there that can still send it.
QueuedDataHasASender ==
  \A s \in Sessions :
    (/\ status[s] = "live" /\ conn[s] = "up"
     /\ socketForWSACall[s] # InvalidSocket
     /\ Releasers(s) = {}
     /\ Queued(s) > 0) => Attended(s)

\* A session that was disconnected is deleted in the end, whatever its peer
\* does.
DisconnectReleases ==
  \A s \in Sessions :
    (status[s] = "live" /\ socketForWSACall[s] = InvalidSocket)
      ~> (status[s] = "freed")
=============================================================================
