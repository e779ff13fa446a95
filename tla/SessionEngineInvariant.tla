----------------------- MODULE SessionEngineInvariant -----------------------
(***************************************************************************)
(* The inductive invariant of SessionEngine behind RefCountExact,          *)
(* ZeroRefNever, NoUseAfterFree and the contract of the callbacks, and     *)
(* what the other safety properties need beside it, in named parts.        *)
(***************************************************************************)
EXTENDS SessionEngine

\* Locations of a call that holds the lock of its session.
LockedCallLocs ==
  {"sendCheck", "sendPayload", "sendToken", "sendIncr", "sendUndo",
   "sendPrepare", "sendWSA", "sendClear", "sendPost", "discExchange",
   "discCancel", "unlock"}

LookupLocs == {"sendLookup", "discLookup"}
WaitLockLocs == {"sendLock", "discLock"}

\* Locations of ReleaseSession after the erase, and after the session lock.
ErasedLocs == {"relLock", "onRelease", "relUnlock", "relDelete"}
DetachedLocs == {"onRelease", "relUnlock", "relDelete"}

\* A thread has a session exactly where its program text has one, and calls
\* the engine from a callback or from the content only.
LocInv ==
  /\ \A t \in Threads :
       at[t] \in LoopRefLocs \cup ReleaseLocs \cup {"created"} => cur[t] \in Sessions
  /\ \A t \in Threads :
       at[t] \in {"accept", "wait", "outside"} => cur[t] = NoSession
  /\ \A t \in Threads : call[t] # "none" <=> target[t] \in Sessions
  /\ \A t \in Threads : call[t] # "none" => at[t] \in Callbacks \cup {"outside"}
  /\ \A t \in Threads : at[t] \in {"accept", "created"} => t = Acceptor
  /\ at[Acceptor] # "wait"
  /\ \A t \in Threads : at[t] # "zeroRef"

\* The receive of a session is posted, completed or in the hands of one
\* thread, never two of these: WSARecv finds no receive posted.
ReceiverLocs == {"created", "onAccept", "parse", "onRecv", "postRecv", "recvCall"}

ReceiverInv ==
  /\ \A t \in Threads : at[t] \in ReceiverLocs => recvIO[cur[t]] = "none"
  /\ \A t, u \in Threads :
       (at[t] \in ReceiverLocs /\ at[u] \in ReceiverLocs /\ cur[t] = cur[u]) => t = u

\* Who holds which lock.
LockInv ==
  /\ \A t \in Threads :
       call[t] \in LockedCallLocs => sessionSRWLock[target[t]] = t
  /\ \A t \in Threads :
       call[t] \in WaitLockLocs =>
         mSessionMapSRWLock = t /\ target[t] \in mSessionMap
  /\ \A t \in Threads :
       at[t] \in {"onRelease", "relUnlock"} => sessionSRWLock[cur[t]] = t
  /\ \A t \in Threads : at[t] = "relLock" => mSessionMapSRWLock = t
  /\ \A t \in Threads : at[t] \in ErasedLocs => cur[t] \notin mSessionMap
  /\ \A t, u \in Threads :
       (at[t] \in DetachedLocs /\ target[u] = cur[t]) => call[u] \in LookupLocs

\* What can refer to a session in each stage of its life.
LifeInv ==
  /\ \A s \in mSessionMap : status[s] = "live"
  /\ \A t \in Threads : cur[t] \in Sessions => status[cur[t]] = "live"
  /\ \A t \in Threads :
       target[t] \in Sessions =>
         /\ status[target[t]] # "unborn"
         /\ call[t] \notin LookupLocs => status[target[t]] = "live"
         /\ ~(at[Acceptor] = "created" /\ cur[Acceptor] = target[t])
  /\ \A s \in Sessions : status[s] # "live" =>
       recvIO[s] = "none" /\ sendIO[s] = "none" /\ failedPosts[s] = 0
  /\ \A s \in Sessions : failedPosts[s] >= 0

\* A session that is being released has one releaser and no reference but
\* that of a SendPacket about to take its increment back.
ReleaseInv ==
  /\ \A t, u \in Threads :
       (at[t] \in ReleaseLocs /\ at[u] \in ReleaseLocs /\ cur[t] = cur[u]) => t = u
  /\ \A t \in Threads : at[t] \in ReleaseLocs =>
       /\ recvIO[cur[t]] = "none"
       /\ sendIO[cur[t]] = "none"
       /\ failedPosts[cur[t]] = 0
       /\ \A u \in Threads : cur[u] = cur[t] => at[u] \in ReleaseLocs
       /\ \A u \in Threads :
            (target[u] = cur[t] /\ call[u] \in CallRefLocs) => call[u] = "sendUndo"
  /\ \A t \in Threads : call[t] = "sendUndo" =>
       \E u \in Threads : at[u] \in ReleaseLocs /\ cur[u] = target[t]

\* A live session that is announced and not being released has a reference.
HeldInv ==
  /\ \A s \in Sessions : status[s] = "live" =>
       \/ overlappedIOCnt[s] > 0
       \/ at[Acceptor] = "created" /\ cur[Acceptor] = s
       \/ \E t \in Threads : at[t] \in ReleaseLocs /\ cur[t] = s
  /\ at[Acceptor] = "created" =>
       /\ recvIO[cur[Acceptor]] = "none"
       /\ sendIO[cur[Acceptor]] = "none"
       /\ failedPosts[cur[Acceptor]] = 0
       /\ \A u \in Threads : cur[u] = cur[Acceptor] => u = Acceptor

IInv ==
  /\ TypeOK
  /\ LocInv
  /\ ReceiverInv
  /\ SendTokenExclusive
  /\ LockInv
  /\ LifeInv
  /\ ReleaseInv
  /\ HeldInv
  /\ RefCountExact
-----------------------------------------------------------------------------
\* What else NoLockCycle, HandleStillOpen and InFlightIsQueued rest on.

\* The lock of a session is in the hands of ReleaseSession or of a call on it.
OwnerInv ==
  \A s \in Sessions, u \in Threads : sessionSRWLock[s] = u =>
    \/ at[u] \in {"onRelease", "relUnlock"} /\ cur[u] = s
    \/ call[u] \in LockedCallLocs /\ target[u] = s

\* A live session has its socket open until its releaser has closed it, and
\* a loaded handle is that of the session it was loaded from.
SocketInv ==
  /\ \A s \in Sessions :
       socketForWSACall[s] \in {InvalidSocket, socketForReleaseSession[s]}
  /\ \A s \in Sessions : status[s] = "live" =>
       \/ socketOpen[s]
       \/ \E t \in Threads : cur[t] = s /\ at[t] \in ReleaseLocs \ {"relClose"}
  /\ \A t \in Threads :
       \/ handle[t] = InvalidSocket
       \/ at[t] \in PostRefLocs /\ handle[t] = socketForReleaseSession[cur[t]]
       \/ call[t] = "sendWSA" /\ handle[t] = socketForReleaseSession[target[t]]

\* What is handed to WSASend is queued, and is never nothing.
QueueInv ==
  /\ \A s \in Sessions : inFlight[s] \in Nat /\ inFlight[s] <= Queued(s)
  /\ \A s \in Sessions : sendIO[s] # "none" => inFlight[s] > 0
  /\ \A t \in Threads : at[t] = "prepare" => sendRear[cur[t]] # sendFront[cur[t]]
  /\ \A t \in Threads : at[t] = "sendCall" => inFlight[cur[t]] > 0
  /\ \A t \in Threads : call[t] = "sendWSA" => inFlight[target[t]] > 0

WholeInv ==
  /\ IInv
  /\ OwnerInv
  /\ SocketInv
  /\ QueueInv
-----------------------------------------------------------------------------
\* What SendTokenNotLost rests on.

\* CancelIoEx reaches no session but the one that is disconnected: its handle
\* is not yet that of a socket accepted in the meantime.
CancelsOwn ==
  \A t \in Threads : call[t] = "discCancel" =>
    \A v \in Sessions :
      OwnsHandle(v, socketForReleaseSession[target[t]]) => v = target[t]

\* The connection is of no use any more: its peer has left or the server has
\* disconnected it.  Once gone, a session stays so.
Gone(s) == conn[s] # "up" \/ socketForWSACall[s] = InvalidSocket

\* Thread t has the send token of s.
HasToken(t, s) ==
  \/ cur[t] = s /\ at[t] \in TokenLocs
  \/ target[t] = s /\ call[t] \in CallTokenLocs

\* While bWaitSend is set on a session that is neither gone nor being released,
\* its send is under way or a thread has the token.
KeptAt(s) ==
  bWaitSend[s] =>
    /\ status[s] # "unborn"
    /\ status[s] = "live" =>
         \/ Gone(s)
         \/ Releasers(s) # {}
         \/ sendIO[s] \in {"pending", "done"}
         \/ \E t \in Threads : HasToken(t, s)

TokenKeptInv == \A s \in Sessions : KeptAt(s)

\* Who has loaded an invalid handle, and who cancels, works on one that is gone.
LoadedInv ==
  /\ \A t \in Threads :
       at[t] \in PostRefLocs /\ handle[t] = InvalidSocket => Gone(cur[t])
  /\ \A t \in Threads :
       call[t] = "sendWSA" /\ handle[t] = InvalidSocket => Gone(target[t])
  /\ \A t \in Threads :
       call[t] = "discCancel" => socketForWSACall[target[t]] = InvalidSocket

KeptInv ==
  /\ TokenKeptInv
  /\ LoadedInv
=============================================================================
