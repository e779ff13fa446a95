------------------------- MODULE SessionEngineProofs -------------------------
(***************************************************************************)
(* SessionEngine: IInv is an invariant, and with it TypeOK, RefCountExact, *)
(* ZeroRefNever, NoUseAfterFree and SendTokenExclusive, for any number of  *)
(* sessions, handles, workers and calling threads and any ring sizes.      *)
(*                                                                         *)
(* Every step has one of a few effects on the state that references are    *)
(* counted in (StepEffect); one lemma per conjunct of IInv says that these *)
(* effects preserve it.  WholeInv, the contract of the callbacks and       *)
(* KeptInv, behind SendTokenNotLost, follow on top of it.                  *)
(***************************************************************************)
EXTENDS SessionEngineInvariant, RingIndexTheorems, FiniteSetTheorems, TLAPS

\* The steps of a thread that is in its loop on a session it has.
LEMMA LoopHasSession ==
  ASSUME TypeOK, LocInv, NEW t \in Threads,
         at[t] \in LoopRefLocs \cup ReleaseLocs \cup {"created"}
  PROVE  cur[t] \in Sessions
  BY DEF LocInv

\* The steps of a thread that is in a call have a session to work on.
LEMMA CallHasSession ==
  ASSUME TypeOK, LocInv, NEW t \in Threads, call[t] # "none"
  PROVE  target[t] \in Sessions
  BY DEF LocInv

\* An index of the send ring that is moved on stays inside the ring.
LEMMA AdvanceInRange ==
  ASSUME NEW i \in SendIndex, NEW k \in Int
  PROVE  Advance(SendCapacity, i, k) \in SendIndex
  BY SizesAssumption, SMT DEF Advance, SendIndex

\* Enqueue and MoveFront keep the indices of the send ring inside the ring.
LEMMA MovedInRange ==
  ASSUME NEW r \in SendIndex, NEW f \in SendIndex, NEW k \in Int
  PROVE  /\ MovedRear(SendCapacity, r, f, k) \in SendIndex
         /\ MovedFront(SendCapacity, r, f, k) \in SendIndex
  BY AdvanceInRange DEF MovedRear, MovedFront

\* The number of bytes handed to a WSASend is a number.
LEMMA LengthIsInt ==
  ASSUME TypeOK, NEW s \in Sessions, NEW seen \in SendIndex
  PROVE  SendLength(s, seen) \in Int
<1>1. sendRear[s] \in Int /\ sendFront[s] \in Int /\ SendCapacity \in Int /\ seen \in Int
  BY SizesAssumption DEF TypeOK, SendIndex
<1> QED
  BY <1>1 DEF SendLength, DirectDequeueSize, UseSize

\* Before the first accept every variable has its type.
LEMMA TypeInit == Init => TypeOK
  BY SizesAssumption, ThreadsAssumption
  DEF Init, TypeOK, Idle, EngineLocs, CallLocs, SendIndex

\* No step of the engine, its callers or the kernel breaks a type.
LEMMA TypeStep ==
  ASSUME TypeOK, LocInv, [Next]_vars
  PROVE  TypeOK'
<1> USE DEF engineVars, callVars, loadVars, tableVars, lifeVars, recvVars,
            ringVars, sendVars, Goto, GotoCall, Incr, Decr
<1>zero. 0 \in SendIndex
  BY SizesAssumption DEF SendIndex
<1>acceptor. Acceptor \in Threads /\ Workers \subseteq Threads
  BY DEF Threads
<1>1. ASSUME NEW s \in Sessions, NEW h \in Handles, CreateSession(s, h)
      PROVE  TypeOK'
  BY <1>1, <1>acceptor DEF TypeOK, CreateSession, EngineLocs
<1>2. CASE AcceptRef
  BY <1>2, <1>acceptor, LoopHasSession DEF TypeOK, AcceptRef, EngineLocs
<1>3. ASSUME NEW t \in Threads, CallbackReturns(t) PROVE TypeOK'
  BY <1>3 DEF TypeOK, CallbackReturns, Callbacks, AfterCallback, EngineLocs
<1>4. ASSUME NEW t \in Threads, PostRecv(t) PROVE TypeOK'
  BY <1>4, LoopHasSession DEF TypeOK, PostRecv, LoopRefLocs, EngineLocs
<1>5. ASSUME NEW t \in Threads, WSARecvPends(t) PROVE TypeOK'
  BY <1>5 DEF TypeOK, WSARecvPends, EngineLocs
<1>6. ASSUME NEW t \in Threads, WSARecvError(t) PROVE TypeOK'
  BY <1>6, LoopHasSession DEF TypeOK, WSARecvError, LoopRefLocs, EngineLocs
<1>7. ASSUME NEW t \in Threads, DropRef(t) PROVE TypeOK'
  <2>1. cur[t] \in Sessions
    BY <1>7, LoopHasSession DEF DropRef, LoopRefLocs
  <2>2. at' \in [Threads -> EngineLocs] /\ cur' \in [Threads -> Sessions \cup {NoSession}]
    BY <1>7 DEF TypeOK, DropRef, Idle, EngineLocs
  <2> QED
    BY <1>7, <2>1, <2>2 DEF TypeOK, DropRef
<1>8. ASSUME NEW t \in Threads, CloseSocket(t) PROVE TypeOK'
  BY <1>8 DEF TypeOK, CloseSocket, EngineLocs
<1>9. ASSUME NEW t \in Threads, EraseFromMap(t) PROVE TypeOK'
  BY <1>9 DEF TypeOK, EraseFromMap, EngineLocs
<1>10. ASSUME NEW t \in Threads, LockForRelease(t) PROVE TypeOK'
  BY <1>10 DEF TypeOK, LockForRelease, EngineLocs
<1>11. ASSUME NEW t \in Threads, UnlockReleased(t) PROVE TypeOK'
  BY <1>11 DEF TypeOK, UnlockReleased, EngineLocs
<1>12. ASSUME NEW t \in Threads, DeleteSession(t) PROVE TypeOK'
  BY <1>12 DEF TypeOK, DeleteSession, Idle, EngineLocs
<1>13. ASSUME NEW t \in Threads, NEW s \in Sessions, SendPacket(t, s) \/ Disconnect(t, s)
       PROVE  TypeOK'
  BY <1>13 DEF TypeOK, SendPacket, Disconnect, StartCall, CallLocs
<1>14. ASSUME NEW t \in Threads,
              \/ Lookup(t, "sendLookup", "sendLock")
              \/ Lookup(t, "discLookup", "discLock")
       PROVE  TypeOK'
  BY <1>14 DEF TypeOK, Lookup, CallLocs
<1>15. ASSUME NEW t \in Threads,
              \/ LockTarget(t, "sendLock", "sendCheck")
              \/ LockTarget(t, "discLock", "discExchange")
       PROVE  TypeOK'
  BY <1>15 DEF TypeOK, LockTarget, CallLocs
<1>16. ASSUME NEW t \in Threads, Unlock(t) PROVE TypeOK'
  BY <1>16 DEF TypeOK, Unlock, CallLocs
<1>17. ASSUME NEW t \in Threads, RefusePacket(t) PROVE TypeOK'
  BY <1>17 DEF TypeOK, RefusePacket, CallLocs
<1>18. ASSUME NEW t \in Threads, EnqueueHeader(t) \/ EnqueuePayload(t) PROVE TypeOK'
  <2>1. target[t] \in Sessions
    BY <1>18, CallHasSession DEF EnqueueHeader, EnqueuePayload
  <2>2. MovedRear(SendCapacity, sendRear[target[t]], sendFront[target[t]], 1) \in SendIndex
    BY <2>1, MovedInRange DEF TypeOK
  <2> QED
    BY <1>18, <2>1, <2>2 DEF TypeOK, EnqueueHeader, EnqueuePayload, Enqueue, CallLocs
<1>19. ASSUME NEW t \in Threads, SendTakeToken(t) PROVE TypeOK'
  BY <1>19 DEF TypeOK, SendTakeToken, CallLocs
<1>20. ASSUME NEW t \in Threads, SendIncr(t) PROVE TypeOK'
  BY <1>20, CallHasSession DEF TypeOK, SendIncr, CallLocs
<1>21. ASSUME NEW t \in Threads, SendUndo(t) PROVE TypeOK'
  BY <1>21, CallHasSession DEF TypeOK, SendUndo, CallLocs
<1>22. ASSUME NEW t \in Threads, SendPrepare(t) PROVE TypeOK'
  <2>1. target[t] \in Sessions
    BY <1>22, CallHasSession DEF SendPrepare
  <2>2. SendLength(target[t], sendRear[target[t]]) \in Int
    BY <2>1, LengthIsInt DEF TypeOK
  <2> QED
    BY <1>22, <2>1, <2>2 DEF TypeOK, SendPrepare, CallLocs
<1>23. ASSUME NEW t \in Threads, SendClear(t) PROVE TypeOK'
  BY <1>23 DEF TypeOK, SendClear, CallLocs
<1>24. ASSUME NEW t \in Threads, SendWSAPends(t) \/ SendWSAError(t) PROVE TypeOK'
  BY <1>24 DEF TypeOK, SendWSAPends, SendWSAError, CallLocs
<1>25. ASSUME NEW t \in Threads, SendPost(t) PROVE TypeOK'
  BY <1>25, CallHasSession DEF TypeOK, SendPost, CallLocs
<1>26. ASSUME NEW t \in Threads, DiscExchange(t) PROVE TypeOK'
  BY <1>26 DEF TypeOK, DiscExchange, CallLocs
<1>27. ASSUME NEW t \in Threads, DiscCancel(t) PROVE TypeOK'
  <2>1. recvIO' \in [Sessions -> {"none", "pending", "done", "eof", "failed", "aborted"}]
    BY <1>27 DEF TypeOK, DiscCancel, Aborted
  <2>2. sendIO' \in [Sessions -> {"none", "pending", "done", "failed", "aborted"}]
    BY <1>27 DEF TypeOK, DiscCancel, Aborted
  <2> QED
    BY <1>27, <2>1, <2>2 DEF TypeOK, DiscCancel, CallLocs
<1>28. ASSUME NEW w \in Workers, NEW s \in Sessions, DequeueRecv(w, s) PROVE TypeOK'
  BY <1>28, <1>acceptor DEF TypeOK, DequeueRecv, Takes, EngineLocs
<1>29. ASSUME NEW w \in Workers, NEW s \in Sessions, DequeueRecvEnd(w, s) PROVE TypeOK'
  BY <1>29, <1>acceptor DEF TypeOK, DequeueRecvEnd, Takes, EngineLocs
<1>30. ASSUME NEW w \in Workers, NEW s \in Sessions,
              DequeueSend(w, s) \/ DequeueSendEnd(w, s) \/ DequeueFailedPost(w, s)
       PROVE  TypeOK'
  BY <1>30, <1>acceptor
  DEF TypeOK, DequeueSend, DequeueSendEnd, DequeueFailedPost, Takes, EngineLocs
<1>31. ASSUME NEW w \in Workers, ParsePacket(w) \/ ParseEnds(w) PROVE TypeOK'
  BY <1>31, <1>acceptor DEF TypeOK, ParsePacket, ParseEnds, EngineLocs
<1>32. ASSUME NEW w \in Workers, MoveFront(w) PROVE TypeOK'
  <2>1. cur[w] \in Sessions
    BY <1>32, <1>acceptor, LoopHasSession DEF MoveFront, LoopRefLocs
  <2>2. MovedFront(SendCapacity, sendRear[cur[w]], sendFront[cur[w]], inFlight[cur[w]]) \in SendIndex
    BY <2>1, MovedInRange DEF TypeOK
  <2> QED
    BY <1>32, <1>acceptor, <2>1, <2>2 DEF TypeOK, MoveFront, EngineLocs
<1>33. ASSUME NEW w \in Workers, ClearWait(w) \/ GiveUp(w) PROVE TypeOK'
  <2>1. cur[w] \in Sessions
    BY <1>33, <1>acceptor, LoopHasSession DEF ClearWait, GiveUp, LoopRefLocs
  <2>2. CASE ClearWait(w)
    BY <2>1, <2>2, <1>acceptor DEF TypeOK, ClearWait, EngineLocs
  <2>3. CASE GiveUp(w)
    BY <2>1, <2>3, <1>acceptor, <1>zero DEF TypeOK, GiveUp, EngineLocs
  <2> QED
    BY <1>33, <2>2, <2>3
<1>34. ASSUME NEW w \in Workers, LoadRear(w) \/ LoadFront(w) \/ Peek(w) PROVE TypeOK'
  <2>1. cur[w] \in Sessions
    BY <1>34, <1>acceptor, LoopHasSession DEF LoadRear, LoadFront, Peek, LoopRefLocs
  <2> QED
    BY <1>34, <1>acceptor, <1>zero, <2>1 DEF TypeOK, LoadRear, LoadFront, Peek, EngineLocs
<1>35. ASSUME NEW w \in Workers, TakeToken(w) PROVE TypeOK'
  BY <1>35, <1>acceptor DEF TypeOK, TakeToken, EngineLocs
<1>36. ASSUME NEW w \in Workers, PrepareSend(w) PROVE TypeOK'
  <2>1. cur[w] \in Sessions
    BY <1>36, <1>acceptor, LoopHasSession DEF PrepareSend, LoopRefLocs
  <2>2. SendLength(cur[w], rearSeen[w]) \in Int
    BY <2>1, <1>acceptor, LengthIsInt DEF TypeOK
  <2> QED
    BY <1>36, <1>acceptor, <1>zero, <2>1, <2>2 DEF TypeOK, PrepareSend, EngineLocs
<1>37. ASSUME NEW w \in Workers, WSASendPends(w) \/ WSASendError(w) PROVE TypeOK'
  BY <1>37, <1>acceptor DEF TypeOK, WSASendPends, WSASendError, EngineLocs
<1>38. ASSUME NEW s \in Sessions, KernelCompletes(s) PROVE TypeOK'
  BY <1>38 DEF TypeOK, KernelCompletes, RecvEnds, SendEnds
<1>39. ASSUME NEW s \in Sessions, PeerStep(s) PROVE TypeOK'
  BY <1>39 DEF TypeOK, PeerStep, RecvArrives, PeerLeaves
<1>40. CASE UNCHANGED vars
  BY <1>40 DEF TypeOK, vars
<1> QED
  BY <1>1, <1>2, <1>3, <1>4, <1>5, <1>6, <1>7, <1>8, <1>9, <1>10, <1>11,
     <1>12, <1>13, <1>14, <1>15, <1>16, <1>17, <1>18, <1>19, <1>20, <1>21,
     <1>22, <1>23, <1>24, <1>25, <1>26, <1>27, <1>28, <1>29, <1>30, <1>31,
     <1>32, <1>33, <1>34, <1>35, <1>36, <1>37, <1>38, <1>39, <1>40
  DEF Next, AcceptStep, SharedStep, StartStep, CallStep, WorkerStep,
      DequeueStep, Rest

-----------------------------------------------------------------------------
\* What a step does to the state the references are counted in.  Most steps
\* of a loop or of a call move one thread inside a class of locations.

\* Loops that run on one reference, without one of a new operation.
PlainLocs == LoopRefLocs \ PostRefLocs
\* Calls with the session lock: without a reference, and with one of their own.
QuietCallLocs == LockedCallLocs \ CallRefLocs
OwnRefCallLocs == CallRefLocs \ {"sendUndo"}

\* No operation starts or is taken off the queue.
SameIO ==
  \A s \in Sessions :
    /\ recvIO'[s] = "none" <=> recvIO[s] = "none"
    /\ sendIO'[s] = "none" <=> sendIO[s] = "none"

\* A loop goes on; nothing is counted.
LoopMove(t) ==
  /\ at[t] \in PlainLocs
  /\ call[t] = "none"
  /\ \E loc \in PlainLocs : Goto(t, loc)
  /\ UNCHANGED <<cur, call, target, tableVars, status, recvIO, sendIO,
                 failedPosts, overlappedIOCnt>>

\* PostRecv or PostSend takes a reference for the operation.
PostStarts(t) ==
  /\ at[t] \in PlainLocs \ Callbacks
  /\ \E loc \in PostRefLocs : Goto(t, loc)
  /\ Incr(cur[t])
  /\ UNCHANGED <<cur, call, target, tableVars, status, recvIO, sendIO,
                 failedPosts>>

\* The kernel takes that reference over.
PostPends(t) ==
  /\ at[t] \in PostRefLocs
  /\ Goto(t, "fin")
  /\ \/ /\ recvIO[cur[t]] = "none"
        /\ recvIO' = [recvIO EXCEPT ![cur[t]] = "pending"]
        /\ UNCHANGED sendIO
     \/ /\ sendIO[cur[t]] = "none"
        /\ sendIO' = [sendIO EXCEPT ![cur[t]] = "pending"]
        /\ UNCHANGED recvIO
  /\ UNCHANGED <<cur, call, target, tableVars, status, failedPosts,
                 overlappedIOCnt>>

\* Winsock refuses, and the reference is given back.
PostFails(t) ==
  /\ at[t] \in PostRefLocs
  /\ Goto(t, "fin")
  /\ Decr(cur[t])
  /\ UNCHANGED <<cur, call, target, tableVars, status, recvIO, sendIO,
                 failedPosts>>

\* A worker takes a completion off the queue, and its reference with it.
Dequeue(w, s) ==
  /\ \E loc \in PlainLocs \ Callbacks : Takes(w, s, loc)
  /\ \/ /\ recvIO[s] # "none"
        /\ recvIO' = [recvIO EXCEPT ![s] = "none"]
        /\ UNCHANGED <<sendIO, failedPosts>>
     \/ /\ sendIO[s] # "none"
        /\ sendIO' = [sendIO EXCEPT ![s] = "none"]
        /\ UNCHANGED <<recvIO, failedPosts>>
     \/ /\ failedPosts[s] > 0
        /\ failedPosts' = [failedPosts EXCEPT ![s] = @ - 1]
        /\ UNCHANGED <<recvIO, sendIO>>
  /\ UNCHANGED <<call, target, tableVars, status, overlappedIOCnt>>

\* A call goes on under the session lock; its reference stays.
CallMove(t) ==
  /\ \E loc \in CallLocs :
       /\ \/ call[t] \in QuietCallLocs /\ loc \in QuietCallLocs
          \/ call[t] \in OwnRefCallLocs /\ loc \in OwnRefCallLocs
       /\ GotoCall(t, loc)
  /\ SameIO
  /\ UNCHANGED <<at, cur, target, tableVars, status, failedPosts,
                 overlappedIOCnt>>

\* The kernel completes, aborts or delivers.
OutsideMove ==
  /\ SameIO
  /\ UNCHANGED <<at, cur, call, target, tableVars, status, failedPosts,
                 overlappedIOCnt>>

\* OnRelease returns.
ReleaseReturns(t) ==
  /\ at[t] = "onRelease"
  /\ call[t] = "none"
  /\ Goto(t, "relUnlock")
  /\ UNCHANGED <<cur, call, target, tableVars, status, recvIO, sendIO,
                 failedPosts, overlappedIOCnt>>

\* ReleaseSession goes on.
ReleaseStep(t) ==
  \/ CloseSocket(t) \/ EraseFromMap(t) \/ LockForRelease(t)
  \/ ReleaseReturns(t) \/ UnlockReleased(t) \/ DeleteSession(t)

\* A call enters, looks its session up, locks it or leaves.
EnterStep(t) ==
  \/ \E s \in Sessions, loc \in LookupLocs : StartCall(t, s, loc)
  \/ \E from \in LookupLocs, to \in WaitLockLocs : Lookup(t, from, to)
  \/ \E from \in WaitLockLocs, to \in QuietCallLocs : LockTarget(t, from, to)
  \/ Unlock(t)

\* What any step is.
Effect ==
  \/ \E s \in Sessions, h \in Handles : CreateSession(s, h)
  \/ AcceptRef
  \/ \E t \in Threads :
       \/ LoopMove(t) \/ PostStarts(t) \/ PostPends(t) \/ PostFails(t)
       \/ DropRef(t) \/ ReleaseStep(t) \/ EnterStep(t) \/ CallMove(t)
       \/ SendIncr(t) \/ SendUndo(t) \/ SendWSAPends(t) \/ SendPost(t)
  \/ \E w \in Workers, s \in Sessions : Dequeue(w, s)
  \/ OutsideMove

-----------------------------------------------------------------------------
\* Counting.

\* Sets of threads are finite: their cardinality follows their elements.
LEMMA ThreadSets ==
  ASSUME NEW S \in SUBSET Threads
  PROVE  /\ Cardinality(S) \in Nat
         /\ Cardinality(S) = 0 <=> S = {}
         /\ \A t \in Threads \ S : Cardinality(S \cup {t}) = Cardinality(S) + 1
         /\ \A t \in S : Cardinality(S \ {t}) = Cardinality(S) - 1
<1>1. IsFiniteSet(S)
  BY ThreadsAssumption, FS_Subset
<1>2. Cardinality(S) \in Nat
  BY <1>1, FS_CardinalityType
<1>3. Cardinality(S) = 0 <=> S = {}
  BY <1>1, FS_EmptySet
<1>4. ASSUME NEW t \in Threads \ S
      PROVE  Cardinality(S \cup {t}) = Cardinality(S) + 1
  BY <1>1, <1>4, FS_AddElement
<1>5. ASSUME NEW t \in S PROVE Cardinality(S \ {t}) = Cardinality(S) - 1
  BY <1>1, <1>5, FS_RemoveElement
<1> QED
  BY <1>2, <1>3, <1>4, <1>5

\* The holders of references on a session are threads.
LEMMA RefSets ==
  ASSUME NEW s \in Sessions
  PROVE  /\ LoopRefs(s) \in SUBSET Threads
         /\ PostRefs(s) \in SUBSET Threads
         /\ CallRefs(s) \in SUBSET Threads
  BY DEF LoopRefs, PostRefs, CallRefs

\* The counter of a session some thread has a reference on.
LEMMA CountPositive ==
  ASSUME TypeOK, LifeInv, RefCountExact, NEW s \in Sessions
  PROVE  /\ overlappedIOCnt[s] \in Nat
         /\ \A t \in LoopRefs(s) : overlappedIOCnt[s] >= 1
         /\ \A t \in PostRefs(s) : overlappedIOCnt[s] >= 2
         /\ overlappedIOCnt[s] = 0 =>
              /\ LoopRefs(s) = {} /\ CallRefs(s) = {}
              /\ recvIO[s] = "none" /\ sendIO[s] = "none" /\ failedPosts[s] = 0
<1>1. /\ Cardinality(LoopRefs(s)) \in Nat
      /\ Cardinality(PostRefs(s)) \in Nat
      /\ Cardinality(CallRefs(s)) \in Nat
  BY RefSets, ThreadSets
<1>2. /\ Cardinality(LoopRefs(s)) = 0 <=> LoopRefs(s) = {}
      /\ Cardinality(PostRefs(s)) = 0 <=> PostRefs(s) = {}
      /\ Cardinality(CallRefs(s)) = 0 <=> CallRefs(s) = {}
  BY RefSets, ThreadSets
<1>3. PostRefs(s) \subseteq LoopRefs(s)
  BY DEF PostRefs, LoopRefs, PostRefLocs, LoopRefLocs
<1>4. failedPosts[s] \in Nat
  BY DEF TypeOK, LifeInv
<1>5. /\ Bit(recvIO[s] # "none") \in {0, 1} /\ Bit(sendIO[s] # "none") \in {0, 1}
      /\ Bit(recvIO[s] # "none") = 0 <=> recvIO[s] = "none"
      /\ Bit(sendIO[s] # "none") = 0 <=> sendIO[s] = "none"
  BY DEF Bit
<1>6. overlappedIOCnt[s] = Refs(s)
  BY DEF RefCountExact
<1> DEFINE L == Cardinality(LoopRefs(s))
           P == Cardinality(PostRefs(s))
           C == Cardinality(CallRefs(s))
           R == Bit(recvIO[s] # "none")
           S == Bit(sendIO[s] # "none")
<1>7. overlappedIOCnt[s] = L + P + C + R + S + failedPosts[s]
  BY <1>6 DEF Refs
<1>8. L \in Nat /\ P \in Nat /\ C \in Nat /\ R \in Nat /\ S \in Nat
  BY <1>1, <1>5
<1> HIDE DEF L, P, C, R, S
<1>9. overlappedIOCnt[s] \in Nat
  BY <1>4, <1>7, <1>8
<1>10. L >= 1 => overlappedIOCnt[s] >= 1
  BY <1>4, <1>7, <1>8
<1>11. L >= 1 /\ P >= 1 => overlappedIOCnt[s] >= 2
  BY <1>4, <1>7, <1>8
<1>12. overlappedIOCnt[s] = 0 => L = 0 /\ C = 0 /\ R = 0 /\ S = 0 /\ failedPosts[s] = 0
  BY <1>4, <1>7, <1>8
<1>13. (L >= 1 <=> LoopRefs(s) # {}) /\ (P >= 1 <=> PostRefs(s) # {})
  BY <1>1, <1>2 DEF L, P
<1> QED
  BY <1>2, <1>3, <1>5, <1>9, <1>10, <1>11, <1>12, <1>13 DEF L, P, C, R, S

\* A loop that gives back the last reference is alone with its session.
LEMMA LastRef ==
  ASSUME TypeOK, LocInv, LifeInv, ReleaseInv, HeldInv, RefCountExact,
         NEW t \in Threads, at[t] = "fin", overlappedIOCnt[cur[t]] = 1
  PROVE  /\ \A u \in Threads : cur[u] = cur[t] => u = t
         /\ CallRefs(cur[t]) = {}
         /\ recvIO[cur[t]] = "none"
         /\ sendIO[cur[t]] = "none"
         /\ failedPosts[cur[t]] = 0
<1> DEFINE s == cur[t]
           L == Cardinality(LoopRefs(s))
           P == Cardinality(PostRefs(s))
           C == Cardinality(CallRefs(s))
           R == Bit(recvIO[s] # "none")
           S == Bit(sendIO[s] # "none")
<1>1. s \in Sessions
  BY LoopHasSession DEF LoopRefLocs
<1>2. t \in LoopRefs(s)
  BY DEF LoopRefs, LoopRefLocs
<1>3. LoopRefs(s) \in SUBSET Threads /\ CallRefs(s) \in SUBSET Threads
  BY <1>1, RefSets
<1>4. /\ L \in Nat /\ P \in Nat /\ C \in Nat
      /\ L = 0 <=> LoopRefs(s) = {}
      /\ C = 0 <=> CallRefs(s) = {}
  BY <1>1, RefSets, ThreadSets
<1>5. /\ R \in {0, 1} /\ S \in {0, 1}
      /\ R = 0 <=> recvIO[s] = "none"
      /\ S = 0 <=> sendIO[s] = "none"
  BY DEF Bit
<1>6. failedPosts[s] \in Nat
  BY <1>1 DEF TypeOK, LifeInv
<1>7. 1 = L + P + C + R + S + failedPosts[s]
  BY <1>1 DEF RefCountExact, Refs
<1>8. L # 0
  BY <1>2, <1>4
<1> HIDE DEF L, P, C, R, S
<1>9. L = 1 /\ C = 0 /\ R = 0 /\ S = 0 /\ failedPosts[s] = 0
  BY <1>4, <1>5, <1>6, <1>7, <1>8
<1>10. LoopRefs(s) = {t}
  <2>1. Cardinality(LoopRefs(s) \ {t}) = 0
    BY <1>2, <1>3, <1>9, ThreadSets DEF L
  <2>2. LoopRefs(s) \ {t} \in SUBSET Threads
    BY <1>3
  <2>3. LoopRefs(s) \ {t} = {}
    BY <2>1, <2>2, ThreadSets
  <2> QED
    BY <1>2, <2>3
<1>11. ASSUME NEW u \in Threads, cur[u] = s, u # t PROVE FALSE
  <2>1. at[u] \notin LoopRefLocs
    BY <1>10, <1>11 DEF LoopRefs
  <2>2. at[u] \notin ReleaseLocs
    BY <1>11 DEF ReleaseInv, ReleaseLocs
  <2>3. at[u] \notin {"accept", "wait", "outside", "zeroRef"}
    BY <1>1, <1>11, ValuesAssumption DEF LocInv
  <2>4. at[u] # "created"
    BY <1>11 DEF HeldInv, LocInv
  <2> QED
    BY <2>1, <2>2, <2>3, <2>4 DEF TypeOK, EngineLocs, LoopRefLocs, ReleaseLocs
<1> QED
  BY <1>4, <1>5, <1>9, <1>11

-----------------------------------------------------------------------------

\* Every step of the engine has one of the effects above on the references.
LEMMA StepEffect ==
  ASSUME IInv, [Next]_vars
  PROVE  Effect
<1> USE DEF engineVars, callVars, loadVars, tableVars, lifeVars, recvVars,
            ringVars, sendVars
<1>acceptor. Acceptor \in Threads /\ Workers \subseteq Threads
  BY DEF Threads
<1>1. ASSUME NEW t \in Threads, CallbackReturns(t)
      PROVE  LoopMove(t) \/ ReleaseReturns(t)
  BY <1>1 DEF CallbackReturns, Callbacks, AfterCallback, LoopMove,
              ReleaseReturns, PlainLocs, LoopRefLocs, PostRefLocs
<1>2. ASSUME NEW t \in Threads, PostRecv(t) PROVE PostStarts(t)
  BY <1>2 DEF PostRecv, PostStarts, PlainLocs, LoopRefLocs, PostRefLocs, Callbacks
<1>3. ASSUME NEW t \in Threads, WSARecvPends(t) PROVE PostPends(t)
  <2>1. recvIO[cur[t]] = "none"
    BY <1>3 DEF IInv, ReceiverInv, WSARecvPends, ReceiverLocs
  <2> QED
    BY <1>3, <2>1 DEF WSARecvPends, PostPends, PostRefLocs
<1>4. ASSUME NEW t \in Threads, at[t] \in PostRefLocs
      PROVE  overlappedIOCnt[cur[t]] # 1
  <2>1. cur[t] \in Sessions
    BY <1>4, LoopHasSession DEF IInv, PostRefLocs, LoopRefLocs
  <2>2. t \in PostRefs(cur[t])
    BY <1>4 DEF PostRefs
  <2> QED
    BY <2>1, <2>2, CountPositive DEF IInv
<1>5. ASSUME NEW t \in Threads, WSARecvError(t) PROVE PostFails(t)
  <2>1. at[t] \in PostRefLocs
    BY <1>5 DEF WSARecvError, PostRefLocs
  <2> QED
    BY <1>4, <1>5, <2>1 DEF WSARecvError, PostFails
<1>6. ASSUME NEW w \in Workers,
             \/ ParsePacket(w) \/ ParseEnds(w) \/ MoveFront(w) \/ ClearWait(w)
             \/ LoadRear(w) \/ LoadFront(w) \/ TakeToken(w) \/ Peek(w)
             \/ GiveUp(w)
      PROVE  LoopMove(w)
  <2>1. at[w] \in PlainLocs /\ at[w] \notin Callbacks
    BY <1>6 DEF ParsePacket, ParseEnds, MoveFront, ClearWait, LoadRear,
                LoadFront, TakeToken, Peek, GiveUp, PlainLocs, LoopRefLocs,
                PostRefLocs, Callbacks
  <2>2. call[w] = "none"
    BY <2>1, <1>acceptor DEF IInv, LocInv, PlainLocs, LoopRefLocs
  <2>3. \E loc \in PlainLocs : Goto(w, loc)
    BY <1>6 DEF ParsePacket, ParseEnds, MoveFront, ClearWait, LoadRear,
                LoadFront, TakeToken, Peek, GiveUp, PlainLocs, LoopRefLocs,
                PostRefLocs
  <2>4. UNCHANGED <<cur, call, target, tableVars, status, recvIO, sendIO,
                    failedPosts, overlappedIOCnt>>
    BY <1>6 DEF ParsePacket, ParseEnds, MoveFront, ClearWait, LoadRear,
                LoadFront, TakeToken, Peek, GiveUp
  <2> QED
    BY <2>1, <2>2, <2>3, <2>4 DEF LoopMove
<1>7. ASSUME NEW w \in Workers, PrepareSend(w) PROVE PostStarts(w)
  <2>1. at[w] \in PlainLocs \ Callbacks
    BY <1>7 DEF PrepareSend, PlainLocs, LoopRefLocs, PostRefLocs, Callbacks
  <2>2. cur[w] \in Sessions
    BY <2>1, <1>acceptor, LoopHasSession DEF IInv, PlainLocs
  <2>3. w \in LoopRefs(cur[w])
    BY <2>1, <1>acceptor DEF LoopRefs, PlainLocs
  <2>4. overlappedIOCnt[cur[w]] # 0
    BY <2>2, <2>3, CountPositive DEF IInv
  <2> QED
    BY <1>7, <2>1, <2>4 DEF PrepareSend, PostStarts, PostRefLocs
<1>8. ASSUME NEW w \in Workers, WSASendPends(w) PROVE PostPends(w)
  <2>1. cur[w] \in Sessions
    BY <1>8, <1>acceptor, LoopHasSession DEF IInv, WSASendPends, LoopRefLocs
  <2>2. w \in TokenHolders(cur[w])
    BY <1>8, <1>acceptor DEF WSASendPends, TokenHolders, TokenLocs
  <2>3. sendIO[cur[w]] = "none"
    BY <2>1, <2>2 DEF IInv, SendTokenExclusive
  <2> QED
    BY <1>8, <2>3 DEF WSASendPends, PostPends, PostRefLocs
<1>9. ASSUME NEW w \in Workers, WSASendError(w) PROVE PostFails(w)
  <2>1. at[w] \in PostRefLocs
    BY <1>9 DEF WSASendError, PostRefLocs
  <2> QED
    BY <1>4, <1>9, <2>1, <1>acceptor DEF WSASendError, PostFails
<1>10. ASSUME NEW w \in Workers, NEW s \in Sessions,
              \/ DequeueRecv(w, s) \/ DequeueRecvEnd(w, s) \/ DequeueSend(w, s)
              \/ DequeueSendEnd(w, s) \/ DequeueFailedPost(w, s)
       PROVE  Dequeue(w, s)
  BY <1>10 DEF DequeueRecv, DequeueRecvEnd, DequeueSend, DequeueSendEnd,
               DequeueFailedPost, Dequeue, PlainLocs, LoopRefLocs, PostRefLocs,
               Callbacks
<1>11. ASSUME NEW t \in Threads,
              \/ RefusePacket(t) \/ EnqueueHeader(t) \/ EnqueuePayload(t)
              \/ DiscExchange(t) \/ SendClear(t) \/ SendWSAError(t)
       PROVE  CallMove(t)
  BY <1>11 DEF RefusePacket, EnqueueHeader, EnqueuePayload, DiscExchange,
               SendClear, SendWSAError, CallMove, SameIO, QuietCallLocs,
               OwnRefCallLocs, LockedCallLocs, CallRefLocs, CallLocs
<1>12. ASSUME NEW t \in Threads, SendPrepare(t) PROVE CallMove(t)
  BY <1>12 DEF SendPrepare, CallMove, SameIO, OwnRefCallLocs, CallRefLocs, CallLocs
<1>13. ASSUME NEW t \in Threads, DiscCancel(t) PROVE CallMove(t)
  <2>1. SameIO
    BY <1>13 DEF DiscCancel, Aborted, SameIO, IInv, TypeOK
  <2> QED
    BY <1>13, <2>1 DEF DiscCancel, CallMove, QuietCallLocs, LockedCallLocs,
                       CallRefLocs, CallLocs
<1>14. ASSUME NEW t \in Threads, SendTakeToken(t)
       PROVE  CallMove(t)
  BY <1>14 DEF SendTakeToken, CallMove, SameIO, QuietCallLocs, LockedCallLocs,
               CallRefLocs, CallLocs
<1>15. ASSUME NEW s \in Sessions, KernelCompletes(s) \/ PeerStep(s) PROVE OutsideMove
  BY <1>15 DEF KernelCompletes, RecvEnds, SendEnds, PeerStep, RecvArrives,
               PeerLeaves, OutsideMove, SameIO, IInv, TypeOK
<1>16. ASSUME NEW t \in Threads, StartStep(t) PROVE EnterStep(t)
  BY <1>16 DEF StartStep, SendPacket, Disconnect, EnterStep, LookupLocs
<1>17. ASSUME NEW t \in Threads,
              \/ Lookup(t, "sendLookup", "sendLock")
              \/ Lookup(t, "discLookup", "discLock")
       PROVE  EnterStep(t)
  BY <1>17 DEF EnterStep, LookupLocs, WaitLockLocs
<1>18. ASSUME NEW t \in Threads,
              \/ LockTarget(t, "sendLock", "sendCheck")
              \/ LockTarget(t, "discLock", "discExchange")
       PROVE  EnterStep(t)
  BY <1>18 DEF EnterStep, WaitLockLocs, QuietCallLocs, LockedCallLocs, CallRefLocs
<1>19. CASE UNCHANGED vars
  <2>1. recvIO' = recvIO /\ sendIO' = sendIO
    BY <1>19 DEF vars
  <2>2. SameIO
    BY <2>1 DEF SameIO
  <2>3. UNCHANGED <<at, cur, call, target, tableVars, status, failedPosts,
                    overlappedIOCnt>>
    BY <1>19 DEF vars
  <2> QED
    BY <2>2, <2>3 DEF OutsideMove, Effect
<1>20. ASSUME NEW t \in Threads, SharedStep(t) PROVE Effect
  BY <1>20, <1>1, <1>2, <1>3, <1>5 DEF SharedStep, ReleaseStep, Effect
<1>21. ASSUME NEW t \in Threads, CallStep(t) PROVE Effect
  BY <1>21, <1>11, <1>12, <1>13, <1>14, <1>17, <1>18
  DEF CallStep, EnterStep, Effect
<1>22. ASSUME NEW w \in Workers, WorkerStep(w) PROVE Effect
  <2>1. CASE DequeueStep(w)
    BY <2>1, <1>10 DEF DequeueStep, Effect
  <2> QED
    BY <1>22, <2>1, <1>6, <1>7, <1>8, <1>9, <1>acceptor DEF WorkerStep, Effect
<1>23. CASE AcceptStep
  BY <1>23 DEF AcceptStep, Effect
<1> QED
  BY <1>15, <1>16, <1>19, <1>20, <1>21, <1>22, <1>23 DEF Next, Rest, Effect

-----------------------------------------------------------------------------
\* The invariant, conjunct by conjunct.

\* A thread keeps a session exactly where its program text has one: every
\* effect of a step preserves LocInv.
LEMMA LocInvStep ==
  ASSUME TypeOK, LocInv, LifeInv, Effect
  PROVE  LocInv'
<1> USE DEF engineVars, callVars, loadVars, tableVars, lifeVars, recvVars,
            ringVars, sendVars, Goto, GotoCall, Incr, Decr, Takes
<1>acceptor. Acceptor \in Threads /\ Workers \subseteq Threads
  BY DEF Threads
<1>1. ASSUME NEW s \in Sessions, NEW h \in Handles, CreateSession(s, h)
       PROVE  LocInv'
  BY <1>1, <1>acceptor
  DEF LocInv, TypeOK, Callbacks, CallRefLocs, LockedCallLocs, CreateSession,
      LoopRefLocs, ReleaseLocs, PostRefLocs
<1>2. CASE AcceptRef
  BY <1>2, <1>acceptor
  DEF LocInv, TypeOK, Callbacks, CallRefLocs, LockedCallLocs, AcceptRef,
      LoopRefLocs, ReleaseLocs
<1>3. ASSUME NEW t \in Threads, LoopMove(t)
       PROVE  LocInv'
  BY <1>3, <1>acceptor
  DEF LocInv, TypeOK, Callbacks, CallRefLocs, LockedCallLocs, LoopMove,
      PlainLocs, LoopRefLocs, PostRefLocs, ReleaseLocs
<1>4. ASSUME NEW t \in Threads, PostStarts(t)
       PROVE  LocInv'
  BY <1>4, <1>acceptor
  DEF LocInv, TypeOK, Callbacks, CallRefLocs, LockedCallLocs, PostStarts,
      PlainLocs, LoopRefLocs, PostRefLocs, ReleaseLocs
<1>5. ASSUME NEW t \in Threads, PostPends(t)
       PROVE  LocInv'
  BY <1>5, <1>acceptor
  DEF LocInv, TypeOK, Callbacks, CallRefLocs, LockedCallLocs, PostPends,
      PostRefLocs, LoopRefLocs, ReleaseLocs
<1>6. ASSUME NEW t \in Threads, PostFails(t)
       PROVE  LocInv'
  BY <1>6, <1>acceptor
  DEF LocInv, TypeOK, Callbacks, CallRefLocs, LockedCallLocs, PostFails,
      PostRefLocs, LoopRefLocs, ReleaseLocs
<1>7. ASSUME NEW t \in Threads, DropRef(t)
       PROVE  LocInv'
  BY <1>7, <1>acceptor
  DEF LocInv, TypeOK, Callbacks, CallRefLocs, LockedCallLocs, DropRef, Idle,
      LoopRefLocs, ReleaseLocs
<1>8. ASSUME NEW t \in Threads, CloseSocket(t)
       PROVE  LocInv'
  BY <1>8, <1>acceptor
  DEF LocInv, TypeOK, Callbacks, CallRefLocs, LockedCallLocs, CloseSocket,
      ReleaseLocs, LoopRefLocs
<1>9. ASSUME NEW t \in Threads, EraseFromMap(t)
       PROVE  LocInv'
  BY <1>9, <1>acceptor
  DEF LocInv, TypeOK, Callbacks, CallRefLocs, LockedCallLocs, EraseFromMap,
      ReleaseLocs, LoopRefLocs
<1>10. ASSUME NEW t \in Threads, LockForRelease(t)
       PROVE  LocInv'
  BY <1>10, <1>acceptor
  DEF LocInv, TypeOK, Callbacks, CallRefLocs, LockedCallLocs,
      LockForRelease, ReleaseLocs, LoopRefLocs
<1>11. ASSUME NEW t \in Threads, ReleaseReturns(t)
       PROVE  LocInv'
  BY <1>11, <1>acceptor
  DEF LocInv, TypeOK, Callbacks, CallRefLocs, LockedCallLocs,
      ReleaseReturns, ReleaseLocs, LoopRefLocs
<1>12. ASSUME NEW t \in Threads, UnlockReleased(t)
       PROVE  LocInv'
  BY <1>12, <1>acceptor
  DEF LocInv, TypeOK, Callbacks, CallRefLocs, LockedCallLocs,
      UnlockReleased, ReleaseLocs, LoopRefLocs
<1>13. ASSUME NEW t \in Threads, DeleteSession(t)
       PROVE  LocInv'
  BY <1>13, <1>acceptor
  DEF LocInv, TypeOK, Callbacks, CallRefLocs, LockedCallLocs, DeleteSession,
      ReleaseLocs, LoopRefLocs, Idle
<1>14. ASSUME NEW t \in Threads, NEW s \in Sessions, NEW loc \in LookupLocs, StartCall(t, s, loc)
       PROVE  LocInv'
  BY <1>14, <1>acceptor, ValuesAssumption
  DEF LocInv, TypeOK, Callbacks, CallRefLocs, LockedCallLocs, StartCall,
      LookupLocs, InContent
<1>15. ASSUME NEW t \in Threads, NEW from \in LookupLocs, NEW to \in WaitLockLocs, Lookup(t, from, to)
       PROVE  LocInv'
  BY <1>15, <1>acceptor, ValuesAssumption
  DEF LocInv, TypeOK, Callbacks, CallRefLocs, LockedCallLocs, Lookup,
      LookupLocs, WaitLockLocs
<1>16. ASSUME NEW t \in Threads, NEW from \in WaitLockLocs, NEW to \in QuietCallLocs, LockTarget(t, from, to)
       PROVE  LocInv'
  BY <1>16, <1>acceptor
  DEF LocInv, TypeOK, Callbacks, CallRefLocs, LockedCallLocs, LockTarget,
      WaitLockLocs, QuietCallLocs
<1>17. ASSUME NEW t \in Threads, Unlock(t)
       PROVE  LocInv'
  BY <1>17, <1>acceptor, ValuesAssumption
  DEF LocInv, TypeOK, Callbacks, CallRefLocs, LockedCallLocs, Unlock
<1>18. ASSUME NEW t \in Threads, CallMove(t)
       PROVE  LocInv'
  BY <1>18, <1>acceptor
  DEF LocInv, TypeOK, Callbacks, CallRefLocs, LockedCallLocs, CallMove,
      QuietCallLocs, OwnRefCallLocs
<1>19. ASSUME NEW t \in Threads, SendIncr(t)
       PROVE  LocInv'
  BY <1>19, <1>acceptor
  DEF LocInv, TypeOK, Callbacks, CallRefLocs, LockedCallLocs, SendIncr
<1>20. ASSUME NEW t \in Threads, SendUndo(t)
       PROVE  LocInv'
  BY <1>20, <1>acceptor
  DEF LocInv, TypeOK, Callbacks, CallRefLocs, LockedCallLocs, SendUndo
<1>21. ASSUME NEW t \in Threads, SendWSAPends(t)
       PROVE  LocInv'
  BY <1>21, <1>acceptor
  DEF LocInv, TypeOK, Callbacks, CallRefLocs, LockedCallLocs, SendWSAPends
<1>22. ASSUME NEW t \in Threads, SendPost(t)
       PROVE  LocInv'
  BY <1>22, <1>acceptor
  DEF LocInv, TypeOK, Callbacks, CallRefLocs, LockedCallLocs, SendPost
<1>23. ASSUME NEW w \in Workers, NEW s \in Sessions, Dequeue(w, s)
       PROVE  LocInv'
  BY <1>23, <1>acceptor
  DEF LocInv, TypeOK, Callbacks, CallRefLocs, LockedCallLocs, Dequeue,
      PlainLocs, LoopRefLocs, PostRefLocs, ReleaseLocs
<1>24. CASE OutsideMove
  BY <1>24, <1>acceptor
  DEF LocInv, TypeOK, Callbacks, CallRefLocs, LockedCallLocs, OutsideMove
<1> QED
  BY <1>1, <1>2, <1>3, <1>4, <1>5, <1>6, <1>7, <1>8, <1>9, <1>10, <1>11,
     <1>12, <1>13, <1>14, <1>15, <1>16, <1>17, <1>18, <1>19, <1>20, <1>21,
     <1>22, <1>23, <1>24
  DEF Effect, ReleaseStep, EnterStep

\* Locks: what a thread does with the map lock and the session locks in
\* Lookup, LockTarget, Unlock and ReleaseSession preserves LockInv.
LEMMA LockInvStep ==
  ASSUME TypeOK, LocInv, LockInv, LifeInv, ReleaseInv, HeldInv,
         RefCountExact, Effect
  PROVE  LockInv'
<1> USE DEF engineVars, callVars, loadVars, tableVars, lifeVars, recvVars,
            ringVars, sendVars, Goto, GotoCall, Incr, Decr, Takes
<1>acceptor. Acceptor \in Threads /\ Workers \subseteq Threads
  BY DEF Threads
<1>1. ASSUME NEW s \in Sessions, NEW h \in Handles, CreateSession(s, h)
       PROVE  LockInv'
  BY <1>1, <1>acceptor
  DEF LockInv, LocInv, TypeOK, Callbacks, LockedCallLocs, WaitLockLocs,
      LookupLocs, ErasedLocs, DetachedLocs, CallRefLocs, CreateSession,
      LoopRefLocs, ReleaseLocs, PostRefLocs, LifeInv
<1>2. CASE AcceptRef
  BY <1>2, <1>acceptor
  DEF LockInv, LocInv, TypeOK, Callbacks, LockedCallLocs, WaitLockLocs,
      LookupLocs, ErasedLocs, DetachedLocs, CallRefLocs, AcceptRef,
      LoopRefLocs, ReleaseLocs
<1>3. ASSUME NEW t \in Threads, LoopMove(t)
       PROVE  LockInv'
  BY <1>3, <1>acceptor
  DEF LockInv, LocInv, TypeOK, Callbacks, LockedCallLocs, WaitLockLocs,
      LookupLocs, ErasedLocs, DetachedLocs, CallRefLocs, LoopMove,
      PlainLocs, LoopRefLocs, PostRefLocs, ReleaseLocs
<1>4. ASSUME NEW t \in Threads, PostStarts(t)
       PROVE  LockInv'
  BY <1>4, <1>acceptor
  DEF LockInv, LocInv, TypeOK, Callbacks, LockedCallLocs, WaitLockLocs,
      LookupLocs, ErasedLocs, DetachedLocs, CallRefLocs, PostStarts,
      PlainLocs, LoopRefLocs, PostRefLocs, ReleaseLocs
<1>5. ASSUME NEW t \in Threads, PostPends(t)
       PROVE  LockInv'
  BY <1>5, <1>acceptor
  DEF LockInv, LocInv, TypeOK, Callbacks, LockedCallLocs, WaitLockLocs,
      LookupLocs, ErasedLocs, DetachedLocs, CallRefLocs, PostPends,
      PostRefLocs, LoopRefLocs, ReleaseLocs
<1>6. ASSUME NEW t \in Threads, PostFails(t)
       PROVE  LockInv'
  BY <1>6, <1>acceptor
  DEF LockInv, LocInv, TypeOK, Callbacks, LockedCallLocs, WaitLockLocs,
      LookupLocs, ErasedLocs, DetachedLocs, CallRefLocs, PostFails,
      PostRefLocs, LoopRefLocs, ReleaseLocs
<1>7. ASSUME NEW t \in Threads, DropRef(t)
       PROVE  LockInv'
  BY <1>7, <1>acceptor
  DEF LockInv, LocInv, TypeOK, Callbacks, LockedCallLocs, WaitLockLocs,
      LookupLocs, ErasedLocs, DetachedLocs, CallRefLocs, DropRef, Idle,
      LoopRefLocs, ReleaseLocs, LifeInv
<1>8. ASSUME NEW t \in Threads, CloseSocket(t)
       PROVE  LockInv'
  BY <1>8, <1>acceptor
  DEF LockInv, LocInv, TypeOK, Callbacks, LockedCallLocs, WaitLockLocs,
      LookupLocs, ErasedLocs, DetachedLocs, CallRefLocs, CloseSocket,
      ReleaseLocs, LoopRefLocs
<1>9. ASSUME NEW t \in Threads, EraseFromMap(t)
       PROVE  LockInv'
  BY <1>9, <1>acceptor, ThreadsAssumption
  DEF LockInv, LocInv, TypeOK, Callbacks, LockedCallLocs, WaitLockLocs,
      LookupLocs, ErasedLocs, DetachedLocs, CallRefLocs, EraseFromMap,
      ReleaseLocs, LoopRefLocs
<1>10. ASSUME NEW t \in Threads, LockForRelease(t)
       PROVE  LockInv'
  <2>1. /\ cur[t] \in Sessions /\ sessionSRWLock[cur[t]] = NoThread
        /\ mSessionMapSRWLock = t /\ NoThread \notin Threads
        /\ call[t] = "none"
    BY <1>10, ThreadsAssumption
    DEF LockForRelease, LockInv, LocInv, ReleaseLocs, Callbacks
  <2>2. \A u \in Threads : target[u] = cur[t] => call[u] \in LookupLocs
    <3> SUFFICES ASSUME NEW u \in Threads, target[u] = cur[t]
                 PROVE  call[u] \in LookupLocs
      OBVIOUS
    <3>1. call[u] \notin LockedCallLocs
      BY <2>1 DEF LockInv
    <3>2. call[u] \notin WaitLockLocs
      BY <2>1, <1>10 DEF LockInv, LockForRelease, ErasedLocs
    <3>3. call[u] # "none"
      BY <2>1 DEF LocInv
    <3> QED
      BY <3>1, <3>2, <3>3 DEF TypeOK, CallLocs, LockedCallLocs, WaitLockLocs, LookupLocs
  <2>3. \A u \in Threads : u # t /\ at[u] \in ReleaseLocs => cur[u] # cur[t]
    BY <1>10 DEF ReleaseInv, LockForRelease, ReleaseLocs
  <2>4. \A u \in Threads : call[u] \notin WaitLockLocs
    BY <2>1 DEF LockInv, WaitLockLocs
  <2>5. \A u \in Threads : u # t => at[u] # "relLock"
    BY <2>1 DEF LockInv
  <2>6. \A u \in Threads : call[u] \in LockedCallLocs => target[u] # cur[t]
    BY <2>2 DEF LockedCallLocs, LookupLocs
  <2>7. /\ at' = [at EXCEPT ![t] = "onRelease"]
        /\ sessionSRWLock' = [sessionSRWLock EXCEPT ![cur[t]] = t]
        /\ UNCHANGED <<cur, call, target, mSessionMap>>
    BY <1>10 DEF LockForRelease
  <2>8. \A u \in Threads :
          call[u] \in LockedCallLocs => sessionSRWLock'[target[u]] = u
    BY <2>6, <2>7 DEF LockInv, TypeOK
  <2>9. \A u \in Threads :
          at'[u] \in {"onRelease", "relUnlock"} => sessionSRWLock'[cur[u]] = u
    BY <2>1, <2>3, <2>7 DEF LockInv, TypeOK, ReleaseLocs
  <2>10. \A u \in Threads : at'[u] \in ErasedLocs => cur[u] \notin mSessionMap
    BY <1>10, <2>7 DEF LockInv, TypeOK, ErasedLocs, LockForRelease
  <2>11. \A u, v \in Threads :
           (at'[u] \in DetachedLocs /\ target[v] = cur[u]) => call[v] \in LookupLocs
    BY <2>2, <2>7 DEF LockInv, TypeOK, DetachedLocs
  <2>12. \A u \in Threads : at'[u] # "relLock"
    BY <2>5, <2>7 DEF TypeOK
  <2> QED
    BY <2>4, <2>7, <2>8, <2>9, <2>10, <2>11, <2>12 DEF LockInv
<1>11. ASSUME NEW t \in Threads, ReleaseReturns(t)
       PROVE  LockInv'
  BY <1>11, <1>acceptor
  DEF LockInv, LocInv, TypeOK, Callbacks, LockedCallLocs, WaitLockLocs,
      LookupLocs, ErasedLocs, DetachedLocs, CallRefLocs, ReleaseReturns,
      ReleaseLocs, LoopRefLocs
<1>12. ASSUME NEW t \in Threads, UnlockReleased(t)
       PROVE  LockInv'
  BY <1>12, <1>acceptor
  DEF LockInv, LocInv, TypeOK, Callbacks, LockedCallLocs, WaitLockLocs,
      LookupLocs, ErasedLocs, DetachedLocs, CallRefLocs, UnlockReleased,
      ReleaseLocs, LoopRefLocs
<1>13. ASSUME NEW t \in Threads, DeleteSession(t)
       PROVE  LockInv'
  BY <1>13, <1>acceptor
  DEF LockInv, LocInv, TypeOK, Callbacks, LockedCallLocs, WaitLockLocs,
      LookupLocs, ErasedLocs, DetachedLocs, CallRefLocs, DeleteSession,
      ReleaseLocs, LoopRefLocs, Idle
<1>14. ASSUME NEW t \in Threads, NEW s \in Sessions, NEW loc \in LookupLocs, StartCall(t, s, loc)
       PROVE  LockInv'
  BY <1>14, <1>acceptor
  DEF LockInv, LocInv, TypeOK, Callbacks, LockedCallLocs, WaitLockLocs,
      LookupLocs, ErasedLocs, DetachedLocs, CallRefLocs, StartCall
<1>15. ASSUME NEW t \in Threads, NEW from \in LookupLocs, NEW to \in WaitLockLocs, Lookup(t, from, to)
       PROVE  LockInv'
  <2>1. \A u \in Threads : at[u] \in DetachedLocs => cur[u] # NoSession
    BY ValuesAssumption DEF LocInv, DetachedLocs, ReleaseLocs

  <2>2. NoThread \notin Threads
    BY ThreadsAssumption
  <2> QED
    BY <1>15, <2>1, <2>2
    DEF LockInv, TypeOK, Lookup, LookupLocs, WaitLockLocs, LockedCallLocs,
        ErasedLocs, DetachedLocs
<1>16. ASSUME NEW t \in Threads, NEW from \in WaitLockLocs, NEW to \in QuietCallLocs, LockTarget(t, from, to)
       PROVE  LockInv'
  BY <1>16, <1>acceptor, ThreadsAssumption
  DEF LockInv, LocInv, TypeOK, Callbacks, LockedCallLocs, WaitLockLocs,
      LookupLocs, ErasedLocs, DetachedLocs, CallRefLocs, LockTarget,
      QuietCallLocs
<1>17. ASSUME NEW t \in Threads, Unlock(t)
       PROVE  LockInv'
  <2>1. \A u \in Threads : at[u] \in DetachedLocs => cur[u] # NoSession
    BY ValuesAssumption DEF LocInv, DetachedLocs, ReleaseLocs

  <2>2. \A u \in Threads :
          at[u] \in {"onRelease", "relUnlock"} => cur[u] # target[t]
    BY <1>17 DEF LockInv, Unlock, DetachedLocs, LookupLocs
  <2>3. \A u \in Threads :
          u # t /\ call[u] \in LockedCallLocs => target[u] # target[t]
    BY <1>17 DEF LockInv, Unlock, LockedCallLocs
  <2> QED
    BY <1>17, <2>1, <2>2, <2>3
    DEF LockInv, LocInv, TypeOK, Unlock, LookupLocs, WaitLockLocs,
        LockedCallLocs, ErasedLocs, DetachedLocs
<1>18. ASSUME NEW t \in Threads, CallMove(t)
       PROVE  LockInv'
  BY <1>18, <1>acceptor
  DEF LockInv, LocInv, TypeOK, Callbacks, LockedCallLocs, WaitLockLocs,
      LookupLocs, ErasedLocs, DetachedLocs, CallRefLocs, CallMove,
      QuietCallLocs, OwnRefCallLocs
<1>19. ASSUME NEW t \in Threads, SendIncr(t)
       PROVE  LockInv'
  BY <1>19, <1>acceptor
  DEF LockInv, LocInv, TypeOK, Callbacks, LockedCallLocs, WaitLockLocs,
      LookupLocs, ErasedLocs, DetachedLocs, CallRefLocs, SendIncr
<1>20. ASSUME NEW t \in Threads, SendUndo(t)
       PROVE  LockInv'
  BY <1>20, <1>acceptor
  DEF LockInv, LocInv, TypeOK, Callbacks, LockedCallLocs, WaitLockLocs,
      LookupLocs, ErasedLocs, DetachedLocs, CallRefLocs, SendUndo
<1>21. ASSUME NEW t \in Threads, SendWSAPends(t)
       PROVE  LockInv'
  BY <1>21, <1>acceptor
  DEF LockInv, LocInv, TypeOK, Callbacks, LockedCallLocs, WaitLockLocs,
      LookupLocs, ErasedLocs, DetachedLocs, CallRefLocs, SendWSAPends
<1>22. ASSUME NEW t \in Threads, SendPost(t)
       PROVE  LockInv'
  BY <1>22, <1>acceptor
  DEF LockInv, LocInv, TypeOK, Callbacks, LockedCallLocs, WaitLockLocs,
      LookupLocs, ErasedLocs, DetachedLocs, CallRefLocs, SendPost
<1>23. ASSUME NEW w \in Workers, NEW s \in Sessions, Dequeue(w, s)
       PROVE  LockInv'
  BY <1>23, <1>acceptor
  DEF LockInv, LocInv, TypeOK, Callbacks, LockedCallLocs, WaitLockLocs,
      LookupLocs, ErasedLocs, DetachedLocs, CallRefLocs, Dequeue, PlainLocs,
      LoopRefLocs, PostRefLocs, ReleaseLocs
<1>24. CASE OutsideMove
  BY <1>24, <1>acceptor
  DEF LockInv, LocInv, TypeOK, Callbacks, LockedCallLocs, WaitLockLocs,
      LookupLocs, ErasedLocs, DetachedLocs, CallRefLocs, OutsideMove
<1> QED
  BY <1>1, <1>2, <1>3, <1>4, <1>5, <1>6, <1>7, <1>8, <1>9, <1>10, <1>11,
     <1>12, <1>13, <1>14, <1>15, <1>16, <1>17, <1>18, <1>19, <1>20, <1>21,
     <1>22, <1>23, <1>24
  DEF Effect, ReleaseStep, EnterStep

\* Life of a session: no step refers to a session that is not yet created or
\* already deleted.
LEMMA LifeInvStep ==
  ASSUME TypeOK, LocInv, LockInv, LifeInv, ReleaseInv, HeldInv,
         RefCountExact, Effect
  PROVE  LifeInv'
<1> USE DEF engineVars, callVars, loadVars, tableVars, lifeVars, recvVars,
            ringVars, sendVars, Goto, GotoCall, Incr, Decr, Takes
<1>acceptor. Acceptor \in Threads /\ Workers \subseteq Threads
  BY DEF Threads
<1>1. ASSUME NEW s \in Sessions, NEW h \in Handles, CreateSession(s, h)
       PROVE  LifeInv'
  BY <1>1, <1>acceptor, ValuesAssumption
  DEF LifeInv, LocInv, TypeOK, LookupLocs, WaitLockLocs, CreateSession,
      LoopRefLocs, ReleaseLocs, PostRefLocs
<1>2. CASE AcceptRef
  BY <1>2, <1>acceptor
  DEF LifeInv, LocInv, TypeOK, LookupLocs, WaitLockLocs, AcceptRef,
      LoopRefLocs, ReleaseLocs
<1>3. ASSUME NEW t \in Threads, LoopMove(t)
       PROVE  LifeInv'
  BY <1>3, <1>acceptor
  DEF LifeInv, LocInv, TypeOK, LookupLocs, WaitLockLocs, LoopMove,
      PlainLocs, LoopRefLocs, PostRefLocs, ReleaseLocs
<1>4. ASSUME NEW t \in Threads, PostStarts(t)
       PROVE  LifeInv'
  BY <1>4, <1>acceptor
  DEF LifeInv, LocInv, TypeOK, LookupLocs, WaitLockLocs, PostStarts,
      PlainLocs, LoopRefLocs, PostRefLocs, ReleaseLocs, Callbacks
<1>5. ASSUME NEW t \in Threads, PostPends(t)
       PROVE  LifeInv'
  BY <1>5, <1>acceptor, LoopHasSession
  DEF LifeInv, LocInv, TypeOK, LookupLocs, WaitLockLocs, PostPends,
      PostRefLocs, LoopRefLocs, ReleaseLocs
<1>6. ASSUME NEW t \in Threads, PostFails(t)
       PROVE  LifeInv'
  BY <1>6, <1>acceptor
  DEF LifeInv, LocInv, TypeOK, LookupLocs, WaitLockLocs, PostFails,
      PostRefLocs, LoopRefLocs, ReleaseLocs
<1>7. ASSUME NEW t \in Threads, DropRef(t)
       PROVE  LifeInv'
  BY <1>7, <1>acceptor, ValuesAssumption
  DEF LifeInv, LocInv, TypeOK, LookupLocs, WaitLockLocs, DropRef, Idle,
      LoopRefLocs, ReleaseLocs
<1>8. ASSUME NEW t \in Threads, CloseSocket(t)
       PROVE  LifeInv'
  BY <1>8, <1>acceptor
  DEF LifeInv, LocInv, TypeOK, LookupLocs, WaitLockLocs, CloseSocket,
      ReleaseLocs, LoopRefLocs
<1>9. ASSUME NEW t \in Threads, EraseFromMap(t)
       PROVE  LifeInv'
  BY <1>9, <1>acceptor
  DEF LifeInv, LocInv, TypeOK, LookupLocs, WaitLockLocs, EraseFromMap,
      ReleaseLocs, LoopRefLocs
<1>10. ASSUME NEW t \in Threads, LockForRelease(t)
       PROVE  LifeInv'
  BY <1>10, <1>acceptor
  DEF LifeInv, LocInv, TypeOK, LookupLocs, WaitLockLocs, LockForRelease,
      ReleaseLocs, LoopRefLocs
<1>11. ASSUME NEW t \in Threads, ReleaseReturns(t)
       PROVE  LifeInv'
  BY <1>11, <1>acceptor
  DEF LifeInv, LocInv, TypeOK, LookupLocs, WaitLockLocs, ReleaseReturns,
      ReleaseLocs, LoopRefLocs
<1>12. ASSUME NEW t \in Threads, UnlockReleased(t)
       PROVE  LifeInv'
  BY <1>12, <1>acceptor
  DEF LifeInv, LocInv, TypeOK, LookupLocs, WaitLockLocs, UnlockReleased,
      ReleaseLocs, LoopRefLocs
<1>13. ASSUME NEW t \in Threads, DeleteSession(t)
       PROVE  LifeInv'
  BY <1>13, <1>acceptor, ValuesAssumption
  DEF LifeInv, LocInv, TypeOK, LookupLocs, WaitLockLocs, DeleteSession,
      ReleaseLocs, LoopRefLocs, Idle, LockInv, ReleaseInv, ErasedLocs,
      DetachedLocs
<1>14. ASSUME NEW t \in Threads, NEW s \in Sessions, NEW loc \in LookupLocs, StartCall(t, s, loc)
       PROVE  LifeInv'
  BY <1>14, <1>acceptor, ValuesAssumption
  DEF LifeInv, LocInv, TypeOK, LookupLocs, WaitLockLocs, StartCall,
      Announced
<1>15. ASSUME NEW t \in Threads, NEW from \in LookupLocs, NEW to \in WaitLockLocs, Lookup(t, from, to)
       PROVE  LifeInv'
  BY <1>15, <1>acceptor, ValuesAssumption
  DEF LifeInv, LocInv, TypeOK, LookupLocs, WaitLockLocs, Lookup
<1>16. ASSUME NEW t \in Threads, NEW from \in WaitLockLocs, NEW to \in QuietCallLocs, LockTarget(t, from, to)
       PROVE  LifeInv'
  BY <1>16, <1>acceptor
  DEF LifeInv, LocInv, TypeOK, LookupLocs, WaitLockLocs, LockTarget,
      QuietCallLocs, LockInv
<1>17. ASSUME NEW t \in Threads, Unlock(t)
       PROVE  LifeInv'
  BY <1>17, <1>acceptor, ValuesAssumption
  DEF LifeInv, LocInv, TypeOK, LookupLocs, WaitLockLocs, Unlock
<1>18. ASSUME NEW t \in Threads, CallMove(t)
       PROVE  LifeInv'
  BY <1>18, <1>acceptor
  DEF LifeInv, LocInv, TypeOK, LookupLocs, WaitLockLocs, CallMove,
      QuietCallLocs, OwnRefCallLocs, SameIO, LockedCallLocs, CallRefLocs
<1>19. ASSUME NEW t \in Threads, SendIncr(t)
       PROVE  LifeInv'
  BY <1>19, <1>acceptor
  DEF LifeInv, LocInv, TypeOK, LookupLocs, WaitLockLocs, SendIncr
<1>20. ASSUME NEW t \in Threads, SendUndo(t)
       PROVE  LifeInv'
  BY <1>20, <1>acceptor
  DEF LifeInv, LocInv, TypeOK, LookupLocs, WaitLockLocs, SendUndo
<1>21. ASSUME NEW t \in Threads, SendWSAPends(t)
       PROVE  LifeInv'
  BY <1>21, <1>acceptor, CallHasSession
  DEF LifeInv, LocInv, TypeOK, LookupLocs, WaitLockLocs, SendWSAPends
<1>22. ASSUME NEW t \in Threads, SendPost(t)
       PROVE  LifeInv'
  BY <1>22, <1>acceptor, CallHasSession
  DEF LifeInv, LocInv, TypeOK, LookupLocs, WaitLockLocs, SendPost
<1>23. ASSUME NEW w \in Workers, NEW s \in Sessions, Dequeue(w, s)
       PROVE  LifeInv'
  BY <1>23, <1>acceptor
  DEF LifeInv, LocInv, TypeOK, LookupLocs, WaitLockLocs, Dequeue, PlainLocs,
      LoopRefLocs, PostRefLocs, ReleaseLocs
<1>24. CASE OutsideMove
  BY <1>24, <1>acceptor
  DEF LifeInv, LocInv, TypeOK, LookupLocs, WaitLockLocs, OutsideMove, SameIO
<1> QED
  BY <1>1, <1>2, <1>3, <1>4, <1>5, <1>6, <1>7, <1>8, <1>9, <1>10, <1>11,
     <1>12, <1>13, <1>14, <1>15, <1>16, <1>17, <1>18, <1>19, <1>20, <1>21,
     <1>22, <1>23, <1>24
  DEF Effect, ReleaseStep, EnterStep

\* Release: a second thread never enters ReleaseSession of the same session,
\* and only a SendPacket that takes its increment back has a reference then.
LEMMA ReleaseInvStep ==
  ASSUME TypeOK, LocInv, LockInv, LifeInv, ReleaseInv, HeldInv,
         RefCountExact, Effect
  PROVE  ReleaseInv'
<1> USE DEF engineVars, callVars, loadVars, tableVars, lifeVars, recvVars,
            ringVars, sendVars, Goto, GotoCall, Incr, Decr, Takes
<1>acceptor. Acceptor \in Threads /\ Workers \subseteq Threads
  BY DEF Threads
<1>1. ASSUME NEW s \in Sessions, NEW h \in Handles, CreateSession(s, h)
       PROVE  ReleaseInv'
  BY <1>1, <1>acceptor, ValuesAssumption
  DEF ReleaseInv, LocInv, TypeOK, CallRefLocs, CreateSession, LoopRefLocs,
      ReleaseLocs, PostRefLocs, LifeInv
<1>2. CASE AcceptRef
  BY <1>2, <1>acceptor
  DEF ReleaseInv, LocInv, TypeOK, CallRefLocs, AcceptRef, LoopRefLocs,
      ReleaseLocs, HeldInv
<1>3. ASSUME NEW t \in Threads, LoopMove(t)
       PROVE  ReleaseInv'
  BY <1>3, <1>acceptor
  DEF ReleaseInv, LocInv, TypeOK, CallRefLocs, LoopMove, PlainLocs,
      LoopRefLocs, PostRefLocs, ReleaseLocs
<1>4. ASSUME NEW t \in Threads, PostStarts(t)
       PROVE  ReleaseInv'
  BY <1>4, <1>acceptor
  DEF ReleaseInv, LocInv, TypeOK, CallRefLocs, PostStarts, PlainLocs,
      LoopRefLocs, PostRefLocs, ReleaseLocs, Callbacks
<1>5. ASSUME NEW t \in Threads, PostPends(t)
       PROVE  ReleaseInv'
  BY <1>5, <1>acceptor
  DEF ReleaseInv, LocInv, TypeOK, CallRefLocs, PostPends, PostRefLocs,
      LoopRefLocs, ReleaseLocs
<1>6. ASSUME NEW t \in Threads, PostFails(t)
       PROVE  ReleaseInv'
  BY <1>6, <1>acceptor
  DEF ReleaseInv, LocInv, TypeOK, CallRefLocs, PostFails, PostRefLocs,
      LoopRefLocs, ReleaseLocs
<1>7. ASSUME NEW t \in Threads, DropRef(t)
       PROVE  ReleaseInv'
  <2>0. UNCHANGED <<call, target, recvIO, sendIO, failedPosts>>
    BY <1>7 DEF DropRef
  <2>1. CASE overlappedIOCnt[cur[t]] = 1
    <3>1. at' = [at EXCEPT ![t] = "relClose"] /\ cur' = cur
      BY <1>7, <2>1 DEF DropRef
    <3>2. /\ \A u \in Threads : cur[u] = cur[t] => u = t
          /\ CallRefs(cur[t]) = {}
          /\ recvIO[cur[t]] = "none" /\ sendIO[cur[t]] = "none"
          /\ failedPosts[cur[t]] = 0
      BY <1>7, <2>1, LastRef DEF DropRef
    <3>3. at'[t] = "relClose" /\ \A u \in Threads : u # t => at'[u] = at[u]
      BY <3>1 DEF TypeOK
    <3>4. \A u \in Threads :
            ~(target[u] = cur[t] /\ call[u] \in CallRefLocs)
      BY <3>2 DEF CallRefs
    <3>5. at[t] \notin ReleaseLocs
      BY <1>7 DEF DropRef, ReleaseLocs
    <3>6. \A u \in Threads : at'[u] \in ReleaseLocs => u = t \/ at[u] \in ReleaseLocs
      BY <3>3
    <3>7. \A u \in Threads : at[u] \in ReleaseLocs => at'[u] \in ReleaseLocs
      BY <3>3, <3>5
    <3>8. "relClose" \in ReleaseLocs
      BY DEF ReleaseLocs
    <3> QED
      BY <2>0, <3>1, <3>2, <3>3, <3>4, <3>6, <3>7, <3>8 DEF ReleaseInv
  <2>2. CASE overlappedIOCnt[cur[t]] # 1
    <3>1. /\ at' = [at EXCEPT ![t] = Idle(t)]
          /\ cur' = [cur EXCEPT ![t] = NoSession]
      BY <1>7, <2>2 DEF DropRef
    <3>2. Idle(t) \notin ReleaseLocs /\ at[t] \notin ReleaseLocs
      BY <1>7 DEF Idle, ReleaseLocs, DropRef
    <3>3. \A u \in Threads : at'[u] \in ReleaseLocs <=> at[u] \in ReleaseLocs
      BY <3>1, <3>2 DEF TypeOK
    <3>4. \A u \in Threads : at[u] \in ReleaseLocs =>
            u # t /\ cur'[u] = cur[u] /\ cur[u] \in Sessions
      BY <3>1, <3>2 DEF TypeOK, LocInv
    <3>5. \A u, v \in Threads :
            (at[u] \in ReleaseLocs /\ cur'[v] = cur[u]) => v # t /\ cur[v] = cur[u]
      BY <3>1, <3>4, ValuesAssumption DEF TypeOK
    <3> QED
      BY <2>0, <3>3, <3>4, <3>5 DEF ReleaseInv
  <2> QED
    BY <2>1, <2>2
<1>8. ASSUME NEW t \in Threads, CloseSocket(t)
       PROVE  ReleaseInv'
  BY <1>8, <1>acceptor
  DEF ReleaseInv, LocInv, TypeOK, CallRefLocs, CloseSocket, ReleaseLocs,
      LoopRefLocs
<1>9. ASSUME NEW t \in Threads, EraseFromMap(t)
       PROVE  ReleaseInv'
  BY <1>9, <1>acceptor
  DEF ReleaseInv, LocInv, TypeOK, CallRefLocs, EraseFromMap, ReleaseLocs,
      LoopRefLocs
<1>10. ASSUME NEW t \in Threads, LockForRelease(t)
       PROVE  ReleaseInv'
  BY <1>10, <1>acceptor
  DEF ReleaseInv, LocInv, TypeOK, CallRefLocs, LockForRelease, ReleaseLocs,
      LoopRefLocs
<1>11. ASSUME NEW t \in Threads, ReleaseReturns(t)
       PROVE  ReleaseInv'
  BY <1>11, <1>acceptor
  DEF ReleaseInv, LocInv, TypeOK, CallRefLocs, ReleaseReturns, ReleaseLocs,
      LoopRefLocs
<1>12. ASSUME NEW t \in Threads, UnlockReleased(t)
       PROVE  ReleaseInv'
  BY <1>12, <1>acceptor
  DEF ReleaseInv, LocInv, TypeOK, CallRefLocs, UnlockReleased, ReleaseLocs,
      LoopRefLocs
<1>13. ASSUME NEW t \in Threads, DeleteSession(t)
       PROVE  ReleaseInv'
  <2>1. cur[t] \in Sessions
    BY <1>13, LoopHasSession DEF DeleteSession, ReleaseLocs
  <2>2. \A u \in Threads : call[u] = "sendUndo" => target[u] # cur[t]
    BY <1>13 DEF DeleteSession, LockInv, DetachedLocs, LookupLocs
  <2>3. \A u \in Threads : u # t => cur[u] # cur[t]
    BY <1>13 DEF DeleteSession, ReleaseInv, ReleaseLocs
  <2>4. /\ at' = [at EXCEPT ![t] = Idle(t)]
        /\ cur' = [cur EXCEPT ![t] = NoSession]
        /\ UNCHANGED <<call, target, recvIO, sendIO, failedPosts>>
    BY <1>13 DEF DeleteSession
  <2>5. Idle(t) \notin ReleaseLocs
    BY DEF Idle, ReleaseLocs
  <2>6. \A u \in Threads : at'[u] \in ReleaseLocs =>
          u # t /\ at[u] \in ReleaseLocs /\ cur'[u] = cur[u] /\ cur[u] \in Sessions
    BY <2>4, <2>5 DEF TypeOK, LocInv
  <2>7. \A u, v \in Threads :
          (at'[u] \in ReleaseLocs /\ cur'[v] = cur'[u]) => v # t /\ cur[v] = cur[u]
    BY <2>4, <2>6, ValuesAssumption DEF TypeOK
  <2>8. \A u \in Threads : u # t => at'[u] = at[u]
    BY <2>4 DEF TypeOK
  <2>9. \A u \in Threads : call[u] = "sendUndo" =>
          \E v \in Threads : at'[v] \in ReleaseLocs /\ cur'[v] = target[u]
    <3> SUFFICES ASSUME NEW u \in Threads, call[u] = "sendUndo"
                 PROVE  \E v \in Threads : at'[v] \in ReleaseLocs /\ cur'[v] = target[u]
      OBVIOUS
    <3>1. PICK v \in Threads : at[v] \in ReleaseLocs /\ cur[v] = target[u]
      BY DEF ReleaseInv
    <3>2. v # t
      BY <2>2, <3>1
    <3> QED
      BY <2>4, <3>1, <3>2 DEF TypeOK
  <2> QED
    BY <2>4, <2>6, <2>7, <2>8, <2>9 DEF ReleaseInv
<1>14. ASSUME NEW t \in Threads, NEW s \in Sessions, NEW loc \in LookupLocs, StartCall(t, s, loc)
       PROVE  ReleaseInv'
  BY <1>14, <1>acceptor, ValuesAssumption
  DEF ReleaseInv, LocInv, TypeOK, CallRefLocs, StartCall, LookupLocs
<1>15. ASSUME NEW t \in Threads, NEW from \in LookupLocs, NEW to \in WaitLockLocs, Lookup(t, from, to)
       PROVE  ReleaseInv'
  BY <1>15, <1>acceptor, ValuesAssumption
  DEF ReleaseInv, LocInv, TypeOK, CallRefLocs, Lookup, LookupLocs,
      WaitLockLocs
<1>16. ASSUME NEW t \in Threads, NEW from \in WaitLockLocs, NEW to \in QuietCallLocs, LockTarget(t, from, to)
       PROVE  ReleaseInv'
  BY <1>16, <1>acceptor
  DEF ReleaseInv, LocInv, TypeOK, CallRefLocs, LockTarget, WaitLockLocs,
      QuietCallLocs
<1>17. ASSUME NEW t \in Threads, Unlock(t)
       PROVE  ReleaseInv'
  BY <1>17, <1>acceptor, ValuesAssumption
  DEF ReleaseInv, LocInv, TypeOK, CallRefLocs, Unlock
<1>18. ASSUME NEW t \in Threads, CallMove(t)
       PROVE  ReleaseInv'
  BY <1>18, <1>acceptor
  DEF ReleaseInv, LocInv, TypeOK, CallRefLocs, CallMove, QuietCallLocs,
      OwnRefCallLocs, SameIO, LockedCallLocs
<1>19. ASSUME NEW t \in Threads, SendIncr(t)
       PROVE  ReleaseInv'
  <2>1. target[t] \in Sessions
    BY <1>19, CallHasSession DEF SendIncr
  <2>2. \A u \in Threads : target[u] = target[t] => call[u] \notin CallRefLocs
    BY <1>19 DEF SendIncr, LockInv, CallRefLocs, LockedCallLocs
  <2>3. CASE overlappedIOCnt[target[t]] = 0
    <3>1. \E u \in Threads : at[u] \in ReleaseLocs /\ cur[u] = target[t]
      BY <1>19, <2>1, <2>3 DEF HeldInv, LifeInv, SendIncr, LookupLocs
    <3> QED
      BY <1>19, <2>3, <3>1 DEF ReleaseInv, TypeOK, SendIncr, CallRefLocs
  <2>4. CASE overlappedIOCnt[target[t]] # 0
    <3>1. ASSUME NEW u \in Threads, at[u] \in ReleaseLocs, cur[u] = target[t]
          PROVE  FALSE
      <4>1. LoopRefs(target[t]) = {}
        BY <3>1 DEF ReleaseInv, LoopRefs, LoopRefLocs, ReleaseLocs
      <4>2. PostRefs(target[t]) = {}
        BY <3>1 DEF ReleaseInv, PostRefs, PostRefLocs, ReleaseLocs
      <4>3. CallRefs(target[t]) = {}
        BY <2>2 DEF CallRefs
      <4>4. /\ recvIO[target[t]] = "none" /\ sendIO[target[t]] = "none"
            /\ failedPosts[target[t]] = 0
        BY <3>1 DEF ReleaseInv
      <4>5. Refs(target[t]) = 0
        BY <4>1, <4>2, <4>3, <4>4, FS_EmptySet DEF Refs, Bit
      <4> QED
        BY <2>1, <2>4, <4>5 DEF RefCountExact
    <3> QED
      BY <1>19, <2>4, <3>1 DEF ReleaseInv, TypeOK, SendIncr, CallRefLocs
  <2> QED
    BY <2>3, <2>4
<1>20. ASSUME NEW t \in Threads, SendUndo(t)
       PROVE  ReleaseInv'
  BY <1>20, <1>acceptor
  DEF ReleaseInv, LocInv, TypeOK, CallRefLocs, SendUndo
<1>21. ASSUME NEW t \in Threads, SendWSAPends(t)
       PROVE  ReleaseInv'
  BY <1>21, <1>acceptor
  DEF ReleaseInv, LocInv, TypeOK, CallRefLocs, SendWSAPends
<1>22. ASSUME NEW t \in Threads, SendPost(t)
       PROVE  ReleaseInv'
  BY <1>22, <1>acceptor
  DEF ReleaseInv, LocInv, TypeOK, CallRefLocs, SendPost
<1>23. ASSUME NEW w \in Workers, NEW s \in Sessions, Dequeue(w, s)
       PROVE  ReleaseInv'
  BY <1>23, <1>acceptor
  DEF ReleaseInv, LocInv, TypeOK, CallRefLocs, Dequeue, PlainLocs,
      LoopRefLocs, PostRefLocs, ReleaseLocs
<1>24. CASE OutsideMove
  BY <1>24, <1>acceptor
  DEF ReleaseInv, LocInv, TypeOK, CallRefLocs, OutsideMove, SameIO
<1> QED
  BY <1>1, <1>2, <1>3, <1>4, <1>5, <1>6, <1>7, <1>8, <1>9, <1>10, <1>11,
     <1>12, <1>13, <1>14, <1>15, <1>16, <1>17, <1>18, <1>19, <1>20, <1>21,
     <1>22, <1>23, <1>24
  DEF Effect, ReleaseStep, EnterStep

\* Reference: from its OnAccept to its release a session is held by someone.
LEMMA HeldInvStep ==
  ASSUME TypeOK, LocInv, LockInv, LifeInv, ReleaseInv, HeldInv,
         RefCountExact, Effect
  PROVE  HeldInv'
<1> USE DEF engineVars, callVars, loadVars, tableVars, lifeVars, recvVars,
            ringVars, sendVars, Goto, GotoCall, Incr, Decr, Takes
<1>acceptor. Acceptor \in Threads /\ Workers \subseteq Threads
  BY DEF Threads
<1>1. ASSUME NEW s \in Sessions, NEW h \in Handles, CreateSession(s, h)
       PROVE  HeldInv'
  BY <1>1, <1>acceptor, ValuesAssumption
  DEF HeldInv, LocInv, TypeOK, CreateSession, LoopRefLocs, ReleaseLocs,
      PostRefLocs, LifeInv
<1>2. CASE AcceptRef
  BY <1>2, <1>acceptor, LoopHasSession, CountPositive
  DEF HeldInv, LocInv, TypeOK, AcceptRef, LoopRefLocs, ReleaseLocs
<1>3. ASSUME NEW t \in Threads, LoopMove(t)
       PROVE  HeldInv'
  BY <1>3, <1>acceptor
  DEF HeldInv, LocInv, TypeOK, LoopMove, PlainLocs, LoopRefLocs,
      PostRefLocs, ReleaseLocs
<1>4. ASSUME NEW t \in Threads, PostStarts(t)
       PROVE  HeldInv'
  BY <1>4, <1>acceptor
  DEF HeldInv, LocInv, TypeOK, PostStarts, PlainLocs, LoopRefLocs,
      PostRefLocs, ReleaseLocs, Callbacks
<1>5. ASSUME NEW t \in Threads, PostPends(t)
       PROVE  HeldInv'
  BY <1>5, <1>acceptor
  DEF HeldInv, LocInv, TypeOK, PostPends, PostRefLocs, LoopRefLocs,
      ReleaseLocs
<1>6. ASSUME NEW t \in Threads, PostFails(t)
       PROVE  HeldInv'
  <2>1. cur[t] \in Sessions /\ t \in PostRefs(cur[t])
    BY <1>6, LoopHasSession DEF PostFails, PostRefs, PostRefLocs, LoopRefLocs
  <2>2. overlappedIOCnt[cur[t]] >= 2 /\ overlappedIOCnt[cur[t]] \in Nat
    BY <2>1, CountPositive
  <2> QED
    BY <1>6, <2>1, <2>2, <1>acceptor
    DEF HeldInv, LocInv, TypeOK, PostFails, PostRefLocs, ReleaseLocs
<1>7. ASSUME NEW t \in Threads, DropRef(t)
       PROVE  HeldInv'
  <2>1. cur[t] \in Sessions /\ t \in LoopRefs(cur[t])
    BY <1>7, LoopHasSession DEF DropRef, LoopRefs, LoopRefLocs
  <2>2. overlappedIOCnt[cur[t]] >= 1 /\ overlappedIOCnt[cur[t]] \in Nat
    BY <2>1, CountPositive
  <2>3. CASE overlappedIOCnt[cur[t]] = 1
    BY <1>7, <2>1, <2>3, <1>acceptor DEF HeldInv, LocInv, TypeOK, DropRef, ReleaseLocs
  <2>4. CASE overlappedIOCnt[cur[t]] # 1
    BY <1>7, <2>1, <2>2, <2>4, <1>acceptor, ValuesAssumption
    DEF HeldInv, LocInv, TypeOK, DropRef, Idle, ReleaseLocs
  <2> QED
    BY <2>3, <2>4
<1>8. ASSUME NEW t \in Threads, CloseSocket(t)
       PROVE  HeldInv'
  BY <1>8, <1>acceptor
  DEF HeldInv, LocInv, TypeOK, CloseSocket, ReleaseLocs, LoopRefLocs
<1>9. ASSUME NEW t \in Threads, EraseFromMap(t)
       PROVE  HeldInv'
  BY <1>9, <1>acceptor
  DEF HeldInv, LocInv, TypeOK, EraseFromMap, ReleaseLocs, LoopRefLocs
<1>10. ASSUME NEW t \in Threads, LockForRelease(t)
       PROVE  HeldInv'
  BY <1>10, <1>acceptor
  DEF HeldInv, LocInv, TypeOK, LockForRelease, ReleaseLocs, LoopRefLocs
<1>11. ASSUME NEW t \in Threads, ReleaseReturns(t)
       PROVE  HeldInv'
  BY <1>11, <1>acceptor
  DEF HeldInv, LocInv, TypeOK, ReleaseReturns, ReleaseLocs, LoopRefLocs
<1>12. ASSUME NEW t \in Threads, UnlockReleased(t)
       PROVE  HeldInv'
  BY <1>12, <1>acceptor
  DEF HeldInv, LocInv, TypeOK, UnlockReleased, ReleaseLocs, LoopRefLocs
<1>13. ASSUME NEW t \in Threads, DeleteSession(t)
       PROVE  HeldInv'
  BY <1>13, <1>acceptor, ValuesAssumption, LoopHasSession
  DEF HeldInv, LocInv, TypeOK, DeleteSession, ReleaseLocs, LoopRefLocs,
      Idle, ReleaseInv
<1>14. ASSUME NEW t \in Threads, NEW s \in Sessions, NEW loc \in LookupLocs, StartCall(t, s, loc)
       PROVE  HeldInv'
  BY <1>14, <1>acceptor
  DEF HeldInv, LocInv, TypeOK, StartCall, LookupLocs
<1>15. ASSUME NEW t \in Threads, NEW from \in LookupLocs, NEW to \in WaitLockLocs, Lookup(t, from, to)
       PROVE  HeldInv'
  BY <1>15, <1>acceptor
  DEF HeldInv, LocInv, TypeOK, Lookup, LookupLocs, WaitLockLocs
<1>16. ASSUME NEW t \in Threads, NEW from \in WaitLockLocs, NEW to \in QuietCallLocs, LockTarget(t, from, to)
       PROVE  HeldInv'
  BY <1>16, <1>acceptor
  DEF HeldInv, LocInv, TypeOK, LockTarget, WaitLockLocs, QuietCallLocs
<1>17. ASSUME NEW t \in Threads, Unlock(t)
       PROVE  HeldInv'
  BY <1>17, <1>acceptor
  DEF HeldInv, LocInv, TypeOK, Unlock
<1>18. ASSUME NEW t \in Threads, CallMove(t)
       PROVE  HeldInv'
  BY <1>18, <1>acceptor
  DEF HeldInv, LocInv, TypeOK, CallMove, QuietCallLocs, OwnRefCallLocs,
      SameIO
<1>19. ASSUME NEW t \in Threads, SendIncr(t)
       PROVE  HeldInv'
  BY <1>19, <1>acceptor
  DEF HeldInv, LocInv, TypeOK, SendIncr
<1>20. ASSUME NEW t \in Threads, SendUndo(t)
       PROVE  HeldInv'
  BY <1>20, <1>acceptor
  DEF HeldInv, LocInv, TypeOK, SendUndo, ReleaseInv
<1>21. ASSUME NEW t \in Threads, SendWSAPends(t)
       PROVE  HeldInv'
  BY <1>21, <1>acceptor, CallHasSession
  DEF HeldInv, LocInv, TypeOK, SendWSAPends, LifeInv, LookupLocs
<1>22. ASSUME NEW t \in Threads, SendPost(t)
       PROVE  HeldInv'
  BY <1>22, <1>acceptor, CallHasSession
  DEF HeldInv, LocInv, TypeOK, SendPost, LifeInv, LookupLocs
<1>23. ASSUME NEW w \in Workers, NEW s \in Sessions, Dequeue(w, s)
       PROVE  HeldInv'
  BY <1>23, <1>acceptor
  DEF HeldInv, LocInv, TypeOK, Dequeue, PlainLocs, LoopRefLocs, PostRefLocs,
      ReleaseLocs
<1>24. CASE OutsideMove
  BY <1>24, <1>acceptor
  DEF HeldInv, LocInv, TypeOK, OutsideMove, SameIO
<1> QED
  BY <1>1, <1>2, <1>3, <1>4, <1>5, <1>6, <1>7, <1>8, <1>9, <1>10, <1>11,
     <1>12, <1>13, <1>14, <1>15, <1>16, <1>17, <1>18, <1>19, <1>20, <1>21,
     <1>22, <1>23, <1>24
  DEF Effect, ReleaseStep, EnterStep

\* Receive: the receive of a session stays with one thread or with the
\* kernel, so WSARecv at line 497 finds none posted.
LEMMA ReceiverStep ==
  ASSUME TypeOK, LocInv, LifeInv, ReceiverInv, [Next]_vars
  PROVE  ReceiverInv'
<1> USE DEF engineVars, callVars, loadVars, tableVars, lifeVars, recvVars,
            ringVars, sendVars, Goto, GotoCall, Incr, Decr
<1>acceptor. Acceptor \in Threads /\ Workers \subseteq Threads
  BY DEF Threads
<1>1. ASSUME NEW s \in Sessions, NEW h \in Handles,
              CreateSession(s, h)
       PROVE  ReceiverInv'
  BY <1>1, <1>acceptor, ValuesAssumption
  DEF ReceiverInv, LocInv, TypeOK, ReceiverLocs, CreateSession, LifeInv
<1>2. CASE AcceptRef
  BY <1>2, <1>acceptor
  DEF ReceiverInv, LocInv, TypeOK, ReceiverLocs, AcceptRef
<1>3. ASSUME NEW t \in Threads,
              CallbackReturns(t)
       PROVE  ReceiverInv'
  BY <1>3, <1>acceptor
  DEF ReceiverInv, LocInv, TypeOK, ReceiverLocs, CallbackReturns, Callbacks,
      AfterCallback
<1>4. ASSUME NEW t \in Threads,
              PostRecv(t)
       PROVE  ReceiverInv'
  BY <1>4, <1>acceptor
  DEF ReceiverInv, LocInv, TypeOK, ReceiverLocs, PostRecv
<1>5. ASSUME NEW t \in Threads,
              WSARecvPends(t)
       PROVE  ReceiverInv'
  BY <1>5, <1>acceptor
  DEF ReceiverInv, LocInv, TypeOK, ReceiverLocs, WSARecvPends
<1>6. ASSUME NEW t \in Threads,
              WSARecvError(t)
       PROVE  ReceiverInv'
  BY <1>6, <1>acceptor
  DEF ReceiverInv, LocInv, TypeOK, ReceiverLocs, WSARecvError
<1>7. ASSUME NEW t \in Threads,
              DropRef(t)
       PROVE  ReceiverInv'
  BY <1>7, <1>acceptor
  DEF ReceiverInv, LocInv, TypeOK, ReceiverLocs, DropRef, Idle, LoopRefLocs
<1>8. ASSUME NEW t \in Threads,
              CloseSocket(t) \/ EraseFromMap(t) \/ LockForRelease(t)
       PROVE  ReceiverInv'
  BY <1>8, <1>acceptor
  DEF ReceiverInv, LocInv, TypeOK, ReceiverLocs, CloseSocket, EraseFromMap,
      LockForRelease
<1>9. ASSUME NEW t \in Threads,
              UnlockReleased(t) \/ DeleteSession(t)
       PROVE  ReceiverInv'
  BY <1>9, <1>acceptor
  DEF ReceiverInv, LocInv, TypeOK, ReceiverLocs, UnlockReleased,
      DeleteSession, Idle
<1>10. ASSUME NEW t \in Threads, NEW s \in Sessions,
              SendPacket(t, s) \/ Disconnect(t, s)
       PROVE  ReceiverInv'
  BY <1>10, <1>acceptor
  DEF ReceiverInv, LocInv, TypeOK, ReceiverLocs, SendPacket, Disconnect,
      StartCall
<1>11. ASSUME NEW t \in Threads,
              \/ Lookup(t, "sendLookup", "sendLock")
              \/ Lookup(t, "discLookup", "discLock")
       PROVE  ReceiverInv'
  BY <1>11, <1>acceptor
  DEF ReceiverInv, LocInv, TypeOK, ReceiverLocs, Lookup
<1>12. ASSUME NEW t \in Threads,
              \/ LockTarget(t, "sendLock", "sendCheck")
              \/ LockTarget(t, "discLock", "discExchange")
       PROVE  ReceiverInv'
  BY <1>12, <1>acceptor
  DEF ReceiverInv, LocInv, TypeOK, ReceiverLocs, LockTarget
<1>13. ASSUME NEW t \in Threads,
              Unlock(t)
       PROVE  ReceiverInv'
  BY <1>13, <1>acceptor
  DEF ReceiverInv, LocInv, TypeOK, ReceiverLocs, Unlock
<1>14. ASSUME NEW t \in Threads,
              RefusePacket(t) \/ EnqueueHeader(t) \/ EnqueuePayload(t)
       PROVE  ReceiverInv'
  BY <1>14, <1>acceptor
  DEF ReceiverInv, LocInv, TypeOK, ReceiverLocs, RefusePacket,
      EnqueueHeader, EnqueuePayload
<1>15. ASSUME NEW t \in Threads,
              SendTakeToken(t)
       PROVE  ReceiverInv'
  BY <1>15, <1>acceptor
  DEF ReceiverInv, LocInv, TypeOK, ReceiverLocs, SendTakeToken
<1>16. ASSUME NEW t \in Threads,
              SendIncr(t)
       PROVE  ReceiverInv'
  BY <1>16, <1>acceptor
  DEF ReceiverInv, LocInv, TypeOK, ReceiverLocs, SendIncr
<1>17. ASSUME NEW t \in Threads,
              SendUndo(t) \/ SendPost(t) \/ DiscExchange(t)
       PROVE  ReceiverInv'
  BY <1>17, <1>acceptor
  DEF ReceiverInv, LocInv, TypeOK, ReceiverLocs, SendUndo, SendPost,
      DiscExchange
<1>18. ASSUME NEW t \in Threads,
              SendPrepare(t)
       PROVE  ReceiverInv'
  BY <1>18, <1>acceptor
  DEF ReceiverInv, LocInv, TypeOK, ReceiverLocs, SendPrepare
<1>19. ASSUME NEW t \in Threads,
              SendClear(t)
       PROVE  ReceiverInv'
  BY <1>19, <1>acceptor
  DEF ReceiverInv, LocInv, TypeOK, ReceiverLocs, SendClear
<1>20. ASSUME NEW t \in Threads,
              SendWSAPends(t)
       PROVE  ReceiverInv'
  BY <1>20, <1>acceptor
  DEF ReceiverInv, LocInv, TypeOK, ReceiverLocs, SendWSAPends
<1>21. ASSUME NEW t \in Threads,
              SendWSAError(t)
       PROVE  ReceiverInv'
  BY <1>21, <1>acceptor
  DEF ReceiverInv, LocInv, TypeOK, ReceiverLocs, SendWSAError
<1>22. ASSUME NEW t \in Threads,
              DiscCancel(t)
       PROVE  ReceiverInv'
  <2>1. \A u \in Threads : at[u] \in ReceiverLocs => cur[u] \in Sessions
    BY DEF LocInv, ReceiverLocs, LoopRefLocs
  <2>2. \A v \in Sessions : recvIO[v] = "none" => recvIO'[v] = "none"
    BY <1>22 DEF DiscCancel, Aborted
  <2>3. UNCHANGED <<at, cur>>
    BY <1>22 DEF DiscCancel
  <2> QED
    BY <2>1, <2>2, <2>3 DEF ReceiverInv
<1>23. ASSUME NEW w \in Workers, NEW s \in Sessions,
              DequeueRecv(w, s)
       PROVE  ReceiverInv'
  BY <1>23, <1>acceptor
  DEF ReceiverInv, LocInv, TypeOK, ReceiverLocs, DequeueRecv, Takes
<1>24. ASSUME NEW w \in Workers, NEW s \in Sessions,
              DequeueRecvEnd(w, s)
       PROVE  ReceiverInv'
  BY <1>24, <1>acceptor
  DEF ReceiverInv, LocInv, TypeOK, ReceiverLocs, DequeueRecvEnd, Takes
<1>25. ASSUME NEW w \in Workers, NEW s \in Sessions,
              DequeueSend(w, s)
       PROVE  ReceiverInv'
  BY <1>25, <1>acceptor
  DEF ReceiverInv, LocInv, TypeOK, ReceiverLocs, DequeueSend, Takes
<1>26. ASSUME NEW w \in Workers, NEW s \in Sessions,
              DequeueSendEnd(w, s)
       PROVE  ReceiverInv'
  BY <1>26, <1>acceptor
  DEF ReceiverInv, LocInv, TypeOK, ReceiverLocs, DequeueSendEnd, Takes
<1>27. ASSUME NEW w \in Workers, NEW s \in Sessions,
              DequeueFailedPost(w, s)
       PROVE  ReceiverInv'
  BY <1>27, <1>acceptor
  DEF ReceiverInv, LocInv, TypeOK, ReceiverLocs, DequeueFailedPost, Takes
<1>28. ASSUME NEW w \in Workers,
              ParsePacket(w) \/ ParseEnds(w)
       PROVE  ReceiverInv'
  BY <1>28, <1>acceptor
  DEF ReceiverInv, LocInv, TypeOK, ReceiverLocs, ParsePacket, ParseEnds
<1>29. ASSUME NEW w \in Workers,
              MoveFront(w)
       PROVE  ReceiverInv'
  BY <1>29, <1>acceptor
  DEF ReceiverInv, LocInv, TypeOK, ReceiverLocs, MoveFront
<1>30. ASSUME NEW w \in Workers,
              ClearWait(w)
       PROVE  ReceiverInv'
  BY <1>30, <1>acceptor
  DEF ReceiverInv, LocInv, TypeOK, ReceiverLocs, ClearWait
<1>31. ASSUME NEW w \in Workers,
              LoadRear(w) \/ LoadFront(w)
       PROVE  ReceiverInv'
  BY <1>31, <1>acceptor
  DEF ReceiverInv, LocInv, TypeOK, ReceiverLocs, LoadRear, LoadFront
<1>32. ASSUME NEW w \in Workers,
              TakeToken(w)
       PROVE  ReceiverInv'
  BY <1>32, <1>acceptor
  DEF ReceiverInv, LocInv, TypeOK, ReceiverLocs, TakeToken
<1>33. ASSUME NEW w \in Workers,
              Peek(w)
       PROVE  ReceiverInv'
  BY <1>33, <1>acceptor
  DEF ReceiverInv, LocInv, TypeOK, ReceiverLocs, Peek
<1>34. ASSUME NEW w \in Workers,
              GiveUp(w)
       PROVE  ReceiverInv'
  BY <1>34, <1>acceptor
  DEF ReceiverInv, LocInv, TypeOK, ReceiverLocs, GiveUp
<1>35. ASSUME NEW w \in Workers,
              PrepareSend(w)
       PROVE  ReceiverInv'
  BY <1>35, <1>acceptor
  DEF ReceiverInv, LocInv, TypeOK, ReceiverLocs, PrepareSend
<1>36. ASSUME NEW w \in Workers,
              WSASendPends(w)
       PROVE  ReceiverInv'
  BY <1>36, <1>acceptor
  DEF ReceiverInv, LocInv, TypeOK, ReceiverLocs, WSASendPends
<1>37. ASSUME NEW w \in Workers,
              WSASendError(w)
       PROVE  ReceiverInv'
  BY <1>37, <1>acceptor
  DEF ReceiverInv, LocInv, TypeOK, ReceiverLocs, WSASendError
<1>38. ASSUME NEW s \in Sessions,
              KernelCompletes(s)
       PROVE  ReceiverInv'
  <2>1. \A u \in Threads : at[u] \in ReceiverLocs => cur[u] \in Sessions
    BY DEF LocInv, ReceiverLocs, LoopRefLocs
  <2>2. \A v \in Sessions : recvIO[v] = "none" => recvIO'[v] = "none"
    BY <1>38 DEF KernelCompletes, RecvEnds, SendEnds, TypeOK
  <2>3. UNCHANGED <<at, cur>>
    BY <1>38 DEF KernelCompletes, RecvEnds, SendEnds
  <2> QED
    BY <2>1, <2>2, <2>3 DEF ReceiverInv
<1>39. ASSUME NEW s \in Sessions,
              PeerStep(s)
       PROVE  ReceiverInv'
  <2>1. \A u \in Threads : at[u] \in ReceiverLocs => cur[u] \in Sessions
    BY DEF LocInv, ReceiverLocs, LoopRefLocs
  <2>2. \A v \in Sessions : recvIO[v] = "none" => recvIO'[v] = "none"
    BY <1>39 DEF PeerStep, RecvArrives, PeerLeaves, TypeOK
  <2>3. UNCHANGED <<at, cur>>
    BY <1>39 DEF PeerStep, RecvArrives, PeerLeaves
  <2> QED
    BY <2>1, <2>2, <2>3 DEF ReceiverInv
<1>40. CASE UNCHANGED vars
  BY <1>40, <1>acceptor
  DEF ReceiverInv, LocInv, TypeOK, ReceiverLocs, vars
<1> QED
  BY <1>1, <1>2, <1>3, <1>4, <1>5, <1>6, <1>7, <1>8, <1>9, <1>10, <1>11,
     <1>12, <1>13, <1>14, <1>15, <1>16, <1>17, <1>18, <1>19, <1>20, <1>21,
     <1>22, <1>23, <1>24, <1>25, <1>26, <1>27, <1>28, <1>29, <1>30, <1>31,
     <1>32, <1>33, <1>34, <1>35, <1>36, <1>37, <1>38, <1>39, <1>40
  DEF Next, AcceptStep, SharedStep, StartStep, CallStep, WorkerStep,
      DequeueStep, Rest

\* Fewer holders and the same flag keep the send token exclusive.
LEMMA TokenFrame ==
  ASSUME SendTokenExclusive, UNCHANGED <<bWaitSend, sendIO>>,
         \A s \in Sessions : TokenHolders(s)' \subseteq TokenHolders(s)
  PROVE  SendTokenExclusive'
  BY DEF SendTokenExclusive

\* The holder that clears bWaitSend or hands the send to the kernel leaves
\* the send token exclusive.
LEMMA TokenLeaves ==
  ASSUME SendTokenExclusive, NEW v \in Sessions, NEW t \in TokenHolders(v),
         \A s \in Sessions \ {v} :
           /\ TokenHolders(s)' \subseteq TokenHolders(s)
           /\ bWaitSend'[s] = bWaitSend[s]
           /\ sendIO'[s] = sendIO[s],
         TokenHolders(v)' \subseteq TokenHolders(v) \ {t},
         sendIO'[v] = "none" \/ bWaitSend'[v]
  PROVE  SendTokenExclusive'
<1>1. TokenHolders(v)' = {}
  BY DEF SendTokenExclusive
<1> QED
  BY <1>1 DEF SendTokenExclusive

\* Send token: bWaitSend gives the front of the send ring and sendOverlapped
\* to one thread or to the kernel at a time.
LEMMA TokenStep ==
  ASSUME TypeOK, LocInv, LifeInv, SendTokenExclusive, [Next]_vars
  PROVE  SendTokenExclusive'
<1> USE DEF engineVars, callVars, loadVars, tableVars, lifeVars, recvVars,
            ringVars, sendVars, Goto, GotoCall, Incr, Decr
<1>acceptor. Acceptor \in Threads /\ Workers \subseteq Threads
  BY DEF Threads
<1>1. ASSUME NEW s \in Sessions, NEW h \in Handles,
              CreateSession(s, h)
       PROVE  SendTokenExclusive'
  BY <1>1, <1>acceptor, ValuesAssumption
  DEF SendTokenExclusive, TokenHolders, TokenLocs, CallTokenLocs, LocInv,
      TypeOK, CreateSession, LifeInv
<1>2. CASE AcceptRef
  BY <1>2, <1>acceptor
  DEF SendTokenExclusive, TokenHolders, TokenLocs, CallTokenLocs, LocInv,
      TypeOK, AcceptRef
<1>3. ASSUME NEW t \in Threads,
              CallbackReturns(t)
       PROVE  SendTokenExclusive'
  BY <1>3, <1>acceptor
  DEF SendTokenExclusive, TokenHolders, TokenLocs, CallTokenLocs, LocInv,
      TypeOK, CallbackReturns, Callbacks, AfterCallback
<1>4. ASSUME NEW t \in Threads,
              PostRecv(t)
       PROVE  SendTokenExclusive'
  BY <1>4, <1>acceptor
  DEF SendTokenExclusive, TokenHolders, TokenLocs, CallTokenLocs, LocInv,
      TypeOK, PostRecv
<1>5. ASSUME NEW t \in Threads,
              WSARecvPends(t)
       PROVE  SendTokenExclusive'
  BY <1>5, <1>acceptor
  DEF SendTokenExclusive, TokenHolders, TokenLocs, CallTokenLocs, LocInv,
      TypeOK, WSARecvPends
<1>6. ASSUME NEW t \in Threads,
              WSARecvError(t)
       PROVE  SendTokenExclusive'
  BY <1>6, <1>acceptor
  DEF SendTokenExclusive, TokenHolders, TokenLocs, CallTokenLocs, LocInv,
      TypeOK, WSARecvError
<1>7. ASSUME NEW t \in Threads,
              DropRef(t)
       PROVE  SendTokenExclusive'
  <2>1. \A v \in Sessions : TokenHolders(v)' \subseteq TokenHolders(v)
    <3> SUFFICES ASSUME NEW v \in Sessions, NEW u \in TokenHolders(v)'
                 PROVE  u \in TokenHolders(v)
      OBVIOUS
    <3> QED
      BY <1>7, ValuesAssumption
      DEF TokenHolders, TokenLocs, CallTokenLocs, TypeOK, LocInv, Callbacks,
          DropRef, Idle
  <2>2. UNCHANGED <<bWaitSend, sendIO>>
    BY <1>7 DEF DropRef, Idle
  <2> QED
    BY <2>1, <2>2, TokenFrame
<1>8. ASSUME NEW t \in Threads,
              CloseSocket(t) \/ EraseFromMap(t) \/ LockForRelease(t)
       PROVE  SendTokenExclusive'
  BY <1>8, <1>acceptor
  DEF SendTokenExclusive, TokenHolders, TokenLocs, CallTokenLocs, LocInv,
      TypeOK, CloseSocket, EraseFromMap, LockForRelease
<1>9. ASSUME NEW t \in Threads,
              UnlockReleased(t) \/ DeleteSession(t)
       PROVE  SendTokenExclusive'
  <2>1. \A v \in Sessions : TokenHolders(v)' \subseteq TokenHolders(v)
    <3> SUFFICES ASSUME NEW v \in Sessions, NEW u \in TokenHolders(v)'
                 PROVE  u \in TokenHolders(v)
      OBVIOUS
    <3> QED
      BY <1>9, ValuesAssumption
      DEF TokenHolders, TokenLocs, CallTokenLocs, TypeOK, LocInv, Callbacks,
          UnlockReleased, DeleteSession, Idle
  <2>2. UNCHANGED <<bWaitSend, sendIO>>
    BY <1>9 DEF UnlockReleased, DeleteSession, Idle
  <2> QED
    BY <2>1, <2>2, TokenFrame
<1>10. ASSUME NEW t \in Threads, NEW s \in Sessions,
              SendPacket(t, s) \/ Disconnect(t, s)
       PROVE  SendTokenExclusive'
  <2>1. \A v \in Sessions : TokenHolders(v)' \subseteq TokenHolders(v)
    <3> SUFFICES ASSUME NEW v \in Sessions, NEW u \in TokenHolders(v)'
                 PROVE  u \in TokenHolders(v)
      OBVIOUS
    <3> QED
      BY <1>10, ValuesAssumption
      DEF TokenHolders, TokenLocs, CallTokenLocs, TypeOK, LocInv, Callbacks,
          SendPacket, Disconnect, StartCall
  <2>2. UNCHANGED <<bWaitSend, sendIO>>
    BY <1>10 DEF SendPacket, Disconnect, StartCall
  <2> QED
    BY <2>1, <2>2, TokenFrame
<1>11. ASSUME NEW t \in Threads,
              \/ Lookup(t, "sendLookup", "sendLock")
              \/ Lookup(t, "discLookup", "discLock")
       PROVE  SendTokenExclusive'
  BY <1>11, <1>acceptor
  DEF SendTokenExclusive, TokenHolders, TokenLocs, CallTokenLocs, LocInv,
      TypeOK, Lookup
<1>12. ASSUME NEW t \in Threads,
              \/ LockTarget(t, "sendLock", "sendCheck")
              \/ LockTarget(t, "discLock", "discExchange")
       PROVE  SendTokenExclusive'
  <2>1. \A v \in Sessions : TokenHolders(v)' \subseteq TokenHolders(v)
    <3> SUFFICES ASSUME NEW v \in Sessions, NEW u \in TokenHolders(v)'
                 PROVE  u \in TokenHolders(v)
      OBVIOUS
    <3> QED
      BY <1>12, ValuesAssumption
      DEF TokenHolders, TokenLocs, CallTokenLocs, TypeOK, LocInv, Callbacks,
          LockTarget
  <2>2. UNCHANGED <<bWaitSend, sendIO>>
    BY <1>12 DEF LockTarget
  <2> QED
    BY <2>1, <2>2, TokenFrame
<1>13. ASSUME NEW t \in Threads,
              Unlock(t)
       PROVE  SendTokenExclusive'
  BY <1>13, <1>acceptor
  DEF SendTokenExclusive, TokenHolders, TokenLocs, CallTokenLocs, LocInv,
      TypeOK, Unlock
<1>14. ASSUME NEW t \in Threads,
              RefusePacket(t) \/ EnqueueHeader(t) \/ EnqueuePayload(t)
       PROVE  SendTokenExclusive'
  BY <1>14, <1>acceptor
  DEF SendTokenExclusive, TokenHolders, TokenLocs, CallTokenLocs, LocInv,
      TypeOK, RefusePacket, EnqueueHeader, EnqueuePayload
<1>15. ASSUME NEW t \in Threads,
              SendTakeToken(t)
       PROVE  SendTokenExclusive'
  BY <1>15, <1>acceptor
  DEF SendTokenExclusive, TokenHolders, TokenLocs, CallTokenLocs, LocInv,
      TypeOK, SendTakeToken
<1>16. ASSUME NEW t \in Threads,
              SendIncr(t)
       PROVE  SendTokenExclusive'
  BY <1>16, <1>acceptor
  DEF SendTokenExclusive, TokenHolders, TokenLocs, CallTokenLocs, LocInv,
      TypeOK, SendIncr
<1>17. ASSUME NEW t \in Threads,
              SendUndo(t) \/ SendPost(t) \/ DiscExchange(t)
       PROVE  SendTokenExclusive'
  BY <1>17, <1>acceptor
  DEF SendTokenExclusive, TokenHolders, TokenLocs, CallTokenLocs, LocInv,
      TypeOK, SendUndo, SendPost, DiscExchange
<1>18. ASSUME NEW t \in Threads,
              SendPrepare(t)
       PROVE  SendTokenExclusive'
  BY <1>18, <1>acceptor
  DEF SendTokenExclusive, TokenHolders, TokenLocs, CallTokenLocs, LocInv,
      TypeOK, SendPrepare
<1>19. ASSUME NEW t \in Threads,
              SendClear(t)
       PROVE  SendTokenExclusive'
  <2>1. PICK v \in Sessions : v = target[t]
    BY <1>19, <1>acceptor, CallHasSession DEF SendClear
  <2>2. t \in TokenHolders(v)
    BY <1>19, <1>acceptor, <2>1 DEF TokenHolders, TokenLocs, CallTokenLocs, SendClear
  <2>3. \A r \in Sessions : TokenHolders(r)' \subseteq TokenHolders(r)
    <3> SUFFICES ASSUME NEW r \in Sessions, NEW u \in TokenHolders(r)'
                 PROVE  u \in TokenHolders(r)
      OBVIOUS
    <3> QED
      BY <1>19, <1>acceptor DEF TokenHolders, TokenLocs, CallTokenLocs, TypeOK, SendClear
  <2>4. t \notin TokenHolders(v)'
    BY <1>19, <1>acceptor, <2>1, ValuesAssumption
    DEF TokenHolders, TokenLocs, CallTokenLocs, TypeOK, LocInv, Callbacks, SendClear
  <2>5. bWaitSend[v] /\ sendIO[v] = "none"
    BY <2>2 DEF SendTokenExclusive
  <2>6. /\ \A r \in Sessions \ {v} :
             bWaitSend'[r] = bWaitSend[r] /\ sendIO'[r] = sendIO[r]
        /\ sendIO'[v] = "none" \/ bWaitSend'[v]
    BY <1>19, <2>1, <2>5 DEF TypeOK, SendClear
  <2> QED
    BY <2>2, <2>3, <2>4, <2>6, TokenLeaves
<1>20. ASSUME NEW t \in Threads,
              SendWSAPends(t)
       PROVE  SendTokenExclusive'
  <2>1. PICK v \in Sessions : v = target[t]
    BY <1>20, <1>acceptor, CallHasSession DEF SendWSAPends
  <2>2. t \in TokenHolders(v)
    BY <1>20, <1>acceptor, <2>1 DEF TokenHolders, TokenLocs, CallTokenLocs, SendWSAPends
  <2>3. \A r \in Sessions : TokenHolders(r)' \subseteq TokenHolders(r)
    <3> SUFFICES ASSUME NEW r \in Sessions, NEW u \in TokenHolders(r)'
                 PROVE  u \in TokenHolders(r)
      OBVIOUS
    <3> QED
      BY <1>20, <1>acceptor DEF TokenHolders, TokenLocs, CallTokenLocs, TypeOK, SendWSAPends
  <2>4. t \notin TokenHolders(v)'
    BY <1>20, <1>acceptor, <2>1, ValuesAssumption
    DEF TokenHolders, TokenLocs, CallTokenLocs, TypeOK, LocInv, Callbacks, SendWSAPends
  <2>5. bWaitSend[v] /\ sendIO[v] = "none"
    BY <2>2 DEF SendTokenExclusive
  <2>6. /\ \A r \in Sessions \ {v} :
             bWaitSend'[r] = bWaitSend[r] /\ sendIO'[r] = sendIO[r]
        /\ sendIO'[v] = "none" \/ bWaitSend'[v]
    BY <1>20, <2>1, <2>5 DEF TypeOK, SendWSAPends
  <2> QED
    BY <2>2, <2>3, <2>4, <2>6, TokenLeaves
<1>21. ASSUME NEW t \in Threads,
              SendWSAError(t)
       PROVE  SendTokenExclusive'
  BY <1>21, <1>acceptor
  DEF SendTokenExclusive, TokenHolders, TokenLocs, CallTokenLocs, LocInv,
      TypeOK, SendWSAError
<1>22. ASSUME NEW t \in Threads,
              DiscCancel(t)
       PROVE  SendTokenExclusive'
  BY <1>22, <1>acceptor
  DEF SendTokenExclusive, TokenHolders, TokenLocs, CallTokenLocs, LocInv,
      TypeOK, DiscCancel, Aborted
<1>23. ASSUME NEW w \in Workers, NEW s \in Sessions,
              DequeueRecv(w, s)
       PROVE  SendTokenExclusive'
  BY <1>23, <1>acceptor
  DEF SendTokenExclusive, TokenHolders, TokenLocs, CallTokenLocs, LocInv,
      TypeOK, DequeueRecv, Takes
<1>24. ASSUME NEW w \in Workers, NEW s \in Sessions,
              DequeueRecvEnd(w, s)
       PROVE  SendTokenExclusive'
  BY <1>24, <1>acceptor
  DEF SendTokenExclusive, TokenHolders, TokenLocs, CallTokenLocs, LocInv,
      TypeOK, DequeueRecvEnd, Takes
<1>25. ASSUME NEW w \in Workers, NEW s \in Sessions,
              DequeueSend(w, s)
       PROVE  SendTokenExclusive'
  BY <1>25, <1>acceptor
  DEF SendTokenExclusive, TokenHolders, TokenLocs, CallTokenLocs, LocInv,
      TypeOK, DequeueSend, Takes
<1>26. ASSUME NEW w \in Workers, NEW s \in Sessions,
              DequeueSendEnd(w, s)
       PROVE  SendTokenExclusive'
  BY <1>26, <1>acceptor
  DEF SendTokenExclusive, TokenHolders, TokenLocs, CallTokenLocs, LocInv,
      TypeOK, DequeueSendEnd, Takes
<1>27. ASSUME NEW w \in Workers, NEW s \in Sessions,
              DequeueFailedPost(w, s)
       PROVE  SendTokenExclusive'
  BY <1>27, <1>acceptor
  DEF SendTokenExclusive, TokenHolders, TokenLocs, CallTokenLocs, LocInv,
      TypeOK, DequeueFailedPost, Takes
<1>28. ASSUME NEW w \in Workers,
              ParsePacket(w) \/ ParseEnds(w)
       PROVE  SendTokenExclusive'
  BY <1>28, <1>acceptor
  DEF SendTokenExclusive, TokenHolders, TokenLocs, CallTokenLocs, LocInv,
      TypeOK, ParsePacket, ParseEnds
<1>29. ASSUME NEW w \in Workers,
              MoveFront(w)
       PROVE  SendTokenExclusive'
  BY <1>29, <1>acceptor
  DEF SendTokenExclusive, TokenHolders, TokenLocs, CallTokenLocs, LocInv,
      TypeOK, MoveFront
<1>30. ASSUME NEW w \in Workers,
              ClearWait(w)
       PROVE  SendTokenExclusive'
  <2>1. PICK v \in Sessions : v = cur[w]
    BY <1>30, <1>acceptor, LoopHasSession DEF ClearWait, LoopRefLocs
  <2>2. w \in TokenHolders(v)
    BY <1>30, <1>acceptor, <2>1 DEF TokenHolders, TokenLocs, CallTokenLocs, ClearWait
  <2>3. \A r \in Sessions : TokenHolders(r)' \subseteq TokenHolders(r)
    <3> SUFFICES ASSUME NEW r \in Sessions, NEW u \in TokenHolders(r)'
                 PROVE  u \in TokenHolders(r)
      OBVIOUS
    <3> QED
      BY <1>30, <1>acceptor DEF TokenHolders, TokenLocs, CallTokenLocs, TypeOK, ClearWait
  <2>4. w \notin TokenHolders(v)'
    BY <1>30, <1>acceptor, <2>1, ValuesAssumption
    DEF TokenHolders, TokenLocs, CallTokenLocs, TypeOK, LocInv, Callbacks, ClearWait
  <2>5. bWaitSend[v] /\ sendIO[v] = "none"
    BY <2>2 DEF SendTokenExclusive
  <2>6. /\ \A r \in Sessions \ {v} :
             bWaitSend'[r] = bWaitSend[r] /\ sendIO'[r] = sendIO[r]
        /\ sendIO'[v] = "none" \/ bWaitSend'[v]
    BY <1>30, <2>1, <2>5 DEF TypeOK, ClearWait
  <2> QED
    BY <2>2, <2>3, <2>4, <2>6, TokenLeaves
<1>31. ASSUME NEW w \in Workers,
              LoadRear(w) \/ LoadFront(w)
       PROVE  SendTokenExclusive'
  BY <1>31, <1>acceptor
  DEF SendTokenExclusive, TokenHolders, TokenLocs, CallTokenLocs, LocInv,
      TypeOK, LoadRear, LoadFront
<1>32. ASSUME NEW w \in Workers,
              TakeToken(w)
       PROVE  SendTokenExclusive'
  BY <1>32, <1>acceptor
  DEF SendTokenExclusive, TokenHolders, TokenLocs, CallTokenLocs, LocInv,
      TypeOK, TakeToken
<1>33. ASSUME NEW w \in Workers,
              Peek(w)
       PROVE  SendTokenExclusive'
  BY <1>33, <1>acceptor
  DEF SendTokenExclusive, TokenHolders, TokenLocs, CallTokenLocs, LocInv,
      TypeOK, Peek
<1>34. ASSUME NEW w \in Workers,
              GiveUp(w)
       PROVE  SendTokenExclusive'
  <2>1. PICK v \in Sessions : v = cur[w]
    BY <1>34, <1>acceptor, LoopHasSession DEF GiveUp, LoopRefLocs
  <2>2. w \in TokenHolders(v)
    BY <1>34, <1>acceptor, <2>1 DEF TokenHolders, TokenLocs, CallTokenLocs, GiveUp
  <2>3. \A r \in Sessions : TokenHolders(r)' \subseteq TokenHolders(r)
    <3> SUFFICES ASSUME NEW r \in Sessions, NEW u \in TokenHolders(r)'
                 PROVE  u \in TokenHolders(r)
      OBVIOUS
    <3> QED
      BY <1>34, <1>acceptor DEF TokenHolders, TokenLocs, CallTokenLocs, TypeOK, GiveUp
  <2>4. w \notin TokenHolders(v)'
    BY <1>34, <1>acceptor, <2>1, ValuesAssumption
    DEF TokenHolders, TokenLocs, CallTokenLocs, TypeOK, LocInv, Callbacks, GiveUp
  <2>5. bWaitSend[v] /\ sendIO[v] = "none"
    BY <2>2 DEF SendTokenExclusive
  <2>6. /\ \A r \in Sessions \ {v} :
             bWaitSend'[r] = bWaitSend[r] /\ sendIO'[r] = sendIO[r]
        /\ sendIO'[v] = "none" \/ bWaitSend'[v]
    BY <1>34, <2>1, <2>5 DEF TypeOK, GiveUp
  <2> QED
    BY <2>2, <2>3, <2>4, <2>6, TokenLeaves
<1>35. ASSUME NEW w \in Workers,
              PrepareSend(w)
       PROVE  SendTokenExclusive'
  BY <1>35, <1>acceptor
  DEF SendTokenExclusive, TokenHolders, TokenLocs, CallTokenLocs, LocInv,
      TypeOK, PrepareSend
<1>36. ASSUME NEW w \in Workers,
              WSASendPends(w)
       PROVE  SendTokenExclusive'
  <2>1. PICK v \in Sessions : v = cur[w]
    BY <1>36, <1>acceptor, LoopHasSession DEF WSASendPends, LoopRefLocs
  <2>2. w \in TokenHolders(v)
    BY <1>36, <1>acceptor, <2>1 DEF TokenHolders, TokenLocs, CallTokenLocs, WSASendPends
  <2>3. \A r \in Sessions : TokenHolders(r)' \subseteq TokenHolders(r)
    <3> SUFFICES ASSUME NEW r \in Sessions, NEW u \in TokenHolders(r)'
                 PROVE  u \in TokenHolders(r)
      OBVIOUS
    <3> QED
      BY <1>36, <1>acceptor DEF TokenHolders, TokenLocs, CallTokenLocs, TypeOK, WSASendPends
  <2>4. w \notin TokenHolders(v)'
    BY <1>36, <1>acceptor, <2>1, ValuesAssumption
    DEF TokenHolders, TokenLocs, CallTokenLocs, TypeOK, LocInv, Callbacks, WSASendPends
  <2>5. bWaitSend[v] /\ sendIO[v] = "none"
    BY <2>2 DEF SendTokenExclusive
  <2>6. /\ \A r \in Sessions \ {v} :
             bWaitSend'[r] = bWaitSend[r] /\ sendIO'[r] = sendIO[r]
        /\ sendIO'[v] = "none" \/ bWaitSend'[v]
    BY <1>36, <2>1, <2>5 DEF TypeOK, WSASendPends
  <2> QED
    BY <2>2, <2>3, <2>4, <2>6, TokenLeaves
<1>37. ASSUME NEW w \in Workers,
              WSASendError(w)
       PROVE  SendTokenExclusive'
  BY <1>37, <1>acceptor
  DEF SendTokenExclusive, TokenHolders, TokenLocs, CallTokenLocs, LocInv,
      TypeOK, WSASendError
<1>38. ASSUME NEW s \in Sessions,
              KernelCompletes(s)
       PROVE  SendTokenExclusive'
  BY <1>38, <1>acceptor
  DEF SendTokenExclusive, TokenHolders, TokenLocs, CallTokenLocs, LocInv,
      TypeOK, KernelCompletes, RecvEnds, SendEnds
<1>39. ASSUME NEW s \in Sessions,
              PeerStep(s)
       PROVE  SendTokenExclusive'
  BY <1>39, <1>acceptor
  DEF SendTokenExclusive, TokenHolders, TokenLocs, CallTokenLocs, LocInv,
      TypeOK, PeerStep, RecvArrives, PeerLeaves
<1>40. CASE UNCHANGED vars
  BY <1>40, <1>acceptor
  DEF SendTokenExclusive, TokenHolders, TokenLocs, CallTokenLocs, LocInv,
      TypeOK, vars
<1> QED
  BY <1>1, <1>2, <1>3, <1>4, <1>5, <1>6, <1>7, <1>8, <1>9, <1>10, <1>11,
     <1>12, <1>13, <1>14, <1>15, <1>16, <1>17, <1>18, <1>19, <1>20, <1>21,
     <1>22, <1>23, <1>24, <1>25, <1>26, <1>27, <1>28, <1>29, <1>30, <1>31,
     <1>32, <1>33, <1>34, <1>35, <1>36, <1>37, <1>38, <1>39, <1>40
  DEF Next, AcceptStep, SharedStep, StartStep, CallStep, WorkerStep,
      DequeueStep, Rest

-----------------------------------------------------------------------------
\* The counter.

\* The references thread t has on session s, and those of its operations.
Share(loc, of, callLoc, callOf, s) ==
  Bit(of = s /\ loc \in LoopRefLocs) + Bit(of = s /\ loc \in PostRefLocs)
  + Bit(callOf = s /\ callLoc \in CallRefLocs)

\* References of operations and queued completions.
Pending(recv, send, posts) == Bit(recv # "none") + Bit(send # "none") + posts

\* A step of thread t changes the counter of s by what it changes the
\* references of t and of the operations of s.
CountFits(t, s) ==
  overlappedIOCnt'[s] - overlappedIOCnt[s] =
    Share(at'[t], cur'[t], call'[t], target'[t], s)
    - Share(at[t], cur[t], call[t], target[t], s)
    + Pending(recvIO'[s], sendIO'[s], failedPosts'[s])
    - Pending(recvIO[s], sendIO[s], failedPosts[s])

\* A thread that does not move.
StaysPut(u) ==
  at'[u] = at[u] /\ cur'[u] = cur[u] /\ call'[u] = call[u] /\ target'[u] = target[u]

\* One thread enters or leaves a set of threads.
LEMMA OneThreadSet ==
  ASSUME NEW A \in SUBSET Threads, NEW B \in SUBSET Threads, NEW t \in Threads,
         \A u \in Threads \ {t} : u \in A <=> u \in B
  PROVE  Cardinality(B) - Cardinality(A) = Bit(t \in B) - Bit(t \in A)
<1>1. Cardinality(A) \in Nat /\ Cardinality(B) \in Nat
  BY ThreadSets
<1>2. CASE t \in A /\ t \in B
  <2>1. A = B
    BY <1>2
  <2> QED
    BY <1>1, <1>2, <2>1 DEF Bit
<1>3. CASE t \notin A /\ t \notin B
  <2>1. A = B
    BY <1>3
  <2> QED
    BY <1>1, <1>3, <2>1 DEF Bit
<1>4. CASE t \in A /\ t \notin B
  <2>1. B = A \ {t}
    BY <1>4
  <2>2. Cardinality(B) = Cardinality(A) - 1
    BY <1>4, <2>1, ThreadSets
  <2> QED
    BY <1>1, <1>4, <2>2 DEF Bit
<1>5. CASE t \notin A /\ t \in B
  <2>1. B = A \cup {t}
    BY <1>5
  <2>2. Cardinality(B) = Cardinality(A) + 1
    BY <1>5, <2>1, ThreadSets
  <2> QED
    BY <1>1, <1>5, <2>2 DEF Bit
<1> QED
  BY <1>2, <1>3, <1>4, <1>5

\* The counter stays exact when one thread moves and it changes by what the
\* thread and the operations of the session change.
LEMMA OneThread ==
  ASSUME TypeOK, TypeOK', RefCountExact, NEW t \in Threads,
         \A u \in Threads \ {t} : StaysPut(u),
         \A s \in Sessions : CountFits(t, s)
  PROVE  RefCountExact'
<1> SUFFICES ASSUME NEW s \in Sessions
             PROVE  overlappedIOCnt'[s] = Refs(s)'
  BY DEF RefCountExact
<1> DEFINE l == Cardinality(LoopRefs(s))
           p == Cardinality(PostRefs(s))
           c == Cardinality(CallRefs(s))
           ll == Cardinality(LoopRefs(s)')
           pp == Cardinality(PostRefs(s)')
           cc == Cardinality(CallRefs(s)')
<1>1. /\ ll - l = Bit(t \in LoopRefs(s)') - Bit(t \in LoopRefs(s))
      /\ ll \in Nat /\ l \in Nat
  <2>1. LoopRefs(s) \in SUBSET Threads /\ LoopRefs(s)' \in SUBSET Threads
    BY DEF LoopRefs
  <2>2. \A u \in Threads \ {t} : u \in LoopRefs(s) <=> u \in LoopRefs(s)'
    BY DEF LoopRefs, StaysPut
  <2> QED
    BY <2>1, <2>2, OneThreadSet, ThreadSets
<1>2. /\ pp - p = Bit(t \in PostRefs(s)') - Bit(t \in PostRefs(s))
      /\ pp \in Nat /\ p \in Nat
  <2>1. PostRefs(s) \in SUBSET Threads /\ PostRefs(s)' \in SUBSET Threads
    BY DEF PostRefs
  <2>2. \A u \in Threads \ {t} : u \in PostRefs(s) <=> u \in PostRefs(s)'
    BY DEF PostRefs, StaysPut
  <2> QED
    BY <2>1, <2>2, OneThreadSet, ThreadSets
<1>3. /\ cc - c = Bit(t \in CallRefs(s)') - Bit(t \in CallRefs(s))
      /\ cc \in Nat /\ c \in Nat
  <2>1. CallRefs(s) \in SUBSET Threads /\ CallRefs(s)' \in SUBSET Threads
    BY DEF CallRefs
  <2>2. \A u \in Threads \ {t} : u \in CallRefs(s) <=> u \in CallRefs(s)'
    BY DEF CallRefs, StaysPut
  <2> QED
    BY <2>1, <2>2, OneThreadSet, ThreadSets
<1>4. /\ t \in LoopRefs(s) <=> (cur[t] = s /\ at[t] \in LoopRefLocs)
      /\ t \in PostRefs(s) <=> (cur[t] = s /\ at[t] \in PostRefLocs)
      /\ t \in CallRefs(s) <=> (target[t] = s /\ call[t] \in CallRefLocs)
      /\ t \in LoopRefs(s)' <=> (cur'[t] = s /\ at'[t] \in LoopRefLocs)
      /\ t \in PostRefs(s)' <=> (cur'[t] = s /\ at'[t] \in PostRefLocs)
      /\ t \in CallRefs(s)' <=> (target'[t] = s /\ call'[t] \in CallRefLocs)
  BY DEF LoopRefs, PostRefs, CallRefs
<1>5. /\ overlappedIOCnt[s] \in Int /\ overlappedIOCnt'[s] \in Int
      /\ failedPosts[s] \in Int /\ failedPosts'[s] \in Int
  BY DEF TypeOK
<1>6. overlappedIOCnt[s] = l + p + c + Pending(recvIO[s], sendIO[s], failedPosts[s])
  <2>1. overlappedIOCnt[s] = l + p + c + Bit(recvIO[s] # "none")
                               + Bit(sendIO[s] # "none") + failedPosts[s]
    BY DEF RefCountExact, Refs
  <2> QED
    BY <1>1, <1>2, <1>3, <1>5, <2>1 DEF Pending, Bit
<1>7. Refs(s)' = ll + pp + cc + Pending(recvIO'[s], sendIO'[s], failedPosts'[s])
  <2>1. Refs(s)' = ll + pp + cc + Bit(recvIO'[s] # "none")
                               + Bit(sendIO'[s] # "none") + failedPosts'[s]
    BY DEF Refs
  <2> QED
    BY <1>1, <1>2, <1>3, <1>5, <2>1 DEF Pending, Bit
<1>8. ll + pp + cc - (l + p + c) =
        Share(at'[t], cur'[t], call'[t], target'[t], s)
        - Share(at[t], cur[t], call[t], target[t], s)
  <2>1. /\ Share(at'[t], cur'[t], call'[t], target'[t], s) =
             Bit(t \in LoopRefs(s)') + Bit(t \in PostRefs(s)') + Bit(t \in CallRefs(s)')
        /\ Share(at[t], cur[t], call[t], target[t], s) =
             Bit(t \in LoopRefs(s)) + Bit(t \in PostRefs(s)) + Bit(t \in CallRefs(s))
    BY <1>4 DEF Share, Bit
  <2>2. /\ Bit(t \in LoopRefs(s)') \in Int /\ Bit(t \in LoopRefs(s)) \in Int
        /\ Bit(t \in PostRefs(s)') \in Int /\ Bit(t \in PostRefs(s)) \in Int
        /\ Bit(t \in CallRefs(s)') \in Int /\ Bit(t \in CallRefs(s)) \in Int
    BY DEF Bit
  <2> HIDE DEF l, p, c, ll, pp, cc
  <2> QED
    BY <1>1, <1>2, <1>3, <2>1, <2>2
<1>9. /\ Share(at'[t], cur'[t], call'[t], target'[t], s) \in Int
      /\ Share(at[t], cur[t], call[t], target[t], s) \in Int
      /\ Pending(recvIO'[s], sendIO'[s], failedPosts'[s]) \in Int
      /\ Pending(recvIO[s], sendIO[s], failedPosts[s]) \in Int
  BY <1>5 DEF Share, Pending, Bit
<1> HIDE DEF l, p, c, ll, pp, cc
<1> QED
  BY <1>1, <1>2, <1>3, <1>5, <1>6, <1>7, <1>8, <1>9 DEF CountFits

\* A SendPacket that takes its increment back has the only reference.
LEMMA UndoIsLast ==
  ASSUME TypeOK, LocInv, LockInv, ReleaseInv, RefCountExact,
         NEW t \in Threads, call[t] = "sendUndo"
  PROVE  overlappedIOCnt[target[t]] = 1
<1>1. target[t] \in Sessions
  BY CallHasSession
<1> DEFINE s == target[t]
<1>2. PICK u \in Threads : at[u] \in ReleaseLocs /\ cur[u] = s
  BY DEF ReleaseInv
<1>3. LoopRefs(s) = {} /\ PostRefs(s) = {}
  BY <1>2 DEF ReleaseInv, LoopRefs, PostRefs, LoopRefLocs, PostRefLocs, ReleaseLocs
<1>4. CallRefs(s) = {t}
  <2>1. \A v \in CallRefs(s) : v = t
    BY DEF CallRefs, LockInv, CallRefLocs, LockedCallLocs
  <2>2. t \in CallRefs(s)
    BY DEF CallRefs, CallRefLocs
  <2> QED
    BY <2>1, <2>2
<1>5. recvIO[s] = "none" /\ sendIO[s] = "none" /\ failedPosts[s] = 0
  BY <1>2 DEF ReleaseInv
<1>6. Cardinality(LoopRefs(s)) = 0 /\ Cardinality(PostRefs(s)) = 0
  BY <1>3, FS_EmptySet
<1>7. Cardinality(CallRefs(s)) = 1
  BY <1>4, FS_Singleton
<1> QED
  BY <1>1, <1>5, <1>6, <1>7 DEF RefCountExact, Refs, Bit

\* Counter: every Interlocked operation on overlappedIOCnt, the store of 0 at
\* line 584 included, matches a reference that is taken or given back.
LEMMA CountStep ==
  ASSUME TypeOK, TypeOK', LocInv, LockInv, LifeInv, ReleaseInv, HeldInv,
         SendTokenExclusive, RefCountExact, Effect
  PROVE  RefCountExact'
<1> USE DEF engineVars, callVars, loadVars, tableVars, lifeVars, recvVars,
            ringVars, sendVars, Goto, GotoCall, Incr, Decr, Takes
<1>acceptor. Acceptor \in Threads /\ Workers \subseteq Threads
  BY DEF Threads
<1>1. ASSUME NEW s \in Sessions, NEW h \in Handles, CreateSession(s, h)
       PROVE  RefCountExact'
  <2>1. \A u \in Threads \ {Acceptor} : StaysPut(u)
    BY <1>1, <1>acceptor DEF StaysPut, TypeOK, CreateSession, LifeInv
  <2>2. ASSUME NEW r \in Sessions PROVE CountFits(Acceptor, r)
    BY <1>1, <1>acceptor, ValuesAssumption
    DEF CountFits, Share, Pending, Bit, TypeOK, LoopRefLocs, PostRefLocs,
        CallRefLocs, CreateSession, LifeInv
  <2> QED
    BY <2>1, <2>2, <1>acceptor, OneThread
<1>2. CASE AcceptRef
  <2>1. \A u \in Threads \ {Acceptor} : StaysPut(u)
    BY <1>2, <1>acceptor DEF StaysPut, TypeOK, AcceptRef, LocInv
  <2>2. ASSUME NEW r \in Sessions PROVE CountFits(Acceptor, r)
    BY <1>2, <1>acceptor, ValuesAssumption
    DEF CountFits, Share, Pending, Bit, TypeOK, LoopRefLocs, PostRefLocs,
        CallRefLocs, AcceptRef, LocInv
  <2> QED
    BY <2>1, <2>2, <1>acceptor, OneThread
<1>3. ASSUME NEW t \in Threads, LoopMove(t)
       PROVE  RefCountExact'
  <2>1. \A u \in Threads \ {t} : StaysPut(u)
    BY <1>3, <1>acceptor DEF StaysPut, TypeOK, LoopMove, PlainLocs
  <2>2. ASSUME NEW r \in Sessions PROVE CountFits(t, r)
    BY <1>3, <1>acceptor, ValuesAssumption
    DEF CountFits, Share, Pending, Bit, TypeOK, LoopRefLocs, PostRefLocs,
        CallRefLocs, LoopMove, PlainLocs
  <2> QED
    BY <2>1, <2>2, <1>acceptor, OneThread
<1>4. ASSUME NEW t \in Threads, PostStarts(t)
       PROVE  RefCountExact'
  <2>1. \A u \in Threads \ {t} : StaysPut(u)
    BY <1>4, <1>acceptor DEF StaysPut, TypeOK, PostStarts, PlainLocs
  <2>2. ASSUME NEW r \in Sessions PROVE CountFits(t, r)
    BY <1>4, <1>acceptor, ValuesAssumption, LoopHasSession
    DEF CountFits, Share, Pending, Bit, TypeOK, LoopRefLocs, PostRefLocs,
        CallRefLocs, PostStarts, PlainLocs
  <2> QED
    BY <2>1, <2>2, <1>acceptor, OneThread
<1>5. ASSUME NEW t \in Threads, PostPends(t)
       PROVE  RefCountExact'
  <2>1. \A u \in Threads \ {t} : StaysPut(u)
    BY <1>5, <1>acceptor DEF StaysPut, TypeOK, PostPends
  <2>2. ASSUME NEW r \in Sessions PROVE CountFits(t, r)
    BY <1>5, <1>acceptor, ValuesAssumption, LoopHasSession
    DEF CountFits, Share, Pending, Bit, TypeOK, LoopRefLocs, PostRefLocs,
        CallRefLocs, PostPends
  <2> QED
    BY <2>1, <2>2, <1>acceptor, OneThread
<1>6. ASSUME NEW t \in Threads, PostFails(t)
       PROVE  RefCountExact'
  <2>1. \A u \in Threads \ {t} : StaysPut(u)
    BY <1>6, <1>acceptor DEF StaysPut, TypeOK, PostFails
  <2>2. ASSUME NEW r \in Sessions PROVE CountFits(t, r)
    BY <1>6, <1>acceptor, ValuesAssumption, LoopHasSession
    DEF CountFits, Share, Pending, Bit, TypeOK, LoopRefLocs, PostRefLocs,
        CallRefLocs, PostFails
  <2> QED
    BY <2>1, <2>2, <1>acceptor, OneThread
<1>7. ASSUME NEW t \in Threads, DropRef(t)
       PROVE  RefCountExact'
  <2>1. \A u \in Threads \ {t} : StaysPut(u)
    BY <1>7, <1>acceptor DEF StaysPut, TypeOK, DropRef, Idle, LocInv
  <2>2. ASSUME NEW r \in Sessions PROVE CountFits(t, r)
    BY <1>7, <1>acceptor, ValuesAssumption, LoopHasSession
    DEF CountFits, Share, Pending, Bit, TypeOK, LoopRefLocs, PostRefLocs,
        CallRefLocs, DropRef, Idle, LocInv
  <2> QED
    BY <2>1, <2>2, <1>acceptor, OneThread
<1>8. ASSUME NEW t \in Threads, CloseSocket(t)
       PROVE  RefCountExact'
  <2>1. \A u \in Threads \ {t} : StaysPut(u)
    BY <1>8, <1>acceptor DEF StaysPut, TypeOK, CloseSocket
  <2>2. ASSUME NEW r \in Sessions PROVE CountFits(t, r)
    BY <1>8, <1>acceptor, ValuesAssumption
    DEF CountFits, Share, Pending, Bit, TypeOK, LoopRefLocs, PostRefLocs,
        CallRefLocs, CloseSocket
  <2> QED
    BY <2>1, <2>2, <1>acceptor, OneThread
<1>9. ASSUME NEW t \in Threads, EraseFromMap(t)
       PROVE  RefCountExact'
  <2>1. \A u \in Threads \ {t} : StaysPut(u)
    BY <1>9, <1>acceptor DEF StaysPut, TypeOK, EraseFromMap
  <2>2. ASSUME NEW r \in Sessions PROVE CountFits(t, r)
    BY <1>9, <1>acceptor, ValuesAssumption
    DEF CountFits, Share, Pending, Bit, TypeOK, LoopRefLocs, PostRefLocs,
        CallRefLocs, EraseFromMap
  <2> QED
    BY <2>1, <2>2, <1>acceptor, OneThread
<1>10. ASSUME NEW t \in Threads, LockForRelease(t)
       PROVE  RefCountExact'
  <2>1. \A u \in Threads \ {t} : StaysPut(u)
    BY <1>10, <1>acceptor DEF StaysPut, TypeOK, LockForRelease
  <2>2. ASSUME NEW r \in Sessions PROVE CountFits(t, r)
    BY <1>10, <1>acceptor, ValuesAssumption
    DEF CountFits, Share, Pending, Bit, TypeOK, LoopRefLocs, PostRefLocs,
        CallRefLocs, LockForRelease
  <2> QED
    BY <2>1, <2>2, <1>acceptor, OneThread
<1>11. ASSUME NEW t \in Threads, ReleaseReturns(t)
       PROVE  RefCountExact'
  <2>1. \A u \in Threads \ {t} : StaysPut(u)
    BY <1>11, <1>acceptor DEF StaysPut, TypeOK, ReleaseReturns
  <2>2. ASSUME NEW r \in Sessions PROVE CountFits(t, r)
    BY <1>11, <1>acceptor, ValuesAssumption
    DEF CountFits, Share, Pending, Bit, TypeOK, LoopRefLocs, PostRefLocs,
        CallRefLocs, ReleaseReturns
  <2> QED
    BY <2>1, <2>2, <1>acceptor, OneThread
<1>12. ASSUME NEW t \in Threads, UnlockReleased(t)
       PROVE  RefCountExact'
  <2>1. \A u \in Threads \ {t} : StaysPut(u)
    BY <1>12, <1>acceptor DEF StaysPut, TypeOK, UnlockReleased
  <2>2. ASSUME NEW r \in Sessions PROVE CountFits(t, r)
    BY <1>12, <1>acceptor, ValuesAssumption
    DEF CountFits, Share, Pending, Bit, TypeOK, LoopRefLocs, PostRefLocs,
        CallRefLocs, UnlockReleased
  <2> QED
    BY <2>1, <2>2, <1>acceptor, OneThread
<1>13. ASSUME NEW t \in Threads, DeleteSession(t)
       PROVE  RefCountExact'
  <2>1. \A u \in Threads \ {t} : StaysPut(u)
    BY <1>13, <1>acceptor DEF StaysPut, TypeOK, DeleteSession, Idle
  <2>2. ASSUME NEW r \in Sessions PROVE CountFits(t, r)
    BY <1>13, <1>acceptor, ValuesAssumption
    DEF CountFits, Share, Pending, Bit, TypeOK, LoopRefLocs, PostRefLocs,
        CallRefLocs, DeleteSession, Idle
  <2> QED
    BY <2>1, <2>2, <1>acceptor, OneThread
<1>14. ASSUME NEW t \in Threads, NEW s \in Sessions, NEW loc \in LookupLocs, StartCall(t, s, loc)
       PROVE  RefCountExact'
  <2>1. \A u \in Threads \ {t} : StaysPut(u)
    BY <1>14, <1>acceptor DEF StaysPut, TypeOK, StartCall, LookupLocs, LocInv
  <2>2. ASSUME NEW r \in Sessions PROVE CountFits(t, r)
    BY <1>14, <1>acceptor, ValuesAssumption
    DEF CountFits, Share, Pending, Bit, TypeOK, LoopRefLocs, PostRefLocs,
        CallRefLocs, StartCall, LookupLocs, LocInv
  <2> QED
    BY <2>1, <2>2, <1>acceptor, OneThread
<1>15. ASSUME NEW t \in Threads, NEW from \in LookupLocs, NEW to \in WaitLockLocs, Lookup(t, from, to)
       PROVE  RefCountExact'
  <2>1. \A u \in Threads \ {t} : StaysPut(u)
    BY <1>15, <1>acceptor DEF StaysPut, TypeOK, Lookup, LookupLocs, WaitLockLocs
  <2>2. ASSUME NEW r \in Sessions PROVE CountFits(t, r)
    BY <1>15, <1>acceptor, ValuesAssumption
    DEF CountFits, Share, Pending, Bit, TypeOK, LoopRefLocs, PostRefLocs,
        CallRefLocs, Lookup, LookupLocs, WaitLockLocs
  <2> QED
    BY <2>1, <2>2, <1>acceptor, OneThread
<1>16. ASSUME NEW t \in Threads, NEW from \in WaitLockLocs, NEW to \in QuietCallLocs, LockTarget(t, from, to)
       PROVE  RefCountExact'
  <2>1. \A u \in Threads \ {t} : StaysPut(u)
    BY <1>16, <1>acceptor DEF StaysPut, TypeOK, LockTarget, WaitLockLocs,
      QuietCallLocs
  <2>2. ASSUME NEW r \in Sessions PROVE CountFits(t, r)
    BY <1>16, <1>acceptor, ValuesAssumption
    DEF CountFits, Share, Pending, Bit, TypeOK, LoopRefLocs, PostRefLocs,
        CallRefLocs, LockTarget, WaitLockLocs, QuietCallLocs
  <2> QED
    BY <2>1, <2>2, <1>acceptor, OneThread
<1>17. ASSUME NEW t \in Threads, Unlock(t)
       PROVE  RefCountExact'
  <2>1. \A u \in Threads \ {t} : StaysPut(u)
    BY <1>17, <1>acceptor DEF StaysPut, TypeOK, Unlock
  <2>2. ASSUME NEW r \in Sessions PROVE CountFits(t, r)
    BY <1>17, <1>acceptor, ValuesAssumption
    DEF CountFits, Share, Pending, Bit, TypeOK, LoopRefLocs, PostRefLocs,
        CallRefLocs, Unlock
  <2> QED
    BY <2>1, <2>2, <1>acceptor, OneThread
<1>18. ASSUME NEW t \in Threads, CallMove(t)
       PROVE  RefCountExact'
  <2>1. \A u \in Threads \ {t} : StaysPut(u)
    BY <1>18, <1>acceptor DEF StaysPut, TypeOK, CallMove, SameIO, QuietCallLocs,
      OwnRefCallLocs, LockedCallLocs
  <2>2. ASSUME NEW r \in Sessions PROVE CountFits(t, r)
    BY <1>18, <1>acceptor, ValuesAssumption
    DEF CountFits, Share, Pending, Bit, TypeOK, LoopRefLocs, PostRefLocs,
        CallRefLocs, CallMove, SameIO, QuietCallLocs, OwnRefCallLocs,
        LockedCallLocs
  <2> QED
    BY <2>1, <2>2, <1>acceptor, OneThread
<1>19. ASSUME NEW t \in Threads, SendIncr(t)
       PROVE  RefCountExact'
  <2>1. \A u \in Threads \ {t} : StaysPut(u)
    BY <1>19, <1>acceptor DEF StaysPut, TypeOK, SendIncr
  <2>2. ASSUME NEW r \in Sessions PROVE CountFits(t, r)
    BY <1>19, <1>acceptor, ValuesAssumption
    DEF CountFits, Share, Pending, Bit, TypeOK, LoopRefLocs, PostRefLocs,
        CallRefLocs, SendIncr
  <2> QED
    BY <2>1, <2>2, <1>acceptor, OneThread
<1>20. ASSUME NEW t \in Threads, SendUndo(t)
       PROVE  RefCountExact'
  <2>1. \A u \in Threads \ {t} : StaysPut(u)
    BY <1>20, <1>acceptor DEF StaysPut, TypeOK, SendUndo
  <2>2. ASSUME NEW r \in Sessions PROVE CountFits(t, r)
    BY <1>20, <1>acceptor, ValuesAssumption, UndoIsLast
    DEF CountFits, Share, Pending, Bit, TypeOK, LoopRefLocs, PostRefLocs,
        CallRefLocs, SendUndo
  <2> QED
    BY <2>1, <2>2, <1>acceptor, OneThread
<1>21. ASSUME NEW t \in Threads, SendWSAPends(t)
       PROVE  RefCountExact'
  <2>0. target[t] \in Sessions /\ sendIO[target[t]] = "none"
    BY <1>21, CallHasSession
    DEF SendWSAPends, SendTokenExclusive, TokenHolders, CallTokenLocs
  <2>1. \A u \in Threads \ {t} : StaysPut(u)
    BY <1>21, <1>acceptor DEF StaysPut, TypeOK, SendWSAPends
  <2>2. ASSUME NEW r \in Sessions PROVE CountFits(t, r)
    BY <1>21, <1>acceptor, <2>0, ValuesAssumption
    DEF CountFits, Share, Pending, Bit, TypeOK, LoopRefLocs, PostRefLocs,
        CallRefLocs, SendWSAPends
  <2> QED
    BY <2>1, <2>2, <1>acceptor, OneThread
<1>22. ASSUME NEW t \in Threads, SendPost(t)
       PROVE  RefCountExact'
  <2>1. \A u \in Threads \ {t} : StaysPut(u)
    BY <1>22, <1>acceptor DEF StaysPut, TypeOK, SendPost
  <2>2. ASSUME NEW r \in Sessions PROVE CountFits(t, r)
    BY <1>22, <1>acceptor, ValuesAssumption
    DEF CountFits, Share, Pending, Bit, TypeOK, LoopRefLocs, PostRefLocs,
        CallRefLocs, SendPost
  <2> QED
    BY <2>1, <2>2, <1>acceptor, OneThread
<1>23. ASSUME NEW w \in Workers, NEW s \in Sessions, Dequeue(w, s)
       PROVE  RefCountExact'
  <2>1. \A u \in Threads \ {w} : StaysPut(u)
    BY <1>23, <1>acceptor DEF StaysPut, TypeOK, Dequeue, PlainLocs, LocInv
  <2>2. ASSUME NEW r \in Sessions PROVE CountFits(w, r)
    BY <1>23, <1>acceptor, ValuesAssumption
    DEF CountFits, Share, Pending, Bit, TypeOK, LoopRefLocs, PostRefLocs,
        CallRefLocs, Dequeue, PlainLocs, LocInv
  <2> QED
    BY <2>1, <2>2, <1>acceptor, OneThread
<1>24. CASE OutsideMove
  <2>1. \A u \in Threads \ {Acceptor} : StaysPut(u)
    BY <1>24, <1>acceptor DEF StaysPut, TypeOK, OutsideMove, SameIO
  <2>2. ASSUME NEW r \in Sessions PROVE CountFits(Acceptor, r)
    BY <1>24, <1>acceptor, ValuesAssumption
    DEF CountFits, Share, Pending, Bit, TypeOK, LoopRefLocs, PostRefLocs,
        CallRefLocs, OutsideMove, SameIO
  <2> QED
    BY <2>1, <2>2, <1>acceptor, OneThread
<1> QED
  BY <1>1, <1>2, <1>3, <1>4, <1>5, <1>6, <1>7, <1>8, <1>9, <1>10, <1>11,
     <1>12, <1>13, <1>14, <1>15, <1>16, <1>17, <1>18, <1>19, <1>20, <1>21,
     <1>22, <1>23, <1>24
  DEF Effect, ReleaseStep, EnterStep

-----------------------------------------------------------------------------
\* The invariant and its theorems.

\* Before the first accept nothing holds a reference or a lock.
LEMMA InitInv == Init => IInv
<1> SUFFICES ASSUME Init PROVE IInv
  OBVIOUS
<1> USE DEF Init
<1>acceptor. Acceptor \in Threads
  BY DEF Threads
<1>1. TypeOK
  BY TypeInit
<1>2. /\ \A t \in Threads : at[t] \in {"outside", "accept", "wait"}
      /\ \A t \in Threads : at[t] = "accept" => t = Acceptor
      /\ at[Acceptor] = "accept"
  BY <1>acceptor, ThreadsAssumption DEF Idle, Threads
<1>3. LocInv
  BY <1>2, ValuesAssumption DEF LocInv, LoopRefLocs, ReleaseLocs
<1>4. ReceiverInv
  BY <1>2 DEF ReceiverInv, ReceiverLocs
<1>5. \A s \in Sessions : TokenHolders(s) = {}
  BY <1>2 DEF TokenHolders, TokenLocs, CallTokenLocs
<1>6. SendTokenExclusive
  BY <1>5 DEF SendTokenExclusive
<1>7. LockInv
  BY <1>2 DEF LockInv, LockedCallLocs, WaitLockLocs, ErasedLocs, DetachedLocs
<1>8. LifeInv
  BY ValuesAssumption DEF LifeInv
<1>9. ReleaseInv
  BY <1>2 DEF ReleaseInv, ReleaseLocs
<1>10. HeldInv
  BY <1>2 DEF HeldInv
<1>11. RefCountExact
  <2> SUFFICES ASSUME NEW s \in Sessions PROVE overlappedIOCnt[s] = Refs(s)
    BY DEF RefCountExact
  <2>1. LoopRefs(s) = {} /\ PostRefs(s) = {} /\ CallRefs(s) = {}
    BY <1>2 DEF LoopRefs, PostRefs, CallRefs, LoopRefLocs, PostRefLocs, CallRefLocs
  <2>2. /\ Cardinality(LoopRefs(s)) = 0
        /\ Cardinality(PostRefs(s)) = 0
        /\ Cardinality(CallRefs(s)) = 0
    BY <2>1, FS_EmptySet
  <2> QED
    BY <2>2 DEF Refs, Bit
<1> HIDE DEF Init
<1> QED
  BY <1>1, <1>3, <1>4, <1>6, <1>7, <1>8, <1>9, <1>10, <1>11 DEF IInv

\* Every step of the engine, of its callers and of the kernel preserves the
\* invariant.
THEOREM Inductive == IInv /\ [Next]_vars => IInv'
<1> SUFFICES ASSUME IInv, [Next]_vars PROVE IInv'
  OBVIOUS
<1>1. /\ TypeOK /\ LocInv /\ ReceiverInv /\ SendTokenExclusive /\ LockInv
      /\ LifeInv /\ ReleaseInv /\ HeldInv /\ RefCountExact
  BY DEF IInv
<1>2. Effect
  BY StepEffect
<1>3. TypeOK'
  BY <1>1, TypeStep
<1>4. LocInv' /\ LockInv' /\ LifeInv' /\ ReleaseInv' /\ HeldInv'
  BY <1>1, <1>2, LocInvStep, LockInvStep, LifeInvStep, ReleaseInvStep, HeldInvStep
<1>5. ReceiverInv' /\ SendTokenExclusive'
  BY <1>1, ReceiverStep, TokenStep
<1>6. RefCountExact'
  BY <1>1, <1>2, <1>3, CountStep
<1> QED
  BY <1>3, <1>4, <1>5, <1>6 DEF IInv

\* The invariant holds in every state of the engine.
THEOREM Invariance == Spec => []IInv
<1>1. Init => IInv
  BY InitInv
<1>2. IInv /\ [Next]_vars => IInv'
  BY Inductive
<1> QED
  BY <1>1, <1>2, PTL DEF Spec

\* Every variable keeps its type; in particular the rear and the front of the
\* send ring stay inside the ring, whatever the callers do.
THEOREM TypeCorrect == Spec => []TypeOK
<1>1. IInv => TypeOK
  BY DEF IInv
<1> QED
  BY <1>1, Invariance, PTL

\* overlappedIOCnt counts the references on the session exactly: no path of
\* AcceptThread, IOCPWorkerThread, PostRecv, PostSend, PostSendForSendPacket
\* or ReleaseSession drops a reference twice or forgets one.
THEOREM RefCountCorrect == Spec => []RefCountExact
<1>1. IInv => RefCountExact
  BY DEF IInv
<1> QED
  BY <1>1, Invariance, PTL

\* The releases nested in PostRecv and PostSend (lines 506-509, 568-571) and
\* the early return at 554 are unreachable: the caller's reference is there.
THEOREM NoZeroRef == Spec => []ZeroRefNever
<1>1. IInv => ZeroRefNever
  BY DEF IInv, LocInv, ZeroRefNever
<1> QED
  BY <1>1, Invariance, PTL

\* delete ptrSession at line 659 runs when no thread, posted operation or
\* queued completion refers to the session.
THEOREM NoDanglingSession == Spec => []NoUseAfterFree
<1>1. ASSUME IInv PROVE NoUseAfterFree
  <2> SUFFICES ASSUME NEW s \in Sessions, status[s] # "live"
               PROVE  /\ \A t \in Threads : cur[t] # s
                      /\ \A t \in Threads : target[t] = s =>
                           call[t] \in {"none", "sendLookup", "discLookup"}
                      /\ recvIO[s] = "none" /\ sendIO[s] = "none"
                      /\ failedPosts[s] = 0
    BY DEF NoUseAfterFree
  <2>1. LifeInv
    BY <1>1 DEF IInv
  <2> QED
    BY <2>1 DEF LifeInv, LookupLocs
<1> QED
  BY <1>1, Invariance, PTL

\* bWaitSend is a lock: one WSASend of a session at a time, and one thread on
\* the front of its send ring.
THEOREM SendTokenSafe == Spec => []SendTokenExclusive
<1>1. IInv => SendTokenExclusive
  BY DEF IInv
<1> QED
  BY <1>1, Invariance, PTL

-----------------------------------------------------------------------------
(***************************************************************************)
(* What SessionEngine promises beside its counter: no cycle of locks, no   *)
(* stale handle, sends within the ring, nothing started on a session that  *)
(* is released, and the contract of the callbacks.  WholeInv adds owners   *)
(* of session locks, sockets and the send ring to the invariant IInv.      *)
(***************************************************************************)

\* A thread that has the lock of a session, by its locations.
Owns(u, s) ==
  \/ at[u] \in {"onRelease", "relUnlock"} /\ cur[u] = s
  \/ call[u] \in LockedCallLocs /\ target[u] = s

\* A step that takes no session lock and frees none leaves the owners.
LEMMA OwnerFrame ==
  ASSUME OwnerInv, UNCHANGED sessionSRWLock,
         \A u \in Threads, s \in Sessions : Owns(u, s) => Owns(u, s)'
  PROVE  OwnerInv'
BY DEF OwnerInv, Owns

\* Owners: whoever takes the lock of a session has it until it frees it.
LEMMA OwnerStep ==
  ASSUME IInv, OwnerInv, Effect
  PROVE  OwnerInv'
<1> USE DEF engineVars, callVars, loadVars, tableVars, lifeVars, recvVars,
            ringVars, sendVars, Goto, GotoCall, Incr, Decr, Takes
<1>acceptor. Acceptor \in Threads /\ Workers \subseteq Threads
  BY DEF Threads
<1>types. /\ at \in [Threads -> EngineLocs] /\ call \in [Threads -> CallLocs]
          /\ cur \in [Threads -> Sessions \cup {NoSession}]
          /\ target \in [Threads -> Sessions \cup {NoSession}]
          /\ sessionSRWLock \in [Sessions -> Threads \cup {NoThread}]
  BY DEF IInv, TypeOK
<1>1. ASSUME NEW s \in Sessions, NEW h \in Handles, CreateSession(s, h)
      PROVE  OwnerInv'
  BY <1>1, <1>types, OwnerFrame DEF CreateSession, Owns
<1>2. CASE AcceptRef
  BY <1>2, <1>types, OwnerFrame DEF AcceptRef, Owns
<1>3. ASSUME NEW t \in Threads,
             LoopMove(t) \/ PostStarts(t) \/ PostPends(t) \/ PostFails(t)
      PROVE  OwnerInv'
  <2>1. at[t] \notin {"onRelease", "relUnlock"}
    BY <1>3
    DEF LoopMove, PostStarts, PostPends, PostFails, PlainLocs, LoopRefLocs, PostRefLocs
  <2>2. /\ \E loc : Goto(t, loc)
        /\ UNCHANGED <<cur, call, target, sessionSRWLock>>
    BY <1>3 DEF LoopMove, PostStarts, PostPends, PostFails
  <2> QED
    BY <2>1, <2>2, <1>types, OwnerFrame DEF Owns
<1>4. ASSUME NEW t \in Threads, DropRef(t)
      PROVE  OwnerInv'
  <2>1. \A u \in Threads \ {t} : at'[u] = at[u] /\ cur'[u] = cur[u]
    BY <1>4, <1>types DEF DropRef
  <2> QED
    BY <1>4, <2>1, <1>types, OwnerFrame DEF DropRef, Owns
<1>5. ASSUME NEW t \in Threads, CloseSocket(t) \/ EraseFromMap(t) \/ ReleaseReturns(t)
      PROVE  OwnerInv'
  BY <1>5, <1>types, OwnerFrame DEF CloseSocket, EraseFromMap, ReleaseReturns, Owns
<1>6. ASSUME NEW t \in Threads, LockForRelease(t)
      PROVE  OwnerInv'
  <2>1. cur[t] \in Sessions
    BY <1>6, LoopHasSession DEF LockForRelease, IInv, ReleaseLocs
  <2> QED
    BY <1>6, <2>1, <1>types DEF LockForRelease, OwnerInv
<1>7. ASSUME NEW t \in Threads, UnlockReleased(t)
      PROVE  OwnerInv'
  <2>1. cur[t] \in Sessions /\ NoThread \notin Threads
    BY <1>7, LoopHasSession, ThreadsAssumption DEF UnlockReleased, IInv, ReleaseLocs
  <2>2. call[t] = "none"
    BY <1>7 DEF UnlockReleased, IInv, LocInv, Callbacks
  <2>3. call[t] \notin LockedCallLocs
    BY <2>2 DEF LockedCallLocs
  <2> QED
    BY <1>7, <2>1, <2>3, <1>types DEF UnlockReleased, OwnerInv
<1>8. ASSUME NEW t \in Threads, DeleteSession(t)
      PROVE  OwnerInv'
  <2>1. \A u \in Threads \ {t} : at'[u] = at[u] /\ cur'[u] = cur[u]
    BY <1>8, <1>types DEF DeleteSession
  <2> QED
    BY <1>8, <2>1, <1>types, OwnerFrame DEF DeleteSession, Owns
<1>9. ASSUME NEW t \in Threads, NEW s \in Sessions, NEW loc \in LookupLocs, StartCall(t, s, loc)
      PROVE  OwnerInv'
  <2>1. call[t] \notin LockedCallLocs
    BY <1>9 DEF StartCall, LockedCallLocs
  <2>2. \A u \in Threads \ {t} : call'[u] = call[u] /\ target'[u] = target[u]
    BY <1>9, <1>types DEF StartCall
  <2> QED
    BY <1>9, <2>1, <2>2, OwnerFrame DEF StartCall, Owns
<1>10. ASSUME NEW t \in Threads, NEW from \in LookupLocs, NEW to \in WaitLockLocs,
              Lookup(t, from, to)
       PROVE  OwnerInv'
  <2>1. call[t] \notin LockedCallLocs
    BY <1>10 DEF Lookup, LookupLocs, LockedCallLocs
  <2>2. \A u \in Threads \ {t} : call'[u] = call[u] /\ target'[u] = target[u]
    BY <1>10, <1>types DEF Lookup
  <2> QED
    BY <1>10, <2>1, <2>2, OwnerFrame DEF Lookup, Owns
<1>11. ASSUME NEW t \in Threads, NEW from \in WaitLockLocs, NEW to \in QuietCallLocs,
              LockTarget(t, from, to)
       PROVE  OwnerInv'
  <2>1. /\ call[t] \notin LockedCallLocs /\ to \in LockedCallLocs
        /\ target[t] \in Sessions
    BY <1>11 DEF LockTarget, WaitLockLocs, LockedCallLocs, QuietCallLocs, IInv, LocInv
  <2> QED
    BY <1>11, <2>1, <1>types DEF LockTarget, OwnerInv
<1>12. ASSUME NEW t \in Threads, Unlock(t)
       PROVE  OwnerInv'
  <2>1. target[t] \in Sessions /\ NoThread \notin Threads
    BY <1>12, ThreadsAssumption DEF Unlock, IInv, LocInv
  <2> QED
    BY <1>12, <2>1, <1>types DEF Unlock, OwnerInv
<1>13. ASSUME NEW t \in Threads,
              \/ CallMove(t) \/ SendIncr(t) \/ SendUndo(t) \/ SendWSAPends(t) \/ SendPost(t)
       PROVE  OwnerInv'
  <2>1. \E loc \in LockedCallLocs : GotoCall(t, loc)
    BY <1>13 DEF CallMove, SendIncr, SendUndo, SendWSAPends, SendPost, QuietCallLocs,
                 OwnRefCallLocs, CallRefLocs, LockedCallLocs
  <2>2. UNCHANGED <<at, cur, target, sessionSRWLock>>
    BY <1>13 DEF CallMove, SendIncr, SendUndo, SendWSAPends, SendPost
  <2> QED
    BY <2>1, <2>2, <1>types, OwnerFrame DEF Owns
<1>14. ASSUME NEW w \in Workers, NEW s \in Sessions, Dequeue(w, s)
       PROVE  OwnerInv'
  <2>1. \A u \in Threads \ {w} : at'[u] = at[u] /\ cur'[u] = cur[u]
    BY <1>14, <1>types DEF Dequeue
  <2> QED
    BY <1>14, <2>1, <1>acceptor, OwnerFrame DEF Dequeue, Owns
<1>15. CASE OutsideMove
  BY <1>15, OwnerFrame DEF OutsideMove, Owns
<1> QED
  BY <1>1, <1>2, <1>3, <1>4, <1>5, <1>6, <1>7, <1>8, <1>9, <1>10, <1>11, <1>12, <1>13,
     <1>14, <1>15
  DEF Effect, ReleaseStep, EnterStep

\* A thread that holds the map lock and waits for a session lock waits for no
\* thread that wants the map lock.
LEMMA LocksInOrder ==
  ASSUME IInv, OwnerInv
  PROVE  NoLockCycle
<1> SUFFICES ASSUME NEW s \in Sessions, NEW t \in Threads, NEW u \in Threads,
                    WaitsForSession(t, s), sessionSRWLock[s] = u
             PROVE  mSessionMapSRWLock = t /\ u # t /\ ~WaitsForMap(u)
  BY DEF NoLockCycle
<1>1. mSessionMapSRWLock = t
  BY DEF WaitsForSession, IInv, LockInv, WaitLockLocs
<1>2. call[u] \in LockedCallLocs /\ target[u] = s => u # t /\ ~WaitsForMap(u)
  <2> SUFFICES ASSUME call[u] \in LockedCallLocs, target[u] = s
               PROVE  u # t /\ ~WaitsForMap(u)
    OBVIOUS
  <2>1. at[u] \in Callbacks \cup {"outside"}
    BY DEF IInv, LocInv, LockedCallLocs
  <2> QED
    BY <2>1 DEF WaitsForSession, WaitsForMap, LockedCallLocs, Callbacks
<1>3. ~(at[u] \in {"onRelease", "relUnlock"} /\ cur[u] = s)
  <2> SUFFICES ASSUME at[u] \in {"onRelease", "relUnlock"}, cur[u] = s
               PROVE  FALSE
    OBVIOUS
  <2>1. CASE at[t] = "relLock" /\ cur[t] = s
    BY <2>1 DEF IInv, ReleaseInv, ReleaseLocs
  <2>2. CASE call[t] \in {"sendLock", "discLock"} /\ target[t] = s
    BY <2>2 DEF IInv, LockInv, DetachedLocs, LookupLocs
  <2> QED
    BY <2>1, <2>2 DEF WaitsForSession
<1> QED
  BY <1>1, <1>2, <1>3 DEF OwnerInv

\* Nobody waits for the lock of a session whose OnRelease runs.
LEMMA CallbackUnwaited ==
  ASSUME IInv
  PROVE  NobodyWaitsForCallback
<1> SUFFICES ASSUME NEW t \in Threads, NEW u \in Threads, at[u] = "onRelease",
                    WaitsForSession(t, cur[u])
             PROVE  FALSE
  BY DEF NobodyWaitsForCallback
<1>1. CASE at[t] = "relLock" /\ cur[t] = cur[u]
  BY <1>1 DEF IInv, ReleaseInv, ReleaseLocs
<1>2. CASE call[t] \in {"sendLock", "discLock"} /\ target[t] = cur[u]
  BY <1>2 DEF IInv, LockInv, DetachedLocs, LookupLocs
<1> QED
  BY <1>1, <1>2 DEF WaitsForSession

-----------------------------------------------------------------------------
\* Locations of ReleaseSession after closesocket.
ClosedLocs == ReleaseLocs \ {"relClose"}
\* Where a handle or the contents of the send ring are in use.
HandleLocs == PostRefLocs \cup {"prepare"}

\* A step that leaves handles, sockets and the send ring alone.
HandsOff ==
  /\ UNCHANGED <<ringVars, inFlight, socketForWSACall, lifeVars, handle>>
  /\ \A s \in Sessions : sendIO'[s] # "none" => sendIO[s] # "none"
  /\ \A t \in Threads :
       /\ at[t] \in ClosedLocs => at'[t] \in ClosedLocs /\ cur'[t] = cur[t]
       /\ (at[t] \in HandleLocs \/ at'[t] \in HandleLocs) =>
            at'[t] = at[t] /\ cur'[t] = cur[t]
       /\ (call[t] = "sendWSA" \/ call'[t] = "sendWSA") =>
            call'[t] = call[t] /\ target'[t] = target[t]

\* What the other steps are.
HandlesStep ==
  \/ \E s \in Sessions, h \in Handles : CreateSession(s, h)
  \/ \E t \in Threads :
       \/ PostRecv(t) \/ WSARecvPends(t) \/ WSARecvError(t)
       \/ CloseSocket(t) \/ DeleteSession(t)
       \/ EnqueueHeader(t) \/ EnqueuePayload(t)
       \/ SendPrepare(t) \/ SendWSAPends(t) \/ SendWSAError(t) \/ DiscExchange(t)
  \/ \E w \in Workers :
       \/ MoveFront(w) \/ Peek(w) \/ PrepareSend(w) \/ WSASendPends(w) \/ WSASendError(w)
       \/ \E s \in Sessions : DequeueSendEnd(w, s)

\* Of the steps of a loop, the one thread that moves is not where a handle
\* or the send ring is in use.
LEMMA LoopHandsOff ==
  ASSUME IInv, NEW t \in Threads,
         \A u \in Threads \ {t} : at'[u] = at[u] /\ cur'[u] = cur[u],
         at[t] \notin ClosedLocs \/ (at'[t] \in ClosedLocs /\ cur'[t] = cur[t]),
         at[t] \notin HandleLocs, at'[t] \notin HandleLocs,
         UNCHANGED <<callVars, ringVars, inFlight, socketForWSACall, lifeVars, handle>>,
         \A s \in Sessions : sendIO'[s] # "none" => sendIO[s] # "none"
  PROVE  HandsOff
BY DEF HandsOff, callVars

\* The same for a call of SendPacket or Disconnect.
LEMMA CallHandsOff ==
  ASSUME IInv, NEW t \in Threads,
         \A u \in Threads \ {t} : call'[u] = call[u] /\ target'[u] = target[u],
         call[t] # "sendWSA", call'[t] # "sendWSA",
         UNCHANGED <<engineVars, ringVars, inFlight, socketForWSACall, lifeVars, handle>>,
         \A s \in Sessions : sendIO'[s] # "none" => sendIO[s] # "none"
  PROVE  HandsOff
BY DEF HandsOff, engineVars

\* A step leaves handles, sockets and the send ring alone or is one of the above.
LEMMA HandsStep ==
  ASSUME IInv, [Next]_vars
  PROVE  HandsOff \/ HandlesStep
<1> USE DEF engineVars, callVars, loadVars, tableVars, lifeVars, recvVars,
            ringVars, sendVars, Goto, GotoCall, Incr, Decr, Takes
<1>acceptor. Acceptor \in Threads /\ Workers \subseteq Threads
  BY DEF Threads
<1>types. /\ at \in [Threads -> EngineLocs] /\ call \in [Threads -> CallLocs]
          /\ cur \in [Threads -> Sessions \cup {NoSession}]
          /\ target \in [Threads -> Sessions \cup {NoSession}]
          /\ sendIO \in [Sessions -> {"none", "pending", "done", "failed", "aborted"}]
  BY DEF IInv, TypeOK
<1>1. CASE AcceptRef
  BY <1>1, <1>acceptor, <1>types, LoopHandsOff
  DEF AcceptRef, ClosedLocs, HandleLocs, ReleaseLocs, PostRefLocs
<1>2. ASSUME NEW t \in Threads, CallbackReturns(t)
      PROVE  HandsOff
  BY <1>2, <1>types, LoopHandsOff
  DEF CallbackReturns, AfterCallback, Callbacks, ClosedLocs, HandleLocs, ReleaseLocs,
      PostRefLocs
<1>3. ASSUME NEW t \in Threads, DropRef(t)
      PROVE  HandsOff
  BY <1>3, <1>types, LoopHandsOff
  DEF DropRef, Idle, ClosedLocs, HandleLocs, ReleaseLocs, PostRefLocs
<1>4. ASSUME NEW t \in Threads, EraseFromMap(t) \/ LockForRelease(t) \/ UnlockReleased(t)
      PROVE  HandsOff
  BY <1>4, <1>types, LoopHandsOff
  DEF EraseFromMap, LockForRelease, UnlockReleased, ClosedLocs, HandleLocs, ReleaseLocs,
      PostRefLocs
<1>5. ASSUME NEW w \in Workers, NEW s \in Sessions,
             \/ DequeueRecv(w, s) \/ DequeueRecvEnd(w, s)
             \/ DequeueSend(w, s) \/ DequeueFailedPost(w, s)
      PROVE  HandsOff
  <2>1. /\ at[w] = "wait" /\ at'[w] \in {"parse", "fin", "moveFront"}
        /\ \A u \in Threads \ {w} : at'[u] = at[u] /\ cur'[u] = cur[u]
    BY <1>5, <1>acceptor, <1>types
    DEF DequeueRecv, DequeueRecvEnd, DequeueSend, DequeueFailedPost
  <2>2. \A v \in Sessions : sendIO'[v] # "none" => sendIO[v] # "none"
    BY <1>5, <1>types DEF DequeueRecv, DequeueRecvEnd, DequeueSend, DequeueFailedPost
  <2>3. UNCHANGED <<callVars, ringVars, inFlight, socketForWSACall, lifeVars, handle>>
    BY <1>5 DEF DequeueRecv, DequeueRecvEnd, DequeueSend, DequeueFailedPost
  <2> QED
    BY <2>1, <2>2, <2>3, <1>acceptor, LoopHandsOff
    DEF ClosedLocs, HandleLocs, ReleaseLocs, PostRefLocs
<1>6. ASSUME NEW w \in Workers,
             \/ ParsePacket(w) \/ ParseEnds(w) \/ ClearWait(w) \/ LoadRear(w)
             \/ LoadFront(w) \/ TakeToken(w) \/ GiveUp(w)
      PROVE  HandsOff
  BY <1>6, <1>acceptor, <1>types, LoopHandsOff
  DEF ParsePacket, ParseEnds, ClearWait, LoadRear, LoadFront, TakeToken, GiveUp, ClosedLocs,
      HandleLocs, ReleaseLocs, PostRefLocs
<1>7. ASSUME NEW t \in Threads, StartStep(t)
      PROVE  HandsOff
  BY <1>7, <1>types, CallHandsOff DEF StartStep, SendPacket, Disconnect, StartCall
<1>8. ASSUME NEW t \in Threads,
             \/ Lookup(t, "sendLookup", "sendLock") \/ Lookup(t, "discLookup", "discLock")
      PROVE  HandsOff
  BY <1>8, <1>types, CallHandsOff DEF Lookup
<1>9. ASSUME NEW t \in Threads,
             \/ LockTarget(t, "sendLock", "sendCheck")
             \/ LockTarget(t, "discLock", "discExchange")
             \/ Unlock(t)
      PROVE  HandsOff
  BY <1>9, <1>types, CallHandsOff DEF LockTarget, Unlock
<1>10. ASSUME NEW t \in Threads,
              \/ RefusePacket(t) \/ SendTakeToken(t) \/ SendIncr(t) \/ SendUndo(t)
              \/ SendClear(t) \/ SendPost(t)
       PROVE  HandsOff
  BY <1>10, <1>types, CallHandsOff
  DEF RefusePacket, SendTakeToken, SendIncr, SendUndo, SendClear, SendPost
<1>11. ASSUME NEW t \in Threads, DiscCancel(t)
       PROVE  HandsOff
  <2>1. \A s \in Sessions : sendIO'[s] # "none" => sendIO[s] # "none"
    BY <1>11, <1>types DEF DiscCancel, Aborted
  <2> QED
    BY <1>11, <2>1, <1>types, CallHandsOff DEF DiscCancel
<1>12. ASSUME NEW s \in Sessions, KernelCompletes(s) \/ PeerStep(s)
       PROVE  HandsOff
  <2>1. UNCHANGED <<engineVars, callVars, ringVars, inFlight, socketForWSACall, lifeVars,
                    handle>>
    BY <1>12 DEF KernelCompletes, RecvEnds, SendEnds, PeerStep, RecvArrives, PeerLeaves
  <2>2. \A v \in Sessions : sendIO'[v] # "none" => sendIO[v] # "none"
    BY <1>12, <1>types
    DEF KernelCompletes, RecvEnds, SendEnds, PeerStep, RecvArrives, PeerLeaves
  <2> QED
    BY <2>1, <2>2 DEF HandsOff
<1>13. CASE UNCHANGED vars
  BY <1>13 DEF vars, HandsOff
<1>14. ASSUME NEW t \in Threads, SharedStep(t) \/ CallStep(t)
       PROVE  HandsOff \/ HandlesStep
  BY <1>14, <1>2, <1>3, <1>4, <1>8, <1>9, <1>10, <1>11
  DEF SharedStep, CallStep, HandlesStep
<1>15. ASSUME NEW w \in Workers, WorkerStep(w)
       PROVE  HandsOff \/ HandlesStep
  BY <1>15, <1>5, <1>6 DEF WorkerStep, DequeueStep, HandlesStep
<1> QED
  BY <1>1, <1>7, <1>12, <1>13, <1>14, <1>15 DEF Next, Rest, AcceptStep, HandlesStep

\* Sockets and loaded handles, when a step leaves them alone.
LEMMA SocketHandsOff ==
  ASSUME SocketInv, HandsOff
  PROVE  SocketInv'
<1>1. /\ UNCHANGED <<socketForWSACall, status, socketForReleaseSession, socketOpen, handle>>
      /\ \A t \in Threads :
           /\ at[t] \in ClosedLocs => at'[t] \in ClosedLocs /\ cur'[t] = cur[t]
           /\ at[t] \in PostRefLocs => at'[t] \in PostRefLocs /\ cur'[t] = cur[t]
           /\ call[t] = "sendWSA" => call'[t] = "sendWSA" /\ target'[t] = target[t]
  BY DEF HandsOff, HandleLocs, lifeVars
<1>2. \A s \in Sessions :
           socketForWSACall'[s] \in {InvalidSocket, socketForReleaseSession'[s]}
  BY <1>1 DEF SocketInv
<1>3. \A s \in Sessions : status'[s] = "live" =>
        socketOpen'[s] \/ \E t \in Threads : cur'[t] = s /\ at'[t] \in ClosedLocs
  BY <1>1 DEF SocketInv, ClosedLocs
<1>4. \A t \in Threads :
        \/ handle'[t] = InvalidSocket
        \/ at'[t] \in PostRefLocs /\ handle'[t] = socketForReleaseSession'[cur'[t]]
        \/ call'[t] = "sendWSA" /\ handle'[t] = socketForReleaseSession'[target'[t]]
  BY <1>1 DEF SocketInv
<1> QED
  BY <1>2, <1>3, <1>4 DEF SocketInv, ClosedLocs

\* Sockets: a socket is closed by the releaser of its session only, and a
\* handle is loaded from the session it is then used for.
LEMMA SocketStep ==
  ASSUME IInv, SocketInv, [Next]_vars
  PROVE  SocketInv'
<1> USE DEF engineVars, callVars, loadVars, tableVars, lifeVars, recvVars,
            ringVars, sendVars, Goto, GotoCall, Incr, Decr, Takes
<1>acceptor. Acceptor \in Threads /\ Workers \subseteq Threads
  BY DEF Threads
<1>types. /\ at \in [Threads -> EngineLocs] /\ call \in [Threads -> CallLocs]
          /\ cur \in [Threads -> Sessions \cup {NoSession}]
          /\ target \in [Threads -> Sessions \cup {NoSession}]
          /\ handle \in [Threads -> Handles \cup {InvalidSocket}]
          /\ socketForWSACall \in [Sessions -> Handles \cup {InvalidSocket}]
          /\ socketForReleaseSession \in [Sessions -> Handles \cup {InvalidSocket}]
          /\ socketOpen \in [Sessions -> BOOLEAN]
          /\ status \in [Sessions -> {"unborn", "live", "freed"}]
  BY DEF IInv, TypeOK
<1>sessions. /\ \A t \in Threads :
                     at[t] \in LoopRefLocs \cup ReleaseLocs => cur[t] \in Sessions
             /\ \A t \in Threads : call[t] # "none" => target[t] \in Sessions
  BY DEF IInv, LocInv
<1>1. ASSUME NEW s \in Sessions, NEW h \in Handles, CreateSession(s, h)
      PROVE  SocketInv'
  <2>1. \A t \in Threads : at[t] \in PostRefLocs => cur[t] \in Sessions \ {s}
    BY <1>1, <1>sessions DEF CreateSession, IInv, LifeInv, PostRefLocs, LoopRefLocs
  <2>2. \A t \in Threads : call[t] = "sendWSA" => target[t] \in Sessions \ {s}
    BY <1>1, <1>sessions DEF CreateSession, IInv, LifeInv
  <2>3. at[Acceptor] = "accept"
    BY <1>1 DEF CreateSession
  <2> QED
    BY <1>1, <1>acceptor, <1>types, <2>1, <2>2, <2>3
    DEF CreateSession, SocketInv, PostRefLocs, ReleaseLocs
<1>2. ASSUME NEW t \in Threads, PostRecv(t)
      PROVE  SocketInv'
  <2>1. cur[t] \in Sessions
    BY <1>2, <1>sessions DEF PostRecv, LoopRefLocs
  <2> QED
    BY <1>2, <2>1, <1>types DEF PostRecv, SocketInv, PostRefLocs, ReleaseLocs
<1>3. ASSUME NEW w \in Workers, PrepareSend(w)
      PROVE  SocketInv'
  <2>1. cur[w] \in Sessions
    BY <1>3, <1>acceptor, <1>sessions DEF PrepareSend, LoopRefLocs
  <2>2. overlappedIOCnt[cur[w]] # 0
    <3>1. w \in LoopRefs(cur[w])
      BY <1>3, <1>acceptor DEF PrepareSend, LoopRefs, LoopRefLocs
    <3> QED
      BY <2>1, <3>1, CountPositive DEF IInv
  <2> QED
    BY <1>3, <2>1, <2>2, <1>acceptor, <1>types
    DEF PrepareSend, SocketInv, PostRefLocs, ReleaseLocs
<1>4. ASSUME NEW t \in Threads, SendPrepare(t)
      PROVE  SocketInv'
  <2>1. target[t] \in Sessions
    BY <1>4, <1>sessions DEF SendPrepare
  <2> QED
    BY <1>4, <2>1, <1>types DEF SendPrepare, SocketInv
<1>5. ASSUME NEW t \in Threads,
             \/ WSARecvPends(t) \/ WSARecvError(t)
             \/ t \in Workers /\ (WSASendPends(t) \/ WSASendError(t))
      PROVE  SocketInv'
  <2>1. /\ handle' = [handle EXCEPT ![t] = InvalidSocket]
        /\ at[t] \in PostRefLocs
        /\ \A u \in Threads \ {t} : at'[u] = at[u]
        /\ UNCHANGED <<cur, call, target, status, socketForWSACall, socketForReleaseSession,
                       socketOpen>>
    BY <1>5, <1>types
    DEF WSARecvPends, WSARecvError, WSASendPends, WSASendError, PostRefLocs
  <2>2. \A s \in Sessions : status'[s] = "live" =>
          socketOpen'[s] \/ \E u \in Threads : cur'[u] = s /\ at'[u] \in ClosedLocs
    BY <2>1 DEF SocketInv, PostRefLocs, ClosedLocs, ReleaseLocs
  <2> QED
    BY <2>1, <2>2, <1>types DEF SocketInv, ClosedLocs
<1>6. ASSUME NEW t \in Threads, SendWSAPends(t) \/ SendWSAError(t)
      PROVE  SocketInv'
  BY <1>6, <1>types DEF SendWSAPends, SendWSAError, SocketInv
<1>7. ASSUME NEW t \in Threads, CloseSocket(t)
      PROVE  SocketInv'
  BY <1>7, <1>types DEF CloseSocket, SocketInv, PostRefLocs, ReleaseLocs
<1>8. ASSUME NEW t \in Threads, DeleteSession(t)
      PROVE  SocketInv'
  <2>1. cur[t] \in Sessions
    BY <1>8, <1>sessions DEF DeleteSession, ReleaseLocs
  <2>2. /\ \A u \in Threads \ {t} : at'[u] = at[u] /\ cur'[u] = cur[u]
        /\ at[t] \notin PostRefLocs
        /\ status'[cur[t]] # "live"
        /\ \A s \in Sessions \ {cur[t]} : status'[s] = status[s]
    BY <1>8, <2>1, <1>types DEF DeleteSession, PostRefLocs
  <2>3. UNCHANGED <<handle, call, target, socketForWSACall, socketForReleaseSession,
                    socketOpen>>
    BY <1>8 DEF DeleteSession
  <2>4. \A s \in Sessions : status'[s] = "live" =>
          socketOpen'[s] \/ \E u \in Threads : cur'[u] = s /\ at'[u] \in ClosedLocs
    BY <2>2, <2>3 DEF SocketInv, ClosedLocs
  <2> QED
    BY <2>2, <2>3, <2>4 DEF SocketInv, ClosedLocs
<1>9. ASSUME NEW t \in Threads, EnqueueHeader(t) \/ EnqueuePayload(t)
      PROVE  SocketInv'
  BY <1>9, <1>types DEF EnqueueHeader, EnqueuePayload, SocketInv
<1>10. ASSUME NEW t \in Threads, DiscExchange(t)
       PROVE  SocketInv'
  BY <1>10, <1>types DEF DiscExchange, SocketInv
<1>11. ASSUME NEW w \in Workers,
              \/ MoveFront(w) \/ Peek(w) \/ \E s \in Sessions : DequeueSendEnd(w, s)
       PROVE  SocketInv'
  <2>1. /\ at[w] \notin PostRefLocs \cup ClosedLocs
        /\ \A u \in Threads \ {w} : at'[u] = at[u] /\ cur'[u] = cur[u]
        /\ UNCHANGED <<handle, call, target, status, socketForWSACall, socketForReleaseSession,
                       socketOpen>>
    BY <1>11, <1>types
    DEF MoveFront, Peek, DequeueSendEnd, PostRefLocs, ClosedLocs, ReleaseLocs
  <2>2. \A s \in Sessions : status'[s] = "live" =>
          socketOpen'[s] \/ \E u \in Threads : cur'[u] = s /\ at'[u] \in ClosedLocs
    BY <2>1 DEF SocketInv, ClosedLocs
  <2> QED
    BY <2>1, <2>2 DEF SocketInv, ClosedLocs
<1> QED
  BY <1>1, <1>2, <1>3, <1>4, <1>5, <1>6, <1>7, <1>8, <1>9, <1>10, <1>11, <1>acceptor,
     HandsStep, SocketHandsOff DEF HandlesStep

\* closesocket runs when nobody is about to use the handle.
LEMMA HandlesAreOpen ==
  ASSUME IInv, SocketInv
  PROVE  HandleStillOpen
<1> SUFFICES ASSUME NEW t \in Threads, handle[t] # InvalidSocket
             PROVE  LET s == IF at[t] \in PostRefLocs THEN cur[t] ELSE target[t] IN
                    /\ socketOpen[s]
                    /\ handle[t] = socketForReleaseSession[s]
  BY DEF HandleStillOpen
<1>1. CASE at[t] \in PostRefLocs
  <2>1. cur[t] \in Sessions /\ status[cur[t]] = "live"
    BY <1>1 DEF IInv, LocInv, LifeInv, PostRefLocs, LoopRefLocs
  <2>2. \A u \in Threads : ~(cur[u] = cur[t] /\ at[u] \in ReleaseLocs)
    BY <1>1 DEF IInv, ReleaseInv, PostRefLocs, ReleaseLocs
  <2>3. call[t] # "sendWSA"
    BY <1>1 DEF IInv, LocInv, PostRefLocs, Callbacks
  <2> QED
    BY <1>1, <2>1, <2>2, <2>3 DEF SocketInv
<1>2. CASE at[t] \notin PostRefLocs
  <2>1. call[t] = "sendWSA" /\ handle[t] = socketForReleaseSession[target[t]]
    BY <1>2 DEF SocketInv
  <2>2. target[t] \in Sessions /\ status[target[t]] = "live"
    BY <2>1 DEF IInv, LocInv, LifeInv, LookupLocs
  <2>3. \A u \in Threads : ~(cur[u] = target[t] /\ at[u] \in ReleaseLocs)
    BY <2>1 DEF IInv, ReleaseInv, CallRefLocs
  <2> QED
    BY <1>2, <2>1, <2>2, <2>3 DEF SocketInv
<1> QED
  BY <1>1, <1>2

\* The use of the send ring by its indices, and what a WSASend takes of it.
LEMMA UseIsNat ==
  ASSUME NEW r \in SendIndex, NEW f \in SendIndex
  PROVE  UseSize(SendCapacity, r, f) \in Nat
<1>1. SendCapacity \in Nat /\ r \in 0 .. SendCapacity - 1 /\ f \in 0 .. SendCapacity - 1
  BY SizesAssumption DEF SendIndex
<1> QED
  BY <1>1, UseAndFree

\* The indices of a send ring and its use; two indices apart mean data.
LEMMA QueuedBounds ==
  ASSUME TypeOK, NEW s \in Sessions
  PROVE  /\ SendCapacity \in Nat
         /\ sendRear[s] \in 0 .. SendCapacity - 1 /\ sendFront[s] \in 0 .. SendCapacity - 1
         /\ Queued(s) \in Nat
         /\ sendRear[s] # sendFront[s] => Queued(s) > 0
<1>1. /\ SendCapacity \in Nat
      /\ sendRear[s] \in 0 .. SendCapacity - 1 /\ sendFront[s] \in 0 .. SendCapacity - 1
  BY SizesAssumption DEF TypeOK, SendIndex
<1>2. /\ UseSize(SendCapacity, sendRear[s], sendFront[s]) \in 0 .. SendCapacity - 1
      /\ UseSize(SendCapacity, sendRear[s], sendFront[s]) = 0 <=> sendRear[s] = sendFront[s]
  BY <1>1, UseAndFree
<1> QED
  BY <1>1, <1>2 DEF Queued

\* The buffers of a WSASend cover queued data only, and some if there is any.
LEMMA SendLengthBounds ==
  ASSUME TypeOK, NEW s \in Sessions, NEW seen, sendRear[s] # sendFront[s]
  PROVE  /\ SendLength(s, seen) \in Nat
         /\ SendLength(s, seen) > 0
         /\ SendLength(s, seen) <= Queued(s)
<1>1. /\ SendCapacity \in Nat
      /\ sendRear[s] \in 0 .. SendCapacity - 1 /\ sendFront[s] \in 0 .. SendCapacity - 1
      /\ Queued(s) \in Nat /\ Queued(s) > 0
  BY QueuedBounds
<1>2. /\ DirectDequeueSize(SendCapacity, sendRear[s], sendFront[s]) \in 0 .. Queued(s)
      /\ DirectDequeueSize(SendCapacity, sendRear[s], sendFront[s]) > 0
  BY <1>1, DirectSizes DEF Queued
<1> QED
  BY <1>1, <1>2 DEF SendLength, Queued

\* Enqueue adds to what is queued or leaves it.
LEMMA EnqueueQueues ==
  ASSUME TypeOK, NEW v \in Sessions, Enqueue(v), UNCHANGED sendFront
  PROVE  \A s \in Sessions :
           /\ Queued(s)' >= Queued(s)
           /\ sendRear[s] # sendFront[s] => sendRear'[s] # sendFront'[s]
<1>1. /\ SendCapacity \in Nat
      /\ sendRear[v] \in 0 .. SendCapacity - 1 /\ sendFront[v] \in 0 .. SendCapacity - 1
      /\ Queued(v) \in Nat
  BY QueuedBounds
<1>2. sendRear' = [sendRear EXCEPT ![v] = MovedRear(SendCapacity, sendRear[v], sendFront[v], 1)]
  BY DEF Enqueue
<1>3. CASE FreeSize(SendCapacity, sendRear[v], sendFront[v]) < 1
  <2>1. sendRear' = sendRear
    BY <1>2, <1>3 DEF MovedRear, TypeOK
  <2> QED
    BY <2>1, QueuedBounds DEF Queued
<1>4. CASE ~(FreeSize(SendCapacity, sendRear[v], sendFront[v]) < 1)
  <2>1. FreeSize(SendCapacity, sendRear[v], sendFront[v]) \in Nat
    BY <1>1, UseAndFree
  <2>2. /\ sendRear'[v] = Advance(SendCapacity, sendRear[v], 1)
        /\ \A s \in Sessions \ {v} : sendRear'[s] = sendRear[s]
    BY <1>2, <1>4 DEF MovedRear, TypeOK
  <2>3. /\ Advance(SendCapacity, sendRear[v], 1) \in 0 .. SendCapacity - 1
        /\ UseSize(SendCapacity, Advance(SendCapacity, sendRear[v], 1), sendFront[v])
             = UseSize(SendCapacity, sendRear[v], sendFront[v]) + 1
    BY <1>1, <1>4, <2>1, EnqueueAdds
  <2>4. Queued(v)' = Queued(v) + 1
    BY <2>2, <2>3 DEF Queued
  <2>5. sendRear'[v] # sendFront'[v]
    <3>1. UseSize(SendCapacity, sendRear'[v], sendFront[v]) > 0
      BY <1>1, <2>2, <2>3 DEF Queued
    <3> QED
      BY <1>1, <2>2, <2>3, <3>1, UseAndFree
  <2>6. \A s \in Sessions \ {v} : Queued(s)' = Queued(s)
    BY <2>2 DEF Queued
  <2> QED
    BY <1>1, <2>2, <2>4, <2>5, <2>6, QueuedBounds
<1> QED
  BY <1>3, <1>4

\* What is in flight, when a step leaves the send ring alone.
LEMMA QueueHandsOff ==
  ASSUME QueueInv, HandsOff
  PROVE  QueueInv'
BY DEF QueueInv, HandsOff, HandleLocs, PostRefLocs, ringVars, Queued

\* Where a thread is the only one on the front of a send ring.
LEMMA TokenHoldersAlone ==
  ASSUME IInv, NEW s \in Sessions, NEW t \in TokenHolders(s)
  PROVE  /\ sendIO[s] = "none"
         /\ \A u \in Threads \ {t} :
              /\ at[u] \in {"prepare", "sendCall"} => cur[u] # s
              /\ call[u] = "sendWSA" => target[u] # s
BY DEF IInv, SendTokenExclusive, TokenHolders, TokenLocs, CallTokenLocs

\* A WSASend that is accepted or refused, when its thread is the only one on
\* the front of the ring.
LEMMA QueueAtSession ==
  ASSUME TypeOK, QueueInv, NEW s \in Sessions, NEW t \in Threads,
         sendIO[s] = "none", inFlight[s] > 0,
         \A u \in Threads \ {t} :
           /\ at[u] \in {"prepare", "sendCall"} => cur[u] # s
           /\ call[u] = "sendWSA" => target[u] # s,
         \A u \in Threads \ {t} : at'[u] = at[u] /\ call'[u] = call[u],
         \A u \in Threads :
           /\ at[u] \in {"prepare", "sendCall"} => cur[u] \in Sessions
           /\ call[u] = "sendWSA" => target[u] \in Sessions,
         at'[t] \notin {"prepare", "sendCall"}, call'[t] # "sendWSA",
         UNCHANGED <<cur, target, sendRear, sendFront>>,
         \/ sendIO' = [sendIO EXCEPT ![s] = "pending"] /\ UNCHANGED inFlight
         \/ inFlight' = [inFlight EXCEPT ![s] = 0] /\ UNCHANGED sendIO
  PROVE  QueueInv'
<1>1. /\ \A r \in Sessions \ {s} : inFlight'[r] = inFlight[r] /\ sendIO'[r] = sendIO[r]
      /\ inFlight'[s] = inFlight[s] \/ (inFlight'[s] = 0 /\ sendIO'[s] = "none")
  BY DEF TypeOK
<1>2. \A r \in Sessions : Queued(r)' = Queued(r) /\ Queued(r) \in Nat
  BY QueuedBounds DEF Queued
<1>3. \A r \in Sessions : inFlight'[r] \in Nat /\ inFlight'[r] <= Queued(r)'
  BY <1>1, <1>2 DEF QueueInv
<1>4. \A r \in Sessions : sendIO'[r] # "none" => inFlight'[r] > 0
  BY <1>1 DEF QueueInv
<1>5. \A u \in Threads : at'[u] = "prepare" => sendRear'[cur'[u]] # sendFront'[cur'[u]]
  BY DEF QueueInv
<1>6. \A u \in Threads : at'[u] = "sendCall" => inFlight'[cur'[u]] > 0
  BY <1>1 DEF QueueInv
<1>7. \A u \in Threads : call'[u] = "sendWSA" => inFlight'[target'[u]] > 0
  BY <1>1 DEF QueueInv
<1> QED
  BY <1>3, <1>4, <1>5, <1>6, <1>7 DEF QueueInv

\* Send ring: only the holder of the send token and a completion change what
\* is in flight or take data off the ring.
LEMMA QueueStep ==
  ASSUME IInv, QueueInv, [Next]_vars
  PROVE  QueueInv'
<1> USE DEF engineVars, callVars, loadVars, tableVars, lifeVars, recvVars,
            ringVars, sendVars, Goto, GotoCall, Incr, Decr, Takes
<1>acceptor. Acceptor \in Threads /\ Workers \subseteq Threads
  BY DEF Threads
<1>types. /\ at \in [Threads -> EngineLocs] /\ call \in [Threads -> CallLocs]
          /\ cur \in [Threads -> Sessions \cup {NoSession}]
          /\ target \in [Threads -> Sessions \cup {NoSession}]
          /\ sendIO \in [Sessions -> {"none", "pending", "done", "failed", "aborted"}]
          /\ inFlight \in [Sessions -> Int]
          /\ sendFront \in [Sessions -> SendIndex]
          /\ TypeOK
  BY DEF IInv, TypeOK
<1>sessions. /\ \A t \in Threads :
                     at[t] \in LoopRefLocs \cup ReleaseLocs => cur[t] \in Sessions
             /\ \A t \in Threads : call[t] # "none" => target[t] \in Sessions
  BY DEF IInv, LocInv
<1>1. ASSUME NEW s \in Sessions, NEW h \in Handles, CreateSession(s, h)
      PROVE  QueueInv'
  BY <1>1, <1>types DEF CreateSession, QueueInv, Queued
<1>2. ASSUME NEW t \in Threads,
             \/ PostRecv(t) \/ WSARecvPends(t) \/ WSARecvError(t)
             \/ CloseSocket(t) \/ DeleteSession(t)
      PROVE  QueueInv'
  <2>1. /\ \A u \in Threads :
                at'[u] \in {"prepare", "sendCall"} => at'[u] = at[u] /\ cur'[u] = cur[u]
        /\ UNCHANGED <<call, target, sendIO, inFlight, sendRear, sendFront>>
    BY <1>2, <1>types
    DEF PostRecv, WSARecvPends, WSARecvError, CloseSocket, DeleteSession, Idle
  <2> QED
    BY <2>1 DEF QueueInv, Queued
<1>3. ASSUME NEW t \in Threads, EnqueueHeader(t) \/ EnqueuePayload(t)
      PROVE  QueueInv'
  <2>1. /\ target[t] \in Sessions /\ Enqueue(target[t])
        /\ \A u \in Threads : call'[u] = "sendWSA" => call[u] = "sendWSA"
        /\ UNCHANGED <<at, cur, target, sendIO, inFlight, sendFront>>
    BY <1>3, <1>types, <1>sessions DEF EnqueueHeader, EnqueuePayload
  <2>2. \A s \in Sessions :
          /\ Queued(s)' >= Queued(s) /\ Queued(s) \in Nat
          /\ sendRear[s] # sendFront[s] => sendRear'[s] # sendFront'[s]
    BY <2>1, <1>types, EnqueueQueues, QueuedBounds
  <2>3. TypeOK'
    BY <1>3, TypeStep DEF IInv
  <2>4. \A s \in Sessions : Queued(s)' \in Nat
    BY <2>3, UseIsNat DEF TypeOK, Queued
  <2>5. \A s \in Sessions : inFlight'[s] \in Nat /\ inFlight'[s] <= Queued(s)'
    BY <2>1, <2>2, <2>4 DEF QueueInv
  <2>6. \A u \in Threads : at[u] = "prepare" => cur[u] \in Sessions
    BY <1>sessions DEF LoopRefLocs
  <2> QED
    BY <2>1, <2>2, <2>5, <2>6 DEF QueueInv
<1>4. ASSUME NEW t \in Threads, SendPrepare(t)
      PROVE  QueueInv'
  <2>1. target[t] \in Sessions
    BY <1>4, <1>sessions DEF SendPrepare
  <2>2. t \in TokenHolders(target[t])
    BY <1>4 DEF SendPrepare, TokenHolders, CallTokenLocs
  <2>3. CASE sendRear[target[t]] = sendFront[target[t]]
    BY <1>4, <2>3, <1>types DEF SendPrepare, QueueInv, Queued
  <2>4. CASE sendRear[target[t]] # sendFront[target[t]]
    <3> DEFINE n == SendLength(target[t], sendRear[target[t]])
    <3>1. n \in Nat /\ n > 0 /\ n <= Queued(target[t])
      BY <2>1, <2>4, <1>types, SendLengthBounds
    <3>2. /\ inFlight' = [inFlight EXCEPT ![target[t]] = n]
          /\ \A u \in Threads \ {t} : call'[u] = call[u]
          /\ UNCHANGED <<at, cur, target, sendIO, sendRear, sendFront>>
      BY <1>4, <2>4, <1>types DEF SendPrepare
    <3> HIDE DEF n
    <3> QED
      BY <2>1, <3>1, <3>2, <1>types DEF QueueInv, Queued
  <2> QED
    BY <2>3, <2>4
<1>5. ASSUME NEW w \in Workers, PrepareSend(w)
      PROVE  QueueInv'
  <2>1. cur[w] \in Sessions
    BY <1>5, <1>acceptor, <1>sessions DEF PrepareSend, LoopRefLocs
  <2> DEFINE n == SendLength(cur[w], rearSeen[w])
  <2>2. sendRear[cur[w]] # sendFront[cur[w]]
    BY <1>5, <1>acceptor DEF PrepareSend, QueueInv
  <2>3. n \in Nat /\ n > 0 /\ n <= Queued(cur[w])
    BY <2>1, <2>2, <1>types, SendLengthBounds
  <2>4. /\ inFlight' = [inFlight EXCEPT ![cur[w]] = n]
        /\ \A u \in Threads \ {w} : at'[u] = at[u]
        /\ at'[w] # "prepare"
        /\ UNCHANGED <<cur, call, target, sendIO, sendRear, sendFront>>
    BY <1>5, <1>acceptor, <1>types DEF PrepareSend
  <2> HIDE DEF n
  <2> QED
    BY <2>1, <2>3, <2>4, <1>types DEF QueueInv, Queued
<1>6. ASSUME NEW w \in Workers, Peek(w)
      PROVE  QueueInv'
  BY <1>6, <1>acceptor, <1>types DEF Peek, QueueInv, Queued
<1>7. ASSUME NEW w \in Workers, WSASendPends(w) \/ WSASendError(w)
      PROVE  QueueInv'
  <2>1. cur[w] \in Sessions /\ w \in TokenHolders(cur[w])
    BY <1>7, <1>acceptor, <1>sessions
    DEF WSASendPends, WSASendError, LoopRefLocs, TokenHolders, TokenLocs
  <2>2. \A u \in Threads \ {w} :
          /\ at[u] \in {"prepare", "sendCall"} => cur[u] # cur[w]
          /\ call[u] = "sendWSA" => target[u] # cur[w]
    BY <2>1, TokenHoldersAlone
  <2>3. sendIO[cur[w]] = "none" /\ inFlight[cur[w]] > 0 /\ call[w] # "sendWSA"
    BY <1>7, <2>1, <1>acceptor, TokenHoldersAlone
    DEF WSASendPends, WSASendError, QueueInv, IInv, LocInv, Callbacks
  <2>4. /\ \A u \in Threads \ {w} : at'[u] = at[u]
        /\ at'[w] \notin {"prepare", "sendCall"}
        /\ UNCHANGED <<cur, call, target, sendRear, sendFront>>
    BY <1>7, <1>acceptor, <1>types DEF WSASendPends, WSASendError
  <2>5. \/ sendIO' = [sendIO EXCEPT ![cur[w]] = "pending"] /\ UNCHANGED inFlight
        \/ inFlight' = [inFlight EXCEPT ![cur[w]] = 0] /\ UNCHANGED sendIO
    BY <1>7 DEF WSASendPends, WSASendError
  <2>6. PICK s \in Sessions : s = cur[w]
    BY <2>1
  <2>7. /\ w \in Threads /\ call'[w] # "sendWSA" /\ TypeOK
        /\ \A u \in Threads \ {w} : call'[u] = call[u]
        /\ \A u \in Threads :
             /\ at[u] \in {"prepare", "sendCall"} => cur[u] \in Sessions
             /\ call[u] = "sendWSA" => target[u] \in Sessions
    BY <2>3, <2>4, <1>acceptor, <1>types, <1>sessions DEF LoopRefLocs
  <2> QED
    BY <2>2, <2>3, <2>4, <2>5, <2>6, <2>7, QueueAtSession
<1>8. ASSUME NEW t \in Threads, SendWSAPends(t) \/ SendWSAError(t)
      PROVE  QueueInv'
  <2>1. target[t] \in Sessions /\ t \in TokenHolders(target[t])
    BY <1>8, <1>sessions DEF SendWSAPends, SendWSAError, TokenHolders, CallTokenLocs
  <2>2. \A u \in Threads \ {t} :
          /\ at[u] \in {"prepare", "sendCall"} => cur[u] # target[t]
          /\ call[u] = "sendWSA" => target[u] # target[t]
    BY <2>1, TokenHoldersAlone
  <2>3. /\ sendIO[target[t]] = "none" /\ inFlight[target[t]] > 0
        /\ at[t] \notin {"prepare", "sendCall"}
    BY <1>8, <2>1, TokenHoldersAlone
    DEF SendWSAPends, SendWSAError, QueueInv, IInv, LocInv, Callbacks
  <2>4. /\ \A u \in Threads \ {t} : call'[u] = call[u]
        /\ call'[t] # "sendWSA"
        /\ UNCHANGED <<at, cur, target, sendRear, sendFront>>
    BY <1>8, <1>types DEF SendWSAPends, SendWSAError
  <2>5. \/ sendIO' = [sendIO EXCEPT ![target[t]] = "pending"] /\ UNCHANGED inFlight
        \/ inFlight' = [inFlight EXCEPT ![target[t]] = 0] /\ UNCHANGED sendIO
    BY <1>8 DEF SendWSAPends, SendWSAError
  <2>6. PICK s \in Sessions : s = target[t]
    BY <2>1
  <2>7. /\ TypeOK
        /\ \A u \in Threads : at'[u] = at[u]
        /\ \A u \in Threads :
             /\ at[u] \in {"prepare", "sendCall"} => cur[u] \in Sessions
             /\ call[u] = "sendWSA" => target[u] \in Sessions
    BY <2>4, <1>types, <1>sessions DEF LoopRefLocs
  <2> QED
    BY <2>2, <2>3, <2>4, <2>5, <2>6, <2>7, QueueAtSession
<1>9. ASSUME NEW w \in Workers, MoveFront(w)
      PROVE  QueueInv'
  <2>1. cur[w] \in Sessions /\ w \in TokenHolders(cur[w])
    BY <1>9, <1>acceptor, <1>sessions DEF MoveFront, LoopRefLocs, TokenHolders, TokenLocs
  <2>2. /\ sendIO[cur[w]] = "none"
        /\ \A u \in Threads \ {w} :
             /\ at[u] \in {"prepare", "sendCall"} => cur[u] # cur[w]
             /\ call[u] = "sendWSA" => target[u] # cur[w]
    BY <2>1, TokenHoldersAlone
  <2>3. call[w] # "sendWSA"
    BY <1>9, <1>acceptor DEF MoveFront, IInv, LocInv, Callbacks
  <2>4. /\ \A u \in Threads \ {w} : at'[u] = at[u]
        /\ at'[w] \notin {"prepare", "sendCall"}
        /\ inFlight' = [inFlight EXCEPT ![cur[w]] = 0]
        /\ \A s \in Sessions \ {cur[w]} : sendFront'[s] = sendFront[s]
        /\ UNCHANGED <<cur, call, target, sendIO, sendRear>>
    BY <1>9, <1>acceptor, <1>types DEF MoveFront
  <2>5. TypeOK'
    BY <1>9, TypeStep DEF IInv, Next, WorkerStep
  <2>6. PICK s \in Sessions : s = cur[w]
    BY <2>1
  <2>6a. Queued(s)' \in Nat
    BY <2>5, UseIsNat DEF TypeOK, Queued
  <2>7. \A o \in Sessions \ {cur[w]} : Queued(o)' = Queued(o)
    BY <2>4 DEF Queued
  <2>8. \A o \in Sessions : inFlight'[o] \in Nat /\ inFlight'[o] <= Queued(o)'
    BY <2>4, <2>6, <2>6a, <2>7, <1>types DEF QueueInv
  <2> QED
    BY <2>1, <2>2, <2>3, <2>4, <2>8, <1>types, <1>sessions DEF QueueInv, LoopRefLocs
<1>10. ASSUME NEW w \in Workers, NEW s \in Sessions, DequeueSendEnd(w, s)
       PROVE  QueueInv'
  <2>1. \A u \in Threads :
          /\ at[u] \in {"prepare", "sendCall"} => cur[u] # s
          /\ call[u] = "sendWSA" => target[u] # s
    BY <1>10
    DEF DequeueSendEnd, IInv, SendTokenExclusive, TokenHolders, TokenLocs, CallTokenLocs
  <2>2. Queued(s) \in Nat
    BY <1>types, QueuedBounds
  <2>3. /\ \A u \in Threads \ {w} : at'[u] = at[u] /\ cur'[u] = cur[u]
        /\ at'[w] = "fin"
        /\ inFlight' = [inFlight EXCEPT ![s] = 0]
        /\ sendIO' = [sendIO EXCEPT ![s] = "none"]
        /\ UNCHANGED <<call, target, sendRear, sendFront>>
    BY <1>10, <1>acceptor, <1>types DEF DequeueSendEnd
  <2> QED
    BY <2>1, <2>2, <2>3, <1>types, <1>sessions DEF QueueInv, Queued
<1>11. ASSUME NEW t \in Threads, DiscExchange(t)
       PROVE  QueueInv'
  BY <1>11, <1>types DEF DiscExchange, QueueInv, Queued
<1> QED
  BY <1>1, <1>2, <1>3, <1>4, <1>5, <1>6, <1>7, <1>8, <1>9, <1>10, <1>11,
     HandsStep, QueueHandsOff DEF HandlesStep

\* The property stated by the run follows from the invariant.
LEMMA InFlightWithinQueue ==
  ASSUME QueueInv
  PROVE  InFlightIsQueued
BY DEF QueueInv, InFlightIsQueued

\* Before the first accept no lock is held, no handle loaded, nothing queued.
LEMMA InitWhole == Init => WholeInv
<1> SUFFICES ASSUME Init PROVE WholeInv
  OBVIOUS
<1>1. IInv
  BY InitInv
<1>2. \A t \in Threads : at[t] \in {"outside", "accept", "wait"} /\ call[t] = "none"
  BY DEF Init, Idle
<1>3. OwnerInv
  BY ThreadsAssumption DEF OwnerInv, Init
<1>4. SocketInv
  BY DEF SocketInv, Init
<1>5. \A s \in Sessions : Queued(s) \in Nat
  BY <1>1, UseIsNat DEF IInv, TypeOK, Queued
<1>6. QueueInv
  BY <1>2, <1>5 DEF QueueInv, Init
<1> QED
  BY <1>1, <1>3, <1>4, <1>6 DEF WholeInv

\* Every step preserves the invariant with what locks, sockets and the send
\* ring add to it.
THEOREM WholeInductive == WholeInv /\ [Next]_vars => WholeInv'
<1> SUFFICES ASSUME WholeInv, [Next]_vars PROVE WholeInv'
  OBVIOUS
<1>1. IInv /\ OwnerInv /\ SocketInv /\ QueueInv
  BY DEF WholeInv
<1>2. IInv' /\ OwnerInv' /\ SocketInv' /\ QueueInv'
  BY <1>1, Inductive, StepEffect, OwnerStep, SocketStep, QueueStep
<1> QED
  BY <1>2 DEF WholeInv

\* The invariant and its additions hold in every state of the engine.
THEOREM WholeInvariance == Spec => []WholeInv
BY InitWhole, WholeInductive, PTL DEF Spec

\* A thread that waits for a session lock holds the map lock, and whoever has
\* that session lock does not wait for the map lock.
THEOREM NoDeadlockOfLocks == Spec => []NoLockCycle
<1>1. WholeInv => NoLockCycle
  BY LocksInOrder DEF WholeInv
<1> QED
  BY <1>1, WholeInvariance, PTL

\* OnRelease runs under the lock of a session that nobody waits for.
THEOREM OnReleaseHoldsNobodyUp == Spec => []NobodyWaitsForCallback
<1>1. WholeInv => NobodyWaitsForCallback
  BY CallbackUnwaited DEF WholeInv
<1> QED
  BY <1>1, WholeInvariance, PTL

\* closesocket at line 636 runs when no WSASend or WSARecv is about to be
\* called on a handle loaded before it.
THEOREM NoStaleHandle == Spec => []HandleStillOpen
<1>1. WholeInv => HandleStillOpen
  BY HandlesAreOpen DEF WholeInv
<1> QED
  BY <1>1, WholeInvariance, PTL

\* What a WSASend has in flight is queued in the send ring until MoveFront.
THEOREM SendsQueuedData == Spec => []InFlightIsQueued
<1>1. WholeInv => InFlightIsQueued
  BY InFlightWithinQueue DEF WholeInv
<1> QED
  BY <1>1, WholeInvariance, PTL

-----------------------------------------------------------------------------
\* A session in ReleaseSession.

\* Nothing is posted on a session that is being released, and its counter
\* stands at zero but for one SendPacket about to store it again.
ReleasedQuiet ==
  \A s \in Sessions : Releasers(s) # {} =>
    /\ recvIO[s] = "none" /\ sendIO[s] = "none"
    /\ overlappedIOCnt[s] \in {0, 1}

\* The one reference left on such a session is that of a SendPacket at line 584.
LEMMA ReleaserIsAlone ==
  ASSUME IInv
  PROVE  ReleasedQuiet
<1> SUFFICES ASSUME NEW s \in Sessions, NEW t \in Releasers(s)
             PROVE  /\ recvIO[s] = "none" /\ sendIO[s] = "none"
                    /\ overlappedIOCnt[s] \in {0, 1}
  BY DEF ReleasedQuiet
<1>1. t \in Threads /\ cur[t] = s /\ at[t] \in ReleaseLocs
  BY DEF Releasers
<1>2. recvIO[s] = "none" /\ sendIO[s] = "none" /\ failedPosts[s] = 0
  BY <1>1 DEF IInv, ReleaseInv
<1>3. LoopRefs(s) = {} /\ PostRefs(s) = {}
  BY <1>1 DEF IInv, ReleaseInv, LoopRefs, PostRefs, LoopRefLocs, PostRefLocs, ReleaseLocs
<1>4. Cardinality(LoopRefs(s)) = 0 /\ Cardinality(PostRefs(s)) = 0
  BY <1>3, FS_EmptySet
<1>5. \A u \in CallRefs(s) : u \in Threads /\ call[u] = "sendUndo" /\ target[u] = s
  BY <1>1 DEF IInv, ReleaseInv, CallRefs
<1>6. CASE CallRefs(s) = {}
  <2>1. Cardinality(CallRefs(s)) = 0
    BY <1>6, FS_EmptySet
  <2> QED
    BY <1>2, <1>4, <2>1 DEF IInv, RefCountExact, Refs, Bit
<1>7. ASSUME NEW u \in CallRefs(s)
      PROVE  overlappedIOCnt[s] = 1
  BY <1>5, UndoIsLast DEF IInv
<1> QED
  BY <1>2, <1>6, <1>7

\* A thread leaves ReleaseSession by deleting its session only.
LEMMA ReleaserStays ==
  ASSUME IInv, Effect, NEW s \in Sessions, NEW t \in Releasers(s)
  PROVE  \/ t \in Releasers(s)'
         \/ status'[s] = "freed" /\ UNCHANGED <<recvIO, sendIO, overlappedIOCnt>>
<1> USE DEF Goto, GotoCall, Takes, engineVars, recvVars, sendVars
<1>1. t \in Threads /\ cur[t] = s /\ at[t] \in ReleaseLocs
  BY DEF Releasers
<1>types. /\ at \in [Threads -> EngineLocs]
          /\ cur \in [Threads -> Sessions \cup {NoSession}]
          /\ status \in [Sessions -> {"unborn", "live", "freed"}]
          /\ Acceptor \in Threads /\ Workers \subseteq Threads
  BY DEF IInv, TypeOK, Threads
<1>2. ASSUME at'[t] = at[t], cur'[t] = cur[t]
      PROVE  t \in Releasers(s)'
  BY <1>1, <1>2 DEF Releasers
<1>3. ASSUME NEW v \in Sessions, NEW h \in Handles, CreateSession(v, h)
      PROVE  at'[t] = at[t] /\ cur'[t] = cur[t]
  BY <1>1, <1>3, <1>types DEF CreateSession, ReleaseLocs
<1>4. CASE AcceptRef
  BY <1>1, <1>2, <1>4, <1>types DEF AcceptRef, ReleaseLocs
<1>5. ASSUME NEW u \in Threads,
             \/ LoopMove(u) \/ PostStarts(u) \/ PostPends(u) \/ PostFails(u) \/ DropRef(u)
      PROVE  at'[t] = at[t] /\ cur'[t] = cur[t]
  BY <1>1, <1>5, <1>types
  DEF LoopMove, PostStarts, PostPends, PostFails, DropRef, ReleaseLocs, PlainLocs, LoopRefLocs,
      PostRefLocs
<1>6. ASSUME NEW u \in Threads, ReleaseStep(u)
      PROVE  \/ t \in Releasers(s)'
             \/ status'[s] = "freed" /\ UNCHANGED <<recvIO, sendIO, overlappedIOCnt>>
  <2>1. CASE DeleteSession(u)
    BY <1>1, <1>2, <2>1, <1>types DEF DeleteSession
  <2>2. ASSUME ~DeleteSession(u)
        PROVE  cur' = cur /\ \E loc \in ReleaseLocs : at' = [at EXCEPT ![u] = loc]
    BY <1>6, <2>2
    DEF ReleaseStep, CloseSocket, EraseFromMap, LockForRelease, ReleaseReturns,
        UnlockReleased, ReleaseLocs
  <2> QED
    BY <1>1, <2>1, <2>2, <1>types DEF Releasers
<1>7. ASSUME NEW u \in Threads,
             \/ EnterStep(u) \/ CallMove(u) \/ SendIncr(u) \/ SendUndo(u)
             \/ SendWSAPends(u) \/ SendPost(u)
      PROVE  at' = at /\ cur' = cur
  BY <1>7
  DEF EnterStep, StartCall, Lookup, LockTarget, Unlock, CallMove, SendIncr, SendUndo,
      SendWSAPends, SendPost
<1>8. ASSUME NEW w \in Workers, NEW v \in Sessions, Dequeue(w, v)
      PROVE  at'[t] = at[t] /\ cur'[t] = cur[t]
  BY <1>1, <1>8, <1>types DEF Dequeue, ReleaseLocs
<1>9. CASE OutsideMove
  BY <1>2, <1>9 DEF OutsideMove
<1> QED
  BY <1>2, <1>3, <1>4, <1>5, <1>6, <1>7, <1>8, <1>9 DEF Effect

\* From the entry of ReleaseSession to the delete, no receive and no send is
\* started on the session and no reference is taken that is kept.
THEOREM NothingStartsOnReleased == Spec => NoOperationAfterLastRef
<1>1. IInv => ReleasedQuiet
  BY ReleaserIsAlone
<1>2. ASSUME IInv, ReleasedQuiet, ReleasedQuiet', [Next]_vars, NEW s \in Sessions,
             NEW t \in Releasers(s)
      PROVE  /\ recvIO'[s] = "none" /\ sendIO'[s] = "none"
             /\ overlappedIOCnt'[s] \in {0, 1}
  <2>1. t \in Releasers(s)' \/ UNCHANGED <<recvIO, sendIO, overlappedIOCnt>>
    BY <1>2, StepEffect, ReleaserStays
  <2> QED
    BY <1>2, <2>1 DEF ReleasedQuiet
<1>3. IInv /\ ReleasedQuiet /\ ReleasedQuiet' /\ [Next]_vars =>
        [\A s \in Sessions : Releasers(s) # {} =>
           /\ recvIO'[s] = "none" /\ sendIO'[s] = "none"
           /\ overlappedIOCnt'[s] \in {0, 1}]_vars
  BY <1>2
<1> QED
  BY <1>1, <1>3, Invariance, PTL DEF Spec, NoOperationAfterLastRef

\* The refinement.  The phase of a session is where the one thread is that
\* runs a callback of it, is about to run the first or has run the last.
MarkLocs == Callbacks \cup {"created", "relUnlock", "relDelete"}

\* Thread t is at a mark of session s.
Marked(t, s) == cur[t] = s /\ at[t] \in MarkLocs

\* The phase a mark stands for.
PhaseAt(loc) ==
  CASE loc = "created"   -> "none"
    [] loc = "onAccept"  -> "accepting"
    [] loc = "onRecv"    -> "receiving"
    [] loc = "onRelease" -> "releasing"
    [] loc \in {"relUnlock", "relDelete"} -> "released"

\* The phase of a session without a mark.
PhaseOf(st) ==
  CASE st = "unborn" -> "none"
    [] st = "live"   -> "open"
    [] st = "freed"  -> "released"

\* The phase of a session, read from its mark or from its status.
PhaseLaw ==
  \A s \in Sessions :
    /\ \A t \in Threads : Marked(t, s) => Phase(s) = PhaseAt(at[t])
    /\ (\A t \in Threads : ~Marked(t, s)) => Phase(s) = PhaseOf(status[s])

\* Two threads are never beside each other in the callbacks of a session.
LEMMA OneMark ==
  ASSUME IInv, NEW s \in Sessions, NEW t \in Threads, NEW u \in Threads,
         Marked(t, s), cur[u] = s, at[u] \in MarkLocs \cup ReceiverLocs \cup ReleaseLocs
  PROVE  t = u
<1>1. CASE at[t] \in ReleaseLocs
  BY <1>1 DEF IInv, ReleaseInv, Marked
<1>2. CASE at[u] \in ReleaseLocs
  <2>1. at[t] \in ReleaseLocs
    BY <1>2 DEF IInv, ReleaseInv, Marked
  <2> QED
    BY <1>1, <2>1
<1>3. CASE at[t] \notin ReleaseLocs /\ at[u] \notin ReleaseLocs
  <2>1. at[t] \in ReceiverLocs /\ at[u] \in ReceiverLocs
    BY <1>3 DEF Marked, MarkLocs, Callbacks, ReceiverLocs, ReleaseLocs
  <2> QED
    BY <2>1 DEF IInv, ReceiverInv, Marked
<1> QED
  BY <1>1, <1>2, <1>3

\* With one mark at most, the mark or the status decides the phase.
LEMMA PhaseLawHolds ==
  ASSUME IInv
  PROVE  PhaseLaw
<1> SUFFICES ASSUME NEW s \in Sessions
             PROVE  /\ \A t \in Threads : Marked(t, s) => Phase(s) = PhaseAt(at[t])
                    /\ (\A t \in Threads : ~Marked(t, s)) => Phase(s) = PhaseOf(status[s])
  BY DEF PhaseLaw
<1>1. ~(Cardinality(InCallback(s)) > 1)
  <2>1. \A t, u \in InCallback(s) : t = u
    BY OneMark DEF InCallback, Marked, MarkLocs
  <2>2. CASE InCallback(s) = {}
    BY <2>2, FS_EmptySet
  <2>3. ASSUME NEW t \in InCallback(s) PROVE Cardinality(InCallback(s)) = 1
    <3>1. InCallback(s) = {t}
      BY <2>1
    <3> QED
      BY <3>1, FS_Singleton
  <2> QED
    BY <2>2, <2>3
<1>2. ASSUME NEW t \in Threads, Marked(t, s)
      PROVE  Phase(s) = PhaseAt(at[t])
  <2>1. status[s] = "live"
    BY <1>2 DEF IInv, LifeInv, Marked
  <2>2. \A u \in Threads : cur[u] = s /\ at[u] \in MarkLocs => u = t
    BY <1>2, OneMark
  <2> QED
    BY <1>1, <1>2, <2>1, <2>2 DEF Phase, PhaseAt, Marked, MarkLocs, Callbacks
<1>3. ASSUME \A t \in Threads : ~Marked(t, s)
      PROVE  Phase(s) = PhaseOf(status[s])
  <2>1. status[s] \in {"unborn", "live", "freed"}
    BY DEF IInv, TypeOK
  <2> QED
    BY <1>1, <1>3, <2>1 DEF Phase, PhaseOf, Marked, MarkLocs, Callbacks
<1> QED
  BY <1>2, <1>3

\* A session nobody enters or leaves a callback of stays in its phase.
LEMMA PhaseStays ==
  ASSUME PhaseLaw, PhaseLaw', NEW s \in Sessions, status'[s] = status[s],
         \A t \in Threads :
           (Marked(t, s) \/ Marked(t, s)') => at'[t] = at[t] /\ cur'[t] = cur[t]
  PROVE  Phase(s)' = Phase(s)
<1>1. \A t \in Threads : Marked(t, s)' <=> Marked(t, s)
  BY DEF Marked
<1>2. ASSUME NEW t \in Threads, Marked(t, s)
      PROVE  Phase(s)' = Phase(s)
  BY <1>1, <1>2 DEF PhaseLaw
<1>3. CASE \A t \in Threads : ~Marked(t, s)
  BY <1>1, <1>3 DEF PhaseLaw
<1> QED
  BY <1>2, <1>3

\* A step of the contract, when one session changes its phase.
LEMMA OnePhase ==
  ASSUME NEW s \in Sessions, NEW from, NEW to,
         Phase(s) = from, Phase(s)' = to,
         \A r \in Sessions \ {s} : Phase(r)' = Phase(r)
  PROVE  Contract!Step(s, from, to)
<1> DEFINE p == [r \in Sessions |-> Phase(r)]
<1>1. p[s] = from
  OBVIOUS
<1>2. p' = [r \in Sessions |-> Phase(r)']
  OBVIOUS
<1>3. [r \in Sessions |-> Phase(r)'] = [p EXCEPT ![s] = to]
  OBVIOUS
<1> QED
  BY <1>1, <1>2, <1>3 DEF Contract!Step

\* Steps in which no thread enters or leaves a mark.
MarksOff ==
  /\ UNCHANGED status
  /\ \A t \in Threads :
       (at[t] \in MarkLocs \/ at'[t] \in MarkLocs) => at'[t] = at[t] /\ cur'[t] = cur[t]

\* The steps that start a callback, end one or end the session.
MarksStep ==
  \/ AcceptStep
  \/ \E t \in Threads :
       \/ CallbackReturns(t) \/ LockForRelease(t) \/ UnlockReleased(t) \/ DeleteSession(t)
  \/ \E w \in Workers : ParsePacket(w)

\* No other step moves a thread from or to a mark.
LEMMA MarksOffOrStep ==
  ASSUME IInv, [Next]_vars
  PROVE  MarksOff \/ MarksStep
<1> USE DEF engineVars, lifeVars, Goto, Takes
<1>acceptor. Acceptor \in Threads /\ Workers \subseteq Threads
  BY DEF Threads
<1>types. /\ at \in [Threads -> EngineLocs]
          /\ cur \in [Threads -> Sessions \cup {NoSession}]
  BY DEF IInv, TypeOK
<1>1. ASSUME NEW t \in Threads,
             \/ PostRecv(t) \/ WSARecvPends(t) \/ WSARecvError(t) \/ DropRef(t)
             \/ CloseSocket(t) \/ EraseFromMap(t)
      PROVE  MarksOff
  <2>1. /\ \A u \in Threads \ {t} : at'[u] = at[u] /\ cur'[u] = cur[u]
        /\ UNCHANGED status
    BY <1>1, <1>types
    DEF PostRecv, WSARecvPends, WSARecvError, DropRef, CloseSocket, EraseFromMap
  <2>2. at[t] \notin MarkLocs /\ at'[t] \notin MarkLocs
    BY <1>1, <1>types
    DEF PostRecv, WSARecvPends, WSARecvError, DropRef, CloseSocket, EraseFromMap, Idle,
        MarkLocs, Callbacks
  <2> QED
    BY <2>1, <2>2 DEF MarksOff
<1>2. ASSUME NEW w \in Workers,
             \/ DequeueStep(w) \/ ParseEnds(w) \/ MoveFront(w) \/ ClearWait(w)
             \/ LoadRear(w) \/ LoadFront(w) \/ TakeToken(w) \/ Peek(w)
             \/ GiveUp(w) \/ PrepareSend(w) \/ WSASendPends(w) \/ WSASendError(w)
      PROVE  MarksOff
  <2>1. /\ \A u \in Threads \ {w} : at'[u] = at[u] /\ cur'[u] = cur[u]
        /\ UNCHANGED status
    BY <1>2, <1>types, <1>acceptor
    DEF DequeueStep, DequeueRecv, DequeueRecvEnd, DequeueSend, DequeueSendEnd,
        DequeueFailedPost, ParseEnds, MoveFront, ClearWait, LoadRear, LoadFront, TakeToken,
        Peek, GiveUp, PrepareSend, WSASendPends, WSASendError
  <2>2. at[w] \notin MarkLocs /\ at'[w] \notin MarkLocs
    BY <1>2, <1>types, <1>acceptor
    DEF DequeueStep, DequeueRecv, DequeueRecvEnd, DequeueSend, DequeueSendEnd,
        DequeueFailedPost, ParseEnds, MoveFront, ClearWait, LoadRear, LoadFront, TakeToken,
        Peek, GiveUp, PrepareSend, WSASendPends, WSASendError, MarkLocs, Callbacks
  <2> QED
    BY <2>1, <2>2, <1>acceptor DEF MarksOff
<1>3. ASSUME NEW t \in Threads, StartStep(t) \/ CallStep(t)
      PROVE  MarksOff
  <2>1. UNCHANGED <<at, cur, status>>
    BY <1>3
    DEF StartStep, SendPacket, Disconnect, StartCall, CallStep, Lookup, LockTarget, Unlock,
        RefusePacket, EnqueueHeader, EnqueuePayload, SendTakeToken, SendIncr, SendUndo,
        SendPrepare, SendClear, SendWSAPends, SendWSAError, SendPost, DiscExchange, DiscCancel
  <2> QED
    BY <2>1 DEF MarksOff
<1>4. ASSUME NEW s \in Sessions, KernelCompletes(s) \/ PeerStep(s)
      PROVE  MarksOff
  <2>1. UNCHANGED <<at, cur, status>>
    BY <1>4 DEF KernelCompletes, RecvEnds, SendEnds, PeerStep, RecvArrives, PeerLeaves
  <2> QED
    BY <2>1 DEF MarksOff
<1>5. CASE UNCHANGED vars
  BY <1>5 DEF vars, MarksOff
<1> QED
  BY <1>1, <1>2, <1>3, <1>4, <1>5
  DEF Next, Rest, SharedStep, WorkerStep, MarksStep

\* Each callback starts and returns as the contract says.
LEMMA ContractStep ==
  ASSUME IInv, PhaseLaw, PhaseLaw', [Next]_vars
  PROVE  [Contract!Next]_[s \in Sessions |-> Phase(s)]
<1> USE DEF engineVars, lifeVars, Goto
<1>acceptor. Acceptor \in Threads /\ Workers \subseteq Threads
  BY DEF Threads
<1>types. /\ at \in [Threads -> EngineLocs]
          /\ cur \in [Threads -> Sessions \cup {NoSession}]
          /\ status \in [Sessions -> {"unborn", "live", "freed"}]
  BY DEF IInv, TypeOK
<1>held. /\ \A t \in Threads :
              at[t] \in MarkLocs \cup ReleaseLocs \cup ReceiverLocs => cur[t] \in Sessions
         /\ \A t \in Threads : cur[t] \in Sessions => status[cur[t]] = "live"
  BY DEF IInv, LocInv, LifeInv, MarkLocs, Callbacks, ReceiverLocs, LoopRefLocs, ReleaseLocs
<1>same. ASSUME \A s \in Sessions : Phase(s)' = Phase(s)
         PROVE  [Contract!Next]_[s \in Sessions |-> Phase(s)]
  BY <1>same
\* One thread t moves at its session s, and the phases are those of its marks.
<1>move. ASSUME NEW t \in Threads, NEW s \in Sessions,
                \A u \in Threads \ {t} : at'[u] = at[u] /\ cur'[u] = cur[u],
                cur[t] \in {s, NoSession}, cur'[t] \in {s, NoSession},
                \A r \in Sessions \ {s} : status'[r] = status[r]
         PROVE  \A r \in Sessions \ {s} : Phase(r)' = Phase(r)
  <2> SUFFICES ASSUME NEW r \in Sessions \ {s} PROVE Phase(r)' = Phase(r)
    OBVIOUS
  <2>1. \A u \in Threads : (Marked(u, r) \/ Marked(u, r)') => u # t
    BY <1>move, ValuesAssumption DEF Marked
  <2> QED
    BY <1>move, <2>1, PhaseStays
<1>1. ASSUME NEW s \in Sessions, NEW h \in Handles, CreateSession(s, h)
      PROVE  [Contract!Next]_[r \in Sessions |-> Phase(r)]
  <2>1. /\ \A u \in Threads \ {Acceptor} : at'[u] = at[u] /\ cur'[u] = cur[u]
        /\ cur[Acceptor] = NoSession /\ cur'[Acceptor] = s
        /\ at'[Acceptor] = "created"
        /\ \A r \in Sessions \ {s} : status'[r] = status[r]
        /\ status[s] = "unborn"
    BY <1>1, <1>acceptor, <1>types DEF CreateSession, IInv, LocInv
  <2>2. \A u \in Threads : ~Marked(u, s)
    BY <2>1, <1>held DEF Marked
  <2>3. Phase(s) = "none"
    BY <2>1, <2>2 DEF PhaseLaw, PhaseOf
  <2>4. Phase(s)' = "none"
    BY <2>1, <1>acceptor DEF PhaseLaw, PhaseAt, Marked, MarkLocs
  <2>5. \A r \in Sessions \ {s} : Phase(r)' = Phase(r)
    BY <1>move, <2>1, <1>acceptor
  <2> QED
    BY <1>same, <2>3, <2>4, <2>5
\* A step of t from one location to the next at its session.
<1>at. ASSUME NEW t \in Threads, NEW s \in Sessions, cur[t] = s,
              at[t] \in ReceiverLocs \cup ReleaseLocs,
              \A u \in Threads \ {t} : at'[u] = at[u] /\ cur'[u] = cur[u],
              cur'[t] \in {s, NoSession},
              \A r \in Sessions \ {s} : status'[r] = status[r]
       PROVE  /\ \A r \in Sessions \ {s} : Phase(r)' = Phase(r)
              /\ Phase(s) = IF at[t] \in MarkLocs THEN PhaseAt(at[t]) ELSE "open"
              /\ Phase(s)' = IF Marked(t, s)' THEN PhaseAt(at'[t]) ELSE PhaseOf(status'[s])
  <2>1. \A r \in Sessions \ {s} : Phase(r)' = Phase(r)
    BY <1>at, <1>move
  <2>2. \A u \in Threads \ {t} : ~Marked(u, s)
    BY <1>at, OneMark
  <2>3. \A u \in Threads \ {t} : ~Marked(u, s)'
    BY <1>at, <2>2 DEF Marked
  <2>4. status[s] = "live"
    BY <1>at, <1>held
  <2>5. Phase(s) = IF at[t] \in MarkLocs THEN PhaseAt(at[t]) ELSE "open"
    BY <1>at, <2>2, <2>4 DEF PhaseLaw, PhaseOf, Marked
  <2>6. Phase(s)' = IF Marked(t, s)' THEN PhaseAt(at'[t]) ELSE PhaseOf(status'[s])
    BY <2>3 DEF PhaseLaw
  <2> QED
    BY <2>1, <2>5, <2>6
<1>2. CASE AcceptRef
  <2>1. PICK s \in Sessions : s = cur[Acceptor]
    BY <1>2, <1>acceptor, <1>held DEF AcceptRef, MarkLocs
  <2>2. /\ at[Acceptor] = "created" /\ at'[Acceptor] = "onAccept"
        /\ \A u \in Threads \ {Acceptor} : at'[u] = at[u] /\ cur'[u] = cur[u]
        /\ UNCHANGED <<cur, status>>
    BY <1>2, <1>acceptor, <1>types DEF AcceptRef
  <2>3. /\ \A r \in Sessions \ {s} : Phase(r)' = Phase(r)
        /\ Phase(s) = "none" /\ Phase(s)' = "accepting"
    BY <2>1, <2>2, <1>acceptor, <1>at DEF ReceiverLocs, Marked, MarkLocs, Callbacks, PhaseAt
  <2>4. Contract!OnAcceptStarts(s)
    BY <2>3, OnePhase DEF Contract!OnAcceptStarts
  <2> QED
    BY <2>4 DEF Contract!Next
<1>3. ASSUME NEW t \in Threads, CallbackReturns(t)
      PROVE  [Contract!Next]_[s \in Sessions |-> Phase(s)]
  <2>1. PICK s \in Sessions : s = cur[t]
    BY <1>3, <1>held DEF CallbackReturns, MarkLocs
  <2>2. /\ at[t] \in Callbacks /\ at'[t] = AfterCallback(at[t])
        /\ \A u \in Threads \ {t} : at'[u] = at[u] /\ cur'[u] = cur[u]
        /\ UNCHANGED <<cur, status>>
        /\ status[s] = "live"
    BY <1>3, <2>1, <1>types, <1>held DEF CallbackReturns
  <2>3. CASE at[t] = "onAccept"
    <3>1. /\ \A r \in Sessions \ {s} : Phase(r)' = Phase(r)
          /\ Phase(s) = "accepting" /\ Phase(s)' = "open"
      BY <2>1, <2>2, <2>3, <1>at
      DEF ReceiverLocs, Marked, MarkLocs, Callbacks, PhaseAt, PhaseOf, AfterCallback
    <3>2. Contract!OnAcceptReturns(s)
      BY <3>1, OnePhase DEF Contract!OnAcceptReturns
    <3> QED
      BY <3>2 DEF Contract!Next
  <2>4. CASE at[t] = "onRecv"
    <3>1. /\ \A r \in Sessions \ {s} : Phase(r)' = Phase(r)
          /\ Phase(s) = "receiving" /\ Phase(s)' = "open"
      BY <2>1, <2>2, <2>4, <1>at
      DEF ReceiverLocs, Marked, MarkLocs, Callbacks, PhaseAt, PhaseOf, AfterCallback
    <3>2. Contract!OnRecvReturns(s)
      BY <3>1, OnePhase DEF Contract!OnRecvReturns
    <3> QED
      BY <3>2 DEF Contract!Next
  <2>5. CASE at[t] = "onRelease"
    <3>1. /\ \A r \in Sessions \ {s} : Phase(r)' = Phase(r)
          /\ Phase(s) = "releasing" /\ Phase(s)' = "released"
      BY <2>1, <2>2, <2>5, <1>at
      DEF ReleaseLocs, Marked, MarkLocs, Callbacks, PhaseAt, AfterCallback
    <3>2. Contract!OnReleaseReturns(s)
      BY <3>1, OnePhase DEF Contract!OnReleaseReturns
    <3> QED
      BY <3>2 DEF Contract!Next
  <2> QED
    BY <2>2, <2>3, <2>4, <2>5 DEF Callbacks
<1>4. ASSUME NEW w \in Workers, ParsePacket(w)
      PROVE  [Contract!Next]_[s \in Sessions |-> Phase(s)]
  <2>1. PICK s \in Sessions : s = cur[w]
    BY <1>4, <1>acceptor, <1>held DEF ParsePacket, ReceiverLocs
  <2>2. /\ at[w] = "parse" /\ at'[w] = "onRecv"
        /\ \A u \in Threads \ {w} : at'[u] = at[u] /\ cur'[u] = cur[u]
        /\ UNCHANGED <<cur, status>>
    BY <1>4, <1>acceptor, <1>types DEF ParsePacket
  <2>3. /\ \A r \in Sessions \ {s} : Phase(r)' = Phase(r)
        /\ Phase(s) = "open" /\ Phase(s)' = "receiving"
    BY <2>1, <2>2, <1>acceptor, <1>at DEF ReceiverLocs, Marked, MarkLocs, Callbacks, PhaseAt
  <2>4. Contract!OnRecvStarts(s)
    BY <2>3, OnePhase DEF Contract!OnRecvStarts
  <2> QED
    BY <2>4 DEF Contract!Next
<1>5. ASSUME NEW t \in Threads, LockForRelease(t)
      PROVE  [Contract!Next]_[s \in Sessions |-> Phase(s)]
  <2>1. PICK s \in Sessions : s = cur[t]
    BY <1>5, <1>held DEF LockForRelease, ReleaseLocs
  <2>2. /\ at[t] = "relLock" /\ at'[t] = "onRelease"
        /\ \A u \in Threads \ {t} : at'[u] = at[u] /\ cur'[u] = cur[u]
        /\ UNCHANGED <<cur, status>>
    BY <1>5, <1>types DEF LockForRelease
  <2>3. /\ \A r \in Sessions \ {s} : Phase(r)' = Phase(r)
        /\ Phase(s) = "open" /\ Phase(s)' = "releasing"
    BY <2>1, <2>2, <1>at DEF ReleaseLocs, Marked, MarkLocs, Callbacks, PhaseAt
  <2>4. Contract!OnReleaseStarts(s)
    BY <2>3, OnePhase DEF Contract!OnReleaseStarts
  <2> QED
    BY <2>4 DEF Contract!Next
<1>6. ASSUME NEW t \in Threads, UnlockReleased(t) \/ DeleteSession(t)
      PROVE  [Contract!Next]_[s \in Sessions |-> Phase(s)]
  <2>1. PICK s \in Sessions : s = cur[t]
    BY <1>6, <1>held DEF UnlockReleased, DeleteSession, ReleaseLocs
  <2>2. /\ at[t] \in {"relUnlock", "relDelete"}
        /\ \A u \in Threads \ {t} : at'[u] = at[u] /\ cur'[u] = cur[u]
        /\ \/ at'[t] = "relDelete" /\ cur'[t] = s
           \/ cur'[t] = NoSession /\ status'[s] = "freed"
        /\ \A r \in Sessions \ {s} : status'[r] = status[r]
    BY <1>6, <2>1, <1>types DEF UnlockReleased, DeleteSession
  <2>3. /\ \A r \in Sessions \ {s} : Phase(r)' = Phase(r)
        /\ Phase(s) = "released" /\ Phase(s)' = "released"
    BY <2>1, <2>2, <1>at, ValuesAssumption
    DEF ReleaseLocs, Marked, MarkLocs, Callbacks, PhaseAt, PhaseOf
  <2> QED
    BY <2>3, <1>same
<1>7. CASE MarksOff
  <2>1. \A s \in Sessions : Phase(s)' = Phase(s)
    BY <1>7, PhaseStays DEF MarksOff, Marked
  <2> QED
    BY <2>1, <1>same
<1> QED
  BY <1>1, <1>2, <1>3, <1>4, <1>5, <1>6, <1>7, MarksOffOrStep DEF MarksStep, AcceptStep

\* The engine implements SessionContract: OnAccept once and first, OnRecv one
\* at a time, OnRelease once and last, for every session.
THEOREM EngineKeepsContract == Spec => KeepsContract
<1>1. Init => Contract!Init
  <2> SUFFICES ASSUME Init PROVE Contract!Init
    OBVIOUS
  <2>1. IInv
    BY InitInv
  <2>2. \A s \in Sessions, t \in Threads : ~Marked(t, s)
    BY ValuesAssumption DEF Init, Marked
  <2>3. \A s \in Sessions : Phase(s) = "none"
    BY <2>1, <2>2, PhaseLawHolds DEF PhaseLaw, PhaseOf, Init
  <2> QED
    BY <2>3 DEF Contract!Init
<1>2. IInv => PhaseLaw
  BY PhaseLawHolds
<1>3. IInv /\ PhaseLaw /\ PhaseLaw' /\ [Next]_vars =>
        [Contract!Next]_[s \in Sessions |-> Phase(s)]
  BY ContractStep
<1> QED
  BY <1>1, <1>2, <1>3, Invariance, PTL DEF Spec, KeepsContract, Contract!Spec

-----------------------------------------------------------------------------
\* SendTokenNotLost.

\* A session whose socket accepts no WSASend and no WSARecv is gone.
LEMMA RefusedIsGone ==
  ASSUME IInv, SocketInv, LoadedInv, NEW t \in Threads, NEW s \in Sessions,
         \/ at[t] \in PostRefLocs /\ cur[t] = s
         \/ call[t] = "sendWSA" /\ target[t] = s,
         ~SocketAccepts(t, s)
  PROVE  Gone(s)
<1>1. CASE handle[t] = InvalidSocket
  BY <1>1 DEF LoadedInv
<1>2. CASE handle[t] # InvalidSocket
  <2>1. call[t] = "sendWSA" => at[t] \notin PostRefLocs
    BY DEF IInv, LocInv, PostRefLocs, Callbacks
  <2>2. socketOpen[s]
    BY <1>2, <2>1, HandlesAreOpen DEF HandleStillOpen
  <2> QED
    BY <1>2, <2>2 DEF SocketAccepts, Gone
<1> QED
  BY <1>1, <1>2

\* What a step never does to a session that was accepted.
StaysGone ==
  \A s \in Sessions : status[s] # "unborn" =>
    /\ Gone(s) => Gone(s)'
    /\ socketForWSACall[s] = InvalidSocket => socketForWSACall'[s] = InvalidSocket
    /\ status'[s] # "unborn"
    /\ Releasers(s) # {} => Releasers(s)' # {} \/ status'[s] # "live"

\* What is gone stays gone, and a releaser stays until the session is deleted.
LEMMA GoneStays ==
  ASSUME IInv, [Next]_vars
  PROVE  StaysGone
<1>released. ASSUME NEW s \in Sessions, NEW t \in Releasers(s)
             PROVE  t \in Releasers(s)' \/ status'[s] # "live"
  BY <1>released, StepEffect, ReleaserStays
<1> SUFFICES ASSUME NEW s \in Sessions, status[s] # "unborn"
             PROVE  /\ conn[s] # "up" => conn'[s] # "up"
                    /\ socketForWSACall[s] = InvalidSocket =>
                         socketForWSACall'[s] = InvalidSocket
                    /\ status'[s] # "unborn"
  BY <1>released DEF StaysGone, Gone
<1> USE DEF engineVars, callVars, loadVars, tableVars, lifeVars, recvVars,
            ringVars, sendVars
<1>types. /\ socketForWSACall \in [Sessions -> Handles \cup {InvalidSocket}]
          /\ conn \in [Sessions -> {"up", "closed", "reset"}]
          /\ status \in [Sessions -> {"unborn", "live", "freed"}]
  BY DEF IInv, TypeOK
<1>1. ASSUME NEW v \in Sessions, NEW h \in Handles, CreateSession(v, h)
      PROVE  /\ UNCHANGED conn
             /\ socketForWSACall'[s] = socketForWSACall[s]
             /\ status'[s] = status[s]
  BY <1>1, <1>types DEF CreateSession
<1>2. ASSUME NEW t \in Threads, DiscExchange(t)
      PROVE  /\ UNCHANGED <<conn, status>>
             /\ socketForWSACall'[s] \in {socketForWSACall[s], InvalidSocket}
  BY <1>2, <1>types DEF DiscExchange
<1>3. ASSUME NEW v \in Sessions, NEW how \in {"closed", "reset"}, PeerLeaves(v, how)
      PROVE  /\ UNCHANGED <<socketForWSACall, status>>
             /\ conn[s] # "up" => conn'[s] # "up"
  BY <1>3, <1>types DEF PeerLeaves
<1>4. ASSUME NEW t \in Threads, DeleteSession(t)
      PROVE  UNCHANGED <<socketForWSACall, conn>> /\ status'[s] # "unborn"
  BY <1>4, <1>types DEF DeleteSession
<1>5. ASSUME NEW t \in Threads, SharedStep(t)
      PROVE  DeleteSession(t) \/ UNCHANGED <<socketForWSACall, conn, status>>
  BY <1>5 DEF SharedStep, CallbackReturns, PostRecv, WSARecvPends, WSARecvError, DropRef,
              CloseSocket, EraseFromMap, LockForRelease, UnlockReleased
<1>6. ASSUME NEW t \in Threads, CallStep(t)
      PROVE  DiscExchange(t) \/ UNCHANGED <<socketForWSACall, conn, status>>
  BY <1>6 DEF CallStep, Lookup, LockTarget, Unlock, RefusePacket, EnqueueHeader,
              EnqueuePayload, SendTakeToken, SendIncr, SendUndo, SendPrepare, SendClear,
              SendWSAPends, SendWSAError, SendPost, DiscCancel
<1>7. ASSUME NEW w \in Workers, WorkerStep(w)
      PROVE  UNCHANGED <<socketForWSACall, conn, status>>
  BY <1>7 DEF WorkerStep, DequeueStep, DequeueRecv, DequeueRecvEnd, DequeueSend,
              DequeueSendEnd, DequeueFailedPost, ParsePacket, ParseEnds, MoveFront,
              ClearWait, LoadRear, LoadFront, TakeToken, Peek, GiveUp, PrepareSend,
              WSASendPends, WSASendError
<1>8. ASSUME NEW t \in Threads, StartStep(t)
      PROVE  UNCHANGED <<socketForWSACall, conn, status>>
  BY <1>8 DEF StartStep, SendPacket, Disconnect, StartCall
<1>9. ASSUME NEW v \in Sessions, KernelCompletes(v) \/ PeerStep(v)
      PROVE  \/ \E how \in {"closed", "reset"} : PeerLeaves(v, how)
             \/ UNCHANGED <<socketForWSACall, conn, status>>
  BY <1>9 DEF KernelCompletes, PeerStep, RecvEnds, SendEnds, RecvArrives
<1>10. CASE AcceptRef \/ UNCHANGED vars
  BY <1>10 DEF AcceptRef, vars
<1> QED
  BY <1>1, <1>2, <1>3, <1>4, <1>5, <1>6, <1>7, <1>8, <1>9, <1>10
  DEF Next, AcceptStep, Rest

\* A session whose send and token holders a step leaves alone keeps its token.
LEMMA KeptFrame ==
  ASSUME NEW s \in Sessions, KeptAt(s), StaysGone,
         status'[s] = "live" => status[s] \in {"unborn", "live"},
         bWaitSend'[s] => bWaitSend[s],
         sendIO[s] \in {"pending", "done"} => sendIO'[s] \in {"pending", "done"},
         \A t \in Threads : HasToken(t, s) => HasToken(t, s)'
  PROVE  KeptAt(s)'
  BY DEF KeptAt, StaysGone

\* The same for a step that changes nothing of the sends.
LEMMA KeptOff ==
  ASSUME TokenKeptInv, StaysGone,
         \A s \in Sessions : status'[s] = "live" => status[s] \in {"unborn", "live"},
         UNCHANGED <<bWaitSend, sendIO>>,
         \A t \in Threads :
           at[t] \in TokenLocs => at'[t] \in TokenLocs /\ cur'[t] = cur[t],
         \A t \in Threads :
           call[t] \in CallTokenLocs => call'[t] \in CallTokenLocs /\ target'[t] = target[t]
  PROVE  TokenKeptInv'
<1>1. \A s \in Sessions, t \in Threads : HasToken(t, s) => HasToken(t, s)'
  BY DEF HasToken
<1> QED
  BY <1>1, KeptFrame DEF TokenKeptInv

\* Of the steps of a loop, the one thread that moves has no token or keeps it.
LEMMA KeptLoopOff ==
  ASSUME TokenKeptInv, StaysGone, NEW t \in Threads,
         \A u \in Threads \ {t} : at'[u] = at[u] /\ cur'[u] = cur[u],
         at[t] \notin TokenLocs \/ (at'[t] \in TokenLocs /\ cur'[t] = cur[t]),
         \A s \in Sessions : status'[s] = "live" => status[s] \in {"unborn", "live"},
         UNCHANGED <<bWaitSend, sendIO, call, target>>
  PROVE  TokenKeptInv'
<1>1. \A u \in Threads :
        at[u] \in TokenLocs => at'[u] \in TokenLocs /\ cur'[u] = cur[u]
  OBVIOUS
<1> QED
  BY <1>1, KeptOff

\* The same for a call of SendPacket or Disconnect.
LEMMA KeptCallOff ==
  ASSUME TokenKeptInv, StaysGone, NEW t \in Threads,
         \A u \in Threads \ {t} : call'[u] = call[u] /\ target'[u] = target[u],
         \/ call[t] \notin CallTokenLocs
         \/ call'[t] \in CallTokenLocs /\ target'[t] = target[t],
         UNCHANGED <<bWaitSend, sendIO, at, cur, status>>
  PROVE  TokenKeptInv'
<1>1. \A u \in Threads :
        call[u] \in CallTokenLocs => call'[u] \in CallTokenLocs /\ target'[u] = target[u]
  OBVIOUS
<1> QED
  BY <1>1, KeptOff DEF TokenKeptInv, KeptAt

\* A step that concerns the send of v only: the other sessions keep theirs,
\* and v does when it is gone, is being released, is being sent on, has its
\* token taken, or has bWaitSend clear.
LEMMA KeptAtOne ==
  ASSUME TokenKeptInv, StaysGone, NEW v \in Sessions, status[v] # "unborn",
         UNCHANGED status,
         \A s \in Sessions \ {v} :
           /\ bWaitSend'[s] = bWaitSend[s]
           /\ sendIO'[s] = sendIO[s]
           /\ \A t \in Threads : HasToken(t, s) => HasToken(t, s)',
         \/ Gone(v)
         \/ Releasers(v) # {}
         \/ sendIO'[v] \in {"pending", "done"}
         \/ \E t \in Threads : HasToken(t, v)'
         \/ ~bWaitSend'[v]
  PROVE  TokenKeptInv'
<1>1. \A s \in Sessions \ {v} : KeptAt(s)'
  BY KeptFrame DEF TokenKeptInv
<1>2. KeptAt(v)'
  BY DEF KeptAt, StaysGone
<1> QED
  BY <1>1, <1>2 DEF TokenKeptInv

\* A step of the loop of t that concerns the send of its session only.
LEMMA KeptLoopOne ==
  ASSUME TokenKeptInv, StaysGone, NEW t \in Threads, NEW v \in Sessions,
         status[v] # "unborn", cur[t] \in {v, NoSession}, cur'[t] \in {v, NoSession},
         \A u \in Threads \ {t} : at'[u] = at[u] /\ cur'[u] = cur[u],
         UNCHANGED <<status, call, target>>,
         \A s \in Sessions \ {v} :
           bWaitSend'[s] = bWaitSend[s] /\ sendIO'[s] = sendIO[s],
         \/ Gone(v)
         \/ sendIO'[v] \in {"pending", "done"}
         \/ at'[t] \in TokenLocs /\ cur'[t] = v
         \/ ~bWaitSend'[v]
  PROVE  TokenKeptInv'
<1>1. \A s \in Sessions \ {v}, u \in Threads : HasToken(u, s) => HasToken(u, s)'
  BY ValuesAssumption DEF HasToken
<1>2. at'[t] \in TokenLocs /\ cur'[t] = v => HasToken(t, v)'
  BY DEF HasToken
<1> QED
  BY <1>1, <1>2, KeptAtOne

\* A step of the call of t that concerns the send of its target only.
LEMMA KeptCallOne ==
  ASSUME TokenKeptInv, StaysGone, NEW t \in Threads, NEW v \in Sessions,
         status[v] # "unborn", target[t] = v,
         \A u \in Threads \ {t} : call'[u] = call[u],
         UNCHANGED <<status, at, cur, target>>,
         \A s \in Sessions \ {v} :
           bWaitSend'[s] = bWaitSend[s] /\ sendIO'[s] = sendIO[s],
         \/ Gone(v)
         \/ Releasers(v) # {}
         \/ sendIO'[v] \in {"pending", "done"}
         \/ call'[t] \in CallTokenLocs
         \/ ~bWaitSend'[v]
  PROVE  TokenKeptInv'
<1>1. \A s \in Sessions \ {v}, u \in Threads : HasToken(u, s) => HasToken(u, s)'
  BY DEF HasToken
<1>2. call'[t] \in CallTokenLocs => HasToken(t, v)'
  BY DEF HasToken
<1> QED
  BY <1>1, <1>2, KeptAtOne

\* Nobody leaves bWaitSend set behind on a session that is neither gone nor
\* being released.
LEMMA TokenKeptStep ==
  ASSUME WholeInv, KeptInv, CancelsOwn, SendsMayFail = FALSE, [Next]_vars
  PROVE  TokenKeptInv'
<1> USE DEF engineVars, callVars, loadVars, tableVars, lifeVars, recvVars,
            ringVars, sendVars, Goto, GotoCall, Incr, Decr, Takes
<1>acceptor. Acceptor \in Threads /\ Workers \subseteq Threads
  BY DEF Threads
<1>inv. /\ IInv /\ SocketInv /\ LoadedInv /\ TokenKeptInv
        /\ StaysGone
  BY GoneStays DEF WholeInv, KeptInv
<1>types. /\ at \in [Threads -> EngineLocs] /\ call \in [Threads -> CallLocs]
          /\ cur \in [Threads -> Sessions \cup {NoSession}]
          /\ target \in [Threads -> Sessions \cup {NoSession}]
          /\ status \in [Sessions -> {"unborn", "live", "freed"}]
          /\ bWaitSend \in [Sessions -> BOOLEAN]
          /\ sendIO \in [Sessions -> {"none", "pending", "done", "failed", "aborted"}]
  BY <1>inv DEF IInv, TypeOK
<1>loop. ASSUME NEW t \in Threads, at[t] \in LoopRefLocs
         PROVE  cur[t] \in Sessions /\ status[cur[t]] # "unborn"
  BY <1>loop, <1>inv DEF IInv, LocInv, LifeInv
<1>call. ASSUME NEW t \in Threads, call[t] # "none"
         PROVE  target[t] \in Sessions /\ status[target[t]] # "unborn"
  BY <1>call, <1>inv DEF IInv, LocInv, LifeInv
<1>1. ASSUME NEW s \in Sessions, NEW h \in Handles, CreateSession(s, h)
      PROVE  TokenKeptInv'
  <2>1. /\ at[Acceptor] = "accept" /\ status[s] = "unborn"
        /\ \A u \in Threads \ {Acceptor} : at'[u] = at[u] /\ cur'[u] = cur[u]
        /\ \A v \in Sessions \ {s} : status'[v] = status[v]
        /\ UNCHANGED <<bWaitSend, sendIO, call, target>>
    BY <1>1, <1>acceptor, <1>types DEF CreateSession
  <2> QED
    BY <2>1, <1>acceptor, <1>inv, KeptLoopOff DEF TokenLocs
<1>2. CASE AcceptRef
  BY <1>2, <1>acceptor, <1>types, <1>inv, KeptLoopOff DEF AcceptRef, TokenLocs
<1>3. ASSUME NEW t \in Threads,
             \/ CallbackReturns(t) \/ PostRecv(t) \/ WSARecvPends(t) \/ WSARecvError(t)
             \/ DropRef(t) \/ CloseSocket(t) \/ EraseFromMap(t) \/ LockForRelease(t)
             \/ UnlockReleased(t)
      PROVE  TokenKeptInv'
  BY <1>3, <1>types, <1>inv, KeptLoopOff
  DEF CallbackReturns, Callbacks, PostRecv, WSARecvPends, WSARecvError, DropRef,
      CloseSocket, EraseFromMap, LockForRelease, UnlockReleased, TokenLocs
<1>4. ASSUME NEW t \in Threads, DeleteSession(t)
      PROVE  TokenKeptInv'
  <2>1. \A s \in Sessions : status'[s] = "live" => status[s] \in {"unborn", "live"}
    BY <1>4, <1>types DEF DeleteSession
  <2> QED
    BY <1>4, <2>1, <1>types, <1>inv, KeptLoopOff DEF DeleteSession, TokenLocs
<1>5. ASSUME NEW w \in Workers, NEW s \in Sessions,
             DequeueRecv(w, s) \/ DequeueRecvEnd(w, s) \/ DequeueFailedPost(w, s)
      PROVE  TokenKeptInv'
  BY <1>5, <1>acceptor, <1>types, <1>inv, KeptLoopOff
  DEF DequeueRecv, DequeueRecvEnd, DequeueFailedPost, TokenLocs
<1>6. ASSUME NEW s \in Sessions, sendIO[s] # "none"
      PROVE  status[s] # "unborn"
  BY <1>6, <1>inv DEF IInv, LifeInv
<1>7. ASSUME NEW w \in Workers, NEW s \in Sessions, DequeueSend(w, s)
      PROVE  TokenKeptInv'
  <2>1. /\ at[w] = "wait" /\ cur[w] = NoSession
        /\ at'[w] = "moveFront" /\ cur'[w] = s
        /\ \A u \in Threads \ {w} : at'[u] = at[u] /\ cur'[u] = cur[u]
        /\ \A v \in Sessions \ {s} : bWaitSend'[v] = bWaitSend[v] /\ sendIO'[v] = sendIO[v]
        /\ UNCHANGED <<status, call, target>>
    BY <1>7, <1>acceptor, <1>types, <1>inv DEF DequeueSend, IInv, LocInv
  <2>2. status[s] # "unborn"
    BY <1>6, <1>7 DEF DequeueSend
  <2> QED
    BY <2>1, <2>2, <1>acceptor, <1>inv, KeptLoopOne DEF TokenLocs
<1>8. ASSUME NEW w \in Workers, NEW s \in Sessions, DequeueSendEnd(w, s)
      PROVE  TokenKeptInv'
  <2>1. /\ at[w] = "wait" /\ sendIO[s] \notin {"none", "pending", "done"}
        /\ \A u \in Threads \ {w} : at'[u] = at[u] /\ cur'[u] = cur[u]
        /\ \A v \in Sessions : sendIO[v] \in {"pending", "done"} => sendIO'[v] = sendIO[v]
        /\ UNCHANGED <<status, call, target, bWaitSend>>
    BY <1>8, <1>acceptor, <1>types DEF DequeueSendEnd
  <2>2. \A v \in Sessions, t \in Threads : HasToken(t, v) => HasToken(t, v)'
    BY <2>1 DEF HasToken, TokenLocs
  <2> QED
    BY <2>1, <2>2, <1>inv, KeptFrame DEF TokenKeptInv
<1>9. ASSUME NEW w \in Workers,
             \/ ParsePacket(w) \/ ParseEnds(w) \/ MoveFront(w) \/ LoadRear(w)
             \/ LoadFront(w) \/ Peek(w)
      PROVE  TokenKeptInv'
  BY <1>9, <1>acceptor, <1>types, <1>inv, KeptLoopOff
  DEF ParsePacket, ParseEnds, MoveFront, LoadRear, LoadFront, Peek, TokenLocs
<1>10. ASSUME NEW w \in Workers, ClearWait(w) \/ GiveUp(w)
       PROVE  TokenKeptInv'
  <2>1. cur[w] \in Sessions /\ status[cur[w]] # "unborn"
    BY <1>10, <1>acceptor, <1>loop DEF ClearWait, GiveUp, LoopRefLocs
  <2> QED
    BY <1>10, <2>1, <1>acceptor, <1>types, <1>inv, KeptLoopOne DEF ClearWait, GiveUp
<1>11. ASSUME NEW w \in Workers, TakeToken(w)
       PROVE  TokenKeptInv'
  <2>1. cur[w] \in Sessions /\ status[cur[w]] # "unborn"
    BY <1>11, <1>acceptor, <1>loop DEF TakeToken, LoopRefLocs
  <2>2. CASE bWaitSend[cur[w]]
    <3>1. bWaitSend' = bWaitSend
      BY <1>11, <2>1, <2>2, <1>types DEF TakeToken
    <3> QED
      BY <1>11, <3>1, <1>acceptor, <1>types, <1>inv, KeptLoopOff DEF TakeToken, TokenLocs
  <2>3. CASE ~bWaitSend[cur[w]]
    BY <1>11, <2>1, <2>3, <1>acceptor, <1>types, <1>inv, KeptLoopOne
    DEF TakeToken, TokenLocs
  <2> QED
    BY <2>2, <2>3
<1>12. ASSUME NEW w \in Workers, PrepareSend(w)
       PROVE  TokenKeptInv'
  <2>1. cur[w] \in Sessions
    BY <1>12, <1>acceptor, <1>loop DEF PrepareSend, LoopRefLocs
  <2>2. w \in LoopRefs(cur[w])
    BY <1>12, <1>acceptor DEF PrepareSend, LoopRefs, LoopRefLocs
  <2>3. overlappedIOCnt[cur[w]] # 0
    BY <2>1, <2>2, <1>inv, CountPositive DEF IInv
  <2> QED
    BY <1>12, <2>3, <1>acceptor, <1>types, <1>inv, KeptLoopOff DEF PrepareSend, TokenLocs
<1>13. ASSUME NEW w \in Workers, WSASendPends(w)
       PROVE  TokenKeptInv'
  <2>1. cur[w] \in Sessions /\ status[cur[w]] # "unborn"
    BY <1>13, <1>acceptor, <1>loop DEF WSASendPends, LoopRefLocs
  <2> QED
    BY <1>13, <2>1, <1>acceptor, <1>types, <1>inv, KeptLoopOne DEF WSASendPends
<1>14. ASSUME NEW w \in Workers, WSASendError(w)
       PROVE  TokenKeptInv'
  <2>1. cur[w] \in Sessions /\ status[cur[w]] # "unborn"
    BY <1>14, <1>acceptor, <1>loop DEF WSASendError, LoopRefLocs
  <2>2. Gone(cur[w])
    BY <1>14, <2>1, <1>acceptor, <1>inv, RefusedIsGone DEF WSASendError, PostRefLocs
  <2> QED
    BY <1>14, <2>1, <2>2, <1>acceptor, <1>types, <1>inv, KeptLoopOne DEF WSASendError
<1>15. ASSUME NEW t \in Threads, StartStep(t)
       PROVE  TokenKeptInv'
  BY <1>15, <1>types, <1>inv, KeptCallOff
  DEF StartStep, SendPacket, Disconnect, StartCall, CallTokenLocs
<1>16. ASSUME NEW t \in Threads,
              \/ Lookup(t, "sendLookup", "sendLock") \/ Lookup(t, "discLookup", "discLock")
              \/ LockTarget(t, "sendLock", "sendCheck")
              \/ LockTarget(t, "discLock", "discExchange")
              \/ Unlock(t) \/ RefusePacket(t) \/ EnqueueHeader(t) \/ EnqueuePayload(t)
              \/ SendUndo(t) \/ SendPrepare(t) \/ SendPost(t) \/ DiscExchange(t)
       PROVE  TokenKeptInv'
  BY <1>16, <1>types, <1>inv, KeptCallOff
  DEF Lookup, LockTarget, Unlock, RefusePacket, EnqueueHeader, EnqueuePayload, SendUndo,
      SendPrepare, SendPost, DiscExchange, CallTokenLocs
<1>17. ASSUME NEW t \in Threads, SendTakeToken(t)
       PROVE  TokenKeptInv'
  <2>1. target[t] \in Sessions /\ status[target[t]] # "unborn"
    BY <1>17, <1>call DEF SendTakeToken
  <2>2. CASE bWaitSend[target[t]]
    <3>1. bWaitSend' = bWaitSend
      BY <1>17, <2>1, <2>2, <1>types DEF SendTakeToken
    <3> QED
      BY <1>17, <3>1, <1>types, <1>inv, KeptCallOff DEF SendTakeToken, CallTokenLocs
  <2>3. CASE ~bWaitSend[target[t]]
    BY <1>17, <2>1, <2>3, <1>types, <1>inv, KeptCallOne DEF SendTakeToken, CallTokenLocs
  <2> QED
    BY <2>2, <2>3
<1>18. ASSUME NEW t \in Threads, SendIncr(t)
       PROVE  TokenKeptInv'
  <2> DEFINE s == target[t]
  <2>1. /\ s \in Sessions /\ status[s] = "live"
        /\ ~(at[Acceptor] = "created" /\ cur[Acceptor] = s)
    BY <1>18, <1>call, <1>inv DEF SendIncr, IInv, LifeInv, LookupLocs
  <2>2. CASE overlappedIOCnt[s] = 0
    <3>1. Releasers(s) # {}
      BY <2>1, <2>2, <1>inv DEF IInv, HeldInv, Releasers
    <3> QED
      BY <1>18, <2>1, <3>1, <1>types, <1>inv, KeptCallOne DEF SendIncr
  <2>3. CASE overlappedIOCnt[s] # 0
    BY <1>18, <2>3, <1>types, <1>inv, KeptCallOff DEF SendIncr, CallTokenLocs
  <2> QED
    BY <2>2, <2>3
<1>19. ASSUME NEW t \in Threads, SendClear(t) \/ SendWSAPends(t)
       PROVE  TokenKeptInv'
  <2>1. target[t] \in Sessions /\ status[target[t]] # "unborn"
    BY <1>19, <1>call DEF SendClear, SendWSAPends
  <2> QED
    BY <1>19, <2>1, <1>types, <1>inv, KeptCallOne DEF SendClear, SendWSAPends
<1>20. ASSUME NEW t \in Threads, SendWSAError(t)
       PROVE  TokenKeptInv'
  <2>1. target[t] \in Sessions /\ status[target[t]] # "unborn"
    BY <1>20, <1>call DEF SendWSAError
  <2>2. Gone(target[t])
    BY <1>20, <2>1, <1>inv, RefusedIsGone DEF SendWSAError
  <2> QED
    BY <1>20, <2>1, <2>2, <1>types, <1>inv, KeptCallOne DEF SendWSAError
<1>21. ASSUME NEW t \in Threads, DiscCancel(t)
       PROVE  TokenKeptInv'
  <2>1. target[t] \in Sessions /\ status[target[t]] # "unborn"
    BY <1>21, <1>call DEF DiscCancel
  <2>2. \A s \in Sessions \ {target[t]} : sendIO'[s] = sendIO[s]
    BY <1>21, <1>types DEF DiscCancel, Aborted, CancelsOwn
  <2>3. Gone(target[t])
    BY <1>21, <1>inv DEF DiscCancel, LoadedInv, Gone
  <2> QED
    BY <1>21, <2>1, <2>2, <2>3, <1>types, <1>inv, KeptCallOne DEF DiscCancel
<1>22. ASSUME NEW s \in Sessions, SendEnds(s)
       PROVE  TokenKeptInv'
  <2>1. status[s] # "unborn"
    BY <1>22, <1>inv DEF SendEnds, IInv, LifeInv
  <2>2. Gone(s) \/ sendIO'[s] \in {"pending", "done"}
    BY <1>22, <1>types DEF SendEnds, Gone
  <2>3. /\ \A v \in Sessions \ {s} : sendIO'[v] = sendIO[v]
        /\ UNCHANGED <<at, cur, call, target, status, bWaitSend>>
    BY <1>22, <1>types DEF SendEnds
  <2>4. \A v \in Sessions, t \in Threads : HasToken(t, v) => HasToken(t, v)'
    BY <2>3 DEF HasToken
  <2> QED
    BY <2>1, <2>2, <2>3, <2>4, <1>inv, KeptAtOne
<1>23. ASSUME NEW s \in Sessions, RecvEnds(s) \/ PeerStep(s)
       PROVE  UNCHANGED <<at, cur, call, target, status, bWaitSend, sendIO>>
  BY <1>23 DEF RecvEnds, PeerStep, RecvArrives, PeerLeaves
<1>24. CASE UNCHANGED <<at, cur, call, target, status, bWaitSend, sendIO>>
  BY <1>24, <1>inv, KeptOff DEF TokenKeptInv, KeptAt
<1> QED
  BY <1>1, <1>2, <1>3, <1>4, <1>5, <1>7, <1>8, <1>9, <1>10, <1>11, <1>12, <1>13, <1>14,
     <1>15, <1>16, <1>17, <1>18, <1>19, <1>20, <1>21, <1>22, <1>23, <1>24
  DEF Next, AcceptStep, SharedStep, CallStep, WorkerStep, DequeueStep, KernelCompletes,
      Rest, vars

\* A step that loads no handle, enters no WSASend, WSARecv or CancelIoEx and
\* accepts nobody.
LEMMA LoadedFrame ==
  ASSUME IInv, LoadedInv, StaysGone,
         \A t \in Threads :
           at'[t] \in PostRefLocs =>
             at[t] \in PostRefLocs /\ cur'[t] = cur[t] /\ handle'[t] = handle[t],
         \A t \in Threads :
           call'[t] = "sendWSA" =>
             call[t] = "sendWSA" /\ target'[t] = target[t] /\ handle'[t] = handle[t],
         \A t \in Threads :
           call'[t] = "discCancel" => call[t] = "discCancel" /\ target'[t] = target[t]
  PROVE  LoadedInv'
<1>1. ASSUME NEW t \in Threads, at[t] \in PostRefLocs
      PROVE  cur[t] \in Sessions /\ status[cur[t]] # "unborn"
  BY <1>1 DEF IInv, LocInv, LifeInv, PostRefLocs, LoopRefLocs
<1>2. ASSUME NEW t \in Threads, call[t] # "none"
      PROVE  target[t] \in Sessions /\ status[target[t]] # "unborn"
  BY <1>2 DEF IInv, LocInv, LifeInv
<1>3. \A t \in Threads : at'[t] \in PostRefLocs /\ handle'[t] = InvalidSocket => Gone(cur[t])'
  BY <1>1 DEF LoadedInv, StaysGone, Gone
<1>4. \A t \in Threads : call'[t] = "sendWSA" /\ handle'[t] = InvalidSocket => Gone(target[t])'
  BY <1>2 DEF LoadedInv, StaysGone, Gone
<1>5. \A t \in Threads :
        call'[t] = "discCancel" => socketForWSACall'[target'[t]] = InvalidSocket
  BY <1>2 DEF LoadedInv, StaysGone
<1> QED
  BY <1>3, <1>4, <1>5 DEF LoadedInv

\* The same for a step of the loop of t.
LEMMA LoadedLoopOff ==
  ASSUME IInv, LoadedInv, StaysGone, NEW t \in Threads,
         \A u \in Threads \ {t} :
           at'[u] = at[u] /\ cur'[u] = cur[u] /\ handle'[u] = handle[u],
         at'[t] \notin PostRefLocs,
         at[t] \notin Callbacks \cup {"outside"} \/ handle'[t] = handle[t],
         UNCHANGED <<call, target>>
  PROVE  LoadedInv'
<1>1. call[t] = "none" \/ handle'[t] = handle[t]
  BY DEF IInv, LocInv
<1> QED
  BY <1>1, LoadedFrame

\* The same for a step of the call of t.
LEMMA LoadedCallOff ==
  ASSUME IInv, LoadedInv, StaysGone, NEW t \in Threads,
         \A u \in Threads \ {t} :
           call'[u] = call[u] /\ target'[u] = target[u] /\ handle'[u] = handle[u],
         call'[t] \notin {"sendWSA", "discCancel"},
         at[t] \notin PostRefLocs \/ handle'[t] = handle[t],
         UNCHANGED <<at, cur>>
  PROVE  LoadedInv'
  BY LoadedFrame

\* Who has loaded an invalid handle, and who cancels, works on a session that
\* was disconnected.
LEMMA LoadedStep ==
  ASSUME WholeInv, KeptInv, [Next]_vars
  PROVE  LoadedInv'
<1> USE DEF engineVars, callVars, loadVars, tableVars, lifeVars, recvVars,
            ringVars, sendVars, Goto, GotoCall, Incr, Decr, Takes
<1>acceptor. Acceptor \in Threads /\ Workers \subseteq Threads
  BY DEF Threads
<1>inv. IInv /\ LoadedInv /\ StaysGone
  BY GoneStays DEF WholeInv, KeptInv
<1>types. /\ at \in [Threads -> EngineLocs] /\ call \in [Threads -> CallLocs]
          /\ cur \in [Threads -> Sessions \cup {NoSession}]
          /\ target \in [Threads -> Sessions \cup {NoSession}]
          /\ handle \in [Threads -> Handles \cup {InvalidSocket}]
          /\ socketForWSACall \in [Sessions -> Handles \cup {InvalidSocket}]
  BY <1>inv DEF IInv, TypeOK
<1>1. ASSUME NEW s \in Sessions, NEW h \in Handles, CreateSession(s, h)
      PROVE  LoadedInv'
  BY <1>1, <1>acceptor, <1>types, <1>inv, LoadedLoopOff DEF CreateSession, PostRefLocs
<1>2. CASE AcceptRef
  BY <1>2, <1>acceptor, <1>types, <1>inv, LoadedLoopOff DEF AcceptRef, PostRefLocs
<1>3. ASSUME NEW t \in Threads,
             \/ CallbackReturns(t) \/ WSARecvPends(t) \/ WSARecvError(t) \/ DropRef(t)
             \/ CloseSocket(t) \/ EraseFromMap(t) \/ LockForRelease(t)
             \/ UnlockReleased(t) \/ DeleteSession(t)
      PROVE  LoadedInv'
  BY <1>3, <1>types, <1>inv, LoadedLoopOff
  DEF CallbackReturns, AfterCallback, Callbacks, WSARecvPends, WSARecvError, DropRef, Idle,
      CloseSocket, EraseFromMap, LockForRelease, UnlockReleased, DeleteSession, PostRefLocs
<1>4. ASSUME NEW t \in Threads, NEW s \in Sessions, s = cur[t],
             handle' = [handle EXCEPT ![t] = socketForWSACall[s]],
             at[t] \in {"postRecv", "prepare"},
             \A u \in Threads \ {t} : at'[u] = at[u],
             UNCHANGED <<cur, call, target, socketForWSACall>>
      PROVE  LoadedInv'
  <2>1. call[t] = "none"
    BY <1>4, <1>inv DEF IInv, LocInv, Callbacks
  <2>2. \A u \in Threads \ {t} :
          at'[u] = at[u] /\ cur'[u] = cur[u] /\ handle'[u] = handle[u]
    BY <1>4, <1>types
  <2>3. handle'[t] = InvalidSocket => Gone(s)'
    BY <1>4, <1>types DEF Gone
  <2>4. \A u \in Threads \ {t} : at[u] \in PostRefLocs =>
          cur[u] \in Sessions /\ status[cur[u]] # "unborn"
    BY <1>inv DEF IInv, LocInv, LifeInv, PostRefLocs, LoopRefLocs
  <2>5. \A u \in Threads : call[u] # "none" =>
          target[u] \in Sessions /\ status[target[u]] # "unborn"
    BY <1>inv DEF IInv, LocInv, LifeInv
  <2>6. \A u \in Threads :
          at'[u] \in PostRefLocs /\ handle'[u] = InvalidSocket => Gone(cur[u])'
    BY <1>4, <2>2, <2>3, <2>4, <1>inv DEF LoadedInv, StaysGone, Gone
  <2>7. \A u \in Threads :
          call'[u] = "sendWSA" /\ handle'[u] = InvalidSocket => Gone(target[u])'
    BY <1>4, <2>1, <2>2, <2>5, <1>inv DEF LoadedInv, StaysGone, Gone
  <2>8. \A u \in Threads :
          call'[u] = "discCancel" => socketForWSACall'[target'[u]] = InvalidSocket
    BY <1>4, <1>inv DEF LoadedInv
  <2> QED
    BY <2>6, <2>7, <2>8 DEF LoadedInv
<1>5. ASSUME NEW t \in Threads, PostRecv(t)
      PROVE  LoadedInv'
  <2>1. cur[t] \in Sessions
    BY <1>5, <1>inv DEF PostRecv, IInv, LocInv, LoopRefLocs
  <2> QED
    BY <1>5, <2>1, <1>types, <1>4 DEF PostRecv
<1>6. ASSUME NEW w \in Workers, PrepareSend(w)
      PROVE  LoadedInv'
  <2>1. cur[w] \in Sessions
    BY <1>6, <1>acceptor, <1>inv DEF PrepareSend, IInv, LocInv, LoopRefLocs
  <2> QED
    BY <1>6, <2>1, <1>acceptor, <1>types, <1>4 DEF PrepareSend
<1>7. ASSUME NEW w \in Workers, NEW s \in Sessions,
             \/ DequeueRecv(w, s) \/ DequeueRecvEnd(w, s) \/ DequeueSend(w, s)
             \/ DequeueSendEnd(w, s) \/ DequeueFailedPost(w, s)
      PROVE  LoadedInv'
  BY <1>7, <1>acceptor, <1>types, <1>inv, LoadedLoopOff
  DEF DequeueRecv, DequeueRecvEnd, DequeueSend, DequeueSendEnd, DequeueFailedPost,
      PostRefLocs
<1>8. ASSUME NEW w \in Workers,
             \/ ParsePacket(w) \/ ParseEnds(w) \/ MoveFront(w) \/ ClearWait(w)
             \/ LoadRear(w) \/ LoadFront(w) \/ TakeToken(w) \/ Peek(w) \/ GiveUp(w)
             \/ WSASendPends(w) \/ WSASendError(w)
      PROVE  LoadedInv'
  BY <1>8, <1>acceptor, <1>types, <1>inv, LoadedLoopOff
  DEF ParsePacket, ParseEnds, MoveFront, ClearWait, LoadRear, LoadFront, TakeToken, Peek,
      GiveUp, WSASendPends, WSASendError, PostRefLocs, Callbacks
<1>9. ASSUME NEW t \in Threads, StartStep(t)
      PROVE  LoadedInv'
  BY <1>9, <1>types, <1>inv, LoadedCallOff
  DEF StartStep, SendPacket, Disconnect, StartCall
<1>10. ASSUME NEW t \in Threads,
              \/ Lookup(t, "sendLookup", "sendLock") \/ Lookup(t, "discLookup", "discLock")
              \/ LockTarget(t, "sendLock", "sendCheck")
              \/ LockTarget(t, "discLock", "discExchange")
              \/ Unlock(t) \/ RefusePacket(t) \/ EnqueueHeader(t) \/ EnqueuePayload(t)
              \/ SendTakeToken(t) \/ SendIncr(t) \/ SendUndo(t) \/ SendClear(t)
              \/ SendWSAPends(t) \/ SendWSAError(t) \/ SendPost(t) \/ DiscCancel(t)
       PROVE  LoadedInv'
  <2>1. at[t] \notin PostRefLocs
    BY <1>10, <1>inv
    DEF IInv, LocInv, PostRefLocs, Callbacks, Lookup, LockTarget, Unlock, RefusePacket,
        EnqueueHeader, EnqueuePayload, SendTakeToken, SendIncr, SendUndo, SendClear,
        SendWSAPends, SendWSAError, SendPost, DiscCancel
  <2> QED
    BY <1>10, <2>1, <1>types, <1>inv, LoadedCallOff
    DEF Lookup, LockTarget, Unlock, RefusePacket, EnqueueHeader, EnqueuePayload,
        SendTakeToken, SendIncr, SendUndo, SendClear, SendWSAPends, SendWSAError, SendPost,
        DiscCancel
<1>11. ASSUME NEW t \in Threads, SendPrepare(t) \/ DiscExchange(t)
       PROVE  LoadedInv'
  <2> DEFINE s == target[t]
  <2>1. s \in Sessions /\ at[t] \notin PostRefLocs
    BY <1>11, <1>inv DEF SendPrepare, DiscExchange, IInv, LocInv, PostRefLocs, Callbacks
  <2>2. /\ \A u \in Threads \ {t} : call'[u] = call[u] /\ handle'[u] = handle[u]
        /\ UNCHANGED <<at, cur, target>>
    BY <1>11, <1>types DEF SendPrepare, DiscExchange
  <2>3. \A u \in Threads : at[u] \in PostRefLocs =>
          cur[u] \in Sessions /\ status[cur[u]] # "unborn"
    BY <1>inv DEF IInv, LocInv, LifeInv, PostRefLocs, LoopRefLocs
  <2>4. \A u \in Threads : call[u] # "none" =>
          target[u] \in Sessions /\ status[target[u]] # "unborn"
    BY <1>inv DEF IInv, LocInv, LifeInv
  <2>5. \A u \in Threads :
          at'[u] \in PostRefLocs /\ handle'[u] = InvalidSocket => Gone(cur[u])'
    BY <2>1, <2>2, <2>3, <1>inv DEF LoadedInv, StaysGone, Gone
  <2>6. call'[t] = "sendWSA" /\ handle'[t] = InvalidSocket => Gone(s)'
    BY <1>11, <2>1, <1>types DEF SendPrepare, DiscExchange, Gone
  <2>7. \A u \in Threads :
          call'[u] = "sendWSA" /\ handle'[u] = InvalidSocket => Gone(target[u])'
    BY <2>2, <2>4, <2>6, <1>inv DEF LoadedInv, StaysGone, Gone
  <2>8. call'[t] = "discCancel" => socketForWSACall'[s] = InvalidSocket
    BY <1>11, <2>1, <1>types DEF SendPrepare, DiscExchange
  <2>9. \A u \in Threads :
          call'[u] = "discCancel" => socketForWSACall'[target'[u]] = InvalidSocket
    BY <2>2, <2>4, <2>8, <1>inv DEF LoadedInv, StaysGone
  <2> QED
    BY <2>5, <2>7, <2>9 DEF LoadedInv
<1>12. ASSUME NEW s \in Sessions, KernelCompletes(s) \/ PeerStep(s)
       PROVE  UNCHANGED <<at, cur, call, target, handle>>
  BY <1>12 DEF KernelCompletes, RecvEnds, SendEnds, PeerStep, RecvArrives, PeerLeaves
<1>13. CASE UNCHANGED <<at, cur, call, target, handle>>
  BY <1>13, <1>inv, LoadedFrame
<1> QED
  BY <1>1, <1>2, <1>3, <1>5, <1>6, <1>7, <1>8, <1>9, <1>10, <1>11, <1>12, <1>13
  DEF Next, AcceptStep, SharedStep, CallStep, WorkerStep, DequeueStep, Rest, vars

\* Before the first accept nothing is sent, loaded or cancelled.
LEMMA InitKept == Init => KeptInv
<1> SUFFICES ASSUME Init PROVE KeptInv
  OBVIOUS
<1>1. TokenKeptInv
  BY DEF Init, TokenKeptInv, KeptAt
<1>2. LoadedInv
  BY DEF Init, Idle, LoadedInv, PostRefLocs
<1> QED
  BY <1>1, <1>2 DEF KeptInv

\* A token that is kept is not lost.
LEMMA KeptIsNotLost ==
  ASSUME TokenKeptInv
  PROVE  SendTokenNotLost
<1>1. \A s \in Sessions, t \in Threads : HasToken(t, s) => TokenHolders(s) # {}
  BY DEF HasToken, TokenHolders
<1> QED
  BY <1>1 DEF TokenKeptInv, KeptAt, Gone, SendTokenNotLost

\* While a session is neither disconnected nor being released and its peer is
\* there, bWaitSend is left behind by two events only, which the premises name:
\* a WSASend that fails (line 558), and a CancelIoEx that meets its handle in
\* place of the one of a session closed before (line 739).  A WSARecv that fails
\* is allowed.
THEOREM SendTokenIsNotLost ==
  SendsMayFail = FALSE => (Spec /\ []CancelsOwn => []SendTokenNotLost)
<1> SUFFICES ASSUME SendsMayFail = FALSE
             PROVE  Spec /\ []CancelsOwn => []SendTokenNotLost
  OBVIOUS
<1>1. Init => KeptInv
  BY InitKept
<1>2. WholeInv /\ KeptInv /\ CancelsOwn /\ [Next]_vars => KeptInv'
  BY TokenKeptStep, LoadedStep DEF KeptInv
<1>3. KeptInv => SendTokenNotLost
  BY KeptIsNotLost DEF KeptInv
<1> QED
  BY <1>1, <1>2, <1>3, WholeInvariance, PTL DEF Spec

\* With one session nobody else has its handle, so the second event does not
\* occur: bWaitSend is not left behind while sends on a healthy connection are
\* accepted.
THEOREM LoneSessionKeepsToken ==
  ASSUME SendsMayFail = FALSE, \A r, s \in Sessions : r = s
  PROVE  Spec => []SendTokenNotLost
<1>1. IInv => CancelsOwn
  BY DEF IInv, LocInv, CancelsOwn
<1>2. Spec => []CancelsOwn
  BY <1>1, Invariance, PTL
<1> QED
  BY <1>2, SendTokenIsNotLost, PTL

=============================================================================
