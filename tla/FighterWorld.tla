---------------------------- MODULE FighterWorld ----------------------------
(***************************************************************************)
(* The game server with its handlers running at the same time: OnAccept on *)
(* the accept thread, OnRecv and OnRelease on the engine's threads, and    *)
(* the frames of UpdateThread.  A step ends where a thread has to wait for *)
(* a lock: the container's, a character's or a sector's (SRW locks).       *)
(*                                                                         *)
(* The engine calls back as SessionContract says.  SendPacket and          *)
(* Disconnect never call back, so they are steps of nothing else.  Each    *)
(* character is accepted at most once.  A position is the sector it is in: *)
(* a moving character may be found in any sector by the next frame, since  *)
(* its client moves it too.  What a client shows is a view, as in          *)
(* FighterViews; packets no view tells apart (SYNC, ATTACK, DAMAGE) are    *)
(* sent in the step that takes or drops the lock around them.              *)
(***************************************************************************)
EXTENDS SectorGrid, FiniteSets

CONSTANTS
  Characters,      \* the characters, and the clients they belong to
  Acceptor,        \* the accept thread
  Workers,         \* the IOCP worker threads
  Updater,         \* UpdateThread
  NoThread, NoCharacter,
  MaxPackets,      \* bound: packets the clients send in all
  RingMayFill      \* a SendPacket may fail because the send ring is full

ASSUME WorldConstants ==
  /\ NoThread \notin {Acceptor, Updater} \cup Workers
  /\ Acceptor \notin Workers /\ Updater \notin {Acceptor} \cup Workers
  /\ NoCharacter \notin Characters
  /\ MaxPackets \in Nat /\ RingMayFill \in BOOLEAN

VARIABLES
  phase,            \* which callback the engine runs for each session
  thread,           \* where each thread is, and its local variables
  containerLock,    \* mCharacterListSrwLock: its writer and its readers
  characterLock,    \* srwCharacterLock: the thread that has it exclusively
  mCharacterList,   \* the characters in the container
  mSectorList,      \* the characters on each sector
  info,             \* action, curPos and oldPos of each CharacterInfo
  deleted,          \* the CharacterInfos that were deleted
  view,             \* what each client shows of the others
  packets           \* packets received so far

locks == <<containerLock, characterLock>>
world == <<mCharacterList, mSectorList, info, deleted>>
vars == <<phase, thread, locks, world, view, packets>>

Engine == INSTANCE SessionContract WITH Sessions <- Characters

EngineThreads == {Acceptor} \cup Workers
Threads == EngineThreads \cup {Updater}

NoSector == [x |-> -1, y |-> -1]

\* The actions: standing and moving.
Still == "still"
Moving == "moving"

Packets == {"start", "stop", "attack", "echo"}

\* The order of the loops over sectors: row by row, but a handler's own
\* sector comes after those around it.
First(sectors) ==
  CHOOSE s \in sectors :
    \A u \in sectors : s.y < u.y \/ (s.y = u.y /\ s.x <= u.x)
OwnLast(sectors, own) ==
  IF sectors = {own} THEN own ELSE First(sectors \ {own})

\* A thread between two calls.
Idle == [pc |-> "idle", who |-> NoCharacter, other |-> NoCharacter, packet |-> "echo",
         todo |-> {}, rest |-> {}, sector |-> NoSector, copy |-> {}]

Init ==
  /\ Engine!Init
  /\ thread = [t \in Threads |-> Idle]
  /\ containerLock = [writer |-> NoThread, readers |-> {}]
  /\ characterLock = [c \in Characters |-> NoThread]
  /\ mCharacterList = {}
  /\ mSectorList = [s \in Sectors |-> {}]
  /\ info = [c \in Characters |->
               [action |-> Still, cur |-> First(Sectors), old |-> First(Sectors)]]
  /\ deleted = {}
  /\ view = [c \in Characters |-> <<>>]
  /\ packets = 0

-----------------------------------------------------------------------------
\* Threads and locks.

At(t, pc) == thread[t].pc = pc
Who(t) == thread[t].who
Goto(t, pc) == thread' = [thread EXCEPT ![t].pc = pc]
GotoAround(t, pc, sectors) == thread' = [thread EXCEPT ![t].pc = pc, ![t].todo = sectors]
Return(t) == thread' = [thread EXCEPT ![t] = Idle]

LockContainer(t) ==
  /\ containerLock.writer = NoThread /\ containerLock.readers = {}
  /\ containerLock' = [containerLock EXCEPT !.writer = t]
UnlockContainer == containerLock' = [containerLock EXCEPT !.writer = NoThread]

ShareContainer(t) ==
  /\ containerLock.writer = NoThread
  /\ containerLock' = [containerLock EXCEPT !.readers = @ \cup {t}]
UnshareContainer(t) == containerLock' = [containerLock EXCEPT !.readers = @ \ {t}]

CharacterFree(c) == characterLock[c] = NoThread
LockCharacter(t, c) ==
  /\ CharacterFree(c)
  /\ characterLock' = [characterLock EXCEPT ![c] = t]
UnlockCharacter(c) == characterLock' = [characterLock EXCEPT ![c] = NoThread]

\* No thread reads the list of s: Sector_AddCharacter and
\* Sector_RemoveCharacter may have its lock.
SectorFree(s) == \A t \in Threads : thread[t].sector # s

Sector_AddCharacter(c, s) ==
  /\ SectorFree(s)
  /\ mSectorList' = [mSectorList EXCEPT ![s] = @ \cup {c}]
Sector_RemoveCharacter(c, s) ==
  /\ SectorFree(s)
  /\ mSectorList' = [mSectorList EXCEPT ![s] = @ \ {c}]

-----------------------------------------------------------------------------
\* What clients show.  CREATE_OTHER_CHARACTER makes a standing character;
\* MOVE_START and MOVE_STOP of one the client does not show do nothing.

Told(v, c, packet) ==
  CASE packet = "create" -> [d \in DOMAIN v \cup {c} |-> IF d = c THEN Still ELSE v[d]]
    [] packet = "delete" -> [d \in DOMAIN v \ {c} |-> v[d]]
    [] packet = "start"  -> [d \in DOMAIN v |-> IF d = c THEN Moving ELSE v[d]]
    [] packet = "stop"   -> [d \in DOMAIN v |-> IF d = c THEN Still ELSE v[d]]
    [] packet = "createMoving" -> [d \in DOMAIN v \cup {c} |-> IF d = c THEN Moving ELSE v[d]]

\* SendPacket finds no session once the engine is releasing it.
HasSession(c) == phase[c] \notin {"releasing", "released"}

\* The clients a packet reaches among those it is sent to.
Reached(receivers) ==
  LET open == {c \in receivers : HasSession(c)} IN
  IF RingMayFill THEN SUBSET open ELSE {open}

\* SendPacketToSector and SendNPacketToSector: about c, to all on s but c.
Broadcast(s, c, packet) ==
  \E receivers \in Reached(mSectorList[s] \ {c}) :
    view' = [d \in Characters |->
               IF d \in receivers THEN Told(view[d], c, packet) ELSE view[d]]

\* A packet about d to c alone.
SendTo(c, d, packet) ==
  \E receivers \in Reached({c}) :
    view' = IF c \in receivers THEN [view EXCEPT ![c] = Told(@, d, packet)] ELSE view

\* DELETE of each of the characters in gone, to c alone.
SendDeletes(c, gone) ==
  \E lost \in IF RingMayFill THEN SUBSET gone ELSE {{}} :
    view' = [view EXCEPT ![c] =
               [d \in DOMAIN @ \ (IF HasSession(c) THEN gone \ lost ELSE {}) |-> @[d]]]

-----------------------------------------------------------------------------
\* Loops over the sectors in todo.

\* One turn that broadcasts about c on s; after the last one, Last.
VisitToTell(t, s, c, packet, Last) ==
  /\ Broadcast(s, c, packet)
  /\ IF thread[t].todo = {s} THEN Last
     ELSE /\ thread' = [thread EXCEPT ![t].todo = @ \ {s}]
          /\ UNCHANGED <<phase, locks, world>>

\* Begin to read the list of the first sector of todo, under its lock.
BeginSector(t, pc, reading) ==
  LET s == First(thread[t].todo) IN
  /\ At(t, pc)
  /\ thread[t].todo # {}
  /\ thread' = [thread EXCEPT ![t].todo = @ \ {s}, ![t].sector = s,
                              ![t].rest = mSectorList[s] \ {Who(t)}, ![t].pc = reading]
  /\ UNCHANGED <<phase, locks, world, view, packets>>

\* Done with the list: free its lock.
EndSector(t, pc, reading) ==
  /\ At(t, reading)
  /\ thread[t].rest = {}
  /\ thread' = [thread EXCEPT ![t].sector = NoSector, ![t].pc = pc]
  /\ UNCHANGED <<phase, locks, world, view, packets>>

-----------------------------------------------------------------------------
\* OnAccept, on the accept thread.

\* The character is made and its client greeted before anyone can find it.
OnAccept(c) ==
  /\ At(Acceptor, "idle")
  /\ Engine!OnAcceptStarts(c)
  /\ thread' = [thread EXCEPT ![Acceptor].pc = "acceptLock", ![Acceptor].who = c]
  /\ \E s \in Sectors : info' = [info EXCEPT ![c].cur = s, ![c].old = s]
  /\ UNCHANGED <<locks, mCharacterList, mSectorList, deleted, view, packets>>

AcceptAdds ==
  /\ At(Acceptor, "acceptLock")
  /\ LockContainer(Acceptor)
  /\ mCharacterList' = mCharacterList \cup {Who(Acceptor)}
  /\ Goto(Acceptor, "acceptAdd")
  /\ UNCHANGED <<phase, characterLock, mSectorList, info, deleted, view, packets>>

\* Mutant: GetSectorAround without the character's own sector.
AcceptForgetsOwnSector ==
  LET c == Who(Acceptor) IN
  /\ At(Acceptor, "acceptAdd")
  /\ Sector_AddCharacter(c, info[c].cur)
  /\ GotoAround(Acceptor, "announce", SectorAround(info[c].cur, FALSE))
  /\ UNCHANGED <<phase, locks, mCharacterList, info, deleted, view, packets>>

AcceptAddsToSector ==
  LET c == Who(Acceptor) IN
  /\ At(Acceptor, "acceptAdd")
  /\ Sector_AddCharacter(c, info[c].cur)
  /\ GotoAround(Acceptor, "announce", SectorAround(info[c].cur, TRUE))
  /\ UNCHANGED <<phase, locks, mCharacterList, info, deleted, view, packets>>

\* SendPacketByAcceptEvent: the others are told of the new character ...
Announce ==
  LET c == Who(Acceptor) IN
  /\ At(Acceptor, "announce")
  /\ VisitToTell(Acceptor, First(thread[Acceptor].todo), c, "create",
       /\ GotoAround(Acceptor, "meet", SectorAround(info[c].cur, TRUE))
       /\ UNCHANGED <<phase, locks, world>>)
  /\ UNCHANGED packets

\* ... and its client of the others, each read under its lock.
Meet ==
  LET c == Who(Acceptor) IN
  /\ At(Acceptor, "meeting")
  /\ \E d \in thread[Acceptor].rest :
       /\ CharacterFree(d)
       /\ SendTo(c, d, IF info[d].action = Still THEN "create" ELSE "createMoving")
       /\ thread' = [thread EXCEPT ![Acceptor].rest = @ \ {d}]
  /\ UNCHANGED <<phase, locks, world, packets>>

AcceptReturns ==
  /\ At(Acceptor, "meet")
  /\ thread[Acceptor].todo = {}
  /\ UnlockContainer
  /\ Return(Acceptor)
  /\ Engine!OnAcceptReturns(Who(Acceptor))
  /\ UNCHANGED <<characterLock, world, view, packets>>

-----------------------------------------------------------------------------
\* OnRelease.

\* The client is gone: what it showed is forgotten.
OnRelease(t, c) ==
  /\ At(t, "idle")
  /\ Engine!OnReleaseStarts(c)
  /\ thread' = [thread EXCEPT ![t].pc = "leaveLock", ![t].who = c]
  /\ view' = [view EXCEPT ![c] = <<>>]
  /\ UNCHANGED <<locks, world, packets>>

LeaveLocks(t) ==
  /\ At(t, "leaveLock")
  /\ LockContainer(t)
  /\ Goto(t, "leaveRemove")
  /\ UNCHANGED <<phase, characterLock, world, view, packets>>

\* Mutant: the character is looked for on its oldPos.
LeaveRemovesOld(t) ==
  LET c == Who(t) IN
  /\ At(t, "leaveRemove")
  /\ Sector_RemoveCharacter(c, info[c].old)
  /\ mCharacterList' = mCharacterList \ {c}
  /\ Goto(t, "leaveWait")
  /\ UNCHANGED <<phase, locks, info, deleted, view, packets>>

LeaveRemoves(t) ==
  LET c == Who(t) IN
  /\ At(t, "leaveRemove")
  /\ Sector_RemoveCharacter(c, info[c].cur)
  /\ mCharacterList' = mCharacterList \ {c}
  /\ Goto(t, "leaveWait")
  /\ UNCHANGED <<phase, locks, info, deleted, view, packets>>

\* Mutant: the thread that still has the character is not waited for.
LeaveAtOnce(t) ==
  /\ At(t, "leaveWait")
  /\ UnlockContainer
  /\ GotoAround(t, "leaveTell", SectorAround(info[Who(t)].cur, TRUE))
  /\ UNCHANGED <<phase, characterLock, world, view, packets>>

\* The character's lock is taken and dropped: its last user is done.
LeaveWaits(t) ==
  /\ At(t, "leaveWait")
  /\ CharacterFree(Who(t))
  /\ UnlockContainer
  /\ GotoAround(t, "leaveTell", SectorAround(info[Who(t)].cur, TRUE))
  /\ UNCHANGED <<phase, characterLock, world, view, packets>>

\* DELETE to the sectors around, then delete the CharacterInfo.
LeaveTells(t) ==
  LET c == Who(t) IN
  /\ At(t, "leaveTell")
  /\ VisitToTell(t, OwnLast(thread[t].todo, info[c].cur), c, "delete",
       /\ Return(t)
       /\ deleted' = deleted \cup {c}
       /\ Engine!OnReleaseReturns(c)
       /\ UNCHANGED <<locks, mCharacterList, mSectorList, info>>)
  /\ UNCHANGED packets

-----------------------------------------------------------------------------
\* OnRecv: the time of the message is noted, then the packet is dispatched.
\* Neither FindCharacter is tested.

\* Mutant: the engine receives before OnAccept has returned.
OnRecvWhileAccepting(t, c, packet) ==
  /\ At(t, "idle")
  /\ packets < MaxPackets
  /\ packets' = packets + 1
  /\ phase[c] = "accepting"
  /\ thread' = [thread EXCEPT ![t].pc = "stampFind", ![t].who = c, ![t].packet = packet]
  /\ UNCHANGED <<phase, locks, world, view>>

OnRecv(t, c, packet) ==
  /\ At(t, "idle")
  /\ packets < MaxPackets
  /\ packets' = packets + 1
  /\ Engine!OnRecvStarts(c)
  /\ thread' = [thread EXCEPT ![t].pc = "stampFind", ![t].who = c, ![t].packet = packet]
  /\ UNCHANGED <<locks, world, view>>

\* FindCharacter under the container's lock, for OnRecv and for a handler.
Finds(t) ==
  /\ \/ At(t, "stampFind") /\ Goto(t, "stampLock")
     \/ At(t, "find")      /\ Goto(t, "lock")
  /\ ShareContainer(t)
  /\ UNCHANGED <<phase, characterLock, world, view, packets>>

\* The character's lock, for lastRecvTime.  ECHO takes no lock after that.
Stamps(t) ==
  /\ At(t, "stampLock")
  /\ CharacterFree(Who(t))
  /\ UnshareContainer(t)
  /\ IF thread[t].packet = "echo"
     THEN Return(t) /\ Engine!OnRecvReturns(Who(t))
     ELSE Goto(t, "find") /\ UNCHANGED phase
  /\ UNCHANGED <<characterLock, world, view, packets>>

\* Mutant: the type of the packet is stored as the action.
MovesByType(t) ==
  LET c == Who(t) IN
  /\ At(t, "lock")
  /\ thread[t].packet # "attack"
  /\ LockCharacter(t, c)
  /\ UnshareContainer(t)
  /\ info' = [info EXCEPT ![c].action = thread[t].packet]
  /\ GotoAround(t, "tell", SectorAround(info[c].cur, TRUE))
  /\ UNCHANGED <<phase, mCharacterList, mSectorList, deleted, view, packets>>

\* ProcessPacketMoveStart and ProcessPacketMoveStop: the character's lock is
\* held until the others are told.
Moves(t) ==
  LET c == Who(t) IN
  /\ At(t, "lock")
  /\ thread[t].packet # "attack"
  /\ LockCharacter(t, c)
  /\ UnshareContainer(t)
  /\ info' = [info EXCEPT ![c].action =
                IF thread[t].packet = "start" THEN Moving ELSE Still]
  /\ GotoAround(t, "tell", SectorAround(info[c].cur, TRUE))
  /\ UNCHANGED <<phase, mCharacterList, mSectorList, deleted, view, packets>>

MoveTells(t) ==
  LET c == Who(t) IN
  /\ At(t, "tell")
  /\ VisitToTell(t, OwnLast(thread[t].todo, info[c].cur), c, thread[t].packet,
       /\ Return(t)
       /\ UnlockCharacter(c)
       /\ Engine!OnRecvReturns(c)
       /\ UNCHANGED <<containerLock, world>>)
  /\ UNCHANGED packets

\* ProcessPacketAttack1, 2 and 3, which differ in range and damage only.
Attacks(t) ==
  /\ At(t, "lock")
  /\ thread[t].packet = "attack"
  /\ LockCharacter(t, Who(t))
  /\ UnshareContainer(t)
  /\ Goto(t, "search")
  /\ UNCHANGED <<phase, world, view, packets>>

\* The attacker's own sector and the ones SearchCollisionOnSectors looks in.
Victims(c) ==
  (UNION {mSectorList[s] : s \in SectorAround(info[c].cur, TRUE)}) \ {c}

\* SearchCollisionOnSectors finds a victim or none, and the attacker's lock
\* is freed before the victim is looked up.
SearchFinds(t) ==
  /\ At(t, "search")
  /\ \E v \in Victims(Who(t)) :
       thread' = [thread EXCEPT ![t].pc = "findVictim", ![t].other = v]
  /\ UnlockCharacter(Who(t))
  /\ UNCHANGED <<phase, containerLock, world, view, packets>>

SearchFindsNone(t) ==
  /\ At(t, "search")
  /\ UnlockCharacter(Who(t))
  /\ Return(t)
  /\ Engine!OnRecvReturns(Who(t))
  /\ UNCHANGED <<containerLock, world, view, packets>>

\* The victim may be gone by now.
FindsVictim(t) ==
  /\ At(t, "findVictim")
  /\ containerLock.writer = NoThread
  /\ IF thread[t].other \in mCharacterList
     THEN Goto(t, "lockVictim") /\ ShareContainer(t) /\ UNCHANGED phase
     ELSE Return(t) /\ Engine!OnRecvReturns(Who(t)) /\ UNCHANGED containerLock
  /\ UNCHANGED <<characterLock, world, view, packets>>

LocksVictim(t) ==
  /\ At(t, "lockVictim")
  /\ LockCharacter(t, thread[t].other)
  /\ UnshareContainer(t)
  /\ Goto(t, "damage")
  /\ UNCHANGED <<phase, world, view, packets>>

Damages(t) ==
  /\ At(t, "damage")
  /\ UnlockCharacter(thread[t].other)
  /\ Return(t)
  /\ Engine!OnRecvReturns(Who(t))
  /\ UNCHANGED <<containerLock, world, view, packets>>

-----------------------------------------------------------------------------
\* UpdateThread.

\* Mutant: the container's lock is freed once the list is copied.
FrameStartsUnlocked ==
  /\ At(Updater, "idle")
  /\ containerLock.writer = NoThread
  /\ thread' = [thread EXCEPT ![Updater].pc = "frame", ![Updater].copy = mCharacterList]
  /\ UNCHANGED <<phase, locks, world, view, packets>>

\* A frame: the container's lock is shared until all are visited.
FrameStarts ==
  /\ At(Updater, "idle")
  /\ ShareContainer(Updater)
  /\ thread' = [thread EXCEPT ![Updater].pc = "frame", ![Updater].copy = mCharacterList]
  /\ UNCHANGED <<phase, characterLock, world, view, packets>>

FrameTakes(c) ==
  /\ At(Updater, "frame")
  /\ c \in thread[Updater].copy
  /\ thread' = [thread EXCEPT ![Updater].pc = "frameLock", ![Updater].who = c,
                              ![Updater].copy = @ \ {c}]
  /\ UNCHANGED <<phase, locks, world, view, packets>>

FrameEnds ==
  /\ At(Updater, "frame")
  /\ thread[Updater].copy = {}
  /\ UnshareContainer(Updater)
  /\ Return(Updater)
  /\ UNCHANGED <<phase, characterLock, world, view, packets>>

\* A standing character, one that is disconnected, and one that moves within
\* its sector are left where they are.
FrameLeaves ==
  /\ At(Updater, "frameLock")
  /\ CharacterFree(Who(Updater))
  /\ Goto(Updater, "frame")
  /\ UNCHANGED <<phase, locks, world, view, packets>>

\* Mutant: the character's lock is freed before its sector changes.
FrameMovesUnlocked(s) ==
  LET c == Who(Updater) IN
  /\ At(Updater, "frameLock")
  /\ info[c].action = Moving
  /\ s # info[c].cur
  /\ CharacterFree(c)
  /\ info' = [info EXCEPT ![c].old = info[c].cur, ![c].cur = s]
  /\ Goto(Updater, "frameRemove")
  /\ UNCHANGED <<phase, locks, mCharacterList, mSectorList, deleted, view, packets>>

\* Sector_UpdateCharacter finds a moving character in another sector.
FrameMoves(s) ==
  LET c == Who(Updater) IN
  /\ At(Updater, "frameLock")
  /\ info[c].action = Moving
  /\ s # info[c].cur
  /\ LockCharacter(Updater, c)
  /\ info' = [info EXCEPT ![c].old = info[c].cur, ![c].cur = s]
  /\ Goto(Updater, "frameRemove")
  /\ UNCHANGED <<phase, containerLock, mCharacterList, mSectorList, deleted, view, packets>>

FrameRemoves ==
  LET c == Who(Updater) IN
  /\ At(Updater, "frameRemove")
  /\ Sector_RemoveCharacter(c, info[c].old)
  /\ Goto(Updater, "frameAdd")
  /\ UNCHANGED <<phase, locks, mCharacterList, info, deleted, view, packets>>

FrameAdds ==
  LET c == Who(Updater) IN
  /\ At(Updater, "frameAdd")
  /\ Sector_AddCharacter(c, info[c].cur)
  /\ GotoAround(Updater, "frameHide", RemoveSectors(info[c].old, info[c].cur))
  /\ UNCHANGED <<phase, locks, mCharacterList, info, deleted, view, packets>>

\* SendPacketBySectorUpdate.  Four loops over sectors: those the character
\* left are told to delete it, its client to delete theirs, those it comes to
\* are told of it, and its client of theirs.
FrameTurn(pc) ==
  /\ At(Updater, pc)
  /\ thread[Updater].todo # {}
  /\ thread' = [thread EXCEPT ![Updater].todo = @ \ {First(@)}]
  /\ UNCHANGED <<phase, locks, world, packets>>

FrameHides ==
  /\ FrameTurn("frameHide")
  /\ Broadcast(First(thread[Updater].todo), Who(Updater), "delete")

FrameForgets ==
  LET c == Who(Updater) IN
  /\ FrameTurn("frameForget")
  /\ SendDeletes(c, mSectorList[First(thread[Updater].todo)] \ {c})

FrameShows ==
  /\ FrameTurn("frameShow")
  /\ Broadcast(First(thread[Updater].todo), Who(Updater), "createMoving")

FrameNextLoop ==
  LET p == info[Who(Updater)] IN
  /\ thread[Updater].todo = {}
  /\ \/ /\ At(Updater, "frameHide")
        /\ GotoAround(Updater, "frameForget", RemoveSectors(p.old, p.cur))
     \/ /\ At(Updater, "frameForget")
        /\ GotoAround(Updater, "frameShow", AddSectors(p.old, p.cur))
     \/ /\ At(Updater, "frameShow")
        /\ GotoAround(Updater, "frameMeet", AddSectors(p.old, p.cur))
  /\ UNCHANGED <<phase, locks, world, view, packets>>

\* The others are read without their locks: CREATE, and the action after it.
FrameMeets(d) ==
  /\ At(Updater, "frameMeeting")
  /\ d \in thread[Updater].rest
  /\ SendTo(Who(Updater), d, "create")
  /\ thread' = [thread EXCEPT ![Updater].rest = @ \ {d}, ![Updater].other = d,
                  ![Updater].pc = IF info[d].action = Moving THEN "frameMotion" ELSE @]
  /\ UNCHANGED <<phase, locks, world, packets>>

\* MOVE_START of the one that was found moving.
FrameTellsMotion ==
  /\ At(Updater, "frameMotion")
  /\ SendTo(Who(Updater), thread[Updater].other, "start")
  /\ Goto(Updater, "frameMeeting")
  /\ UNCHANGED <<phase, locks, world, packets>>

FrameLetsGo ==
  /\ At(Updater, "frameMeet")
  /\ thread[Updater].todo = {}
  /\ UnlockCharacter(Who(Updater))
  /\ Goto(Updater, "frame")
  /\ UNCHANGED <<phase, containerLock, world, view, packets>>

-----------------------------------------------------------------------------
Accept ==
  \/ \E c \in Characters : OnAccept(c)
  \/ AcceptAdds \/ AcceptAddsToSector \/ Announce
  \/ BeginSector(Acceptor, "meet", "meeting")
  \/ Meet
  \/ EndSector(Acceptor, "meet", "meeting")
  \/ AcceptReturns

Release(t) ==
  \/ \E c \in Characters : OnRelease(t, c)
  \/ LeaveLocks(t) \/ LeaveRemoves(t) \/ LeaveWaits(t) \/ LeaveTells(t)

Receive(t) ==
  \/ \E c \in Characters, packet \in Packets : OnRecv(t, c, packet)
  \/ Finds(t) \/ Stamps(t)
  \/ Moves(t) \/ MoveTells(t)
  \/ Attacks(t) \/ SearchFinds(t) \/ SearchFindsNone(t)
  \/ FindsVictim(t) \/ LocksVictim(t) \/ Damages(t)

Update ==
  \/ FrameStarts \/ FrameEnds
  \/ \E c \in Characters : FrameTakes(c)
  \/ FrameLeaves
  \/ \E s \in Sectors : FrameMoves(s)
  \/ FrameRemoves \/ FrameAdds
  \/ FrameHides \/ FrameForgets \/ FrameShows \/ FrameNextLoop
  \/ BeginSector(Updater, "frameMeet", "frameMeeting")
  \/ \E d \in Characters : FrameMeets(d)
  \/ FrameTellsMotion
  \/ EndSector(Updater, "frameMeet", "frameMeeting")
  \/ FrameLetsGo

Next ==
  \/ Accept
  \/ \E t \in EngineThreads : Release(t)
  \/ \E t \in Workers : Receive(t)
  \/ Update

Spec == Init /\ [][Next]_vars

-----------------------------------------------------------------------------
\* Properties.

\* Type invariant.
TypeOK ==
  /\ phase \in [Characters -> Engine!Phases]
  /\ containerLock \in [writer : Threads \cup {NoThread}, readers : SUBSET Threads]
  /\ characterLock \in [Characters -> Threads \cup {NoThread}]
  /\ mCharacterList \subseteq Characters
  /\ mSectorList \in [Sectors -> SUBSET Characters]
  /\ info \in [Characters -> [action : {Still, Moving}, cur : Sectors, old : Sectors]]
  /\ deleted \subseteq Characters
  /\ packets \in 0 .. MaxPackets

\* The threads t waits for.  An SRW lock may make a shared request wait for
\* an exclusive one that came first, so those count too.
ContainerHolders == containerLock.readers \cup ({containerLock.writer} \cap Threads)
WantsContainer(t) == thread[t].pc \in {"acceptLock", "leaveLock"}
WantsSectorOf(t) ==
  CASE thread[t].pc \in {"acceptAdd", "leaveRemove", "frameAdd"} -> info[Who(t)].cur
    [] At(t, "frameRemove") -> info[Who(t)].old
    [] OTHER -> NoSector
ReadsSectors(t) ==
  CASE thread[t].pc \in {"announce", "tell", "leaveTell", "frameHide", "frameForget",
                         "frameShow"} -> thread[t].todo
    [] At(t, "search") -> SectorAround(info[Who(t)].cur, TRUE)
    [] thread[t].pc \in {"meet", "frameMeet"} -> thread[t].todo
    [] OTHER -> {}
WantedCharacters(t) ==
  CASE thread[t].pc \in {"stampLock", "lock", "leaveWait", "frameLock"} -> {Who(t)}
    [] At(t, "lockVictim") -> {thread[t].other}
    [] At(t, "meeting") -> thread[t].rest
    [] OTHER -> {}

WaitsFor(t) ==
  (IF WantsContainer(t) THEN ContainerHolders
   ELSE IF thread[t].pc \in {"stampFind", "find", "findVictim"} \/ (t = Updater /\ At(t, "idle"))
   THEN ({containerLock.writer} \cap Threads) \cup {u \in Threads : WantsContainer(u)}
   ELSE {})
  \cup {u \in Threads : thread[u].sector # NoSector /\ thread[u].sector = WantsSectorOf(t)}
  \cup {u \in Threads : WantsSectorOf(u) \in ReadsSectors(t)}
  \cup ({characterLock[c] : c \in WantedCharacters(t)} \cap Threads)

\* No deadlock: however the handlers, the accept thread and a frame meet at
\* the container, the characters and the sectors, no set of threads waits in
\* itself.  OnAccept waits for characters while it holds a sector; that is
\* safe only because frames and releases keep away from the container.
NoLockCycle ==
  \A S \in (SUBSET Threads) \ {{}} : \E t \in S : WaitsFor(t) \cap S = {}

\* The characters a thread holds a pointer to, from the lock under which it
\* got it to its last use.
Pointers(t) ==
  CASE thread[t].pc \in {"idle", "stampFind", "find", "frame", "findVictim"} -> {}
    [] thread[t].pc \in {"lockVictim", "damage"} -> {thread[t].other}
    [] thread[t].pc = "frameMotion" -> {Who(t), thread[t].other}
    [] OTHER -> {Who(t)} \cup thread[t].rest

\* No CharacterInfo is used after OnRelease deleted it: not by a handler of
\* its own, not by an attack that chose it as the victim, not by a frame,
\* and none that is deleted can be found in the container or on a sector.
NoUseOfDeleted ==
  /\ deleted \cap mCharacterList = {}
  /\ \A s \in Sectors : deleted \cap mSectorList[s] = {}
  /\ \A t \in Threads : deleted \cap Pointers(t) = {}

\* The unchecked FindCharacter of OnRecv and of the handlers always finds.
HandlersFindTheirCharacter ==
  \A t \in Threads :
    thread[t].pc \in {"stampLock", "lock"} => Who(t) \in mCharacterList

\* A character is on the list of its curPos and of no other, but while it is
\* being added, removed or moved from one to the other.
SectorListsExact ==
  \A c \in Characters, s \in Sectors :
    c \in mSectorList[s] <=>
      /\ c \in mCharacterList
      /\ \A t \in Threads :
           Who(t) = c => thread[t].pc \notin {"acceptAdd", "frameAdd"}
      /\ s = IF At(Updater, "frameRemove") /\ Who(Updater) = c
             THEN info[c].old ELSE info[c].cur

\* Between handlers and frames.
Quiet == \A t \in Threads : At(t, "idle")
Neighbours(c, d) ==
  /\ info[c].cur.x - info[d].cur.x \in -1 .. 1
  /\ info[c].cur.y - info[d].cur.y \in -1 .. 1

\* A client shows every character around its own, and of the others in the
\* game none, however the handlers that brought them there overlapped.
NeighboursShown ==
  Quiet => \A c \in mCharacterList, d \in mCharacterList :
             c # d => (d \in DOMAIN view[c] <=> Neighbours(c, d))

\* A character whose client has stayed in the sector it was accepted in.
Stayed(c) == info[c].old = info[c].cur

\* To a client that stays where it is, broadcasts that visit one sector after
\* the other, a release that tells them after it left its lists, and frames
\* that read without a lock are all one: it shows exactly the characters
\* around it, each doing what it does, and none that left the game.
StayersPictureExact ==
  Quiet => \A c \in mCharacterList : Stayed(c) =>
             view[c] = [d \in {e \in mCharacterList \ {c} : Neighbours(c, e)}
                          |-> info[d].action]
=============================================================================
