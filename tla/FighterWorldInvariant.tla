------------------------ MODULE FighterWorldInvariant ------------------------
(***************************************************************************)
(* The inductive invariants of FighterWorld, in named parts: IInv behind   *)
(* SectorListsExact, NoUseOfDeleted, HandlersFindTheirCharacter and        *)
(* NoLockCycle, and PInv, on top of it, behind NeighboursShown and         *)
(* StayersPictureExact.                                                    *)
(***************************************************************************)
EXTENDS FighterWorld

\* Where threads are inside OnAccept, OnRelease, OnRecv and a frame.
AcceptLocs == {"acceptLock", "acceptAdd", "announce", "meet", "meeting"}
LeaveLocs == {"leaveLock", "leaveRemove", "leaveWait", "leaveTell"}
ReceiveLocs == {"stampFind", "stampLock", "find", "lock", "tell", "search",
                "findVictim", "lockVictim", "damage"}

\* A frame from the change of a sector to the end of what is told of it.
MoveLocs == {"frameRemove", "frameAdd", "frameHide", "frameForget", "frameShow",
             "frameMeet", "frameMeeting", "frameMotion"}
FrameLocs == {"frame", "frameLock"} \cup MoveLocs

\* Where a thread reads the list of a sector one by one.
ReadingLocs == {"meeting", "frameMeeting", "frameMotion"}

ThreadType ==
  [pc     : {"idle"} \cup AcceptLocs \cup LeaveLocs \cup ReceiveLocs \cup FrameLocs,
   who    : Characters \cup {NoCharacter},
   other  : Characters \cup {NoCharacter},
   packet : Packets,
   todo   : SUBSET Sectors,
   rest   : SUBSET Characters,
   sector : Sectors \cup {NoSector},
   copy   : SUBSET Characters]

\* A thread is in the code it runs, and has a character where that has one.
LocsOf(t) ==
  {"idle"} \cup (IF t = Updater THEN FrameLocs
                ELSE IF t = Acceptor THEN AcceptLocs \cup LeaveLocs
                ELSE LeaveLocs \cup ReceiveLocs)

WellPlaced(t, r) ==
  /\ r.pc \in LocsOf(t)
  /\ r.pc \notin {"idle", "frame"} => r.who \in Characters
  /\ r.pc \in {"findVictim", "lockVictim", "damage", "frameMotion"} => r.other \in Characters

ThreadInv ==
  /\ thread \in [Threads -> ThreadType]
  /\ \A t \in Threads : WellPlaced(t, thread[t])

\* The engine runs one callback of a session at a time, and phase says which.
CallbackInv ==
  /\ \A t \in EngineThreads :
       /\ thread[t].pc \in AcceptLocs => phase[Who(t)] = "accepting"
       /\ thread[t].pc \in ReceiveLocs => phase[Who(t)] = "receiving"
       /\ thread[t].pc \in LeaveLocs => phase[Who(t)] = "releasing"
  /\ \A t, u \in EngineThreads :
       (~At(t, "idle") /\ ~At(u, "idle") /\ Who(t) = Who(u)) => t = u

\* Who has the container's lock, exclusively or shared.
WriterLocs == {"acceptAdd", "announce", "meet", "meeting", "leaveRemove", "leaveWait"}
ReaderLocs == {"stampLock", "lock", "lockVictim"} \cup FrameLocs

ContainerInv ==
  /\ \A t \in Threads :
       /\ containerLock.writer = t <=> thread[t].pc \in WriterLocs
       /\ t \in containerLock.readers <=> thread[t].pc \in ReaderLocs
  /\ containerLock.writer # NoThread => containerLock.readers = {}

\* Who has the lock of a character across steps.
HasCharacter(t, c) ==
  \/ thread[t].pc \in {"tell", "search"} \cup MoveLocs /\ Who(t) = c
  \/ At(t, "damage") /\ thread[t].other = c

CharacterInv ==
  \A t \in Threads, c \in Characters : characterLock[c] = t <=> HasCharacter(t, c)

\* A character is in the container from AcceptAdds to LeaveRemoves, and
\* deleted once it is released.
InLocs == {"acceptAdd", "announce", "meet", "meeting", "leaveLock", "leaveRemove"}
OutLocs == {"acceptLock", "leaveWait", "leaveTell"}

MemberInv ==
  /\ \A c \in Characters :
       /\ phase[c] \in {"none", "released"} => c \notin mCharacterList
       /\ phase[c] \in {"open", "receiving"} => c \in mCharacterList
  /\ \A t \in EngineThreads :
       /\ thread[t].pc \in OutLocs => Who(t) \notin mCharacterList
       /\ thread[t].pc \in InLocs => Who(t) \in mCharacterList
  /\ deleted = {c \in Characters : phase[c] = "released"}

\* While a thread shares the container's lock, what it found there stays.
FoundInv ==
  /\ thread[Updater].pc \in FrameLocs => thread[Updater].copy \subseteq mCharacterList
  /\ thread[Updater].pc \in FrameLocs \ {"frame"} => Who(Updater) \in mCharacterList
  /\ \A t \in Threads : At(t, "lockVictim") => thread[t].other \in mCharacterList

\* Once OnRelease had the character's lock nobody has it any more.
LastUserInv ==
  /\ \A t \in EngineThreads : At(t, "leaveTell") => CharacterFree(Who(t))
  /\ \A c \in Characters : phase[c] = "released" => CharacterFree(c)

\* While a thread reads a list it has the sector's lock, and what is left to
\* be read is on the list.
ReadingInv ==
  \A t \in Threads :
    /\ thread[t].pc \notin ReadingLocs =>
         thread[t].rest = {} /\ thread[t].sector = NoSector
    /\ thread[t].pc \in ReadingLocs =>
         /\ thread[t].sector \in Sectors
         /\ thread[t].rest \subseteq mSectorList[thread[t].sector]
    /\ At(t, "frameMotion") => thread[t].other \in mSectorList[thread[t].sector]

IInv ==
  /\ TypeOK
  /\ ThreadInv
  /\ CallbackInv
  /\ ContainerInv
  /\ CharacterInv
  /\ MemberInv
  /\ FoundInv
  /\ LastUserInv
  /\ ReadingInv
  /\ SectorListsExact

-----------------------------------------------------------------------------
\* What clients show while broadcasts are under way, when no send ring is
\* full: the inductive invariant behind NeighboursShown and
\* StayersPictureExact, on top of IInv.

Around(s) == SectorAround(s, TRUE)

\* From the step that puts a character into the container, or moves it to
\* another sector, to the end of what is told of it.
JoinLocs == {"acceptAdd", "announce", "meet", "meeting"}
Changing(t) == thread[t].pc \in JoinLocs \cup MoveLocs

\* The sectors the character of t is seen from, by what t has still to tell.
SeenFrom(t) ==
  LET old  == Around(info[Who(t)].old)
      cur  == Around(info[Who(t)].cur)
      todo == thread[t].todo
  IN CASE At(t, "acceptAdd") -> {}
       [] thread[t].pc \in {"announce", "frameShow"} -> cur \ todo
       [] thread[t].pc \in {"frameRemove", "frameAdd"} -> old
       [] At(t, "frameHide") -> (old \cap cur) \cup todo
       [] At(t, "frameForget") -> old \cap cur
       [] OTHER -> cur

\* The sectors its client sees.
SeesTo(t) ==
  LET old  == Around(info[Who(t)].old)
      cur  == Around(info[Who(t)].cur)
      todo == thread[t].todo
  IN CASE thread[t].pc \in {"acceptAdd", "announce"} -> {}
       [] thread[t].pc \in {"frameRemove", "frameAdd", "frameHide"} -> old
       [] At(t, "frameForget") -> (old \cap cur) \cup todo
       [] At(t, "frameShow") -> old \cap cur
       [] OTHER -> cur \ todo

Others(t) == mCharacterList \ {Who(t)}
Shows(c, d) == d \in DOMAIN view[c]

\* The others show the character of t if they are where it is seen from, and
\* its client shows those that are where it sees to, but the rest of the list
\* t is reading.
Seen(t) ==
  \A c \in Others(t) : HasSession(c) =>
    (Shows(c, Who(t)) <=> info[c].cur \in SeenFrom(t))
Sees(t) ==
  HasSession(Who(t)) => \A d \in Others(t) :
    Shows(Who(t), d) <=> info[d].cur \in SeesTo(t) /\ d \notin thread[t].rest
Settled(c, d) == HasSession(c) => (Shows(c, d) <=> Neighbours(c, d))

PictureInv ==
  /\ \A t \in Threads : Changing(t) => Seen(t) /\ Sees(t)
  /\ \A c, d \in mCharacterList :
       (c # d /\ \A t \in Threads : Changing(t) => Who(t) \notin {c, d}) => Settled(c, d)

\* Views are functions of other characters.  Whoever is not yet in the
\* container is shown to nobody, and a client shows nobody until its character
\* is on a sector.
ViewShape ==
  /\ view = [c \in Characters |-> view[c]]
  /\ \A c \in Characters :
       /\ view[c] = [d \in DOMAIN view[c] |-> view[c][d]]
       /\ DOMAIN view[c] \subseteq Characters \ {c}
ViewInv ==
  /\ ViewShape
  /\ \A c \in Characters : phase[c] \in {"none", "accepting"} /\ c \notin mCharacterList =>
       DOMAIN view[c] = {} /\ \A d \in Characters : ~Shows(d, c)
  /\ At(Acceptor, "acceptAdd") => DOMAIN view[Who(Acceptor)] = {}

\* The sectors t has still to visit, and the one it reads.
Visits(t) ==
  LET p == info[Who(t)]
      loop == IF t = Updater THEN AddSectors(p.old, p.cur) ELSE Around(p.cur) IN
  /\ At(t, "announce") => thread[t].todo # {}
  /\ thread[t].pc \in {"frameHide", "frameForget"} =>
       thread[t].todo \subseteq RemoveSectors(p.old, p.cur)
  /\ thread[t].pc \in {"announce", "meet", "frameShow", "frameMeet"} \cup ReadingLocs =>
       thread[t].todo \subseteq loop
  /\ thread[t].pc \in ReadingLocs =>
       /\ thread[t].sector \in loop \ thread[t].todo
       /\ Who(t) \notin thread[t].rest

\* What t tells of its character is what it does.
Tells(t) ==
  /\ thread[t].pc \in MoveLocs => info[Who(t)].action = Moving /\ ~Stayed(Who(t))
  /\ thread[t].pc \in {"find", "lock"} => thread[t].packet # "echo"
  /\ At(t, "tell") =>
       /\ thread[t].packet \in {"start", "stop"}
       /\ info[Who(t)].action = IF thread[t].packet = "start" THEN Moving ELSE Still

TurnInv == \A t \in Threads : Visits(t) /\ Tells(t)

\* A character is accepted standing; a session is released by some thread.
SessionInv ==
  /\ \A c \in Characters : phase[c] \in {"none", "accepting"} => info[c].action = Still
  /\ \A c \in Characters : phase[c] = "releasing" =>
       \E t \in EngineThreads : thread[t].pc \in LeaveLocs /\ Who(t) = c

\* A client that stays where it is shows a character that is off the lists only
\* until the loop of OnRelease has come to it.
Staying(c) == c \in mCharacterList /\ HasSession(c) /\ Stayed(c)
Leaving(c, d) ==
  \E t \in EngineThreads :
    /\ Who(t) = d
    /\ \/ At(t, "leaveWait") /\ Neighbours(c, d)
       \/ At(t, "leaveTell") /\ info[c].cur \in thread[t].todo
GoneInv ==
  \A c \in Characters : Staying(c) =>
    \A d \in DOMAIN view[c] \ mCharacterList : Leaving(c, d)

\* It shows what a character does, unless the loop that tells of the last
\* change has still to come to it.
ToBeTold(c, d) ==
  \E t \in Workers : At(t, "tell") /\ Who(t) = d /\ info[c].cur \in thread[t].todo
ActionInv ==
  \A c \in Characters : Staying(c) =>
    \A d \in DOMAIN view[c] \cap mCharacterList :
      view[c][d] = info[d].action \/ ToBeTold(c, d)

PInv ==
  /\ ViewInv
  /\ TurnInv
  /\ SessionInv
  /\ PictureInv
  /\ GoneInv
  /\ ActionInv
=============================================================================
