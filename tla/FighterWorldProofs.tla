------------------------- MODULE FighterWorldProofs -------------------------
(***************************************************************************)
(* FighterWorld: the sector lists, the character container, the deletions  *)
(* and the lock order, for every number of clients and workers, every map  *)
(* and every interleaving of the accept thread, the workers and the frame. *)
(*                                                                         *)
(* The properties lean on each other, so one invariant carries them all    *)
(* (FighterWorldInvariant).  A step changes the record of one thread; the  *)
(* frame lemmas say when a part of the invariant survives such a step, and *)
(* the lemma of an action then only has to look at what it really changes. *)
(* What clients show rests on a second invariant, PInv, proved on top of   *)
(* the first in the same way: the lemmas named after an action and Paints  *)
(* are its steps.                                                          *)
(***************************************************************************)
EXTENDS FighterWorldInvariant, WellFoundedInduction, TLAPS

\* A set of numbers that is not empty has a smallest one.
LEMMA Smallest ==
  ASSUME NEW T, T \subseteq Nat, T # {}
  PROVE  \E x \in T : \A y \in T : x <= y
<1> DEFINE R == OpToRel(<, Nat)
<1>1. PICK x \in T : \A y \in T : <<y, x>> \notin R
  <2>1. IsWellFoundedOn(R, Nat)
    BY NatLessThanWellFounded
  <2> HIDE DEF R
  <2> QED
    BY <2>1, WFMin
<1>2. \A y \in T : ~(y < x)
  BY <1>1 DEF OpToRel
<1> QED
  BY <1>2

\* The grid has a sector, NoSector is none, and what is around is on the grid.
LEMMA GridFacts ==
  /\ Width \in Nat \ {0} /\ Height \in Nat \ {0}
  /\ Sectors # {}
  /\ NoSector \notin Sectors
  /\ \A s, u : /\ SectorAround(s, TRUE) \subseteq Sectors
               /\ RemoveSectors(s, u) \subseteq Sectors
               /\ AddSectors(s, u) \subseteq Sectors
<1>1. Right \div SectorWidth \in Nat /\ Bottom \div SectorHeight \in Nat
  BY GridSizes
<1>2. Width \in Nat \ {0} /\ Height \in Nat \ {0}
  BY <1>1 DEF Width, Height
<1>3. [x |-> 0, y |-> 0] \in Sectors
  BY <1>2 DEF Sectors
<1>4. NoSector \notin Sectors
  BY DEF Sectors, NoSector
<1> QED
  BY <1>2, <1>3, <1>4 DEF SectorAround, RemoveSectors, AddSectors

\* Of some sectors one is the first.
LEMMA FirstIsMember ==
  ASSUME NEW S \in SUBSET Sectors, S # {}
  PROVE  First(S) \in S
<1>1. \A s \in S : s.x \in Nat /\ s.y \in Nat
  BY GridFacts DEF Sectors
<1>2. PICK m \in {s.y : s \in S} : \A s \in S : m <= s.y
  <2> DEFINE T == {s.y : s \in S}
  <2>1. T \subseteq Nat /\ T # {}
    BY <1>1
  <2>2. \E a \in T : \A b \in T : a <= b
    <3> HIDE DEF T
    <3> QED
      BY <2>1, Smallest
  <2> QED
    BY <2>2
<1>3. PICK f \in S : f.y = m /\ \A s \in S : s.y = m => f.x <= s.x
  <2> DEFINE T == {s.x : s \in {u \in S : u.y = m}}
  <2>1. T \subseteq Nat /\ T # {}
    BY <1>1, <1>2
  <2>2. \E a \in T : \A b \in T : a <= b
    <3> HIDE DEF T
    <3> QED
      BY <2>1, Smallest
  <2> QED
    BY <2>2
<1>4. \A s \in S : f.y < s.y \/ (f.y = s.y /\ f.x <= s.x)
  BY <1>1, <1>2, <1>3
<1> QED
  BY <1>4 DEF First

-----------------------------------------------------------------------------
\* What one thread's step leaves alone.

\* A step of thread t leaves the other threads where they are.
Only(t) ==
  /\ thread' \in [Threads -> ThreadType]
  /\ \A u \in Threads : u # t => thread'[u] = thread[u]

\* Thread t goes on to pc and keeps what it has loaded; only todo may change.
Goes(t, pc) ==
  /\ Only(t)
  /\ thread'[t].pc = pc
  /\ thread'[t].who = thread[t].who
  /\ thread'[t].other = thread[t].other
  /\ thread'[t].packet = thread[t].packet
  /\ thread'[t].rest = thread[t].rest
  /\ thread'[t].sector = thread[t].sector
  /\ thread'[t].copy = thread[t].copy

\* Every place a thread can be at.
Locs == {"idle"} \cup AcceptLocs \cup LeaveLocs \cup ReceiveLocs \cup FrameLocs

\* Goto moves one thread.
LEMMA GotoGoes ==
  ASSUME thread \in [Threads -> ThreadType], NEW t \in Threads, NEW pc \in Locs, Goto(t, pc)
  PROVE  Goes(t, pc)
BY DEF Goto, Goes, Only, ThreadType, Locs

\* GotoAround moves one thread and gives it sectors to visit.
LEMMA AroundGoes ==
  ASSUME thread \in [Threads -> ThreadType], NEW t \in Threads, NEW pc \in Locs,
         NEW S \in SUBSET Sectors, GotoAround(t, pc, S)
  PROVE  Goes(t, pc)
BY DEF GotoAround, Goes, Only, ThreadType, Locs

\* A thread that goes to code it runs, with the character that code needs, keeps
\* ThreadInv.
LEMMA ThreadFrame ==
  ASSUME ThreadInv, NEW t \in Threads, Only(t), WellPlaced(t, thread'[t])
  PROVE  ThreadInv'
BY DEF ThreadInv, Only, WellPlaced

\* The callback a place belongs to, in the words of the engine's phases.
Duty(pc) == IF pc \in AcceptLocs THEN "accepting"
            ELSE IF pc \in ReceiveLocs THEN "receiving"
            ELSE IF pc \in LeaveLocs THEN "releasing" ELSE "none"

\* The accept thread, the workers and UpdateThread are different threads.
LEMMA Roles ==
  /\ Threads = EngineThreads \cup {Updater}
  /\ Updater \notin EngineThreads
  /\ Acceptor \in EngineThreads /\ Workers \subseteq EngineThreads
  /\ Acceptor \notin Workers /\ NoThread \notin Threads
BY WorldConstants DEF Threads, EngineThreads

\* Thread t works for the same character before and after the step.
SameWho(t) == thread'[t].who = thread[t].who

\* A step inside a callback, or of a frame, keeps CallbackInv.
LEMMA CallbackFrame ==
  ASSUME CallbackInv, ThreadInv, ThreadInv', NEW t \in Threads, Only(t), UNCHANGED phase,
         t # Updater => SameWho(t) /\ Duty(thread'[t].pc) = Duty(thread[t].pc)
  PROVE  CallbackInv'
<1>1. CASE t = Updater
  BY <1>1, Roles DEF CallbackInv, Only, At, Who
<1>2. CASE t # Updater
  <2>1. /\ thread[t].pc \in AcceptLocs <=> thread'[t].pc \in AcceptLocs
        /\ thread[t].pc \in ReceiveLocs <=> thread'[t].pc \in ReceiveLocs
        /\ thread[t].pc \in LeaveLocs <=> thread'[t].pc \in LeaveLocs
    BY <1>2 DEF Duty, AcceptLocs, ReceiveLocs, LeaveLocs
  <2>2. /\ thread[t].pc \in {"idle"} \cup AcceptLocs \cup ReceiveLocs \cup LeaveLocs
        /\ thread'[t].pc \in {"idle"} \cup AcceptLocs \cup ReceiveLocs \cup LeaveLocs
    BY <1>2 DEF ThreadInv, WellPlaced, LocsOf
  <2>3. thread'[t].pc # "idle" => thread[t].pc # "idle"
    BY <2>1, <2>2 DEF AcceptLocs, ReceiveLocs, LeaveLocs
  <2> QED
    BY <1>2, <2>1, <2>3, Roles DEF CallbackInv, Only, SameWho, At, Who
<1> QED
  BY <1>1, <1>2

\* A step that neither takes nor leaves the container's lock keeps ContainerInv.
LEMMA ContainerFrame ==
  ASSUME ContainerInv, NEW t \in Threads, Only(t), UNCHANGED containerLock,
         thread'[t].pc \in WriterLocs <=> thread[t].pc \in WriterLocs,
         thread'[t].pc \in ReaderLocs <=> thread[t].pc \in ReaderLocs
  PROVE  ContainerInv'
BY DEF ContainerInv, Only

\* A step that neither takes nor leaves a character's lock keeps CharacterInv.
LEMMA CharacterFrame ==
  ASSUME CharacterInv, NEW t \in Threads, Only(t), UNCHANGED characterLock,
         \A c \in Characters : HasCharacter(t, c)' <=> HasCharacter(t, c)
  PROVE  CharacterInv'
BY DEF CharacterInv, Only, HasCharacter, At, Who

\* A step that changes neither the container nor a phase keeps MemberInv, unless it
\* passes a line where the character joins or leaves the container.
LEMMA MemberFrame ==
  ASSUME MemberInv, NEW t \in Threads, Only(t),
         UNCHANGED <<phase, mCharacterList, deleted>>,
         \/ t = Updater
         \/ /\ SameWho(t)
            /\ thread'[t].pc \in OutLocs => thread[t].pc \in OutLocs
            /\ thread'[t].pc \in InLocs => thread[t].pc \in InLocs
  PROVE  MemberInv'
BY Roles DEF MemberInv, Only, SameWho, Who

\* A step that leaves the container alone keeps FoundInv if what it carries is there.
LEMMA FoundFrame ==
  ASSUME FoundInv, NEW t \in Threads, Only(t), UNCHANGED mCharacterList,
         thread'[t].pc = "lockVictim" => thread'[t].other \in mCharacterList,
         t = Updater =>
           /\ thread'[t].pc \in FrameLocs => thread'[t].copy \subseteq mCharacterList
           /\ thread'[t].pc \in FrameLocs \ {"frame"} => thread'[t].who \in mCharacterList
  PROVE  FoundInv'
BY Roles DEF FoundInv, Only, At, Who

\* A step that changes neither a phase nor a character's lock keeps LastUserInv.
LEMMA LastUserFrame ==
  ASSUME LastUserInv, NEW t \in Threads, Only(t), UNCHANGED <<phase, characterLock>>,
         thread'[t].pc = "leaveTell" => thread[t].pc = "leaveTell" /\ SameWho(t)
  PROVE  LastUserInv'
BY Roles DEF LastUserInv, Only, SameWho, At, Who, CharacterFree

\* A step outside the reading of a list keeps ReadingInv: a list only changes while
\* nobody reads it.
LEMMA ReadingFrame ==
  ASSUME ReadingInv, NEW t \in Threads, Only(t),
         \A s \in Sectors : mSectorList'[s] = mSectorList[s] \/ SectorFree(s),
         thread[t].pc \notin ReadingLocs, thread'[t].pc \notin ReadingLocs,
         thread'[t].rest = thread[t].rest, thread'[t].sector = thread[t].sector
  PROVE  ReadingInv'
BY DEF ReadingInv, Only, SectorFree, At, ReadingLocs

\* A step that moves no character and changes no list keeps SectorListsExact.
LEMMA SectorFrame ==
  ASSUME SectorListsExact, NEW t \in Threads, Only(t),
         UNCHANGED <<mCharacterList, mSectorList>>,
         \A c \in Characters : info'[c].cur = info[c].cur /\ info'[c].old = info[c].old,
         thread[t].pc \notin {"acceptAdd", "frameAdd", "frameRemove"},
         thread'[t].pc \notin {"acceptAdd", "frameAdd", "frameRemove"}
  PROVE  SectorListsExact'
<1>1. \A c \in Characters :
        (\A u \in Threads :
           thread'[u].who = c => thread'[u].pc \notin {"acceptAdd", "frameAdd"})
        <=>
        (\A u \in Threads :
           thread[u].who = c => thread[u].pc \notin {"acceptAdd", "frameAdd"})
  BY DEF Only
<1>2. \A c \in Characters :
        (thread'[Updater].pc = "frameRemove" /\ thread'[Updater].who = c)
        <=> (thread[Updater].pc = "frameRemove" /\ thread[Updater].who = c)
  BY Roles DEF Only
<1> QED
  BY <1>1, <1>2 DEF SectorListsExact, At, Who

\* A step of a thread's own keeps the type invariant.
LEMMA TypeFrame ==
  ASSUME TypeOK, UNCHANGED <<phase, locks, world, packets>>
  PROVE  TypeOK'
BY DEF TypeOK, locks, world

\* Thread t reads the same list, and as much is left of it.
SameList(t) ==
  /\ thread'[t].rest = thread[t].rest
  /\ thread'[t].sector = thread[t].sector

\* Thread t starts a callback of c, or a frame's turn of c, at pc.
Starts(t, pc, c) ==
  /\ Only(t)
  /\ thread'[t].pc = pc
  /\ thread'[t].who = c
  /\ thread'[t].other = thread[t].other
  /\ SameList(t)

\* Thread t returns from what it ran.
Ends(t) == Only(t) /\ thread'[t] = Idle

\* The last broadcast of OnRelease, and its return.
LeaveEnds(t) ==
  /\ At(t, "leaveTell")
  /\ Ends(t)
  /\ deleted' = deleted \cup {Who(t)}
  /\ Engine!OnReleaseReturns(Who(t))
  /\ UNCHANGED <<locks, mCharacterList, mSectorList, info, packets>>

\* The last broadcast of a move, and the return from OnRecv.
MoveEnds(t) ==
  /\ At(t, "tell")
  /\ Ends(t)
  /\ UnlockCharacter(Who(t))
  /\ Engine!OnRecvReturns(Who(t))
  /\ UNCHANGED <<containerLock, world, packets>>

\* Return ends what the thread ran.
LEMMA ReturnEnds ==
  ASSUME thread \in [Threads -> ThreadType], NEW t \in Threads, Return(t)
  PROVE  Ends(t)
<1>1. Idle \in ThreadType
  BY DEF Idle, ThreadType, Packets
<1> QED
  BY <1>1 DEF Return, Ends, Only

\* The start of a callback keeps CallbackInv: the engine starts one only while none
\* runs for that session.
LEMMA CallbackStarts ==
  ASSUME CallbackInv, ThreadInv, ThreadInv', NEW t \in EngineThreads,
         NEW pc, NEW c \in Characters,
         phase \in [Characters -> Engine!Phases],
         At(t, "idle"), Starts(t, pc, c), Duty(pc) \in Engine!Phases,
         phase[c] \in {"none", "open"}, phase' = [phase EXCEPT ![c] = Duty(pc)]
  PROVE  CallbackInv'
<1>1. \A u \in EngineThreads : u # t /\ ~At(u, "idle") => Who(u) # c
  BY Roles DEF CallbackInv, ThreadInv, WellPlaced, LocsOf, At, Who
<1>2. \A u \in EngineThreads : At(u, "idle") <=> Duty(thread[u].pc) = "none"
  BY Roles DEF ThreadInv, WellPlaced, LocsOf, At, Duty, AcceptLocs, ReceiveLocs, LeaveLocs
<1>3. \A u \in EngineThreads : u # t => thread'[u] = thread[u]
  BY Roles DEF Starts, Only
<1>4. \A u \in EngineThreads : ~At(u, "idle") => phase[Who(u)] = Duty(thread[u].pc)
  BY <1>2, Roles DEF CallbackInv, ThreadInv, WellPlaced, LocsOf, At, Duty, Who
<1> QED
  BY <1>1, <1>2, <1>3, <1>4
  DEF CallbackInv, Starts, Duty, At, Who, AcceptLocs, ReceiveLocs, LeaveLocs

\* The return from a callback keeps CallbackInv.
LEMMA CallbackEnds ==
  ASSUME CallbackInv, ThreadInv, NEW t \in EngineThreads, NEW to,
         phase \in [Characters -> Engine!Phases],
         ~At(t, "idle"), Ends(t), phase' = [phase EXCEPT ![Who(t)] = to]
  PROVE  CallbackInv'
<1>1. \A u \in EngineThreads : u # t /\ ~At(u, "idle") =>
        Who(u) # Who(t) /\ Who(u) \in Characters
  BY Roles
  DEF CallbackInv, ThreadInv, WellPlaced, LocsOf, At, Who, FrameLocs, AcceptLocs,
      ReceiveLocs, LeaveLocs
<1>2. \A u \in EngineThreads : u # t => thread'[u] = thread[u]
  BY Roles DEF Ends, Only
<1>3. thread'[t].pc = "idle"
  BY DEF Ends, Idle
<1> QED
  BY <1>1, <1>2, <1>3 DEF CallbackInv, At, Who, AcceptLocs, ReceiveLocs, LeaveLocs

\* Whom an attack may hit are characters.
LEMMA VictimsAreCharacters ==
  ASSUME TypeOK, NEW c
  PROVE  Victims(c) \subseteq Characters
<1>1. \A s \in SectorAround(info[c].cur, TRUE) : mSectorList[s] \subseteq Characters
  BY GridFacts DEF TypeOK
<1> QED
  BY <1>1 DEF Victims

\* SectorListsExact for one character.
OnItsSector(c) ==
  \A s \in Sectors :
    c \in mSectorList[s] <=>
      /\ c \in mCharacterList
      /\ \A t \in Threads : Who(t) = c => thread[t].pc \notin {"acceptAdd", "frameAdd"}
      /\ s = IF At(Updater, "frameRemove") /\ Who(Updater) = c
             THEN info[c].old ELSE info[c].cur

\* SectorListsExact is OnItsSector of every character.
LEMMA ExactByCharacter ==
  /\ SectorListsExact <=> \A c \in Characters : OnItsSector(c)
  /\ SectorListsExact' <=> \A c \in Characters : OnItsSector(c)'
BY DEF SectorListsExact, OnItsSector

\* A step for another character leaves OnItsSector of c alone.
LEMMA OthersStay ==
  ASSUME NEW t \in Threads, Only(t), SameWho(t),
         NEW c \in Characters, c # Who(t), OnItsSector(c),
         c \in mCharacterList' <=> c \in mCharacterList,
         \A s \in Sectors : c \in mSectorList'[s] <=> c \in mSectorList[s],
         info'[c].cur = info[c].cur, info'[c].old = info[c].old
  PROVE  OnItsSector(c)'
<1>1. (\A u \in Threads :
         thread'[u].who = c => thread'[u].pc \notin {"acceptAdd", "frameAdd"})
      <=>
      (\A u \in Threads :
         thread[u].who = c => thread[u].pc \notin {"acceptAdd", "frameAdd"})
  BY DEF Only, SameWho, Who
<1>2. (thread'[Updater].pc = "frameRemove" /\ thread'[Updater].who = c)
      <=> (thread[Updater].pc = "frameRemove" /\ thread[Updater].who = c)
  BY Roles DEF Only, SameWho, Who
<1> QED
  BY <1>1, <1>2 DEF OnItsSector, At, Who

-----------------------------------------------------------------------------
\* The actions that change what threads share.

\* OnAccept begins: the character has its sector, and is on no list yet.
LEMMA OnAcceptKeeps ==
  ASSUME IInv, NEW c \in Characters, OnAccept(c)
  PROVE  IInv'
<1>1. Acceptor \in Threads /\ thread \in [Threads -> ThreadType]
  BY Roles DEF IInv, ThreadInv
<1>2. Starts(Acceptor, "acceptLock", c)
  <2> DEFINE r == [thread[Acceptor] EXCEPT !.pc = "acceptLock", !.who = c]
  <2>1. thread' = [thread EXCEPT ![Acceptor] = r]
    BY <1>1 DEF OnAccept
  <2>2. r \in ThreadType
    BY <1>1, ZenonT(30) DEF ThreadType, AcceptLocs, LeaveLocs, ReceiveLocs
  <2> QED
    BY <1>1, <2>1, <2>2 DEF Starts, Only, SameList
<1>3. ThreadInv'
  BY <1>1, <1>2, Roles, ThreadFrame DEF IInv, ThreadInv, OnAccept, AcceptLocs,
     At, LocsOf, Starts, WellPlaced
<1>4. TypeOK'
  <2>1. PICK s \in Sectors : info' = [info EXCEPT ![c].cur = s, ![c].old = s]
    BY DEF OnAccept
  <2>2. info' = [info EXCEPT ![c] = [@ EXCEPT !.cur = s, !.old = s]]
    BY <2>1
  <2>3. info' \in [Characters -> [action : {Still, Moving}, cur : Sectors, old : Sectors]]
    BY <2>2 DEF IInv, TypeOK
  <2> QED
    BY <2>3
    DEF IInv, TypeOK, OnAccept, Engine!OnAcceptStarts, Engine!Step, Engine!Phases,
        locks
<1>5. CallbackInv'
  BY <1>2, <1>3, Roles, CallbackStarts DEF IInv, TypeOK, OnAccept, Duty,
     Engine!Phases, Engine!OnAcceptStarts, Engine!Step, AcceptLocs, LeaveLocs, ReceiveLocs
<1>6. ContainerInv'
  BY <1>1, <1>2, Roles, ContainerFrame DEF IInv, OnAccept, At, FrameLocs,
     MoveLocs, ReaderLocs, Starts, WriterLocs, locks
<1>7. CharacterInv'
  BY <1>1, <1>2, Roles, CharacterFrame DEF IInv, OnAccept, At, HasCharacter,
     MoveLocs, Starts, locks
<1>8. MemberInv'
  BY <1>1, <1>2, Roles DEF IInv, MemberInv, OnAccept, Engine!OnAcceptStarts,
     Engine!Step, InLocs, Who
<1>9. FoundInv'
  BY <1>1, <1>2, Roles, FoundFrame DEF IInv, OnAccept, Starts
<1>10. LastUserInv'
  BY <1>1, <1>2, Roles DEF IInv, LastUserInv, OnAccept, At, CharacterFree,
     Engine!OnAcceptStarts, Engine!Step, Who, locks
<1>11. ReadingInv'
  BY <1>1, <1>2, ReadingFrame DEF IInv, OnAccept, At, ReadingLocs, Starts
<1>12. SectorListsExact'
  <2>1. c \notin mCharacterList
    BY DEF IInv, MemberInv, OnAccept, Engine!OnAcceptStarts, Engine!Step
  <2>2. /\ thread[Acceptor].pc = "idle"
        /\ thread'[Acceptor].pc = "acceptLock"
        /\ \A u \in Threads : u # Acceptor => thread'[u] = thread[u]
    BY <1>2 DEF OnAccept, Starts, Only, At
  <2>3. ASSUME NEW d \in Characters, d # c
        PROVE  OnItsSector(d)'
    <3>1. info'[d] = info[d]
      BY <2>3 DEF IInv, TypeOK, OnAccept
    <3>2. (\A u \in Threads :
             thread'[u].who = d => thread'[u].pc \notin {"acceptAdd", "frameAdd"})
          <=>
          (\A u \in Threads :
             thread[u].who = d => thread[u].pc \notin {"acceptAdd", "frameAdd"})
      BY <2>2
    <3>3. thread'[Updater] = thread[Updater]
      BY <2>2, Roles
    <3>4. OnItsSector(d)
      BY ExactByCharacter DEF IInv
    <3> QED
      BY <3>1, <3>2, <3>3, <3>4 DEF OnAccept, OnItsSector, At, Who
  <2>4. OnItsSector(c)'
    BY <2>1, ExactByCharacter DEF IInv, OnAccept, OnItsSector
  <2> QED
    BY <2>3, <2>4, ExactByCharacter
<1> QED
  BY <1>3, <1>4, <1>5, <1>6, <1>7, <1>8, <1>9, <1>10, <1>11, <1>12 DEF IInv

\* OnAccept locks the container and adds the character.
LEMMA AcceptAddsKeeps ==
  ASSUME IInv, AcceptAdds
  PROVE  IInv'
<1>1. Acceptor \in Threads /\ thread \in [Threads -> ThreadType]
  BY Roles DEF IInv, ThreadInv
<1>2. Goes(Acceptor, "acceptAdd")
  BY <1>1, GotoGoes DEF AcceptAdds, Locs, AcceptLocs
<1>3. ThreadInv'
  BY <1>1, <1>2, Roles, ThreadFrame DEF IInv, ThreadInv, AcceptAdds,
     AcceptLocs, At, Goes, LocsOf, WellPlaced
<1>4. TypeOK'
  <2>1. Who(Acceptor) \in Characters
    BY <1>1 DEF IInv, ThreadInv, WellPlaced, AcceptAdds, At, Who
  <2> QED
    BY <1>1, <2>1 DEF IInv, TypeOK, AcceptAdds, LockContainer
<1>5. CallbackInv'
  BY <1>1, <1>2, <1>3, Roles DEF IInv, CallbackInv, AcceptAdds, AcceptLocs,
     At, Goes, LeaveLocs, Only, ReceiveLocs, Who
<1>6. ContainerInv'
  BY <1>1, <1>2, Roles DEF IInv, ContainerInv, AcceptAdds, FrameLocs, Goes,
     LockContainer, MoveLocs, Only, ReaderLocs, WriterLocs
<1>7. CharacterInv'
  BY <1>1, <1>2, CharacterFrame DEF IInv, AcceptAdds, At, Goes, HasCharacter,
     MoveLocs
<1>8. MemberInv'
  BY <1>1, <1>2, Roles DEF IInv, TypeOK, ThreadInv, CallbackInv, MemberInv,
     AcceptAdds, AcceptLocs, At, FrameLocs, Goes, Only, OutLocs, Who
<1>9. FoundInv'
  BY <1>1, <1>2, Roles DEF IInv, FoundInv, AcceptAdds, At, Goes, Only, Who
<1>10. LastUserInv'
  BY <1>1, <1>2, LastUserFrame DEF IInv, AcceptAdds, Goes
<1>11. ReadingInv'
  BY <1>1, <1>2, ReadingFrame DEF IInv, AcceptAdds, At, Goes, ReadingLocs
<1>12. SectorListsExact'
  <2>1. PICK c \in Characters : c = Who(Acceptor)
    BY <1>1 DEF IInv, ThreadInv, WellPlaced, AcceptAdds, At, Who
  <2>2. ASSUME NEW d \in Characters, d # c
        PROVE  OnItsSector(d)'
    BY <1>1, <1>2, <2>1, <2>2, ExactByCharacter, OthersStay
    DEF IInv, TypeOK, AcceptAdds, Goes, SameWho, Sector_AddCharacter,
        Sector_RemoveCharacter, world
  <2>3. OnItsSector(c)'
    <3>1. \A s \in Sectors : c \notin mSectorList[s]
      BY <1>1, <2>1, Roles
      DEF IInv, SectorListsExact, MemberInv, OutLocs, AcceptAdds, At, Who
    <3> QED
      BY <1>1, <1>2, <2>1, <3>1 DEF AcceptAdds, OnItsSector, Goes, At, Who
  <2> QED
    BY <2>2, <2>3, ExactByCharacter
<1> QED
  BY <1>3, <1>4, <1>5, <1>6, <1>7, <1>8, <1>9, <1>10, <1>11, <1>12 DEF IInv

\* OnAccept puts the character on the list of its sector.
LEMMA AcceptAddsToSectorKeeps ==
  ASSUME IInv, AcceptAddsToSector
  PROVE  IInv'
<1>1. Acceptor \in Threads /\ thread \in [Threads -> ThreadType]
  BY Roles DEF IInv, ThreadInv
<1>2. Goes(Acceptor, "announce")
  BY <1>1, AroundGoes, GridFacts DEF AcceptAddsToSector, Locs, AcceptLocs
<1>3. ThreadInv'
  BY <1>1, <1>2, Roles, ThreadFrame DEF IInv, ThreadInv, AcceptAddsToSector,
     AcceptLocs, At, Goes, LocsOf, WellPlaced
<1>4. TypeOK'
  <2>1. Who(Acceptor) \in Characters
    BY <1>1 DEF IInv, ThreadInv, WellPlaced, AcceptAddsToSector, At, Who
  <2> QED
    BY <1>1, <2>1 DEF IInv, TypeOK, AcceptAddsToSector, Sector_AddCharacter, locks
<1>5. CallbackInv'
  BY <1>1, <1>2, <1>3, Roles DEF IInv, CallbackInv, AcceptAddsToSector,
     AcceptLocs, At, Goes, LeaveLocs, Only, ReceiveLocs, Who
<1>6. ContainerInv'
  BY <1>1, <1>2, Roles, ContainerFrame DEF IInv, AcceptAddsToSector, At,
     FrameLocs, Goes, MoveLocs, ReaderLocs, WriterLocs, locks
<1>7. CharacterInv'
  BY <1>1, <1>2, CharacterFrame DEF IInv, AcceptAddsToSector, At, Goes,
     HasCharacter, MoveLocs, locks
<1>8. MemberInv'
  BY <1>1, <1>2, Roles DEF IInv, MemberInv, AcceptAddsToSector, At, Goes,
     InLocs, Only, OutLocs, Who
<1>9. FoundInv'
  BY <1>1, <1>2, Roles, FoundFrame DEF IInv, AcceptAddsToSector, Goes
<1>10. LastUserInv'
  BY <1>1, <1>2, LastUserFrame DEF IInv, AcceptAddsToSector, Goes, locks
<1>11. ReadingInv'
  BY <1>1, <1>2, ReadingFrame DEF IInv, AcceptAddsToSector, At, Goes,
     ReadingLocs, Sector_AddCharacter
<1>12. SectorListsExact'
  <2>1. PICK c \in Characters : c = Who(Acceptor)
    BY <1>1 DEF IInv, ThreadInv, WellPlaced, AcceptAddsToSector, At, Who
  <2>2. ASSUME NEW d \in Characters, d # c
        PROVE  OnItsSector(d)'
    BY <1>1, <1>2, <2>1, <2>2, ExactByCharacter, OthersStay
    DEF IInv, TypeOK, AcceptAddsToSector, Goes, SameWho, Sector_AddCharacter,
        Sector_RemoveCharacter, world
  <2>3. OnItsSector(c)'
    <3>1. \A u \in Threads : u # Acceptor /\ Who(u) = c =>
            thread[u].pc \notin {"acceptAdd", "frameAdd", "frameRemove"}
      BY <1>1, <2>1, Roles
      DEF IInv, ContainerInv, WriterLocs, ReaderLocs, FrameLocs, MoveLocs,
          AcceptAddsToSector, At, Who
    <3>2. c \in mCharacterList /\ \A s \in Sectors : c \notin mSectorList[s]
      BY <1>1, <2>1, Roles
      DEF IInv, SectorListsExact, MemberInv, InLocs, AcceptAddsToSector, At, Who
    <3> QED
      BY <1>1, <1>2, <2>1, <3>1, <3>2, Roles
      DEF IInv, TypeOK, AcceptAddsToSector, Sector_AddCharacter, OnItsSector, Goes,
          Only, At, Who
  <2> QED
    BY <2>2, <2>3, ExactByCharacter
<1> QED
  BY <1>3, <1>4, <1>5, <1>6, <1>7, <1>8, <1>9, <1>10, <1>11, <1>12 DEF IInv

\* OnAccept unlocks the container and returns: the session is open.
LEMMA AcceptReturnsKeeps ==
  ASSUME IInv, AcceptReturns
  PROVE  IInv'
<1>1. Acceptor \in Threads /\ thread \in [Threads -> ThreadType]
  BY Roles DEF IInv, ThreadInv
<1>2. Ends(Acceptor)
  BY <1>1, ReturnEnds DEF AcceptReturns
<1>3. ThreadInv'
  BY <1>1, <1>2, Roles, ThreadFrame DEF IInv, ThreadInv, AcceptReturns,
     AcceptLocs, At, Ends, Idle, LocsOf, WellPlaced
<1>4. TypeOK'
  BY <1>1 DEF IInv, TypeOK, AcceptReturns, Engine!OnAcceptReturns,
     Engine!Phases, Engine!Step, UnlockContainer, world
<1>5. CallbackInv'
  BY <1>2, Roles, CallbackEnds
  DEF IInv, TypeOK, AcceptReturns, At, Who, Engine!OnAcceptReturns, Engine!Step
<1>6. ContainerInv'
  BY <1>1, <1>2, Roles DEF IInv, ContainerInv, AcceptReturns, At, Ends,
     FrameLocs, Idle, MoveLocs, Only, ReaderLocs, UnlockContainer, WriterLocs
<1>7. CharacterInv'
  BY <1>1, <1>2, CharacterFrame DEF IInv, AcceptReturns, At, Ends,
     HasCharacter, Idle, MoveLocs
<1>8. MemberInv'
  BY <1>1, <1>2, Roles DEF IInv, MemberInv, AcceptReturns, At, Ends,
     Engine!OnAcceptReturns, Engine!Step, Idle, InLocs, Only, OutLocs, Who,
     world
<1>9. FoundInv'
  BY <1>1, <1>2, Roles, FoundFrame DEF IInv, AcceptReturns, Ends, Idle, world
<1>10. LastUserInv'
  BY <1>1, <1>2, Roles DEF IInv, LastUserInv, AcceptReturns, At,
     CharacterFree, Ends, Engine!OnAcceptReturns, Engine!Step, Idle, Only, Who
<1>11. ReadingInv'
  BY <1>1, <1>2 DEF IInv, ReadingInv, AcceptReturns, At, Ends, Idle, Only,
     ReadingLocs, world
<1>12. SectorListsExact'
  BY <1>1, <1>2, Roles DEF IInv, SectorListsExact, AcceptReturns, At, Ends,
     Idle, Only, Who, world
<1> QED
  BY <1>3, <1>4, <1>5, <1>6, <1>7, <1>8, <1>9, <1>10, <1>11, <1>12 DEF IInv

\* OnRelease begins, on whichever thread dropped the last reference.
LEMMA OnReleaseKeeps ==
  ASSUME IInv, NEW t \in EngineThreads, NEW c \in Characters, OnRelease(t, c)
  PROVE  IInv'
<1>1. t \in Threads /\ thread \in [Threads -> ThreadType]
  BY Roles DEF IInv, ThreadInv
<1>2. Starts(t, "leaveLock", c)
  <2> DEFINE r == [thread[t] EXCEPT !.pc = "leaveLock", !.who = c]
  <2>1. thread' = [thread EXCEPT ![t] = r]
    BY <1>1 DEF OnRelease
  <2>2. r \in ThreadType
    BY <1>1, ZenonT(30) DEF ThreadType, AcceptLocs, LeaveLocs, ReceiveLocs
  <2> QED
    BY <1>1, <2>1, <2>2 DEF Starts, Only, SameList
<1>3. ThreadInv'
  BY <1>1, <1>2, Roles, ThreadFrame DEF IInv, ThreadInv, OnRelease,
     AcceptLocs, At, LeaveLocs, LocsOf, Starts, WellPlaced
<1>4. TypeOK'
  BY <1>1 DEF IInv, TypeOK, OnRelease, Engine!OnReleaseStarts, Engine!Phases,
     Engine!Step, locks, world
<1>5. CallbackInv'
  BY <1>2, <1>3, Roles, CallbackStarts
  DEF IInv, TypeOK, OnRelease, Duty, Engine!Phases, Engine!OnReleaseStarts,
      Engine!Step, AcceptLocs, LeaveLocs, ReceiveLocs
<1>6. ContainerInv'
  BY <1>1, <1>2, Roles, ContainerFrame DEF IInv, OnRelease, At, FrameLocs,
     MoveLocs, ReaderLocs, Starts, WriterLocs, locks
<1>7. CharacterInv'
  BY <1>1, <1>2, Roles, CharacterFrame DEF IInv, OnRelease, At, HasCharacter,
     MoveLocs, Starts, locks
<1>8. MemberInv'
  BY <1>1, <1>2, Roles DEF IInv, MemberInv, OnRelease, At,
     Engine!OnReleaseStarts, Engine!Step, OutLocs, Who, world
<1>9. FoundInv'
  BY <1>1, <1>2, Roles, FoundFrame DEF IInv, OnRelease, Starts, world
<1>10. LastUserInv'
  BY <1>1, <1>2, Roles DEF IInv, LastUserInv, OnRelease, At, CharacterFree,
     Engine!OnReleaseStarts, Engine!Step, Who, locks
<1>11. ReadingInv'
  BY <1>1, <1>2, ReadingFrame DEF IInv, OnRelease, At, ReadingLocs, Starts,
     world
<1>12. SectorListsExact'
  BY <1>1, <1>2, Roles DEF IInv, SectorListsExact, OnRelease, At, Who, world
<1> QED
  BY <1>3, <1>4, <1>5, <1>6, <1>7, <1>8, <1>9, <1>10, <1>11, <1>12 DEF IInv

\* OnRelease locks the container and takes the character out.
LEMMA LeaveLocksKeeps ==
  ASSUME IInv, NEW t \in EngineThreads, LeaveLocks(t)
  PROVE  IInv'
<1>1. t \in Threads /\ thread \in [Threads -> ThreadType]
  BY Roles DEF IInv, ThreadInv
<1>2. Goes(t, "leaveRemove")
  BY <1>1, GotoGoes DEF LeaveLocks, Locs, LeaveLocs
<1>3. ThreadInv'
  BY <1>1, <1>2, Roles, ThreadFrame DEF IInv, ThreadInv, LeaveLocks,
     AcceptLocs, At, Goes, LeaveLocs, LocsOf, WellPlaced
<1>4. TypeOK'
  BY <1>1 DEF IInv, TypeOK, LeaveLocks, LockContainer, world
<1>5. CallbackInv'
  BY <1>1, <1>2, <1>3, Roles DEF IInv, CallbackInv, LeaveLocks, AcceptLocs,
     At, Goes, LeaveLocs, Only, ReceiveLocs, Who
<1>6. ContainerInv'
  BY <1>1, <1>2, Roles DEF IInv, ContainerInv, LeaveLocks, FrameLocs, Goes,
     LockContainer, MoveLocs, Only, ReaderLocs, WriterLocs
<1>7. CharacterInv'
  BY <1>1, <1>2, CharacterFrame DEF IInv, LeaveLocks, At, Goes, HasCharacter,
     MoveLocs
<1>8. MemberInv'
  BY <1>1, <1>2, Roles DEF IInv, MemberInv, LeaveLocks, At, Goes, InLocs,
     Only, OutLocs, Who, world
<1>9. FoundInv'
  BY <1>1, <1>2, Roles, FoundFrame DEF IInv, LeaveLocks, Goes, world
<1>10. LastUserInv'
  BY <1>1, <1>2, LastUserFrame DEF IInv, LeaveLocks, Goes
<1>11. ReadingInv'
  BY <1>1, <1>2, ReadingFrame DEF IInv, LeaveLocks, At, Goes, ReadingLocs,
     world
<1>12. SectorListsExact'
  BY <1>1, <1>2, Roles DEF IInv, SectorListsExact, LeaveLocks, At, Goes, Only,
     Who, world
<1> QED
  BY <1>3, <1>4, <1>5, <1>6, <1>7, <1>8, <1>9, <1>10, <1>11, <1>12 DEF IInv

\* OnRelease takes the character off the list of its sector.
LEMMA LeaveRemovesKeeps ==
  ASSUME IInv, NEW t \in EngineThreads, LeaveRemoves(t)
  PROVE  IInv'
<1>1. t \in Threads /\ thread \in [Threads -> ThreadType]
  BY Roles DEF IInv, ThreadInv
<1>2. Goes(t, "leaveWait")
  BY <1>1, GotoGoes DEF LeaveRemoves, Locs, LeaveLocs
<1>3. ThreadInv'
  BY <1>1, <1>2, Roles, ThreadFrame DEF IInv, ThreadInv, LeaveRemoves,
     AcceptLocs, At, Goes, LeaveLocs, LocsOf, WellPlaced
<1>4. TypeOK'
  BY <1>1 DEF IInv, TypeOK, LeaveRemoves, Sector_RemoveCharacter, locks
<1>5. CallbackInv'
  BY <1>1, <1>2, <1>3, Roles DEF IInv, CallbackInv, LeaveRemoves, AcceptLocs,
     At, Goes, LeaveLocs, Only, ReceiveLocs, Who
<1>6. ContainerInv'
  BY <1>1, <1>2, Roles, ContainerFrame DEF IInv, LeaveRemoves, At, FrameLocs,
     Goes, MoveLocs, ReaderLocs, WriterLocs, locks
<1>7. CharacterInv'
  BY <1>1, <1>2, CharacterFrame DEF IInv, LeaveRemoves, At, Goes,
     HasCharacter, MoveLocs, locks
<1>8. MemberInv'
  BY <1>1, <1>2, Roles DEF IInv, TypeOK, ThreadInv, CallbackInv, MemberInv,
     LeaveRemoves, AcceptLocs, At, FrameLocs, Goes, InLocs, LeaveLocs, Only,
     Who
<1>9. FoundInv'
  <2>1. thread[Updater].pc \notin FrameLocs
    BY <1>1, Roles DEF IInv, ContainerInv, ReaderLocs, WriterLocs, LeaveRemoves, At
  <2>2. \A u \in Threads : thread[u].pc # "lockVictim"
    BY <1>1, Roles DEF IInv, ContainerInv, ReaderLocs, WriterLocs, LeaveRemoves, At
  <2> QED
    BY <1>2, <2>1, <2>2, Roles DEF IInv, FoundInv, Goes, Only, At, FrameLocs, MoveLocs
<1>10. LastUserInv'
  BY <1>1, <1>2, LastUserFrame DEF IInv, LeaveRemoves, Goes, locks
<1>11. ReadingInv'
  BY <1>1, <1>2, ReadingFrame DEF IInv, LeaveRemoves, At, Goes, ReadingLocs,
     Sector_RemoveCharacter
<1>12. SectorListsExact'
  <2>1. PICK c \in Characters : c = Who(t)
    BY <1>1 DEF IInv, ThreadInv, WellPlaced, LeaveRemoves, At, Who
  <2>2. ASSUME NEW d \in Characters, d # c
        PROVE  OnItsSector(d)'
    BY <1>1, <1>2, <2>1, <2>2, ExactByCharacter, OthersStay
    DEF IInv, TypeOK, LeaveRemoves, Goes, SameWho, Sector_AddCharacter,
        Sector_RemoveCharacter, world
  <2>3. OnItsSector(c)'
    <3>1. \A s \in Sectors : c \in mSectorList[s] => s = info[c].cur
      <4>1. thread[Updater].pc # "frameRemove"
        BY <1>1, Roles
        DEF IInv, ContainerInv, WriterLocs, ReaderLocs, FrameLocs, MoveLocs,
            LeaveRemoves, At
      <4> QED
        BY <2>1, <4>1 DEF IInv, SectorListsExact, At
    <3> QED
      BY <1>1, <2>1, <3>1
      DEF IInv, TypeOK, LeaveRemoves, Sector_RemoveCharacter, OnItsSector
  <2> QED
    BY <2>2, <2>3, ExactByCharacter
<1> QED
  BY <1>3, <1>4, <1>5, <1>6, <1>7, <1>8, <1>9, <1>10, <1>11, <1>12 DEF IInv

\* OnRelease waits for the character's last user and unlocks the container.
LEMMA LeaveWaitsKeeps ==
  ASSUME IInv, NEW t \in EngineThreads, LeaveWaits(t)
  PROVE  IInv'
<1>1. t \in Threads /\ thread \in [Threads -> ThreadType]
  BY Roles DEF IInv, ThreadInv
<1>2. Goes(t, "leaveTell")
  BY <1>1, AroundGoes, GridFacts DEF LeaveWaits, Locs, LeaveLocs
<1>3. ThreadInv'
  BY <1>1, <1>2, Roles, ThreadFrame DEF IInv, ThreadInv, LeaveWaits,
     AcceptLocs, At, Goes, LeaveLocs, LocsOf, WellPlaced
<1>4. TypeOK'
  BY <1>1 DEF IInv, TypeOK, LeaveWaits, UnlockContainer, world
<1>5. CallbackInv'
  BY <1>1, <1>2, <1>3, Roles DEF IInv, CallbackInv, LeaveWaits, AcceptLocs,
     At, Goes, LeaveLocs, Only, ReceiveLocs, Who
<1>6. ContainerInv'
  BY <1>1, <1>2, Roles DEF IInv, ContainerInv, LeaveWaits, At, FrameLocs,
     Goes, MoveLocs, Only, ReaderLocs, UnlockContainer, WriterLocs
<1>7. CharacterInv'
  BY <1>1, <1>2, CharacterFrame DEF IInv, LeaveWaits, At, Goes, HasCharacter,
     MoveLocs
<1>8. MemberInv'
  BY <1>1, <1>2, Roles DEF IInv, MemberInv, LeaveWaits, At, Goes, InLocs,
     Only, OutLocs, Who, world
<1>9. FoundInv'
  BY <1>1, <1>2, Roles, FoundFrame DEF IInv, LeaveWaits, Goes, world
<1>10. LastUserInv'
  BY <1>1, <1>2, Roles DEF IInv, LastUserInv, LeaveWaits, At, CharacterFree,
     Goes, Only, Who
<1>11. ReadingInv'
  BY <1>1, <1>2, ReadingFrame DEF IInv, LeaveWaits, At, Goes, ReadingLocs,
     world
<1>12. SectorListsExact'
  BY <1>1, <1>2, Roles DEF IInv, SectorListsExact, LeaveWaits, At, Goes, Only,
     Who, world
<1> QED
  BY <1>3, <1>4, <1>5, <1>6, <1>7, <1>8, <1>9, <1>10, <1>11, <1>12 DEF IInv

\* OnRelease deletes the character after its last broadcast and returns.
LEMMA LeaveEndsKeeps ==
  ASSUME IInv, NEW t \in EngineThreads, LeaveEnds(t)
  PROVE  IInv'
<1>1. t \in Threads /\ thread \in [Threads -> ThreadType]
  BY Roles DEF IInv, ThreadInv
<1>2. Ends(t)
  BY DEF LeaveEnds
<1>3. ThreadInv'
  BY <1>1, <1>2, Roles, ThreadFrame DEF IInv, ThreadInv, LeaveEnds,
     AcceptLocs, At, Ends, Idle, LocsOf, WellPlaced
<1>4. TypeOK'
  <2>1. Who(t) \in Characters
    BY <1>1 DEF IInv, ThreadInv, WellPlaced, LeaveEnds, At, Who
  <2> QED
    BY <2>1
    DEF IInv, TypeOK, LeaveEnds, Engine!OnReleaseReturns, Engine!Step,
        Engine!Phases, locks
<1>5. CallbackInv'
  BY <1>2, Roles, CallbackEnds
  DEF IInv, TypeOK, LeaveEnds, At, Who, Engine!OnReleaseReturns, Engine!Step
<1>6. ContainerInv'
  BY <1>1, <1>2, Roles, ContainerFrame DEF IInv, LeaveEnds, At, Ends,
     FrameLocs, Idle, MoveLocs, ReaderLocs, WriterLocs, locks
<1>7. CharacterInv'
  BY <1>1, <1>2, Roles, CharacterFrame DEF IInv, LeaveEnds, At, Ends,
     HasCharacter, Idle, MoveLocs, locks
<1>8. MemberInv'
  BY <1>1, <1>2, Roles DEF IInv, TypeOK, ThreadInv, CallbackInv, MemberInv,
     LeaveEnds, AcceptLocs, At, Ends, Engine!OnReleaseReturns, Engine!Step,
     FrameLocs, Idle, InLocs, LeaveLocs, MoveLocs, Only, OutLocs, ReceiveLocs,
     WellPlaced, Who
<1>9. FoundInv'
  BY <1>1, <1>2, Roles, FoundFrame DEF IInv, LeaveEnds, Ends, Idle
<1>10. LastUserInv'
  BY <1>1, <1>2, Roles DEF IInv, LastUserInv, LeaveEnds, At, CharacterFree,
     Ends, Engine!OnReleaseReturns, Engine!Step, Idle, Only, Who, locks
<1>11. ReadingInv'
  BY <1>1 DEF IInv, ReadingInv, LeaveEnds, At, Ends, Idle, Only, ReadingLocs
<1>12. SectorListsExact'
  BY <1>1, Roles DEF IInv, SectorListsExact, LeaveEnds, At, Ends, Idle, Only,
     Who
<1> QED
  BY <1>3, <1>4, <1>5, <1>6, <1>7, <1>8, <1>9, <1>10, <1>11, <1>12 DEF IInv

\* OnRecv begins, on a worker.
LEMMA OnRecvKeeps ==
  ASSUME IInv, NEW t \in Workers, NEW c \in Characters,
         NEW packet \in Packets, OnRecv(t, c, packet)
  PROVE  IInv'
<1>1. t \in Threads /\ thread \in [Threads -> ThreadType]
  BY Roles DEF IInv, ThreadInv
<1>2. Starts(t, "stampFind", c)
  <2> DEFINE r == [thread[t] EXCEPT !.pc = "stampFind", !.who = c, !.packet = packet]
  <2>1. thread' = [thread EXCEPT ![t] = r]
    BY <1>1 DEF OnRecv
  <2>2. r \in ThreadType
    BY <1>1, ZenonT(30) DEF ThreadType, AcceptLocs, LeaveLocs, ReceiveLocs
  <2> QED
    BY <1>1, <2>1, <2>2 DEF Starts, Only, SameList
<1>3. ThreadInv'
  <2>1. WellPlaced(t, thread'[t])
    <3>1. t # Updater /\ t # Acceptor
      BY Roles
    <3>2. thread'[t].pc = "stampFind" /\ thread'[t].who \in Characters
      BY <1>2 DEF Starts
    <3> QED
      BY <3>1, <3>2 DEF WellPlaced, LocsOf, ReceiveLocs
  <2> QED
    BY <1>1, <1>2, <2>1, ThreadFrame DEF IInv, Starts
<1>4. TypeOK'
  BY WorldConstants
  DEF IInv, TypeOK, OnRecv, Engine!OnRecvStarts, Engine!Step, Engine!Phases, locks,
      world
<1>5. CallbackInv'
  BY <1>2, <1>3, Roles, CallbackStarts DEF IInv, TypeOK, OnRecv, Duty,
     Engine!Phases, Engine!OnRecvStarts, Engine!Step, AcceptLocs, LeaveLocs, ReceiveLocs
<1>6. ContainerInv'
  BY <1>1, <1>2, Roles, ContainerFrame DEF IInv, OnRecv, At, FrameLocs,
     MoveLocs, ReaderLocs, Starts, WriterLocs, locks
<1>7. CharacterInv'
  BY <1>1, <1>2, Roles, CharacterFrame DEF IInv, OnRecv, At, HasCharacter,
     MoveLocs, Starts, locks
<1>8. MemberInv'
  BY <1>1, <1>2, Roles DEF IInv, MemberInv, OnRecv, At, Engine!OnRecvStarts,
     Engine!Step, OutLocs, Who, world
<1>9. FoundInv'
  BY <1>1, <1>2, Roles, FoundFrame DEF IInv, OnRecv, Starts, world
<1>10. LastUserInv'
  BY <1>1, <1>2, Roles DEF IInv, LastUserInv, OnRecv, At, CharacterFree,
     Engine!OnRecvStarts, Engine!Step, Who, locks
<1>11. ReadingInv'
  BY <1>1, <1>2, ReadingFrame DEF IInv, OnRecv, At, ReadingLocs, Starts, world
<1>12. SectorListsExact'
  BY <1>1, <1>2, Roles DEF IInv, SectorListsExact, OnRecv, At, Who, world
<1> QED
  BY <1>3, <1>4, <1>5, <1>6, <1>7, <1>8, <1>9, <1>10, <1>11, <1>12 DEF IInv

\* A handler shares the container's lock and finds its character.
LEMMA FindsKeeps ==
  ASSUME IInv, NEW t \in Workers, Finds(t)
  PROVE  IInv'
<1>1. t \in Threads /\ thread \in [Threads -> ThreadType]
  BY Roles DEF IInv, ThreadInv
<1>2. \/ At(t, "stampFind") /\ Goes(t, "stampLock")
      \/ At(t, "find") /\ Goes(t, "lock")
  <2>1. CASE At(t, "stampFind") /\ Goto(t, "stampLock")
    BY <1>1, <2>1, GotoGoes DEF Locs, ReceiveLocs
  <2>2. CASE At(t, "find") /\ Goto(t, "lock")
    BY <1>1, <2>2, GotoGoes DEF Locs, ReceiveLocs
  <2> QED
    BY <2>1, <2>2 DEF Finds
<1>3. ThreadInv'
  BY <1>1, <1>2, Roles, ThreadFrame DEF IInv, ThreadInv, Finds, AcceptLocs,
     At, Goes, LocsOf, ReceiveLocs, WellPlaced
<1>4. TypeOK'
  BY <1>1 DEF IInv, TypeOK, Finds, ShareContainer, world
<1>5. CallbackInv'
  BY <1>1, <1>2, <1>3, Roles DEF IInv, CallbackInv, Finds, AcceptLocs, At,
     Goes, LeaveLocs, Only, ReceiveLocs, Who
<1>6. ContainerInv'
  BY <1>1, <1>2, Roles DEF IInv, ContainerInv, Finds, Goes, Only, ReaderLocs,
     ShareContainer, WriterLocs
<1>7. CharacterInv'
  BY <1>1, <1>2, CharacterFrame DEF IInv, Finds, At, Goes, HasCharacter,
     MoveLocs
<1>8. MemberInv'
  BY <1>1, <1>2, Roles DEF IInv, MemberInv, Finds, Goes, InLocs, Only,
     OutLocs, Who, world
<1>9. FoundInv'
  BY <1>1, <1>2, Roles, FoundFrame DEF IInv, Finds, Goes, world
<1>10. LastUserInv'
  BY <1>1, <1>2, LastUserFrame DEF IInv, Finds, Goes
<1>11. ReadingInv'
  BY <1>1, <1>2, ReadingFrame DEF IInv, Finds, At, Goes, ReadingLocs, world
<1>12. SectorListsExact'
  BY <1>1, <1>2, Roles DEF IInv, SectorListsExact, Finds, At, Goes, Only, Who,
     world
<1> QED
  BY <1>3, <1>4, <1>5, <1>6, <1>7, <1>8, <1>9, <1>10, <1>11, <1>12 DEF IInv

\* OnRecv stamps the character and lets go of the container.
LEMMA StampsKeeps ==
  ASSUME IInv, NEW t \in Workers, Stamps(t)
  PROVE  IInv'
<1>1. t \in Threads /\ thread \in [Threads -> ThreadType]
  BY Roles DEF IInv, ThreadInv
<1>2. \/ Ends(t) /\ Engine!OnRecvReturns(Who(t))
      \/ Goes(t, "find") /\ UNCHANGED phase
  <2>1. Goto(t, "find") => Goes(t, "find")
    BY <1>1, GotoGoes DEF Locs, ReceiveLocs
  <2> QED
    BY <1>1, <2>1, ReturnEnds DEF Stamps
<1>3. ThreadInv'
  BY <1>1, <1>2, Roles, ThreadFrame DEF IInv, ThreadInv, Stamps, AcceptLocs,
     At, Ends, FrameLocs, Goes, Idle, LocsOf, ReceiveLocs, WellPlaced
<1>4. TypeOK'
  BY <1>1 DEF IInv, TypeOK, Stamps, Engine!OnRecvReturns, Engine!Phases,
     Engine!Step, UnshareContainer, world
<1>5. CallbackInv'
  <2>1. CASE Ends(t) /\ Engine!OnRecvReturns(Who(t))
    BY <2>1, Roles, CallbackEnds
    DEF IInv, TypeOK, Stamps, At, Engine!OnRecvReturns, Engine!Step
  <2>2. CASE Goes(t, "find") /\ UNCHANGED phase
    BY <1>1, <1>3, <2>2, CallbackFrame
    DEF IInv, Stamps, Goes, SameWho, Duty, At, AcceptLocs, ReceiveLocs, LeaveLocs
  <2> QED
    BY <1>2, <2>1, <2>2
<1>6. ContainerInv'
  BY <1>1, <1>2, Roles DEF IInv, ContainerInv, Stamps, At, Ends, FrameLocs,
     Goes, Idle, MoveLocs, Only, ReaderLocs, UnshareContainer, WriterLocs
<1>7. CharacterInv'
  BY <1>1, <1>2, Roles, CharacterFrame DEF IInv, Stamps, At, Ends, Goes,
     HasCharacter, Idle, MoveLocs, Who
<1>8. MemberInv'
  <2>1. CASE Ends(t) /\ Engine!OnRecvReturns(Who(t))
    BY <1>1, <2>1, Roles
    DEF IInv, TypeOK, CallbackInv, MemberInv, Stamps, Engine!OnRecvReturns,
        Engine!Step, Ends, Only, Idle, InLocs, OutLocs, At, Who, world
  <2>2. CASE Goes(t, "find") /\ UNCHANGED phase
    BY <1>1, <2>2, MemberFrame DEF IInv, Stamps, Goes, SameWho, world, InLocs, OutLocs
  <2> QED
    BY <1>2, <2>1, <2>2
<1>9. FoundInv'
  BY <1>1, <1>2, Roles, FoundFrame DEF IInv, Stamps, Ends, Goes, Idle, Who,
     world
<1>10. LastUserInv'
  <2>1. CASE Ends(t) /\ Engine!OnRecvReturns(Who(t))
    BY <1>1, <2>1, Roles
    DEF IInv, TypeOK, LastUserInv, Stamps, Engine!OnRecvReturns, Engine!Step, Ends,
        Only, Idle, At, Who, CharacterFree
  <2>2. CASE Goes(t, "find") /\ UNCHANGED phase
    BY <1>1, <2>2, LastUserFrame DEF IInv, Stamps, Goes
  <2> QED
    BY <1>2, <2>1, <2>2
<1>11. ReadingInv'
  BY <1>1, <1>2, Roles DEF IInv, ReadingInv, Stamps, At, Ends, Goes, Idle,
     Only, ReadingLocs, world
<1>12. SectorListsExact'
  BY <1>1, <1>2, Roles DEF IInv, SectorListsExact, Stamps, At, Ends, Goes,
     Idle, Only, Who, world
<1> QED
  BY <1>3, <1>4, <1>5, <1>6, <1>7, <1>8, <1>9, <1>10, <1>11, <1>12 DEF IInv

\* A move packet locks the character, lets go of the container and changes the action.
LEMMA MovesKeeps ==
  ASSUME IInv, NEW t \in Workers, Moves(t)
  PROVE  IInv'
<1>1. t \in Threads /\ thread \in [Threads -> ThreadType]
  BY Roles DEF IInv, ThreadInv
<1>2. Goes(t, "tell")
  BY <1>1, AroundGoes, GridFacts DEF Moves, Locs, ReceiveLocs
<1>3. ThreadInv'
  BY <1>1, <1>2, Roles, ThreadFrame DEF IInv, ThreadInv, Moves, AcceptLocs,
     At, Goes, LocsOf, ReceiveLocs, WellPlaced
<1>4. TypeOK'
  <2>1. Who(t) \in Characters
    BY <1>1 DEF IInv, ThreadInv, WellPlaced, Moves, At, Who
  <2>2. info' \in [Characters -> [action : {Still, Moving}, cur : Sectors, old : Sectors]]
    BY <2>1 DEF IInv, TypeOK, Moves
  <2> QED
    BY <1>1, <2>2 DEF IInv, TypeOK, Moves, LockCharacter, UnshareContainer
<1>5. CallbackInv'
  BY <1>1, <1>2, <1>3, Roles DEF IInv, CallbackInv, Moves, AcceptLocs, At,
     Goes, LeaveLocs, Only, ReceiveLocs, Who
<1>6. ContainerInv'
  BY <1>1, <1>2, Roles DEF IInv, ContainerInv, Moves, At, FrameLocs, Goes,
     MoveLocs, Only, ReaderLocs, UnshareContainer, WriterLocs
<1>7. CharacterInv'
  BY <1>1, <1>2, Roles DEF IInv, TypeOK, ThreadInv, CallbackInv, CharacterInv,
     Moves, AcceptLocs, At, CharacterFree, FrameLocs, Goes, HasCharacter,
     LockCharacter, Only, Who
<1>8. MemberInv'
  BY <1>1, <1>2, Roles DEF IInv, MemberInv, Moves, Goes, InLocs, Only,
     OutLocs, Who
<1>9. FoundInv'
  BY <1>1, <1>2, Roles, FoundFrame DEF IInv, Moves, Goes
<1>10. LastUserInv'
  <2>1. phase[Who(t)] = "receiving"
    BY <1>1, Roles DEF IInv, CallbackInv, Moves, At, ReceiveLocs
  <2>2. \A u \in EngineThreads : At(u, "leaveTell") => phase[Who(u)] = "releasing"
    BY DEF IInv, CallbackInv, At, LeaveLocs
  <2>3. \A c : CharacterFree(c) /\ c # Who(t) => CharacterFree(c)'
    BY DEF IInv, TypeOK, Moves, LockCharacter, CharacterFree
  <2> QED
    BY <1>2, <2>1, <2>2, <2>3, Roles DEF IInv, LastUserInv, Moves, Goes, Only, At, Who
<1>11. ReadingInv'
  BY <1>1, <1>2, ReadingFrame DEF IInv, Moves, At, Goes, ReadingLocs
<1>12. SectorListsExact'
  BY <1>2, Roles DEF IInv, SectorListsExact, Moves, At, Goes, Only, Who
<1> QED
  BY <1>3, <1>4, <1>5, <1>6, <1>7, <1>8, <1>9, <1>10, <1>11, <1>12 DEF IInv

\* A move ends after its last broadcast.
LEMMA MoveEndsKeeps ==
  ASSUME IInv, NEW t \in Workers, MoveEnds(t)
  PROVE  IInv'
<1>1. t \in Threads /\ thread \in [Threads -> ThreadType]
  BY Roles DEF IInv, ThreadInv
<1>2. Ends(t)
  BY DEF MoveEnds
<1>3. ThreadInv'
  BY <1>1, <1>2, Roles, ThreadFrame DEF IInv, ThreadInv, MoveEnds, AcceptLocs,
     At, Ends, Idle, LocsOf, WellPlaced
<1>4. TypeOK'
  BY <1>1 DEF IInv, TypeOK, MoveEnds, Engine!OnRecvReturns, Engine!Phases,
     Engine!Step, UnlockCharacter, world
<1>5. CallbackInv'
  BY <1>2, Roles, CallbackEnds DEF IInv, TypeOK, MoveEnds, At, Who, Engine!OnRecvReturns,
     Engine!Step
<1>6. ContainerInv'
  BY <1>1, <1>2, Roles, ContainerFrame DEF IInv, MoveEnds, At, Ends,
     FrameLocs, Idle, MoveLocs, ReaderLocs, WriterLocs
<1>7. CharacterInv'
  BY <1>1, <1>2, Roles DEF IInv, TypeOK, ThreadInv, CallbackInv, CharacterInv,
     MoveEnds, AcceptLocs, At, Ends, FrameLocs, HasCharacter, Idle, MoveLocs,
     Only, UnlockCharacter, Who
<1>8. MemberInv'
  BY <1>1, <1>2, Roles DEF IInv, MemberInv, MoveEnds, At, Ends,
     Engine!OnRecvReturns, Engine!Step, Idle, InLocs, Only, OutLocs, Who,
     world
<1>9. FoundInv'
  BY <1>1, <1>2, Roles, FoundFrame DEF IInv, MoveEnds, Ends, Idle, world
<1>10. LastUserInv'
  BY <1>1, <1>2, Roles DEF IInv, LastUserInv, MoveEnds, At, CharacterFree,
     Ends, Engine!OnRecvReturns, Engine!Step, Idle, Only, UnlockCharacter, Who
<1>11. ReadingInv'
  BY <1>1, <1>2 DEF IInv, ReadingInv, MoveEnds, At, Ends, Idle, Only,
     ReadingLocs, world
<1>12. SectorListsExact'
  BY <1>1, <1>2, Roles DEF IInv, SectorListsExact, MoveEnds, At, Ends, Idle,
     Only, Who, world
<1> QED
  BY <1>3, <1>4, <1>5, <1>6, <1>7, <1>8, <1>9, <1>10, <1>11, <1>12 DEF IInv

\* An attack packet locks the character and lets go of the container.
LEMMA AttacksKeeps ==
  ASSUME IInv, NEW t \in Workers, Attacks(t)
  PROVE  IInv'
<1>1. t \in Threads /\ thread \in [Threads -> ThreadType]
  BY Roles DEF IInv, ThreadInv
<1>2. Goes(t, "search")
  BY <1>1, GotoGoes DEF Attacks, Locs, ReceiveLocs
<1>3. ThreadInv'
  BY <1>1, <1>2, Roles, ThreadFrame DEF IInv, ThreadInv, Attacks, AcceptLocs,
     At, Goes, LocsOf, ReceiveLocs, WellPlaced
<1>4. TypeOK'
  BY <1>1 DEF IInv, TypeOK, Attacks, LockCharacter, UnshareContainer, world
<1>5. CallbackInv'
  BY <1>1, <1>2, <1>3, Roles DEF IInv, CallbackInv, Attacks, AcceptLocs, At,
     Goes, LeaveLocs, Only, ReceiveLocs, Who
<1>6. ContainerInv'
  BY <1>1, <1>2, Roles DEF IInv, ContainerInv, Attacks, At, FrameLocs, Goes,
     MoveLocs, Only, ReaderLocs, UnshareContainer, WriterLocs
<1>7. CharacterInv'
  BY <1>1, <1>2, Roles DEF IInv, TypeOK, ThreadInv, CallbackInv, CharacterInv,
     Attacks, AcceptLocs, At, CharacterFree, FrameLocs, Goes, HasCharacter,
     LockCharacter, Only, Who
<1>8. MemberInv'
  BY <1>1, <1>2, Roles DEF IInv, MemberInv, Attacks, Goes, InLocs, Only,
     OutLocs, Who, world
<1>9. FoundInv'
  BY <1>1, <1>2, Roles, FoundFrame DEF IInv, Attacks, Goes, world
<1>10. LastUserInv'
  BY <1>1, <1>2, Roles DEF IInv, TypeOK, ThreadInv, CallbackInv, LastUserInv,
     Attacks, AcceptLocs, At, CharacterFree, FrameLocs, Goes, LockCharacter,
     Only, ReceiveLocs, Who
<1>11. ReadingInv'
  BY <1>1, <1>2, ReadingFrame DEF IInv, Attacks, At, Goes, ReadingLocs, world
<1>12. SectorListsExact'
  BY <1>1, <1>2, Roles DEF IInv, SectorListsExact, Attacks, At, Goes, Only,
     Who, world
<1> QED
  BY <1>3, <1>4, <1>5, <1>6, <1>7, <1>8, <1>9, <1>10, <1>11, <1>12 DEF IInv

\* The search for a victim finds one.
LEMMA SearchFindsKeeps ==
  ASSUME IInv, NEW t \in Workers, SearchFinds(t)
  PROVE  IInv'
<1>1. t \in Threads /\ thread \in [Threads -> ThreadType]
  BY Roles DEF IInv, ThreadInv
<1>2. \E v \in Characters :
        /\ Only(t)
        /\ thread'[t].pc = "findVictim"
        /\ thread'[t].other = v
        /\ SameWho(t)
        /\ SameList(t)
  <2>1. PICK v \in Victims(Who(t)) :
          thread' = [thread EXCEPT ![t].pc = "findVictim", ![t].other = v]
    BY DEF SearchFinds
  <2>2. v \in Characters
    BY <2>1, VictimsAreCharacters DEF IInv
  <2> DEFINE r == [thread[t] EXCEPT !.pc = "findVictim", !.other = v]
  <2>3. thread' = [thread EXCEPT ![t] = r]
    BY <1>1, <2>1
  <2>4. r \in ThreadType
    BY <1>1, <2>2 DEF ThreadType, ReceiveLocs
  <2> QED
    BY <1>1, <2>2, <2>3, <2>4 DEF Only, SameWho, SameList
<1>3. ThreadInv'
  BY <1>1, <1>2, Roles, ThreadFrame DEF IInv, ThreadInv, SearchFinds,
     AcceptLocs, At, FrameLocs, LocsOf, ReceiveLocs, WellPlaced
<1>4. TypeOK'
  BY <1>1 DEF IInv, TypeOK, SearchFinds, UnlockCharacter, world
<1>5. CallbackInv'
  BY <1>1, <1>2, <1>3, Roles, CallbackFrame DEF IInv, SearchFinds, AcceptLocs,
     At, Duty, ReceiveLocs
<1>6. ContainerInv'
  BY <1>1, <1>2, Roles, ContainerFrame DEF IInv, SearchFinds, At, FrameLocs,
     MoveLocs, ReaderLocs, WriterLocs
<1>7. CharacterInv'
  <2>1. PICK c \in Characters : c = Who(t)
    BY <1>1 DEF IInv, ThreadInv, WellPlaced, SearchFinds, At, Who
  <2>2. Only(t) /\ thread'[t].pc = "findVictim"
    BY <1>2
  <2>3. characterLock[c] = t
    BY <1>1, <2>1 DEF IInv, CharacterInv, HasCharacter, SearchFinds, At
  <2>4. characterLock' = [characterLock EXCEPT ![c] = NoThread]
    BY <2>1 DEF SearchFinds, UnlockCharacter
  <2>5. \A d \in Characters : ~HasCharacter(t, d)'
    BY <2>2 DEF HasCharacter, At, MoveLocs
  <2>6. \A d \in Characters : HasCharacter(t, d) <=> d = c
    BY <2>1 DEF HasCharacter, SearchFinds, At, MoveLocs
  <2>7. \A u \in Threads, d \in Characters :
          u # t => (HasCharacter(u, d)' <=> HasCharacter(u, d))
    BY <2>2 DEF Only, HasCharacter, At, Who
  <2> QED
    BY <1>1, <2>3, <2>4, <2>5, <2>6, <2>7, Roles DEF IInv, TypeOK, CharacterInv
<1>8. MemberInv'
  BY <1>1, <1>2, Roles, MemberFrame DEF IInv, SearchFinds, InLocs, OutLocs,
     world
<1>9. FoundInv'
  BY <1>1, <1>2, Roles, FoundFrame DEF IInv, SearchFinds, world
<1>10. LastUserInv'
  BY <1>1, <1>2, Roles DEF IInv, LastUserInv, SearchFinds, At, CharacterFree,
     UnlockCharacter, Who
<1>11. ReadingInv'
  BY <1>1, <1>2, ReadingFrame DEF IInv, SearchFinds, At, ReadingLocs, world
<1>12. SectorListsExact'
  BY <1>1, <1>2, Roles DEF IInv, SectorListsExact, SearchFinds, At, Who, world
<1> QED
  BY <1>3, <1>4, <1>5, <1>6, <1>7, <1>8, <1>9, <1>10, <1>11, <1>12 DEF IInv

\* The search for a victim finds none and the handler returns.
LEMMA SearchFindsNoneKeeps ==
  ASSUME IInv, NEW t \in Workers, SearchFindsNone(t)
  PROVE  IInv'
<1>1. t \in Threads /\ thread \in [Threads -> ThreadType]
  BY Roles DEF IInv, ThreadInv
<1>2. Ends(t)
  BY <1>1, ReturnEnds DEF SearchFindsNone
<1>3. ThreadInv'
  BY <1>1, <1>2, Roles, ThreadFrame DEF IInv, ThreadInv, SearchFindsNone,
     AcceptLocs, At, Ends, Idle, LocsOf, WellPlaced
<1>4. TypeOK'
  BY <1>1 DEF IInv, TypeOK, SearchFindsNone, Engine!OnRecvReturns,
     Engine!Phases, Engine!Step, UnlockCharacter, world
<1>5. CallbackInv'
  BY <1>2, Roles, CallbackEnds
  DEF IInv, TypeOK, SearchFindsNone, At, Who, Engine!OnRecvReturns, Engine!Step
<1>6. ContainerInv'
  BY <1>1, <1>2, Roles, ContainerFrame DEF IInv, SearchFindsNone, At, Ends,
     FrameLocs, Idle, MoveLocs, ReaderLocs, WriterLocs
<1>7. CharacterInv'
  BY <1>1, <1>2, Roles DEF IInv, TypeOK, ThreadInv, CallbackInv, CharacterInv,
     SearchFindsNone, AcceptLocs, At, Ends, FrameLocs, HasCharacter, Idle,
     MoveLocs, Only, UnlockCharacter, Who
<1>8. MemberInv'
  BY <1>1, <1>2, Roles DEF IInv, MemberInv, SearchFindsNone, At, Ends,
     Engine!OnRecvReturns, Engine!Step, Idle, InLocs, Only, OutLocs, Who,
     world
<1>9. FoundInv'
  BY <1>1, <1>2, Roles, FoundFrame DEF IInv, SearchFindsNone, Ends, Idle,
     world
<1>10. LastUserInv'
  BY <1>1, <1>2, Roles DEF IInv, LastUserInv, SearchFindsNone, At,
     CharacterFree, Ends, Engine!OnRecvReturns, Engine!Step, Idle, Only,
     UnlockCharacter, Who
<1>11. ReadingInv'
  BY <1>1, <1>2 DEF IInv, ReadingInv, SearchFindsNone, At, Ends, Idle, Only,
     ReadingLocs, world
<1>12. SectorListsExact'
  BY <1>1, <1>2, Roles DEF IInv, SectorListsExact, SearchFindsNone, At, Ends,
     Idle, Only, Who, world
<1> QED
  BY <1>3, <1>4, <1>5, <1>6, <1>7, <1>8, <1>9, <1>10, <1>11, <1>12 DEF IInv

\* An attack shares the container's lock and finds its victim, or returns.
LEMMA FindsVictimKeeps ==
  ASSUME IInv, NEW t \in Workers, FindsVictim(t)
  PROVE  IInv'
<1>1. t \in Threads /\ thread \in [Threads -> ThreadType]
  BY Roles DEF IInv, ThreadInv
<1>2. \/ /\ thread[t].other \in mCharacterList
         /\ Goes(t, "lockVictim") /\ ShareContainer(t) /\ UNCHANGED phase
      \/ Ends(t) /\ Engine!OnRecvReturns(Who(t)) /\ UNCHANGED containerLock
  <2>1. Goto(t, "lockVictim") => Goes(t, "lockVictim")
    BY <1>1, GotoGoes DEF Locs, ReceiveLocs
  <2> QED
    BY <1>1, <2>1, ReturnEnds DEF FindsVictim
<1>3. ThreadInv'
  BY <1>1, <1>2, Roles, ThreadFrame DEF IInv, ThreadInv, FindsVictim,
     AcceptLocs, At, Ends, FrameLocs, Goes, Idle, LocsOf, ReceiveLocs,
     WellPlaced
<1>4. TypeOK'
  BY <1>1 DEF IInv, TypeOK, FindsVictim, Engine!OnRecvReturns, Engine!Phases,
     Engine!Step, ShareContainer, world
<1>5. CallbackInv'
  <2>1. CASE Ends(t) /\ Engine!OnRecvReturns(Who(t))
    BY <2>1, Roles, CallbackEnds
    DEF IInv, TypeOK, FindsVictim, At, Engine!OnRecvReturns, Engine!Step
  <2>2. CASE Goes(t, "lockVictim") /\ UNCHANGED phase
    BY <1>1, <1>3, <2>2, CallbackFrame
    DEF IInv, FindsVictim, Goes, SameWho, Duty, At, AcceptLocs, ReceiveLocs,
        LeaveLocs
  <2> QED
    BY <1>2, <2>1, <2>2
<1>6. ContainerInv'
  BY <1>1, <1>2, Roles DEF IInv, TypeOK, ThreadInv, CallbackInv, ContainerInv,
     FindsVictim, AcceptLocs, At, Ends, FrameLocs, Goes, Idle, MoveLocs, Only,
     ReaderLocs, ShareContainer, WriterLocs
<1>7. CharacterInv'
  BY <1>1, <1>2, Roles, CharacterFrame DEF IInv, FindsVictim, At, Ends, Goes,
     HasCharacter, Idle, MoveLocs, Who
<1>8. MemberInv'
  <2>1. CASE Ends(t) /\ Engine!OnRecvReturns(Who(t))
    BY <1>1, <2>1, Roles
    DEF IInv, TypeOK, CallbackInv, MemberInv, FindsVictim, Engine!OnRecvReturns,
        Engine!Step, Ends, Only, Idle, InLocs, OutLocs, At, Who, world
  <2>2. CASE Goes(t, "lockVictim") /\ UNCHANGED phase
    BY <1>1, <2>2, MemberFrame
    DEF IInv, FindsVictim, Goes, SameWho, world, InLocs, OutLocs
  <2> QED
    BY <1>2, <2>1, <2>2
<1>9. FoundInv'
  BY <1>1, <1>2, Roles, FoundFrame DEF IInv, FindsVictim, Ends, Goes, Idle,
     world
<1>10. LastUserInv'
  <2>1. CASE Ends(t) /\ Engine!OnRecvReturns(Who(t))
    BY <1>1, <2>1, Roles
    DEF IInv, TypeOK, LastUserInv, FindsVictim, Engine!OnRecvReturns, Engine!Step,
        Ends, Only, Idle, At, Who, CharacterFree
  <2>2. CASE Goes(t, "lockVictim") /\ UNCHANGED phase
    BY <1>1, <2>2, LastUserFrame DEF IInv, FindsVictim, Goes
  <2> QED
    BY <1>2, <2>1, <2>2
<1>11. ReadingInv'
  BY <1>1, <1>2, Roles DEF IInv, ReadingInv, FindsVictim, At, Ends, Goes,
     Idle, Only, ReadingLocs, world
<1>12. SectorListsExact'
  BY <1>1, <1>2, Roles DEF IInv, SectorListsExact, FindsVictim, At, Ends,
     Goes, Idle, Only, Who, world
<1> QED
  BY <1>3, <1>4, <1>5, <1>6, <1>7, <1>8, <1>9, <1>10, <1>11, <1>12 DEF IInv

\* An attack locks its victim and lets go of the container.
LEMMA LocksVictimKeeps ==
  ASSUME IInv, NEW t \in Workers, LocksVictim(t)
  PROVE  IInv'
<1>1. t \in Threads /\ thread \in [Threads -> ThreadType]
  BY Roles DEF IInv, ThreadInv
<1>2. Goes(t, "damage")
  BY <1>1, GotoGoes DEF LocksVictim, Locs, ReceiveLocs
<1>3. ThreadInv'
  BY <1>1, <1>2, Roles, ThreadFrame DEF IInv, ThreadInv, LocksVictim,
     AcceptLocs, At, Goes, LocsOf, ReceiveLocs, WellPlaced
<1>4. TypeOK'
  BY <1>1 DEF IInv, TypeOK, LocksVictim, LockCharacter, UnshareContainer,
     world
<1>5. CallbackInv'
  BY <1>1, <1>2, <1>3, Roles DEF IInv, CallbackInv, LocksVictim, AcceptLocs,
     At, Goes, LeaveLocs, Only, ReceiveLocs, Who
<1>6. ContainerInv'
  BY <1>1, <1>2, Roles DEF IInv, ContainerInv, LocksVictim, At, FrameLocs,
     Goes, MoveLocs, Only, ReaderLocs, UnshareContainer, WriterLocs
<1>7. CharacterInv'
  BY <1>1, <1>2, Roles DEF IInv, TypeOK, ThreadInv, CallbackInv, CharacterInv,
     LocksVictim, AcceptLocs, At, CharacterFree, FrameLocs, Goes,
     HasCharacter, LockCharacter, MoveLocs, Only, Who
<1>8. MemberInv'
  BY <1>1, <1>2, Roles DEF IInv, MemberInv, LocksVictim, Goes, InLocs, Only,
     OutLocs, Who, world
<1>9. FoundInv'
  BY <1>1, <1>2, Roles, FoundFrame DEF IInv, LocksVictim, Goes, world
<1>10. LastUserInv'
  <2>1. thread[t].other \in mCharacterList /\ thread[t].other \in Characters
    BY <1>1 DEF IInv, FoundInv, LocksVictim, ThreadInv, WellPlaced, At
  <2>2. phase[thread[t].other] # "released"
    BY <2>1 DEF IInv, MemberInv
  <2>3. \A u \in EngineThreads : At(u, "leaveTell") => Who(u) # thread[t].other
    BY <2>1 DEF IInv, MemberInv, OutLocs, At
  <2>4. \A c : CharacterFree(c) /\ c # thread[t].other => CharacterFree(c)'
    BY DEF IInv, TypeOK, LocksVictim, LockCharacter, CharacterFree
  <2> QED
    BY <1>2, <2>2, <2>3, <2>4, Roles
    DEF IInv, LastUserInv, LocksVictim, Goes, Only, At, Who
<1>11. ReadingInv'
  BY <1>1, <1>2, ReadingFrame DEF IInv, LocksVictim, At, Goes, ReadingLocs,
     world
<1>12. SectorListsExact'
  BY <1>1, <1>2, Roles DEF IInv, SectorListsExact, LocksVictim, At, Goes,
     Only, Who, world
<1> QED
  BY <1>3, <1>4, <1>5, <1>6, <1>7, <1>8, <1>9, <1>10, <1>11, <1>12 DEF IInv

\* An attack damages its victim, unlocks it and returns.
LEMMA DamagesKeeps ==
  ASSUME IInv, NEW t \in Workers, Damages(t)
  PROVE  IInv'
<1>1. t \in Threads /\ thread \in [Threads -> ThreadType]
  BY Roles DEF IInv, ThreadInv
<1>2. Ends(t)
  BY <1>1, ReturnEnds DEF Damages
<1>3. ThreadInv'
  BY <1>1, <1>2, Roles, ThreadFrame DEF IInv, ThreadInv, Damages, AcceptLocs,
     At, Ends, Idle, LocsOf, WellPlaced
<1>4. TypeOK'
  BY <1>1 DEF IInv, TypeOK, Damages, Engine!OnRecvReturns, Engine!Phases,
     Engine!Step, UnlockCharacter, world
<1>5. CallbackInv'
  BY <1>2, Roles, CallbackEnds DEF IInv, TypeOK, Damages, At, Who, Engine!OnRecvReturns,
     Engine!Step
<1>6. ContainerInv'
  BY <1>1, <1>2, Roles, ContainerFrame DEF IInv, Damages, At, Ends, FrameLocs,
     Idle, MoveLocs, ReaderLocs, WriterLocs
<1>7. CharacterInv'
  BY <1>1, <1>2, Roles DEF IInv, TypeOK, ThreadInv, CallbackInv, CharacterInv,
     Damages, AcceptLocs, At, Ends, FrameLocs, HasCharacter, Idle, MoveLocs,
     Only, UnlockCharacter, WellPlaced, Who
<1>8. MemberInv'
  BY <1>1, <1>2, Roles DEF IInv, MemberInv, Damages, At, Ends,
     Engine!OnRecvReturns, Engine!Step, Idle, InLocs, Only, OutLocs, Who,
     world
<1>9. FoundInv'
  BY <1>1, <1>2, Roles, FoundFrame DEF IInv, Damages, Ends, Idle, world
<1>10. LastUserInv'
  BY <1>1, <1>2, Roles DEF IInv, LastUserInv, Damages, At, CharacterFree,
     Ends, Engine!OnRecvReturns, Engine!Step, Idle, Only, UnlockCharacter, Who
<1>11. ReadingInv'
  BY <1>1, <1>2 DEF IInv, ReadingInv, Damages, At, Ends, Idle, Only,
     ReadingLocs, world
<1>12. SectorListsExact'
  BY <1>1, <1>2, Roles DEF IInv, SectorListsExact, Damages, At, Ends, Idle,
     Only, Who, world
<1> QED
  BY <1>3, <1>4, <1>5, <1>6, <1>7, <1>8, <1>9, <1>10, <1>11, <1>12 DEF IInv

\* A frame shares the container's lock.
LEMMA FrameStartsKeeps ==
  ASSUME IInv, FrameStarts
  PROVE  IInv'
<1>1. Updater \in Threads /\ thread \in [Threads -> ThreadType]
  BY Roles DEF IInv, ThreadInv
<1>2. /\ Only(Updater)
      /\ thread'[Updater].pc = "frame"
      /\ thread'[Updater].copy = mCharacterList
      /\ SameList(Updater)
  <2> DEFINE r == [thread[Updater] EXCEPT !.pc = "frame", !.copy = mCharacterList]
  <2>1. thread' = [thread EXCEPT ![Updater] = r]
    BY <1>1 DEF FrameStarts
  <2>2. mCharacterList \in SUBSET Characters
    BY DEF IInv, TypeOK
  <2>3. r \in ThreadType
    BY <1>1, <2>2 DEF ThreadType, FrameLocs
  <2> QED
    BY <1>1, <2>1, <2>3 DEF Only, SameList
<1>3. ThreadInv'
  BY <1>1, <1>2, Roles, ThreadFrame DEF IInv, ThreadInv, FrameStarts,
     AcceptLocs, FrameLocs, LocsOf, WellPlaced
<1>4. TypeOK'
  BY <1>1 DEF IInv, TypeOK, FrameStarts, ShareContainer, world
<1>5. CallbackInv'
  BY <1>1, <1>2, <1>3, Roles, CallbackFrame DEF IInv, FrameStarts
<1>6. ContainerInv'
  BY <1>1, <1>2, Roles DEF IInv, ContainerInv, FrameStarts, FrameLocs,
     ReaderLocs, ShareContainer, WriterLocs
<1>7. CharacterInv'
  BY <1>1, <1>2, CharacterFrame DEF IInv, FrameStarts, At, HasCharacter,
     MoveLocs
<1>8. MemberInv'
  BY <1>1, <1>2, MemberFrame DEF IInv, FrameStarts, world
<1>9. FoundInv'
  BY <1>1, <1>2, FoundFrame DEF IInv, FrameStarts, world
<1>10. LastUserInv'
  BY <1>1, <1>2, LastUserFrame DEF IInv, FrameStarts
<1>11. ReadingInv'
  BY <1>1, <1>2, ReadingFrame DEF IInv, FrameStarts, At, ReadingLocs, world
<1>12. SectorListsExact'
  BY <1>1 DEF IInv, SectorListsExact, FrameStarts, At, Who, world
<1> QED
  BY <1>3, <1>4, <1>5, <1>6, <1>7, <1>8, <1>9, <1>10, <1>11, <1>12 DEF IInv

\* A frame has seen every character and lets go of the container.
LEMMA FrameEndsKeeps ==
  ASSUME IInv, FrameEnds
  PROVE  IInv'
<1>1. Updater \in Threads /\ thread \in [Threads -> ThreadType]
  BY Roles DEF IInv, ThreadInv
<1>2. Ends(Updater)
  BY <1>1, ReturnEnds DEF FrameEnds
<1>3. ThreadInv'
  BY <1>1, <1>2, Roles, ThreadFrame DEF IInv, ThreadInv, FrameEnds,
     AcceptLocs, At, Ends, Idle, LocsOf, WellPlaced
<1>4. TypeOK'
  BY <1>1 DEF IInv, TypeOK, FrameEnds, UnshareContainer, world
<1>5. CallbackInv'
  BY <1>1, <1>2, <1>3, Roles, CallbackFrame DEF IInv, FrameEnds, Ends
<1>6. ContainerInv'
  BY <1>1, <1>2, Roles DEF IInv, ContainerInv, FrameEnds, At, Ends, FrameLocs,
     Idle, MoveLocs, Only, ReaderLocs, UnshareContainer, WriterLocs
<1>7. CharacterInv'
  BY <1>1, <1>2, CharacterFrame DEF IInv, FrameEnds, At, Ends, HasCharacter,
     Idle, MoveLocs
<1>8. MemberInv'
  BY <1>1, <1>2, Roles, MemberFrame DEF IInv, FrameEnds, Ends, world
<1>9. FoundInv'
  BY <1>1, <1>2, Roles, FoundFrame DEF IInv, FrameEnds, Ends, FrameLocs, Idle,
     MoveLocs, world
<1>10. LastUserInv'
  BY <1>1, <1>2, LastUserFrame DEF IInv, FrameEnds, Ends, Idle
<1>11. ReadingInv'
  BY <1>1, <1>2 DEF IInv, ReadingInv, FrameEnds, At, Ends, Idle, Only,
     ReadingLocs, world
<1>12. SectorListsExact'
  BY <1>1, <1>2 DEF IInv, SectorListsExact, FrameEnds, At, Ends, Idle, Only,
     Who, world
<1> QED
  BY <1>3, <1>4, <1>5, <1>6, <1>7, <1>8, <1>9, <1>10, <1>11, <1>12 DEF IInv

\* A frame goes on to a character of the container.
LEMMA FrameTakesKeeps ==
  ASSUME IInv, NEW c \in Characters, FrameTakes(c)
  PROVE  IInv'
<1>1. Updater \in Threads /\ thread \in [Threads -> ThreadType]
  BY Roles DEF IInv, ThreadInv
<1>2. /\ Only(Updater)
      /\ thread'[Updater].pc = "frameLock" /\ thread'[Updater].who = c
      /\ thread'[Updater].copy = thread[Updater].copy \ {c}
      /\ SameList(Updater)
  <2> DEFINE r == [thread[Updater] EXCEPT !.pc = "frameLock", !.who = c, !.copy = @ \ {c}]
  <2>1. thread' = [thread EXCEPT ![Updater] = r]
    BY <1>1 DEF FrameTakes
  <2>2. r \in ThreadType
    BY <1>1 DEF ThreadType, FrameLocs
  <2> QED
    BY <1>1, <2>1, <2>2 DEF Only, SameList
<1>3. ThreadInv'
  BY <1>1, <1>2, Roles, ThreadFrame DEF IInv, ThreadInv, FrameTakes,
     AcceptLocs, FrameLocs, LocsOf, WellPlaced
<1>4. TypeOK'
  BY <1>1 DEF IInv, TypeOK, FrameTakes, locks, world
<1>5. CallbackInv'
  BY <1>1, <1>2, <1>3, Roles, CallbackFrame DEF IInv, FrameTakes
<1>6. ContainerInv'
  BY <1>1, <1>2, Roles, ContainerFrame DEF IInv, FrameTakes, At, FrameLocs,
     ReaderLocs, WriterLocs, locks
<1>7. CharacterInv'
  BY <1>1, <1>2, CharacterFrame DEF IInv, FrameTakes, At, HasCharacter,
     MoveLocs, locks
<1>8. MemberInv'
  BY <1>1, <1>2, MemberFrame DEF IInv, FrameTakes, world
<1>9. FoundInv'
  BY <1>1, <1>2, Roles DEF IInv, FoundInv, FrameTakes, At, FrameLocs, Who,
     world
<1>10. LastUserInv'
  BY <1>1, <1>2, LastUserFrame DEF IInv, FrameTakes, locks
<1>11. ReadingInv'
  BY <1>1, <1>2, ReadingFrame DEF IInv, FrameTakes, At, ReadingLocs, world
<1>12. SectorListsExact'
  BY <1>1 DEF IInv, SectorListsExact, FrameTakes, At, Who, world
<1> QED
  BY <1>3, <1>4, <1>5, <1>6, <1>7, <1>8, <1>9, <1>10, <1>11, <1>12 DEF IInv

\* A frame leaves a character that stays on its sector.
LEMMA FrameLeavesKeeps ==
  ASSUME IInv, FrameLeaves
  PROVE  IInv'
<1>1. Updater \in Threads /\ thread \in [Threads -> ThreadType]
  BY Roles DEF IInv, ThreadInv
<1>2. Goes(Updater, "frame")
  BY <1>1, GotoGoes DEF FrameLeaves, Locs, FrameLocs
<1>3. ThreadInv'
  BY <1>1, <1>2, Roles, ThreadFrame DEF IInv, ThreadInv, FrameLeaves,
     AcceptLocs, At, FrameLocs, Goes, LocsOf, WellPlaced
<1>4. TypeOK'
  BY <1>1 DEF IInv, TypeOK, FrameLeaves, locks, world
<1>5. CallbackInv'
  BY <1>1, <1>2, <1>3, Roles, CallbackFrame DEF IInv, FrameLeaves, Goes
<1>6. ContainerInv'
  BY <1>1, <1>2, Roles, ContainerFrame DEF IInv, FrameLeaves, At, FrameLocs,
     Goes, ReaderLocs, WriterLocs, locks
<1>7. CharacterInv'
  BY <1>1, <1>2, Roles, CharacterFrame DEF IInv, FrameLeaves, At, Goes,
     HasCharacter, MoveLocs, locks
<1>8. MemberInv'
  BY <1>1, <1>2, MemberFrame DEF IInv, FrameLeaves, Goes, world
<1>9. FoundInv'
  BY <1>1, <1>2, Roles DEF IInv, FoundInv, FrameLeaves, At, FrameLocs, Goes,
     Only, world
<1>10. LastUserInv'
  BY <1>1, <1>2, LastUserFrame DEF IInv, FrameLeaves, Goes, locks
<1>11. ReadingInv'
  BY <1>1, <1>2, ReadingFrame DEF IInv, FrameLeaves, At, Goes, ReadingLocs,
     world
<1>12. SectorListsExact'
  BY <1>1, <1>2 DEF IInv, SectorListsExact, FrameLeaves, At, Goes, Only, Who,
     world
<1> QED
  BY <1>3, <1>4, <1>5, <1>6, <1>7, <1>8, <1>9, <1>10, <1>11, <1>12 DEF IInv

\* A frame locks a character and moves it to another sector.
LEMMA FrameMovesKeeps ==
  ASSUME IInv, NEW s \in Sectors, FrameMoves(s)
  PROVE  IInv'
<1>1. Updater \in Threads /\ thread \in [Threads -> ThreadType]
  BY Roles DEF IInv, ThreadInv
<1>2. Goes(Updater, "frameRemove")
  BY <1>1, GotoGoes DEF FrameMoves, Locs, FrameLocs, MoveLocs
<1>3. ThreadInv'
  BY <1>1, <1>2, Roles, ThreadFrame DEF IInv, ThreadInv, FrameMoves,
     AcceptLocs, At, FrameLocs, Goes, LocsOf, MoveLocs, WellPlaced
<1>4. TypeOK'
  <2>1. Who(Updater) \in Characters
    BY <1>1 DEF IInv, ThreadInv, WellPlaced, FrameMoves, At, Who
  <2>2. info' = [info EXCEPT ![Who(Updater)] =
                   [@ EXCEPT !.old = info[Who(Updater)].cur, !.cur = s]]
    BY DEF FrameMoves
  <2>3. info' \in [Characters -> [action : {Still, Moving}, cur : Sectors, old : Sectors]]
    BY <2>1, <2>2 DEF IInv, TypeOK
  <2> QED
    BY <1>1, <2>1, <2>3 DEF IInv, TypeOK, FrameMoves, LockCharacter
<1>5. CallbackInv'
  BY <1>1, <1>2, <1>3, Roles, CallbackFrame DEF IInv, FrameMoves, Goes
<1>6. ContainerInv'
  BY <1>1, <1>2, ContainerFrame DEF IInv, FrameMoves, At, FrameLocs, Goes,
     MoveLocs, ReaderLocs, WriterLocs
<1>7. CharacterInv'
  BY <1>1, <1>2, Roles DEF IInv, TypeOK, ThreadInv, CallbackInv, CharacterInv,
     FrameMoves, AcceptLocs, At, CharacterFree, FrameLocs, Goes, HasCharacter,
     LeaveLocs, LockCharacter, Only, Who
<1>8. MemberInv'
  BY <1>1, <1>2, MemberFrame DEF IInv, FrameMoves, Goes
<1>9. FoundInv'
  BY <1>1, <1>2 DEF IInv, FoundInv, FrameMoves, At, FrameLocs, Goes, Only, Who
<1>10. LastUserInv'
  BY <1>1, <1>2, Roles DEF IInv, TypeOK, ThreadInv, CallbackInv, LastUserInv,
     FrameMoves, AcceptLocs, At, CharacterFree, FrameLocs, Goes,
     LockCharacter, Only, Who
<1>11. ReadingInv'
  BY <1>1, <1>2, ReadingFrame DEF IInv, FrameMoves, At, Goes, ReadingLocs
<1>12. SectorListsExact'
  BY <1>1, <1>2, Roles DEF IInv, TypeOK, ThreadInv, CallbackInv,
     SectorListsExact, FrameMoves, AcceptLocs, At, Goes, Only, Who
<1> QED
  BY <1>3, <1>4, <1>5, <1>6, <1>7, <1>8, <1>9, <1>10, <1>11, <1>12 DEF IInv

\* A frame takes a moved character off the list of its old sector.
LEMMA FrameRemovesKeeps ==
  ASSUME IInv, FrameRemoves
  PROVE  IInv'
<1>1. Updater \in Threads /\ thread \in [Threads -> ThreadType]
  BY Roles DEF IInv, ThreadInv
<1>2. Goes(Updater, "frameAdd")
  BY <1>1, GotoGoes DEF FrameRemoves, Locs, FrameLocs, MoveLocs
<1>3. ThreadInv'
  BY <1>1, <1>2, Roles, ThreadFrame DEF IInv, ThreadInv, FrameRemoves,
     AcceptLocs, At, FrameLocs, Goes, LocsOf, MoveLocs, WellPlaced
<1>4. TypeOK'
  BY <1>1 DEF IInv, TypeOK, FrameRemoves, Sector_RemoveCharacter, locks
<1>5. CallbackInv'
  BY <1>1, <1>2, <1>3, Roles, CallbackFrame DEF IInv, FrameRemoves, Goes
<1>6. ContainerInv'
  BY <1>1, <1>2, Roles, ContainerFrame DEF IInv, FrameRemoves, At, FrameLocs,
     Goes, MoveLocs, ReaderLocs, WriterLocs, locks
<1>7. CharacterInv'
  BY <1>1, <1>2, CharacterFrame DEF IInv, FrameRemoves, At, Goes,
     HasCharacter, MoveLocs, Who, locks
<1>8. MemberInv'
  BY <1>1, <1>2, MemberFrame DEF IInv, FrameRemoves, Goes
<1>9. FoundInv'
  BY <1>1, <1>2 DEF IInv, FoundInv, FrameRemoves, At, FrameLocs, Goes,
     MoveLocs, Only, Who
<1>10. LastUserInv'
  BY <1>1, <1>2, LastUserFrame DEF IInv, FrameRemoves, Goes, locks
<1>11. ReadingInv'
  BY <1>1, <1>2, ReadingFrame DEF IInv, FrameRemoves, At, Goes, ReadingLocs,
     Sector_RemoveCharacter
<1>12. SectorListsExact'
  BY <1>1, <1>2, Roles DEF IInv, TypeOK, ThreadInv, CallbackInv,
     SectorListsExact, FrameRemoves, AcceptLocs, At, FrameLocs, Goes, Only,
     Sector_RemoveCharacter, Who
<1> QED
  BY <1>3, <1>4, <1>5, <1>6, <1>7, <1>8, <1>9, <1>10, <1>11, <1>12 DEF IInv

\* A frame puts a moved character on the list of its new sector.
LEMMA FrameAddsKeeps ==
  ASSUME IInv, FrameAdds
  PROVE  IInv'
<1>1. Updater \in Threads /\ thread \in [Threads -> ThreadType]
  BY Roles DEF IInv, ThreadInv
<1>2. Goes(Updater, "frameHide")
  BY <1>1, AroundGoes, GridFacts DEF FrameAdds, Locs, FrameLocs, MoveLocs
<1>3. ThreadInv'
  BY <1>1, <1>2, Roles, ThreadFrame DEF IInv, ThreadInv, FrameAdds,
     AcceptLocs, At, FrameLocs, Goes, LocsOf, MoveLocs, WellPlaced
<1>4. TypeOK'
  <2>1. Who(Updater) \in Characters
    BY <1>1 DEF IInv, ThreadInv, WellPlaced, FrameAdds, At, Who
  <2> QED
    BY <1>1, <2>1 DEF IInv, TypeOK, FrameAdds, Sector_AddCharacter, locks
<1>5. CallbackInv'
  BY <1>1, <1>2, <1>3, Roles, CallbackFrame DEF IInv, FrameAdds, Goes
<1>6. ContainerInv'
  BY <1>1, <1>2, Roles, ContainerFrame DEF IInv, FrameAdds, At, FrameLocs,
     Goes, MoveLocs, ReaderLocs, WriterLocs, locks
<1>7. CharacterInv'
  BY <1>1, <1>2, CharacterFrame DEF IInv, FrameAdds, At, Goes, HasCharacter,
     MoveLocs, Who, locks
<1>8. MemberInv'
  BY <1>1, <1>2, MemberFrame DEF IInv, FrameAdds, Goes
<1>9. FoundInv'
  BY <1>1, <1>2 DEF IInv, FoundInv, FrameAdds, At, FrameLocs, Goes, MoveLocs,
     Only, Who
<1>10. LastUserInv'
  BY <1>1, <1>2, LastUserFrame DEF IInv, FrameAdds, Goes, locks
<1>11. ReadingInv'
  BY <1>1, <1>2, ReadingFrame DEF IInv, FrameAdds, At, Goes, ReadingLocs,
     Sector_AddCharacter
<1>12. SectorListsExact'
  <2>1. PICK c \in Characters : c = Who(Updater)
    BY <1>1 DEF IInv, ThreadInv, WellPlaced, FrameAdds, At, Who
  <2>2. ASSUME NEW d \in Characters, d # c
        PROVE  OnItsSector(d)'
    BY <1>1, <1>2, <2>1, <2>2, ExactByCharacter, OthersStay
    DEF IInv, TypeOK, FrameAdds, Goes, SameWho, Sector_AddCharacter,
        Sector_RemoveCharacter, world
  <2>3. OnItsSector(c)'
    <3>1. \A u \in Threads : u # Updater => thread[u].pc \notin {"acceptAdd", "frameAdd"}
      BY <1>1, Roles
      DEF IInv, ThreadInv, WellPlaced, LocsOf, ContainerInv, WriterLocs, ReaderLocs,
          FrameLocs, MoveLocs, AcceptLocs, LeaveLocs, ReceiveLocs, FrameAdds, At
    <3>2. c \in mCharacterList /\ \A s \in Sectors : c \notin mSectorList[s]
      BY <1>1, <2>1, Roles
      DEF IInv, SectorListsExact, FoundInv, FrameLocs, MoveLocs, FrameAdds, At, Who
    <3> QED
      BY <1>1, <1>2, <2>1, <3>1, <3>2, Roles
      DEF IInv, TypeOK, FrameAdds, Sector_AddCharacter, OnItsSector, Goes, Only, At,
          Who
  <2> QED
    BY <2>2, <2>3, ExactByCharacter
<1> QED
  BY <1>3, <1>4, <1>5, <1>6, <1>7, <1>8, <1>9, <1>10, <1>11, <1>12 DEF IInv

\* A frame has told all of a move and unlocks the character.
LEMMA FrameLetsGoKeeps ==
  ASSUME IInv, FrameLetsGo
  PROVE  IInv'
<1>1. Updater \in Threads /\ thread \in [Threads -> ThreadType]
  BY Roles DEF IInv, ThreadInv
<1>2. Goes(Updater, "frame")
  BY <1>1, GotoGoes DEF FrameLetsGo, Locs, FrameLocs
<1>3. ThreadInv'
  BY <1>1, <1>2, Roles, ThreadFrame DEF IInv, ThreadInv, FrameLetsGo,
     AcceptLocs, At, FrameLocs, Goes, LocsOf, WellPlaced
<1>4. TypeOK'
  BY <1>1 DEF IInv, TypeOK, FrameLetsGo, UnlockCharacter, world
<1>5. CallbackInv'
  BY <1>1, <1>2, <1>3, Roles, CallbackFrame DEF IInv, FrameLetsGo, Goes
<1>6. ContainerInv'
  BY <1>1, <1>2, ContainerFrame DEF IInv, FrameLetsGo, At, FrameLocs, Goes,
     MoveLocs, ReaderLocs, WriterLocs
<1>7. CharacterInv'
  BY <1>1, <1>2, Roles DEF IInv, TypeOK, ThreadInv, CallbackInv, CharacterInv,
     FrameLetsGo, AcceptLocs, At, FrameLocs, Goes, HasCharacter, MoveLocs,
     Only, UnlockCharacter, Who
<1>8. MemberInv'
  BY <1>1, <1>2, MemberFrame DEF IInv, FrameLetsGo, Goes, world
<1>9. FoundInv'
  BY <1>1, <1>2, Roles DEF IInv, FoundInv, FrameLetsGo, At, FrameLocs, Goes,
     MoveLocs, Only, world
<1>10. LastUserInv'
  BY <1>1, <1>2, Roles DEF IInv, LastUserInv, FrameLetsGo, At, CharacterFree,
     Goes, Only, UnlockCharacter, Who
<1>11. ReadingInv'
  BY <1>1, <1>2, ReadingFrame DEF IInv, FrameLetsGo, At, Goes, ReadingLocs,
     world
<1>12. SectorListsExact'
  BY <1>1, <1>2 DEF IInv, SectorListsExact, FrameLetsGo, At, Goes, Only, Who,
     world
<1> QED
  BY <1>3, <1>4, <1>5, <1>6, <1>7, <1>8, <1>9, <1>10, <1>11, <1>12 DEF IInv

-----------------------------------------------------------------------------
\* The loops that tell and read.

\* The loops over sectors that change nothing shared: the broadcasts and the reading
\* of lists.
Loops == {{"announce", "meet", "meeting"}, {"tell"}, {"leaveTell"},
          MoveLocs \ {"frameRemove", "frameAdd"}}

\* A turn of such a loop.
Turn(t) ==
  /\ Only(t)
  /\ SameWho(t)
  /\ thread'[t].copy = thread[t].copy
  /\ \E loop \in Loops : thread[t].pc \in loop /\ thread'[t].pc \in loop
  /\ thread'[t].pc = "frameMotion" => thread'[t].other \in Characters
  /\ UNCHANGED <<phase, locks, world, packets>>

\* A turn keeps every part of the invariant but, perhaps, ReadingInv.
LEMMA TurnKeeps ==
  ASSUME IInv, NEW t \in Threads, Turn(t), ReadingInv'
  PROVE  IInv'
<1>1. \/ /\ thread[t].pc \in {"announce", "meet", "meeting"}
         /\ thread'[t].pc \in {"announce", "meet", "meeting"}
      \/ thread[t].pc \in {"tell", "leaveTell"} /\ thread'[t].pc = thread[t].pc
      \/ /\ thread[t].pc \in MoveLocs \ {"frameRemove", "frameAdd"}
         /\ thread'[t].pc \in MoveLocs \ {"frameRemove", "frameAdd"}
  BY DEF Turn, Loops
<1>2. ThreadInv'
  BY <1>1, Roles, ThreadFrame
  DEF IInv, ThreadInv, WellPlaced, LocsOf, Turn, SameWho, AcceptLocs, LeaveLocs,
      ReceiveLocs, FrameLocs, MoveLocs
<1>3. TypeOK'
  BY TypeFrame DEF IInv, Turn
<1>4. CallbackInv'
  BY <1>1, <1>2, CallbackFrame
  DEF IInv, Turn, Duty, AcceptLocs, LeaveLocs, ReceiveLocs, MoveLocs
<1>5. ContainerInv'
  BY <1>1, ContainerFrame
  DEF IInv, Turn, locks, WriterLocs, ReaderLocs, FrameLocs, MoveLocs
<1>6. CharacterInv'
  <2>1. \A c \in Characters : HasCharacter(t, c)' <=> HasCharacter(t, c)
    BY <1>1 DEF Turn, SameWho, HasCharacter, At, Who, MoveLocs
  <2> QED
    BY <2>1, CharacterFrame DEF IInv, Turn, locks
<1>7. MemberInv'
  BY <1>1, MemberFrame DEF IInv, Turn, world, InLocs, OutLocs, MoveLocs
<1>8. FoundInv'
  BY <1>1, FoundFrame DEF IInv, FoundInv, Turn, SameWho, Who, world, FrameLocs, MoveLocs
<1>9. LastUserInv'
  BY <1>1, LastUserFrame DEF IInv, Turn, locks, MoveLocs
<1>10. SectorListsExact'
  BY <1>1, SectorFrame DEF IInv, Turn, world, MoveLocs
<1> QED
  BY <1>2, <1>3, <1>4, <1>5, <1>6, <1>7, <1>8, <1>9, <1>10 DEF IInv

\* A turn keeps ReadingInv if the thread reads what is on the list it locked.
LEMMA ReadingTurn ==
  ASSUME ReadingInv, NEW t \in Threads, Only(t), UNCHANGED mSectorList,
         thread'[t].pc \notin ReadingLocs =>
           thread'[t].rest = {} /\ thread'[t].sector = NoSector,
         thread'[t].pc \in ReadingLocs =>
            /\ thread'[t].sector \in Sectors
            /\ thread'[t].rest \subseteq mSectorList[thread'[t].sector],
         thread'[t].pc = "frameMotion" =>
           thread'[t].other \in mSectorList[thread'[t].sector]
  PROVE  ReadingInv'
BY DEF ReadingInv, Only, At

\* A broadcast to one more sector keeps the invariant.
LEMMA TodoTurns ==
  ASSUME IInv, NEW t \in Threads, NEW T,
         thread' = [thread EXCEPT ![t].todo = @ \ T],
         \E loop \in Loops : thread[t].pc \in loop,
         UNCHANGED <<phase, locks, world, packets>>
  PROVE  IInv'
<1>1. thread \in [Threads -> ThreadType] /\ WellPlaced(t, thread[t])
  BY DEF IInv, ThreadInv
<1>2. /\ Only(t)
      /\ thread'[t] = [thread[t] EXCEPT !.todo = @ \ T]
  BY <1>1 DEF Only, ThreadType
<1>3. Turn(t)
  BY <1>1, <1>2 DEF Turn, SameWho, ThreadType, WellPlaced
<1>4. ReadingInv'
  BY <1>1, <1>2, ReadingTurn DEF IInv, ReadingInv, ThreadType, At, world
<1> QED
  BY <1>3, <1>4, TurnKeeps

\* A broadcast of OnAccept, the last one included.
LEMMA AnnounceKeeps ==
  ASSUME IInv, Announce
  PROVE  IInv'
<1> DEFINE s == First(thread[Acceptor].todo)
<1>1. CASE thread[Acceptor].todo # {s}
  BY <1>1, Roles, TodoTurns DEF Announce, VisitToTell, Loops, At
<1>2. CASE thread[Acceptor].todo = {s}
  <2>1. GotoAround(Acceptor, "meet", SectorAround(info[Who(Acceptor)].cur, TRUE))
        /\ UNCHANGED <<phase, locks, world, packets>>
    BY <1>2 DEF Announce, VisitToTell
  <2>2. Goes(Acceptor, "meet")
    BY <2>1, AroundGoes, GridFacts, Roles DEF IInv, ThreadInv, Locs, AcceptLocs
  <2>3. Turn(Acceptor)
    BY <2>1, <2>2 DEF Announce, Turn, Goes, SameWho, Loops, At
  <2>4. ReadingInv'
    BY <2>1, <2>2, Roles, ReadingTurn
    DEF IInv, ReadingInv, ReadingLocs, Announce, Goes, At, world
  <2> QED
    BY <2>3, <2>4, Roles, TurnKeeps
<1> QED
  BY <1>1, <1>2

\* A broadcast of Sector_UpdateCharacter.
LEMMA FrameTurnKeeps ==
  ASSUME IInv, NEW pc \in {"frameHide", "frameForget", "frameShow"}, FrameTurn(pc)
  PROVE  IInv'
<1>1. thread' = [thread EXCEPT ![Updater].todo = @ \ {First(thread[Updater].todo)}]
  BY DEF FrameTurn
<1> QED
  BY <1>1, Roles, TodoTurns DEF FrameTurn, Loops, MoveLocs, At

\* The next of the four loops of Sector_UpdateCharacter.
LEMMA FrameNextLoopKeeps ==
  ASSUME IInv, FrameNextLoop
  PROVE  IInv'
<1>1. PICK pc \in {"frameForget", "frameShow", "frameMeet"}, S \in SUBSET Sectors :
        GotoAround(Updater, pc, S)
  BY GridFacts DEF FrameNextLoop
<1>2. Goes(Updater, pc)
  BY <1>1, AroundGoes, Roles DEF IInv, ThreadInv, Locs, FrameLocs, MoveLocs
<1>3. thread[Updater].pc \in {"frameHide", "frameForget", "frameShow"}
  BY DEF FrameNextLoop, At
<1>4. Turn(Updater)
  BY <1>2, <1>3 DEF FrameNextLoop, Turn, Goes, SameWho, Loops, MoveLocs
<1>5. ReadingInv'
  BY <1>2, <1>3, Roles, ReadingTurn
  DEF IInv, ReadingInv, ReadingLocs, FrameNextLoop, Goes, world
<1> QED
  BY <1>4, <1>5, Roles, TurnKeeps

\* The lock of the next list to read, from which the thread is to skip itself.
LEMMA BeginSectorKeeps ==
  ASSUME IInv, NEW t \in Threads, NEW pc, NEW reading \in {"meeting", "frameMeeting"},
         BeginSector(t, pc, reading), \E loop \in Loops : {pc, reading} \subseteq loop
  PROVE  IInv'
<1> DEFINE s == First(thread[t].todo)
           r == [thread[t] EXCEPT !.todo = @ \ {s}, !.sector = s,
                                  !.rest = mSectorList[s] \ {Who(t)}, !.pc = reading]
<1>1. thread \in [Threads -> ThreadType] /\ thread[t].todo \in SUBSET Sectors
  BY DEF IInv, ThreadInv, ThreadType
<1>2. s \in Sectors
  BY <1>1, FirstIsMember DEF BeginSector
<1>3. mSectorList[s] \in SUBSET Characters
  BY <1>2 DEF IInv, TypeOK
<1>4. thread' = [thread EXCEPT ![t] = r]
  BY <1>1 DEF BeginSector
<1>5. r \in ThreadType
  <2>1. thread[t] \in ThreadType
    BY <1>1
  <2>2. mSectorList[s] \ {Who(t)} \in SUBSET Characters
    BY <1>3
  <2>3. thread[t].todo \ {s} \in SUBSET Sectors
    BY <1>1
  <2> QED
    BY <1>2, <2>1, <2>2, <2>3 DEF ThreadType, AcceptLocs, FrameLocs, MoveLocs
<1>6. /\ Only(t) /\ thread'[t] = r
  <2> HIDE DEF r
  <2> QED
    BY <1>1, <1>4, <1>5 DEF Only
<1>7. thread[t].pc = pc
  BY DEF BeginSector, At
<1>8. /\ thread'[t].sector = s /\ thread'[t].rest = mSectorList[s] \ {Who(t)}
      /\ thread'[t].pc = reading /\ thread'[t].who = thread[t].who
      /\ thread'[t].copy = thread[t].copy
  BY <1>1, <1>6 DEF ThreadType
<1> HIDE DEF s, r
<1>9. Turn(t)
  BY <1>6, <1>7, <1>8 DEF BeginSector, Turn, SameWho
<1>10. ReadingInv'
  BY <1>2, <1>6, <1>8, ReadingTurn DEF IInv, ReadingLocs, BeginSector, world
<1> QED
  BY <1>9, <1>10, TurnKeeps

\* The end of a list and the unlock of its sector.
LEMMA EndSectorKeeps ==
  ASSUME IInv, NEW t \in Threads, NEW pc \in {"meet", "frameMeet"}, NEW reading,
         EndSector(t, pc, reading), \E loop \in Loops : {pc, reading} \subseteq loop
  PROVE  IInv'
<1> DEFINE r == [thread[t] EXCEPT !.sector = NoSector, !.pc = pc]
<1>1. thread \in [Threads -> ThreadType]
  BY DEF IInv, ThreadInv
<1>2. r \in ThreadType
  BY <1>1 DEF ThreadType, AcceptLocs, FrameLocs, MoveLocs
<1>3. Only(t) /\ thread'[t] = r
  BY <1>1, <1>2 DEF EndSector, Only
<1>4. /\ thread'[t].sector = NoSector /\ thread'[t].rest = {} /\ thread'[t].pc = pc
      /\ thread'[t].who = thread[t].who /\ thread'[t].copy = thread[t].copy
  BY <1>1, <1>3 DEF ThreadType, EndSector
<1>5. thread[t].pc = reading
  BY DEF EndSector, At
<1>6. Turn(t)
  BY <1>3, <1>4, <1>5 DEF EndSector, Turn, SameWho
<1>7. ReadingInv'
  BY <1>3, <1>4, ReadingTurn DEF IInv, ReadingLocs, EndSector, world
<1> QED
  BY <1>6, <1>7, TurnKeeps

\* OnAccept shows the newcomer one character of a list.
LEMMA MeetKeeps ==
  ASSUME IInv, Meet
  PROVE  IInv'
<1> DEFINE t == Acceptor
<1>1. PICK d \in thread[t].rest : thread' = [thread EXCEPT ![t].rest = @ \ {d}]
  BY DEF Meet
<1> DEFINE r == [thread[t] EXCEPT !.rest = @ \ {d}]
<1>2. t \in Threads /\ thread \in [Threads -> ThreadType]
  BY Roles DEF IInv, ThreadInv
<1>3. r \in ThreadType
  BY <1>2 DEF ThreadType
<1>4. Only(t) /\ thread'[t] = r
  BY <1>1, <1>2, <1>3 DEF Only
<1>5. /\ thread[t].pc = "meeting" /\ thread'[t].pc = "meeting"
      /\ thread'[t].rest = thread[t].rest \ {d} /\ thread'[t].sector = thread[t].sector
      /\ thread'[t].who = thread[t].who /\ thread'[t].copy = thread[t].copy
  BY <1>2, <1>4 DEF ThreadType, Meet, At
<1>6. Turn(t)
  BY <1>4, <1>5 DEF Meet, Turn, SameWho, Loops
<1>7. ReadingInv'
  BY <1>2, <1>4, <1>5, ReadingTurn DEF IInv, ReadingInv, ReadingLocs, Meet, world
<1> QED
  BY <1>2, <1>6, <1>7, TurnKeeps

\* A frame shows a moved character one character of a list.
LEMMA FrameMeetsKeeps ==
  ASSUME IInv, NEW d \in Characters, FrameMeets(d)
  PROVE  IInv'
<1> DEFINE t == Updater
           r == [thread[t] EXCEPT !.rest = @ \ {d}, !.other = d,
                   !.pc = IF info[d].action = Moving THEN "frameMotion" ELSE @]
<1>1. t \in Threads /\ thread \in [Threads -> ThreadType]
  BY Roles DEF IInv, ThreadInv
<1>2. thread' = [thread EXCEPT ![t] = r]
  BY <1>1 DEF FrameMeets
<1>3. r \in ThreadType
  BY <1>1 DEF ThreadType, FrameLocs, MoveLocs
<1>4. Only(t) /\ thread'[t] = r
  BY <1>1, <1>2, <1>3 DEF Only
<1>5. /\ thread[t].pc = "frameMeeting" /\ thread'[t].pc \in {"frameMeeting", "frameMotion"}
      /\ thread'[t].rest = thread[t].rest \ {d} /\ thread'[t].sector = thread[t].sector
      /\ thread'[t].who = thread[t].who /\ thread'[t].copy = thread[t].copy
      /\ thread'[t].other = d /\ d \in thread[t].rest
  BY <1>1, <1>4 DEF ThreadType, FrameMeets, At
<1> HIDE DEF r
<1>6. Turn(t)
  BY <1>4, <1>5 DEF FrameMeets, Turn, SameWho, Loops, MoveLocs
<1>7. ReadingInv'
  BY <1>1, <1>4, <1>5, ReadingTurn DEF IInv, ReadingInv, ReadingLocs, FrameMeets, world
<1> QED
  BY <1>1, <1>6, <1>7, TurnKeeps

\* A frame tells a moved character that the other one is moving.
LEMMA FrameTellsMotionKeeps ==
  ASSUME IInv, FrameTellsMotion
  PROVE  IInv'
<1>1. Goes(Updater, "frameMeeting")
  BY GotoGoes, Roles DEF IInv, ThreadInv, Locs, FrameLocs, MoveLocs, FrameTellsMotion
<1>2. Turn(Updater)
  BY <1>1 DEF FrameTellsMotion, Turn, Goes, SameWho, Loops, MoveLocs, At
<1>3. ReadingInv'
  BY <1>1, Roles, ReadingTurn
  DEF IInv, ReadingInv, ReadingLocs, FrameTellsMotion, Goes, At, world
<1> QED
  BY <1>2, <1>3, Roles, TurnKeeps

\* A broadcast of OnRelease, the last one included, after which it deletes.
LEMMA LeaveTellsKeeps ==
  ASSUME IInv, NEW t \in EngineThreads, LeaveTells(t)
  PROVE  IInv'
<1> DEFINE s == OwnLast(thread[t].todo, info[Who(t)].cur)
<1>1. CASE thread[t].todo # {s}
  BY <1>1, Roles, TodoTurns DEF LeaveTells, VisitToTell, Loops, At
<1>2. CASE thread[t].todo = {s}
  <2>1. Ends(t)
    BY <1>2, Roles, ReturnEnds DEF LeaveTells, VisitToTell, IInv, ThreadInv
  <2>2. LeaveEnds(t)
    BY <1>2, <2>1 DEF LeaveTells, VisitToTell, LeaveEnds
  <2> QED
    BY <2>2, LeaveEndsKeeps
<1> QED
  BY <1>1, <1>2

\* A broadcast of a move, the last one included, after which it unlocks.
LEMMA MoveTellsKeeps ==
  ASSUME IInv, NEW t \in Workers, MoveTells(t)
  PROVE  IInv'
<1> DEFINE s == OwnLast(thread[t].todo, info[Who(t)].cur)
<1>1. CASE thread[t].todo # {s}
  BY <1>1, Roles, TodoTurns DEF MoveTells, VisitToTell, Loops, At
<1>2. CASE thread[t].todo = {s}
  <2>1. Ends(t)
    BY <1>2, Roles, ReturnEnds DEF MoveTells, VisitToTell, IInv, ThreadInv
  <2>2. MoveEnds(t)
    BY <1>2, <2>1 DEF MoveTells, VisitToTell, MoveEnds
  <2> QED
    BY <2>2, MoveEndsKeeps
<1> QED
  BY <1>1, <1>2

-----------------------------------------------------------------------------
\* The invariant and what follows from it.

\* The invariant holds before the first OnAccept.
LEMMA InitHolds ==
  ASSUME Init
  PROVE  IInv
<1>1. First(Sectors) \in Sectors
  BY FirstIsMember, GridFacts
<1>2. Idle \in ThreadType
  BY DEF Idle, ThreadType, Packets
<1>3. \A t \in Threads : thread[t] = Idle
  BY DEF Init
<1>4. TypeOK
  BY <1>1, WorldConstants DEF Init, TypeOK, Engine!Init, Engine!Phases
<1>5. ThreadInv
  BY <1>2 DEF Init, ThreadInv, WellPlaced, LocsOf, Idle
<1>6. CallbackInv
  BY <1>3, Roles DEF CallbackInv, Idle, At, AcceptLocs, LeaveLocs, ReceiveLocs
<1>7. ContainerInv
  BY <1>3, Roles DEF Init, ContainerInv, Idle, WriterLocs, ReaderLocs, FrameLocs, MoveLocs
<1>8. CharacterInv
  BY <1>3, Roles DEF Init, CharacterInv, HasCharacter, Idle, At, MoveLocs
<1>9. MemberInv
  BY <1>3, Roles DEF Init, Engine!Init, MemberInv, Idle, InLocs, OutLocs
<1>10. FoundInv
  BY <1>3, Roles DEF FoundInv, Idle, At, FrameLocs, MoveLocs
<1>11. LastUserInv
  BY <1>3, Roles DEF Init, Engine!Init, LastUserInv, Idle, At
<1>12. ReadingInv
  BY <1>3 DEF ReadingInv, Idle, At, ReadingLocs
<1>13. SectorListsExact
  BY DEF Init, SectorListsExact
<1> QED
  BY <1>4, <1>5, <1>6, <1>7, <1>8, <1>9, <1>10, <1>11, <1>12, <1>13 DEF IInv

\* A step that changes no variable keeps the invariant.
LEMMA StutterKeeps ==
  ASSUME IInv, UNCHANGED vars
  PROVE  IInv'
BY
DEF vars, locks, world, IInv, TypeOK, ThreadInv, WellPlaced, CallbackInv,
    ContainerInv, CharacterInv, HasCharacter, MemberInv, FoundInv, LastUserInv,
    CharacterFree, ReadingInv, SectorListsExact, At, Who

\* Every step keeps the invariant.
LEMMA NextKeeps ==
  ASSUME IInv, [Next]_vars
  PROVE  IInv'
<1>1. CASE Accept
  <2>1. ASSUME NEW c \in Characters, OnAccept(c)
        PROVE  IInv'
    BY <2>1, OnAcceptKeeps
  <2>2. CASE BeginSector(Acceptor, "meet", "meeting")
    BY <2>2, Roles, BeginSectorKeeps DEF Loops
  <2>3. CASE EndSector(Acceptor, "meet", "meeting")
    BY <2>3, Roles, EndSectorKeeps DEF Loops
  <2> QED
    BY <1>1, <2>1, <2>2, <2>3, AcceptAddsKeeps, AcceptAddsToSectorKeeps, AnnounceKeeps,
       MeetKeeps, AcceptReturnsKeeps DEF Accept
<1>2. ASSUME NEW t \in EngineThreads, Release(t)
      PROVE  IInv'
  <2>1. ASSUME NEW c \in Characters, OnRelease(t, c)
        PROVE  IInv'
    BY <2>1, OnReleaseKeeps
  <2> QED
    BY <1>2, <2>1, LeaveLocksKeeps, LeaveRemovesKeeps, LeaveWaitsKeeps, LeaveTellsKeeps
       DEF Release
<1>3. ASSUME NEW t \in Workers, Receive(t)
      PROVE  IInv'
  <2>1. ASSUME NEW c \in Characters,
         NEW packet \in Packets, OnRecv(t, c, packet)
        PROVE  IInv'
    BY <2>1, OnRecvKeeps
  <2> QED
    BY <1>3, <2>1, FindsKeeps, StampsKeeps, MovesKeeps, MoveTellsKeeps, AttacksKeeps,
       SearchFindsKeeps, SearchFindsNoneKeeps, FindsVictimKeeps, LocksVictimKeeps,
       DamagesKeeps DEF Receive
<1>4. CASE Update
  <2>1. ASSUME NEW c \in Characters, FrameTakes(c)
        PROVE  IInv'
    BY <2>1, FrameTakesKeeps
  <2>2. ASSUME NEW s \in Sectors, FrameMoves(s)
        PROVE  IInv'
    BY <2>2, FrameMovesKeeps
  <2>3. ASSUME NEW d \in Characters, FrameMeets(d)
        PROVE  IInv'
    BY <2>3, FrameMeetsKeeps
  <2>4. CASE FrameHides \/ FrameForgets \/ FrameShows
    BY <2>4, FrameTurnKeeps DEF FrameHides, FrameForgets, FrameShows
  <2>5. CASE BeginSector(Updater, "frameMeet", "frameMeeting")
    BY <2>5, Roles, BeginSectorKeeps DEF Loops, MoveLocs
  <2>6. CASE EndSector(Updater, "frameMeet", "frameMeeting")
    BY <2>6, Roles, EndSectorKeeps DEF Loops, MoveLocs
  <2> QED
    BY <1>4, <2>1, <2>2, <2>3, <2>4, <2>5, <2>6, FrameStartsKeeps, FrameEndsKeeps,
       FrameLeavesKeeps, FrameRemovesKeeps, FrameAddsKeeps, FrameNextLoopKeeps,
       FrameTellsMotionKeeps, FrameLetsGoKeeps DEF Update
<1>5. CASE UNCHANGED vars
  BY <1>5, StutterKeeps
<1> QED
  BY <1>1, <1>2, <1>3, <1>4, <1>5 DEF Next

\* The invariant holds in every state of the server.
THEOREM WorldInvariant == Spec => []IInv
<1>1. Init => IInv
  BY InitHolds
<1>2. IInv /\ [Next]_vars => IInv'
  BY NextKeeps
<1> QED
  BY <1>1, <1>2, PTL DEF Spec

\* Type correctness of the container, the lists, the locks and the pictures.
THEOREM WorldTypes == Spec => []TypeOK
<1>1. IInv => TypeOK
  BY DEF IInv
<1> QED
  BY <1>1, WorldInvariant, PTL

\* The sector lists and the positions agree whenever no thread is between the two
\* halves of an update, however OnAccept, OnRelease and frames interleave
\* (MmoTcpFighterServer.cpp:184-222, 317-345, 871-940).
THEOREM SectorListsAreExact == Spec => []SectorListsExact
<1>1. IInv => SectorListsExact
  BY DEF IInv
<1> QED
  BY <1>1, WorldInvariant, PTL

\* A character a thread has a pointer to is not deleted.
LEMMA PhaseOfPointers ==
  ASSUME IInv, NEW t \in Threads, NEW c \in Pointers(t)
  PROVE  c \notin deleted
<1> USE DEF IInv
<1>0. t \in EngineThreads \/ t = Updater
  BY Roles
<1>1. \A s \in Sectors : mSectorList[s] \subseteq mCharacterList
  BY DEF TypeOK, SectorListsExact
<1>2. mCharacterList \cap deleted = {}
  BY DEF MemberInv, TypeOK
<1>3. thread[t].rest \subseteq mCharacterList
  BY <1>1 DEF ReadingInv
<1>4. CASE thread[t].pc = "lockVictim"
  BY <1>2, <1>4 DEF Pointers, FoundInv, At
<1>5. CASE thread[t].pc = "damage"
  <2>1. thread[t].other \in Characters
    BY <1>5 DEF ThreadInv, WellPlaced
  <2>2. characterLock[thread[t].other] = t
    BY <1>5, <2>1 DEF CharacterInv, HasCharacter, At
  <2> QED
    BY <1>5, <2>1, <2>2, Roles DEF Pointers, LastUserInv, CharacterFree, MemberInv
<1>6. CASE thread[t].pc = "frameMotion"
  <2>1. t = Updater
    BY <1>0, <1>6 DEF ThreadInv, WellPlaced, LocsOf, AcceptLocs, LeaveLocs, ReceiveLocs
  <2>2. Who(t) \in mCharacterList
    BY <1>6, <2>1 DEF FoundInv, FrameLocs, MoveLocs
  <2>3. thread[t].other \in mCharacterList
    BY <1>1, <1>6 DEF ReadingInv, ReadingLocs, At
  <2> QED
    BY <1>2, <1>6, <2>2, <2>3 DEF Pointers
<1>7. CASE thread[t].pc \notin {"idle", "stampFind", "find", "frame", "findVictim",
                                "lockVictim", "damage", "frameMotion"}
  <2>1. c = Who(t) \/ c \in thread[t].rest
    BY <1>7 DEF Pointers
  <2>2. Who(t) \notin deleted
    <3>1. CASE t = Updater
      BY <1>2, <1>7, <3>1 DEF ThreadInv, WellPlaced, LocsOf, FoundInv, FrameLocs
    <3>2. CASE t # Updater
      <4>1. t \in EngineThreads
            /\ thread[t].pc \in AcceptLocs \cup LeaveLocs \cup ReceiveLocs
        BY <1>0, <1>7, <3>2 DEF ThreadInv, WellPlaced, LocsOf
      <4> QED
        BY <4>1 DEF CallbackInv, MemberInv
    <3> QED
      BY <3>1, <3>2
  <2> QED
    BY <1>2, <1>3, <2>1, <2>2
<1>8. CASE thread[t].pc \in {"idle", "stampFind", "find", "frame", "findVictim"}
  BY <1>8 DEF Pointers
<1> QED
  BY <1>4, <1>5, <1>6, <1>7, <1>8

\* No thread holds, waits for or reads a character that OnRelease has deleted, and
\* the container and the lists have none (delete at MmoTcpFighterServer.cpp:345).
THEOREM NothingDeletedIsUsed == Spec => []NoUseOfDeleted
<1>1. ASSUME IInv
      PROVE  NoUseOfDeleted
  <2>1. \A s \in Sectors : mSectorList[s] \cap deleted = {}
    BY <1>1 DEF IInv, TypeOK, SectorListsExact, MemberInv
  <2>2. mCharacterList \cap deleted = {}
    BY <1>1 DEF IInv, MemberInv, TypeOK
  <2>3. \A t \in Threads : Pointers(t) \cap deleted = {}
    BY <1>1, PhaseOfPointers
  <2> QED
    BY <2>1, <2>2, <2>3 DEF NoUseOfDeleted
<1> QED
  BY <1>1, WorldInvariant, PTL

\* A packet handler that looks its own character up finds it, so the code after a
\* failed find is never reached for a session whose OnRecv runs.
THEOREM HandlersFind == Spec => []HandlersFindTheirCharacter
<1>1. ASSUME IInv
      PROVE  HandlersFindTheirCharacter
  <2>1. ASSUME NEW t \in Threads, thread[t].pc \in {"stampLock", "lock"}
        PROVE  Who(t) \in mCharacterList
    <3>1. t \in EngineThreads
      BY <1>1, <2>1, Roles DEF IInv, ThreadInv, WellPlaced, LocsOf, FrameLocs, MoveLocs
    <3>2. Who(t) \in Characters
      BY <1>1, <2>1 DEF IInv, ThreadInv, WellPlaced, Who
    <3> QED
      BY <1>1, <2>1, <3>1, <3>2 DEF IInv, CallbackInv, MemberInv, ReceiveLocs
  <2> QED
    BY <2>1 DEF HandlersFindTheirCharacter
<1> QED
  BY <1>1, WorldInvariant, PTL

-----------------------------------------------------------------------------
\* The order of the locks.

\* How deep a thread is in the lock order: it waits only for locks of threads that
\* are deeper, that is, of lower rank.  Container, character, sector, nothing.
Rank(t) ==
  IF \/ thread[t].pc \in {"acceptAdd", "leaveRemove", "frameRemove", "frameAdd",
                          "damage", "frame", "frameMeeting", "frameMotion"}
     \/ thread[t].pc = "idle" /\ t # Updater
  THEN 0
  ELSE IF thread[t].pc \in {"announce", "meet", "tell", "search", "leaveTell",
                            "frameHide", "frameForget", "frameShow", "frameMeet"}
  THEN 1
  ELSE IF thread[t].pc \in {"meeting", "stampLock", "lock", "leaveWait",
                            "frameLock", "lockVictim"}
  THEN 2
  ELSE IF thread[t].pc \in {"acceptLock", "leaveLock"}
  THEN 3
  ELSE 4

\* Who wants a sector exclusively is about to add to its list or remove from it.
LEMMA SectorWanters ==
  ASSUME NEW t, WantsSectorOf(t) # NoSector
  PROVE  thread[t].pc \in {"acceptAdd", "leaveRemove", "frameRemove", "frameAdd"}
BY DEF WantsSectorOf, At

\* While a thread is about to change a list, no thread reads one: both are inside
\* the container's lock, the one alone and the other as its only frame.
LEMMA OneAtASector ==
  ASSUME IInv, NEW t \in Threads, NEW u \in Threads,
         thread[t].pc \in {"acceptAdd", "leaveRemove", "frameRemove", "frameAdd"}
  PROVE  thread[u].sector = NoSector
<1>1. SUFFICES ASSUME thread[u].pc \in ReadingLocs
               PROVE  FALSE
  BY DEF IInv, ReadingInv
<1>2. thread[t].pc \in WriterLocs \/ thread[t].pc \in ReaderLocs \cap MoveLocs
  BY DEF WriterLocs, ReaderLocs, FrameLocs, MoveLocs
<1>3. thread[u].pc \in WriterLocs \/ thread[u].pc \in ReaderLocs \cap MoveLocs
  BY <1>1 DEF ReadingLocs, WriterLocs, ReaderLocs, FrameLocs, MoveLocs
<1>4. thread[t].pc \in MoveLocs => t = Updater
  BY Roles
  DEF IInv, ThreadInv, WellPlaced, LocsOf, MoveLocs, AcceptLocs, LeaveLocs,
      ReceiveLocs
<1>5. thread[u].pc \in MoveLocs => u = Updater
  BY Roles
  DEF IInv, ThreadInv, WellPlaced, LocsOf, MoveLocs, AcceptLocs, LeaveLocs,
      ReceiveLocs
<1>6. t = u
  BY <1>2, <1>3, <1>4, <1>5, Roles DEF IInv, ContainerInv
<1> QED
  BY <1>1, <1>6 DEF ReadingLocs

\* No sector is the stand-in for no sector.
LEMMA ReadsOnGrid ==
  ASSUME IInv, NEW t \in Threads
  PROVE  NoSector \notin ReadsSectors(t)
<1>1. thread[t].todo \subseteq Sectors
  BY DEF IInv, ThreadInv, ThreadType
<1> QED
  BY <1>1, GridFacts DEF ReadsSectors

\* Who has a character's lock never waits for another one.
LEMMA HoldersOfCharacters ==
  ASSUME IInv, NEW c \in Characters, NEW u \in Threads, characterLock[c] = u
  PROVE  Rank(u) < 2
BY DEF IInv, CharacterInv, HasCharacter, At, MoveLocs, Rank

\* A thread waits only for threads of lower rank.
LEMMA WaitsDown ==
  ASSUME IInv, NEW t \in Threads, NEW u \in WaitsFor(t)
  PROVE  u \in Threads /\ Rank(u) < Rank(t)
<1>1. \A v \in Threads : v = containerLock.writer => Rank(v) < 3
  BY DEF IInv, ContainerInv, WriterLocs, Rank
<1>2. \A v \in containerLock.readers : v \in Threads /\ Rank(v) < 3
  <2>1. containerLock.readers \subseteq Threads
    BY DEF IInv, TypeOK
  <2> QED
    BY <2>1 DEF IInv, ContainerInv, ReaderLocs, FrameLocs, MoveLocs, Rank
<1>3. WantedCharacters(t) \subseteq Characters
  BY DEF IInv, ThreadInv, ThreadType, WellPlaced, WantedCharacters, At, Who
<1>4. CASE /\ u \in Threads /\ thread[u].sector # NoSector
           /\ thread[u].sector = WantsSectorOf(t)
  BY <1>4, SectorWanters, OneAtASector
<1>5. CASE u \in Threads /\ WantsSectorOf(u) \in ReadsSectors(t)
  <2>1. Rank(u) = 0
    BY <1>5, ReadsOnGrid, SectorWanters DEF Rank
  <2>2. thread[t].pc \in {"announce", "tell", "leaveTell", "frameHide", "frameForget",
                         "frameShow", "search", "meet", "frameMeet"}
    BY <1>5 DEF ReadsSectors, At
  <2>3. Rank(t) = 1
    BY <2>2 DEF Rank
  <2> QED
    BY <1>5, <2>1, <2>3
<1>6. CASE u \in {characterLock[c] : c \in WantedCharacters(t)} \cap Threads
  <2>1. Rank(u) < 2
    BY <1>3, <1>6, HoldersOfCharacters
  <2>2. Rank(t) = 2
    BY <1>6 DEF WantedCharacters, Rank, At
  <2> QED
    BY <1>6, <2>1, <2>2
<1>7. CASE WantsContainer(t) /\ u \in ContainerHolders
  BY <1>1, <1>2, <1>7 DEF ContainerHolders, WantsContainer, Rank
<1>8. CASE /\ \/ thread[t].pc \in {"stampFind", "find", "findVictim"}
              \/ (t = Updater /\ At(t, "idle"))
           /\ u \in ({containerLock.writer} \cap Threads)
                   \cup {v \in Threads : WantsContainer(v)}
  BY <1>1, <1>8 DEF WantsContainer, Rank, At
<1> QED
  BY <1>4, <1>5, <1>6, <1>7, <1>8 DEF WaitsFor

\* No set of threads waits for one another in a circle, with the container's
\* reader-writer lock, the characters' and the sectors' locks taken together: in
\* every set one of lowest rank waits for none of the others.
THEOREM NoThreadsWaitInACircle == Spec => []NoLockCycle
<1>1. ASSUME IInv
      PROVE  NoLockCycle
  <2>1. ASSUME NEW S \in SUBSET Threads, S # {}
        PROVE  \E t \in S : WaitsFor(t) \cap S = {}
    <3> DEFINE R == {Rank(t) : t \in S}
    <3>1. R \subseteq Nat /\ R # {}
      BY <2>1 DEF Rank
    <3>2. \E n \in R : \A m \in R : n <= m
      <4> HIDE DEF R
      <4> QED
        BY <3>1, Smallest
    <3>3. PICK t \in S : \A u \in S : Rank(t) <= Rank(u)
      BY <3>2
    <3>4. \A u \in S : Rank(u) \in Nat
      BY DEF Rank
    <3>5. ASSUME NEW u \in WaitsFor(t), u \in S
          PROVE  FALSE
      <4>1. t \in Threads /\ Rank(u) < Rank(t)
        BY <1>1, <3>5, WaitsDown
      <4> QED
        BY <3>3, <3>4, <3>5, <4>1
    <3> QED
      BY <3>5
  <2> QED
    BY <2>1 DEF NoLockCycle
<1> QED
  BY <1>1, WorldInvariant, PTL

-----------------------------------------------------------------------------
\* What clients show.  Around, the lists, and what a packet changes of a view.

\* Distances of at most one.
LEMMA AtMostOne ==
  \A a, b \in Int : /\ a - b \in -1 .. 1 <=> b - a \in -1 .. 1
                    /\ a - b \in -1 .. 1 <=> a \in b - 1 .. b + 1
OBVIOUS

\* Which sectors are around one, by their distance.
LEMMA AroundByDistance ==
  ASSUME NEW s \in Sectors, NEW u \in Sectors
  PROVE  u \in Around(s) <=> u.x - s.x \in -1 .. 1 /\ u.y - s.y \in -1 .. 1
<1>1. s.x \in Int /\ s.y \in Int /\ u.x \in Int /\ u.y \in Int
  BY GridFacts DEF Sectors
<1> QED
  BY <1>1, AtMostOne DEF Around, SectorAround

\* Two characters are neighbours if one is around the other, whichever one looks.
LEMMA NeighboursAround ==
  ASSUME TypeOK, NEW c \in Characters, NEW d \in Characters
  PROVE  /\ Neighbours(c, d) <=> info[c].cur \in Around(info[d].cur)
         /\ Neighbours(c, d) <=> info[d].cur \in Around(info[c].cur)
<1>1. info[c].cur \in Sectors /\ info[d].cur \in Sectors
  BY DEF TypeOK
<1>2. /\ info[c].cur.x \in Int /\ info[c].cur.y \in Int
      /\ info[d].cur.x \in Int /\ info[d].cur.y \in Int
  BY <1>1, GridFacts DEF Sectors
<1>3. /\ Neighbours(c, d) <=> /\ info[d].cur.x - info[c].cur.x \in -1 .. 1
                              /\ info[d].cur.y - info[c].cur.y \in -1 .. 1
  BY <1>2, AtMostOne DEF Neighbours
<1> QED
  BY <1>1, <1>3, AroundByDistance DEF Neighbours

\* A character that comes or moves is in the container, and it is the only one.
LEMMA OneChanging ==
  ASSUME IInv, NEW t \in Threads, Changing(t)
  PROVE  /\ Who(t) \in mCharacterList
         /\ t \in {Acceptor, Updater}
         /\ t = Acceptor <=> thread[t].pc \in JoinLocs
         /\ \A u \in Threads : Changing(u) => u = t
<1>1. \A u \in Threads : Changing(u) =>
        \/ u = Acceptor /\ thread[u].pc \in JoinLocs /\ thread[u].pc \notin MoveLocs
        \/ u = Updater /\ thread[u].pc \in MoveLocs /\ thread[u].pc \notin JoinLocs
  BY Roles
  DEF IInv, ThreadInv, WellPlaced, LocsOf, Changing, JoinLocs, MoveLocs, FrameLocs,
      AcceptLocs, LeaveLocs, ReceiveLocs
<1>2. ~(Changing(Acceptor) /\ Changing(Updater))
  BY <1>1, Roles
  DEF IInv, ContainerInv, WriterLocs, ReaderLocs, JoinLocs, FrameLocs
<1>3. Who(t) \in mCharacterList
  BY <1>1, Roles DEF IInv, MemberInv, FoundInv, InLocs, JoinLocs, FrameLocs, MoveLocs
<1> QED
  BY <1>1, <1>2, <1>3, Roles

\* While a thread has the container's lock exclusively, nothing else is changing.
LEMMA WriterAlone ==
  ASSUME IInv, NEW t \in Threads, thread[t].pc \in WriterLocs
  PROVE  \A u \in Threads : u # t =>
           thread[u].pc \notin WriterLocs \cup ReaderLocs /\ ~Changing(u)
BY Roles DEF IInv, ContainerInv, WriterLocs, ReaderLocs, Changing, JoinLocs, FrameLocs

\* A character in the container is on the list of its sector alone, unless it is
\* just being put there.
LEMMA Listed ==
  ASSUME IInv, NEW c \in mCharacterList, NEW s \in Sectors,
         \A t \in Threads : Who(t) = c =>
           thread[t].pc \notin {"acceptAdd", "frameRemove", "frameAdd"}
  PROVE  c \in mSectorList[s] <=> s = info[c].cur
BY Roles DEF IInv, TypeOK, SectorListsExact, At

\* What is on a list is in the container.
LEMMA ListsInContainer ==
  ASSUME IInv, NEW s \in Sectors
  PROVE  mSectorList[s] \subseteq mCharacterList
BY DEF IInv, TypeOK, SectorListsExact

\* The others are on the lists of their sectors while one comes or moves.
LEMMA OthersListed ==
  ASSUME IInv, NEW t \in Threads, Changing(t), NEW c \in Others(t), NEW s \in Sectors
  PROVE  c \in mSectorList[s] <=> s = info[c].cur
<1>1. \A u \in Threads : Who(u) = c => ~Changing(u)
  BY OneChanging DEF Others
<1>2. c \in mCharacterList
  BY DEF Others
<1> QED
  BY <1>1, <1>2, Listed DEF Changing, JoinLocs, MoveLocs

\* The clients in R are told of a.
Hear(R, a, packet) ==
  view' = [c \in Characters |-> IF c \in R THEN Told(view[c], a, packet) ELSE view[c]]
Open(S) == {c \in S : HasSession(c)}

\* Where no ring is full a broadcast reaches all it is sent to.
LEMMA BroadcastReaches ==
  ASSUME ~RingMayFill, NEW s, NEW a, NEW packet, Broadcast(s, a, packet)
  PROVE  Hear(Open(mSectorList[s] \ {a}), a, packet)
BY DEF Broadcast, Reached, Hear, Open

\* A packet to one client reaches that one.
LEMMA SendReaches ==
  ASSUME ~RingMayFill, ViewShape, NEW c \in Characters, NEW d, NEW packet,
         SendTo(c, d, packet)
  PROVE  Hear(Open({c}), d, packet)
<1>1. view' = IF HasSession(c) THEN [view EXCEPT ![c] = Told(@, d, packet)] ELSE view
  BY DEF SendTo, Reached
<1> QED
  BY <1>1 DEF Hear, Open, ViewShape

\* CREATE of a: those told show it, the others and the rest of the views are as before.
LEMMA HearCreate ==
  ASSUME ViewShape, NEW R, NEW a \in Characters, a \notin R,
         NEW packet \in {"create", "createMoving"}, Hear(R, a, packet)
  PROVE  /\ ViewShape'
         /\ \A c, d \in Characters : Shows(c, d)' <=> Shows(c, d) \/ (c \in R /\ d = a)
         /\ \A c, d \in Characters : ~(c \in R /\ d = a) /\ Shows(c, d)' =>
              view'[c][d] = view[c][d]
         /\ \A c \in R \cap Characters :
              view'[c][a] = IF packet = "create" THEN Still ELSE Moving
<1>1. ASSUME NEW c \in Characters
      PROVE  /\ view'[c] = [d \in DOMAIN view'[c] |-> view'[c][d]]
             /\ \A d \in Characters : Shows(c, d)' <=> Shows(c, d) \/ (c \in R /\ d = a)
             /\ DOMAIN view'[c] \subseteq Characters \ {c}
             /\ \A d \in DOMAIN view'[c] : ~(c \in R /\ d = a) =>
                  view'[c][d] = view[c][d]
             /\ c \in R => view'[c][a] = IF packet = "create" THEN Still ELSE Moving
  <2>1. CASE c \in R
    <3>1. view'[c] = [d \in DOMAIN view[c] \cup {a} |->
                        IF d = a THEN IF packet = "create" THEN Still ELSE Moving
                        ELSE view[c][d]]
      BY <2>1 DEF Hear, Told
    <3>2. DOMAIN view[c] \subseteq Characters \ {c} /\ a # c
      BY <2>1 DEF ViewShape
    <3> QED
      BY <2>1, <3>1, <3>2 DEF Shows
  <2>2. CASE c \notin R
    <3>1. view'[c] = view[c]
      BY <2>2 DEF Hear
    <3> QED
      BY <2>2, <3>1 DEF ViewShape, Shows
  <2> QED
    BY <2>1, <2>2
<1>2. view' = [c \in Characters |-> view'[c]]
  BY DEF Hear
<1>3. ViewShape'
  BY <1>1, <1>2 DEF ViewShape
<1>4. \A c, d \in Characters : ~(c \in R /\ d = a) /\ Shows(c, d)' =>
        view'[c][d] = view[c][d]
  BY <1>1 DEF Shows
<1> QED
  BY <1>1, <1>3, <1>4

\* DELETE of a: those told do not show it any more.
LEMMA HearDelete ==
  ASSUME ViewShape, NEW R, NEW a \in Characters, Hear(R, a, "delete")
  PROVE  /\ ViewShape'
         /\ \A c, d \in Characters : Shows(c, d)' <=> Shows(c, d) /\ ~(c \in R /\ d = a)
         /\ \A c, d \in Characters : Shows(c, d)' => view'[c][d] = view[c][d]
<1>1. ASSUME NEW c \in Characters
      PROVE  /\ view'[c] = [d \in DOMAIN view'[c] |-> view'[c][d]]
             /\ DOMAIN view'[c] = DOMAIN view[c] \ (IF c \in R THEN {a} ELSE {})
             /\ \A d \in DOMAIN view'[c] : view'[c][d] = view[c][d]
  <2>1. CASE c \in R
    <3>1. view'[c] = [d \in DOMAIN view[c] \ {a} |-> view[c][d]]
      BY <2>1 DEF Hear, Told
    <3> QED
      BY <2>1, <3>1
  <2>2. CASE c \notin R
    <3>1. view'[c] = view[c]
      BY <2>2 DEF Hear
    <3> QED
      BY <2>2, <3>1 DEF ViewShape
  <2> QED
    BY <2>1, <2>2
<1>2. view' = [c \in Characters |-> view'[c]]
  BY DEF Hear
<1>3. ViewShape'
  BY <1>1, <1>2 DEF ViewShape
<1> QED
  BY <1>1, <1>3 DEF Shows

\* MOVE_START and MOVE_STOP of a: those told that show it show what it does.
LEMMA HearMotion ==
  ASSUME ViewShape, NEW R, NEW a \in Characters, NEW packet \in {"start", "stop"},
         Hear(R, a, packet)
  PROVE  /\ ViewShape'
         /\ \A c, d \in Characters : Shows(c, d)' <=> Shows(c, d)
         /\ \A c, d \in Characters : ~(c \in R /\ d = a) /\ Shows(c, d)' =>
              view'[c][d] = view[c][d]
         /\ \A c \in R \cap Characters : Shows(c, a)' =>
              view'[c][a] = IF packet = "stop" THEN Still ELSE Moving
<1>1. ASSUME NEW c \in Characters
      PROVE  /\ view'[c] = [d \in DOMAIN view'[c] |-> view'[c][d]]
             /\ DOMAIN view'[c] = DOMAIN view[c]
             /\ \A d \in DOMAIN view'[c] : ~(c \in R /\ d = a) =>
                  view'[c][d] = view[c][d]
             /\ c \in R /\ a \in DOMAIN view'[c] =>
                  view'[c][a] = IF packet = "stop" THEN Still ELSE Moving
  <2>1. CASE c \in R
    <3>1. view'[c] = [d \in DOMAIN view[c] |->
                        IF d = a THEN IF packet = "stop" THEN Still ELSE Moving
                        ELSE view[c][d]]
      BY <2>1 DEF Hear, Told
    <3> QED
      BY <2>1, <3>1
  <2>2. CASE c \notin R
    <3>1. view'[c] = view[c]
      BY <2>2 DEF Hear
    <3> QED
      BY <2>2, <3>1 DEF ViewShape
  <2> QED
    BY <2>1, <2>2
<1>2. view' = [c \in Characters |-> view'[c]]
  BY DEF Hear
<1>3. ViewShape'
  BY <1>1, <1>2 DEF ViewShape
<1> QED
  BY <1>1, <1>3 DEF Shows

-----------------------------------------------------------------------------
\* Which steps leave the parts of PInv as they are.

\* A thread that is not moved is as far as it was with what it tells.
LEMMA SameFrom ==
  ASSUME NEW u, thread'[u] = thread[u], info'[Who(u)].cur = info[Who(u)].cur,
         info'[Who(u)].old = info[Who(u)].old
  PROVE  SeenFrom(u)' = SeenFrom(u) /\ SeesTo(u)' = SeesTo(u)
BY DEF SeenFrom, SeesTo, At, Who, Around, SectorAround, Sectors

\* A step of a thread that changes nothing of who sees whom keeps PictureInv.
LEMMA PictureFrame ==
  ASSUME IInv, PictureInv, NEW t \in Threads, Only(t), ~Changing(t), ~Changing(t)',
         mCharacterList' \subseteq mCharacterList,
         \A u \in Threads : Changing(u) => mCharacterList' = mCharacterList,
         \A c \in mCharacterList :
           /\ info'[c].cur = info[c].cur /\ info'[c].old = info[c].old
           /\ HasSession(c)' => HasSession(c),
         \A c, d \in mCharacterList : HasSession(c)' => (Shows(c, d)' <=> Shows(c, d))
  PROVE  PictureInv'
<1>1. ASSUME NEW u \in Threads, Changing(u)'
      PROVE  u # t /\ thread'[u] = thread[u] /\ Changing(u)
  BY <1>1 DEF Only, Changing
<1>2. \A u \in Threads : Changing(u) => Changing(u)' /\ thread'[u] = thread[u]
  BY DEF Only, Changing
<1>3. ASSUME NEW u \in Threads, Changing(u)'
      PROVE  Seen(u)' /\ Sees(u)'
  <2>1. Changing(u) /\ thread'[u] = thread[u] /\ thread'[u].who = thread[u].who
        /\ mCharacterList' = mCharacterList
    BY <1>1, <1>3
  <2>2. Who(u) \in mCharacterList
    BY <2>1, OneChanging
  <2>3. SeenFrom(u)' = SeenFrom(u) /\ SeesTo(u)' = SeesTo(u)
    BY <2>1, <2>2, SameFrom
  <2>4. Seen(u) /\ Sees(u)
    BY <2>1 DEF PictureInv
  <2>5. Who(u)' = Who(u) /\ Others(u)' = Others(u)
    BY <2>1 DEF Who, Others
  <2>6. Seen(u)'
    BY <2>1, <2>2, <2>3, <2>4, <2>5 DEF Seen, Others
  <2>7. Sees(u)'
    BY <2>1, <2>2, <2>3, <2>4, <2>5 DEF Sees, Others
  <2> QED
    BY <2>6, <2>7
<1>4. ASSUME NEW c \in mCharacterList', NEW d \in mCharacterList', c # d,
             \A u \in Threads : Changing(u)' => Who(u)' \notin {c, d}
      PROVE  Settled(c, d)'
  <2>1. c \in mCharacterList /\ d \in mCharacterList
    OBVIOUS
  <2>2. \A u \in Threads : Changing(u) => Who(u) \notin {c, d}
    BY <1>2, <1>4 DEF Who
  <2>3. Settled(c, d)
    BY <1>4, <2>1, <2>2 DEF PictureInv
  <2>4. Neighbours(c, d)' <=> Neighbours(c, d)
    BY <2>1 DEF Neighbours
  <2> QED
    BY <2>1, <2>3, <2>4 DEF Settled
<1> QED
  BY <1>3, <1>4 DEF PictureInv

\* A turn of the one that comes or moves, of whom the others and whose client are
\* told what the turn is for, keeps PictureInv.
LEMMA PictureTurn ==
  ASSUME IInv, PictureInv, NEW t \in Threads, Only(t), SameWho(t),
         Changing(t), Changing(t)', UNCHANGED <<mCharacterList, phase>>,
         \A c \in Others(t) : info'[c].cur = info[c].cur,
         \A c, d \in Others(t) : c # d => (Shows(c, d)' <=> Shows(c, d)),
         Seen(t)', Sees(t)'
  PROVE  PictureInv'
<1>1. \A u \in Threads : u # t => ~Changing(u)'
  BY OneChanging DEF Only, Changing
<1>2. Who(t)' = Who(t)
  BY DEF SameWho, Who
<1>3. ASSUME NEW c \in mCharacterList, NEW d \in mCharacterList, c # d,
             Who(t) \notin {c, d}
      PROVE  Settled(c, d)'
  <2>1. c \in Others(t) /\ d \in Others(t)
    BY <1>3 DEF Others
  <2>2. Settled(c, d)
    BY <1>3, OneChanging DEF PictureInv
  <2>3. Neighbours(c, d)' <=> Neighbours(c, d)
    BY <2>1 DEF Neighbours
  <2> QED
    BY <1>3, <2>1, <2>2, <2>3 DEF Settled, HasSession
<1> QED
  BY <1>1, <1>2, <1>3 DEF PictureInv

\* One that has told and been told all keeps PictureInv when it is done.
LEMMA PictureEnds ==
  ASSUME IInv, PictureInv, NEW t \in Threads, Only(t), Changing(t), ~Changing(t)',
         UNCHANGED <<view, mCharacterList, info>>,
         \A c \in mCharacterList : HasSession(c)' => HasSession(c),
         SeenFrom(t) = Around(info[Who(t)].cur), SeesTo(t) = Around(info[Who(t)].cur),
         thread[t].rest = {}
  PROVE  PictureInv'
<1>1. \A u \in Threads : ~Changing(u)'
  BY OneChanging DEF Only, Changing
<1>2. Seen(t) /\ Sees(t) /\ Who(t) \in mCharacterList
  BY OneChanging DEF PictureInv
<1>3. TypeOK /\ mCharacterList \subseteq Characters
  BY DEF IInv, TypeOK
<1>4. ASSUME NEW c \in mCharacterList, NEW d \in mCharacterList, c # d, HasSession(c)
      PROVE  Shows(c, d) <=> Neighbours(c, d)
  <2>1. CASE Who(t) = c
    BY <1>2, <1>3, <1>4, <2>1, NeighboursAround DEF Sees, Others
  <2>2. CASE Who(t) = d
    BY <1>2, <1>3, <1>4, <2>2, NeighboursAround DEF Seen, Others
  <2>3. CASE Who(t) \notin {c, d}
    <3>1. Settled(c, d)
      BY <1>4, <2>3, OneChanging DEF PictureInv
    <3> QED
      BY <1>4, <3>1 DEF Settled
  <2> QED
    BY <2>1, <2>2, <2>3
<1>5. \A c, d \in mCharacterList : c # d => Settled(c, d)'
  BY <1>4 DEF Settled, Shows, Neighbours
<1> QED
  BY <1>1, <1>5 DEF PictureInv

\* A step keeps ViewInv if whom it shows is in the container.
LEMMA ViewFrame ==
  ASSUME IInv, ViewInv, ViewShape', NEW t \in Threads, Only(t),
         \A c, d \in Characters : Shows(c, d)' =>
           \/ Shows(c, d)
           \/ {c, d} \subseteq mCharacterList' /\ thread'[Acceptor].pc # "acceptAdd",
         \A c \in Characters :
           phase'[c] \in {"none", "accepting"} /\ c \notin mCharacterList' =>
             phase[c] \in {"none", "accepting"} /\ c \notin mCharacterList,
         thread'[Acceptor].pc = "acceptAdd" =>
           /\ thread[Acceptor].pc \in {"acceptLock", "acceptAdd"}
           /\ thread'[Acceptor].who = thread[Acceptor].who
  PROVE  ViewInv'
<1>1. \A c \in Characters : DOMAIN view'[c] \subseteq Characters
  BY DEF ViewShape
<1>2. ASSUME NEW c \in Characters, phase'[c] \in {"none", "accepting"},
             c \notin mCharacterList'
      PROVE  DOMAIN view'[c] = {} /\ \A d \in Characters : ~Shows(d, c)'
  BY <1>1, <1>2 DEF ViewInv, Shows
<1>3. ASSUME thread'[Acceptor].pc = "acceptAdd"
      PROVE  DOMAIN view'[thread'[Acceptor].who] = {}
  <2>1. thread[Acceptor].pc \in {"acceptLock", "acceptAdd"}
        /\ thread'[Acceptor].who = thread[Acceptor].who
    BY <1>3
  <2>2. thread[Acceptor].who \in Characters
    BY <2>1, Roles DEF IInv, ThreadInv, WellPlaced
  <2>3. DOMAIN view[thread[Acceptor].who] = {}
    BY <2>1, <2>2, Roles
    DEF IInv, CallbackInv, MemberInv, OutLocs, ViewInv, At, Who, AcceptLocs
  <2> QED
    BY <1>1, <1>3, <2>1, <2>2, <2>3 DEF Shows
<1> QED
  BY <1>2, <1>3 DEF ViewInv, At, Who

\* A step keeps TurnInv if the thread's own turn is in order, and those whose turn
\* depends on a character's sector and action find them as they were.
LEMMA TurnFrame ==
  ASSUME TurnInv, NEW t \in Threads, Only(t), Visits(t)', Tells(t)',
         \A u \in Threads \ {t} : Changing(u) \/ At(u, "tell") =>
           info'[Who(u)] = info[Who(u)]
  PROVE  TurnInv'
<1>1. ASSUME NEW u \in Threads \ {t}
      PROVE  Visits(u)' /\ Tells(u)'
  <2>1. thread'[u] = thread[u] /\ Visits(u) /\ Tells(u)
    BY DEF Only, TurnInv
  <2>2. CASE Changing(u) \/ At(u, "tell")
    <3>1. info'[Who(u)] = info[Who(u)]
      BY <2>2
    <3>2. Visits(u)'
      BY <2>1, <3>1
      DEF Visits, At, Who, Around, AddSectors, RemoveSectors, SectorAround, Sectors
    <3>3. Tells(u)'
      BY <2>1, <3>1 DEF Tells, At, Who, Stayed
    <3> QED
      BY <3>2, <3>3
  <2>3. CASE ~(Changing(u) \/ At(u, "tell"))
    <3>1. Visits(u)'
      BY <2>1, <2>3 DEF Visits, At, Changing, JoinLocs, MoveLocs, ReadingLocs
    <3>2. Tells(u)'
      BY <2>1, <2>3 DEF Tells, At, Changing
    <3> QED
      BY <3>1, <3>2
  <2> QED
    BY <2>2, <2>3
<1> QED
  BY <1>1 DEF TurnInv

\* A step of a thread that is not at its last broadcasts leaves those to come.
LEMMA LeavingFrame ==
  ASSUME NEW t \in Threads, Only(t), NEW c, NEW d, Leaving(c, d),
         thread[t].pc \notin {"leaveWait", "leaveTell"},
         info'[c].cur = info[c].cur, info'[d].cur = info[d].cur
  PROVE  Leaving(c, d)'
<1>1. PICK u \in EngineThreads :
        /\ Who(u) = d
        /\ \/ At(u, "leaveWait") /\ Neighbours(c, d)
           \/ At(u, "leaveTell") /\ info[c].cur \in thread[u].todo
  BY DEF Leaving
<1>2. thread'[u] = thread[u]
  BY <1>1, Roles DEF Only, At
<1> QED
  BY <1>1, <1>2 DEF Leaving, At, Who, Neighbours

\* Likewise for the broadcasts of MOVE_START and MOVE_STOP.
LEMMA ToBeToldFrame ==
  ASSUME NEW t \in Threads, Only(t), NEW c, NEW d, ToBeTold(c, d),
         thread[t].pc # "tell", info'[c].cur = info[c].cur
  PROVE  ToBeTold(c, d)'
<1>1. PICK u \in Workers : At(u, "tell") /\ Who(u) = d /\ info[c].cur \in thread[u].todo
  BY DEF ToBeTold
<1>2. thread'[u] = thread[u]
  BY <1>1, Roles DEF Only, At
<1> QED
  BY <1>1, <1>2 DEF ToBeTold, At, Who

\* A step that shows nobody new to those who stay, and leaves what they are still to
\* be told, keeps GoneInv.
LEMMA GoneFrame ==
  ASSUME GoneInv,
         \A c \in Characters : Staying(c)' =>
           /\ Staying(c)
           /\ \A d \in DOMAIN view'[c] \ mCharacterList' :
                /\ d \in DOMAIN view[c] \ mCharacterList
                /\ Leaving(c, d) => Leaving(c, d)'
  PROVE  GoneInv'
BY DEF GoneInv

\* A step that leaves those who stay what they show of the others, or shows them what
\* those do, keeps ActionInv.
LEMMA ActionFrame ==
  ASSUME ActionInv,
         \A c \in Characters : Staying(c)' =>
           \A d \in DOMAIN view'[c] \cap mCharacterList' :
             \/ view'[c][d] = info'[d].action
             \/ ToBeTold(c, d)'
             \/ /\ Staying(c) /\ d \in DOMAIN view[c] \cap mCharacterList
                /\ view'[c][d] = view[c][d] /\ info'[d].action = info[d].action
                /\ ToBeTold(c, d) => ToBeTold(c, d)'
  PROVE  ActionInv'
BY DEF ActionInv

\* A session is called back, but not released.
Calls ==
  \/ UNCHANGED phase
  \/ \E c \in Characters :
       \/ Engine!OnAcceptStarts(c) \/ Engine!OnAcceptReturns(c)
       \/ Engine!OnRecvStarts(c) \/ Engine!OnRecvReturns(c)

\* Callbacks but OnRelease neither end a session nor make one new.
LEMMA CallsKeep ==
  ASSUME TypeOK, Calls
  PROVE  \A c \in Characters :
           /\ HasSession(c)' <=> HasSession(c)
           /\ phase'[c] = "none" => phase[c] = "none"
           /\ phase'[c] = "accepting" => phase[c] \in {"none", "accepting"}
           /\ phase'[c] = "releasing" <=> phase[c] = "releasing"
BY DEF TypeOK, Calls, HasSession, Engine!OnAcceptStarts, Engine!OnAcceptReturns,
       Engine!OnRecvStarts, Engine!OnRecvReturns, Engine!Step

\* A step that releases no session keeps SessionInv.
LEMMA SessionFrame ==
  ASSUME TypeOK, SessionInv, NEW t \in Threads, Only(t), Calls,
         \A c \in Characters :
           phase'[c] \in {"none", "accepting"} => info'[c].action = info[c].action,
         thread[t].pc \in LeaveLocs => thread'[t].pc \in LeaveLocs /\ SameWho(t)
  PROVE  SessionInv'
<1>1. \A u \in EngineThreads : thread[u].pc \in LeaveLocs =>
        thread'[u].pc \in LeaveLocs /\ thread'[u].who = thread[u].who
  BY Roles DEF Only, SameWho
<1>2. \A c \in Characters : phase'[c] = "releasing" =>
        \E u \in EngineThreads : thread'[u].pc \in LeaveLocs /\ thread'[u].who = c
  BY <1>1, CallsKeep DEF SessionInv, Who
<1>3. \A c \in Characters : phase'[c] \in {"none", "accepting"} => info'[c].action = Still
  BY CallsKeep DEF SessionInv
<1> QED
  BY <1>2, <1>3 DEF SessionInv, Who

\* A step that changes neither a view nor the container nor a character keeps what is
\* said of those who stay.
LEMMA UnseenFrame ==
  ASSUME IInv, ViewInv, GoneInv, ActionInv, NEW t \in Threads, Only(t), Calls,
         UNCHANGED <<view, mCharacterList, info>>,
         thread'[t].pc = "acceptAdd" => thread[t].pc = "acceptAdd" /\ SameWho(t),
         thread[t].pc \notin {"leaveWait", "leaveTell", "tell"}
  PROVE  ViewInv' /\ GoneInv' /\ ActionInv'
<1>1. \A c \in Characters : HasSession(c)' <=> HasSession(c)
  BY CallsKeep DEF IInv
<1>2. \A c \in Characters : Staying(c)' <=> Staying(c)
  BY <1>1 DEF Staying, Stayed
<1>3. ViewInv'
  <2>1. ViewShape'
    BY DEF ViewInv, ViewShape
  <2>2. thread'[Acceptor].pc = "acceptAdd" =>
          thread[Acceptor].pc = "acceptAdd" /\ thread'[Acceptor].who = thread[Acceptor].who
    BY Roles DEF Only, SameWho
  <2>3. \A c \in Characters : phase'[c] \in {"none", "accepting"} =>
          phase[c] \in {"none", "accepting"}
    BY CallsKeep DEF IInv
  <2> QED
    BY <2>1, <2>2, <2>3, ViewFrame DEF Shows
<1>4. GoneInv'
  <2>1. \A c, d \in Characters : Leaving(c, d) => Leaving(c, d)'
    BY LeavingFrame
  <2>2. \A c \in Characters : DOMAIN view[c] \subseteq Characters
    BY DEF ViewInv, ViewShape
  <2> QED
    BY <1>2, <2>1, <2>2, GoneFrame
<1>5. ActionInv'
  <2>1. \A c, d \in Characters : ToBeTold(c, d) => ToBeTold(c, d)'
    BY ToBeToldFrame
  <2>2. \A c \in Characters : DOMAIN view[c] \subseteq Characters
    BY DEF ViewInv, ViewShape
  <2> QED
    BY <1>2, <2>1, <2>2, ActionFrame
<1> QED
  BY <1>3, <1>4, <1>5

\* A step of a thread's own: it shows, lists and moves nobody.
Unseen(t) ==
  /\ Only(t)
  /\ Calls
  /\ ~Changing(t) /\ ~Changing(t)'
  /\ thread[t].pc \notin {"leaveWait", "leaveTell", "tell"}
  /\ thread'[t].pc \notin {"leaveWait", "leaveTell", "tell"}
  /\ thread[t].pc \in LeaveLocs => thread'[t].pc \in LeaveLocs /\ SameWho(t)
  /\ thread'[t].pc \in {"find", "lock"} => thread'[t].packet # "echo"
  /\ UNCHANGED <<view, mCharacterList, info>>

\* It keeps the invariant of what clients show.
LEMMA UnseenPaints ==
  ASSUME IInv, PInv, NEW t \in Threads, Unseen(t)
  PROVE  PInv'
<1>1. thread'[t].pc # "acceptAdd"
  BY DEF Unseen, Changing, JoinLocs
<1>2. ViewInv' /\ GoneInv' /\ ActionInv'
  BY <1>1, UnseenFrame DEF PInv, Unseen
<1>3. SessionInv'
  BY SessionFrame DEF IInv, PInv, Unseen
<1>4. TurnInv'
  <2>1. Visits(t)'
    BY DEF Unseen, Visits, Changing, At, JoinLocs, MoveLocs, ReadingLocs
  <2>2. Tells(t)'
    BY DEF Unseen, Tells, Changing, At
  <2> QED
    BY <2>1, <2>2, TurnFrame DEF PInv, Unseen
<1>5. PictureInv'
  <2>1. \A c \in mCharacterList : HasSession(c)' => HasSession(c)
    BY CallsKeep DEF IInv, TypeOK, Unseen
  <2> QED
    BY <2>1, PictureFrame DEF PInv, Unseen, Shows
<1> QED
  BY <1>2, <1>3, <1>4, <1>5 DEF PInv

\* A turn of one that comes or moves keeps the invariant if the others and its client
\* then show what they should, nobody is shown who is not in the container, and those
\* who stay are shown the others doing what they do.
LEMMA TurnPaints ==
  ASSUME IInv, PInv, NEW t \in Threads, Only(t), SameWho(t),
         Changing(t), Changing(t)', thread'[t].pc # "acceptAdd",
         thread'[t].pc \in MoveLocs <=> thread[t].pc \in MoveLocs,
         UNCHANGED <<mCharacterList, phase, info>>,
         ViewShape', Visits(t)', Seen(t)', Sees(t)',
         \A c, d \in Others(t) : c # d => (Shows(c, d)' <=> Shows(c, d)),
         \A c, d \in Characters :
           Shows(c, d)' => Shows(c, d) \/ {c, d} \subseteq mCharacterList,
         \A c, d \in Characters : Staying(c) /\ Shows(c, d)' =>
           view'[c][d] = info[d].action \/ (Shows(c, d) /\ view'[c][d] = view[c][d])
  PROVE  PInv'
<1>1. thread'[Acceptor].pc # "acceptAdd"
  <2>1. thread[Acceptor].pc = "acceptAdd" => t = Acceptor
    BY OneChanging, Roles DEF Changing, JoinLocs
  <2> QED
    BY <2>1, Roles DEF Only
<1>2. ViewInv'
  BY <1>1, ViewFrame DEF PInv
<1>3. Calls
  BY DEF Calls
<1>4. /\ thread[t].pc \notin LeaveLocs \cup {"tell"}
      /\ thread'[t].pc \notin {"find", "lock", "tell"}
  BY DEF Changing, JoinLocs, MoveLocs, LeaveLocs
<1>5. SessionInv'
  BY <1>3, <1>4, SessionFrame DEF IInv, PInv
<1>6. TurnInv'
  <2>1. Tells(t)'
    BY <1>4 DEF PInv, TurnInv, Tells, SameWho, Who, At, Stayed
  <2> QED
    BY <2>1, TurnFrame DEF PInv
<1>7. PictureInv'
  BY PictureTurn DEF PInv
<1>8. \A c \in Characters : Staying(c)' <=> Staying(c)
  BY DEF Staying, Stayed, HasSession
<1>9. \A c \in Characters : DOMAIN view'[c] \subseteq Characters
  BY DEF ViewShape
<1>10. GoneInv'
  <2>1. \A c, d \in Characters : Leaving(c, d) => Leaving(c, d)'
    BY <1>4, LeavingFrame DEF LeaveLocs
  <2> QED
    BY <1>8, <1>9, <2>1, GoneFrame DEF PInv, Shows
<1>11. ActionInv'
  <2>1. \A c, d \in Characters : ToBeTold(c, d) => ToBeTold(c, d)'
    BY <1>4, ToBeToldFrame
  <2> QED
    BY <1>8, <1>9, <2>1, ActionFrame DEF PInv, Shows
<1> QED
  BY <1>2, <1>5, <1>6, <1>7, <1>10, <1>11 DEF PInv

\* The steps of OnRecv and of a handler that take and drop locks and look characters up.
LEMMA HandlerUnseen ==
  ASSUME IInv, IInv', PInv, NEW t \in Workers,
         \/ \E c \in Characters, packet \in Packets : OnRecv(t, c, packet)
         \/ Finds(t) \/ Stamps(t) \/ Attacks(t) \/ SearchFinds(t) \/ SearchFindsNone(t)
         \/ FindsVictim(t) \/ LocksVictim(t) \/ Damages(t)
  PROVE  Unseen(t)
<1>1. /\ t \in Threads
      /\ thread \in [Threads -> ThreadType] /\ thread' \in [Threads -> ThreadType]
  BY Roles DEF IInv, ThreadInv
<1>2. thread[t].pc # "idle" => Who(t) \in Characters
  BY <1>1, Roles
  DEF IInv, ThreadInv, WellPlaced, LocsOf, LeaveLocs, ReceiveLocs, Who
<1>3. thread[t].pc \in {"find", "lock"} => thread[t].packet # "echo"
  BY <1>1 DEF PInv, TurnInv, Tells
<1>4. \/ \E pc \in {"stampLock", "search", "lockVictim", "damage"} : Goto(t, pc)
      \/ \E pc \in {"find", "lock"} : Goto(t, pc) /\ thread[t].packet # "echo"
      \/ Return(t)
      \/ \E c, packet : thread' = [thread EXCEPT ![t].pc = "stampFind", ![t].who = c,
                                                ![t].packet = packet]
      \/ \E v : thread' = [thread EXCEPT ![t].pc = "findVictim", ![t].other = v]
  BY <1>3 DEF OnRecv, Finds, Stamps, Attacks, SearchFinds, SearchFindsNone, FindsVictim,
              LocksVictim, Damages, At
<1>5. Only(t)
  BY <1>1, <1>4 DEF Goto, Return, Only
<1>6. thread[t].pc \in {"idle"} \cup (ReceiveLocs \ {"tell"})
  BY DEF OnRecv, Finds, Stamps, Attacks, SearchFinds, SearchFindsNone, FindsVictim,
         LocksVictim, Damages, At, ReceiveLocs
<1>7. ASSUME NEW pc, Goto(t, pc)
      PROVE  thread'[t].pc = pc /\ thread'[t].packet = thread[t].packet
  <2>1. thread'[t] = [thread[t] EXCEPT !.pc = pc]
    BY <1>1, <1>7 DEF Goto
  <2> QED
    BY <1>1, <2>1 DEF ThreadType
<1>8. /\ thread'[t].pc \in {"idle"} \cup (ReceiveLocs \ {"tell"})
      /\ thread'[t].pc \in {"find", "lock"} => thread'[t].packet # "echo"
  <2>1. CASE \E pc \in {"stampLock", "search", "lockVictim", "damage"} : Goto(t, pc)
    BY <1>7, <2>1 DEF ReceiveLocs
  <2>2. CASE \E pc \in {"find", "lock"} : Goto(t, pc) /\ thread[t].packet # "echo"
    BY <1>7, <2>2 DEF ReceiveLocs
  <2>3. CASE Return(t)
    BY <1>1, <2>3 DEF Return, Idle
  <2>4. CASE \E c, packet : thread' = [thread EXCEPT ![t].pc = "stampFind", ![t].who = c,
                                                    ![t].packet = packet]
    <3>1. thread'[t].pc = "stampFind"
      BY <1>1, <2>4 DEF ThreadType
    <3> QED
      BY <3>1 DEF ReceiveLocs
  <2>5. CASE \E v : thread' = [thread EXCEPT ![t].pc = "findVictim", ![t].other = v]
    <3>1. thread'[t].pc = "findVictim"
      BY <1>1, <2>5 DEF ThreadType
    <3> QED
      BY <3>1 DEF ReceiveLocs
  <2> QED
    BY <1>4, <2>1, <2>2, <2>3, <2>4, <2>5
<1>9. Calls
  BY <1>2
  DEF OnRecv, Finds, Stamps, Attacks, SearchFinds, SearchFindsNone, FindsVictim,
      LocksVictim, Damages, At, Calls
<1>10. UNCHANGED <<view, mCharacterList, info>>
  BY DEF OnRecv, Finds, Stamps, Attacks, SearchFinds, SearchFindsNone, FindsVictim,
         LocksVictim, Damages, world
<1> QED
  BY <1>5, <1>6, <1>8, <1>9, <1>10
  DEF Unseen, Changing, JoinLocs, MoveLocs, LeaveLocs, ReceiveLocs

\* The steps of a frame between two characters.
LEMMA FrameUnseen ==
  ASSUME IInv, IInv',
         \/ FrameStarts \/ FrameEnds \/ FrameLeaves
         \/ \E c \in Characters : FrameTakes(c)
  PROVE  Unseen(Updater)
<1>1. /\ Updater \in Threads
      /\ thread \in [Threads -> ThreadType] /\ thread' \in [Threads -> ThreadType]
  BY Roles DEF IInv, ThreadInv
<1>2. \/ \E S : thread' = [thread EXCEPT ![Updater].pc = "frame", ![Updater].copy = S]
      \/ \E c, S : thread' = [thread EXCEPT ![Updater].pc = "frameLock", ![Updater].who = c,
                                           ![Updater].copy = S]
      \/ Goto(Updater, "frame") \/ Return(Updater)
  BY DEF FrameStarts, FrameEnds, FrameLeaves, FrameTakes
<1>3. Only(Updater)
  BY <1>1, <1>2 DEF Goto, Return, Only
<1>5. thread'[Updater].pc \in {"idle", "frame", "frameLock"}
  <2>1. Goto(Updater, "frame") => thread'[Updater].pc = "frame"
    BY <1>1 DEF Goto, ThreadType
  <2>2. Return(Updater) => thread'[Updater].pc = "idle"
    BY <1>1 DEF Return, Idle
  <2>3. \A S : thread' = [thread EXCEPT ![Updater].pc = "frame", ![Updater].copy = S] =>
          thread'[Updater].pc = "frame"
    BY <1>1 DEF ThreadType
  <2>4. \A c, S : thread' = [thread EXCEPT ![Updater].pc = "frameLock",
                                          ![Updater].who = c, ![Updater].copy = S] =>
          thread'[Updater].pc = "frameLock"
    BY <1>1 DEF ThreadType
  <2> QED
    BY <1>2, <2>1, <2>2, <2>3, <2>4
<1>4. /\ thread[Updater].pc \in {"idle", "frame", "frameLock"}
      /\ UNCHANGED <<phase, view, mCharacterList, info>>
  BY DEF FrameStarts, FrameEnds, FrameLeaves, FrameTakes, At, world
<1> QED
  BY <1>3, <1>4, <1>5 DEF Unseen, Calls, Changing, JoinLocs, MoveLocs, LeaveLocs

\* OnRelease takes the container's lock.
LEMMA LeaveLocksUnseen ==
  ASSUME IInv, IInv', NEW t \in EngineThreads, LeaveLocks(t)
  PROVE  Unseen(t)
<1>1. /\ t \in Threads
      /\ thread \in [Threads -> ThreadType] /\ thread' \in [Threads -> ThreadType]
  BY Roles DEF IInv, ThreadInv
<1>2. /\ Only(t) /\ SameWho(t)
      /\ thread[t].pc = "leaveLock" /\ thread'[t].pc = "leaveRemove"
  BY <1>1 DEF LeaveLocks, At, Goto, Only, SameWho, ThreadType
<1> QED
  BY <1>2 DEF LeaveLocks, Unseen, Calls, world, Changing, JoinLocs, MoveLocs, LeaveLocs

\* What a thread that comes or moves has told so far, by where it is.
LEMMA FromTo ==
  ASSUME NEW t \in Threads, NEW old, NEW cur, NEW todo,
         old = Around(info[Who(t)].old), cur = Around(info[Who(t)].cur),
         todo = thread[t].todo
  PROVE  /\ At(t, "acceptAdd") => SeenFrom(t) = {} /\ SeesTo(t) = {}
         /\ At(t, "announce") => SeenFrom(t) = cur \ todo /\ SeesTo(t) = {}
         /\ thread[t].pc \in {"meet", "frameMeet"} \cup ReadingLocs =>
              SeenFrom(t) = cur /\ SeesTo(t) = cur \ todo
         /\ thread[t].pc \in {"frameRemove", "frameAdd"} =>
              SeenFrom(t) = old /\ SeesTo(t) = old
         /\ At(t, "frameHide") =>
              SeenFrom(t) = (old \cap cur) \cup todo /\ SeesTo(t) = old
         /\ At(t, "frameForget") =>
              SeenFrom(t) = old \cap cur /\ SeesTo(t) = (old \cap cur) \cup todo
         /\ At(t, "frameShow") =>
              SeenFrom(t) = cur \ todo /\ SeesTo(t) = old \cap cur
BY DEF SeenFrom, SeesTo, At, ReadingLocs

-----------------------------------------------------------------------------
\* The steps of OnAccept and of a frame that tell nobody anything.

\* The same after a step that leaves the characters where they are.
LEMMA FromToNext ==
  ASSUME NEW t \in Threads, SameWho(t), UNCHANGED info, NEW old, NEW cur, NEW todo,
         old = Around(info[Who(t)].old), cur = Around(info[Who(t)].cur),
         todo = thread'[t].todo
  PROVE  /\ thread'[t].pc = "announce" => SeenFrom(t)' = cur \ todo /\ SeesTo(t)' = {}
         /\ thread'[t].pc \in {"meet", "frameMeet"} \cup ReadingLocs =>
              SeenFrom(t)' = cur /\ SeesTo(t)' = cur \ todo
         /\ thread'[t].pc = "frameAdd" => SeenFrom(t)' = old /\ SeesTo(t)' = old
         /\ thread'[t].pc = "frameHide" =>
              SeenFrom(t)' = (old \cap cur) \cup todo /\ SeesTo(t)' = old
         /\ thread'[t].pc = "frameForget" =>
              SeenFrom(t)' = old \cap cur /\ SeesTo(t)' = (old \cap cur) \cup todo
         /\ thread'[t].pc = "frameShow" =>
              SeenFrom(t)' = cur \ todo /\ SeesTo(t)' = old \cap cur
BY DEF SeenFrom, SeesTo, At, Who, SameWho, ReadingLocs, Around, SectorAround, Sectors

\* A turn that sends nothing keeps the invariant if it makes no difference to who is to
\* see whom.
LEMMA SilentTurnPaints ==
  ASSUME IInv, PInv, NEW t \in Threads, Only(t), SameWho(t),
         Changing(t), Changing(t)', thread'[t].pc # "acceptAdd",
         thread'[t].pc \in MoveLocs <=> thread[t].pc \in MoveLocs,
         UNCHANGED <<view, mCharacterList, phase, info>>, Visits(t)',
         \A c \in Others(t) : info[c].cur \in SeenFrom(t)' <=> info[c].cur \in SeenFrom(t),
         \A d \in Others(t) :
           info[d].cur \in SeesTo(t)' /\ d \notin thread'[t].rest
           <=> info[d].cur \in SeesTo(t) /\ d \notin thread[t].rest
  PROVE  PInv'
<1>1. ViewShape'
  BY DEF PInv, ViewInv, ViewShape
<1>2. Seen(t) /\ Sees(t)
  BY DEF PInv, PictureInv
<1>3. Who(t)' = Who(t) /\ Others(t)' = Others(t)
  BY DEF SameWho, Who, Others
<1>4. \A c, d : Shows(c, d)' <=> Shows(c, d)
  BY DEF Shows
<1>5. \A c : HasSession(c)' <=> HasSession(c)
  BY DEF HasSession
<1>6. Seen(t)'
  BY <1>2, <1>3, <1>4, <1>5 DEF Seen
<1>7. Sees(t)'
  BY <1>2, <1>3, <1>4, <1>5 DEF Sees
<1> QED
  BY <1>1, <1>4, <1>6, <1>7, TurnPaints

\* OnAccept puts the character on its sector.
LEMMA AcceptAddsToSectorPaints ==
  ASSUME IInv, IInv', PInv, AcceptAddsToSector
  PROVE  PInv'
<1> DEFINE t == Acceptor
           cur == Around(info[Who(t)].cur)
<1>1. /\ t \in Threads
      /\ thread \in [Threads -> ThreadType] /\ thread' \in [Threads -> ThreadType]
  BY Roles DEF IInv, ThreadInv
<1>2. /\ Only(t) /\ SameWho(t)
      /\ thread[t].pc = "acceptAdd" /\ thread'[t].pc = "announce"
      /\ thread'[t].todo = cur /\ thread'[t].rest = thread[t].rest
  BY <1>1 DEF AcceptAddsToSector, At, GotoAround, Only, SameWho, ThreadType, Around
<1>3. UNCHANGED <<view, mCharacterList, phase, info>>
  BY DEF AcceptAddsToSector
<1>4. Changing(t) /\ Changing(t)'
  BY <1>2 DEF Changing, JoinLocs
<1>5. SeenFrom(t) = {} /\ SeesTo(t) = {}
  BY <1>1, <1>2, FromTo DEF At
<1>6. SeenFrom(t)' = {} /\ SeesTo(t)' = {}
  BY <1>1, <1>2, <1>3, FromToNext
<1>7. Visits(t)'
  <2>1. info[Who(t)].cur \in Sectors
    BY <1>1, <1>2 DEF IInv, ThreadInv, WellPlaced, TypeOK, Who
  <2>2. cur # {}
    BY <2>1, AroundByDistance, GridFacts DEF Sectors
  <2> QED
    BY <1>2, <1>3, <2>2, Roles
    DEF Visits, At, Who, SameWho, ReadingLocs, Around, SectorAround, Sectors
<1> QED
  BY <1>1, <1>2, <1>3, <1>4, <1>5, <1>6, <1>7, SilentTurnPaints DEF MoveLocs

\* The lock of the next list of others to read.
LEMMA BeginSectorPaints ==
  ASSUME IInv, IInv', PInv, NEW t \in Threads, NEW pc, NEW reading,
         \/ t = Acceptor /\ pc = "meet" /\ reading = "meeting"
         \/ t = Updater /\ pc = "frameMeet" /\ reading = "frameMeeting",
         BeginSector(t, pc, reading)
  PROVE  PInv'
<1> DEFINE s == First(thread[t].todo)
           cur == Around(info[Who(t)].cur)
<1>1. thread \in [Threads -> ThreadType] /\ thread' \in [Threads -> ThreadType]
  BY DEF IInv, ThreadInv
<1>2. /\ thread[t].pc = pc /\ thread[t].todo # {} /\ thread[t].todo \in SUBSET Sectors
      /\ UNCHANGED <<view, mCharacterList, phase, info>>
  BY <1>1 DEF BeginSector, At, world, ThreadType
<1>3. s \in thread[t].todo
  BY <1>2, FirstIsMember
<1>4. /\ Only(t) /\ SameWho(t)
      /\ thread'[t].pc = reading /\ thread'[t].todo = thread[t].todo \ {s}
      /\ thread'[t].sector = s /\ thread'[t].rest = mSectorList[s] \ {Who(t)}
  BY <1>1 DEF BeginSector, Only, SameWho, ThreadType
<1> HIDE DEF s
<1>5. Changing(t) /\ Changing(t)'
  BY <1>2, <1>4 DEF Changing, JoinLocs, MoveLocs
<1>6. /\ SeenFrom(t) = cur /\ SeesTo(t) = cur \ thread[t].todo
      /\ SeenFrom(t)' = cur /\ SeesTo(t)' = cur \ thread'[t].todo
  BY <1>2, <1>4, FromTo, FromToNext DEF ReadingLocs
<1>7. Visits(t)'
  <2>1. Visits(t)
    BY DEF PInv, TurnInv
  <2> QED
    BY <1>2, <1>3, <1>4, <2>1, Roles
    DEF Visits, At, Who, SameWho, ReadingLocs, Around, AddSectors, RemoveSectors,
        SectorAround, Sectors
<1>8. thread[t].rest = {}
  BY <1>2 DEF IInv, ReadingInv, ReadingLocs
<1>9. ASSUME NEW d \in Others(t)
      PROVE  info[d].cur \in SeesTo(t)' /\ d \notin thread'[t].rest
             <=> info[d].cur \in SeesTo(t) /\ d \notin thread[t].rest
  <2>1. d \in mSectorList[s] <=> s = info[d].cur
    BY <1>2, <1>3, <1>5, OthersListed
  <2>2. d # Who(t)
    BY DEF Others
  <2>3. s \in cur
    BY <1>2, <1>3, Roles DEF PInv, TurnInv, Visits, At, AddSectors, Around
  <2> QED
    BY <1>3, <1>4, <1>6, <1>8, <2>1, <2>2, <2>3
<1> QED
  BY <1>2, <1>4, <1>5, <1>6, <1>7, <1>9, SilentTurnPaints DEF JoinLocs, MoveLocs

\* The end of a list and the unlock of its sector.
LEMMA EndSectorPaints ==
  ASSUME IInv, IInv', PInv, NEW t \in Threads, NEW pc, NEW reading,
         \/ t = Acceptor /\ pc = "meet" /\ reading = "meeting"
         \/ t = Updater /\ pc = "frameMeet" /\ reading = "frameMeeting",
         EndSector(t, pc, reading)
  PROVE  PInv'
<1> DEFINE cur == Around(info[Who(t)].cur)
<1>1. thread \in [Threads -> ThreadType] /\ thread' \in [Threads -> ThreadType]
  BY DEF IInv, ThreadInv
<1>2. /\ thread[t].pc = reading
      /\ UNCHANGED <<view, mCharacterList, phase, info>>
  BY DEF EndSector, At, world
<1>3. /\ Only(t) /\ SameWho(t)
      /\ thread'[t].pc = pc /\ thread'[t].todo = thread[t].todo
      /\ thread'[t].rest = thread[t].rest
  BY <1>1 DEF EndSector, Only, SameWho, ThreadType
<1>4. Changing(t) /\ Changing(t)'
  BY <1>2, <1>3 DEF Changing, JoinLocs, MoveLocs
<1>5. /\ SeenFrom(t) = cur /\ SeesTo(t) = cur \ thread[t].todo
      /\ SeenFrom(t)' = cur /\ SeesTo(t)' = cur \ thread'[t].todo
  BY <1>2, <1>3, FromTo, FromToNext DEF ReadingLocs
<1>6. Visits(t)'
  <2>1. Visits(t)
    BY DEF PInv, TurnInv
  <2> QED
    BY <1>2, <1>3, <2>1, Roles
    DEF Visits, At, Who, SameWho, ReadingLocs, Around, AddSectors, RemoveSectors,
        SectorAround, Sectors
<1> QED
  BY <1>2, <1>3, <1>4, <1>5, <1>6, SilentTurnPaints DEF JoinLocs, MoveLocs

\* A frame takes the character off its old sector.
LEMMA FrameRemovesPaints ==
  ASSUME IInv, IInv', PInv, FrameRemoves
  PROVE  PInv'
<1> DEFINE t == Updater
           old == Around(info[Who(t)].old)
<1>1. /\ t \in Threads
      /\ thread \in [Threads -> ThreadType] /\ thread' \in [Threads -> ThreadType]
  BY Roles DEF IInv, ThreadInv
<1>2. /\ thread[t].pc = "frameRemove"
      /\ UNCHANGED <<view, mCharacterList, phase, info>>
  BY DEF FrameRemoves, At
<1>3. /\ Only(t) /\ SameWho(t)
      /\ thread'[t].pc = "frameAdd" /\ thread'[t].rest = thread[t].rest
  BY <1>1 DEF FrameRemoves, Goto, Only, SameWho, ThreadType
<1>4. Changing(t) /\ Changing(t)'
  BY <1>2, <1>3 DEF Changing, MoveLocs
<1>5. SeenFrom(t) = old /\ SeesTo(t) = old /\ SeenFrom(t)' = old /\ SeesTo(t)' = old
  BY <1>1, <1>2, <1>3, FromTo, FromToNext
<1>6. Visits(t)'
  BY <1>3 DEF Visits, At, ReadingLocs
<1> QED
  BY <1>1, <1>2, <1>3, <1>4, <1>5, <1>6, SilentTurnPaints DEF MoveLocs

\* A frame puts the character on its new sector.
LEMMA FrameAddsPaints ==
  ASSUME IInv, IInv', PInv, FrameAdds
  PROVE  PInv'
<1> DEFINE t == Updater
           old == Around(info[Who(t)].old)
           cur == Around(info[Who(t)].cur)
<1>1. /\ t \in Threads
      /\ thread \in [Threads -> ThreadType] /\ thread' \in [Threads -> ThreadType]
  BY Roles DEF IInv, ThreadInv
<1>2. /\ thread[t].pc = "frameAdd"
      /\ UNCHANGED <<view, mCharacterList, phase, info>>
  BY DEF FrameAdds, At
<1>3. /\ Only(t) /\ SameWho(t)
      /\ thread'[t].pc = "frameHide" /\ thread'[t].rest = thread[t].rest
      /\ thread'[t].todo = RemoveSectors(info[Who(t)].old, info[Who(t)].cur)
  BY <1>1 DEF FrameAdds, GotoAround, Only, SameWho, ThreadType
<1>4. Changing(t) /\ Changing(t)'
  BY <1>2, <1>3 DEF Changing, MoveLocs
<1>5. thread'[t].todo = old \ cur
  BY <1>3 DEF RemoveSectors, Around
<1>6. /\ SeenFrom(t) = old /\ SeesTo(t) = old
      /\ SeenFrom(t)' = (old \cap cur) \cup (old \ cur) /\ SeesTo(t)' = old
  BY <1>1, <1>2, <1>3, <1>5, FromTo, FromToNext
<1>7. Visits(t)'
  BY <1>2, <1>3, <1>5
  DEF Visits, At, Who, SameWho, ReadingLocs, Around, RemoveSectors, SectorAround, Sectors
<1> QED
  BY <1>1, <1>2, <1>3, <1>4, <1>6, <1>7, SilentTurnPaints DEF MoveLocs

\* The next of the four loops of Sector_UpdateCharacter.
LEMMA FrameNextLoopPaints ==
  ASSUME IInv, IInv', PInv, FrameNextLoop
  PROVE  PInv'
<1> DEFINE t == Updater
           old == Around(info[Who(t)].old)
           cur == Around(info[Who(t)].cur)
<1>1. /\ t \in Threads
      /\ thread \in [Threads -> ThreadType] /\ thread' \in [Threads -> ThreadType]
  BY Roles DEF IInv, ThreadInv
<1>2. /\ thread[t].todo = {}
      /\ UNCHANGED <<view, mCharacterList, phase, info>>
  BY DEF FrameNextLoop, world
<1>3. PICK pc, S :
        /\ GotoAround(t, pc, S)
        /\ \/ At(t, "frameHide") /\ pc = "frameForget" /\ S = old \ cur
           \/ At(t, "frameForget") /\ pc = "frameShow" /\ S = cur \ old
           \/ At(t, "frameShow") /\ pc = "frameMeet" /\ S = cur \ old
  BY DEF FrameNextLoop, RemoveSectors, AddSectors, Around
<1>4. /\ Only(t) /\ SameWho(t)
      /\ thread'[t].pc = pc /\ thread'[t].rest = thread[t].rest /\ thread'[t].todo = S
  BY <1>1, <1>3 DEF GotoAround, Only, SameWho, ThreadType
<1>5. Changing(t) /\ Changing(t)'
  BY <1>3, <1>4 DEF Changing, At, MoveLocs
<1>6. Visits(t)'
  BY <1>2, <1>3, <1>4
  DEF Visits, At, Who, SameWho, ReadingLocs, Around, RemoveSectors, AddSectors,
      SectorAround, Sectors
<1>7. /\ \A x : x \in SeenFrom(t)' <=> x \in SeenFrom(t)
      /\ \A x : x \in SeesTo(t)' <=> x \in SeesTo(t)
  <2>1. CASE At(t, "frameHide")
    <3>1. pc = "frameForget" /\ S = old \ cur
      BY <1>3, <2>1 DEF At
    <3> QED
      BY <1>1, <1>2, <1>4, <2>1, <3>1, FromTo, FromToNext
  <2>2. CASE At(t, "frameForget")
    <3>1. pc = "frameShow" /\ S = cur \ old
      BY <1>3, <2>2 DEF At
    <3> QED
      BY <1>1, <1>2, <1>4, <2>2, <3>1, FromTo, FromToNext
  <2>3. CASE At(t, "frameShow")
    <3>1. pc = "frameMeet" /\ S = cur \ old
      BY <1>3, <2>3 DEF At
    <3> QED
      BY <1>1, <1>2, <1>4, <2>3, <3>1, FromTo, FromToNext
  <2> QED
    BY <1>3, <2>1, <2>2, <2>3
<1> QED
  BY <1>1, <1>2, <1>3, <1>4, <1>5, <1>6, <1>7, SilentTurnPaints DEF MoveLocs, At

\* A broadcast that makes the character known on a sector keeps the invariant, if that
\* is the sector it is seen from now.
LEMMA ShowTurnPaints ==
  ASSUME IInv, PInv, NEW t \in Threads, Only(t), SameWho(t),
         Changing(t), Changing(t)', thread'[t].pc # "acceptAdd",
         thread'[t].pc \in MoveLocs <=> thread[t].pc \in MoveLocs,
         UNCHANGED <<mCharacterList, phase, info>>, Visits(t)',
         NEW s \in Sectors, NEW packet \in {"create", "createMoving"},
         Hear(Open(mSectorList[s] \ {Who(t)}), Who(t), packet),
         info[Who(t)].action = IF packet = "create" THEN Still ELSE Moving,
         \A c \in Others(t) :
           info[c].cur \in SeenFrom(t)' <=> info[c].cur \in SeenFrom(t) \/ info[c].cur = s,
         \A d \in Others(t) :
           info[d].cur \in SeesTo(t)' /\ d \notin thread'[t].rest
           <=> info[d].cur \in SeesTo(t) /\ d \notin thread[t].rest
  PROVE  PInv'
<1> DEFINE a == Who(t)
           R == Open(mSectorList[s] \ {a})
<1>1. /\ a \in mCharacterList /\ a \in Characters /\ a \notin R
      /\ mCharacterList \subseteq Characters
      /\ R \subseteq mCharacterList /\ R \subseteq Characters
  BY OneChanging, ListsInContainer DEF IInv, TypeOK, Open
<1>2. /\ ViewShape'
      /\ \A c, d \in Characters : Shows(c, d)' <=> Shows(c, d) \/ (c \in R /\ d = a)
      /\ \A c, d \in Characters : ~(c \in R /\ d = a) /\ Shows(c, d)' =>
           view'[c][d] = view[c][d]
      /\ \A c \in R \cap Characters :
           view'[c][a] = IF packet = "create" THEN Still ELSE Moving
  <2>1. Hear(R, a, packet) /\ ViewShape
    BY DEF PInv, ViewInv
  <2> HIDE DEF a, R
  <2> QED
    BY <1>1, <2>1, HearCreate
<1>3. Seen(t) /\ Sees(t)
  BY DEF PInv, PictureInv
<1>4. /\ Who(t)' = a /\ Others(t)' = Others(t)
      /\ \A c : HasSession(c)' <=> HasSession(c)
  BY DEF SameWho, Who, Others, HasSession
<1>5. \A c \in Others(t) :
        c \in Characters /\ c # a /\ (HasSession(c) => (c \in R <=> info[c].cur = s))
  BY <1>1, OthersListed DEF Others, Open
<1> HIDE DEF R
<1>6. Seen(t)'
  BY <1>1, <1>2, <1>3, <1>4, <1>5 DEF Seen
<1>7. Sees(t)'
  BY <1>1, <1>2, <1>3, <1>4, <1>5 DEF Sees
<1>8. \A c, d \in Others(t) : c # d => (Shows(c, d)' <=> Shows(c, d))
  BY <1>2, <1>5
<1>9. \A c, d \in Characters :
        Shows(c, d)' => Shows(c, d) \/ {c, d} \subseteq mCharacterList
  BY <1>1, <1>2
<1>10. \A c, d \in Characters : Staying(c) /\ Shows(c, d)' =>
         view'[c][d] = info[d].action \/ (Shows(c, d) /\ view'[c][d] = view[c][d])
  BY <1>1, <1>2
<1> QED
  BY <1>2, <1>6, <1>7, <1>8, <1>9, <1>10, TurnPaints

-----------------------------------------------------------------------------
\* The broadcasts and the packets of OnAccept and of a frame.

\* A broadcast of OnAccept, the last one included.
LEMMA AnnouncePaints ==
  ASSUME ~RingMayFill, IInv, IInv', PInv, Announce
  PROVE  PInv'
<1> DEFINE t == Acceptor
           s == First(thread[t].todo)
           cur == Around(info[Who(t)].cur)
<1>1. /\ t \in Threads /\ t # Updater
      /\ thread \in [Threads -> ThreadType] /\ thread' \in [Threads -> ThreadType]
  BY Roles DEF IInv, ThreadInv
<1>2. /\ thread[t].pc = "announce"
      /\ UNCHANGED <<mCharacterList, phase, info>>
  BY DEF Announce, VisitToTell, At, world
<1>3. /\ thread[t].todo # {} /\ thread[t].todo \subseteq cur
      /\ thread[t].todo \in SUBSET Sectors
  BY <1>1, <1>2 DEF PInv, TurnInv, Visits, At, ThreadType
<1>4. s \in thread[t].todo
  BY <1>3, FirstIsMember
<1>5. Hear(Open(mSectorList[s] \ {Who(t)}), Who(t), "create")
  BY BroadcastReaches DEF Announce, VisitToTell
<1>6. \/ /\ thread[t].todo = {s}
         /\ GotoAround(t, "meet", cur)
      \/ /\ thread[t].todo # {s}
         /\ thread' = [thread EXCEPT ![t].todo = @ \ {s}]
  BY DEF Announce, VisitToTell, Around
<1> HIDE DEF s
<1>7. /\ Only(t) /\ SameWho(t) /\ thread'[t].rest = thread[t].rest
      /\ \/ thread[t].todo = {s} /\ thread'[t].pc = "meet" /\ thread'[t].todo = cur
         \/ /\ thread[t].todo # {s} /\ thread'[t].pc = "announce"
            /\ thread'[t].todo = thread[t].todo \ {s}
  BY <1>1, <1>2, <1>6 DEF GotoAround, Only, SameWho, ThreadType
<1>8. Changing(t) /\ Changing(t)' /\ thread'[t].pc # "acceptAdd"
  BY <1>2, <1>7 DEF Changing, JoinLocs
<1>9. SeenFrom(t) = cur \ thread[t].todo /\ SeesTo(t) = {}
  BY <1>1, <1>2, FromTo DEF At
<1>10. /\ \A x : x \in SeenFrom(t)' <=> x \in SeenFrom(t) \/ x = s
       /\ SeesTo(t)' = {}
  <2>1. CASE thread'[t].pc = "meet"
    <3>1. SeenFrom(t)' = cur /\ SeesTo(t)' = cur \ cur
      BY <1>1, <1>2, <1>7, <2>1, FromToNext
    <3> QED
      BY <1>3, <1>4, <1>7, <1>9, <2>1, <3>1
  <2>2. CASE thread'[t].pc = "announce"
    <3>1. SeenFrom(t)' = cur \ thread'[t].todo /\ SeesTo(t)' = {}
      BY <1>1, <1>2, <1>7, <2>2, FromToNext
    <3> QED
      BY <1>3, <1>4, <1>7, <1>9, <2>2, <3>1
  <2> QED
    BY <1>7, <2>1, <2>2
<1>11. Visits(t)'
  BY <1>1, <1>2, <1>3, <1>4, <1>7
  DEF Visits, At, Who, SameWho, ReadingLocs, Around, SectorAround, Sectors
<1>12. info[Who(t)].action = Still
  BY <1>1, <1>2, Roles
  DEF IInv, ThreadInv, WellPlaced, CallbackInv, AcceptLocs, PInv, SessionInv, Who
<1> QED
  BY <1>1, <1>2, <1>3, <1>4, <1>5, <1>7, <1>8, <1>9, <1>10, <1>11, <1>12, ShowTurnPaints
  DEF MoveLocs

\* A frame tells the sectors a character comes into view of.
LEMMA FrameShowsPaints ==
  ASSUME ~RingMayFill, IInv, IInv', PInv, FrameShows
  PROVE  PInv'
<1> DEFINE t == Updater
           s == First(thread[t].todo)
           old == Around(info[Who(t)].old)
           cur == Around(info[Who(t)].cur)
<1>1. /\ t \in Threads
      /\ thread \in [Threads -> ThreadType] /\ thread' \in [Threads -> ThreadType]
  BY Roles DEF IInv, ThreadInv
<1>2. /\ thread[t].pc = "frameShow" /\ thread[t].todo # {}
      /\ UNCHANGED <<mCharacterList, phase, info>>
  BY DEF FrameShows, FrameTurn, At, world
<1>3. thread[t].todo \subseteq cur \ old /\ thread[t].todo \in SUBSET Sectors
  BY <1>1, <1>2 DEF PInv, TurnInv, Visits, At, ThreadType, AddSectors, Around
<1>4. s \in thread[t].todo
  BY <1>2, <1>3, FirstIsMember
<1>5. Hear(Open(mSectorList[s] \ {Who(t)}), Who(t), "createMoving")
  BY BroadcastReaches DEF FrameShows
<1>6. thread' = [thread EXCEPT ![t].todo = @ \ {s}]
  BY DEF FrameShows, FrameTurn
<1> HIDE DEF s
<1>7. /\ Only(t) /\ SameWho(t) /\ thread'[t].rest = thread[t].rest
      /\ thread'[t].pc = "frameShow" /\ thread'[t].todo = thread[t].todo \ {s}
  BY <1>1, <1>2, <1>6 DEF Only, SameWho, ThreadType
<1>8. Changing(t) /\ Changing(t)'
  BY <1>2, <1>7 DEF Changing, MoveLocs
<1>9. /\ SeenFrom(t) = cur \ thread[t].todo /\ SeesTo(t) = old \cap cur
      /\ SeenFrom(t)' = cur \ thread'[t].todo /\ SeesTo(t)' = old \cap cur
  BY <1>1, <1>2, <1>7, FromTo, FromToNext DEF At
<1>10. \A x : x \in SeenFrom(t)' <=> x \in SeenFrom(t) \/ x = s
  BY <1>3, <1>4, <1>7, <1>9
<1>11. Visits(t)'
  <2>1. thread'[t].todo \subseteq AddSectors(info[Who(t)].old, info[Who(t)].cur)
    BY <1>3, <1>7 DEF AddSectors, Around
  <2> QED
    BY <1>2, <1>7, <2>1
    DEF Visits, At, Who, SameWho, ReadingLocs, AddSectors, SectorAround, Sectors
<1>12. info[Who(t)].action = Moving
  BY <1>1, <1>2 DEF PInv, TurnInv, Tells, MoveLocs
<1> QED
  BY <1>1, <1>2, <1>3, <1>4, <1>5, <1>7, <1>8, <1>9, <1>10, <1>11, <1>12, ShowTurnPaints
  DEF MoveLocs, Still, Moving

\* A frame tells the sectors a character goes out of view of.
LEMMA FrameHidesPaints ==
  ASSUME ~RingMayFill, IInv, IInv', PInv, FrameHides
  PROVE  PInv'
<1> DEFINE t == Updater
           a == Who(t)
           s == First(thread[t].todo)
           R == Open(mSectorList[s] \ {a})
           old == Around(info[a].old)
           cur == Around(info[a].cur)
<1>1. /\ t \in Threads
      /\ thread \in [Threads -> ThreadType] /\ thread' \in [Threads -> ThreadType]
  BY Roles DEF IInv, ThreadInv
<1>2. /\ thread[t].pc = "frameHide" /\ thread[t].todo # {}
      /\ UNCHANGED <<mCharacterList, phase, info>>
  BY DEF FrameHides, FrameTurn, At, world
<1>3. thread[t].todo \subseteq old \ cur /\ thread[t].todo \in SUBSET Sectors
  BY <1>1, <1>2 DEF PInv, TurnInv, Visits, At, ThreadType, RemoveSectors, Around
<1>4. s \in thread[t].todo
  BY <1>2, <1>3, FirstIsMember
<1>5. Hear(R, a, "delete")
  BY BroadcastReaches DEF FrameHides
<1>6. thread' = [thread EXCEPT ![t].todo = @ \ {s}]
  BY DEF FrameHides, FrameTurn
<1> HIDE DEF s
<1>7. /\ Only(t) /\ SameWho(t) /\ thread'[t].rest = thread[t].rest
      /\ thread'[t].pc = "frameHide" /\ thread'[t].todo = thread[t].todo \ {s}
  BY <1>1, <1>2, <1>6 DEF Only, SameWho, ThreadType
<1>8. Changing(t) /\ Changing(t)'
  BY <1>2, <1>7 DEF Changing, MoveLocs
<1>9. /\ SeenFrom(t) = (old \cap cur) \cup thread[t].todo /\ SeesTo(t) = old
      /\ SeenFrom(t)' = (old \cap cur) \cup thread'[t].todo /\ SeesTo(t)' = old
  BY <1>1, <1>2, <1>7, FromTo, FromToNext DEF At
<1>10. Visits(t)'
  <2>1. thread'[t].todo \subseteq RemoveSectors(info[Who(t)].old, info[Who(t)].cur)
    BY <1>3, <1>7 DEF RemoveSectors, Around
  <2> QED
    BY <1>2, <1>7, <2>1
    DEF Visits, At, Who, SameWho, ReadingLocs, RemoveSectors, SectorAround, Sectors
<1>11. /\ a \in mCharacterList /\ a \in Characters /\ a \notin R
       /\ mCharacterList \subseteq Characters
  BY <1>1, <1>8, OneChanging DEF IInv, TypeOK, Open
<1>12. \A c \in Others(t) :
         c \in Characters /\ c # a /\ (HasSession(c) => (c \in R <=> info[c].cur = s))
  BY <1>1, <1>3, <1>4, <1>8, <1>11, OthersListed DEF Others, Open
<1>13. ViewShape /\ Seen(t) /\ Sees(t)
  BY <1>1, <1>8 DEF PInv, ViewInv, PictureInv
<1>14. Who(t)' = a /\ Others(t)' = Others(t) /\ \A c : HasSession(c)' <=> HasSession(c)
  BY <1>2, <1>7 DEF SameWho, Who, Others, HasSession
<1>15. /\ ViewShape'
       /\ \A c, d \in Characters : Shows(c, d)' <=> Shows(c, d) /\ ~(c \in R /\ d = a)
       /\ \A c, d \in Characters : Shows(c, d)' => view'[c][d] = view[c][d]
  <2> HIDE DEF R, a
  <2> QED
    BY <1>5, <1>11, <1>13, HearDelete
<1> HIDE DEF R
<1>16. Seen(t)'
  <2>1. \A x : x \in SeenFrom(t)' <=> x \in SeenFrom(t) /\ x # s
    BY <1>3, <1>4, <1>7, <1>9
  <2> QED
    BY <1>11, <1>12, <1>13, <1>14, <1>15, <1>2, <2>1 DEF Seen
<1>17. Sees(t)'
  BY <1>2, <1>7, <1>9, <1>11, <1>12, <1>13, <1>14, <1>15 DEF Sees
<1>18. \A c, d \in Others(t) : c # d => (Shows(c, d)' <=> Shows(c, d))
  BY <1>12, <1>15
<1> QED
  BY <1>1, <1>2, <1>7, <1>8, <1>10, <1>15, <1>16, <1>17, <1>18, TurnPaints DEF MoveLocs

\* A frame tells the character's client to delete those that go out of its view.
LEMMA FrameForgetsPaints ==
  ASSUME ~RingMayFill, IInv, IInv', PInv, FrameForgets
  PROVE  PInv'
<1> DEFINE t == Updater
           a == Who(t)
           s == First(thread[t].todo)
           gone == IF HasSession(a) THEN mSectorList[s] \ {a} ELSE {}
           old == Around(info[a].old)
           cur == Around(info[a].cur)
<1>1. /\ t \in Threads
      /\ thread \in [Threads -> ThreadType] /\ thread' \in [Threads -> ThreadType]
  BY Roles DEF IInv, ThreadInv
<1>2. /\ thread[t].pc = "frameForget" /\ thread[t].todo # {}
      /\ UNCHANGED <<mCharacterList, phase, info>>
  BY DEF FrameForgets, FrameTurn, At, world
<1>3. thread[t].todo \subseteq old \ cur /\ thread[t].todo \in SUBSET Sectors
  BY <1>1, <1>2 DEF PInv, TurnInv, Visits, At, ThreadType, RemoveSectors, Around
<1>4. s \in thread[t].todo
  BY <1>2, <1>3, FirstIsMember
<1>5. view' = [view EXCEPT ![a] = [d \in DOMAIN @ \ gone |-> @[d]]]
  BY DEF FrameForgets, SendDeletes
<1>6. thread' = [thread EXCEPT ![t].todo = @ \ {s}]
  BY DEF FrameForgets, FrameTurn
<1> HIDE DEF s
<1>7. /\ Only(t) /\ SameWho(t) /\ thread'[t].rest = thread[t].rest
      /\ thread'[t].pc = "frameForget" /\ thread'[t].todo = thread[t].todo \ {s}
  BY <1>1, <1>2, <1>6 DEF Only, SameWho, ThreadType
<1>8. Changing(t) /\ Changing(t)'
  BY <1>2, <1>7 DEF Changing, MoveLocs
<1>9. /\ SeenFrom(t) = old \cap cur /\ SeesTo(t) = (old \cap cur) \cup thread[t].todo
      /\ SeenFrom(t)' = old \cap cur /\ SeesTo(t)' = (old \cap cur) \cup thread'[t].todo
  BY <1>1, <1>2, <1>7, FromTo, FromToNext DEF At
<1>10. Visits(t)'
  <2>1. thread'[t].todo \subseteq RemoveSectors(info[Who(t)].old, info[Who(t)].cur)
    BY <1>3, <1>7 DEF RemoveSectors, Around
  <2> QED
    BY <1>2, <1>7, <2>1
    DEF Visits, At, Who, SameWho, ReadingLocs, RemoveSectors, SectorAround, Sectors
<1>11. a \in mCharacterList /\ a \in Characters /\ mCharacterList \subseteq Characters
  BY <1>1, <1>8, OneChanging DEF IInv, TypeOK
<1>12. \A d \in Others(t) : d \in Characters /\ d # a /\
         (HasSession(a) => (d \in gone <=> info[d].cur = s))
  BY <1>1, <1>3, <1>4, <1>8, <1>11, OthersListed DEF Others
<1>13. ViewShape /\ Seen(t) /\ Sees(t)
  BY <1>1, <1>8 DEF PInv, ViewInv, PictureInv
<1>14. Who(t)' = a /\ Others(t)' = Others(t) /\ \A c : HasSession(c)' <=> HasSession(c)
  BY <1>2, <1>7 DEF SameWho, Who, Others, HasSession
<1> HIDE DEF gone
<1>15. /\ ViewShape'
       /\ \A c, d \in Characters : Shows(c, d)' <=> Shows(c, d) /\ ~(c = a /\ d \in gone)
       /\ \A c, d \in Characters : Shows(c, d)' => view'[c][d] = view[c][d]
  <2>1. /\ view' = [c \in Characters |-> view'[c]]
        /\ \A c \in Characters : c # a => view'[c] = view[c]
        /\ view'[a] = [d \in DOMAIN view[a] \ gone |-> view[a][d]]
    BY <1>5, <1>11, <1>13 DEF ViewShape
  <2> HIDE DEF a
  <2>2. ViewShape'
    <3>1. ASSUME NEW c \in Characters
          PROVE  /\ view'[c] = [d \in DOMAIN view'[c] |-> view'[c][d]]
                 /\ DOMAIN view'[c] \subseteq Characters \ {c}
      <4>1. CASE c = a
        BY <1>11, <1>13, <2>1, <4>1 DEF ViewShape
      <4>2. CASE c # a
        BY <1>13, <2>1, <4>2 DEF ViewShape
      <4> QED
        BY <4>1, <4>2
    <3> QED
      BY <2>1, <3>1 DEF ViewShape
  <2> QED
    BY <1>11, <2>1, <2>2 DEF Shows
<1>16. Seen(t)'
  BY <1>2, <1>9, <1>11, <1>12, <1>13, <1>14, <1>15 DEF Seen
<1>17. Sees(t)'
  <2>1. \A x : x \in SeesTo(t)' <=> x \in SeesTo(t) /\ x # s
    BY <1>3, <1>4, <1>7, <1>9
  <2> QED
    BY <1>2, <1>7, <1>11, <1>12, <1>13, <1>14, <1>15, <2>1 DEF Sees
<1>18. \A c, d \in Others(t) : c # d => (Shows(c, d)' <=> Shows(c, d))
  BY <1>12, <1>15
<1> QED
  BY <1>1, <1>2, <1>7, <1>8, <1>10, <1>15, <1>16, <1>17, <1>18, TurnPaints DEF MoveLocs

\* A packet that shows the character's client one of the list it reads keeps the
\* invariant.
LEMMA MeetTurnPaints ==
  ASSUME IInv, PInv, NEW t \in Threads, Only(t), SameWho(t),
         thread[t].pc \in {"meeting", "frameMeeting"}, thread'[t].pc \in ReadingLocs,
         thread'[t].pc \in MoveLocs <=> thread[t].pc \in MoveLocs,
         thread'[t].todo = thread[t].todo, thread'[t].sector = thread[t].sector,
         NEW d \in thread[t].rest, thread'[t].rest = thread[t].rest \ {d},
         UNCHANGED <<mCharacterList, phase, info>>,
         NEW packet \in {"create", "createMoving"},
         Hear(Open({Who(t)}), d, packet),
         Staying(Who(t)) => info[d].action = IF packet = "create" THEN Still ELSE Moving
  PROVE  PInv'
<1> DEFINE a == Who(t)
           R == Open({a})
           cur == Around(info[a].cur)
<1>1. Changing(t) /\ Changing(t)' /\ thread'[t].pc # "acceptAdd"
  BY DEF Changing, JoinLocs, MoveLocs, ReadingLocs
<1>2. /\ a \in mCharacterList /\ a \in Characters /\ mCharacterList \subseteq Characters
      /\ t = Updater <=> thread[t].pc = "frameMeeting"
  BY <1>1, Roles, OneChanging DEF IInv, TypeOK, JoinLocs, MoveLocs
<1>3. /\ thread[t].sector \in cur \ thread[t].todo /\ a \notin thread[t].rest
      /\ cur \subseteq Sectors
  BY <1>2, GridFacts DEF PInv, TurnInv, Visits, ReadingLocs, AddSectors, Around
<1>4. d \in mSectorList[thread[t].sector] /\ d # a
  BY <1>3 DEF IInv, ReadingInv, ReadingLocs
<1>5. d \in Others(t) /\ d \in Characters /\ d \notin R
  BY <1>2, <1>3, <1>4, ListsInContainer DEF Others, Open
<1>6. info[d].cur = thread[t].sector
  BY <1>1, <1>3, <1>4, <1>5, OthersListed
<1>7. /\ SeenFrom(t) = cur /\ SeesTo(t) = cur \ thread[t].todo
      /\ SeenFrom(t)' = cur /\ SeesTo(t)' = cur \ thread[t].todo
  BY FromTo, FromToNext DEF ReadingLocs
<1>8. Visits(t)'
  <2>1. Visits(t)
    BY DEF PInv, TurnInv
  <2> QED
    BY <1>2, <2>1
    DEF Visits, At, Who, SameWho, ReadingLocs, MoveLocs, Around, AddSectors,
        RemoveSectors, SectorAround, Sectors
<1>9. ViewShape /\ Seen(t) /\ Sees(t)
  BY <1>1 DEF PInv, ViewInv, PictureInv
<1>10. Who(t)' = a /\ Others(t)' = Others(t) /\ \A c : HasSession(c)' <=> HasSession(c)
  BY DEF SameWho, Who, Others, HasSession
<1>11. /\ ViewShape'
       /\ \A e, f \in Characters : Shows(e, f)' <=> Shows(e, f) \/ (e \in R /\ f = d)
       /\ \A e, f \in Characters : ~(e \in R /\ f = d) /\ Shows(e, f)' =>
            view'[e][f] = view[e][f]
       /\ \A e \in R \cap Characters :
            view'[e][d] = IF packet = "create" THEN Still ELSE Moving
  <2>1. Hear(R, d, packet)
    OBVIOUS
  <2> HIDE DEF R
  <2> QED
    BY <1>5, <1>9, <2>1, HearCreate
<1>12. /\ \A e \in R : e = a
       /\ HasSession(a) => a \in R
       /\ \A e \in Others(t) : e \in Characters /\ e # a
  BY <1>2 DEF Open, Others
<1> HIDE DEF R
<1>13. Seen(t)'
  BY <1>2, <1>7, <1>9, <1>10, <1>11, <1>12 DEF Seen
<1>14. Sees(t)'
  BY <1>2, <1>3, <1>5, <1>6, <1>7, <1>9, <1>10, <1>11, <1>12 DEF Sees
<1>15. \A e, f \in Others(t) : e # f => (Shows(e, f)' <=> Shows(e, f))
  BY <1>11, <1>12
<1>16. \A e, f \in Characters :
         Shows(e, f)' => Shows(e, f) \/ {e, f} \subseteq mCharacterList
  BY <1>2, <1>5, <1>11, <1>12 DEF Others
<1>17. \A e, f \in Characters : Staying(e) /\ Shows(e, f)' =>
         view'[e][f] = info[f].action \/ (Shows(e, f) /\ view'[e][f] = view[e][f])
  BY <1>2, <1>11, <1>12
<1> QED
  BY <1>1, <1>8, <1>11, <1>13, <1>14, <1>15, <1>16, <1>17, TurnPaints

\* OnAccept shows the newcomer one of the others.
LEMMA MeetPaints ==
  ASSUME ~RingMayFill, IInv, IInv', PInv, Meet
  PROVE  PInv'
<1> DEFINE t == Acceptor
<1>1. /\ t \in Threads
      /\ thread \in [Threads -> ThreadType] /\ thread' \in [Threads -> ThreadType]
  BY Roles DEF IInv, ThreadInv
<1>2. /\ thread[t].pc = "meeting"
      /\ UNCHANGED <<mCharacterList, phase, info>>
  BY DEF Meet, At, world
<1>3. PICK d \in thread[t].rest :
        /\ SendTo(Who(t), d, IF info[d].action = Still THEN "create" ELSE "createMoving")
        /\ thread' = [thread EXCEPT ![t].rest = @ \ {d}]
  BY DEF Meet
<1>4. /\ Only(t) /\ SameWho(t)
      /\ thread'[t].pc = "meeting" /\ thread'[t].todo = thread[t].todo
      /\ thread'[t].sector = thread[t].sector
      /\ thread'[t].rest = thread[t].rest \ {d}
  BY <1>1, <1>2, <1>3 DEF Only, SameWho, ThreadType
<1>5. Who(t) \in Characters /\ d \in Characters
  BY <1>1, <1>2, Roles DEF IInv, ThreadInv, ThreadType, WellPlaced, Who
<1>6. PICK packet \in {"create", "createMoving"} :
        packet = IF info[d].action = Still THEN "create" ELSE "createMoving"
  OBVIOUS
<1>7. Hear(Open({Who(t)}), d, packet)
  BY <1>3, <1>5, <1>6, SendReaches DEF PInv, ViewInv
<1>8. info[d].action = IF packet = "create" THEN Still ELSE Moving
  BY <1>5, <1>6 DEF IInv, TypeOK, Still, Moving
<1> QED
  BY <1>1, <1>2, <1>4, <1>7, <1>8, MeetTurnPaints DEF ReadingLocs, MoveLocs

\* A frame shows a moved character one of the others.
LEMMA FrameMeetsPaints ==
  ASSUME ~RingMayFill, IInv, IInv', PInv, NEW d \in Characters, FrameMeets(d)
  PROVE  PInv'
<1> DEFINE t == Updater
<1>1. /\ t \in Threads
      /\ thread \in [Threads -> ThreadType] /\ thread' \in [Threads -> ThreadType]
  BY Roles DEF IInv, ThreadInv
<1>2. /\ thread[t].pc = "frameMeeting" /\ d \in thread[t].rest
      /\ UNCHANGED <<mCharacterList, phase, info>>
      /\ SendTo(Who(t), d, "create")
  BY DEF FrameMeets, At, world
<1>3. /\ Only(t) /\ SameWho(t)
      /\ thread'[t].pc \in {"frameMeeting", "frameMotion"}
      /\ thread'[t].todo = thread[t].todo
      /\ thread'[t].sector = thread[t].sector
      /\ thread'[t].rest = thread[t].rest \ {d}
  BY <1>1, <1>2 DEF FrameMeets, Only, SameWho, ThreadType
<1>4. Who(t) \in Characters
  BY <1>1, <1>2, Roles DEF IInv, ThreadInv, WellPlaced, Who
<1>5. Hear(Open({Who(t)}), d, "create")
  BY <1>2, <1>4, SendReaches DEF PInv, ViewInv
<1>6. ~Staying(Who(t))
  BY <1>1, <1>2 DEF PInv, TurnInv, Tells, MoveLocs, Staying
<1> QED
  BY <1>1, <1>2, <1>3, <1>5, <1>6, MeetTurnPaints DEF ReadingLocs, MoveLocs

\* A frame tells a moved character that the other one is moving.
LEMMA FrameTellsMotionPaints ==
  ASSUME ~RingMayFill, IInv, IInv', PInv, FrameTellsMotion
  PROVE  PInv'
<1> DEFINE t == Updater
           a == Who(t)
           d == thread[t].other
           R == Open({a})
           cur == Around(info[a].cur)
<1>1. /\ t \in Threads
      /\ thread \in [Threads -> ThreadType] /\ thread' \in [Threads -> ThreadType]
  BY Roles DEF IInv, ThreadInv
<1>2. /\ thread[t].pc = "frameMotion"
      /\ UNCHANGED <<mCharacterList, phase, info>>
  BY DEF FrameTellsMotion, At, world
<1>3. /\ Only(t) /\ SameWho(t)
      /\ thread'[t].pc = "frameMeeting" /\ thread'[t].todo = thread[t].todo
      /\ thread'[t].sector = thread[t].sector /\ thread'[t].rest = thread[t].rest
  BY <1>1, <1>2 DEF FrameTellsMotion, Goto, Only, SameWho, ThreadType
<1>4. a \in Characters /\ d \in Characters
  BY <1>1, <1>2 DEF IInv, ThreadInv, WellPlaced, Who
<1>5. Hear(R, d, "start")
  BY <1>4, SendReaches DEF FrameTellsMotion, PInv, ViewInv
<1>6. Changing(t) /\ Changing(t)'
  BY <1>2, <1>3 DEF Changing, MoveLocs
<1>7. /\ SeenFrom(t) = cur /\ SeesTo(t) = cur \ thread[t].todo
      /\ SeenFrom(t)' = cur /\ SeesTo(t)' = cur \ thread[t].todo
  BY <1>1, <1>2, <1>3, FromTo, FromToNext DEF ReadingLocs
<1>8. Visits(t)'
  <2>1. Visits(t)
    BY <1>1 DEF PInv, TurnInv
  <2> QED
    BY <1>2, <1>3, <2>1
    DEF Visits, At, Who, SameWho, ReadingLocs, Around, AddSectors, RemoveSectors,
        SectorAround, Sectors
<1>9. ViewShape /\ Seen(t) /\ Sees(t)
  BY <1>1, <1>6 DEF PInv, ViewInv, PictureInv
<1>10. Who(t)' = a /\ Others(t)' = Others(t) /\ \A c : HasSession(c)' <=> HasSession(c)
  BY <1>2, <1>3 DEF SameWho, Who, Others, HasSession
<1>11. ~Staying(a) /\ \A e \in R : e = a
  BY <1>1, <1>2 DEF PInv, TurnInv, Tells, MoveLocs, Staying, Open
<1>12. /\ ViewShape'
       /\ \A e, f \in Characters : Shows(e, f)' <=> Shows(e, f)
       /\ \A e, f \in Characters : ~(e \in R /\ f = d) /\ Shows(e, f)' =>
            view'[e][f] = view[e][f]
  <2> HIDE DEF R, d
  <2> QED
    BY <1>4, <1>5, <1>9, HearMotion
<1>13. Others(t) \subseteq Characters
  BY DEF IInv, TypeOK, Others
<1>14. Seen(t)'
  BY <1>2, <1>4, <1>7, <1>9, <1>10, <1>12, <1>13 DEF Seen
<1>15. Sees(t)'
  BY <1>2, <1>3, <1>4, <1>7, <1>9, <1>10, <1>12, <1>13 DEF Sees
<1> QED
  BY <1>1, <1>2, <1>3, <1>6, <1>8, <1>11, <1>12, <1>13, <1>14, <1>15, TurnPaints
  DEF MoveLocs

-----------------------------------------------------------------------------
\* The other steps of OnAccept, and OnRelease.

\* The end of OnAccept.
LEMMA AcceptReturnsPaints ==
  ASSUME IInv, IInv', PInv, AcceptReturns
  PROVE  PInv'
<1> DEFINE t == Acceptor
<1>1. /\ t \in Threads
      /\ thread \in [Threads -> ThreadType] /\ thread' \in [Threads -> ThreadType]
  BY Roles DEF IInv, ThreadInv
<1>2. /\ thread[t].pc = "meet" /\ thread[t].todo = {}
      /\ UNCHANGED <<view, mCharacterList, info>>
  BY DEF AcceptReturns, At, world
<1>3. Only(t) /\ thread'[t].pc = "idle"
  BY <1>1 DEF AcceptReturns, Return, Only, Idle
<1>4. Calls
  <2>1. Who(t) \in Characters
    BY <1>1, <1>2 DEF IInv, ThreadInv, WellPlaced, Who
  <2> QED
    BY <2>1 DEF AcceptReturns, Calls
<1>5. ViewInv' /\ GoneInv' /\ ActionInv'
  BY <1>1, <1>2, <1>3, <1>4, UnseenFrame DEF PInv
<1>6. SessionInv'
  BY <1>1, <1>2, <1>3, <1>4, SessionFrame DEF IInv, PInv, LeaveLocs
<1>7. TurnInv'
  <2>1. Visits(t)' /\ Tells(t)'
    BY <1>3 DEF Visits, Tells, At, MoveLocs, ReadingLocs
  <2> QED
    BY <1>1, <1>2, <1>3, <2>1, TurnFrame DEF PInv
<1>8. PictureInv'
  <2>1. SeenFrom(t) = Around(info[Who(t)].cur) /\ SeesTo(t) = Around(info[Who(t)].cur)
    <3> DEFINE cur == Around(info[Who(t)].cur)
    <3>1. SeenFrom(t) = cur /\ SeesTo(t) = cur \ thread[t].todo
      BY <1>2 DEF SeenFrom, SeesTo, At
    <3> HIDE DEF cur
    <3>2. SeesTo(t) = cur
      BY <1>2, <3>1
    <3> QED
      BY <3>1, <3>2 DEF cur
  <2>2. thread[t].rest = {}
    BY <1>1, <1>2 DEF IInv, ReadingInv, ReadingLocs
  <2>3. Changing(t) /\ ~Changing(t)'
    BY <1>2, <1>3 DEF Changing, JoinLocs, MoveLocs
  <2>4. \A c \in mCharacterList : HasSession(c)' => HasSession(c)
    BY <1>4, CallsKeep DEF IInv, TypeOK
  <2> QED
    BY <1>1, <1>2, <1>3, <2>1, <2>2, <2>3, <2>4, PictureEnds DEF PInv
<1> QED
  BY <1>5, <1>6, <1>7, <1>8 DEF PInv

\* A frame is done with a character it moved.
LEMMA FrameLetsGoPaints ==
  ASSUME IInv, IInv', PInv, FrameLetsGo
  PROVE  PInv'
<1> DEFINE t == Updater
<1>1. /\ t \in Threads
      /\ thread \in [Threads -> ThreadType] /\ thread' \in [Threads -> ThreadType]
  BY Roles DEF IInv, ThreadInv
<1>2. /\ thread[t].pc = "frameMeet" /\ thread[t].todo = {}
      /\ UNCHANGED <<view, mCharacterList, info, phase>>
  BY DEF FrameLetsGo, At, world
<1>3. Only(t) /\ thread'[t].pc = "frame"
  BY <1>1 DEF FrameLetsGo, Goto, Only, ThreadType
<1>4. Calls
  BY <1>2 DEF Calls
<1>5. ViewInv' /\ GoneInv' /\ ActionInv'
  BY <1>1, <1>2, <1>3, <1>4, UnseenFrame DEF PInv
<1>6. SessionInv'
  BY <1>1, <1>2, <1>3, <1>4, SessionFrame DEF IInv, PInv, LeaveLocs
<1>7. TurnInv'
  <2>1. Visits(t)' /\ Tells(t)'
    BY <1>3 DEF Visits, Tells, At, MoveLocs, ReadingLocs
  <2> QED
    BY <1>1, <1>2, <1>3, <2>1, TurnFrame DEF PInv
<1>8. PictureInv'
  <2>1. SeenFrom(t) = Around(info[Who(t)].cur) /\ SeesTo(t) = Around(info[Who(t)].cur)
    <3> DEFINE cur == Around(info[Who(t)].cur)
    <3>1. SeenFrom(t) = cur /\ SeesTo(t) = cur \ thread[t].todo
      BY <1>2 DEF SeenFrom, SeesTo, At
    <3> HIDE DEF cur
    <3>2. SeesTo(t) = cur
      BY <1>2, <3>1
    <3> QED
      BY <3>1, <3>2 DEF cur
  <2>2. thread[t].rest = {}
    BY <1>1, <1>2 DEF IInv, ReadingInv, ReadingLocs
  <2>3. Changing(t) /\ ~Changing(t)'
    BY <1>2, <1>3 DEF Changing, JoinLocs, MoveLocs
  <2>4. \A c \in mCharacterList : HasSession(c)' => HasSession(c)
    BY <1>4, CallsKeep DEF IInv, TypeOK
  <2> QED
    BY <1>1, <1>2, <1>3, <2>1, <2>2, <2>3, <2>4, PictureEnds DEF PInv
<1> QED
  BY <1>5, <1>6, <1>7, <1>8 DEF PInv

\* OnAccept makes a character nobody knows of.
LEMMA OnAcceptPaints ==
  ASSUME IInv, IInv', PInv, NEW c \in Characters, OnAccept(c)
  PROVE  PInv'
<1> DEFINE t == Acceptor
<1>1. /\ t \in Threads
      /\ thread \in [Threads -> ThreadType] /\ thread' \in [Threads -> ThreadType]
  BY Roles DEF IInv, ThreadInv
<1>2. /\ thread[t].pc = "idle" /\ phase[c] = "none"
      /\ UNCHANGED <<view, mCharacterList>>
      /\ Calls
  BY DEF OnAccept, Engine!OnAcceptStarts, Engine!Step, Calls, At
<1>3. Only(t) /\ thread'[t].pc = "acceptLock"
  BY <1>1 DEF OnAccept, Only, ThreadType
<1>4. c \notin mCharacterList
  BY <1>2 DEF IInv, MemberInv
<1>5. /\ \A d \in Characters : d # c => info'[d] = info[d]
      /\ \A d \in Characters : info'[d].action = info[d].action
  BY DEF OnAccept, IInv, TypeOK
<1>6. \A d \in Characters : ~Shows(d, c)
  BY <1>2, <1>4 DEF PInv, ViewInv
<1>7. \A d \in Characters : /\ HasSession(d)' <=> HasSession(d)
                            /\ phase'[d] \in {"none", "accepting"} =>
                                 phase[d] \in {"none", "accepting"}
  BY <1>2, CallsKeep DEF IInv
<1>8. \A d \in Characters : Staying(d)' => Staying(d) /\ d # c
  BY <1>2, <1>4, <1>5, <1>7 DEF Staying, Stayed
<1>9. \A u \in Threads : Changing(u) \/ At(u, "tell") => Who(u) \in Characters \ {c}
  <2>1. \A u \in Threads : Changing(u) => Who(u) \in Characters \ {c}
    BY <1>4, OneChanging DEF IInv, TypeOK
  <2>2. \A u \in Threads : At(u, "tell") => u \in EngineThreads /\ Who(u) \in Characters
    BY Roles DEF IInv, ThreadInv, WellPlaced, LocsOf, FrameLocs, MoveLocs, At, Who
  <2>3. \A u \in EngineThreads : At(u, "tell") => phase[Who(u)] = "receiving"
    BY DEF IInv, CallbackInv, ReceiveLocs, At
  <2> QED
    BY <1>2, <2>1, <2>2, <2>3
<1>10. ViewInv'
  <2>1. ViewShape'
    BY <1>2 DEF PInv, ViewInv, ViewShape
  <2> QED
    BY <1>1, <1>2, <1>3, <1>7, <2>1, ViewFrame DEF PInv, Shows
<1>11. SessionInv'
  BY <1>1, <1>2, <1>3, <1>5, SessionFrame DEF IInv, PInv, LeaveLocs
<1>12. TurnInv'
  <2>1. Visits(t)' /\ Tells(t)'
    BY <1>3 DEF Visits, Tells, At, MoveLocs, ReadingLocs
  <2> QED
    BY <1>1, <1>3, <1>5, <1>9, <2>1, TurnFrame DEF PInv
<1>13. PictureInv'
  <2>1. ~Changing(t) /\ ~Changing(t)'
    BY <1>2, <1>3 DEF Changing, JoinLocs, MoveLocs
  <2>2. mCharacterList \subseteq Characters
    BY DEF IInv, TypeOK
  <2> QED
    BY <1>1, <1>2, <1>3, <1>4, <1>5, <1>7, <2>1, <2>2, PictureFrame DEF PInv, Shows
<1>14. \A e \in Characters : DOMAIN view[e] \subseteq Characters
  BY DEF PInv, ViewInv, ViewShape
<1>15. GoneInv'
  <2>1. \A e, d \in Characters : e # c /\ d # c /\ Leaving(e, d) => Leaving(e, d)'
    BY <1>1, <1>2, <1>3, <1>5, LeavingFrame
  <2> QED
    BY <1>2, <1>6, <1>8, <1>14, <2>1, GoneFrame DEF PInv, Shows
<1>16. ActionInv'
  <2>1. \A e, d \in Characters : e # c /\ ToBeTold(e, d) => ToBeTold(e, d)'
    BY <1>1, <1>2, <1>3, <1>5, ToBeToldFrame
  <2> QED
    BY <1>2, <1>5, <1>8, <1>14, <2>1, ActionFrame DEF PInv
<1> QED
  BY <1>10, <1>11, <1>12, <1>13, <1>15, <1>16 DEF PInv

\* OnAccept puts the character into the container, on no sector yet.
LEMMA AcceptAddsPaints ==
  ASSUME IInv, IInv', PInv, AcceptAdds
  PROVE  PInv'
<1> DEFINE t == Acceptor
           a == Who(t)
<1>1. /\ t \in Threads
      /\ thread \in [Threads -> ThreadType] /\ thread' \in [Threads -> ThreadType]
  BY Roles DEF IInv, ThreadInv
<1>2. /\ thread[t].pc = "acceptLock" /\ mCharacterList' = mCharacterList \cup {a}
      /\ UNCHANGED <<view, phase, info>>
  BY DEF AcceptAdds, At
<1>3. /\ Only(t) /\ SameWho(t) /\ thread'[t].pc = "acceptAdd"
      /\ thread'[t].rest = thread[t].rest
  BY <1>1 DEF AcceptAdds, Goto, Only, SameWho, ThreadType
<1>4. /\ a \in Characters /\ phase[a] = "accepting" /\ a \notin mCharacterList
      /\ mCharacterList \subseteq Characters
  BY <1>1, <1>2, Roles
  DEF IInv, TypeOK, ThreadInv, WellPlaced, CallbackInv, MemberInv, OutLocs,
      AcceptLocs, Who
<1>5. DOMAIN view[a] = {} /\ \A d \in Characters : ~Shows(d, a)
  BY <1>4 DEF PInv, ViewInv
<1>6. \A u \in Threads : ~Changing(u)
  BY Roles
  DEF AcceptAdds, LockContainer, IInv, ContainerInv, WriterLocs, ReaderLocs, Changing,
      JoinLocs, FrameLocs
<1>7. Calls
  BY <1>2 DEF Calls
<1>8. ViewInv'
  <2>1. ViewShape'
    BY <1>2 DEF PInv, ViewInv, ViewShape
  <2> QED
    BY <1>1, <1>2, <1>3, <2>1, ViewFrame DEF PInv, Shows, SameWho
<1>9. SessionInv'
  BY <1>1, <1>2, <1>3, <1>7, SessionFrame DEF IInv, PInv, LeaveLocs
<1>10. TurnInv'
  <2>1. Visits(t)' /\ Tells(t)'
    BY <1>3 DEF Visits, Tells, At, MoveLocs, ReadingLocs
  <2> QED
    BY <1>1, <1>2, <1>3, <2>1, TurnFrame DEF PInv
<1>11. \A c, d : /\ Shows(c, d)' <=> Shows(c, d)
                 /\ HasSession(c)' <=> HasSession(c)
                 /\ Neighbours(c, d)' <=> Neighbours(c, d)
  BY <1>2 DEF Shows, HasSession, Neighbours
<1>12. PictureInv'
  <2>1. \A u \in Threads : Changing(u)' => u = t
    BY <1>3, <1>6 DEF Only, Changing
  <2>2. Changing(t)' /\ Who(t)' = a
    BY <1>3 DEF Changing, JoinLocs, SameWho, Who
  <2>3. SeenFrom(t)' = {} /\ SeesTo(t)' = {}
    BY <1>3 DEF SeenFrom, SeesTo, At
  <2>4. Seen(t)' /\ Sees(t)'
    BY <1>2, <1>4, <1>5, <1>11, <2>2, <2>3 DEF Seen, Sees, Others, Shows
  <2>5. ASSUME NEW c \in mCharacterList, NEW d \in mCharacterList, c # d
        PROVE  Settled(c, d)'
    <3>1. Settled(c, d)
      BY <1>6, <2>5 DEF PInv, PictureInv
    <3> QED
      BY <1>11, <3>1 DEF Settled
  <2> QED
    BY <1>1, <1>2, <2>1, <2>2, <2>4, <2>5 DEF PictureInv
<1>13. \A c \in Characters : Staying(c)' /\ c # a => Staying(c)
  BY <1>2, <1>11 DEF Staying, Stayed
<1>14. \A c \in Characters : DOMAIN view[c] \subseteq Characters
  BY DEF PInv, ViewInv, ViewShape
<1>15. GoneInv'
  <2>1. \A c, d \in Characters : Leaving(c, d) => Leaving(c, d)'
    BY <1>1, <1>2, <1>3, LeavingFrame
  <2> QED
    BY <1>2, <1>5, <1>13, <1>14, <2>1 DEF PInv, GoneInv
<1>16. ActionInv'
  <2>1. \A c, d \in Characters : ToBeTold(c, d) => ToBeTold(c, d)'
    BY <1>1, <1>2, <1>3, ToBeToldFrame
  <2> QED
    BY <1>2, <1>5, <1>13, <1>14, <2>1 DEF PInv, ActionInv, Shows
<1> QED
  BY <1>8, <1>9, <1>10, <1>12, <1>15, <1>16 DEF PInv

\* The empty view.
LEMMA NothingShown ==
  ASSUME NEW v, v = <<>>
  PROVE  DOMAIN v = {} /\ v = [d \in DOMAIN v |-> v[d]]
OBVIOUS

\* OnRelease starts: the client is gone.
LEMMA OnReleasePaints ==
  ASSUME IInv, IInv', PInv, NEW t \in EngineThreads, NEW c \in Characters, OnRelease(t, c)
  PROVE  PInv'
<1>1. /\ t \in Threads
      /\ thread \in [Threads -> ThreadType] /\ thread' \in [Threads -> ThreadType]
  BY Roles DEF IInv, ThreadInv
<1>2. /\ thread[t].pc = "idle" /\ phase[c] = "open"
      /\ phase' = [phase EXCEPT ![c] = "releasing"]
      /\ view' = [view EXCEPT ![c] = <<>>]
      /\ UNCHANGED <<mCharacterList, info>>
  BY DEF OnRelease, Engine!OnReleaseStarts, Engine!Step, At, world
<1>3. Only(t) /\ thread'[t].pc = "leaveLock" /\ thread'[t].who = c
  BY <1>1 DEF OnRelease, Only, ThreadType
<1>4. \A d \in Characters : /\ d # c => phase'[d] = phase[d]
                            /\ HasSession(d)' <=> HasSession(d) /\ d # c
  BY <1>2 DEF IInv, TypeOK, HasSession
<1>5. phase'[c] = "releasing"
  BY <1>2 DEF IInv, TypeOK
<1>6. ViewShape
  BY DEF PInv, ViewInv
<1>7. /\ view' = [d \in Characters |-> view'[d]]
      /\ view'[c] = <<>>
      /\ \A d \in Characters : d # c => view'[d] = view[d]
  BY <1>2, <1>6 DEF ViewShape
<1>8. ViewShape'
  <2>1. ASSUME NEW d \in Characters
        PROVE  /\ view'[d] = [e \in DOMAIN view'[d] |-> view'[d][e]]
               /\ DOMAIN view'[d] \subseteq Characters \ {d}
    BY <1>6, <1>7, NothingShown DEF ViewShape
  <2> QED
    BY <1>7, <2>1 DEF ViewShape
<1>9. \A d, e \in Characters : Shows(d, e)' <=> Shows(d, e) /\ d # c
  BY <1>7, NothingShown DEF Shows
<1>10. \A d \in Characters : DOMAIN view'[d] \subseteq Characters
  BY <1>8 DEF ViewShape
<1>11. \A d \in Characters : Staying(d)' => Staying(d) /\ d # c
  BY <1>2, <1>4 DEF Staying, Stayed
<1>12. ViewInv'
  BY <1>1, <1>2, <1>3, <1>4, <1>5, <1>8, <1>9, Roles, ViewFrame DEF PInv, Only
<1>13. SessionInv'
  <2>1. \A d \in Characters : phase'[d] \in {"none", "accepting"} => info'[d].action = Still
    BY <1>2, <1>4, <1>5 DEF PInv, SessionInv
  <2>2. ASSUME NEW d \in Characters, phase'[d] = "releasing"
        PROVE  \E u \in EngineThreads : thread'[u].pc \in LeaveLocs /\ thread'[u].who = d
    <3>1. CASE d = c
      BY <1>3, <3>1 DEF LeaveLocs
    <3>2. CASE d # c
      <4>1. PICK u \in EngineThreads : thread[u].pc \in LeaveLocs /\ Who(u) = d
        BY <1>4, <2>2, <3>2 DEF PInv, SessionInv
      <4>2. thread'[u] = thread[u]
        BY <1>2, <1>3, <4>1, Roles DEF Only, LeaveLocs
      <4> QED
        BY <4>1, <4>2 DEF Who
    <3> QED
      BY <3>1, <3>2
  <2> QED
    BY <2>1, <2>2 DEF SessionInv, Who
<1>14. TurnInv'
  <2>1. Visits(t)' /\ Tells(t)'
    BY <1>3 DEF Visits, Tells, At, MoveLocs, ReadingLocs
  <2> QED
    BY <1>1, <1>2, <1>3, <2>1, TurnFrame DEF PInv
<1>15. PictureInv'
  <2>1. ~Changing(t) /\ ~Changing(t)'
    BY <1>2, <1>3 DEF Changing, JoinLocs, MoveLocs
  <2>2. mCharacterList \subseteq Characters
    BY DEF IInv, TypeOK
  <2> QED
    BY <1>1, <1>2, <1>3, <1>4, <1>9, <2>1, <2>2, PictureFrame DEF PInv
<1>16. GoneInv'
  <2>1. \A d, e \in Characters : Leaving(d, e) => Leaving(d, e)'
    BY <1>1, <1>2, <1>3, LeavingFrame
  <2> QED
    BY <1>2, <1>9, <1>10, <1>11, <2>1, GoneFrame DEF PInv, Shows
<1>17. ActionInv'
  <2>1. \A d, e \in Characters : ToBeTold(d, e) => ToBeTold(d, e)'
    BY <1>1, <1>2, <1>3, ToBeToldFrame
  <2> QED
    BY <1>2, <1>7, <1>10, <1>11, <2>1, ActionFrame DEF PInv
<1> QED
  BY <1>12, <1>13, <1>14, <1>15, <1>16, <1>17 DEF PInv

\* OnRelease takes the character off the lists.
LEMMA LeaveRemovesPaints ==
  ASSUME IInv, IInv', PInv, NEW t \in EngineThreads, LeaveRemoves(t)
  PROVE  PInv'
<1> DEFINE a == Who(t)
<1>1. /\ t \in Threads
      /\ thread \in [Threads -> ThreadType] /\ thread' \in [Threads -> ThreadType]
  BY Roles DEF IInv, ThreadInv
<1>2. /\ thread[t].pc = "leaveRemove" /\ mCharacterList' = mCharacterList \ {a}
      /\ UNCHANGED <<phase, view, info>>
  BY DEF LeaveRemoves, At
<1>3. /\ Only(t) /\ SameWho(t) /\ thread'[t].pc = "leaveWait" /\ thread'[t].who = a
  BY <1>1 DEF LeaveRemoves, Goto, Only, SameWho, ThreadType, Who
<1>4. a \in Characters /\ phase[a] = "releasing" /\ a \in mCharacterList
  BY <1>1, <1>2
  DEF IInv, ThreadInv, WellPlaced, CallbackInv, MemberInv, InLocs, LeaveLocs, Who
<1>5. \A u \in Threads : ~Changing(u)
  <2>1. ~Changing(t)
    BY <1>2 DEF Changing, JoinLocs, MoveLocs
  <2>2. \A u \in Threads : u # t => ~Changing(u)
    BY <1>1, <1>2, WriterAlone DEF WriterLocs
  <2> QED
    BY <2>1, <2>2
<1>6. ~Changing(t)'
  BY <1>3 DEF Changing, JoinLocs, MoveLocs
<1>7. Calls
  BY <1>2 DEF Calls
<1>8. mCharacterList \subseteq Characters
  BY DEF IInv, TypeOK
<1>9. \A c \in Characters : DOMAIN view[c] \subseteq Characters
  BY DEF PInv, ViewInv, ViewShape
<1>10. \A c \in Characters : Staying(c)' => Staying(c)
  BY <1>2 DEF Staying, Stayed, HasSession
<1>11. ViewInv'
  <2>1. ViewShape'
    BY <1>2 DEF PInv, ViewInv, ViewShape
  <2> QED
    BY <1>1, <1>2, <1>3, <1>4, <2>1, Roles, ViewFrame DEF PInv, Only, Shows
<1>12. SessionInv'
  BY <1>1, <1>2, <1>3, <1>7, SessionFrame DEF IInv, PInv, LeaveLocs
<1>13. TurnInv'
  <2>1. Visits(t)' /\ Tells(t)'
    BY <1>3 DEF Visits, Tells, At, MoveLocs, ReadingLocs
  <2> QED
    BY <1>1, <1>2, <1>3, <2>1, TurnFrame DEF PInv
<1>14. PictureInv'
  BY <1>1, <1>2, <1>3, <1>5, <1>6, PictureFrame DEF PInv, Shows, HasSession
<1>15. GoneInv'
  <2>1. \A c, d \in Characters : Leaving(c, d) => Leaving(c, d)'
    BY <1>1, <1>2, <1>3, LeavingFrame
  <2>2. ASSUME NEW c \in Characters, Staying(c)',
               NEW d \in DOMAIN view[c], d = a
        PROVE  Leaving(c, d)'
    <3>1. c # d /\ c \in mCharacterList /\ HasSession(c)
      BY <1>2, <1>10, <2>2 DEF Staying
    <3>2. Neighbours(c, d)
      BY <1>4, <1>5, <2>2, <3>1 DEF PInv, PictureInv, Settled, Shows
    <3> QED
      BY <1>2, <1>3, <2>2, <3>2 DEF Leaving, At, Who, Neighbours
  <2>3. ASSUME NEW c \in Characters, Staying(c)',
               NEW d \in DOMAIN view'[c] \ mCharacterList'
        PROVE  Leaving(c, d)'
    <3>1. CASE d = a
      BY <1>2, <2>2, <2>3, <3>1
    <3>2. CASE d # a
      BY <1>2, <1>9, <1>10, <2>1, <2>3, <3>2 DEF PInv, GoneInv
    <3> QED
      BY <3>1, <3>2
  <2> QED
    BY <2>3 DEF GoneInv
<1>16. ActionInv'
  <2>1. \A c, d \in Characters : ToBeTold(c, d) => ToBeTold(c, d)'
    BY <1>1, <1>2, <1>3, ToBeToldFrame
  <2> QED
    BY <1>2, <1>9, <1>10, <2>1, ActionFrame DEF PInv
<1> QED
  BY <1>11, <1>12, <1>13, <1>14, <1>15, <1>16 DEF PInv

\* OnRelease has waited for the last user of the character.
LEMMA LeaveWaitsPaints ==
  ASSUME IInv, IInv', PInv, NEW t \in EngineThreads, LeaveWaits(t)
  PROVE  PInv'
<1> DEFINE a == Who(t)
<1>1. /\ t \in Threads
      /\ thread \in [Threads -> ThreadType] /\ thread' \in [Threads -> ThreadType]
  BY Roles DEF IInv, ThreadInv
<1>2. /\ thread[t].pc = "leaveWait"
      /\ GotoAround(t, "leaveTell", Around(info[a].cur))
      /\ UNCHANGED <<phase, view, info, mCharacterList>>
  BY DEF LeaveWaits, At, world, Around
<1>3. /\ Only(t) /\ SameWho(t) /\ thread'[t].pc = "leaveTell" /\ thread'[t].who = a
      /\ thread'[t].todo = Around(info[a].cur)
  BY <1>1, <1>2 DEF GotoAround, Only, SameWho, ThreadType, Who
<1>4. a \in Characters
  BY <1>1, <1>2 DEF IInv, ThreadInv, WellPlaced, Who
<1>5. ~Changing(t) /\ ~Changing(t)'
  BY <1>2, <1>3 DEF Changing, JoinLocs, MoveLocs
<1>6. Calls
  BY <1>2 DEF Calls
<1>7. \A c \in Characters : DOMAIN view[c] \subseteq Characters
  BY DEF PInv, ViewInv, ViewShape
<1>8. \A c \in Characters : Staying(c)' <=> Staying(c)
  BY <1>2 DEF Staying, Stayed, HasSession
<1>9. ViewInv'
  <2>1. ViewShape'
    BY <1>2 DEF PInv, ViewInv, ViewShape
  <2> QED
    BY <1>1, <1>2, <1>3, <2>1, Roles, ViewFrame DEF PInv, Only, Shows
<1>10. SessionInv'
  BY <1>1, <1>2, <1>3, <1>6, SessionFrame DEF IInv, PInv, LeaveLocs
<1>11. TurnInv'
  <2>1. Visits(t)' /\ Tells(t)'
    BY <1>3 DEF Visits, Tells, At, MoveLocs, ReadingLocs
  <2> QED
    BY <1>1, <1>2, <1>3, <2>1, TurnFrame DEF PInv
<1>12. PictureInv'
  BY <1>1, <1>2, <1>3, <1>5, PictureFrame DEF PInv, Shows, HasSession
<1>13. GoneInv'
  <2>1. ASSUME NEW c \in Characters, NEW d \in Characters, Leaving(c, d)
        PROVE  Leaving(c, d)'
    <3>1. PICK u \in EngineThreads :
            /\ Who(u) = d
            /\ \/ At(u, "leaveWait") /\ Neighbours(c, d)
               \/ At(u, "leaveTell") /\ info[c].cur \in thread[u].todo
      BY <2>1 DEF Leaving
    <3>2. CASE u = t
      <4>1. d = a /\ info[c].cur \in Around(info[a].cur)
        BY <1>2, <1>4, <2>1, <3>1, <3>2, NeighboursAround DEF IInv, At
      <4> QED
        BY <1>2, <1>3, <3>2, <4>1 DEF Leaving, At, Who
    <3>3. CASE u # t
      <4>1. thread'[u] = thread[u]
        BY <1>3, <3>3, Roles DEF Only
      <4> QED
        BY <1>2, <3>1, <4>1 DEF Leaving, At, Who, Neighbours
    <3> QED
      BY <3>2, <3>3
  <2> QED
    BY <1>2, <1>7, <1>8, <2>1, GoneFrame DEF PInv
<1>14. ActionInv'
  <2>1. \A c, d \in Characters : ToBeTold(c, d) => ToBeTold(c, d)'
    BY <1>1, <1>2, <1>3, ToBeToldFrame
  <2> QED
    BY <1>2, <1>7, <1>8, <2>1, ActionFrame DEF PInv
<1> QED
  BY <1>9, <1>10, <1>11, <1>12, <1>13, <1>14 DEF PInv

-----------------------------------------------------------------------------
\* Handlers, and the frame that finds a character in another sector.

\* A client that stays and shows a character of the container is one of its neighbours,
\* unless that character comes or moves.
LEMMA StayersShowNeighbours ==
  ASSUME IInv, PInv, NEW c \in Characters, Staying(c),
         NEW d \in DOMAIN view[c] \cap mCharacterList,
         \A u \in Threads : Changing(u) => Who(u) # d
  PROVE  Neighbours(c, d)
<1>1. c \in mCharacterList /\ HasSession(c) /\ Stayed(c)
  BY DEF Staying
<1>2. c # d /\ d \in Characters
  BY DEF PInv, ViewInv, ViewShape
<1>3. CASE \E u \in Threads : Changing(u) /\ Who(u) = c
  <2>1. PICK u \in Threads : Changing(u) /\ Who(u) = c
    BY <1>3
  <2>2. thread[u].pc \in JoinLocs
    BY <1>1, <2>1 DEF PInv, TurnInv, Tells, Changing
  <2>3. Sees(u) /\ d \in Others(u)
    BY <1>2, <2>1 DEF PInv, PictureInv, Others
  <2>4. info[d].cur \in SeesTo(u)
    BY <1>1, <2>1, <2>3 DEF Sees, Shows
  <2>5. SeesTo(u) \subseteq Around(info[c].cur)
    BY <2>1, <2>2 DEF SeesTo, JoinLocs, At
  <2> QED
    BY <1>2, <2>4, <2>5, NeighboursAround DEF IInv
<1>4. CASE \A u \in Threads : Changing(u) => Who(u) # c
  <2>1. Settled(c, d)
    BY <1>1, <1>2, <1>4 DEF PInv, PictureInv
  <2> QED
    BY <1>1, <2>1 DEF Settled, Shows
<1> QED
  BY <1>3, <1>4

\* A client that stays shows nobody while its character is not on a sector, and nobody
\* moves it: if it shows a character, its own is on the list of its sector.
LEMMA StayersListed ==
  ASSUME IInv, PInv, NEW c \in Characters, Staying(c), DOMAIN view[c] # {},
         NEW s \in Sectors
  PROVE  c \in mSectorList[s] <=> s = info[c].cur
<1>1. c \in mCharacterList
  BY DEF Staying
<1>2. ASSUME NEW t \in Threads, Who(t) = c
      PROVE  thread[t].pc \notin {"acceptAdd", "frameRemove", "frameAdd"}
  <2>1. ASSUME At(t, "acceptAdd")
        PROVE  FALSE
    <3>1. t = Acceptor
      BY <2>1, OneChanging DEF Changing, JoinLocs, At
    <3> QED
      BY <1>2, <2>1, <3>1 DEF PInv, ViewInv
  <2>2. thread[t].pc \notin MoveLocs
    BY <1>2 DEF Staying, PInv, TurnInv, Tells
  <2> QED
    BY <2>1, <2>2 DEF MoveLocs, At
<1> QED
  BY <1>1, <1>2, Listed

\* A broadcast of OnRelease, the last one included.
LEMMA LeaveTellsPaints ==
  ASSUME ~RingMayFill, IInv, IInv', PInv, NEW t \in EngineThreads, LeaveTells(t)
  PROVE  PInv'
<1> DEFINE a == Who(t)
           s == OwnLast(thread[t].todo, info[a].cur)
           R == Open(mSectorList[s] \ {a})
<1>1. /\ t \in Threads
      /\ thread \in [Threads -> ThreadType] /\ thread' \in [Threads -> ThreadType]
  BY Roles DEF IInv, ThreadInv
<1>2. /\ thread[t].pc = "leaveTell"
      /\ UNCHANGED <<info, mCharacterList>>
      /\ Hear(R, a, "delete")
      /\ \/ /\ thread[t].todo = {s} /\ Return(t)
            /\ phase' = [phase EXCEPT ![a] = "released"]
         \/ /\ thread' = [thread EXCEPT ![t].todo = @ \ {s}]
            /\ UNCHANGED phase
  BY BroadcastReaches
  DEF LeaveTells, VisitToTell, At, world, Engine!OnReleaseReturns, Engine!Step
<1> HIDE DEF s
<1>3. /\ Only(t)
      /\ \/ /\ thread[t].todo = {s} /\ thread'[t].pc = "idle"
            /\ phase' = [phase EXCEPT ![a] = "released"]
         \/ /\ SameWho(t) /\ thread'[t].pc = "leaveTell" /\ thread'[t].who = a
            /\ thread'[t].todo = thread[t].todo \ {s}
            /\ UNCHANGED phase
  BY <1>1, <1>2 DEF Return, Idle, Only, SameWho, ThreadType, Who
<1>4. /\ a \in Characters /\ phase[a] = "releasing" /\ a \notin mCharacterList
      /\ mCharacterList \subseteq Characters
  BY <1>1, <1>2
  DEF IInv, TypeOK, ThreadInv, WellPlaced, CallbackInv, MemberInv, OutLocs, LeaveLocs, Who
<1>5. \A c \in Characters : /\ c # a => phase'[c] = phase[c]
                            /\ phase'[c] = phase[c] \/ phase'[c] = "released"
                            /\ HasSession(c)' <=> HasSession(c)
  BY <1>3, <1>4 DEF IInv, TypeOK, HasSession
<1>6. ~Changing(t) /\ ~Changing(t)'
  BY <1>2, <1>3 DEF Changing, JoinLocs, MoveLocs
<1>7. ViewShape
  BY DEF PInv, ViewInv
<1>8. /\ ViewShape'
      /\ \A c, d \in Characters : Shows(c, d)' <=> Shows(c, d) /\ ~(c \in R /\ d = a)
      /\ \A c, d \in Characters : Shows(c, d)' => view'[c][d] = view[c][d]
  <2>1. Hear(R, a, "delete")
    BY <1>2
  <2> HIDE DEF R, a
  <2> QED
    BY <1>4, <1>7, <2>1, HearDelete
<1>9. \A c \in Characters : DOMAIN view'[c] \subseteq Characters
  BY <1>8 DEF ViewShape
<1>10. \A c \in Characters : Staying(c)' <=> Staying(c)
  BY <1>2, <1>5 DEF Staying, Stayed
<1>11. ViewInv'
  <2>1. \A c \in Characters : phase'[c] \in {"none", "accepting"} =>
          phase[c] \in {"none", "accepting"}
    BY <1>5
  <2>2. thread'[Acceptor].pc = "acceptAdd" =>
          thread[Acceptor].pc = "acceptAdd" /\ thread'[Acceptor].who = thread[Acceptor].who
    BY <1>3, Roles DEF Only
  <2> QED
    BY <1>1, <1>2, <1>3, <1>8, <2>1, <2>2, ViewFrame DEF PInv
<1>12. SessionInv'
  <2>1. \A c \in Characters : phase'[c] \in {"none", "accepting"} => info'[c].action = Still
    BY <1>2, <1>5 DEF PInv, SessionInv
  <2>2. ASSUME NEW c \in Characters, phase'[c] = "releasing"
        PROVE  \E u \in EngineThreads : thread'[u].pc \in LeaveLocs /\ thread'[u].who = c
    <3>1. phase[c] = "releasing"
      BY <1>5, <2>2
    <3>2. PICK u \in EngineThreads : thread[u].pc \in LeaveLocs /\ Who(u) = c
      BY <3>1 DEF PInv, SessionInv
    <3>3. CASE u = t
      <4>1. thread'[t].pc = "leaveTell" /\ thread'[t].who = a
        BY <1>3, <1>4, <2>2, <3>2, <3>3 DEF IInv, TypeOK
      <4> QED
        BY <3>2, <3>3, <4>1 DEF LeaveLocs
    <3>4. CASE u # t
      BY <1>3, <3>2, <3>4, Roles DEF Only, Who
    <3> QED
      BY <3>3, <3>4
  <2> QED
    BY <2>1, <2>2 DEF SessionInv, Who
<1>13. TurnInv'
  <2>1. Visits(t)' /\ Tells(t)'
    BY <1>3 DEF Visits, Tells, At, MoveLocs, ReadingLocs
  <2> QED
    BY <1>1, <1>2, <1>3, <2>1, TurnFrame DEF PInv
<1>14. PictureInv'
  <2>1. \A c, d \in mCharacterList : Shows(c, d)' <=> Shows(c, d)
    BY <1>4, <1>8
  <2> QED
    BY <1>1, <1>2, <1>3, <1>4, <1>5, <1>6, <2>1, PictureFrame DEF PInv
<1>15. GoneInv'
  <2>1. ASSUME NEW c \in Characters, Staying(c)',
               NEW d \in DOMAIN view'[c] \ mCharacterList'
        PROVE  Leaving(c, d)'
    <3>1. /\ Staying(c) /\ d \in Characters /\ d \in DOMAIN view[c] \ mCharacterList
          /\ ~(c \in R /\ d = a)
      BY <1>2, <1>8, <1>9, <1>10, <2>1 DEF Shows
    <3>2. Leaving(c, d)
      BY <3>1 DEF PInv, GoneInv
    <3>3. PICK u \in EngineThreads :
            /\ Who(u) = d
            /\ \/ At(u, "leaveWait") /\ Neighbours(c, d)
               \/ At(u, "leaveTell") /\ info[c].cur \in thread[u].todo
      BY <3>2 DEF Leaving
    <3>4. CASE u = t
      <4>1. d = a /\ info[c].cur \in thread[t].todo
        BY <1>2, <3>3, <3>4 DEF At
      <4>2. c \in Open(mSectorList[info[c].cur] \ {a})
        <5>1. info[c].cur \in Sectors
          BY DEF IInv, TypeOK
        <5>2. c \in mSectorList[info[c].cur]
          BY <3>1, <5>1, StayersListed
        <5> QED
          BY <1>4, <3>1, <5>2 DEF Open, Staying
      <4>3. info[c].cur # s
        BY <3>1, <4>1, <4>2
      <4>4. /\ thread'[t].pc = "leaveTell" /\ thread'[t].who = a
            /\ info[c].cur \in thread'[t].todo
        BY <1>3, <4>1, <4>3
      <4> QED
        BY <1>2, <4>1, <4>4 DEF Leaving, At, Who
    <3>5. CASE u # t
      <4>1. thread'[u] = thread[u]
        BY <1>3, <3>5, Roles DEF Only
      <4> QED
        BY <1>2, <3>3, <4>1 DEF Leaving, At, Who, Neighbours
    <3> QED
      BY <3>4, <3>5
  <2> QED
    BY <2>1 DEF GoneInv
<1>16. ActionInv'
  <2>1. \A c, d \in Characters : ToBeTold(c, d) => ToBeTold(c, d)'
    BY <1>1, <1>2, <1>3, ToBeToldFrame
  <2> QED
    BY <1>2, <1>8, <1>9, <1>10, <2>1, ActionFrame DEF PInv, Shows
<1> QED
  BY <1>11, <1>12, <1>13, <1>14, <1>15, <1>16 DEF PInv

\* Nobody else has a character whose lock is free or that is being received for.
LEMMA NobodyElse ==
  ASSUME IInv, NEW a \in Characters, CharacterFree(a), phase[a] # "accepting",
         NEW u \in Threads, Changing(u) \/ At(u, "tell")
  PROVE  Who(u) # a
<1>1. CASE thread[u].pc \in JoinLocs
  BY <1>1, Roles
  DEF IInv, ThreadInv, WellPlaced, LocsOf, CallbackInv, JoinLocs, AcceptLocs, LeaveLocs,
      ReceiveLocs, FrameLocs, MoveLocs
<1>2. CASE thread[u].pc \in MoveLocs \cup {"tell"}
  BY <1>2, Roles DEF IInv, CharacterInv, HasCharacter, CharacterFree
<1> QED
  BY <1>1, <1>2 DEF Changing, At

\* A handler changes what the character does.
LEMMA MovesPaints ==
  ASSUME IInv, IInv', PInv, NEW t \in Workers, Moves(t)
  PROVE  PInv'
<1> DEFINE a == Who(t)
           doing == IF thread[t].packet = "start" THEN Moving ELSE Still
<1>1. /\ t \in Threads /\ t \in EngineThreads
      /\ thread \in [Threads -> ThreadType] /\ thread' \in [Threads -> ThreadType]
  BY Roles DEF IInv, ThreadInv
<1>2. /\ thread[t].pc = "lock" /\ thread[t].packet # "attack"
      /\ UNCHANGED <<phase, view, mCharacterList>>
      /\ CharacterFree(a)
      /\ info' = [info EXCEPT ![a].action = doing]
      /\ GotoAround(t, "tell", Around(info[a].cur))
  BY DEF Moves, LockCharacter, At, Around
<1>3. /\ Only(t) /\ SameWho(t) /\ thread'[t].pc = "tell" /\ thread'[t].who = a
      /\ thread'[t].todo = Around(info[a].cur) /\ thread'[t].packet = thread[t].packet
  BY <1>1, <1>2 DEF GotoAround, Only, SameWho, ThreadType, Who
<1>4. thread[t].packet \in {"start", "stop"}
  BY <1>1, <1>2 DEF PInv, TurnInv, Tells, ThreadType, Packets
<1>5. a \in Characters /\ phase[a] = "receiving" /\ a \in mCharacterList
  BY <1>1, <1>2
  DEF IInv, ThreadInv, WellPlaced, CallbackInv, MemberInv, ReceiveLocs, Who
<1>6. /\ \A d \in Characters : d # a => info'[d] = info[d]
      /\ \A d \in Characters : info'[d].cur = info[d].cur /\ info'[d].old = info[d].old
      /\ info'[a].action = doing
  BY <1>2, <1>5 DEF IInv, TypeOK
<1>7. \A u \in Threads : Changing(u) \/ At(u, "tell") => Who(u) # a
  BY <1>2, <1>5, NobodyElse
<1>8. ~Changing(t) /\ ~Changing(t)'
  BY <1>2, <1>3 DEF Changing, JoinLocs, MoveLocs
<1>9. Calls
  BY <1>2 DEF Calls
<1>10. \A c \in Characters : DOMAIN view[c] \subseteq Characters
  BY DEF PInv, ViewInv, ViewShape
<1>11. \A c \in Characters : Staying(c)' <=> Staying(c)
  BY <1>2, <1>6 DEF Staying, Stayed, HasSession
<1>12. ViewInv'
  <2>1. ViewShape'
    BY <1>2 DEF PInv, ViewInv, ViewShape
  <2> QED
    BY <1>1, <1>2, <1>3, <2>1, Roles, ViewFrame DEF PInv, Only, Shows
<1>13. SessionInv'
  <2>1. \A c \in Characters :
          phase'[c] \in {"none", "accepting"} => info'[c].action = info[c].action
    BY <1>2, <1>5, <1>6
  <2> QED
    BY <1>1, <1>2, <1>3, <1>9, <2>1, SessionFrame DEF IInv, PInv, LeaveLocs
<1>14. TurnInv'
  <2>1. Visits(t)'
    BY <1>3 DEF Visits, At, ReadingLocs
  <2>2. Tells(t)'
    BY <1>3, <1>4, <1>6 DEF Tells, At, Who, MoveLocs
  <2>3. \A u \in Threads \ {t} :
          Changing(u) \/ At(u, "tell") => info'[Who(u)] = info[Who(u)]
    <3>1. \A u \in Threads : Changing(u) => Who(u) \in Characters
      BY OneChanging DEF IInv, TypeOK
    <3>2. \A u \in Threads : At(u, "tell") => Who(u) \in Characters
      BY DEF IInv, ThreadInv, WellPlaced, At, Who
    <3> QED
      BY <1>6, <1>7, <3>1, <3>2
  <2> QED
    BY <1>1, <1>3, <2>1, <2>2, <2>3, TurnFrame DEF PInv
<1>15. PictureInv'
  <2>1. mCharacterList \subseteq Characters
    BY DEF IInv, TypeOK
  <2> QED
    BY <1>1, <1>2, <1>3, <1>6, <1>8, <2>1, PictureFrame DEF PInv, Shows, HasSession
<1>16. GoneInv'
  <2>1. \A c, d \in Characters : Leaving(c, d) => Leaving(c, d)'
    BY <1>1, <1>2, <1>3, <1>6, LeavingFrame
  <2> QED
    BY <1>2, <1>10, <1>11, <2>1, GoneFrame DEF PInv
<1>17. ActionInv'
  <2>1. \A c, d \in Characters : ToBeTold(c, d) => ToBeTold(c, d)'
    BY <1>1, <1>2, <1>3, <1>6, ToBeToldFrame
  <2>2. ASSUME NEW c \in Characters, Staying(c)',
               NEW d \in DOMAIN view'[c] \cap mCharacterList'
        PROVE  \/ ToBeTold(c, d)'
               \/ /\ Staying(c) /\ d \in DOMAIN view[c] \cap mCharacterList
                  /\ view'[c][d] = view[c][d] /\ info'[d].action = info[d].action
                  /\ ToBeTold(c, d) => ToBeTold(c, d)'
    <3>1. /\ Staying(c) /\ d \in Characters /\ d \in DOMAIN view[c] \cap mCharacterList
          /\ view'[c][d] = view[c][d]
      BY <1>2, <1>10, <1>11, <2>2
    <3>2. CASE d = a
      <4>1. Neighbours(c, d)
        BY <1>7, <3>1, <3>2, StayersShowNeighbours
      <4>2. info[c].cur \in Around(info[a].cur)
        BY <3>1, <3>2, <4>1, NeighboursAround DEF IInv
      <4>3. info'[c].cur \in thread'[t].todo
        BY <1>3, <1>6, <4>2
      <4> QED
        BY <1>3, <3>2, <4>3 DEF ToBeTold, At, Who
    <3>3. CASE d # a
      BY <1>6, <2>1, <3>1, <3>3
    <3> QED
      BY <3>2, <3>3
  <2> QED
    BY <2>2, ActionFrame DEF PInv
<1> QED
  BY <1>12, <1>13, <1>14, <1>15, <1>16, <1>17 DEF PInv

\* A broadcast of MOVE_START or MOVE_STOP, the last one included.
LEMMA MoveTellsPaints ==
  ASSUME ~RingMayFill, IInv, IInv', PInv, NEW t \in Workers, MoveTells(t)
  PROVE  PInv'
<1> DEFINE a == Who(t)
           s == OwnLast(thread[t].todo, info[a].cur)
           R == Open(mSectorList[s] \ {a})
<1>1. /\ t \in Threads /\ t \in EngineThreads
      /\ thread \in [Threads -> ThreadType] /\ thread' \in [Threads -> ThreadType]
  BY Roles DEF IInv, ThreadInv
<1>2. /\ thread[t].pc = "tell"
      /\ UNCHANGED <<info, mCharacterList>>
      /\ Hear(R, a, thread[t].packet)
      /\ \/ thread[t].todo = {s} /\ Return(t) /\ Engine!OnRecvReturns(a)
         \/ thread' = [thread EXCEPT ![t].todo = @ \ {s}] /\ UNCHANGED phase
  BY BroadcastReaches DEF MoveTells, VisitToTell, At, world
<1> HIDE DEF s
<1>3. /\ Only(t)
      /\ \/ thread[t].todo = {s} /\ thread'[t].pc = "idle"
         \/ /\ thread'[t].pc = "tell" /\ thread'[t].who = a
            /\ thread'[t].packet = thread[t].packet
            /\ thread'[t].todo = thread[t].todo \ {s}
  BY <1>1, <1>2 DEF Return, Idle, Only, ThreadType, Who
<1>4. /\ a \in Characters /\ phase[a] = "receiving" /\ a \in mCharacterList
      /\ mCharacterList \subseteq Characters
  BY <1>1, <1>2
  DEF IInv, TypeOK, ThreadInv, WellPlaced, CallbackInv, MemberInv, ReceiveLocs, Who
<1>5. Calls
  BY <1>2, <1>4 DEF Calls
<1>6. \A c \in Characters : /\ HasSession(c)' <=> HasSession(c)
                            /\ phase'[c] \in {"none", "accepting"} =>
                                 phase[c] \in {"none", "accepting"}
  BY <1>5, CallsKeep DEF IInv
<1>7. /\ thread[t].packet \in {"start", "stop"}
      /\ info[a].action = IF thread[t].packet = "start" THEN Moving ELSE Still
  BY <1>1, <1>2 DEF PInv, TurnInv, Tells, At
<1>8. ~Changing(t) /\ ~Changing(t)'
  BY <1>2, <1>3 DEF Changing, JoinLocs, MoveLocs
<1>9. ViewShape
  BY DEF PInv, ViewInv
<1>10. /\ ViewShape'
       /\ \A c, d \in Characters : Shows(c, d)' <=> Shows(c, d)
       /\ \A c, d \in Characters : ~(c \in R /\ d = a) /\ Shows(c, d)' =>
            view'[c][d] = view[c][d]
       /\ \A c \in R \cap Characters : a \in DOMAIN view'[c] =>
            view'[c][a] = info[a].action
  <2> DEFINE packet == thread[t].packet
  <2>1. Hear(R, a, packet) /\ packet \in {"start", "stop"}
    BY <1>2, <1>7
  <2>2. info[a].action = IF packet = "stop" THEN Still ELSE Moving
    BY <1>7
  <2> HIDE DEF R, a, packet
  <2> QED
    BY <1>4, <1>9, <2>1, <2>2, HearMotion DEF Shows
<1>11. \A c \in Characters : DOMAIN view'[c] \subseteq Characters
  BY <1>10 DEF ViewShape
<1>12. \A c \in Characters : Staying(c)' <=> Staying(c)
  BY <1>2, <1>6 DEF Staying, Stayed
<1>13. ViewInv'
  <2>1. thread'[Acceptor].pc = "acceptAdd" =>
          thread[Acceptor].pc = "acceptAdd" /\ thread'[Acceptor].who = thread[Acceptor].who
    BY <1>3, Roles DEF Only
  <2> QED
    BY <1>1, <1>2, <1>3, <1>6, <1>10, <2>1, ViewFrame DEF PInv
<1>14. SessionInv'
  BY <1>1, <1>2, <1>3, <1>5, SessionFrame DEF IInv, PInv, LeaveLocs
<1>15. TurnInv'
  <2>1. Visits(t)'
    BY <1>3 DEF Visits, At, ReadingLocs
  <2>2. Tells(t)'
    BY <1>2, <1>3, <1>7 DEF Tells, At, Who, MoveLocs
  <2> QED
    BY <1>1, <1>2, <1>3, <2>1, <2>2, TurnFrame DEF PInv
<1>16. PictureInv'
  BY <1>1, <1>2, <1>3, <1>4, <1>6, <1>8, <1>10, PictureFrame DEF PInv
<1>17. GoneInv'
  <2>1. \A c, d \in Characters : Leaving(c, d) => Leaving(c, d)'
    BY <1>1, <1>2, <1>3, LeavingFrame
  <2> QED
    BY <1>2, <1>10, <1>11, <1>12, <2>1, GoneFrame DEF PInv, Shows
<1>18. ActionInv'
  <2>1. ASSUME NEW c \in Characters, Staying(c)',
               NEW d \in DOMAIN view'[c] \cap mCharacterList'
        PROVE  view'[c][d] = info'[d].action \/ ToBeTold(c, d)'
    <3>1. /\ Staying(c) /\ d \in Characters /\ d \in DOMAIN view[c] \cap mCharacterList
          /\ info'[d] = info[d] /\ info'[c] = info[c] /\ Shows(c, d)'
      BY <1>2, <1>10, <1>11, <1>12, <2>1 DEF Shows
    <3>2. CASE c \in R /\ d = a
      BY <1>10, <2>1, <3>1, <3>2
    <3>3. CASE ~(c \in R /\ d = a)
      <4>1. view'[c][d] = view[c][d]
        BY <1>10, <3>1, <3>3
      <4>2. CASE view[c][d] = info[d].action
        BY <3>1, <4>1, <4>2
      <4>3. CASE ToBeTold(c, d)
        <5>1. PICK u \in Workers :
                At(u, "tell") /\ Who(u) = d /\ info[c].cur \in thread[u].todo
          BY <4>3 DEF ToBeTold
        <5>2. CASE u = t
          <6>1. c \in Open(mSectorList[info[c].cur] \ {a})
            <7>1. info[c].cur \in Sectors
              BY DEF IInv, TypeOK
            <7>2. c \in mSectorList[info[c].cur]
              BY <3>1, <7>1, StayersListed
            <7>3. c # d
              BY <1>9, <3>1 DEF ViewShape
            <7> QED
              BY <3>1, <5>1, <5>2, <7>2, <7>3 DEF Open, Staying
          <6>2. info[c].cur # s
            BY <3>3, <5>1, <5>2, <6>1
          <6>3. /\ thread'[t].pc = "tell" /\ thread'[t].who = a
                /\ info[c].cur \in thread'[t].todo
            BY <1>3, <5>1, <5>2, <6>2
          <6> QED
            BY <3>1, <5>1, <5>2, <6>3 DEF ToBeTold, At, Who
        <5>3. CASE u # t
          <6>1. thread'[u] = thread[u]
            BY <1>3, <5>3, Roles DEF Only
          <6> QED
            BY <3>1, <5>1, <6>1 DEF ToBeTold, At, Who
        <5> QED
          BY <5>2, <5>3
      <4> QED
        BY <3>1, <4>2, <4>3 DEF PInv, ActionInv
    <3> QED
      BY <3>2, <3>3
  <2> QED
    BY <2>1 DEF ActionInv
<1> QED
  BY <1>13, <1>14, <1>15, <1>16, <1>17, <1>18 DEF PInv

\* A frame finds a moving character in another sector.
LEMMA FrameMovesPaints ==
  ASSUME IInv, IInv', PInv, NEW s \in Sectors, FrameMoves(s)
  PROVE  PInv'
<1> DEFINE t == Updater
           a == Who(t)
<1>1. /\ t \in Threads
      /\ thread \in [Threads -> ThreadType] /\ thread' \in [Threads -> ThreadType]
  BY Roles DEF IInv, ThreadInv
<1>2. /\ thread[t].pc = "frameLock" /\ info[a].action = Moving /\ s # info[a].cur
      /\ CharacterFree(a)
      /\ info' = [info EXCEPT ![a].old = info[a].cur, ![a].cur = s]
      /\ UNCHANGED <<phase, view, mCharacterList>>
  BY DEF FrameMoves, LockCharacter, At
<1>3. /\ Only(t) /\ SameWho(t) /\ thread'[t].pc = "frameRemove" /\ thread'[t].who = a
      /\ thread'[t].rest = thread[t].rest
  BY <1>1 DEF FrameMoves, Goto, Only, SameWho, ThreadType, Who
<1>4. a \in Characters /\ a \in mCharacterList /\ mCharacterList \subseteq Characters
  BY <1>2 DEF IInv, TypeOK, FoundInv, FrameLocs
<1>5. /\ \A d \in Characters : d # a => info'[d] = info[d]
      /\ \A d \in Characters : info'[d].action = info[d].action
      /\ info'[a].old = info[a].cur /\ info'[a].cur = s
  BY <1>2, <1>4 DEF IInv, TypeOK
<1>6. \A u \in Threads : ~Changing(u)
  <2>1. ~Changing(t)
    BY <1>2 DEF Changing, JoinLocs, MoveLocs
  <2>2. \A u \in Threads : thread[u].pc \in WriterLocs => u = t
    BY <1>1, <1>2, WriterAlone DEF ReaderLocs, FrameLocs
  <2>3. \A u \in Threads : Changing(u) => u = t
    <3>1. \A u \in Threads : Changing(u) /\ u # t => thread[u].pc \in JoinLocs
      BY OneChanging, Roles
    <3> QED
      BY <2>2, <3>1 DEF JoinLocs, WriterLocs
  <2> QED
    BY <2>1, <2>3
<1>7. Changing(t)' /\ \A u \in Threads : Changing(u)' => u = t
  BY <1>3, <1>6 DEF Only, Changing, MoveLocs
<1>8. Calls
  BY <1>2 DEF Calls
<1>9. \A c \in Characters : DOMAIN view[c] \subseteq Characters
  BY DEF PInv, ViewInv, ViewShape
<1>10. \A c \in Characters : Staying(c)' => Staying(c) /\ c # a
  BY <1>2, <1>5 DEF Staying, Stayed, HasSession
<1>11. ViewInv'
  <2>1. ViewShape'
    BY <1>2 DEF PInv, ViewInv, ViewShape
  <2> QED
    BY <1>1, <1>2, <1>3, <2>1, Roles, ViewFrame DEF PInv, Only, Shows
<1>12. SessionInv'
  BY <1>1, <1>2, <1>3, <1>5, <1>8, SessionFrame DEF IInv, PInv, LeaveLocs
<1>13. TurnInv'
  <2>1. Visits(t)'
    BY <1>3 DEF Visits, At, ReadingLocs
  <2>2. Tells(t)'
    BY <1>2, <1>3, <1>4, <1>5 DEF Tells, At, Who, Stayed
  <2>3. \A u \in Threads \ {t} :
          Changing(u) \/ At(u, "tell") => info'[Who(u)] = info[Who(u)]
    <3>1. \A u \in Threads : At(u, "tell") => Who(u) \in Characters
      BY DEF IInv, ThreadInv, WellPlaced, At, Who
    <3>2. \A u \in Threads : At(u, "tell") => Who(u) # a
      BY <1>2, <1>4, Roles DEF IInv, CharacterInv, HasCharacter, CharacterFree, At
    <3> QED
      BY <1>5, <1>6, <3>1, <3>2
  <2> QED
    BY <1>1, <1>3, <2>1, <2>2, <2>3, TurnFrame DEF PInv
<1>14. PictureInv'
  <2> DEFINE here == Around(info[a].cur)
  <2>1. Who(t)' = a /\ Others(t)' = Others(t) /\ Others(t) \subseteq Characters \ {a}
    BY <1>2, <1>3, <1>4 DEF Who, Others
  <2>2. SeenFrom(t)' = here /\ SeesTo(t)' = here
    BY <1>3, <1>5, <2>1
    DEF SeenFrom, SeesTo, At, Who, Around, SectorAround, Sectors
  <2>3. thread'[t].rest = {}
    BY <1>1, <1>2, <1>3 DEF IInv, ReadingInv, ReadingLocs
  <2>4. \A c \in Others(t) : Settled(c, a) /\ Settled(a, c)
    BY <1>4, <1>6 DEF PInv, PictureInv, Others
  <2>5. \A c \in Others(t) : /\ info'[c].cur = info[c].cur
                             /\ Neighbours(c, a) <=> info[c].cur \in here
                             /\ Neighbours(a, c) <=> info[c].cur \in here
    BY <1>4, <1>5, <2>1, NeighboursAround DEF IInv
  <2>6. \A c, d : /\ Shows(c, d)' <=> Shows(c, d)
                  /\ HasSession(c)' <=> HasSession(c)
    BY <1>2 DEF Shows, HasSession
  <2> HIDE DEF here
  <2>7. Seen(t)'
    BY <2>1, <2>2, <2>4, <2>5, <2>6 DEF Seen, Settled
  <2>8. Sees(t)'
    BY <2>1, <2>2, <2>3, <2>4, <2>5, <2>6 DEF Sees, Settled
  <2>9. ASSUME NEW c \in mCharacterList, NEW d \in mCharacterList, c # d, a \notin {c, d}
        PROVE  Settled(c, d)'
    <3>1. Settled(c, d)
      BY <1>6, <2>9 DEF PInv, PictureInv
    <3>2. Neighbours(c, d)' <=> Neighbours(c, d)
      BY <1>4, <1>5, <2>9 DEF Neighbours
    <3> QED
      BY <2>6, <3>1, <3>2 DEF Settled
  <2> QED
    BY <1>1, <1>2, <1>7, <2>1, <2>7, <2>8, <2>9 DEF PictureInv
<1>15. GoneInv'
  <2>1. ASSUME NEW c \in Characters, Staying(c)',
               NEW d \in DOMAIN view'[c] \ mCharacterList'
        PROVE  Leaving(c, d)'
    <3>1. /\ Staying(c) /\ c # a /\ d # a
          /\ d \in Characters /\ d \in DOMAIN view[c] \ mCharacterList
      BY <1>2, <1>4, <1>9, <1>10, <2>1
    <3>2. Leaving(c, d)
      BY <3>1 DEF PInv, GoneInv
    <3> QED
      BY <1>1, <1>2, <1>3, <1>5, <3>1, <3>2, LeavingFrame
  <2> QED
    BY <2>1 DEF GoneInv
<1>16. ActionInv'
  <2>1. \A c, d \in Characters : c # a /\ ToBeTold(c, d) => ToBeTold(c, d)'
    BY <1>1, <1>2, <1>3, <1>5, ToBeToldFrame
  <2> QED
    BY <1>2, <1>5, <1>9, <1>10, <2>1, ActionFrame DEF PInv
<1> QED
  BY <1>11, <1>12, <1>13, <1>14, <1>15, <1>16 DEF PInv

\* It holds at first,
LEMMA InitPaints ==
  ASSUME Init
  PROVE  PInv
<1>1. \A t \in Threads : thread[t].pc = "idle"
  BY DEF Init, Idle
<1>2. view = [c \in Characters |-> <<>>] /\ mCharacterList = {}
  BY DEF Init
<1>3. \A c \in Characters : view[c] = <<>>
  BY <1>2
<1>4. ViewShape
  BY <1>2, <1>3, NothingShown DEF ViewShape
<1>5. ViewInv
  BY <1>1, <1>3, <1>4, Roles, NothingShown DEF ViewInv, Shows, At
<1>6. TurnInv
  BY <1>1 DEF TurnInv, Visits, Tells, At, MoveLocs, ReadingLocs
<1>7. SessionInv
  BY DEF Init, Engine!Init, SessionInv
<1>8. PictureInv
  BY <1>1, <1>2 DEF PictureInv, Changing, JoinLocs, MoveLocs
<1>9. GoneInv /\ ActionInv
  BY <1>2 DEF GoneInv, ActionInv, Staying
<1> QED
  BY <1>5, <1>6, <1>7, <1>8, <1>9 DEF PInv

\* and every step keeps it.
LEMMA NextPaints ==
  ASSUME ~RingMayFill, IInv, PInv, [Next]_vars
  PROVE  PInv'
<1>1. IInv'
  BY NextKeeps
<1>2. CASE Accept
  <2>1. ASSUME NEW c \in Characters, OnAccept(c)
        PROVE  PInv'
    BY <1>1, <2>1, OnAcceptPaints
  <2>2. CASE BeginSector(Acceptor, "meet", "meeting")
    BY <1>1, <2>2, BeginSectorPaints, Roles
  <2>3. CASE EndSector(Acceptor, "meet", "meeting")
    BY <1>1, <2>3, EndSectorPaints, Roles
  <2> QED
    BY <1>1, <1>2, <2>1, <2>2, <2>3, AcceptAddsPaints, AcceptAddsToSectorPaints,
       AnnouncePaints, MeetPaints, AcceptReturnsPaints DEF Accept
<1>3. ASSUME NEW t \in EngineThreads, Release(t)
      PROVE  PInv'
  <2>1. ASSUME NEW c \in Characters, OnRelease(t, c)
        PROVE  PInv'
    BY <1>1, <2>1, OnReleasePaints
  <2>2. ASSUME LeaveLocks(t)
        PROVE  PInv'
    BY <1>1, <2>2, LeaveLocksUnseen, UnseenPaints, Roles
  <2> QED
    BY <1>1, <1>3, <2>1, <2>2, LeaveRemovesPaints, LeaveWaitsPaints, LeaveTellsPaints
    DEF Release
<1>4. ASSUME NEW t \in Workers, Receive(t)
      PROVE  PInv'
  <2>1. CASE \/ \E c \in Characters, packet \in Packets : OnRecv(t, c, packet)
             \/ Finds(t) \/ Stamps(t) \/ Attacks(t) \/ SearchFinds(t) \/ SearchFindsNone(t)
             \/ FindsVictim(t) \/ LocksVictim(t) \/ Damages(t)
    <3>1. Unseen(t)
      BY <1>1, <2>1, HandlerUnseen
    <3> QED
      BY <3>1, UnseenPaints, Roles
  <2> QED
    BY <1>1, <1>4, <2>1, MovesPaints, MoveTellsPaints DEF Receive
<1>5. CASE Update
  <2>1. CASE \/ FrameStarts \/ FrameEnds \/ FrameLeaves
             \/ \E c \in Characters : FrameTakes(c)
    <3>1. Unseen(Updater)
      BY <1>1, <2>1, FrameUnseen
    <3> QED
      BY <3>1, UnseenPaints, Roles
  <2>2. ASSUME NEW s \in Sectors, FrameMoves(s)
        PROVE  PInv'
    BY <1>1, <2>2, FrameMovesPaints
  <2>3. ASSUME NEW d \in Characters, FrameMeets(d)
        PROVE  PInv'
    BY <1>1, <2>3, FrameMeetsPaints
  <2>4. CASE BeginSector(Updater, "frameMeet", "frameMeeting")
    BY <1>1, <2>4, BeginSectorPaints, Roles
  <2>5. CASE EndSector(Updater, "frameMeet", "frameMeeting")
    BY <1>1, <2>5, EndSectorPaints, Roles
  <2> QED
    BY <1>1, <1>5, <2>1, <2>2, <2>3, <2>4, <2>5, FrameRemovesPaints, FrameAddsPaints,
       FrameHidesPaints, FrameForgetsPaints, FrameShowsPaints, FrameNextLoopPaints,
       FrameTellsMotionPaints, FrameLetsGoPaints DEF Update
<1>6. CASE UNCHANGED vars
  <2>1. UNCHANGED <<phase, thread, mCharacterList, info, view>>
    BY <1>6 DEF vars, world
  <2>2. ViewInv' /\ SessionInv'
    <3>1. ViewShape'
      BY <2>1 DEF PInv, ViewInv, ViewShape
    <3>2. ViewInv'
      BY <2>1, <3>1 DEF PInv, ViewInv, Shows, At, Who
    <3>3. SessionInv'
      BY <2>1 DEF PInv, SessionInv, Who
    <3> QED
      BY <3>2, <3>3
  <2>3. TurnInv'
    <3>1. ASSUME NEW t \in Threads
          PROVE  Visits(t)' /\ Tells(t)'
      <4>1. Visits(t) /\ Tells(t)
        BY DEF PInv, TurnInv
      <4>2. Visits(t)'
        BY <2>1, <4>1
        DEF Visits, At, Who, Around, SectorAround, AddSectors, RemoveSectors, Sectors
      <4> QED
        BY <2>1, <4>1, <4>2 DEF Tells, Stayed, At, Who
    <3> QED
      BY <3>1 DEF TurnInv
  <2>4. PictureInv'
    <3>1. \A t : SeenFrom(t)' = SeenFrom(t) /\ SeesTo(t)' = SeesTo(t)
      BY <2>1, SameFrom DEF Who
    <3> QED
      BY <2>1, <3>1
      DEF PInv, PictureInv, Changing, Seen, Sees, Settled, Others, Shows, HasSession,
          Neighbours, Who
  <2>5. GoneInv' /\ ActionInv'
    BY <2>1
    DEF PInv, GoneInv, ActionInv, Staying, Stayed, HasSession, Leaving, ToBeTold, At, Who,
        Neighbours
  <2> QED
    BY <2>2, <2>3, <2>4, <2>5 DEF PInv
<1> QED
  BY <1>2, <1>3, <1>4, <1>5, <1>6 DEF Next

\* What holds of what clients show, where no send ring is full, holds in every state.
THEOREM PictureInvariant ==
  ASSUME ~RingMayFill
  PROVE  Spec => [](IInv /\ PInv)
<1>1. Init => IInv /\ PInv
  BY InitHolds, InitPaints
<1>2. IInv /\ PInv /\ [Next]_vars => (IInv /\ PInv)'
  BY NextKeeps, NextPaints
<1> QED
  BY <1>1, <1>2, PTL DEF Spec

\* Between handlers and frames the session of a character in the container is open.
LEMMA QuietSessions ==
  ASSUME IInv, PInv, Quiet
  PROVE  /\ \A t \in Threads : ~Changing(t)
         /\ \A c \in mCharacterList : c \in Characters /\ HasSession(c)
         /\ \A c, d : ~Leaving(c, d) /\ ~ToBeTold(c, d)
<1>1. \A t \in Threads : thread[t].pc = "idle"
  BY DEF Quiet, At
<1>2. \A c \in Characters : phase[c] # "releasing"
  BY <1>1, Roles DEF PInv, SessionInv, LeaveLocs
<1>3. \A c \in mCharacterList : c \in Characters /\ phase[c] # "released"
  BY DEF IInv, TypeOK, MemberInv
<1> QED
  BY <1>1, <1>2, <1>3, Roles
  DEF Changing, JoinLocs, MoveLocs, HasSession, Leaving, ToBeTold, At

\* Where no send ring is full, a client shows exactly the characters around its own
\* whenever no handler and no frame is under way, however OnAccept, OnRelease and frames
\* overlapped before (MmoTcpFighterServer.cpp:124-165, 289, 396-543).
THEOREM NeighboursAreShown ==
  ASSUME ~RingMayFill
  PROVE  Spec => []NeighboursShown
<1>1. IInv /\ PInv => NeighboursShown
  <2> SUFFICES ASSUME IInv, PInv, Quiet, NEW c \in mCharacterList, NEW d \in mCharacterList,
                      c # d
               PROVE  d \in DOMAIN view[c] <=> Neighbours(c, d)
    BY DEF NeighboursShown
  <2>1. Settled(c, d) /\ HasSession(c)
    BY QuietSessions DEF PInv, PictureInv
  <2> QED
    BY <2>1 DEF Settled, Shows
<1> QED
  BY <1>1, PictureInvariant, PTL

\* And a client that has stayed in its sector shows them doing what they do, and nobody
\* that left the game (MmoTcpFighterServer.cpp:142-165, 396-543, 785-885).
THEOREM PicturesOfStayers ==
  ASSUME ~RingMayFill
  PROVE  Spec => []StayersPictureExact
<1>1. IInv /\ PInv => StayersPictureExact
  <2> SUFFICES ASSUME IInv, PInv, Quiet, NEW c \in mCharacterList, Stayed(c)
               PROVE  view[c] = [d \in {e \in mCharacterList \ {c} : Neighbours(c, e)}
                                   |-> info[d].action]
    BY DEF StayersPictureExact
  <2>1. /\ c \in Characters /\ Staying(c) /\ HasSession(c)
        /\ \A d : ~Leaving(c, d) /\ ~ToBeTold(c, d)
        /\ \A t \in Threads : ~Changing(t)
    BY QuietSessions DEF Staying
  <2>2. /\ view[c] = [d \in DOMAIN view[c] |-> view[c][d]]
        /\ DOMAIN view[c] \subseteq Characters \ {c}
    BY <2>1 DEF PInv, ViewInv, ViewShape
  <2>3. DOMAIN view[c] \subseteq mCharacterList
    BY <2>1 DEF PInv, GoneInv
  <2>4. \A d \in mCharacterList : c # d => (d \in DOMAIN view[c] <=> Neighbours(c, d))
    BY <2>1 DEF PInv, PictureInv, Settled, Shows
  <2>5. \A d \in DOMAIN view[c] : view[c][d] = info[d].action
    BY <2>1, <2>3 DEF PInv, ActionInv
  <2>6. DOMAIN view[c] = {e \in mCharacterList \ {c} : Neighbours(c, e)}
    BY <2>2, <2>3, <2>4
  <2> QED
    BY <2>2, <2>5, <2>6
<1> QED
  BY <1>1, PictureInvariant, PTL
=============================================================================
