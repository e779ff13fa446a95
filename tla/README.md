# MMO TCP fighter: verification of the server and its IOCP network library

TLA+ models of the server under `src/Network Library`, the TLC configurations
that check them and proofs of their main theorems for TLAPS. Every definition
that models code is listed with its source lines in `PROJECT.json` ("map").
File names below are those of `src/Network Library`; `Engine` stands for
`AsyncNetworkServerEngine.cpp` and `Server` for `MmoTcpFighterServer.cpp`.

## 1. The system

```
            accept thread        IOCP workers            UpdateThread (25 frames/s)
                 |                    |                        |
          OnAccept|      OnRecv, OnRelease|                    | Disconnect, SendPacket
                 v                    v                        v
   +------------------------- MmoTcpFighterServer ---------------------------+
   |  character container (1 SRW lock)   characters (1 lock each)            |
   |  sector grid (1 lock per sector)                                        |
   +------------------------------- SendPacket ------------------------------+
                                      v
   +---------------------- AsyncNetworkServerEngine -------------------------+
   |  session map (1 lock)   sessions: lock, overlappedIOCnt, bWaitSend,     |
   |                         send ring, receive ring, two copies of the socket|
   +----------------- WSASend / WSARecv / completion port -------------------+
```

| Component | State | Operations | Interacts by |
|---|---|---|---|
| Network engine (`Engine`) | session map and its lock; per session: a lock, the counter `overlappedIOCnt`, the flag `bWaitSend`, two ring buffers, two copies of the socket, two OVERLAPPEDs | AcceptThread, IOCPWorkerThread, PostRecv, PostSend, PostSendForSendPacket, SendPacket, Disconnect, ReleaseSession, start-up and shutdown | callbacks of ISessionEventHandler; completions of Winsock; calls from any thread |
| Ring buffer (`RingBuffer.cpp`) | internal buffer, front, rear, capacity | Enqueue, Dequeue, Peek, MoveRear, MoveFront, four sizes | one thread stores the rear, another the front, without a lock |
| Serialization buffer | linear buffer with front and rear | `<<`, `>>`, Enqueue, Dequeue, Move* | owned by one thread |
| Character container | map from session to character, its lock, the counter of ids | Add, Erase, Find, InitCharacterInfo | accept thread, workers, UpdateThread |
| Sector grid | the characters on each sector, a lock per sector | Sector_Add, Remove, UpdateCharacter; GetSectorAround, GetUpdateSectorAround | handlers and UpdateThread |
| Game server (`Server`) | nothing of its own but the two managers | OnAccept, OnRecv, OnRelease, UpdateThread, a handler per message, broadcasts, collision search | all of the above |
| Packet builders, protocol | none | field by field into a serialization buffer | handlers |
| Log, `main.cpp` | none that the program reads back | output | - |

### What is hard in it, and what makes it correct

* **Engine.** Sessions are kept alive by a counter that the accept thread, two
  completions, and any number of SendPacket calls raise and lower; whoever
  lowers it to zero deletes the session. SendPacket raises it without holding
  a reference and stores 0 when it finds it was zero. *Correct* if the counter
  is exactly the number of references, a session is deleted once and by
  nobody who is followed by another user, operations never run on a socket
  handle that was closed and reused, one thread at a time works on the send
  side, callbacks of a session come in the order OnAccept, OnRecv*, OnRelease,
  locks form no cycle, and a session whose peer is gone is deleted.
* **Rings.** The two sides meet in two integers. *Correct* if what the network
  reads was published, what is written is free, and the peer's stream is the
  sequence of accepted packets; on the receive side, if OnRecv gets whole
  packets in order, none is held back, and a receive is never posted with no room.
* **Sectors and views.** A client learns of the others by CREATE, DELETE,
  MOVE_START and MOVE_STOP sent to neighbourhoods that change while characters
  move. *Correct* if each client's picture is exactly its neighbourhood.
* **Game server under concurrency.** Container, character and sector locks are
  taken in nested orders by four kinds of threads. *Correct* if no cycle of
  waits exists, a deleted character is not used, and the picture of the item
  above is reached again after overlapping handlers.
* **Attacks, hp, time.** The victim is looked for on at most four lists; hp is a
  signed char; the clock is a DWORD a frame reads once. *Correct* if nobody in
  range is missed, and the dead and the silent, and nobody else, are cut.
* **Packets.** A handler builds several packets in one buffer, and one buffer of a
  worker receives those of all sessions. *Correct* if what is sent is one packet
  as the protocol header lays it out, and a handler reads its own packet.

`PROJECT.json` lists the hazards, each at its line, with the properties that
would catch it; those without one say why.

## 2. The modules

| Module | What it is |
|---|---|
| `SessionContract` | abstract: the order of callbacks that ISessionEventHandler is promised |
| `SessionEngine` | the engine, one action per shared access |
| `SessionEngineInvariant` | its inductive invariants `IInv`, `WholeInv` and `KeptInv`, in named parts |
| `SessionEngineProofs` | the proofs: references and the send token, then locks, handles, queued data, callbacks, and the token that is not lost |
| `MCSessionEngine` | symmetry for TLC |
| `RingIndices` | the index arithmetic of RingBuffer, used by all ring models |
| `RingIndexTheorems` | what index arithmetic and copies guarantee, for every capacity (proved) |
| `RingBuffer` | its contents: memcpy in one or two parts |
| `ByteStream` | abstract: a bounded FIFO queue of numbered bytes |
| `SendRing`, `SendRingProofs` | the send ring between SendPacket and the sender; its proofs |
| `RecvRing`, `RecvRingProofs` | the receive ring, and the loop that cuts the stream into packets; its proofs |
| `SectorGrid` | positions, sectors, neighbourhoods |
| `FighterViews` | what each client is told, handlers one at a time |
| `AttackRange`, `MCAttackRange`, `AttackRangeProofs` | FighterViews with attacks: whom they hit; the proofs of both |
| `FighterWorld`, `MCFighterWorld` | the game server with its handlers interleaved, over `SessionContract` |
| `FighterWorldInvariant`, `FighterWorldProofs` | its inductive invariants, and the proofs |
| `Vitality` | hp, the clock, and whom UpdateThread cuts; its proof is at the end of `AttackRangeProofs` |
| `LinearQueue` | abstract: what a serialization buffer promises |
| `SerializationBuffer` | the class as operators on a record |
| `SerializationQueue`, `SerializationQueueProofs` | one buffer under every sequence of calls; its proofs |
| `FighterProtocol` | packets as the header lays them out and as the builders write them |
| `PacketBuffers`, `PacketBuffersProofs` | the buffers of a thread, handler by handler; its proofs |

### SessionEngine

`at[t]` and `cur[t]` are the program counter of a thread in AcceptThread or
IOCPWorkerThread and its `ptrSession`; `call[t]` and `target[t]` are those of a
SendPacket or Disconnect it is in, which a callback or UpdateThread may start
at any time. The members of `struct Session` keep their names. One action is
one Interlocked operation, lock operation, index load or store, Winsock call or
completion; steps on what a thread owns are merged with the next one.
Locations correspond to lines:

| Locations | Code |
|---|---|
| `accept`, `created`, `onAccept` | AcceptThread 436-474, CreateSession 637-647 |
| `wait`, `parse`, `onRecv`, `fin` | the loop of IOCPWorkerThread 359-433 |
| `moveFront`, `clearWait`, `loadRear`, `loadFront` | a send completion, 412-425 |
| `postRecv`, `recvCall` | PostRecv 476-511 |
| `token`, `peek`, `giveUp`, `prepare`, `sendCall` | PostSend 513-573 |
| `sendLookup` ... `sendPost`, `unlock` | SendPacket 683-719, PostSendForSendPacket 575-635 |
| `discLookup` ... `discCancel` | Disconnect 721-741 |
| `relClose` ... `relDelete` | ReleaseSession 649-660 |

A packet is two units of a ring here (header and payload, which SendPacket
enqueues apart); bytes are the ring modules' matter. Winsock and the completion
port are external: a handle belongs to the session whose socket is open under
it, `closesocket` frees the handle and `accept` may return it again; an
operation on a handle of nobody fails; CancelIoEx aborts what is pending on the
handle *at that moment*; completions of one session may be taken by different
workers in any order. A WSARecv may fail on a connection that stays open
(WSAENOBUFS, Engine 497-509), in every run; `SendsMayFail` lets a WSASend fail so,
and the theorems hold for both values but where they say so.

### The rings

`SendRing` interleaves SendPacket (one look at the free size, two Enqueues,
each a memcpy or two and a store of the rear) with the holder of `bWaitSend`
(three loads of the rear, the network's read at any later time, the store of the
front). Its bytes are numbered, so a stale or torn byte shows. `RecvRing` needs
no interleaving: SessionEngine shows that one receive per session is pending or
handled at a time. Its bytes say which byte of which packet they are, and the
network hands them over in pieces of any size. It assumes, as `RecvSizes`
states, that a peer's packets fit into the ring (4096 bytes; the protocol's
packets have less than twenty). `Capacity` is that of recvPacket, 2048 bytes, and
may be less than the ring's: Engine 404 writes a longer payload past the end of
the heap block, MoveRear (405) refuses its size, and OnRecv (407) is called with an
empty packet. What the overrun does is undefined, so the model ends with that
OnRecv (`HeapIntact`).

### FighterViews

Each handler, and each character's part of a frame, is one step. State:
the container, each CharacterInfo (position, action, `curPos`, `oldPos`), the
list of each sector, and per client the function from characters it shows to
the motion it shows them in. A client may report positions within the error
range, so a character can be several sectors from its `curPos` when the next
frame finds it, or past the end of the grid. ConvertWorldPosToSectorPos takes the
WORD of a position as a short: from `ShortEnd`, 2^15, on a sector is negative, the
test at sector.cpp:73 looks at the upper ends only, and the arrays of lists and
locks are indexed outside. That is undefined, so the model ends with the frame
that does it (`OnGrid`). A report is measured against the last position, so a
client gets there by many of them; the `ErrorRange` of the instance makes it a few.
This module says what the sector scheme achieves until then; FighterWorld is measured
by it.

### AttackRange

SearchCollisionOnSectors (Server 547-761) as operators on a state of
FighterViews, extended by the report an attack makes: the tests for one
character, the victim on one list, the rows and columns, the order in which
they are searched. A property asks what each attack that could come now would
do. The far corner of the range (Server 588: exactly the range in both
directions) is left out by name, since nothing says whether it belongs to it.

### FighterWorld

Every thread that runs game code: the accept thread in OnAccept, workers in
OnRecv and OnRelease, UpdateThread. A step ends where its thread waits for a
lock, so handlers interleave at every lock. `containerLock` is
mCharacterListSrwLock, `characterLock[c]` the lock in CharacterInfo, and a
sector's lock is held by the threads whose `sector` it is; the engine's promise
is `SessionContract`, whose actions are conjuncts of the handlers' first and last
steps.

* SendPacket and Disconnect are steps of nothing else: they wait for no lock of
  the game, and `NobodyWaitsForCallback` of the engine shows that they wait for no
  thread that could be inside OnRelease, the one callback under a session's lock.
* One visit of a broadcast to a sector is a step: it reads the list under
  the sector's lock and tells each client on it about one character, and a client
  is on one list only. Where other characters are read during a visit (OnAccept
  413-440, SendPacketBySectorUpdate 511-545), each is a step of its own.
* A shared SRW lock is granted whenever no writer has it. Windows may make a
  reader wait behind a waiting writer, so `WaitsFor` counts that wait too, and
  `NoLockCycle` covers both ways.
* A position is the sector it is in. A frame finds a moving character in any
  sector, because its client moves it too (FighterViews says how far). Sectors
  outside the grid are left to FighterViews.
* `RingMayFill` lets a SendPacket fail because the send ring is full.

### Vitality

The clock, `lastRecvTime`, `hp` and the frame that takes its endTime and then
visits one character after the other. `age` is what the clock should have said:
the time since a client was last heard of. Disconnect is taken to work; section 5
says when it does not.

### Packets

`SerializationBuffer` keeps the cells and the integers of the class; a value is
the sequence of its bytes, so the overloads of `<<` are one operator. In
`FighterProtocol` and `PacketBuffers` a value has a name and byte k of it is the
pair of name and k, so a field that is dropped, swapped, doubled or cut shows
without any arithmetic. A handler is the list of its calls on buffers, one call
a step; its variables stand for what it read. A client's packet is as long as
its type demands: what a handler computes from a shorter one is read from
variables nobody wrote (Server 788-793 do not look whether `>>` found enough).

## 3. The runs

| Run | Instance | Question and answer |
|---|---|---|
| `session_races` | 1 session, accept thread, 2 workers, UpdateThread, 3 calls, ring of 4 units, receives may fail | Does any interleaving break the counter, the send token, the in-flight data, the handle, or the callback order? No. |
| `two_sessions` | 2 sessions, 2 handles, 2 workers, calls across sessions, 2 calls, sends and receives may fail | Do the map lock and the session locks form a cycle; does anybody wait for a session inside OnRelease? No. |
| `session_liveness` | 1 session, 2 workers, fair threads, 2 calls, 2 arrivals | Is a session whose peer left deleted, does every call return? Yes. |
| `lost_wakeup` | 1 session, 2 workers, 3 calls | Does queued data always have a sender? **No**, see section 5. |
| `disconnect_missed` | 1 session, 1 worker, 1 Disconnect | Is a disconnected session deleted? **No.** |
| `send_ring` | ring of 5 bytes, headers of 2 | Does the peer get the accepted bytes, once and in order? Yes. |
| `recv_ring` | ring of 5 bytes, packets of 2 to 5, 2 of them header; recvPacket of 2 | Whole packets, in order, none held back? Yes, but for an empty packet that is last and for a payload that recvPacket does not hold. |
| `views` | 2 characters, 4 x 2 sectors, attacks, reports beyond the grid and past the shorts | Does anything but a report past the shorts take a character off the grid? No. Until then, does each client show exactly its neighbourhood, does an attack find who is in range and tell the attacker? Yes, if the sectors fit the positions. |
| `world` | 2 characters, 2 workers, 3 x 1 sectors, 3 packets | Interleaved at every lock: a cycle of waits, a deleted character in use, a FindCharacter that finds nothing, a list that is wrong, a neighbour not shown? No. The exact picture? Yes, for a client that stays in its sector. |
| `vitality` | 2 characters, clock of 8 ticks, 2 hits | Are the dead and the silent cut, and nobody else? Yes, until clock and hp wrap. |
| `linear_queue` | 5 bytes, values of 1, 2 and 4 | Is the buffer the queue its header promises? Yes. |
| `packet_buffers` | buffers of 12 bytes, 2 others, 2 met | Is each packet sent as laid out, and read by its own handler? Yes. |

**Bounds.** `MaxCalls` bounds SendPacket and Disconnect calls, `MaxArrivals` the
units a peer sends; both only limit how often the same code runs again. Three
calls are enough for one SendPacket to fill the ring, one to race with its
completion and a Disconnect beside them; two workers are enough for a receive
and a send completion of one session to overlap, which is all a session can
have outstanding besides the posts of failed sends. The rings of 3 and 4 units
and of 5 bytes wrap within two packets and are full after two; `Numbers` exceeds
the capacity, so two bytes in the ring never have the same number, and `Packets`
exceeds the packets that ring and network hold besides. In `views`, four sectors
in a row are the least that have sectors out of sight of each other with a sector
between views, two rows make the border cases of both axes; a speed of one sector
makes every frame change the sector, a client's report may cross one more, and
`ClientX` holds a position beyond the grid and, with a `ShortEnd` of 15, one whose
sector is negative and one whose sector is 0 although it is past the shorts; the range crosses a border in both
axes and fits into a sector, as `RangesFitSectors` takes from the settings. In
`world`, three sectors in a row have a pair out of sight of each other; a
character is accepted once; three packets let one client start, stop and attack
while the other one acts, and two workers run a handler and a release, or two
handlers, beside the accept thread and a frame: all four kinds of threads meet.
In `vitality`, the timeout is 2 of 8 ticks and `CharRange` 16: what counts is that
the clock passes the timeout several times, that damage takes hp below zero, and
(`MaxHits`) that it does not wrap there. In `packet_buffers` 12 bytes are the
longest packet; the code's buffers hold 2048, so a packet that is not cleared
away is dropped or doubled in the model sooner than in the code.

Deadlock is not checked where the instance really stops or may stop: `recv_ring`
and `views` (where the code's behaviour is undefined from then on), `world`
(every character was accepted and released and the packets are used up),
`vitality` (the clock is at its end) and `linear_queue`. That no threads wait for
each other in `world` is `NoLockCycle`, over the graph of waits.

**Symmetry** is used in the safety runs only.

**Fairness** (`FairSpec`). Weak fairness for every step a thread has begun, for
workers taking completions, and for the kernel completing a posted send, and a
posted receive once its connection is closed, reset or cancelled: threads of
the process are scheduled, callbacks return (they contain no wait but for the
locks), SRW locks are handed on, and Winsock completes what it accepted.
Nothing obliges a client to connect, send or leave, or the content to call the
engine, and no fairness is strong. `StartStep`, the choice to make a call, has none.
In `Vitality` the clock, the start of frames and the visits are weakly fair:
UpdateThread loops for as long as the server runs, and no frame waits for a
client. FighterWorld has no liveness: SRW locks are not fair, so a thread that
waits for one while others come and go need not get it.

Every property has a mutant, in `PROJECT.json` "mutants": the operators called
"Mutant" in the modules are plausible bugs of the line they replace, and each
makes TLC find its property violated.

## 4. The proofs

For every number of sessions, handles, workers and callers and every ring
size (assumptions `ThreadsAssumption`, `ValuesAssumption`, `SizesAssumption`:
threads are finite in number and distinct, the null values are no sessions or
handles, a ring has at least two usable units, as CapacityOf gives it),
`SessionEngineProofs` proves of `Spec`:

* `TypeCorrect`, `RefCountCorrect` ([]RefCountExact), `NoZeroRef`,
  `NoDanglingSession` ([]NoUseAfterFree), `SendTokenSafe`.

RefCountExact is not inductive. That a reference is held where the count says
so needs to know where threads have a session at all (`LocInv`), that a receive
is in one place only (`ReceiverInv`), that bWaitSend separates the senders
(`SendTokenExclusive`), who holds the locks, because SendPacket keeps a
session from being deleted by its session lock rather than by a reference
(`LockInv`), that nothing refers to what is not live (`LifeInv`), that a
session being released has one releaser and at most the increment that
SendPacket takes back (`ReleaseInv`), and that a session without any
reference is one of these (`HeldInv`). The store of 0 at Engine 584 is harmless
for exactly that reason: only the session lock holder can have raised the
counter from zero. `IInv` is the conjunction. There are over forty actions, but
few ways in which they touch what is counted: the module first shows that every
step has one of a few effects, and then that each conjunct is preserved by every
effect. Cardinalities of reference sets change by one at most; the lemmas say
when.

Its second half proves, from the same assumptions, what needs to know more
than who is counted. The invariant `WholeInv` adds to `IInv`

* `OwnerInv`: who holds a session's lock is in a call between taking it and giving it
  back, or in OnRelease of that session;
* `SocketInv`: a live session has its socket open until its releaser has closed it,
  and a handle that a post has loaded is its session's;
* `QueueInv`: what a send covers is queued and not nothing, from the load of the
  indices to the completion.

`WholeInvariance` is []WholeInv, and from it follow

* `NoDeadlockOfLocks` ([]NoLockCycle): who waits for a session's lock has the map
  lock, so the session is in the map still; its holder is in SendPacket or
  Disconnect then, past the lookup, and wants the map lock no more;
* `OnReleaseHoldsNobodyUp` ([]NobodyWaitsForCallback): a session in OnRelease is not in
  the map, and who found it before has got its lock and returned it;
* `NoStaleHandle` ([]HandleStillOpen), `SendsQueuedData` ([]InFlightIsQueued) and
  `NothingStartsOnReleased` ([]NoOperationAfterLastRef);
* `EngineKeepsContract` (KeepsContract): the engine implements `SessionContract`. A
  session's phase is a function of where threads stand with it, every step but the
  callbacks' first and last leaves all phases alone, and those change one phase as
  the contract allows.

`SendTokenIsNotLost` is SendTokenNotLost for any number of sessions. The property
itself leaves out a session that is disconnected, left by its peer, or being
released: a call that takes its increment back (Engine 584) leaves the flag set on
a session in ReleaseSession, whose connection may still be up if a failed WSARecv
(497-509) took the last reference. The theorem has two premises, the two events after
which any other session can sit with bWaitSend set and nobody to clear it: a
WSASend that fails on a healthy connection (`SendsMayFail` is FALSE), and a CancelIoEx
on a handle that another session has by then (`[]CancelsOwn`). Section 5 has both.
The invariant `KeptInv` shows that what else leaves the flag set happens to the
sessions left out: who finds the counter at zero finds a releaser (`HeldInv` of
`IInv`), a releaser stays until the session is deleted (`ReleaserStays`), and who
holds an invalid handle or cancels does so on a session that is `Gone`, disconnected
or left by its peer (`LoadedInv`). `LoneSessionKeepsToken` has no premise about
CancelIoEx, since with one session nobody else has its handle; `session_races` is an
instance of it.

`RingIndexTheorems` proves the index arithmetic for every capacity, and what
Enqueue, Peek and MoveFront do to the bytes between front and rear: a copy in two
parts is the copy of one run, it touches nothing that is queued, and what it
leaves behind the rear is appended when the rear is stored.
`SendRingProofs` proves, for every ring and header size,

* `HeaderNeverAlone` ([]AcceptedPacketFits): no Enqueue of an accepted packet is
  refused;
* `SenderSeesPublished` ([]SendsOnlyPublished): the WSASend covers published
  bytes only. The strengthening `LoadsHold` remembers what each load implies: if
  the sender saw the rear below the front, the rear is there still, so the
  second part ends where the queue does;
* `SendRingTypes` ([]TypeOK, which no run repeats) and `SendRingIsStream`
  (Spec => IsByteStream): the ring and the network together are a bounded FIFO queue
  of bytes. The invariant `BytesInv` adds that the bytes Enqueue has copied lie behind
  the rear before it is stored (`CopiedAhead`), and that what WSASend covers is the
  oldest bytes queued and stays it while SendPacket appends (`ReadsOldest`).

`RecvRingProofs` proves, for every size of ring, header and longest packet with which
the ring holds a packet (`RecvSizes`), and for every size of recvPacket, up to and
with the first payload it does not hold,

* `StreamStaysIntact` ([]StreamIntact), `PacketsArriveWhole` ([]WholePacketsInOrder),
  `WorkerHoldsNothingBack` ([]NothingHeldBack) and `ReceiveHasRoom` ([]RoomToReceive).

The four are proved together (`RecvInvariant`), for they need each other: that a
header peeked is that of the packet owed first (`FirstPacket`) is `StreamIntact`, and
that there is room for a byte when a receive is posted follows from what the loop
left in the ring. `ReceiveHolds` adds that a posted receive has the free space of the
ring as it still is, and that what has arrived fits into it. `StreamIntact` says by
`EndsOf`, the position at which each packet ends, what the bytes of ring and network
are, so a packet that is sent (`StreamAppended`), one that is taken (`StreamTaken`)
and bytes that move from the network to the ring are equations between pieces of
sequences. That `EndsOf` is what its recursion says needs an induction. `UpTo` does
it for a set instead of a predicate: a set of numbers with 0 and, below n, with the
successor of each member has n too, or the successor would map it injectively into
a smaller set.

`SerializationQueueProofs` proves, for every capacity and all sizes of values,

* `BufferTypeCorrect` ([]TypeOK): the indices and sizes agree and stay in the
  buffer. With the sizes in agreement `TypeOK` is inductive;
* `BufferIsLinearQueue` (Spec => ImplementsLinearQueue): each call of the class
  is a step of `LinearQueue` or none. What is queued is the sequence of cells from
  front to rear, so the proof has a lemma per effect on it: bytes stored behind
  the rear do not touch it, MoveRear appends them, MoveFront drops what `>>` read,
  and what is refused changes nothing. The theorem needs that a caller of
  GetRearBufferPtr keeps to the free space, which is the guard of `WriteBehindRear`.

`AttackRangeProofs` proves of `SpecWithAttacks`, for every grid whose world fits the
shorts (`GridSizes`), any characters and any positions clients may report,

* `ViewsTypeCorrect` ([]TypeOK) and `OnlyPastShortLeavesGrid`
  ([]OffGridOnlyPastShort): positions stay WORDs, and the first character on a
  sector outside the grid was reported past the shorts. `ReportsInShortKeepGrid`:
  if no client reports such a position, nobody leaves the grid;
* `ViewsAreExact` ([]ViewsExact): as long as nobody has left it, what clients are
  told adds up to the characters around their own. `ViewsExact` says nothing of
  the sector lists, from which each broadcast takes its receivers; the invariant
  `IInv` adds `ListsFit`, that a list holds the characters whose curPos is its
  sector. Two lemmas carry the proof. `ReachesAround` (`ReachesUpdated` for a
  sector change): in lists that fit, a broadcast reaches those whose sector is a
  neighbour of the sender's. `ToldPicture`: a view that shows the set S, told of
  some that go and some that are shown, shows (S \ gone) \cup shown. Each step
  is then an equation between sets of characters, which needs that neighbourhood
  is symmetric.

It adds, for every range with `RangesFitSectors`,

* `AttackerSeesDamage` ([]DamageReachesAttacker): all searched sectors are around
  the attacker's, and the lists fit, as long as nobody has left the grid;
* `NobodyIsMissed` ([]NobodyInRangeIsMissed). `OtherRow` is the arithmetic: with
  twice the range less than the height of a sector, whoever is in range is on the
  attacker's row or on the one other row that is searched, C's division towards
  zero included. `ClosestExists`: where someone can be hit, one of them is
  closest, so the search finds a victim.

The last section of `AttackRangeProofs` takes `Vitality` as an instance and proves, for
every timeout, clock range and number of hits,

* `HeardOfAreKept` ([]OnlySilentOrDeadAreCut, if `ClockWraps` is FALSE). The invariant
  `ClockHolds` says that the clock's difference to lastRecvTime is what really
  passed since, and that endTime, read once a frame, is not in the future.

`PacketBuffersProofs` proves, for any others, any number of them met, and every capacity
that holds the largest packet (12 bytes, `PacketAssumption`),

* `PacketsAreSentAsLaidOut` ([]SentAsLaidOut) and `HandlersReadTheirPacket`
  ([]ReadsOwnPacket).

The invariant `Inv` has to say of a handler at work that the calls it has still to
make will find the two buffers as they need them, however many they are: a builder an
empty one, the conversion the packet for the new client, a send the packet it means.
That is `Path`, a sequence of contents with one call between two of them, and
`Leads(calls, S, T)` is the Hoare triple over these contents. `Continues` is its rule
for one list of calls after another, `AllLead` the one for a loop, and the lemmas
named after the handlers (`OnAcceptLeads`, `SectorUpdateLeads`, `HandlersLead` and so
on) show that each of them leads from two empty buffers to its end. Below that,
`CreateMeans` to `EchoMeans` compare each builder with the layout of its packet, and
`Holds` and `Reading` are what the cells and integers of a buffer are while a packet is
built and while it is read. `FlattenSeq` and the calls of `<<` one after the other
(`PutAll`) are recursive functions; as in `RecvRingProofs`, the induction over their
index is done for sets of numbers (`UpTo`), and `RecursionExists` shows that there is
a function as the recursion says. `Inv` quantifies over sequences of contents, so TLC
checks the two properties and not `Inv`.

`FighterWorldProofs` proves of FighterWorld, for every number of threads, sessions,
characters and sectors (`WorldConstants`: threads are distinct, and the null values
are no sessions, characters or sectors),

* `WorldTypes` ([]TypeOK), `SectorListsAreExact` ([]SectorListsExact),
  `NothingDeletedIsUsed` ([]NoUseOfDeleted), `HandlersFind`
  ([]HandlersFindTheirCharacter) and `NoThreadsWaitInACircle` ([]NoLockCycle).

A character is used under its lock, under the container's lock, or under neither,
between the find and the lock, and each is safe for a different reason. So the
invariant `WorldInvariant` says where a thread has a character and what it holds there
(`ThreadInv`), that the thread in a session's callback is the only one and matches
the contract's phase (`CallbackInv`), that the container's lock has the holders its
threads' positions say (`ContainerInv`), the same for each character's lock
(`CharacterInv`), which characters the container has in which phase (`MemberInv`),
that who goes by a character found earlier is inside its session's callback or
keeps the container locked (`FoundInv`), that OnRelease deletes a character after
everyone else (`LastUserInv`), and that UpdateThread reads the container throughout
a frame (`ReadingInv`). A step changes one thread's record and, of the shared state,
one lock or one list; frame lemmas say so once, and each conjunct is then shown for
the actions that can disturb it. For `NoLockCycle` threads are ranked by where they are in the
order of the locks, container, character, sector: a thread waits only for threads
of lower rank.

`NeighboursAreShown` ([]NeighboursShown) and `PicturesOfStayers`
([]StayersPictureExact) are proved where no send ring is full (`~RingMayFill`, the
value of the run; section 5 says what happens otherwise). They speak of the moments
between handlers and frames; the invariant behind them, `PInv`, speaks of the steps
between, on top of `WorldInvariant`. At most one thread brings a character into the
container or to another sector at a time, since OnAccept has the container
exclusively and a frame shares it. For that thread `SeenFrom` and `SeesTo` are the
sectors whose clients show its character, and those its client shows, by the loop it is
in and the sectors it has still to visit; every other two characters show each other
exactly if they are neighbours (`PictureInv`). A DELETE is sent after the lists are
left and the container is free, so a client may show a character that is gone: only
while an OnRelease has its sector still to visit (`GoneInv`). What a client shows a
character do is what it does unless a handler has the client's sector still to tell
(`ActionInv`); both are said of clients that stay, because a frame moves others past
these loops. A broadcast is shown to change nothing but what the thread has told
(`HearCreate`, `HearDelete`, `HearMotion`, `TurnPaints`), and that it reaches those it
should rests on `SectorListsExact`.

Model-checked only:

* liveness, which is out of the prover's reach: `SilentAreCut`, `DeadAreCut`, and
  what `session_liveness` and `lost_wakeup` ask.

## 5. Where the code and its comments disagree

* **Lost wake-up** (Engine 547). PostSend finds the ring empty and clears
  bWaitSend without a second look. A SendPacket that enqueued in between saw the
  flag set and left: its packet waits for the next SendPacket on that session.
  The send completion at 420-424 does look again; 545-549 and 613-615 do not.
* **Disconnect misses** (Engine 733-739). A PostRecv that has loaded the socket
  posts its receive after CancelIoEx found nothing. All later Disconnects
  return early, so the silent or dead client stays until its peer leaves.
* **Disconnect hits another** (Engine 739, 652-654). ReleaseSession closes the
  socket before it takes the session out of the map; a Disconnect that found the
  session runs CancelIoEx on a handle that may be a new session's by then, whose
  receive comes back as aborted and ends it, or whose send does and leaves bWaitSend
  set. SessionEngine has that step (`DiscCancel`) and no property speaks of it;
  `HandleStillOpen` is about sends and receives, which do not reach a reused handle.

Other properties hold under a premise that the module names. TLC finds each of
them violated without it, and the code does not establish it:

* **A payload longer than recvPacket** (Engine 404; `WholePacketsInOrder` without
  `HeapIntact`). The loop looks whether the ring has the payload, never whether
  recvPacket has room for it. No packet of the protocol is so long, but nothing
  refuses one of 2049 bytes or more: the heap is overrun and OnRecv gets nothing.
* **Positions past the shorts** (sector.cpp:4 and 73; `OffGridOnlyPastShort` without
  `PastShort`). A report is compared with the last position and not with the world;
  from 32768 on the sector is negative, is not refused, and indexes the lists and
  locks outside their arrays when the next frame moves the character.
* **A failed send** (Engine 558; `SendTokenNotLost` with `SendsMayFail` TRUE).
  PostSend gives its reference back and leaves bWaitSend set. If the connection
  stays open, every later SendPacket enqueues and returns true, and nothing is
  sent on that session again.
* **Clients that change sector** (Server 163, 381, 526; `StayersPictureExact`
  without `Stayed`). OnRelease is off the lists and has freed the container when it
  sends DELETE, sector after sector: a client a frame moves out of a sector not
  yet visited shows the character for good. In the same way a broadcast of
  MOVE_START or MOVE_STOP misses a client that is moved to a sector already visited,
  and a MOVE_STOP sent between CREATE and MOVE_START of SendPacketBySectorUpdate, which
  reads the other without its lock, is followed by the MOVE_START of before.
* **A full send ring** (Server 322; `NeighboursShown` with `RingMayFill` TRUE). No
  caller looks at SendPacket's result: a lost CREATE is not repeated, and the
  connection stays open.
* **Stopped beyond a border** (Server 875; `NobodyInRangeIsMissed` without `Fresh`).
  MOVE_STOP takes the client's position and frames skip characters that stand, so
  curPos stays that of an older position: an attack that has the character in
  range does not find it.
* **The clock** (Server 221; `ClockWraps` TRUE, `MaxLag` 2, `MaxHits` 0). Around the
  time timeGetTime starts again, 49.7 days on, a frame whose endTime is older than
  a message after it cuts a client just heard of (`OnlySilentOrDeadAreCut`). A
  client last heard of in the 30 seconds before is never cut: no endTime exceeds
  its lastRecvTime by the timeout (`SilentAreCut`).
* **hp** (Server 942; `DeadAreCut` with `CharRange` 8 and `MaxHits` 3). Hits on a dead
  character before the next frame can take hp below -128, where it wraps to a
  positive value, and the frame finds the character alive.

## 6. What is not modelled, and the plan

Not covered, within what is modelled: where a victim goes between the unlock that
follows the search (Server 931) and its lock (939), other than that it may be
deleted by then; a caller of GetRearBufferPtr that does not keep to the free space,
which `linear_queue` excludes by a guard and `RecvRing` has (Engine 404); packets of
a client that are shorter than their type.

Not modelled: start-up and shutdown (destructors that stop threads and delete
sessions and characters while completions are queued; the repository says
nowhere what should hold then, and `main.cpp` destroys the server only at its
end); the test for an empty packet at Engine 699-704, whose callers always send a
type; the counter of character ids, which starts again after 2^32 accepts; log
and monitoring, whose state nothing reads back.
