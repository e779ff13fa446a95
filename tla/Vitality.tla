------------------------------ MODULE Vitality ------------------------------
(***************************************************************************)
(* When UpdateThread cuts a connection: the character is dead, or nothing  *)
(* was received from its client for dfNETWORK_PACKET_RECV_TIMEOUT.         *)
(*                                                                         *)
(* A frame reads the clock once and then visits one character after the    *)
(* other, while packets arrive and attacks hit.  timeGetTime is a DWORD    *)
(* that starts again from 0, and hp is a signed char.                      *)
(***************************************************************************)
EXTENDS Integers, FiniteSets

CONSTANTS
  Characters,
  ClockRange,    \* the values of a DWORD: 2^32
  ClockWraps,    \* whether the server runs until the clock starts again
  MaxLag,        \* bound: how old the start of the latest frame may get
  Timeout,       \* dfNETWORK_PACKET_RECV_TIMEOUT
  CharRange,     \* the values of a char: 256
  DefaultHp,     \* defCHARACTER_DEFAULT_HP
  Damages,       \* dfATTACKn_DAMAGE
  MaxHits        \* bound: attacks that hit

ASSUME VitalityConstants ==
  /\ ClockRange \in Nat /\ Timeout \in Nat /\ Timeout < ClockRange
  /\ ClockWraps \in BOOLEAN /\ MaxLag \in Nat \ {0}
  /\ CharRange \in Nat \ {0} /\ CharRange % 2 = 0
  /\ DefaultHp \in 1 .. (CharRange \div 2) - 1
  /\ Damages \subseteq 1 .. CharRange - 1
  /\ MaxHits \in Nat

VARIABLES
  clock,          \* timeGetTime()
  age,            \* time since a client was last heard of, up to Timeout + 1
  lastRecvTime,   \* the clock when it was
  hp,             \* hp of each character
  cut,            \* the characters whose connection was cut
  present,        \* the characters in the container
  endTime,        \* the time the frame in progress took at its start
  unvisited,      \* the characters it has yet to visit
  hits            \* attacks so far

vars == <<clock, age, lastRecvTime, hp, cut, present, endTime, unvisited, hits>>

Hps == -(CharRange \div 2) .. (CharRange \div 2) - 1

\* hp -= damage in a char.
Lowered(h, damage) ==
  LET r == (h - damage) % CharRange IN
  IF r < CharRange \div 2 THEN r ELSE r - CharRange

Init ==
  /\ clock = 0
  /\ age = [c \in Characters |-> 0]
  /\ lastRecvTime = [c \in Characters |-> 0]
  /\ hp = [c \in Characters |-> DefaultHp]
  /\ cut = {}
  /\ present = Characters
  /\ endTime = 0
  /\ unvisited = {}
  /\ hits = 0

Tick ==
  /\ clock < ClockRange - 1 \/ ClockWraps
  /\ (clock - endTime) % ClockRange < MaxLag
  /\ clock' = (clock + 1) % ClockRange
  /\ age' = [c \in Characters |-> IF age[c] > Timeout THEN age[c] ELSE age[c] + 1]
  /\ UNCHANGED <<lastRecvTime, hp, cut, present, endTime, unvisited, hits>>

\* OnRecv.
OnRecv(c) ==
  /\ c \in present
  /\ age' = [age EXCEPT ![c] = 0]
  /\ lastRecvTime' = [lastRecvTime EXCEPT ![c] = clock]
  /\ UNCHANGED <<clock, hp, cut, present, endTime, unvisited, hits>>

\* The end of ProcessPacketAttack1, 2 and 3, by another character: the victim
\* may be dead already.
Damage(c, damage) ==
  /\ c \in present /\ present # {c}
  /\ hits < MaxHits
  /\ hits' = hits + 1
  /\ hp' = [hp EXCEPT ![c] = Lowered(@, damage)]
  /\ UNCHANGED <<clock, age, lastRecvTime, cut, present, endTime, unvisited>>

FrameStarts ==
  /\ unvisited = {}
  /\ endTime' = clock
  /\ unvisited' = present
  /\ UNCHANGED <<clock, age, lastRecvTime, hp, cut, present, hits>>

\* Mutant: the unsigned difference alone.
SilentUnsigned(c) == (endTime - lastRecvTime[c]) % ClockRange > Timeout

\* Mutant: the guard against a later lastRecvTime the wrong way round.
SilentSwapped(c) == lastRecvTime[c] > endTime /\ endTime - lastRecvTime[c] > Timeout

\* lastRecvTime may be later than the start of the frame.
Silent(c) == endTime > lastRecvTime[c] /\ endTime - lastRecvTime[c] > Timeout

\* Mutant: a character is dead below zero.
DeadBelowZero(c) == hp[c] < 0

Dead(c) == hp[c] < 1

\* One character's part of a frame, as far as Disconnect is concerned.
Visit(c) ==
  /\ c \in unvisited
  /\ unvisited' = unvisited \ {c}
  /\ cut' = IF Dead(c) \/ Silent(c) THEN cut \cup {c} ELSE cut
  /\ UNCHANGED <<clock, age, lastRecvTime, hp, present, endTime, hits>>

\* OnRelease, between frames: a frame shares the container's lock.
OnRelease(c) ==
  /\ c \in cut \cap present
  /\ unvisited = {}
  /\ present' = present \ {c}
  /\ UNCHANGED <<clock, age, lastRecvTime, hp, cut, endTime, unvisited, hits>>

Next ==
  \/ Tick
  \/ \E c \in Characters :
       \/ OnRecv(c)
       \/ \E damage \in Damages : Damage(c, damage)
       \/ Visit(c)
       \/ OnRelease(c)
  \/ FrameStarts

\* Time passes and UpdateThread goes on.  Clients need not send anything.
Fairness ==
  /\ WF_vars(Tick)
  /\ WF_vars(FrameStarts)
  /\ \A c \in Characters : WF_vars(Visit(c))

Spec == Init /\ [][Next]_vars /\ Fairness

-----------------------------------------------------------------------------
\* Properties.

\* Only the dead and the silent are cut: whoever was heard of in the last
\* Timeout keeps the connection, though the frame took its time before
\* ("a client nothing is received from for 30 s or more",
\* MmoTcpFighterContentSettings.h:11).
OnlySilentOrDeadAreCut ==
  [][\A c \in cut' \ cut : hp[c] < 1 \/ age[c] > Timeout]_vars

\* A client that stays silent is cut.
SilentAreCut ==
  \A c \in Characters : age[c] > Timeout ~> c \in cut \/ age[c] = 0

\* A character whose hp is used up is cut, and so deleted from the game
\* ("sent when ... a character died", MmoTcpFighterNetworkMessageProtocol.h:56).
DeadAreCut == \A c \in Characters : hp[c] < 1 ~> c \in cut
=============================================================================
