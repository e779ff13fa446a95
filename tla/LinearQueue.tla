---------------------------- MODULE LinearQueue -----------------------------
(***************************************************************************)
(* What a serialization buffer promises its user ("a buffer in the form of *)
(* a linear queue", SerializationBuffer.h): values come out in the order   *)
(* they went in, and what it accepts between two resets is bounded,        *)
(* whether or not anything was taken out in between.                       *)
(***************************************************************************)
EXTENDS Naturals, Sequences

CONSTANTS
  Bound,   \* bytes accepted between two resets
  Values   \* the sequences of bytes users put

VARIABLES
  content,   \* bytes put and not yet taken
  room,      \* bytes it still accepts before the next reset
  taken      \* bytes of the last Take

Init == content = <<>> /\ room = Bound /\ taken = <<>>

Put(bytes) ==
  /\ Len(bytes) <= room
  /\ content' = content \o bytes
  /\ room' = room - Len(bytes)
  /\ UNCHANGED taken

\* All the bytes asked for, or nothing.
Take(k) ==
  /\ k <= Len(content)
  /\ taken' = SubSeq(content, 1, k)
  /\ content' = SubSeq(content, k + 1, Len(content))
  /\ UNCHANGED room

Skip(k) ==
  /\ k <= Len(content)
  /\ content' = SubSeq(content, k + 1, Len(content))
  /\ UNCHANGED <<room, taken>>

Reset == content' = <<>> /\ room' = Bound /\ UNCHANGED taken

Next ==
  \/ \E bytes \in Values : Put(bytes)
  \/ \E k \in 1 .. Bound : Take(k) \/ Skip(k)
  \/ Reset

Spec == Init /\ [][Next]_<<content, room, taken>>
=============================================================================
