------------------------ MODULE PacketBuffersProofs ------------------------
(***************************************************************************)
(* SentAsLaidOut and ReadsOwnPacket, for every number of others and every  *)
(* capacity that holds the largest packet.                                 *)
(*                                                                         *)
(* A buffer Holds a list of bytes when it was emptied and the list put     *)
(* into it.  What remains of a handler is in order (Path) when each of its *)
(* calls finds the two buffers as it needs them: a builder an empty one, a *)
(* send the packet it means.  Leads(calls, S, T) is the Hoare triple over  *)
(* the contents of the two buffers, with a rule for one call after another *)
(* (Continues) and one for a loop (AllLead); every handler is shown to     *)
(* lead from two empty buffers to the end.  The invariant is that the rest *)
(* of the handler's calls is in order, or that the received packet waits   *)
(* in recvPacket, or that nothing is to do.                                *)
(***************************************************************************)
EXTENDS PacketBuffers, SequenceTheorems, WellFoundedInduction, TLAPS

-----------------------------------------------------------------------------
\* Lists of lists.

\* Induction up to n, for a set: the least number that is not in S would have

\* a number before it, which is.
LEMMA UpTo ==
  ASSUME NEW n \in Nat, NEW S, 0 \in S, \A i \in 0 .. n - 1 : i \in S => i + 1 \in S
  PROVE  \A i \in 0 .. n : i \in S
<1> SUFFICES ASSUME NEW m \in 0 .. n, m \notin S
             PROVE  FALSE
  OBVIOUS
<1> DEFINE R == OpToRel(<, Nat)
           T == {i \in 0 .. n : i \notin S}
<1>1. T \subseteq Nat /\ T # {}
  OBVIOUS
<1>2. PICK x \in T : \A y \in T : <<y, x>> \notin R
  <2>1. IsWellFoundedOn(R, Nat)
    BY NatLessThanWellFounded
  <2> HIDE DEF R, T
  <2> QED
    BY <1>1, <2>1, WFMin
<1>3. \A y \in T : ~(y < x)
  BY <1>1, <1>2 DEF OpToRel
<1>4. x \in 0 .. n /\ x \notin S /\ x # 0
  OBVIOUS
<1>5. x - 1 \in 0 .. n /\ x - 1 \notin T
  BY <1>3, <1>4
<1>6. x - 1 \in S /\ x - 1 \in 0 .. n - 1
  BY <1>4, <1>5
<1> QED
  BY <1>4, <1>6

\* f is the function recursion gives: f[0] is base, next[i] leads from f[i - 1]

\* to f[i].
Recurs(f, base, next, n) ==
  f[0] = base /\ \A i \in 1 .. n : f[i] = next[i][f[i - 1]]

\* There is one.
LEMMA RecursionExists ==
  ASSUME NEW X, NEW base \in X, NEW n \in Nat, NEW next \in [1 .. n -> [X -> X]]
  PROVE  \E f \in [0 .. n -> X] : Recurs(f, base, next, n)
<1> DEFINE S == {m \in 0 .. n : \E f \in [0 .. m -> X] : Recurs(f, base, next, m)}
<1>1. 0 \in S
  <2> DEFINE f == [i \in 0 .. 0 |-> base]
  <2>1. f \in [0 .. 0 -> X] /\ Recurs(f, base, next, 0)
    BY DEF Recurs
  <2> HIDE DEF f
  <2> QED
    BY <2>1
<1>2. ASSUME NEW m \in 0 .. n - 1, m \in S
      PROVE  m + 1 \in S
  <2>1. PICK f \in [0 .. m -> X] : Recurs(f, base, next, m)
    BY <1>2
  <2> DEFINE d == [i \in 0 .. m + 1 |-> IF i = m + 1 THEN next[m + 1][f[m]] ELSE f[i]]
  <2>2. m + 1 \in 1 .. n /\ f[m] \in X /\ next[m + 1][f[m]] \in X
    OBVIOUS
  <2>3. d \in [0 .. m + 1 -> X]
    BY <2>2
  <2>4. d[0] = base /\ d[m + 1] = next[m + 1][d[m]]
    BY <2>1 DEF Recurs
  <2>5. ASSUME NEW i \in 1 .. m
        PROVE  d[i] = next[i][d[i - 1]]
    <3>1. f[i] = next[i][f[i - 1]]
      BY <2>1 DEF Recurs
    <3>2. i \in 0 .. m + 1 /\ i - 1 \in 0 .. m + 1 /\ i # m + 1 /\ i - 1 # m + 1
      OBVIOUS
    <3> QED
      BY <3>1, <3>2
  <2>6. Recurs(d, base, next, m + 1)
    <3> HIDE DEF d
    <3>1. ASSUME NEW i \in 1 .. m + 1
          PROVE  d[i] = next[i][d[i - 1]]
      <4>1. CASE i = m + 1
        <5>1. i - 1 = m
          BY <4>1
        <5> QED
          BY <2>4, <4>1, <5>1
      <4>2. CASE i # m + 1
        <5>1. i \in 1 .. m
          BY <4>2
        <5> QED
          BY <2>5, <5>1
      <4> QED
        BY <4>1, <4>2
    <3> QED
      BY <2>4, <3>1 DEF Recurs
  <2> HIDE DEF d
  <2> QED
    BY <2>3, <2>6
<1>3. \A m \in 0 .. n : m \in S
  <2> HIDE DEF S
  <2> QED
    BY <1>1, <1>2, UpTo
<1>4. n \in S
  BY <1>3
<1> QED
  BY <1>4

\* f[n] is what the first n lists are, one behind the other.
Joins(f, seqs, n) ==
  f[0] = <<>> /\ \A i \in 1 .. n : f[i] = f[i - 1] \o seqs[i]

LEMMA JoinsExist ==
  ASSUME NEW C, NEW seqs \in Seq(Seq(C))
  PROVE  \E f \in [0 .. Len(seqs) -> Seq(C)] : Joins(f, seqs, Len(seqs))
<1> DEFINE n == Len(seqs)
           next == [i \in 1 .. n |-> [s \in Seq(C) |-> s \o seqs[i]]]
<1>1. next \in [1 .. n -> [Seq(C) -> Seq(C)]]
  <2>1. ASSUME NEW i \in 1 .. n, NEW s \in Seq(C)
        PROVE  s \o seqs[i] \in Seq(C)
    <3>1. seqs[i] \in Seq(C)
      OBVIOUS
    <3> QED
      BY <3>1
  <2> QED
    BY <2>1
<1>2. <<>> \in Seq(C) /\ n \in Nat
  OBVIOUS
<1>3. PICK f \in [0 .. n -> Seq(C)] : Recurs(f, <<>>, next, n)
  <2> HIDE DEF n, next
  <2> QED
    BY <1>1, <1>2, RecursionExists
<1>4. ASSUME NEW i \in 1 .. n
      PROVE  f[i] = f[i - 1] \o seqs[i]
  <2>1. i - 1 \in 0 .. n
    OBVIOUS
  <2>2. f[i - 1] \in Seq(C) /\ f[i] = next[i][f[i - 1]]
    BY <1>3, <2>1 DEF Recurs
  <2> QED
    BY <2>2
<1> QED
  BY <1>3, <1>4 DEF Joins, Recurs

\* Two such functions agree.
LEMMA JoinsUnique ==
  ASSUME NEW seqs, NEW n \in Nat, NEW d, NEW e, Joins(d, seqs, n), Joins(e, seqs, n)
  PROVE  \A i \in 0 .. n : d[i] = e[i]
<1> DEFINE S == {i \in 0 .. n : d[i] = e[i]}
<1>1. 0 \in S
  BY DEF Joins
<1>2. ASSUME NEW i \in 0 .. n - 1, i \in S
      PROVE  i + 1 \in S
  <2>1. i + 1 \in 1 .. n /\ i + 1 \in 0 .. n /\ (i + 1) - 1 = i
    OBVIOUS
  <2>2. d[i + 1] = d[i] \o seqs[i + 1] /\ e[i + 1] = e[i] \o seqs[i + 1]
    BY <2>1 DEF Joins
  <2> QED
    BY <1>2, <2>1, <2>2
<1>3. \A i \in 0 .. n : i \in S
  <2> HIDE DEF S
  <2> QED
    BY <1>1, <1>2, UpTo
<1> QED
  BY <1>3

\* FlattenSeq starts at 1.
Flattening(g, seqs, n) ==
  [i \in 1 .. n |-> IF i = 1 THEN seqs[i] ELSE g[i - 1] \o seqs[i]]

LEMMA FlattenedJoin ==
  ASSUME NEW C, NEW n \in Nat, n # 0, NEW seqs, seqs[1] \in Seq(C), NEW g,
         g = Flattening(g, seqs, n)
  PROVE  Joins([i \in 0 .. n |-> IF i = 0 THEN <<>> ELSE g[i]], seqs, n)
<1> DEFINE d == [i \in 0 .. n |-> IF i = 0 THEN <<>> ELSE g[i]]
<1>1. ASSUME NEW i \in 1 .. n, i # 1
      PROVE  d[i] = d[i - 1] \o seqs[i]
  <2>1. g[i] = g[i - 1] \o seqs[i]
    BY <1>1 DEF Flattening
  <2>2. i \in 0 .. n /\ i - 1 \in 0 .. n /\ i # 0 /\ i - 1 # 0
    BY <1>1
  <2> QED
    BY <2>1, <2>2
<1>2. d[0] = <<>> /\ d[1] = d[0] \o seqs[1]
  <2>1. g[1] = seqs[1] /\ 1 \in 0 .. n
    BY DEF Flattening
  <2> QED
    BY <2>1
<1> HIDE DEF d
<1>3. ASSUME NEW i \in 1 .. n
      PROVE  d[i] = d[i - 1] \o seqs[i]
  <2>1. CASE i = 1
    <3>1. i - 1 = 0
      BY <2>1
    <3> QED
      BY <1>2, <2>1, <3>1
  <2> QED
    BY <1>1, <2>1
<1>4. Joins(d, seqs, n)
  BY <1>2, <1>3 DEF Joins
<1> QED
  BY <1>4 DEF d

\* And the other way round.
LEMMA JoinFlattened ==
  ASSUME NEW C, NEW n \in Nat, n # 0, NEW seqs, seqs[1] \in Seq(C), NEW h,
         Joins(h, seqs, n), NEW e, e = [i \in 1 .. n |-> h[i]]
  PROVE  e = Flattening(e, seqs, n)
<1>1. ASSUME NEW i \in 1 .. n
      PROVE  e[i] = IF i = 1 THEN seqs[i] ELSE e[i - 1] \o seqs[i]
  <2>1. h[i] = h[i - 1] \o seqs[i] /\ h[0] = <<>>
    BY DEF Joins
  <2>2. CASE i = 1
    <3>1. i - 1 = 0 /\ <<>> \o seqs[1] = seqs[1]
      BY <2>2
    <3> QED
      BY <2>1, <2>2, <3>1
  <2>3. CASE i # 1
    <3>1. i - 1 \in 1 .. n
      BY <2>3
    <3> QED
      BY <2>1, <2>3, <3>1
  <2> QED
    BY <2>2, <2>3
<1> QED
  BY <1>1 DEF Flattening

\* FlattenSeq is the last of them.
LEMMA FlattenJoins ==
  ASSUME NEW C, NEW seqs \in Seq(Seq(C)), NEW f, Joins(f, seqs, Len(seqs))
  PROVE  FlattenSeq(seqs) = f[Len(seqs)]
<1> DEFINE n == Len(seqs)
<1>1. CASE n = 0
  BY <1>1 DEF FlattenSeq, Joins
<1>2. CASE n # 0
  <2> DEFINE k == CHOOSE g : g = Flattening(g, seqs, n)
             d == [i \in 0 .. n |-> IF i = 0 THEN <<>> ELSE k[i]]
             e == [i \in 1 .. n |-> f[i]]
  <2>1. seqs[1] \in Seq(C) /\ n \in Nat
    BY <1>2
  <2>2. e = Flattening(e, seqs, n)
    <3>1. Joins(f, seqs, n) /\ e = [i \in 1 .. n |-> f[i]]
      OBVIOUS
    <3> HIDE DEF n, e
    <3> QED
      BY <1>2, <2>1, <3>1, JoinFlattened
  <2>3. k = Flattening(k, seqs, n)
    <3> HIDE DEF e
    <3> QED
      BY <2>2
  <2>4. FlattenSeq(seqs) = k[n]
    BY <1>2 DEF FlattenSeq, Flattening
  <2> HIDE DEF k
  <2>5. Joins(d, seqs, n)
    BY <1>2, <2>1, <2>3, FlattenedJoin
  <2>6. d[n] = k[n]
    BY <1>2, <2>1
  <2> HIDE DEF d
  <2>7. d[n] = f[n]
    BY <2>1, <2>5, JoinsUnique
  <2> QED
    BY <2>4, <2>6, <2>7
<1> QED
  BY <1>1, <1>2

LEMMA FlattenType ==
  ASSUME NEW C, NEW seqs \in Seq(Seq(C))
  PROVE  FlattenSeq(seqs) \in Seq(C)
<1>1. PICK f \in [0 .. Len(seqs) -> Seq(C)] : Joins(f, seqs, Len(seqs))
  BY JoinsExist
<1> QED
  BY <1>1, FlattenJoins

LEMMA JoinedInFront ==
  ASSUME NEW C, NEW s \in Seq(C), NEW a \in Seq(C), NEW b \in Seq(C)
  PROVE  s \o (a \o b) = (s \o a) \o b
BY ConcatAssociative

\* One list in front of the others.
LEMMA FlattenInFront ==
  ASSUME NEW C, NEW s \in Seq(C), NEW seqs \in Seq(Seq(C)),
         NEW all \in Seq(Seq(C)), Len(all) = Len(seqs) + 1, all[1] = s,
         \A i \in 1 .. Len(seqs) : all[i + 1] = seqs[i]
  PROVE  FlattenSeq(all) = s \o FlattenSeq(seqs)
<1> DEFINE n == Len(seqs)
<1>1. PICK f \in [0 .. n -> Seq(C)] : Joins(f, seqs, n)
  BY JoinsExist
<1> DEFINE g == [i \in 0 .. n + 1 |-> IF i = 0 THEN <<>> ELSE s \o f[i - 1]]
<1>2. g[0] = <<>> /\ g[1] = g[0] \o all[1]
  BY <1>1 DEF Joins
<1>3. ASSUME NEW i \in 1 .. n + 1, i # 1
      PROVE  g[i] = g[i - 1] \o all[i]
  <2>1. /\ i - 1 \in 1 .. n /\ i - 2 \in 0 .. n /\ (i - 1) - 1 = i - 2
        /\ (i - 1) + 1 = i
    BY <1>3
  <2>2. i \in 0 .. n + 1 /\ i - 1 \in 0 .. n + 1 /\ i # 0 /\ i - 1 # 0
    BY <1>3
  <2>3. f[i - 1] = f[i - 2] \o seqs[i - 1] /\ all[i] = seqs[i - 1]
    BY <1>1, <2>1 DEF Joins
  <2>4. PICK a \in Seq(C) : a = f[i - 2]
    BY <2>1
  <2>5. PICK b \in Seq(C) : b = seqs[i - 1]
    BY <2>1
  <2>6. s \o (a \o b) = (s \o a) \o b
    <3> HIDE DEF g
    <3> QED
      BY JoinedInFront
  <2>7. g[i] = s \o f[i - 1] /\ g[i - 1] = s \o f[i - 2]
    BY <2>1, <2>2
  <2> QED
    BY <2>3, <2>4, <2>5, <2>6, <2>7
<1>4. FlattenSeq(all) = g[n + 1] /\ FlattenSeq(seqs) = f[n]
  <2> HIDE DEF g
  <2>1. ASSUME NEW i \in 1 .. n + 1
        PROVE  g[i] = g[i - 1] \o all[i]
    <3>1. CASE i = 1
      <4>1. i - 1 = 0
        BY <3>1
      <4> QED
        BY <1>2, <3>1, <4>1
    <3> QED
      BY <1>3, <3>1
  <2>2. Joins(g, all, n + 1)
    BY <1>2, <2>1 DEF Joins
  <2> QED
    BY <1>1, <2>2, FlattenJoins
<1> QED
  BY <1>4

-----------------------------------------------------------------------------
\* Bytes, and what a buffer holds.

ServerTypes ==
  {"SC_CREATE_MY_CHARACTER", "SC_CREATE_OTHER_CHARACTER", "SC_DELETE_CHARACTER",
   "SC_MOVE_START", "SC_MOVE_STOP", "SC_ATTACK1", "SC_ATTACK2", "SC_ATTACK3",
   "SC_DAMAGE", "SC_SYNC", "SC_ECHO"}

\* The names values have, and the bytes of such values.
Words ==
  ClientTypes \cup ServerTypes \cup Others \cup {Me, Unknown, ToString(1), ToString(2)}
  \cup {"nothing", "type", "id", "x", "y", "hp", "stop2Dir", "move8Dir",
        "Direction", "X", "Y", "Time"}
Values == Words \X Words
Cells == Values \X Nat

LEMMA BytesType ==
  ASSUME NEW v \in Values, NEW w \in Nat
  PROVE  /\ Bytes(v, w) \in Seq(Cells)
         /\ Len(Bytes(v, w)) = w
BY DEF Bytes, Cells

LEMMA CodeType ==
  ASSUME NEW t \in ClientTypes \cup ServerTypes \cup {Unknown}
  PROVE  /\ Code(t) \in Seq(Cells)
         /\ Len(Code(t)) = 2
<1>1. <<t, "type">> \in Values
  BY DEF Values, Words
<1> QED
  BY <1>1, BytesType DEF Code, WORD

\* The code says which packet it is.
LEMMA CodeTells ==
  ASSUME NEW t, NEW u, Code(t) = Code(u)
  PROVE  t = u
<1>1. Code(t)[1] = <<<<t, "type">>, 1>> /\ Code(u)[1] = <<<<u, "type">>, 1>>
  BY DEF Code, Bytes, WORD
<1> QED
  BY <1>1

Buffers == {b \in Buffer!BufferOf(Cells) : Buffer!SizesAgree(b)}

\* The bytes w are queued in b, which was empty before.
Holds(b, w) ==
  /\ b \in Buffers
  /\ b.front = 0 /\ b.useSize = Len(w)
  /\ \A i \in 1 .. Len(w) : b.cells[i - 1] = w[i]

LEMMA ConstructedHolds ==
  Buffer!Constructed \in Buffers /\ Holds(Buffer!Constructed, <<>>)
<1>1. NoByte \in Cells
  BY DEF NoByte, Cells, Values, Words
<1>2. [i \in 0 .. Capacity - 1 |-> NoByte] \in [0 .. Capacity - 1 -> Cells]
  BY <1>1
<1> HIDE DEF NoByte
<1> QED
  BY <1>2, PacketAssumption
  DEF Holds, Buffers, Buffer!Constructed, Buffer!BufferOf, Buffer!SizesAgree

LEMMA ClearedHolds ==
  ASSUME NEW b \in Buffers
  PROVE  Holds(Buffer!ClearBuffer(b), <<>>)
<1> DEFINE n == Buffer!ClearBuffer(b)
<1>1. b \in Buffer!BufferOf(Cells) /\ 0 \in 0 .. Capacity /\ Capacity \in 0 .. Capacity
  BY PacketAssumption DEF Buffers
<1>2. n = [b EXCEPT !.front = 0, !.rear = 0, !.useSize = 0, !.freeSize = Capacity]
  BY DEF Buffer!ClearBuffer
<1>3. /\ n \in Buffer!BufferOf(Cells) /\ n.front = 0 /\ n.rear = 0
      /\ n.useSize = 0 /\ n.freeSize = Capacity
  <2> HIDE DEF n
  <2> QED
    BY <1>1, <1>2 DEF Buffer!BufferOf
<1> QED
  BY <1>3, PacketAssumption DEF Holds, Buffers, Buffer!SizesAgree

LEMMA StoredType ==
  ASSUME NEW cells \in [0 .. Capacity - 1 -> Cells], NEW at \in Nat,
         NEW bytes \in Seq(Cells)
  PROVE  Buffer!Stored(cells, at, bytes) \in [0 .. Capacity - 1 -> Cells]
<1>1. ASSUME NEW i \in 0 .. Capacity - 1, i \in at .. at + Len(bytes) - 1
      PROVE  bytes[i - at + 1] \in Cells
  <2>1. i - at + 1 \in 1 .. Len(bytes)
    BY <1>1, PacketAssumption
  <2> QED
    BY <2>1
<1> QED
  BY <1>1 DEF Buffer!Stored

LEMMA FieldsOf ==
  ASSUME NEW b \in Buffers
  PROVE  /\ b \in Buffer!BufferOf(Cells)
         /\ b.cells \in [0 .. Capacity - 1 -> Cells]
         /\ b.useSize \in Nat /\ b.freeSize \in Nat /\ b.front \in Nat /\ b.rear \in Nat
         /\ b.front + b.useSize = b.rear /\ b.rear + b.freeSize = Capacity
BY PacketAssumption DEF Buffers, Buffer!BufferOf, Buffer!SizesAgree

\* A << that fits.
LEMMA PutFits ==
  ASSUME NEW b \in Buffers, NEW bytes \in Seq(Cells), Len(bytes) <= b.freeSize,
         NEW n, n = Buffer!Put(b, bytes)
  PROVE  /\ n \in Buffers /\ n.cells = Buffer!Stored(b.cells, b.rear, bytes)
         /\ n.front = b.front /\ n.useSize = b.useSize + Len(bytes)
<1> DEFINE k == Len(bytes)
           cells == Buffer!Stored(b.cells, b.rear, bytes)
           r == b.rear + k
           u == b.useSize + k
           f == b.freeSize - k
           m == [b EXCEPT !.cells = cells]
<1>1. k \in Nat /\ b \in Buffer!BufferOf(Cells)
  BY FieldsOf
<1>2. cells \in [0 .. Capacity - 1 -> Cells]
  BY FieldsOf, StoredType
<1>3. r \in 0 .. Capacity /\ u \in 0 .. Capacity /\ f \in 0 .. Capacity
  BY <1>1, FieldsOf, PacketAssumption
<1>4. /\ m \in Buffer!BufferOf(Cells) /\ m.cells = cells /\ m.front = b.front
      /\ m.rear = b.rear /\ m.useSize = b.useSize /\ m.freeSize = b.freeSize
  <2> HIDE DEF cells
  <2> QED
    BY <1>1, <1>2 DEF Buffer!BufferOf
<1>5. n = IF k < 1 THEN m ELSE [m EXCEPT !.rear = r, !.useSize = u, !.freeSize = f]
  <2>1. ~(b.freeSize < k)
    BY <1>1, FieldsOf
  <2>2. m = Buffer!WrittenBehindRear(b, bytes)
    BY DEF Buffer!WrittenBehindRear
  <2>3. n = Buffer!MovedRear(m, k)
    BY <2>1, <2>2 DEF Buffer!Put
  <2> HIDE DEF m, k
  <2> QED
    BY <1>4, <2>1, <2>3 DEF Buffer!MovedRear
<1>6. /\ n \in Buffer!BufferOf(Cells) /\ n.cells = cells /\ n.front = b.front
      /\ n.rear = r /\ n.useSize = u /\ n.freeSize = f
  <2>1. CASE k < 1
    <3>1. r = b.rear /\ u = b.useSize /\ f = b.freeSize
      BY <1>1, <2>1, FieldsOf
    <3> HIDE DEF r, u, f, m, cells
    <3> QED
      BY <1>4, <1>5, <2>1, <3>1
  <2>2. CASE ~(k < 1)
    <3> HIDE DEF r, u, f, m, cells
    <3> QED
      BY <1>3, <1>4, <1>5, <2>2 DEF Buffer!BufferOf
  <2> QED
    BY <2>1, <2>2
<1>7. Buffer!SizesAgree(n)
  BY <1>1, <1>6, FieldsOf, PacketAssumption DEF Buffer!SizesAgree
<1> QED
  BY <1>6, <1>7 DEF Buffers

LEMMA PutType ==
  ASSUME NEW b \in Buffers, NEW bytes \in Seq(Cells)
  PROVE  Buffer!Put(b, bytes) \in Buffers
<1>1. CASE b.freeSize < Len(bytes)
  BY <1>1 DEF Buffer!Put
<1>2. CASE ~(b.freeSize < Len(bytes))
  <2>1. Len(bytes) <= b.freeSize
    BY <1>2, FieldsOf
  <2> QED
    BY <2>1, PutFits
<1> QED
  BY <1>1, <1>2

\* What is put stands behind what is queued.
LEMMA PutHolds ==
  ASSUME NEW b, NEW w \in Seq(Cells), Holds(b, w), NEW bytes \in Seq(Cells),
         Len(w) + Len(bytes) <= Capacity
  PROVE  Holds(Buffer!Put(b, bytes), w \o bytes)
<1> DEFINE c == Buffer!Put(b, bytes)
           cells == Buffer!Stored(b.cells, b.rear, bytes)
<1>1. /\ b \in Buffers /\ b.front = 0 /\ b.useSize = Len(w) /\ b.rear = Len(w)
      /\ b.freeSize = Capacity - Len(w)
      /\ \A i \in 1 .. Len(w) : b.cells[i - 1] = w[i]
  <2>1. /\ b \in Buffers /\ b.front = 0 /\ b.useSize = Len(w)
        /\ \A i \in 1 .. Len(w) : b.cells[i - 1] = w[i]
    BY DEF Holds
  <2>2. /\ b.front + b.useSize = b.rear /\ b.rear + b.freeSize = Capacity
        /\ b.rear \in Nat /\ b.freeSize \in Nat
    BY <2>1, FieldsOf
  <2>3. Len(w) \in Nat
    OBVIOUS
  <2>4. b.rear = Len(w)
    BY <2>1, <2>2, <2>3
  <2>5. b.freeSize = Capacity - Len(w)
    BY <2>2, <2>3, <2>4, PacketAssumption
  <2> QED
    BY <2>1, <2>4, <2>5
<1>2. c.cells = cells /\ c.front = 0 /\ c.useSize = Len(w) + Len(bytes)
  <2>1. Len(bytes) <= b.freeSize
    BY <1>1, PacketAssumption
  <2> HIDE DEF cells
  <2> QED
    BY <1>1, <2>1, PutFits DEF cells
<1>3. c \in Buffers
  BY <1>1, PutType
<1>4. ASSUME NEW i \in 1 .. Len(w) + Len(bytes)
      PROVE  cells[i - 1] = (w \o bytes)[i]
  <2>1. i - 1 \in 0 .. Capacity - 1 /\ DOMAIN b.cells = 0 .. Capacity - 1
    <3>1. Len(w) + Len(bytes) \in Nat
      OBVIOUS
    <3>2. b.cells \in [0 .. Capacity - 1 -> Cells]
      BY <1>1, FieldsOf
    <3>3. i - 1 \in 0 .. Capacity - 1
      BY <3>1, PacketAssumption
    <3> QED
      BY <3>2, <3>3
  <2>2. CASE i <= Len(w)
    BY <1>1, <2>1, <2>2 DEF Buffer!Stored
  <2>3. CASE i > Len(w)
    <3>1. /\ i - 1 \in b.rear .. b.rear + Len(bytes) - 1
          /\ (i - 1) - b.rear + 1 = i - Len(w)
      BY <1>1, <2>3
    <3>2. cells[i - 1] = bytes[i - Len(w)]
      BY <2>1, <3>1 DEF Buffer!Stored
    <3> QED
      BY <2>3, <3>2
  <2> QED
    BY <2>2, <2>3
<1> HIDE DEF c, cells
<1>5. Len(w \o bytes) = Len(w) + Len(bytes)
  OBVIOUS
<1>6. Holds(c, w \o bytes)
  BY <1>2, <1>3, <1>4, <1>5 DEF Holds
<1> QED
  BY <1>6 DEF c

\* All operands of a builder.
LEMMA PutAllHolds ==
  ASSUME NEW puts \in Seq(Seq(Cells)), NEW b, Holds(b, <<>>),
         Len(FlattenSeq(puts)) <= Capacity
  PROVE  Holds(PutAll(b, puts), FlattenSeq(puts))
<1> DEFINE n == Len(puts)
           next == [k \in 1 .. n |-> [c \in Buffers |-> Buffer!Put(c, puts[k])]]
           G(g) == [k \in 0 .. n |-> IF k = 0 THEN b ELSE Buffer!Put(g[k - 1], puts[k])]
           after == CHOOSE g : g = G(g)
<1>1. n \in Nat /\ b \in Buffers
  BY DEF Holds
<1>2. next \in [1 .. n -> [Buffers -> Buffers]]
  <2>1. ASSUME NEW k \in 1 .. n, NEW c \in Buffers
        PROVE  Buffer!Put(c, puts[k]) \in Buffers
    <3>1. puts[k] \in Seq(Cells)
      OBVIOUS
    <3> QED
      BY <3>1, PutType
  <2> QED
    BY <2>1
<1>3. PICK e \in [0 .. n -> Buffers] : Recurs(e, b, next, n)
  <2> HIDE DEF n, next
  <2> QED
    BY <1>1, <1>2, RecursionExists
<1>4. e = G(e)
  <2>1. ASSUME NEW k \in 0 .. n
        PROVE  e[k] = IF k = 0 THEN b ELSE Buffer!Put(e[k - 1], puts[k])
    <3>1. CASE k = 0
      BY <1>3, <3>1 DEF Recurs
    <3>2. CASE k # 0
      <4>1. k \in 1 .. n /\ k - 1 \in 0 .. n
        BY <3>2
      <4>2. e[k] = next[k][e[k - 1]] /\ e[k - 1] \in Buffers
        BY <1>3, <4>1 DEF Recurs
      <4> QED
        BY <3>2, <4>1, <4>2
    <3> QED
      BY <3>1, <3>2
  <2> QED
    BY <2>1
<1>5. after = G(after)
  <2> HIDE DEF G
  <2> QED
    BY <1>4
<1>6. PutAll(b, puts) = after[n]
  BY DEF PutAll
<1> HIDE DEF after
<1>7. PICK f \in [0 .. n -> Seq(Cells)] : Joins(f, puts, n)
  BY JoinsExist
<1>8. FlattenSeq(puts) = f[n]
  BY <1>7, FlattenJoins
<1>9. ASSUME NEW k \in 1 .. n
      PROVE  /\ k - 1 \in 0 .. n /\ puts[k] \in Seq(Cells) /\ f[k - 1] \in Seq(Cells)
             /\ f[k] = f[k - 1] \o puts[k] /\ Len(f[k]) = Len(f[k - 1]) + Len(puts[k])
  <2>1. k - 1 \in 0 .. n /\ puts[k] \in Seq(Cells)
    OBVIOUS
  <2>2. f[k - 1] \in Seq(Cells) /\ f[k] = f[k - 1] \o puts[k]
    BY <1>7, <2>1 DEF Joins
  <2> QED
    BY <2>1, <2>2
<1>10. \A k \in 0 .. n : Len(f[k]) <= Capacity
  <2> DEFINE S == {j \in 0 .. n : Len(f[n - j]) <= Capacity}
  <2>1. 0 \in S
    BY <1>1, <1>8
  <2>2. ASSUME NEW j \in 0 .. n - 1, j \in S
        PROVE  j + 1 \in S
    <3>1. n - j \in 1 .. n /\ j + 1 \in 0 .. n /\ (n - j) - 1 = n - (j + 1)
      BY <1>1
    <3>2. Len(f[n - j]) <= Capacity
      BY <2>2
    <3>3. Len(puts[n - j]) \in Nat /\ Len(f[(n - j) - 1]) \in Nat
      BY <1>9, <3>1
    <3>4. Len(f[n - j]) = Len(f[(n - j) - 1]) + Len(puts[n - j])
      BY <1>9, <3>1
    <3>5. Len(f[(n - j) - 1]) <= Capacity
      <4>1. PICK a \in Nat : a = Len(f[(n - j) - 1])
        BY <3>3
      <4>2. PICK d \in Nat : d = Len(puts[n - j])
        BY <3>3
      <4>3. a + d <= Capacity
        BY <3>2, <3>4, <4>1, <4>2
      <4> QED
        BY <4>1, <4>3, PacketAssumption
    <3>6. Len(f[n - (j + 1)]) <= Capacity
      BY <3>1, <3>5
    <3> QED
      BY <3>1, <3>6
  <2>3. \A j \in 0 .. n : j \in S
    <3> HIDE DEF S
    <3> QED
      BY <1>1, <2>1, <2>2, UpTo
  <2>4. ASSUME NEW k \in 0 .. n
        PROVE  Len(f[k]) <= Capacity
    <3>1. n - k \in 0 .. n /\ n - (n - k) = k
      BY <1>1
    <3>2. n - k \in S
      BY <2>3, <3>1
    <3> QED
      BY <3>1, <3>2
  <2> QED
    BY <2>4
<1>11. \A k \in 0 .. n : Holds(after[k], f[k])
  <2> DEFINE S == {k \in 0 .. n : Holds(after[k], f[k])}
  <2>1. 0 \in S
    BY <1>1, <1>5, <1>7 DEF Joins
  <2>2. ASSUME NEW k \in 0 .. n - 1, k \in S
        PROVE  k + 1 \in S
    <3>1. k + 1 \in 1 .. n /\ k + 1 \in 0 .. n /\ (k + 1) - 1 = k /\ k + 1 # 0
      BY <1>1
    <3>2. after[k + 1] = Buffer!Put(after[k], puts[k + 1])
      BY <1>5, <3>1
    <3>3. Len(f[k]) + Len(puts[k + 1]) <= Capacity
      BY <1>9, <1>10, <3>1
    <3>4. /\ f[k] \in Seq(Cells) /\ puts[k + 1] \in Seq(Cells)
          /\ f[k + 1] = f[k] \o puts[k + 1]
      BY <1>9, <3>1
    <3>5. Holds(after[k], f[k])
      BY <2>2
    <3>6. Holds(Buffer!Put(after[k], puts[k + 1]), f[k] \o puts[k + 1])
      BY <3>3, <3>4, <3>5, PutHolds
    <3> QED
      BY <3>1, <3>2, <3>4, <3>6
  <2> HIDE DEF S
  <2>3. \A k \in 0 .. n : k \in S
    BY <1>1, <2>1, <2>2, UpTo
  <2> QED
    BY <2>3 DEF S
<1> QED
  BY <1>1, <1>6, <1>8, <1>11

-----------------------------------------------------------------------------
\* The packets of the builders are those of the protocol header.

LEMMA ListOfFour ==
  ASSUME NEW S, NEW a \in S, NEW b \in S, NEW c \in S, NEW d \in S
  PROVE  <<a>> \o <<b, c, d>> = <<a, b, c, d>>
<1> DEFINE x == <<a>> \o <<b, c, d>>
<1>1. <<a>> \in Seq(S) /\ <<b, c, d>> \in Seq(S) /\ Len(<<a>>) = 1 /\ Len(<<b, c, d>>) = 3
  OBVIOUS
<1>2. x \in Seq(S) /\ Len(x) = 4
  BY <1>1
<1>3. x[1] = a /\ x[2] = b /\ x[3] = c /\ x[4] = d
  BY <1>1
<1> HIDE DEF x
<1>4. x = <<a, b, c, d>>
  BY <1>2, <1>3
<1> QED
  BY <1>4 DEF x

LEMMA ListOfFive ==
  ASSUME NEW S, NEW a \in S, NEW b \in S, NEW c \in S, NEW d \in S, NEW e \in S
  PROVE  <<a>> \o <<b, c, d, e>> = <<a, b, c, d, e>>
<1> DEFINE x == <<a>> \o <<b, c, d, e>>
<1>1. /\ <<a>> \in Seq(S) /\ <<b, c, d, e>> \in Seq(S)
      /\ Len(<<a>>) = 1 /\ Len(<<b, c, d, e>>) = 4
  OBVIOUS
<1>2. x \in Seq(S) /\ Len(x) = 5
  BY <1>1
<1>3. x[1] = a /\ x[2] = b /\ x[3] = c /\ x[4] = d /\ x[5] = e
  BY <1>1
<1> HIDE DEF x
<1>4. x = <<a, b, c, d, e>>
  BY <1>2, <1>3
<1> QED
  BY <1>4 DEF x

LEMMA FourthOne ==
  ASSUME NEW S, NEW a \in S, NEW b \in S, NEW c \in S, NEW d \in S
  PROVE  Append(<<a, b, c>>, d) = <<a, b, c, d>>
<1> DEFINE x == Append(<<a, b, c>>, d)
<1>1. <<a, b, c>> \in Seq(S) /\ Len(<<a, b, c>>) = 3
  OBVIOUS
<1>2. x \in Seq(S) /\ Len(x) = 4
  BY <1>1
<1>3. x[1] = a /\ x[2] = b /\ x[3] = c /\ x[4] = d
  BY <1>1
<1> HIDE DEF x
<1>4. x = <<a, b, c, d>>
  BY <1>2, <1>3
<1> QED
  BY <1>4 DEF x

LEMMA CreateLayout ==
  ASSUME NEW t \in {"SC_CREATE_MY_CHARACTER", "SC_CREATE_OTHER_CHARACTER"}
  PROVE  Layout(t) =
           <<<<"ID", 4>>, <<"Direction", 1>>, <<"X", 2>>, <<"Y", 2>>, <<"HP", 1>>>>
<1> DEFINE i == <<"ID", 4>>
           d == <<"Direction", 1>>
           x == <<"X", 2>>
           y == <<"Y", 2>>
           h == <<"HP", 1>>
<1>1. Layout(t) = Named(Append(Placement, h))
  BY DEF Layout
<1>3. Placement = <<d, x, y>>
  BY DEF Placement
<1> HIDE DEF i, d, x, y, h
<1>2. \E S : i \in S /\ d \in S /\ x \in S /\ y \in S /\ h \in S
  <2>1. /\ i \in {i, d, x, y, h} /\ d \in {i, d, x, y, h} /\ x \in {i, d, x, y, h}
        /\ y \in {i, d, x, y, h} /\ h \in {i, d, x, y, h}
    OBVIOUS
  <2> QED
    BY <2>1
<1>4. Append(Placement, h) = <<d, x, y, h>>
  BY <1>2, <1>3, FourthOne
<1>5. Layout(t) = <<i, d, x, y, h>>
  BY <1>1, <1>2, <1>4, ListOfFive DEF Named, i
<1> QED
  BY <1>5 DEF i, d, x, y, h

LEMMA ActionLayout ==
  ASSUME NEW t \in {"SC_MOVE_START", "SC_MOVE_STOP", "SC_ATTACK1", "SC_ATTACK2",
                    "SC_ATTACK3"}
  PROVE  Layout(t) = <<<<"ID", 4>>, <<"Direction", 1>>, <<"X", 2>>, <<"Y", 2>>>>
<1> DEFINE i == <<"ID", 4>>
           d == <<"Direction", 1>>
           x == <<"X", 2>>
           y == <<"Y", 2>>
<1>1. Layout(t) = Named(Placement)
  BY DEF Layout
<1>3. Placement = <<d, x, y>>
  BY DEF Placement
<1> HIDE DEF i, d, x, y
<1>2. \E S : i \in S /\ d \in S /\ x \in S /\ y \in S
  <2>1. /\ i \in {i, d, x, y} /\ d \in {i, d, x, y} /\ x \in {i, d, x, y}
        /\ y \in {i, d, x, y}
    OBVIOUS
  <2> QED
    BY <2>1
<1>4. Layout(t) = <<i, d, x, y>>
  BY <1>1, <1>2, <1>3, ListOfFour DEF Named, i
<1> QED
  BY <1>4 DEF i, d, x, y

LEMMA DeleteLayout == Layout("SC_DELETE_CHARACTER") = <<<<"ID", 4>>>>
<1>1. Layout("SC_DELETE_CHARACTER") = Named(<<>>)
  BY DEF Layout
<1> QED
  BY <1>1 DEF Named

LEMMA SyncLayout == Layout("SC_SYNC") = <<<<"ID", 4>>, <<"X", 2>>, <<"Y", 2>>>>
<1>1. Layout("SC_SYNC") = Named(<<<<"X", 2>>, <<"Y", 2>>>>)
  BY DEF Layout
<1> QED
  BY <1>1 DEF Named

LEMMA DamageLayout ==
  Layout("SC_DAMAGE") = <<<<"AttackID", 4>>, <<"DamageID", 4>>, <<"DamageHP", 1>>>>
BY DEF Layout

LEMMA EchoLayout ==
  ASSUME NEW t \in {"SC_ECHO", "CS_ECHO"}
  PROVE  Layout(t) = <<<<"Time", 4>>>>
BY DEF Layout

LEMMA ClientLayout ==
  ASSUME NEW t \in ClientTypes \ {"CS_ECHO"}
  PROVE  Layout(t) = <<<<"Direction", 1>>, <<"X", 2>>, <<"Y", 2>>>>
BY DEF Layout, ClientTypes, Placement

\* The operands of a builder are the code and the n fields, in order.
Operands(puts, t, of, n) ==
  /\ puts \in Seq(Seq(Cells)) /\ Len(puts) = n + 1 /\ puts[1] = Code(t)
  /\ DOMAIN Layout(t) = 1 .. n
  /\ \A i \in 1 .. n : puts[i + 1] = Bytes(of[Layout(t)[i][1]], Layout(t)[i][2])

LEMMA PutsAreWire ==
  ASSUME NEW t, NEW of, NEW n \in Nat, NEW puts, Operands(puts, t, of, n)
  PROVE  FlattenSeq(puts) = Wire(t, of)
<1> USE DEF Operands
<1> DEFINE fields == [i \in DOMAIN Layout(t) |->
                        Bytes(of[Layout(t)[i][1]], Layout(t)[i][2])]
<1>1. ASSUME NEW i \in 1 .. n
      PROVE  puts[i + 1] = fields[i] /\ fields[i] \in Seq(Cells)
  <2>1. i + 1 \in 1 .. Len(puts)
    OBVIOUS
  <2>2. puts[i + 1] \in Seq(Cells)
    BY <2>1
  <2> QED
    BY <2>2
<1>2. fields = [i \in 1 .. n |-> fields[i]]
  OBVIOUS
<1>3. Wire(t, of) = Code(t) \o FlattenSeq(fields)
  BY DEF Wire
<1> HIDE DEF fields
<1>4. fields \in [1 .. n -> Seq(Cells)]
  BY <1>1, <1>2
<1>5. fields \in Seq(Seq(Cells)) /\ Len(fields) = n
  <2> DEFINE X == Seq(Cells)
  <2>1. fields \in [1 .. n -> X]
    BY <1>4
  <2> HIDE DEF X
  <2>2. fields \in Seq(X) /\ Len(fields) = n
    BY <2>1
  <2> QED
    BY <2>2 DEF X
<1>6. Code(t) \in Seq(Cells)
  <2>1. 1 \in 1 .. Len(puts)
    OBVIOUS
  <2> QED
    BY <2>1
<1>7. FlattenSeq(puts) = Code(t) \o FlattenSeq(fields)
  BY <1>1, <1>5, <1>6, FlattenInFront
<1> QED
  BY <1>3, <1>7

\* What the i-th of at most six lists has, and what all of them have.
Share(seqs, i) == IF i <= Len(seqs) THEN Len(seqs[i]) ELSE 0
Total(seqs) ==
  Share(seqs, 1) + Share(seqs, 2) + Share(seqs, 3)
  + Share(seqs, 4) + Share(seqs, 5) + Share(seqs, 6)

LEMMA FlattenLength ==
  ASSUME NEW C, NEW seqs \in Seq(Seq(C)), Len(seqs) <= 6
  PROVE  Len(FlattenSeq(seqs)) = Total(seqs)
<1> DEFINE n == Len(seqs)
<1>1. PICK f \in [0 .. n -> Seq(C)] : Joins(f, seqs, n)
  BY JoinsExist
<1> DEFINE g == [i \in 0 .. 6 |-> IF i <= n THEN Len(f[i]) ELSE Len(f[n])]
<1>2. n \in 0 .. 6
  <2>1. Len(seqs) \in Nat
    OBVIOUS
  <2> HIDE DEF n
  <2>2. n \in Nat /\ n <= 6
    BY <2>1 DEF n
  <2> QED
    BY <2>2
<1>3. ASSUME NEW i \in 1 .. 6
      PROVE  g[i] = g[i - 1] + Share(seqs, i) /\ Share(seqs, i) \in Nat
  <2>0. i \in 0 .. 6 /\ i - 1 \in 0 .. 6
    OBVIOUS
  <2>1. CASE i <= n
    <3>1. i \in 1 .. n /\ i - 1 \in 0 .. n /\ i - 1 <= n
      BY <1>2, <2>1
    <3>2. seqs[i] \in Seq(C) /\ f[i - 1] \in Seq(C) /\ f[i] = f[i - 1] \o seqs[i]
      <4>1. seqs[i] \in Seq(C)
        BY <3>1
      <4>2. f[i - 1] \in Seq(C)
        BY <3>1
      <4> QED
        BY <1>1, <3>1, <4>1, <4>2 DEF Joins
    <3>3. Len(f[i]) = Len(f[i - 1]) + Len(seqs[i]) /\ Len(seqs[i]) \in Nat
      BY <3>2
    <3> QED
      BY <2>0, <2>1, <3>1, <3>3 DEF Share
  <2>2. CASE ~(i <= n)
    <3>1. g[i] = Len(f[n])
      BY <2>0, <2>2
    <3>2. g[i - 1] = Len(f[n])
      <4>1. i - 1 = n \/ ~(i - 1 <= n)
        BY <1>2, <2>2
      <4> QED
        BY <2>0, <4>1
    <3>3. Share(seqs, i) = 0
      BY <2>2 DEF Share
    <3>4. Len(f[n]) \in Nat
      BY <1>2
    <3> QED
      BY <3>1, <3>2, <3>3, <3>4
  <2> QED
    BY <2>1, <2>2
<1>4. g[0] = 0
  BY <1>1, <1>2 DEF Joins
<1>5. g[6] = Len(FlattenSeq(seqs))
  <2>1. FlattenSeq(seqs) = f[n]
    BY <1>1, FlattenJoins
  <2>2. g[6] = Len(f[n])
    BY <1>2
  <2> QED
    BY <2>1, <2>2
<1> HIDE DEF g
<1>6. /\ g[1] = g[0] + Share(seqs, 1) /\ g[2] = g[1] + Share(seqs, 2)
      /\ g[3] = g[2] + Share(seqs, 3) /\ g[4] = g[3] + Share(seqs, 4)
      /\ g[5] = g[4] + Share(seqs, 5) /\ g[6] = g[5] + Share(seqs, 6)
  BY <1>3
<1>7. \A i \in 1 .. 6 : Share(seqs, i) \in Nat
  BY <1>3
<1> QED
  BY <1>4, <1>5, <1>6, <1>7 DEF Total

\* A builder writes the packet of type t with the values of.
Means(puts, t, of) ==
  /\ puts \in Seq(Seq(Cells))
  /\ FlattenSeq(puts) = Wire(t, of)
  /\ Wire(t, of) \in Seq(Cells)
  /\ Len(FlattenSeq(puts)) <= Capacity

\* The same for a builder whose operands are known to be those of t.
LEMMA OperandsMean ==
  ASSUME NEW t, NEW of, NEW n \in 1 .. 5, NEW puts, Operands(puts, t, of, n),
         Total(puts) <= 12
  PROVE  Means(puts, t, of)
<1>1. FlattenSeq(puts) = Wire(t, of)
  BY PutsAreWire
<1>2. puts \in Seq(Seq(Cells)) /\ Len(puts) <= 6
  BY DEF Operands
<1>3. FlattenSeq(puts) \in Seq(Cells) /\ Len(FlattenSeq(puts)) <= 12
  BY <1>2, FlattenType, FlattenLength
<1>4. Len(FlattenSeq(puts)) \in Nat
  BY <1>3
<1>5. Len(FlattenSeq(puts)) <= Capacity
  BY <1>3, <1>4, PacketAssumption
<1> QED
  BY <1>1, <1>2, <1>3, <1>5 DEF Means

LEMMA MemberTypes ==
  ASSUME NEW c \in Others \cup {Me}
  PROVE  /\ Member(c).characterID = Bytes(<<"id", c>>, 4)
         /\ Member(c).xPos = Bytes(<<"x", c>>, 2) /\ Member(c).yPos = Bytes(<<"y", c>>, 2)
         /\ Member(c).stop2Dir = Bytes(<<"stop2Dir", c>>, 1)
         /\ Member(c).move8Dir = Bytes(<<"move8Dir", c>>, 1)
         /\ Member(c).hp = Bytes(<<"hp", c>>, 1)
         /\ <<"id", c>> \in Values /\ <<"x", c>> \in Values /\ <<"y", c>> \in Values
         /\ <<"stop2Dir", c>> \in Values /\ <<"move8Dir", c>> \in Values
         /\ <<"hp", c>> \in Values
BY DEF Member, Values, Words, DWORD, WORD, BYTE

LEMMA CreateMeans ==
  ASSUME NEW t \in {"SC_CREATE_MY_CHARACTER", "SC_CREATE_OTHER_CHARACTER"},
         NEW c \in Others \cup {Me}
  PROVE  Means(MakePacketCreate(t, c), t, About(c, "stop2Dir"))
<1> DEFINE of == About(c, "stop2Dir")
           o == Code(t)
           i == Bytes(<<"id", c>>, 4)
           d == Bytes(<<"stop2Dir", c>>, 1)
           x == Bytes(<<"x", c>>, 2)
           y == Bytes(<<"y", c>>, 2)
           h == Bytes(<<"hp", c>>, 1)
           puts == <<o, i, d, x, y, h>>
           C == Seq(Cells)
<1>1. /\ o \in C /\ i \in C /\ d \in C /\ x \in C /\ y \in C /\ h \in C
      /\ Len(o) = 2 /\ Len(i) = 4 /\ Len(d) = 1 /\ Len(x) = 2 /\ Len(y) = 2 /\ Len(h) = 1
  <2>1. t \in ClientTypes \cup ServerTypes \cup {Unknown}
    BY DEF ServerTypes
  <2> QED
    BY <2>1, MemberTypes, BytesType, CodeType
<1>2. /\ Bytes(of["ID"], 4) = i /\ Bytes(of["Direction"], 1) = d /\ Bytes(of["X"], 2) = x
      /\ Bytes(of["Y"], 2) = y /\ Bytes(of["HP"], 1) = h
  BY DEF About
<1>3. MakePacketCreate(t, c) = puts
  BY MemberTypes DEF MakePacketCreate
<1>4. DOMAIN Layout(t) = 1 .. 5
  BY CreateLayout
<1>5. /\ Layout(t)[1][1] = "ID" /\ Layout(t)[1][2] = 4
      /\ Layout(t)[2][1] = "Direction" /\ Layout(t)[2][2] = 1
      /\ Layout(t)[3][1] = "X" /\ Layout(t)[3][2] = 2
      /\ Layout(t)[4][1] = "Y" /\ Layout(t)[4][2] = 2
      /\ Layout(t)[5][1] = "HP" /\ Layout(t)[5][2] = 1
  BY CreateLayout
<1> HIDE DEF o, i, d, x, y, h, of, C
<1>6. puts \in Seq(C) /\ Len(puts) = 6 /\ puts[1] = o
  BY <1>1
<1>7. \A k \in 1 .. 5 : puts[k + 1] = Bytes(of[Layout(t)[k][1]], Layout(t)[k][2])
  BY <1>2, <1>5
<1>8. Total(puts) <= 12
  <2>1. /\ Share(puts, 1) = 2 /\ Share(puts, 2) = 4 /\ Share(puts, 3) = 1
        /\ Share(puts, 4) = 2 /\ Share(puts, 5) = 2 /\ Share(puts, 6) = 1
    BY <1>1 DEF Share
  <2> QED
    BY <2>1 DEF Total
<1> HIDE DEF puts
<1>9. puts \in Seq(Seq(Cells)) /\ puts[1] = Code(t)
  BY <1>6 DEF C, o
<1>10. Operands(puts, t, of, 5)
  BY <1>4, <1>6, <1>7, <1>9 DEF Operands
<1>11. Means(puts, t, of)
  BY <1>8, <1>10, OperandsMean
<1> QED
  BY <1>3, <1>11 DEF of

LEMMA DeleteMeans ==
  ASSUME NEW c \in Others \cup {Me}
  PROVE  Means(MakePacketDeleteCharacter(Member(c).characterID), "SC_DELETE_CHARACTER",
               About(c, "stop2Dir"))
<1> DEFINE t == "SC_DELETE_CHARACTER"
           of == About(c, "stop2Dir")
           o == Code(t)
           i == Bytes(<<"id", c>>, 4)
           puts == <<o, i>>
           C == Seq(Cells)
<1>1. /\ o \in C /\ i \in C
      /\ Len(o) = 2 /\ Len(i) = 4
  <2>1. t \in ClientTypes \cup ServerTypes \cup {Unknown}
    BY DEF ServerTypes
  <2> QED
    BY <2>1, MemberTypes, BytesType, CodeType
<1>2. Bytes(of["ID"], 4) = i
  BY DEF About
<1>3. MakePacketDeleteCharacter(Member(c).characterID) = puts
  BY MemberTypes DEF MakePacketDeleteCharacter
<1>4. DOMAIN Layout(t) = 1 .. 1
  BY DeleteLayout
<1>5. /\ Layout(t)[1][1] = "ID" /\ Layout(t)[1][2] = 4
  BY DeleteLayout
<1> HIDE DEF o, i, of, C
<1>6. puts \in Seq(C) /\ Len(puts) = 2 /\ puts[1] = o
  BY <1>1
<1>7. \A k \in 1 .. 1 : puts[k + 1] = Bytes(of[Layout(t)[k][1]], Layout(t)[k][2])
  BY <1>2, <1>5
<1>8. Total(puts) <= 12
  <2>1. /\ Share(puts, 1) = 2 /\ Share(puts, 2) = 4 /\ Share(puts, 3) = 0
        /\ Share(puts, 4) = 0 /\ Share(puts, 5) = 0 /\ Share(puts, 6) = 0
    BY <1>1 DEF Share
  <2> QED
    BY <2>1 DEF Total
<1> HIDE DEF puts
<1>9. puts \in Seq(Seq(Cells)) /\ puts[1] = Code(t)
  BY <1>6 DEF C, o
<1>10. Operands(puts, t, of, 1)
  BY <1>4, <1>6, <1>7, <1>9 DEF Operands
<1>11. Means(puts, t, of)
  BY <1>8, <1>10, OperandsMean
<1> QED
  BY <1>3, <1>11 DEF of, t

LEMMA SyncMeans ==
  ASSUME NEW c \in Others \cup {Me}
  PROVE  Means(MakePacketSyncXYPos(Member(c).characterID, Member(c).xPos, Member(c).yPos),
               "SC_SYNC", About(c, "stop2Dir"))
<1> DEFINE t == "SC_SYNC"
           of == About(c, "stop2Dir")
           o == Code(t)
           i == Bytes(<<"id", c>>, 4)
           x == Bytes(<<"x", c>>, 2)
           y == Bytes(<<"y", c>>, 2)
           puts == <<o, i, x, y>>
           C == Seq(Cells)
<1>1. /\ o \in C /\ i \in C /\ x \in C /\ y \in C
      /\ Len(o) = 2 /\ Len(i) = 4 /\ Len(x) = 2 /\ Len(y) = 2
  <2>1. t \in ClientTypes \cup ServerTypes \cup {Unknown}
    BY DEF ServerTypes
  <2> QED
    BY <2>1, MemberTypes, BytesType, CodeType
<1>2. Bytes(of["ID"], 4) = i /\ Bytes(of["X"], 2) = x /\ Bytes(of["Y"], 2) = y
  BY DEF About
<1>3. MakePacketSyncXYPos(Member(c).characterID, Member(c).xPos, Member(c).yPos) = puts
  BY MemberTypes DEF MakePacketSyncXYPos
<1>4. DOMAIN Layout(t) = 1 .. 3
  BY SyncLayout
<1>5. /\ Layout(t)[1][1] = "ID" /\ Layout(t)[1][2] = 4
      /\ Layout(t)[2][1] = "X" /\ Layout(t)[2][2] = 2
      /\ Layout(t)[3][1] = "Y" /\ Layout(t)[3][2] = 2
  BY SyncLayout
<1> HIDE DEF o, i, x, y, of, C
<1>6. puts \in Seq(C) /\ Len(puts) = 4 /\ puts[1] = o
  BY <1>1
<1>7. \A k \in 1 .. 3 : puts[k + 1] = Bytes(of[Layout(t)[k][1]], Layout(t)[k][2])
  BY <1>2, <1>5
<1>8. Total(puts) <= 12
  <2>1. /\ Share(puts, 1) = 2 /\ Share(puts, 2) = 4 /\ Share(puts, 3) = 2
        /\ Share(puts, 4) = 2 /\ Share(puts, 5) = 0 /\ Share(puts, 6) = 0
    BY <1>1 DEF Share
  <2> QED
    BY <2>1 DEF Total
<1> HIDE DEF puts
<1>9. puts \in Seq(Seq(Cells)) /\ puts[1] = Code(t)
  BY <1>6 DEF C, o
<1>10. Operands(puts, t, of, 3)
  BY <1>4, <1>6, <1>7, <1>9 DEF Operands
<1>11. Means(puts, t, of)
  BY <1>8, <1>10, OperandsMean
<1> QED
  BY <1>3, <1>11 DEF of, t

LEMMA ActionMeans ==
  ASSUME NEW t \in {"SC_MOVE_START", "SC_MOVE_STOP", "SC_ATTACK1", "SC_ATTACK2",
                    "SC_ATTACK3"},
         NEW c \in Others \cup {Me}, NEW u \in Values, NEW v \in Values, NEW w \in Values,
         NEW of, of.ID = <<"id", c>>, of.Direction = u, of.X = v, of.Y = w
  PROVE  Means(MakePacketAction(t, Member(c).characterID, Bytes(u, 1), Bytes(v, 2),
                                Bytes(w, 2)), t, of)
<1> DEFINE o == Code(t)
           i == Bytes(<<"id", c>>, 4)
           d == Bytes(u, 1)
           x == Bytes(v, 2)
           y == Bytes(w, 2)
           puts == <<o, i, d, x, y>>
           C == Seq(Cells)
<1>1. /\ o \in C /\ i \in C /\ d \in C /\ x \in C /\ y \in C
      /\ Len(o) = 2 /\ Len(i) = 4 /\ Len(d) = 1 /\ Len(x) = 2 /\ Len(y) = 2
  <2>1. t \in ClientTypes \cup ServerTypes \cup {Unknown}
    BY DEF ServerTypes
  <2> QED
    BY <2>1, MemberTypes, BytesType, CodeType
<1>2. /\ Bytes(of["ID"], 4) = i /\ Bytes(of["Direction"], 1) = d
      /\ Bytes(of["X"], 2) = x /\ Bytes(of["Y"], 2) = y
  OBVIOUS
<1>3. MakePacketAction(t, Member(c).characterID, Bytes(u, 1), Bytes(v, 2), Bytes(w, 2))
        = puts
  BY MemberTypes DEF MakePacketAction
<1>4. DOMAIN Layout(t) = 1 .. 4
  BY ActionLayout
<1>5. /\ Layout(t)[1][1] = "ID" /\ Layout(t)[1][2] = 4
      /\ Layout(t)[2][1] = "Direction" /\ Layout(t)[2][2] = 1
      /\ Layout(t)[3][1] = "X" /\ Layout(t)[3][2] = 2
      /\ Layout(t)[4][1] = "Y" /\ Layout(t)[4][2] = 2
  BY ActionLayout
<1> HIDE DEF o, i, d, x, y, C
<1>6. puts \in Seq(C) /\ Len(puts) = 5 /\ puts[1] = o
  BY <1>1
<1>7. \A k \in 1 .. 4 : puts[k + 1] = Bytes(of[Layout(t)[k][1]], Layout(t)[k][2])
  BY <1>2, <1>5
<1>8. Total(puts) <= 12
  <2>1. /\ Share(puts, 1) = 2 /\ Share(puts, 2) = 4 /\ Share(puts, 3) = 1
        /\ Share(puts, 4) = 2 /\ Share(puts, 5) = 2 /\ Share(puts, 6) = 0
    BY <1>1 DEF Share
  <2> QED
    BY <2>1 DEF Total
<1> HIDE DEF puts
<1>9. puts \in Seq(Seq(Cells)) /\ puts[1] = Code(t)
  BY <1>6 DEF C, o
<1>10. Operands(puts, t, of, 4)
  BY <1>4, <1>6, <1>7, <1>9 DEF Operands
<1>11. Means(puts, t, of)
  BY <1>8, <1>10, OperandsMean
<1> QED
  BY <1>3, <1>11

LEMMA MoveStartMeans ==
  ASSUME NEW c \in Others \cup {Me}
  PROVE  Means(MakePacketMoveStart(c), "SC_MOVE_START", About(c, "move8Dir"))
<1> DEFINE of == About(c, "move8Dir")
           u == <<"move8Dir", c>>
           v == <<"x", c>>
           w == <<"y", c>>
<1>1. /\ u \in Values /\ v \in Values /\ w \in Values
      /\ MakePacketMoveStart(c) =
           MakePacketAction("SC_MOVE_START", Member(c).characterID, Bytes(u, 1),
                            Bytes(v, 2), Bytes(w, 2))
  BY MemberTypes DEF MakePacketMoveStart
<1>2. of.ID = <<"id", c>> /\ of.Direction = u /\ of.X = v /\ of.Y = w
  BY DEF About
<1> HIDE DEF of, u, v, w
<1>3. Means(MakePacketMoveStart(c), "SC_MOVE_START", of)
  BY <1>1, <1>2, ActionMeans
<1> QED
  BY <1>3 DEF of

LEMMA DamageMeans ==
  ASSUME NEW a \in Others \cup {Me}, NEW c \in Others \cup {Me}
  PROVE  Means(MakePacketDamage(Member(a).characterID, Member(c).characterID,
                                Member(c).hp),
               "SC_DAMAGE", [AttackID |-> <<"id", a>>, DamageID |-> <<"id", c>>,
                             DamageHP |-> <<"hp", c>>])
<1> DEFINE t == "SC_DAMAGE"
           of == [AttackID |-> <<"id", a>>, DamageID |-> <<"id", c>>,
                  DamageHP |-> <<"hp", c>>]
           o == Code(t)
           i == Bytes(<<"id", a>>, 4)
           d == Bytes(<<"id", c>>, 4)
           h == Bytes(<<"hp", c>>, 1)
           puts == <<o, i, d, h>>
           C == Seq(Cells)
<1>1. /\ o \in C /\ i \in C /\ d \in C /\ h \in C
      /\ Len(o) = 2 /\ Len(i) = 4 /\ Len(d) = 4 /\ Len(h) = 1
  <2>1. t \in ClientTypes \cup ServerTypes \cup {Unknown}
    BY DEF ServerTypes
  <2> QED
    BY <2>1, MemberTypes, BytesType, CodeType
<1>2. /\ Bytes(of["AttackID"], 4) = i /\ Bytes(of["DamageID"], 4) = d
      /\ Bytes(of["DamageHP"], 1) = h
  OBVIOUS
<1>3. MakePacketDamage(Member(a).characterID, Member(c).characterID, Member(c).hp) = puts
  BY MemberTypes DEF MakePacketDamage
<1>4. DOMAIN Layout(t) = 1 .. 3
  BY DamageLayout
<1>5. /\ Layout(t)[1][1] = "AttackID" /\ Layout(t)[1][2] = 4
      /\ Layout(t)[2][1] = "DamageID" /\ Layout(t)[2][2] = 4
      /\ Layout(t)[3][1] = "DamageHP" /\ Layout(t)[3][2] = 1
  BY DamageLayout
<1> HIDE DEF o, i, d, h, of, C
<1>6. puts \in Seq(C) /\ Len(puts) = 4 /\ puts[1] = o
  BY <1>1
<1>7. \A k \in 1 .. 3 : puts[k + 1] = Bytes(of[Layout(t)[k][1]], Layout(t)[k][2])
  BY <1>2, <1>5
<1>8. Total(puts) <= 12
  <2>1. /\ Share(puts, 1) = 2 /\ Share(puts, 2) = 4 /\ Share(puts, 3) = 4
        /\ Share(puts, 4) = 1 /\ Share(puts, 5) = 0 /\ Share(puts, 6) = 0
    BY <1>1 DEF Share
  <2> QED
    BY <2>1 DEF Total
<1> HIDE DEF puts
<1>9. puts \in Seq(Seq(Cells)) /\ puts[1] = Code(t)
  BY <1>6 DEF C, o
<1>10. Operands(puts, t, of, 3)
  BY <1>4, <1>6, <1>7, <1>9 DEF Operands
<1>11. Means(puts, t, of)
  BY <1>8, <1>10, OperandsMean
<1> QED
  BY <1>3, <1>11 DEF of, t

LEMMA EchoMeans ==
  ASSUME NEW v \in Values
  PROVE  Means(MakePacketEcho(Bytes(v, 4)), "SC_ECHO", [Time |-> v])
<1> DEFINE t == "SC_ECHO"
           of == [Time |-> v]
           o == Code(t)
           i == Bytes(v, 4)
           puts == <<o, i>>
           C == Seq(Cells)
<1>1. /\ o \in C /\ i \in C
      /\ Len(o) = 2 /\ Len(i) = 4
  <2>1. t \in ClientTypes \cup ServerTypes \cup {Unknown}
    BY DEF ServerTypes
  <2> QED
    BY <2>1, MemberTypes, BytesType, CodeType
<1>2. Bytes(of["Time"], 4) = i
  OBVIOUS
<1>3. MakePacketEcho(Bytes(v, 4)) = puts
  BY DEF MakePacketEcho
<1>4. DOMAIN Layout(t) = 1 .. 1
  BY EchoLayout
<1>5. /\ Layout(t)[1][1] = "Time" /\ Layout(t)[1][2] = 4
  BY EchoLayout
<1> HIDE DEF o, i, of, C
<1>6. puts \in Seq(C) /\ Len(puts) = 2 /\ puts[1] = o
  BY <1>1
<1>7. \A k \in 1 .. 1 : puts[k + 1] = Bytes(of[Layout(t)[k][1]], Layout(t)[k][2])
  BY <1>2, <1>5
<1>8. Total(puts) <= 12
  <2>1. /\ Share(puts, 1) = 2 /\ Share(puts, 2) = 4 /\ Share(puts, 3) = 0
        /\ Share(puts, 4) = 0 /\ Share(puts, 5) = 0 /\ Share(puts, 6) = 0
    BY <1>1 DEF Share
  <2> QED
    BY <2>1 DEF Total
<1> HIDE DEF puts
<1>9. puts \in Seq(Seq(Cells)) /\ puts[1] = Code(t)
  BY <1>6 DEF C, o
<1>10. Operands(puts, t, of, 1)
  BY <1>4, <1>6, <1>7, <1>9 DEF Operands
<1>11. Means(puts, t, of)
  BY <1>8, <1>10, OperandsMean
<1> QED
  BY <1>3, <1>11 DEF of, t

-----------------------------------------------------------------------------
\* What a handler reads.

\* The bytes w were queued in b, and the first k of them are read.
Reading(b, w, k) ==
  /\ b \in Buffers
  /\ b.front = k /\ b.useSize = Len(w) - k
  /\ \A i \in 1 .. Len(w) : b.cells[i - 1] = w[i]

LEMMA ReadingStarts ==
  ASSUME NEW b, NEW w \in Seq(Cells), Holds(b, w)
  PROVE  Reading(b, w, 0)
BY DEF Holds, Reading

\* The m bytes behind the first k.
Part(w, k, m) == [i \in 1 .. m |-> w[k + i]]

\* >> gives the next bytes.
LEMMA GotPart ==
  ASSUME NEW b, NEW w \in Seq(Cells), NEW k \in Nat, Reading(b, w, k),
         NEW m \in Nat \ {0}, k + m <= Len(w), NEW old
  PROVE  Buffer!Got(b, m, old) = Part(w, k, m)
<1>1. PICK n \in Nat : n = Len(w)
  OBVIOUS
<1>2. /\ b \in Buffers /\ b.front = k /\ b.useSize = n - k /\ ~(b.useSize < m)
      /\ \A i \in 1 .. n : b.cells[i - 1] = w[i]
  BY <1>1 DEF Reading
<1>3. ASSUME NEW i \in 1 .. m
      PROVE  b.cells[b.front + i - 1] = w[k + i]
  <2>1. k + i \in 1 .. n
    BY <1>1
  <2> QED
    BY <1>2, <2>1
<1> QED
  BY <1>2, <1>3 DEF Buffer!Got, Buffer!Loaded, Part

LEMMA MovedOn ==
  ASSUME NEW b, NEW w \in Seq(Cells), NEW k \in Nat, Reading(b, w, k),
         NEW m \in Nat \ {0}, k + m <= Len(w)
  PROVE  Reading(Buffer!MovedFront(b, m), w, k + m)
<1>1. PICK n \in Nat : n = Len(w)
  OBVIOUS
<1>2. /\ b \in Buffers /\ b.front = k /\ b.useSize = n - k /\ ~(b.useSize < m)
      /\ \A i \in 1 .. n : b.cells[i - 1] = w[i]
  BY <1>1 DEF Reading
<1> DEFINE c == Buffer!MovedFront(b, m)
           f == b.front + m
           u == b.useSize - m
<1>4. c = [b EXCEPT !.front = f, !.useSize = u]
  BY <1>2 DEF Buffer!MovedFront
<1>5. b \in Buffer!BufferOf(Cells) /\ f \in 0 .. Capacity /\ u \in 0 .. Capacity
  <2>1. /\ b.useSize \in Nat /\ b.freeSize \in Nat /\ b.front \in Nat /\ b.rear \in Nat
        /\ b.front + b.useSize = b.rear /\ b.rear + b.freeSize = Capacity
    BY <1>2, FieldsOf
  <2> QED
    BY <1>1, <1>2, <2>1, FieldsOf, PacketAssumption
<1>6. /\ c \in Buffer!BufferOf(Cells) /\ c.cells = b.cells /\ c.front = f
      /\ c.useSize = u /\ c.rear = b.rear /\ c.freeSize = b.freeSize
  <2> HIDE DEF c, f, u
  <2> QED
    BY <1>4, <1>5 DEF Buffer!BufferOf
<1>7. Buffer!SizesAgree(c)
  <2>1. /\ b.useSize \in Nat /\ b.freeSize \in Nat /\ b.front \in Nat /\ b.rear \in Nat
        /\ b.front + b.useSize = b.rear /\ b.rear + b.freeSize = Capacity
    BY <1>2, FieldsOf
  <2> HIDE DEF c
  <2> QED
    BY <1>6, <2>1 DEF Buffer!SizesAgree
<1>8. Reading(c, w, k + m)
  <2> HIDE DEF c
  <2> QED
    BY <1>1, <1>2, <1>6, <1>7 DEF Reading, Buffers
<1> QED
  BY <1>8 DEF c

\* w is a with b behind it.
Joined(w, a, b) == w = a \o b

LEMMA FirstJoined ==
  ASSUME NEW f, NEW seqs, NEW n \in Nat, n # 0, Joins(f, seqs, n)
  PROVE  f[1] = <<>> \o seqs[1]
<1>1. ASSUME NEW i \in 1 .. n, i = 1
      PROVE  f[i] = <<>> \o seqs[i]
  <2>1. f[i] = f[i - 1] \o seqs[i] /\ f[0] = <<>>
    BY DEF Joins
  <2>2. i - 1 = 0
    BY <1>1
  <2> QED
    BY <2>1, <2>2
<1> QED
  BY <1>1

LEMMA FourJoined ==
  ASSUME NEW C, NEW a \in Seq(C), NEW b \in Seq(C), NEW c \in Seq(C), NEW d \in Seq(C)
  PROVE  \E u, v \in Seq(C) :
           Joined(u, a, b) /\ Joined(v, u, c) /\ Joined(FlattenSeq(<<a, b, c, d>>), v, d)
<1> DEFINE X == Seq(C)
           seqs == <<a, b, c, d>>
<1>1. seqs \in Seq(X) /\ Len(seqs) = 4
  <2> HIDE DEF X
  <2>1. a \in X /\ b \in X /\ c \in X /\ d \in X
    BY DEF X
  <2> QED
    BY <2>1
<1>2. seqs[1] = a /\ seqs[2] = b /\ seqs[3] = c /\ seqs[4] = d
  OBVIOUS
<1> HIDE DEF seqs
<1>3. PICK f \in [0 .. 4 -> Seq(C)] : Joins(f, seqs, 4)
  BY <1>1, JoinsExist
<1>4. f[1] = a
  BY <1>2, <1>3, FirstJoined
<1>5. \A i \in 1 .. 4 : f[i] = f[i - 1] \o seqs[i]
  BY <1>3 DEF Joins
<1>6. Joined(f[2], a, b) /\ f[2] \in Seq(C)
  <2>1. f[2] = f[1] \o seqs[2]
    BY <1>5
  <2> QED
    BY <1>2, <1>4, <2>1 DEF Joined
<1>7. Joined(f[3], f[2], c) /\ f[3] \in Seq(C)
  <2>1. f[3] = f[2] \o seqs[3]
    BY <1>5
  <2> QED
    BY <1>2, <2>1 DEF Joined
<1>8. Joined(f[4], f[3], d)
  <2>1. f[4] = f[3] \o seqs[4]
    BY <1>5
  <2> QED
    BY <1>2, <2>1 DEF Joined
<1>9. FlattenSeq(seqs) = f[4]
  BY <1>1, <1>3, FlattenJoins
<1> QED
  BY <1>6, <1>7, <1>8, <1>9 DEF seqs

LEMMA TwoJoined ==
  ASSUME NEW C, NEW a \in Seq(C), NEW b \in Seq(C)
  PROVE  Joined(FlattenSeq(<<a, b>>), a, b)
<1> DEFINE X == Seq(C)
           seqs == <<a, b>>
<1>1. seqs \in Seq(X) /\ Len(seqs) = 2
  <2> HIDE DEF X
  <2>1. a \in X /\ b \in X
    BY DEF X
  <2> QED
    BY <2>1
<1>2. seqs[1] = a /\ seqs[2] = b
  OBVIOUS
<1> HIDE DEF seqs
<1>3. PICK f \in [0 .. 2 -> Seq(C)] : Joins(f, seqs, 2)
  BY <1>1, JoinsExist
<1>4. f[1] = a
  BY <1>2, <1>3, FirstJoined
<1>5. \A i \in 1 .. 2 : f[i] = f[i - 1] \o seqs[i]
  BY <1>3 DEF Joins
<1>6. Joined(f[2], a, b)
  <2>1. f[2] = f[1] \o seqs[2]
    BY <1>5
  <2> QED
    BY <1>2, <1>4, <2>1 DEF Joined
<1>7. FlattenSeq(seqs) = f[2]
  BY <1>1, <1>3, FlattenJoins
<1> QED
  BY <1>6, <1>7 DEF seqs

\* The same, member by member.
JoinedAt(w, a, b) ==
  /\ Len(w) = Len(a) + Len(b)
  /\ \A i \in 1 .. Len(a) : w[i] = a[i]
  /\ \A i \in 1 .. Len(b) : w[Len(a) + i] = b[i]

LEMMA JoinedIs ==
  ASSUME NEW C, NEW a \in Seq(C), NEW b \in Seq(C), NEW w \in Seq(C), Joined(w, a, b)
  PROVE  JoinedAt(w, a, b)
BY DEF Joined, JoinedAt

Long(a, n) == Len(a) = n

\* The parts of four lists joined, and of two.
LEMMA PartsOfFour ==
  ASSUME NEW C, NEW a \in Seq(C), NEW b \in Seq(C), NEW c \in Seq(C), NEW d \in Seq(C),
         Long(a, 2), Long(b, 1), Long(c, 2), Long(d, 2), NEW u \in Seq(C),
         NEW v \in Seq(C), NEW w \in Seq(C), Joined(u, a, b), Joined(v, u, c),
         Joined(w, v, d)
  PROVE  /\ Long(w, 7)
         /\ Part(w, 0, 2) = a /\ Part(w, 2, 1) = b /\ Part(w, 3, 2) = c
         /\ Part(w, 5, 2) = d
<1>1. JoinedAt(u, a, b) /\ JoinedAt(v, u, c) /\ JoinedAt(w, v, d)
  BY JoinedIs
<1>2. Long(u, 3) /\ u[1] = a[1] /\ u[2] = a[2] /\ u[3] = b[1]
  BY <1>1 DEF Long, JoinedAt
<1>3. /\ Long(v, 5) /\ v[1] = u[1] /\ v[2] = u[2] /\ v[3] = u[3] /\ v[4] = c[1]
      /\ v[5] = c[2]
  BY <1>1, <1>2 DEF Long, JoinedAt
<1>4. /\ Long(w, 7)
      /\ w[1] = v[1] /\ w[2] = v[2] /\ w[3] = v[3] /\ w[4] = v[4] /\ w[5] = v[5]
      /\ w[6] = d[1] /\ w[7] = d[2]
  BY <1>1, <1>3 DEF Long, JoinedAt
<1>5. Part(w, 0, 2) = a
  BY <1>2, <1>3, <1>4 DEF Part, Long
<1>6. Part(w, 2, 1) = b
  BY <1>2, <1>3, <1>4 DEF Part, Long
<1>7. Part(w, 3, 2) = c
  BY <1>3, <1>4 DEF Part, Long
<1>8. Part(w, 5, 2) = d
  BY <1>4 DEF Part, Long
<1> QED
  BY <1>4, <1>5, <1>6, <1>7, <1>8

LEMMA TwoAndTwo ==
  ASSUME NEW C, NEW a \in Seq(C), NEW b \in Seq(C), Long(a, 2), Long(b, 2),
         NEW w \in Seq(C), Joined(w, a, b)
  PROVE  Long(w, 4) /\ Part(w, 0, 2) = a
<1>1. JoinedAt(w, a, b)
  BY JoinedIs
<1>2. Long(w, 4) /\ w[1] = a[1] /\ w[2] = a[2]
  BY <1>1 DEF JoinedAt, Long
<1>3. Part(w, 0, 2) = a
  BY <1>2 DEF Part, Long
<1> QED
  BY <1>2, <1>3

LEMMA TwoAndFour ==
  ASSUME NEW C, NEW a \in Seq(C), NEW b \in Seq(C), Long(a, 2), Long(b, 4),
         NEW w \in Seq(C), Joined(w, a, b)
  PROVE  /\ Long(w, 6)
         /\ Part(w, 0, 2) = a /\ Part(w, 2, 4) = b
<1>1. JoinedAt(w, a, b)
  BY JoinedIs
<1>2. /\ Long(w, 6)
      /\ w[1] = a[1] /\ w[2] = a[2] /\ w[3] = b[1] /\ w[4] = b[2] /\ w[5] = b[3]
      /\ w[6] = b[4]
  BY <1>1 DEF JoinedAt, Long
<1>3. Part(w, 0, 2) = a
  BY <1>2 DEF Part, Long
<1>4. Part(w, 2, 4) = b
  BY <1>2 DEF Part, Long
<1> QED
  BY <1>2, <1>3, <1>4

\* A packet of a client.
Packets == [type : ClientTypes \cup {Unknown}, number : 1 .. 2]

LEMMA WrittenType ==
  ASSUME NEW q \in Packets, NEW f \in {"Direction", "X", "Y", "Time"}
  PROVE  Written(q)[f] \in Values
<1>1. Written(q)[f] = <<f, ToString(q.number)>>
  BY DEF Written
<1>2. q.number = 1 \/ q.number = 2
  BY DEF Packets
<1>3. ToString(q.number) \in {ToString(1), ToString(2)}
  BY <1>2
<1>4. ToString(q.number) \in Words /\ f \in Words
  BY <1>3 DEF Words
<1> QED
  BY <1>1, <1>4 DEF Values

\* The fields of an action, and those of an echo.
LEMMA ActionPayload ==
  ASSUME NEW q \in Packets, q.type \in ClientTypes \ {"CS_ECHO"}
  PROVE  /\ Payload(q) \in Seq(Cells) /\ Long(Payload(q), 7)
         /\ Part(Payload(q), 0, 2) = Code(q.type)
         /\ Part(Payload(q), 2, 1) = Bytes(Written(q)["Direction"], 1)
         /\ Part(Payload(q), 3, 2) = Bytes(Written(q)["X"], 2)
         /\ Part(Payload(q), 5, 2) = Bytes(Written(q)["Y"], 2)
<1> DEFINE t == q.type
           of == Written(q)
           o == Code(t)
           d == Bytes(of["Direction"], 1)
           x == Bytes(of["X"], 2)
           y == Bytes(of["Y"], 2)
           puts == <<o, d, x, y>>
           C == Seq(Cells)
           w == Payload(q)
<1>1. /\ o \in C /\ d \in C /\ x \in C /\ y \in C
      /\ Len(o) = 2 /\ Len(d) = 1 /\ Len(x) = 2 /\ Len(y) = 2
  <2>1. t \in ClientTypes \cup ServerTypes \cup {Unknown}
    OBVIOUS
  <2>2. of["Direction"] \in Values /\ of["X"] \in Values /\ of["Y"] \in Values
    BY WrittenType
  <2> HIDE DEF of, t
  <2> QED
    BY <2>1, <2>2, BytesType, CodeType
<1>2. DOMAIN Layout(t) = 1 .. 3
  BY ClientLayout
<1>3. /\ Layout(t)[1][1] = "Direction" /\ Layout(t)[1][2] = 1
      /\ Layout(t)[2][1] = "X" /\ Layout(t)[2][2] = 2
      /\ Layout(t)[3][1] = "Y" /\ Layout(t)[3][2] = 2
  BY ClientLayout
<1>4. w = Wire(t, of)
  BY PacketAssumption DEF Payload
<1> HIDE DEF of, t, w
<1>5. \A k \in 1 .. 3 : puts[k + 1] = Bytes(of[Layout(t)[k][1]], Layout(t)[k][2])
  BY <1>3
<1> HIDE DEF o, d, x, y, C
<1>6. puts \in Seq(C) /\ Len(puts) = 4 /\ puts[1] = o
  BY <1>1
<1> HIDE DEF puts
<1>7. puts \in Seq(Seq(Cells)) /\ puts[1] = Code(t)
  BY <1>6 DEF C, o
<1>8. Operands(puts, t, of, 3)
  BY <1>2, <1>5, <1>6, <1>7 DEF Operands
<1>9. FlattenSeq(puts) = w
  BY <1>4, <1>8, PutsAreWire
<1>10. /\ o \in Seq(Cells) /\ d \in Seq(Cells) /\ x \in Seq(Cells) /\ y \in Seq(Cells)
       /\ Long(o, 2) /\ Long(d, 1) /\ Long(x, 2) /\ Long(y, 2)
  BY <1>1 DEF C, Long
<1>11. PICK u, v \in Seq(Cells) :
         Joined(u, o, d) /\ Joined(v, u, x) /\ Joined(FlattenSeq(<<o, d, x, y>>), v, y)
  BY <1>10, FourJoined
<1>12. Joined(w, v, y)
  BY <1>9, <1>11 DEF puts
<1>13. w \in Seq(Cells)
  BY <1>7, <1>9, FlattenType
<1>14. /\ Long(w, 7)
       /\ Part(w, 0, 2) = o /\ Part(w, 2, 1) = d /\ Part(w, 3, 2) = x
       /\ Part(w, 5, 2) = y
  BY <1>10, <1>11, <1>12, <1>13, PartsOfFour
<1> QED
  BY <1>13, <1>14 DEF w, o, d, x, y, of, t

LEMMA EchoPayload ==
  ASSUME NEW q \in Packets, q.type = "CS_ECHO"
  PROVE  /\ Payload(q) \in Seq(Cells) /\ Long(Payload(q), 6)
         /\ Part(Payload(q), 0, 2) = Code(q.type)
         /\ Part(Payload(q), 2, 4) = Bytes(Written(q)["Time"], 4)
<1> DEFINE t == q.type
           of == Written(q)
           o == Code(t)
           i == Bytes(of["Time"], 4)
           puts == <<o, i>>
           C == Seq(Cells)
           w == Payload(q)
<1>1. o \in C /\ i \in C /\ Len(o) = 2 /\ Len(i) = 4
  <2>1. t \in ClientTypes \cup ServerTypes \cup {Unknown}
    BY DEF ClientTypes
  <2>2. of["Time"] \in Values
    BY WrittenType
  <2> HIDE DEF of, t
  <2> QED
    BY <2>1, <2>2, BytesType, CodeType
<1>2. DOMAIN Layout(t) = 1 .. 1
  BY EchoLayout
<1>3. /\ Layout(t)[1][1] = "Time" /\ Layout(t)[1][2] = 4
  BY EchoLayout
<1>4. w = Wire(t, of)
  BY PacketAssumption DEF Payload, ClientTypes
<1> HIDE DEF of, t, w
<1>5. \A k \in 1 .. 1 : puts[k + 1] = Bytes(of[Layout(t)[k][1]], Layout(t)[k][2])
  BY <1>3
<1> HIDE DEF o, i, C
<1>6. puts \in Seq(C) /\ Len(puts) = 2 /\ puts[1] = o
  BY <1>1
<1> HIDE DEF puts
<1>7. puts \in Seq(Seq(Cells)) /\ puts[1] = Code(t)
  BY <1>6 DEF C, o
<1>8. Operands(puts, t, of, 1)
  BY <1>2, <1>5, <1>6, <1>7 DEF Operands
<1>9. FlattenSeq(puts) = w
  BY <1>4, <1>8, PutsAreWire
<1>10. o \in Seq(Cells) /\ i \in Seq(Cells) /\ Long(o, 2) /\ Long(i, 4)
  BY <1>1 DEF C, Long
<1>11. Joined(w, o, i)
  BY <1>9, <1>10, TwoJoined DEF puts
<1>12. w \in Seq(Cells)
  BY <1>7, <1>9, FlattenType
<1>13. Long(w, 6) /\ Part(w, 0, 2) = o /\ Part(w, 2, 4) = i
  BY <1>10, <1>11, <1>12, TwoAndFour
<1> QED
  BY <1>12, <1>13 DEF w, o, i, of, t

\* The code is in front of any packet.
LEMMA PayloadCode ==
  ASSUME NEW q \in Packets
  PROVE  /\ Payload(q) \in Seq(Cells) /\ Len(Payload(q)) \in 2 .. 12
         /\ Part(Payload(q), 0, 2) = Code(q.type)
<1>1. CASE q.type = Unknown
  <2> DEFINE o == Code(Unknown)
             x == Bytes(Written(q)["X"], 2)
             w == Payload(q)
  <2>1. o \in Seq(Cells) /\ x \in Seq(Cells) /\ Long(o, 2) /\ Long(x, 2)
    BY CodeType, BytesType, WrittenType DEF Long
  <2>2. Joined(w, o, x)
    BY <1>1 DEF Payload, WORD, Joined
  <2> HIDE DEF o, x, w
  <2>3. w \in Seq(Cells)
    BY <2>1, <2>2 DEF Joined
  <2>4. Long(w, 4) /\ Part(w, 0, 2) = o
    BY <2>1, <2>2, <2>3, TwoAndTwo
  <2> QED
    BY <1>1, <2>3, <2>4 DEF w, o, Long
<1>2. CASE q.type = "CS_ECHO"
  BY <1>2, EchoPayload DEF Long
<1>3. CASE q.type \in ClientTypes \ {"CS_ECHO"}
  BY <1>3, ActionPayload DEF Long
<1> QED
  BY <1>1, <1>2, <1>3 DEF Packets

-----------------------------------------------------------------------------
\* What a list of calls does to the contents of the two buffers.

Contents == [1 .. 2 -> Seq(Cells)]
Other(i) == 3 - i

\* What packets mean, and the calls.
Meanings ==
  [ID : Values, Direction : Values, X : Values, Y : Values, HP : Values]
  \cup [ID : Values, Direction : Values, X : Values, Y : Values]
  \cup [AttackID : Values, DamageID : Values, DamageHP : Values]
  \cup [Time : Values]
Steps ==
  [call : {"make"}, buf : 1 .. 2, puts : Seq(Seq(Cells))]
  \cup [call : {"convert", "clear"}, buf : 1 .. 2]
  \cup [call : {"send"}, buf : 1 .. 2, type : ServerTypes, of : Meanings]

\* Only the code is another one.
Recoded(v, w) ==
  \E rest \in Seq(Cells) : /\ v = Code("SC_CREATE_MY_CHARACTER") \o rest
                           /\ w = Code("SC_CREATE_OTHER_CHARACTER") \o rest

\* A call that is in order turns the contents h into g: a builder gets an empty

\* buffer and fits, only the packet for the new client is converted, and what
\* is sent is what is meant.
Does(c, h, g) ==
  /\ c \in Steps
  /\ g[Other(c.buf)] = h[Other(c.buf)]
  /\ \/ /\ c.call = "make"
        /\ h[c.buf] = <<>> /\ Len(FlattenSeq(c.puts)) <= Capacity
        /\ g[c.buf] = FlattenSeq(c.puts)
     \/ /\ c.call = "convert"
        /\ Recoded(h[c.buf], g[c.buf])
     \/ /\ c.call = "clear"
        /\ g[c.buf] = <<>>
     \/ /\ c.call = "send"
        /\ h[c.buf] = Wire(c.type, c.of) /\ g[c.buf] = h[c.buf]

\* The calls of s do so one after the other.
Traces(p, s) == \A i \in 1 .. Len(s) : Does(s[i], p[i - 1], p[i])
Path(s, h, g) ==
  \E p \in [0 .. Len(s) -> Contents] : Traces(p, s) /\ p[0] = h /\ p[Len(s)] = g

\* From any contents in S the calls of s are in order and lead to T.
Leads(s, S, T) ==
  /\ s \in Seq(Steps)
  /\ \A h \in S : \E g \in T : Path(s, h, g)

LEMMA NothingLeads ==
  ASSUME NEW S \in SUBSET Contents
  PROVE  Leads(<<>>, S, S)
<1>1. ASSUME NEW h \in S
      PROVE  Path(<<>>, h, h)
  <2> DEFINE p == [i \in 0 .. 0 |-> h]
  <2>1. p \in [0 .. Len(<<>>) -> Contents] /\ p[0] = h /\ Len(<<>>) = 0
    OBVIOUS
  <2> HIDE DEF p
  <2>2. Traces(p, <<>>)
    BY DEF Traces
  <2> QED
    BY <2>1, <2>2 DEF Path
<1> QED
  BY <1>1 DEF Leads

LEMMA OneLeads ==
  ASSUME NEW c \in Steps, NEW S \in SUBSET Contents, NEW T \in SUBSET Contents,
         \A h \in S : \E g \in T : Does(c, h, g)
  PROVE  Leads(<<c>>, S, T)
<1>1. ASSUME NEW h \in S
      PROVE  \E g \in T : Path(<<c>>, h, g)
  <2>1. PICK g \in T : Does(c, h, g)
    OBVIOUS
  <2> DEFINE p == [i \in 0 .. 1 |-> IF i = 0 THEN h ELSE g]
             s == <<c>>
  <2>2. p \in [0 .. 1 -> Contents] /\ p[0] = h /\ p[1] = g /\ Len(s) = 1 /\ s[1] = c
    OBVIOUS
  <2> HIDE DEF p, s
  <2>3. Traces(p, s)
    <3>1. ASSUME NEW i \in 1 .. 1
          PROVE  Does(s[i], p[i - 1], p[i])
      <4>1. i = 1 /\ i - 1 = 0
        OBVIOUS
      <4> QED
        BY <2>1, <2>2, <4>1
    <3> QED
      BY <2>2, <3>1 DEF Traces
  <2>4. Path(s, h, g)
    BY <2>2, <2>3 DEF Path
  <2> QED
    BY <2>4 DEF s
<1> QED
  BY <1>1 DEF Leads

LEMMA PathJoin ==
  ASSUME NEW s \in Seq(Steps), NEW t \in Seq(Steps), NEW h, NEW g, NEW k,
         Path(s, h, g), Path(t, g, k)
  PROVE  Path(s \o t, h, k)
<1>1. PICK p \in [0 .. Len(s) -> Contents] :
        Traces(p, s) /\ p[0] = h /\ p[Len(s)] = g
  BY DEF Path
<1>2. PICK q \in [0 .. Len(t) -> Contents] :
        Traces(q, t) /\ q[0] = g /\ q[Len(t)] = k
  BY DEF Path
<1>3. PICK m \in Nat : m = Len(s)
  OBVIOUS
<1>4. PICK n \in Nat : n = Len(t)
  OBVIOUS
<1> DEFINE r == [i \in 0 .. m + n |-> IF i <= m THEN p[i] ELSE q[i - m]]
           u == s \o t
<1>5. u \in Seq(Steps) /\ Len(u) = m + n
  BY <1>3, <1>4
<1>6. r \in [0 .. m + n -> Contents]
  <2>1. ASSUME NEW i \in 0 .. m + n
        PROVE  (IF i <= m THEN p[i] ELSE q[i - m]) \in Contents
    <3>1. CASE i <= m
      <4>1. i \in 0 .. m
        BY <3>1
      <4> QED
        BY <1>1, <1>3, <3>1, <4>1
    <3>2. CASE ~(i <= m)
      <4>1. i - m \in 0 .. n
        BY <3>2
      <4> QED
        BY <1>2, <1>4, <3>2, <4>1
    <3> QED
      BY <3>1, <3>2
  <2> QED
    BY <2>1
<1>7. r[0] = h /\ r[m + n] = k
  <2>1. 0 \in 0 .. m + n /\ m + n \in 0 .. m + n
    OBVIOUS
  <2>2. r[0] = h
    BY <1>1, <2>1
  <2>3. r[m + n] = k
    <3>1. CASE n = 0
      <4>1. m + n = m /\ g = k
        BY <1>2, <1>4, <3>1
      <4> QED
        BY <1>1, <1>3, <2>1, <4>1
    <3>2. CASE n # 0
      <4>1. ~(m + n <= m) /\ (m + n) - m = n
        BY <3>2
      <4> QED
        BY <1>2, <1>4, <2>1, <4>1
    <3> QED
      BY <3>1, <3>2
  <2> QED
    BY <2>2, <2>3
<1>8. ASSUME NEW i \in 1 .. m + n
      PROVE  Does(u[i], r[i - 1], r[i])
  <2>1. i \in 0 .. m + n /\ i - 1 \in 0 .. m + n
    OBVIOUS
  <2>2. CASE i <= m
    <3>1. i \in 1 .. m /\ i - 1 <= m
      BY <2>2
    <3>2. u[i] = s[i]
      BY <1>3, <3>1
    <3>3. r[i] = p[i] /\ r[i - 1] = p[i - 1]
      BY <2>1, <2>2, <3>1
    <3>4. Does(s[i], p[i - 1], p[i])
      BY <1>1, <1>3, <3>1 DEF Traces
    <3> HIDE DEF r, u
    <3> QED
      BY <3>2, <3>3, <3>4
  <2>3. CASE ~(i <= m)
    <3>1. i - m \in 1 .. n /\ (i - m) - 1 = (i - 1) - m
      BY <2>3
    <3>2. u[i] = t[i - m]
      BY <1>3, <1>4, <2>3, <3>1
    <3>3. r[i] = q[i - m]
      BY <2>1, <2>3
    <3>4. r[i - 1] = q[(i - m) - 1]
      <4>1. CASE i - 1 = m
        <5>1. i - 1 <= m /\ (i - m) - 1 = 0
          BY <4>1
        <5> QED
          BY <1>1, <1>2, <1>3, <2>1, <4>1, <5>1
      <4>2. CASE i - 1 # m
        <5>1. ~(i - 1 <= m)
          BY <2>3, <4>2
        <5> QED
          BY <2>1, <3>1, <5>1
      <4> QED
        BY <4>1, <4>2
    <3>5. Does(t[i - m], q[(i - m) - 1], q[i - m])
      BY <1>2, <1>4, <3>1 DEF Traces
    <3> HIDE DEF r, u
    <3> QED
      BY <3>2, <3>3, <3>4, <3>5
  <2> QED
    BY <2>2, <2>3
<1> HIDE DEF r, u
<1>9. Traces(r, u)
  BY <1>5, <1>8 DEF Traces
<1>10. Path(u, h, k)
  BY <1>5, <1>6, <1>7, <1>9 DEF Path
<1> QED
  BY <1>10 DEF u

LEMMA Continues ==
  ASSUME NEW s, NEW t, NEW S, NEW T, NEW U, Leads(s, S, T), Leads(t, T, U)
  PROVE  Leads(s \o t, S, U)
<1>1. s \in Seq(Steps) /\ t \in Seq(Steps)
  BY DEF Leads
<1>2. s \o t \in Seq(Steps)
  BY <1>1
<1>3. ASSUME NEW h \in S
      PROVE  \E k \in U : Path(s \o t, h, k)
  <2>1. PICK g \in T : Path(s, h, g)
    BY DEF Leads
  <2>2. PICK k \in U : Path(t, g, k)
    BY DEF Leads
  <2>3. Path(s \o t, h, k)
    BY <1>1, <2>1, <2>2, PathJoin
  <2> QED
    BY <2>3
<1> QED
  BY <1>2, <1>3 DEF Leads

\* A stronger start, a weaker end.
LEMMA LeadsOn ==
  ASSUME NEW s, NEW S, NEW T, NEW U, NEW V, Leads(s, S, T), U \subseteq S, T \subseteq V
  PROVE  Leads(s, U, V)
BY DEF Leads

\* Lists each of which leads from S back to S.
LEMMA AllLead ==
  ASSUME NEW S \in SUBSET Contents, NEW seqs, NEW n \in Nat, DOMAIN seqs = 1 .. n,
         seqs = [i \in 1 .. n |-> seqs[i]], \A i \in 1 .. n : Leads(seqs[i], S, S)
  PROVE  Leads(FlattenSeq(seqs), S, S)
<1>1. seqs \in Seq(Seq(Steps)) /\ Len(seqs) = n
  <2> DEFINE X == Seq(Steps)
  <2>1. seqs \in [1 .. n -> X]
    BY DEF Leads
  <2> HIDE DEF X
  <2>2. seqs \in Seq(X) /\ Len(seqs) = n
    BY <2>1
  <2> QED
    BY <2>2 DEF X
<1>2. PICK f \in [0 .. n -> Seq(Steps)] : Joins(f, seqs, n)
  BY <1>1, JoinsExist
<1>3. FlattenSeq(seqs) = f[n]
  BY <1>1, <1>2, FlattenJoins
<1> DEFINE D == {i \in 0 .. n : Leads(f[i], S, S)}
<1>4. 0 \in D
  BY <1>2, NothingLeads DEF Joins
<1>5. ASSUME NEW i \in 0 .. n - 1, i \in D
      PROVE  i + 1 \in D
  <2>1. i + 1 \in 1 .. n /\ i + 1 \in 0 .. n /\ (i + 1) - 1 = i
    OBVIOUS
  <2>2. f[i + 1] = f[i] \o seqs[i + 1]
    BY <1>2, <2>1 DEF Joins
  <2>3. Leads(f[i], S, S) /\ Leads(seqs[i + 1], S, S)
    BY <1>5, <2>1
  <2>4. Leads(f[i] \o seqs[i + 1], S, S)
    BY <2>3, Continues
  <2> QED
    BY <2>1, <2>2, <2>4
<1>6. \A i \in 0 .. n : i \in D
  <2> HIDE DEF D
  <2> QED
    BY <1>4, <1>5, UpTo
<1> QED
  BY <1>3, <1>6

\* The first call, and the rest.
LEMMA PathHead ==
  ASSUME NEW s \in Seq(Steps), s # <<>>, NEW h, NEW g, Path(s, h, g)
  PROVE  \E k \in Contents : Does(Head(s), h, k) /\ Path(Tail(s), k, g)
<1>1. PICK n \in Nat : Len(s) = n + 1
  <2>1. Len(s) \in Nat /\ Len(s) # 0
    OBVIOUS
  <2>2. Len(s) - 1 \in Nat /\ Len(s) = (Len(s) - 1) + 1
    BY <2>1
  <2> QED
    BY <2>2
<1>2. PICK p \in [0 .. n + 1 -> Contents] :
        Traces(p, s) /\ p[0] = h /\ p[n + 1] = g
  BY <1>1 DEF Path
<1> DEFINE q == [i \in 0 .. n |-> p[i + 1]]
           t == Tail(s)
<1>3. /\ Head(s) = s[1] /\ t \in Seq(Steps) /\ Len(t) = n
      /\ \A i \in 1 .. n : t[i] = s[i + 1]
  BY <1>1
<1>4. Does(Head(s), h, p[1]) /\ p[1] \in Contents
  <2>1. 1 \in 1 .. n + 1 /\ 1 - 1 = 0 /\ 1 \in 0 .. n + 1
    OBVIOUS
  <2> QED
    BY <1>1, <1>2, <1>3, <2>1 DEF Traces
<1>5. q \in [0 .. n -> Contents] /\ q[0] = p[1] /\ q[n] = g
  <2>1. ASSUME NEW i \in 0 .. n
        PROVE  p[i + 1] \in Contents
    <3>1. i + 1 \in 0 .. n + 1
      OBVIOUS
    <3> QED
      BY <3>1
  <2> QED
    BY <1>2, <2>1
<1>6. ASSUME NEW i \in 1 .. n
      PROVE  Does(t[i], q[i - 1], q[i])
  <2>1. i \in 0 .. n /\ i - 1 \in 0 .. n /\ (i - 1) + 1 = (i + 1) - 1
        /\ i + 1 \in 1 .. n + 1
    OBVIOUS
  <2>2. Does(s[i + 1], p[(i + 1) - 1], p[i + 1])
    BY <1>1, <1>2, <2>1 DEF Traces
  <2>3. q[i] = p[i + 1] /\ q[i - 1] = p[(i - 1) + 1] /\ t[i] = s[i + 1]
    BY <1>3, <2>1
  <2> HIDE DEF q, t
  <2> QED
    BY <2>1, <2>2, <2>3
<1> HIDE DEF q, t
<1>7. Traces(q, t)
  BY <1>3, <1>6 DEF Traces
<1>8. Path(t, p[1], g)
  BY <1>3, <1>5, <1>7 DEF Path
<1> QED
  BY <1>4, <1>8 DEF t

\* The contents of buffer i are in A, those of the other in B.
On(i, A, B) == {h \in Contents : h[i] \in A /\ h[Other(i)] \in B}
Anything == Seq(Cells)
Just(w) == {w}
Empty == Just(<<>>)

LEMMA OtherSide ==
  ASSUME NEW A, NEW B
  PROVE  On(2, A, B) = On(1, B, A)
<1>1. Other(2) = 1 /\ Other(1) = 2
  BY DEF Other
<1> QED
  BY <1>1 DEF On

LEMMA CallTypes ==
  ASSUME NEW i \in 1 .. 2
  PROVE  /\ Clear(i) \in Steps /\ Convert(i) \in Steps
         /\ \A puts \in Seq(Seq(Cells)) : Make(i, puts) \in Steps
         /\ \A t \in ServerTypes, of \in Meanings : Send(i, t, of) \in Steps
BY DEF Clear, Convert, Make, Send, Steps

\* Buffer i can be given other contents.
LEMMA Refilled ==
  ASSUME NEW i \in 1 .. 2, NEW A, NEW B, NEW h \in On(i, A, B), NEW w \in Seq(Cells)
  PROVE  \E g \in On(i, Just(w), B) : g[i] = w /\ g[Other(i)] = h[Other(i)]
<1> DEFINE g == [j \in 1 .. 2 |-> IF j = i THEN w ELSE h[j]]
<1>1. Other(i) \in 1 .. 2 /\ Other(i) # i
  BY DEF Other
<1>2. h \in Contents /\ h[Other(i)] \in B
  BY DEF On
<1>3. g \in Contents
  BY <1>2 DEF Contents
<1>4. g[i] = w /\ g[Other(i)] = h[Other(i)]
  BY <1>1
<1> HIDE DEF g
<1>5. g \in On(i, Just(w), B)
  BY <1>2, <1>3, <1>4 DEF On, Just
<1> QED
  BY <1>4, <1>5

LEMMA ClearLeads ==
  ASSUME NEW i \in 1 .. 2, NEW B
  PROVE  Leads(<<Clear(i)>>, On(i, Anything, B), On(i, Empty, B))
<1> DEFINE c == Clear(i)
<1>1. c \in Steps /\ c.buf = i /\ c.call = "clear"
  BY CallTypes DEF Clear
<1> HIDE DEF c
<1>2. ASSUME NEW h \in On(i, Anything, B)
      PROVE  \E g \in On(i, Empty, B) : Does(c, h, g)
  <2> DEFINE e == <<>>
  <2>0. e \in Seq(Cells)
    OBVIOUS
  <2> HIDE DEF e
  <2>1. PICK g \in On(i, Just(e), B) : g[i] = e /\ g[Other(i)] = h[Other(i)]
    BY <2>0, Refilled
  <2>2. g \in On(i, Empty, B)
    BY DEF Empty, e
  <2>3. Does(c, h, g)
    BY <1>1, <2>1 DEF Does, e
  <2> QED
    BY <2>2, <2>3
<1>3. On(i, Anything, B) \in SUBSET Contents /\ On(i, Empty, B) \in SUBSET Contents
  BY DEF On
<1>4. Leads(<<c>>, On(i, Anything, B), On(i, Empty, B))
  BY <1>1, <1>2, <1>3, OneLeads
<1> QED
  BY <1>4 DEF c

LEMMA MakeLeads ==
  ASSUME NEW i \in 1 .. 2, NEW B, NEW puts, NEW t, NEW of, Means(puts, t, of)
  PROVE  Leads(<<Make(i, puts)>>, On(i, Empty, B), On(i, Just(Wire(t, of)), B))
<1> DEFINE c == Make(i, puts)
           w == Wire(t, of)
<1>1. /\ puts \in Seq(Seq(Cells)) /\ FlattenSeq(puts) = w /\ w \in Seq(Cells)
      /\ Len(FlattenSeq(puts)) <= Capacity
  BY DEF Means
<1>2. c \in Steps
  BY <1>1, CallTypes
<1>3. c.buf = i /\ c.call = "make" /\ c.puts = puts
  BY DEF Make
<1> HIDE DEF c, w
<1>4. ASSUME NEW h \in On(i, Empty, B)
      PROVE  \E g \in On(i, Just(w), B) : Does(c, h, g)
  <2>1. PICK g \in On(i, Just(w), B) : g[i] = w /\ g[Other(i)] = h[Other(i)]
    BY <1>1, Refilled
  <2>2. h[i] = <<>>
    BY DEF On, Empty, Just
  <2>3. Does(c, h, g)
    BY <1>1, <1>2, <1>3, <2>1, <2>2 DEF Does
  <2> QED
    BY <2>1, <2>3
<1>5. On(i, Empty, B) \in SUBSET Contents /\ On(i, Just(w), B) \in SUBSET Contents
  BY DEF On
<1>6. Leads(<<c>>, On(i, Empty, B), On(i, Just(w), B))
  BY <1>2, <1>4, <1>5, OneLeads
<1> QED
  BY <1>6 DEF c, w

LEMMA SendLeads ==
  ASSUME NEW i \in 1 .. 2, NEW B, NEW t \in ServerTypes, NEW of \in Meanings
  PROVE  Leads(<<Send(i, t, of)>>, On(i, Just(Wire(t, of)), B),
               On(i, Just(Wire(t, of)), B))
<1> DEFINE c == Send(i, t, of)
           w == Wire(t, of)
<1>1. c \in Steps
  BY CallTypes
<1>2. c.buf = i /\ c.call = "send" /\ Wire(c.type, c.of) = w
  BY DEF Send
<1> HIDE DEF c, w
<1>3. ASSUME NEW h \in On(i, Just(w), B)
      PROVE  Does(c, h, h)
  <2>1. h[i] = w
    BY DEF On, Just
  <2> QED
    BY <1>1, <1>2, <2>1 DEF Does
<1>4. On(i, Just(w), B) \in SUBSET Contents
  BY DEF On
<1>5. Leads(<<c>>, On(i, Just(w), B), On(i, Just(w), B))
  BY <1>1, <1>3, <1>4, OneLeads
<1> QED
  BY <1>5 DEF c, w

LEMMA ConvertLeads ==
  ASSUME NEW i \in 1 .. 2, NEW B, NEW v, NEW w, Recoded(v, w)
  PROVE  Leads(<<Convert(i)>>, On(i, Just(v), B), On(i, Just(w), B))
<1> DEFINE c == Convert(i)
<1>1. c \in Steps
  BY CallTypes
<1>2. c.buf = i /\ c.call = "convert"
  BY DEF Convert
<1>3. w \in Seq(Cells)
  <2>1. "SC_CREATE_OTHER_CHARACTER" \in ClientTypes \cup ServerTypes \cup {Unknown}
    BY DEF ServerTypes
  <2>2. Code("SC_CREATE_OTHER_CHARACTER") \in Seq(Cells)
    BY <2>1, CodeType
  <2> QED
    BY <2>2 DEF Recoded
<1> HIDE DEF c
<1>4. ASSUME NEW h \in On(i, Just(v), B)
      PROVE  \E g \in On(i, Just(w), B) : Does(c, h, g)
  <2>1. PICK g \in On(i, Just(w), B) : g[i] = w /\ g[Other(i)] = h[Other(i)]
    BY <1>3, Refilled
  <2>2. h[i] = v
    BY DEF On, Just
  <2>3. Does(c, h, g)
    BY <1>1, <1>2, <2>1, <2>2 DEF Does
  <2> QED
    BY <2>1, <2>3
<1>5. On(i, Just(v), B) \in SUBSET Contents /\ On(i, Just(w), B) \in SUBSET Contents
  BY DEF On
<1>6. Leads(<<c>>, On(i, Just(v), B), On(i, Just(w), B))
  BY <1>1, <1>4, <1>5, OneLeads
<1> QED
  BY <1>6 DEF c

\* Short lists.
LEMMA OneAndOne ==
  ASSUME NEW S, NEW a \in S, NEW b \in S
  PROVE  <<a>> \o <<b>> = <<a, b>>
<1> DEFINE x == <<a>> \o <<b>>
<1>1. <<a>> \in Seq(S) /\ <<b>> \in Seq(S) /\ Len(<<a>>) = 1 /\ Len(<<b>>) = 1
  OBVIOUS
<1>2. x \in Seq(S) /\ Len(x) = 2
  BY <1>1
<1>3. x[1] = a /\ x[2] = b
  BY <1>1
<1> HIDE DEF x
<1>4. x = <<a, b>>
  BY <1>2, <1>3
<1> QED
  BY <1>4 DEF x

LEMMA OneAndTwo ==
  ASSUME NEW S, NEW a \in S, NEW b \in S, NEW c \in S
  PROVE  <<a>> \o <<b, c>> = <<a, b, c>>
<1> DEFINE x == <<a>> \o <<b, c>>
<1>1. <<a>> \in Seq(S) /\ <<b, c>> \in Seq(S) /\ Len(<<a>>) = 1 /\ Len(<<b, c>>) = 2
  OBVIOUS
<1>2. x \in Seq(S) /\ Len(x) = 3
  BY <1>1
<1>3. x[1] = a /\ x[2] = b /\ x[3] = c
  BY <1>1
<1> HIDE DEF x
<1>4. x = <<a, b, c>>
  BY <1>2, <1>3
<1> QED
  BY <1>4 DEF x

LEMMA TwoAndLast ==
  ASSUME NEW S, NEW a \in S, NEW b \in S, NEW c \in S
  PROVE  <<a, b>> \o <<c>> = <<a, b, c>>
<1> DEFINE x == <<a, b>> \o <<c>>
<1>1. <<a, b>> \in Seq(S) /\ <<c>> \in Seq(S) /\ Len(<<a, b>>) = 2 /\ Len(<<c>>) = 1
  OBVIOUS
<1>2. x \in Seq(S) /\ Len(x) = 3
  BY <1>1
<1>3. x[1] = a /\ x[2] = b /\ x[3] = c
  BY <1>1
<1> HIDE DEF x
<1>4. x = <<a, b, c>>
  BY <1>2, <1>3
<1> QED
  BY <1>4 DEF x

\* A packet is built and sent, whose meaning a call can carry.
Carries(puts, t, of) == Means(puts, t, of) /\ t \in ServerTypes /\ of \in Meanings

\* The calls that build and send a packet are calls.
LEMMA CarryingCalls ==
  ASSUME NEW i \in 1 .. 2, NEW puts, NEW t, NEW of, Carries(puts, t, of)
  PROVE  Make(i, puts) \in Steps /\ Send(i, t, of) \in Steps /\ Clear(i) \in Steps
BY CallTypes DEF Carries, Means

LEMMA MakeSendLeads ==
  ASSUME NEW i \in 1 .. 2, NEW B, NEW puts, NEW t, NEW of, Carries(puts, t, of)
  PROVE  Leads(<<Make(i, puts), Send(i, t, of)>>, On(i, Empty, B),
               On(i, Just(Wire(t, of)), B))
<1> DEFINE m == Make(i, puts)
           d == Send(i, t, of)
           S == On(i, Empty, B)
           T == On(i, Just(Wire(t, of)), B)
<1>1. Leads(<<m>>, S, T) /\ Leads(<<d>>, T, T)
  BY MakeLeads, SendLeads DEF Carries
<1>0. m \in Steps /\ d \in Steps
  BY CarryingCalls
<1> HIDE DEF m, d, S, T
<1>2. Leads(<<m>> \o <<d>>, S, T)
  BY <1>1, Continues
<1>3. <<m>> \o <<d>> = <<m, d>>
  BY <1>0, OneAndOne
<1> QED
  BY <1>2, <1>3 DEF m, d, S, T

\* And the buffer cleared for the next packet.
LEMMA MakeSendClearLeads ==
  ASSUME NEW i \in 1 .. 2, NEW B, NEW puts, NEW t, NEW of, Carries(puts, t, of)
  PROVE  Leads(<<Make(i, puts), Send(i, t, of), Clear(i)>>, On(i, Empty, B),
               On(i, Empty, B))
<1> DEFINE m == Make(i, puts)
           d == Send(i, t, of)
           c == Clear(i)
           S == On(i, Empty, B)
           T == On(i, Just(Wire(t, of)), B)
<1>0. m \in Steps /\ d \in Steps /\ c \in Steps
  BY CarryingCalls
<1>1. Leads(<<m, d>>, S, T)
  BY MakeSendLeads
<1>2. Leads(<<c>>, T, S)
  <2>1. T \subseteq On(i, Anything, B)
    BY DEF On, Contents, Anything
  <2>2. Leads(<<c>>, On(i, Anything, B), S)
    BY ClearLeads
  <2> HIDE DEF T, S, c
  <2> QED
    BY <2>1, <2>2, LeadsOn
<1> HIDE DEF m, d, c, S, T
<1>3. Leads(<<m, d>> \o <<c>>, S, S)
  BY <1>1, <1>2, Continues
<1>4. <<m, d>> \o <<c>> = <<m, d, c>>
  BY <1>0, TwoAndLast
<1> QED
  BY <1>3, <1>4 DEF m, d, c, S

\* Or cleared before, whatever is in it.
LEMMA ClearMakeSendLeads ==
  ASSUME NEW i \in 1 .. 2, NEW B, NEW puts, NEW t, NEW of, Carries(puts, t, of)
  PROVE  Leads(<<Clear(i), Make(i, puts), Send(i, t, of)>>, On(i, Anything, B),
               On(i, Anything, B))
<1> DEFINE m == Make(i, puts)
           d == Send(i, t, of)
           c == Clear(i)
           S == On(i, Empty, B)
           T == On(i, Just(Wire(t, of)), B)
           U == On(i, Anything, B)
<1>0. m \in Steps /\ d \in Steps /\ c \in Steps
  BY CarryingCalls
<1>1. Leads(<<m, d>>, S, T)
  BY MakeSendLeads
<1>2. Leads(<<c>>, U, S)
  BY ClearLeads
<1>3. T \subseteq U
  BY DEF On, Contents, Anything
<1> HIDE DEF m, d, c, S, T, U
<1>4. Leads(<<c>> \o <<m, d>>, U, T)
  BY <1>1, <1>2, Continues
<1>5. <<c>> \o <<m, d>> = <<c, m, d>>
  BY <1>0, OneAndTwo
<1>6. Leads(<<c, m, d>>, U, U)
  BY <1>3, <1>4, <1>5, LeadsOn
<1> QED
  BY <1>6 DEF m, d, c, U

LEMMA TwoAndTwoCalls ==
  ASSUME NEW S, NEW a \in S, NEW b \in S, NEW c \in S, NEW d \in S
  PROVE  <<a, b>> \o <<c, d>> = <<a, b, c, d>>
<1> DEFINE x == <<a, b>> \o <<c, d>>
<1>1. <<a, b>> \in Seq(S) /\ <<c, d>> \in Seq(S) /\ Len(<<a, b>>) = 2 /\ Len(<<c, d>>) = 2
  OBVIOUS
<1>2. x \in Seq(S) /\ Len(x) = 4
  BY <1>1
<1>3. x[1] = a /\ x[2] = b /\ x[3] = c /\ x[4] = d
  BY <1>1
<1> HIDE DEF x
<1>4. x = <<a, b, c, d>>
  BY <1>2, <1>3
<1> QED
  BY <1>4 DEF x

LEMMA ThreeAndTwoCalls ==
  ASSUME NEW S, NEW a \in S, NEW b \in S, NEW c \in S, NEW d \in S, NEW e \in S
  PROVE  <<a, b, c>> \o <<d, e>> = <<a, b, c, d, e>>
<1> DEFINE x == <<a, b, c>> \o <<d, e>>
<1>1. /\ <<a, b, c>> \in Seq(S) /\ <<d, e>> \in Seq(S)
      /\ Len(<<a, b, c>>) = 3 /\ Len(<<d, e>>) = 2
  OBVIOUS
<1>2. x \in Seq(S) /\ Len(x) = 5
  BY <1>1
<1>3. x[1] = a /\ x[2] = b /\ x[3] = c /\ x[4] = d /\ x[5] = e
  BY <1>1
<1> HIDE DEF x
<1>4. x = <<a, b, c, d, e>>
  BY <1>2, <1>3
<1> QED
  BY <1>4 DEF x

-----------------------------------------------------------------------------
\* The handlers' calls are in order.

LEMMA AboutMeans ==
  ASSUME NEW c \in Others \cup {Me}, NEW dir \in {"stop2Dir", "move8Dir"}
  PROVE  About(c, dir) \in Meanings
<1>1. /\ <<"id", c>> \in Values /\ <<dir, c>> \in Values /\ <<"x", c>> \in Values
      /\ <<"y", c>> \in Values /\ <<"hp", c>> \in Values
  BY MemberTypes
<1> QED
  BY <1>1 DEF About, Meanings

LEMMA BuildersCarry ==
  ASSUME NEW c \in Others \cup {Me}
  PROVE  /\ Carries(MakePacketCreate("SC_CREATE_MY_CHARACTER", c),
                    "SC_CREATE_MY_CHARACTER", About(c, "stop2Dir"))
         /\ Carries(MakePacketCreate("SC_CREATE_OTHER_CHARACTER", c),
                    "SC_CREATE_OTHER_CHARACTER", About(c, "stop2Dir"))
         /\ Carries(MakePacketMoveStart(c), "SC_MOVE_START", About(c, "move8Dir"))
         /\ Carries(MakePacketDeleteCharacter(Member(c).characterID),
                    "SC_DELETE_CHARACTER", About(c, "stop2Dir"))
         /\ Carries(MakePacketSyncXYPos(Member(c).characterID, Member(c).xPos,
                                        Member(c).yPos),
                    "SC_SYNC", About(c, "stop2Dir"))
<1>1. /\ "SC_CREATE_MY_CHARACTER" \in ServerTypes
      /\ "SC_CREATE_OTHER_CHARACTER" \in ServerTypes /\ "SC_MOVE_START" \in ServerTypes
      /\ "SC_DELETE_CHARACTER" \in ServerTypes /\ "SC_SYNC" \in ServerTypes
  BY DEF ServerTypes
<1>2. About(c, "stop2Dir") \in Meanings /\ About(c, "move8Dir") \in Meanings
  BY AboutMeans
<1>3. Carries(MakePacketCreate("SC_CREATE_MY_CHARACTER", c), "SC_CREATE_MY_CHARACTER",
              About(c, "stop2Dir"))
  BY <1>1, <1>2, CreateMeans DEF Carries
<1>4. Carries(MakePacketCreate("SC_CREATE_OTHER_CHARACTER", c),
              "SC_CREATE_OTHER_CHARACTER", About(c, "stop2Dir"))
  BY <1>1, <1>2, CreateMeans DEF Carries
<1>5. Carries(MakePacketMoveStart(c), "SC_MOVE_START", About(c, "move8Dir"))
  BY <1>1, <1>2, MoveStartMeans DEF Carries
<1>6. Carries(MakePacketDeleteCharacter(Member(c).characterID), "SC_DELETE_CHARACTER",
              About(c, "stop2Dir"))
  BY <1>1, <1>2, DeleteMeans DEF Carries
<1>7. Carries(MakePacketSyncXYPos(Member(c).characterID, Member(c).xPos, Member(c).yPos),
              "SC_SYNC", About(c, "stop2Dir"))
  BY <1>1, <1>2, SyncMeans DEF Carries
<1> QED
  BY <1>3, <1>4, <1>5, <1>6, <1>7

\* One of those a handler meets.
Met == [who : Others, moving : BOOLEAN]

LEMMA GreetLeads ==
  ASSUME NEW o \in Met, NEW B
  PROVE  Leads(Greet(o), On(2, Empty, B), On(2, Empty, B))
<1> DEFINE S == On(2, Empty, B)
           create == <<Make(2, MakePacketCreate("SC_CREATE_OTHER_CHARACTER", o.who)),
                       Send(2, "SC_CREATE_OTHER_CHARACTER", About(o.who, "stop2Dir")),
                       Clear(2)>>
           move == <<Make(2, MakePacketMoveStart(o.who)),
                     Send(2, "SC_MOVE_START", About(o.who, "move8Dir")), Clear(2)>>
<1>1. o.who \in Others \cup {Me}
  BY DEF Met
<1>2. Leads(create, S, S)
  BY <1>1, BuildersCarry, MakeSendClearLeads
<1>3. Leads(move, S, S)
  BY <1>1, BuildersCarry, MakeSendClearLeads
<1>4. Leads(<<>>, S, S)
  BY NothingLeads DEF On
<1>5. Greet(o) = create \o (IF ~o.moving THEN <<>> ELSE move)
  BY DEF Greet
<1> HIDE DEF S, create, move
<1>6. Leads(create \o <<>>, S, S) /\ Leads(create \o move, S, S)
  BY <1>2, <1>3, <1>4, Continues
<1> QED
  BY <1>5, <1>6 DEF S

LEMMA LeaveLeads ==
  ASSUME NEW o \in Met, NEW B
  PROVE  Leads(Leave(o), On(1, Anything, B), On(1, Anything, B))
<1>1. o.who \in Others \cup {Me}
  BY DEF Met
<1> QED
  BY <1>1, BuildersCarry, ClearMakeSendLeads DEF Leave

LEMMA MeetLeads ==
  ASSUME NEW o \in Met
  PROVE  Leads(Meet(o), On(1, Anything, Anything), On(1, Anything, Anything))
<1> DEFINE S == On(1, Anything, Anything)
           create == <<Clear(1),
                       Make(1, MakePacketCreate("SC_CREATE_OTHER_CHARACTER", o.who)),
                       Send(1, "SC_CREATE_OTHER_CHARACTER", About(o.who, "stop2Dir"))>>
           move == <<Clear(2), Make(2, MakePacketMoveStart(o.who)),
                     Send(2, "SC_MOVE_START", About(o.who, "move8Dir"))>>
<1>1. o.who \in Others \cup {Me}
  BY DEF Met
<1>2. Leads(create, S, S)
  BY <1>1, BuildersCarry, ClearMakeSendLeads
<1>3. Leads(move, S, S)
  <2>1. Leads(move, On(2, Anything, Anything), On(2, Anything, Anything))
    BY <1>1, BuildersCarry, ClearMakeSendLeads
  <2> HIDE DEF move
  <2> QED
    BY <2>1, OtherSide
<1>4. Leads(<<>>, S, S)
  BY NothingLeads DEF On
<1>5. Meet(o) = create \o (IF ~o.moving THEN <<>> ELSE move)
  BY DEF Meet
<1> HIDE DEF S, create, move
<1>6. Leads(create \o <<>>, S, S) /\ Leads(create \o move, S, S)
  BY <1>2, <1>3, <1>4, Continues
<1> QED
  BY <1>5, <1>6 DEF S

\* The conversion of a packet for the new client keeps its fields.
LEMMA CreateRecoded ==
  ASSUME NEW c \in Others \cup {Me}
  PROVE  Recoded(Wire("SC_CREATE_MY_CHARACTER", About(c, "stop2Dir")),
                 Wire("SC_CREATE_OTHER_CHARACTER", About(c, "stop2Dir")))
<1> DEFINE of == About(c, "stop2Dir")
           t == "SC_CREATE_MY_CHARACTER"
           u == "SC_CREATE_OTHER_CHARACTER"
           fields(v) == [i \in DOMAIN Layout(v) |->
                           Bytes(of[Layout(v)[i][1]], Layout(v)[i][2])]
           C == Seq(Cells)
           rest == FlattenSeq(fields(t))
<1>1. fields(t) = fields(u)
  <2>1. Layout(t) = Layout(u)
    BY CreateLayout
  <2> HIDE DEF t, u
  <2> QED
    BY <2>1
<1>2. /\ DOMAIN Layout(t) = 1 .. 5
      /\ Layout(t)[1][1] = "ID" /\ Layout(t)[1][2] = 4
      /\ Layout(t)[2][1] = "Direction" /\ Layout(t)[2][2] = 1
      /\ Layout(t)[3][1] = "X" /\ Layout(t)[3][2] = 2
      /\ Layout(t)[4][1] = "Y" /\ Layout(t)[4][2] = 2
      /\ Layout(t)[5][1] = "HP" /\ Layout(t)[5][2] = 1
  BY CreateLayout
<1>3. /\ Bytes(of["ID"], 4) \in C /\ Bytes(of["Direction"], 1) \in C
      /\ Bytes(of["X"], 2) \in C /\ Bytes(of["Y"], 2) \in C /\ Bytes(of["HP"], 1) \in C
  <2>1. /\ of["ID"] \in Values /\ of["Direction"] \in Values /\ of["X"] \in Values
        /\ of["Y"] \in Values /\ of["HP"] \in Values
    BY MemberTypes DEF About
  <2> HIDE DEF of
  <2> QED
    BY <2>1, BytesType
<1>4. Wire(t, of) = Code(t) \o rest /\ Wire(u, of) = Code(u) \o rest
  <2>1. Wire(t, of) = Code(t) \o FlattenSeq(fields(t))
    BY DEF Wire
  <2>2. Wire(u, of) = Code(u) \o FlattenSeq(fields(u))
    BY DEF Wire
  <2> HIDE DEF fields, t, u, of
  <2> QED
    BY <1>1, <2>1, <2>2
<1> HIDE DEF of, C, t
<1>5. ASSUME NEW i \in 1 .. 5
      PROVE  Bytes(of[Layout(t)[i][1]], Layout(t)[i][2]) \in C
  BY <1>2, <1>3
<1>6. fields(t) \in [1 .. 5 -> C]
  BY <1>2, <1>5
<1> HIDE DEF fields
<1>7. fields(t) \in Seq(C)
  <2>1. ASSUME NEW n \in Nat, NEW f \in [1 .. n -> C]
        PROVE  f \in Seq(C)
    OBVIOUS
  <2>2. 5 \in Nat
    OBVIOUS
  <2> QED
    BY <1>6, <2>1, <2>2
<1>8. rest \in Seq(Cells)
  BY <1>7, FlattenType DEF C
<1> HIDE DEF rest
<1> QED
  BY <1>4, <1>8 DEF Recoded, of, t

LEMMA MeetingType ==
  ASSUME NEW met \in Meetings
  PROVE  \E k \in Nat : met \in [1 .. k -> Met]
BY DEF Meetings, Met

LEMMA OnReleaseLeads ==
  ASSUME NEW B
  PROVE  Leads(OnRelease, On(1, Empty, B), On(1, Anything, B))
<1>1. PICK me \in Others \cup {Me} : me = Me
  OBVIOUS
<1>2. Carries(MakePacketDeleteCharacter(Member(me).characterID), "SC_DELETE_CHARACTER",
              About(me, "stop2Dir"))
  BY BuildersCarry
<1> DEFINE w == Wire("SC_DELETE_CHARACTER", About(me, "stop2Dir"))
<1>3. Leads(OnRelease, On(1, Empty, B), On(1, Just(w), B))
  BY <1>1, <1>2, MakeSendLeads DEF OnRelease
<1>4. On(1, Just(w), B) \subseteq On(1, Anything, B)
  BY DEF On, Contents, Anything
<1> HIDE DEF w
<1>5. On(1, Empty, B) \subseteq On(1, Empty, B)
  OBVIOUS
<1> QED
  BY <1>3, <1>4, <1>5, LeadsOn

LEMMA OnAcceptLeads ==
  ASSUME NEW met \in Meetings
  PROVE  Leads(OnAccept(met), On(1, Empty, Empty), Contents)
<1> DEFINE m == "SC_CREATE_MY_CHARACTER"
           o == "SC_CREATE_OTHER_CHARACTER"
           of == About(Me, "stop2Dir")
           a == Make(1, MakePacketCreate(m, Me))
           b == Send(1, m, of)
           c == Convert(1)
           d == Send(1, o, of)
           greets == [i \in DOMAIN met |-> Greet(met[i])]
           S == On(1, Empty, Empty)
           T == On(1, Just(Wire(m, of)), Empty)
           U == On(1, Just(Wire(o, of)), Empty)
           V == On(2, Empty, Anything)
<1>1. Me \in Others \cup {Me}
  OBVIOUS
<1>2. Carries(MakePacketCreate(m, Me), m, of)
  BY <1>1, BuildersCarry
<1>3. Carries(MakePacketCreate(o, Me), o, of)
  BY <1>1, BuildersCarry
<1>4. Leads(<<a, b>>, S, T)
  BY <1>2, MakeSendLeads
<1>5. Leads(<<c>>, T, U)
  BY <1>1, CreateRecoded, ConvertLeads
<1>6. Leads(<<d>>, U, U)
  BY <1>3, SendLeads DEF Carries
<1>7. a \in Steps /\ b \in Steps /\ c \in Steps /\ d \in Steps
  <2>1. a \in Steps /\ b \in Steps
    BY <1>2, CarryingCalls
  <2>2. d \in Steps
    BY <1>3, CarryingCalls
  <2>3. c \in Steps
    BY CallTypes
  <2> QED
    BY <2>1, <2>2, <2>3
<1>8. U \subseteq V
  <2>1. Other(2) = 1 /\ Other(1) = 2
    BY DEF Other
  <2> QED
    BY <2>1 DEF On, Contents, Anything
<1>9. Leads(FlattenSeq(greets), V, V)
  <2>1. PICK k \in Nat : met \in [1 .. k -> Met]
    BY MeetingType
  <2>2. DOMAIN greets = 1 .. k /\ greets = [i \in 1 .. k |-> greets[i]]
    BY <2>1
  <2>3. ASSUME NEW i \in 1 .. k
        PROVE  Leads(greets[i], V, V)
    BY <2>1, GreetLeads
  <2>4. V \in SUBSET Contents
    BY DEF On
  <2> HIDE DEF greets, V
  <2> QED
    BY <2>2, <2>3, <2>4, AllLead
<1>10. V \subseteq Contents
  BY DEF On
<1>11. OnAccept(met) = <<a, b, c, d>> \o FlattenSeq(greets)
  BY DEF OnAccept
<1> HIDE DEF m, o, of, a, b, c, d, greets, S, T, U, V
<1>12. Leads(<<c>> \o <<d>>, T, U)
  BY <1>5, <1>6, Continues
<1>13. <<c>> \o <<d>> = <<c, d>>
  BY <1>7, OneAndOne
<1>14. Leads(<<a, b>> \o <<c, d>>, S, U)
  BY <1>4, <1>12, <1>13, Continues
<1>15. <<a, b>> \o <<c, d>> = <<a, b, c, d>>
  BY <1>7, TwoAndTwoCalls
<1>16. Leads(<<a, b, c, d>>, S, V)
  BY <1>8, <1>14, <1>15, LeadsOn
<1>17. Leads(OnAccept(met), S, V)
  BY <1>9, <1>11, <1>16, Continues
<1> QED
  BY <1>10, <1>17, LeadsOn DEF S

\* The first round of a sector update leaves, the last one meets.
LEMMA SectorUpdateLeads ==
  ASSUME NEW left \in Meetings, NEW met \in Meetings
  PROVE  Leads(SendPacketBySectorUpdate(left, met), On(1, Empty, Empty), Contents)
<1> DEFINE o == "SC_CREATE_OTHER_CHARACTER"
           v == "SC_MOVE_START"
           of == About(Me, "stop2Dir")
           at == About(Me, "move8Dir")
           c == Clear(1)
           m == Make(1, MakePacketCreate(o, Me))
           n == Make(2, MakePacketMoveStart(Me))
           x == Send(1, o, of)
           y == Send(2, v, at)
           leaves == [i \in DOMAIN left |-> Leave(left[i])]
           meets == [i \in DOMAIN met |-> Meet(met[i])]
           w == Wire(o, of)
           z == Wire(v, at)
           S == On(1, Empty, Empty)
           T == On(1, Anything, Empty)
           U == On(1, Just(w), Just(z))
           V == On(1, Anything, Anything)
<1>1. Me \in Others \cup {Me}
  OBVIOUS
<1>2. Carries(MakePacketCreate(o, Me), o, of)
  BY <1>1, BuildersCarry
<1>3. Carries(MakePacketMoveStart(Me), v, at)
  BY <1>1, BuildersCarry
<1>4. Leads(OnRelease, S, T)
  BY OnReleaseLeads
<1>5. Leads(FlattenSeq(leaves), T, T)
  <2>1. PICK k \in Nat : left \in [1 .. k -> Met]
    BY MeetingType
  <2>2. DOMAIN leaves = 1 .. k /\ leaves = [i \in 1 .. k |-> leaves[i]]
    BY <2>1
  <2>3. ASSUME NEW i \in 1 .. k
        PROVE  Leads(leaves[i], T, T)
    BY <2>1, LeaveLeads
  <2>4. T \in SUBSET Contents
    BY DEF On
  <2> HIDE DEF leaves, T
  <2> QED
    BY <2>2, <2>3, <2>4, AllLead
<1>6. Leads(FlattenSeq(meets), V, V)
  <2>1. PICK k \in Nat : met \in [1 .. k -> Met]
    BY MeetingType
  <2>2. DOMAIN meets = 1 .. k /\ meets = [i \in 1 .. k |-> meets[i]]
    BY <2>1
  <2>3. ASSUME NEW i \in 1 .. k
        PROVE  Leads(meets[i], V, V)
    BY <2>1, MeetLeads
  <2>4. V \in SUBSET Contents
    BY DEF On
  <2> HIDE DEF meets, V
  <2> QED
    BY <2>2, <2>3, <2>4, AllLead
<1>7. /\ c \in Steps /\ m \in Steps /\ n \in Steps /\ x \in Steps /\ y \in Steps
  <2>1. c \in Steps /\ m \in Steps /\ x \in Steps
    BY <1>2, CarryingCalls
  <2>2. n \in Steps /\ y \in Steps
    BY <1>3, CarryingCalls
  <2> QED
    BY <2>1, <2>2
<1>8. Leads(<<c>>, T, S)
  BY ClearLeads
<1>9. Leads(<<m>>, S, On(1, Just(w), Empty))
  BY <1>2, MakeLeads DEF Carries
<1>10. Leads(<<n>>, On(1, Just(w), Empty), U)
  <2>1. Leads(<<n>>, On(2, Empty, Just(w)), On(2, Just(z), Just(w)))
    BY <1>3, MakeLeads DEF Carries
  <2> HIDE DEF n, w, z
  <2> QED
    BY <2>1, OtherSide
<1>11. Leads(<<x>>, U, U)
  BY <1>2, SendLeads DEF Carries
<1>12. Leads(<<y>>, U, U)
  <2>1. Leads(<<y>>, On(2, Just(z), Just(w)), On(2, Just(z), Just(w)))
    BY <1>3, SendLeads DEF Carries
  <2> HIDE DEF y, w, z
  <2> QED
    BY <2>1, OtherSide
<1>13. U \subseteq V /\ V \subseteq Contents /\ On(1, Just(w), Empty) \in SUBSET Contents
  <2>1. Other(1) = 2
    BY DEF Other
  <2> QED
    BY <2>1 DEF On, Contents, Anything
<1>14. SendPacketBySectorUpdate(left, met) =
         OnRelease \o FlattenSeq(leaves) \o <<c, m, n, x, y>> \o FlattenSeq(meets)
  BY DEF SendPacketBySectorUpdate
<1> DEFINE R == On(1, Just(w), Empty)
<1>15. Leads(<<m>>, S, R) /\ Leads(<<n>>, R, U)
  BY <1>9, <1>10
<1> HIDE DEF o, v, of, at, c, m, n, x, y, leaves, meets, w, z, R, S, T, U, V
<1>16. Leads(<<c, m>>, T, R)
  <2>1. Leads(<<c>> \o <<m>>, T, R)
    BY <1>8, <1>15, Continues
  <2> QED
    BY <1>7, <2>1, OneAndOne
<1>17. Leads(<<c, m, n>>, T, U)
  <2>1. Leads(<<c, m>> \o <<n>>, T, U)
    BY <1>15, <1>16, Continues
  <2> QED
    BY <1>7, <2>1, TwoAndLast
<1>18. Leads(<<x, y>>, U, U)
  <2>1. Leads(<<x>> \o <<y>>, U, U)
    BY <1>11, <1>12, Continues
  <2> QED
    BY <1>7, <2>1, OneAndOne
<1>19. Leads(<<c, m, n, x, y>>, T, V)
  <2>1. Leads(<<c, m, n>> \o <<x, y>>, T, U)
    BY <1>17, <1>18, Continues
  <2>2. <<c, m, n>> \o <<x, y>> = <<c, m, n, x, y>>
    BY <1>7, ThreeAndTwoCalls
  <2> QED
    BY <1>13, <2>1, <2>2, LeadsOn
<1>20. Leads(OnRelease \o FlattenSeq(leaves), S, T)
  BY <1>4, <1>5, Continues
<1>21. Leads(OnRelease \o FlattenSeq(leaves) \o <<c, m, n, x, y>>, S, V)
  BY <1>19, <1>20, Continues
<1>22. Leads(SendPacketBySectorUpdate(left, met), S, V)
  BY <1>6, <1>14, <1>21, Continues
<1> QED
  BY <1>13, <1>22, LeadsOn DEF S

-----------------------------------------------------------------------------
\* The handlers of the packets of a client.

LEMMA CorrectedLeads ==
  ASSUME NEW far \in BOOLEAN, NEW B
  PROVE  Leads(Corrected(far), On(1, Empty, B), On(1, Empty, B))
<1> DEFINE S == On(1, Empty, B)
<1>1. Me \in Others \cup {Me}
  OBVIOUS
<1>2. CASE ~far
  <2>1. Leads(<<>>, S, S)
    BY NothingLeads DEF On
  <2> QED
    BY <1>2, <2>1 DEF Corrected
<1>3. CASE far
  BY <1>1, <1>3, BuildersCarry, MakeSendClearLeads DEF Corrected
<1> QED
  BY <1>2, <1>3

\* What the handler of q read into its variables: the fields of q.
Read(read, q) ==
  /\ q.type \in ClientTypes
  /\ \/ /\ q.type = "CS_ECHO"
        /\ read.Time = Bytes(Written(q)["Time"], 4)
     \/ /\ q.type # "CS_ECHO"
        /\ read.Direction = Bytes(Written(q)["Direction"], 1)
        /\ read.X = Bytes(Written(q)["X"], 2)
        /\ read.Y = Bytes(Written(q)["Y"], 2)

LEMMA ActsLead ==
  ASSUME NEW q \in Packets, NEW read, Read(read, q), q.type # "CS_ECHO",
         NEW far \in BOOLEAN, NEW B
  PROVE  Leads(Acts(q.type, read, q, far), On(1, Empty, B), On(1, Anything, B))
<1> DEFINE t == Answer[q.type]
           u == Written(q)["Direction"]
           v == IF far THEN <<"x", Me>> ELSE Written(q)["X"]
           w == IF far THEN <<"y", Me>> ELSE Written(q)["Y"]
           x == IF far THEN Member(Me).xPos ELSE read.X
           y == IF far THEN Member(Me).yPos ELSE read.Y
           of == [ID |-> <<"id", Me>>, Direction |-> u, X |-> v, Y |-> w]
           puts == MakePacketAction(t, Member(Me).characterID, read.Direction, x, y)
           S == On(1, Empty, B)
           T == On(1, Just(Wire(t, of)), B)
<1>1. Me \in Others \cup {Me}
  OBVIOUS
<1>2. /\ <<"id", Me>> \in Values /\ u \in Values /\ v \in Values /\ w \in Values
  BY <1>1, MemberTypes, WrittenType
<1>3. read.Direction = Bytes(u, 1) /\ x = Bytes(v, 2) /\ y = Bytes(w, 2)
  <2>1. /\ read.Direction = Bytes(Written(q)["Direction"], 1)
        /\ read.X = Bytes(Written(q)["X"], 2) /\ read.Y = Bytes(Written(q)["Y"], 2)
    BY DEF Read
  <2>2. /\ Member(Me).xPos = Bytes(<<"x", Me>>, 2)
        /\ Member(Me).yPos = Bytes(<<"y", Me>>, 2)
    BY <1>1, MemberTypes
  <2> QED
    BY <2>1, <2>2
<1>4. t \in {"SC_MOVE_START", "SC_MOVE_STOP", "SC_ATTACK1", "SC_ATTACK2", "SC_ATTACK3"}
  BY DEF Read, ClientTypes, Answer
<1>5. of \in Meanings /\ of.ID = <<"id", Me>> /\ of.Direction = u /\ of.X = v /\ of.Y = w
  <2> HIDE DEF u, v, w
  <2> QED
    BY <1>2 DEF Meanings
<1>6. Acts(q.type, read, q, far) = Corrected(far) \o <<Make(1, puts), Send(1, t, of)>>
  BY DEF Acts
<1>7. T \subseteq On(1, Anything, B)
  BY DEF On, Contents, Anything
<1>8. Means(MakePacketAction(t, Member(Me).characterID, Bytes(u, 1), Bytes(v, 2),
                             Bytes(w, 2)), t, of)
  <2> HIDE DEF t, u, v, w, of
  <2> QED
    BY <1>1, <1>2, <1>4, <1>5, ActionMeans
<1>9. puts = MakePacketAction(t, Member(Me).characterID, Bytes(u, 1), Bytes(v, 2),
                              Bytes(w, 2))
  <2> HIDE DEF t, u, v, w, x, y
  <2> QED
    BY <1>3
<1>10. t \in ServerTypes
  BY <1>4 DEF ServerTypes
<1>11. Leads(Corrected(far), S, S)
  BY CorrectedLeads
<1> HIDE DEF t, u, v, w, x, y, of, puts
<1>12. Carries(puts, t, of)
  BY <1>5, <1>8, <1>9, <1>10 DEF Carries
<1>13. Leads(<<Make(1, puts), Send(1, t, of)>>, S, T)
  BY <1>12, MakeSendLeads
<1> HIDE DEF S, T
<1>14. Leads(Acts(q.type, read, q, far), S, T)
  BY <1>6, <1>11, <1>13, Continues
<1>15. S \subseteq S
  OBVIOUS
<1> QED
  BY <1>7, <1>14, <1>15, LeadsOn DEF S

LEMMA HitsLead ==
  ASSUME NEW c \in Others, NEW B
  PROVE  Leads(Hits(c), On(1, Anything, B), On(1, Anything, B))
<1> DEFINE of == [AttackID |-> <<"id", Me>>, DamageID |-> <<"id", c>>,
                  DamageHP |-> <<"hp", c>>]
           puts == MakePacketDamage(Member(Me).characterID, Member(c).characterID,
                                    Member(c).hp)
<1>1. Me \in Others \cup {Me} /\ c \in Others \cup {Me}
  OBVIOUS
<1>2. Means(puts, "SC_DAMAGE", of)
  BY <1>1, DamageMeans
<1>3. of \in Meanings
  <2>1. <<"id", Me>> \in Values /\ <<"id", c>> \in Values /\ <<"hp", c>> \in Values
    BY <1>1, MemberTypes
  <2> QED
    BY <2>1 DEF Meanings
<1>4. Hits(c) = <<Clear(1), Make(1, puts), Send(1, "SC_DAMAGE", of)>>
  BY DEF Hits
<1> HIDE DEF of, puts
<1>5. Carries(puts, "SC_DAMAGE", of)
  BY <1>2, <1>3 DEF Carries, ServerTypes
<1> QED
  BY <1>4, <1>5, ClearMakeSendLeads

LEMMA EchoLeads ==
  ASSUME NEW q \in Packets, NEW read, Read(read, q), q.type = "CS_ECHO", NEW B
  PROVE  Leads(ProcessPacketEcho(read, q), On(1, Empty, B), On(1, Anything, B))
<1> DEFINE v == Written(q)["Time"]
           of == [Time |-> v]
           puts == MakePacketEcho(read.Time)
           S == On(1, Empty, B)
           T == On(1, Just(Wire("SC_ECHO", of)), B)
<1>1. v \in Values
  BY WrittenType
<1>2. Means(puts, "SC_ECHO", of)
  <2>1. read.Time = Bytes(v, 4)
    BY DEF Read
  <2> HIDE DEF v
  <2> QED
    BY <1>1, <2>1, EchoMeans
<1>3. of \in Meanings
  <2> HIDE DEF v
  <2> QED
    BY <1>1 DEF Meanings
<1>4. ProcessPacketEcho(read, q) = <<Make(1, puts), Send(1, "SC_ECHO", of)>>
  BY DEF ProcessPacketEcho
<1>5. T \subseteq On(1, Anything, B) /\ S \subseteq S
  BY DEF On, Contents, Anything
<1> HIDE DEF of, puts
<1>6. Carries(puts, "SC_ECHO", of)
  BY <1>2, <1>3 DEF Carries, ServerTypes
<1>7. Leads(ProcessPacketEcho(read, q), S, T)
  BY <1>4, <1>6, MakeSendLeads
<1> HIDE DEF S, T
<1>8. Leads(ProcessPacketEcho(read, q), S, On(1, Anything, B))
  BY <1>5, <1>7, LeadsOn
<1> QED
  BY <1>8 DEF S

\* Whatever the handler of a packet finds, its calls are in order.
LEMMA HandlersLead ==
  ASSUME NEW q \in Packets, NEW read, Read(read, q),
         NEW calls \in Handlers(q.type, read, q)
  PROVE  Leads(calls, On(1, Empty, Empty), Contents)
<1> DEFINE S == On(1, Empty, Empty)
           T == On(1, Anything, Empty)
           t == q.type
<1>1. T \subseteq Contents /\ S \subseteq S /\ T \in SUBSET Contents
  BY DEF On
<1>2. Leads(calls, S, T)
  <2>1. CASE t = "CS_ECHO"
    <3>1. calls = ProcessPacketEcho(read, q)
      BY <2>1 DEF Handlers
    <3> QED
      BY <2>1, <3>1, EchoLeads
  <2>2. CASE t \in {"CS_MOVE_START", "CS_MOVE_STOP"}
    <3>1. PICK far \in BOOLEAN : calls = Acts(t, read, q, far)
      BY <2>2 DEF Handlers
    <3> QED
      BY <2>2, <3>1, ActsLead
  <2>3. CASE t # "CS_ECHO" /\ t \notin {"CS_MOVE_START", "CS_MOVE_STOP"}
    <3>1. PICK far \in BOOLEAN, hit \in {<<>>} \cup {Hits(o) : o \in Others} :
            calls = Acts(t, read, q, far) \o hit
      BY <2>3 DEF Handlers
    <3>2. Leads(Acts(t, read, q, far), S, T)
      BY <2>3, ActsLead
    <3>3. Leads(hit, T, T)
      <4>1. CASE hit = <<>>
        BY <1>1, <4>1, NothingLeads
      <4>2. CASE hit \in {Hits(o) : o \in Others}
        BY <4>2, HitsLead
      <4> QED
        BY <4>1, <4>2
    <3> HIDE DEF S, T, t
    <3> QED
      BY <3>1, <3>2, <3>3, Continues
  <2> QED
    BY <2>1, <2>2, <2>3
<1> HIDE DEF S, T
<1>3. Leads(calls, S, Contents)
  BY <1>1, <1>2, LeadsOn
<1> QED
  BY <1>3 DEF S

-----------------------------------------------------------------------------
\* What the actions do to a buffer.

\* SendPacket gets what the buffer holds.
LEMMA QueuedHeld ==
  ASSUME NEW b, NEW w \in Seq(Cells), Holds(b, w)
  PROVE  Buffer!Queued(b) = w
<1>1. PICK n \in Nat : n = Len(w)
  OBVIOUS
<1>2. b.front = 0 /\ b.useSize = n /\ \A i \in 1 .. n : b.cells[i - 1] = w[i]
  BY <1>1 DEF Holds
<1>3. Buffer!Queued(b) = [i \in 1 .. n |-> b.cells[0 + i - 1]]
  BY <1>2 DEF Buffer!Queued, Buffer!Loaded
<1>4. ASSUME NEW i \in 1 .. n
      PROVE  b.cells[0 + i - 1] = w[i]
  <2>1. 0 + i - 1 = i - 1
    OBVIOUS
  <2> QED
    BY <1>2, <2>1
<1>5. w = [i \in 1 .. n |-> w[i]]
  BY <1>1
<1>6. Buffer!Queued(b) = [i \in 1 .. n |-> w[i]]
  BY <1>3, <1>4
<1> QED
  BY <1>5, <1>6

\* The conversion of a packet.
LEMMA ConvertedHolds ==
  ASSUME NEW b, NEW v \in Seq(Cells), NEW w \in Seq(Cells), Holds(b, v), Recoded(v, w)
  PROVE  Holds(Buffer!OverwrittenAtFront(b, Code("SC_CREATE_OTHER_CHARACTER")), w)
<1>1. PICK rest \in Seq(Cells) : /\ v = Code("SC_CREATE_MY_CHARACTER") \o rest
                                 /\ w = Code("SC_CREATE_OTHER_CHARACTER") \o rest
  BY DEF Recoded
<1> DEFINE a == Code("SC_CREATE_MY_CHARACTER")
           o == Code("SC_CREATE_OTHER_CHARACTER")
           c == Buffer!OverwrittenAtFront(b, o)
           cells == Buffer!Stored(b.cells, b.front, o)
<1>2. a \in Seq(Cells) /\ o \in Seq(Cells) /\ Long(a, 2) /\ Long(o, 2)
  <2>1. /\ "SC_CREATE_MY_CHARACTER" \in ClientTypes \cup ServerTypes \cup {Unknown}
        /\ "SC_CREATE_OTHER_CHARACTER" \in ClientTypes \cup ServerTypes \cup {Unknown}
    BY DEF ServerTypes
  <2> QED
    BY <2>1, CodeType DEF Long
<1>3. Joined(v, a, rest) /\ Joined(w, o, rest)
  BY <1>1 DEF Joined
<1>4. c = [b EXCEPT !.cells = cells]
  BY DEF Buffer!OverwrittenAtFront
<1>5. /\ b \in Buffers /\ b.front = 0 /\ b.useSize = Len(v)
      /\ \A i \in 1 .. Len(v) : b.cells[i - 1] = v[i]
  BY DEF Holds
<1>6. cells \in [0 .. Capacity - 1 -> Cells]
  BY <1>2, <1>5, FieldsOf, StoredType
<1> HIDE DEF a, o
<1>7. JoinedAt(v, a, rest) /\ JoinedAt(w, o, rest)
  BY <1>2, <1>3, JoinedIs
<1>8. PICK n \in Nat : n = Len(rest)
  OBVIOUS
<1>9. /\ Len(v) = n + 2 /\ Len(w) = n + 2 /\ w[1] = o[1] /\ w[2] = o[2]
      /\ \A i \in 1 .. n : v[2 + i] = rest[i] /\ w[2 + i] = rest[i]
  BY <1>2, <1>7, <1>8 DEF JoinedAt, Long
<1>10. n + 2 <= Capacity
  <2>1. /\ b.useSize \in Nat /\ b.freeSize \in Nat /\ b.front \in Nat /\ b.rear \in Nat
        /\ b.front + b.useSize = b.rear /\ b.rear + b.freeSize = Capacity
    BY <1>5, FieldsOf
  <2>2. b.useSize = n + 2
    BY <1>5, <1>9
  <2> QED
    BY <2>1, <2>2, PacketAssumption
<1>11. /\ cells[0] = o[1] /\ cells[1] = o[2]
       /\ \A i \in 2 .. Capacity - 1 : cells[i] = b.cells[i]
  <2>1. DOMAIN b.cells = 0 .. Capacity - 1
    BY <1>5, FieldsOf
  <2>2. Len(o) = 2
    BY <1>2 DEF Long
  <2>3. cells = [i \in 0 .. Capacity - 1 |->
                   IF i \in 0 .. 0 + 2 - 1 THEN o[i - 0 + 1] ELSE b.cells[i]]
    BY <1>5, <2>1, <2>2 DEF Buffer!Stored
  <2>4. 0 \in 0 .. Capacity - 1 /\ 1 \in 0 .. Capacity - 1
    BY PacketAssumption
  <2> HIDE DEF cells
  <2>5. cells[0] = o[0 - 0 + 1] /\ cells[1] = o[1 - 0 + 1]
    BY <2>3, <2>4
  <2>6. ASSUME NEW i \in 2 .. Capacity - 1
        PROVE  cells[i] = b.cells[i]
    BY <2>3, PacketAssumption
  <2> QED
    BY <2>5, <2>6
<1>12. /\ c \in Buffer!BufferOf(Cells) /\ c.cells = cells /\ c.front = b.front
       /\ c.rear = b.rear /\ c.useSize = b.useSize /\ c.freeSize = b.freeSize
  <2> HIDE DEF c, cells
  <2> QED
    BY <1>4, <1>5, <1>6, FieldsOf DEF Buffer!BufferOf
<1> HIDE DEF c, cells
<1>13. c \in Buffers
  <2>1. Buffer!SizesAgree(b)
    BY <1>5 DEF Buffers
  <2>2. Buffer!SizesAgree(c)
    BY <1>12, <2>1 DEF Buffer!SizesAgree
  <2> QED
    BY <1>12, <2>2 DEF Buffers
<1>14. ASSUME NEW i \in 1 .. n + 2
       PROVE  c.cells[i - 1] = w[i]
  <2>1. CASE i = 1
    BY <1>9, <1>11, <1>12, <2>1
  <2>2. CASE i = 2
    BY <1>9, <1>11, <1>12, <2>2
  <2>3. CASE i > 2
    <3>1. PICK j \in 1 .. n : i = 2 + j
      <4>1. i - 2 \in 1 .. n /\ i = 2 + (i - 2)
        BY <2>3
      <4> QED
        BY <4>1
    <3>2. i - 1 \in 2 .. Capacity - 1
      BY <1>10, <2>3, PacketAssumption
    <3>3. c.cells[i - 1] = b.cells[i - 1]
      BY <1>11, <1>12, <3>2
    <3>4. b.cells[i - 1] = v[i]
      BY <1>5, <1>9
    <3>5. v[i] = w[i]
      BY <1>9, <3>1
    <3> QED
      BY <3>3, <3>4, <3>5
  <2> QED
    BY <2>1, <2>2, <2>3
<1>15. Holds(c, w)
  BY <1>5, <1>9, <1>12, <1>13, <1>14 DEF Holds
<1> QED
  BY <1>15 DEF c, o

\* ClearBuffer, Dequeue to the rear and MoveRear.
LEMMA ReceivedHolds ==
  ASSUME NEW b \in Buffers, NEW w \in Seq(Cells), Len(w) \in 2 .. 12
  PROVE  Holds(Buffer!MovedRear(
                 Buffer!WrittenBehindRear(Buffer!ClearBuffer(b), w), Len(w)), w)
<1> DEFINE c == Buffer!ClearBuffer(b)
           e == <<>>
<1>1. Holds(c, e) /\ e \in Seq(Cells) /\ Len(e) = 0
  BY ClearedHolds
<1>2. c.freeSize = Capacity
  <2>1. c \in Buffers /\ c.front = 0 /\ c.useSize = 0
    BY <1>1 DEF Holds
  <2> HIDE DEF c
  <2> QED
    BY <2>1, FieldsOf, PacketAssumption
<1>3. e \o w = w
  OBVIOUS
<1> HIDE DEF c, e
<1>4. Len(e) + Len(w) <= Capacity /\ ~(c.freeSize < Len(w))
  <2>1. PICK n \in 2 .. 12 : n = Len(w)
    OBVIOUS
  <2>2. 0 + n <= Capacity /\ ~(Capacity < n)
    BY PacketAssumption
  <2> QED
    BY <1>1, <1>2, <2>1, <2>2
<1>5. Holds(Buffer!Put(c, w), e \o w)
  BY <1>1, <1>4, PutHolds
<1>6. Buffer!Put(c, w) = Buffer!MovedRear(Buffer!WrittenBehindRear(c, w), Len(w))
  BY <1>4 DEF Buffer!Put
<1> QED
  BY <1>3, <1>5, <1>6 DEF c

-----------------------------------------------------------------------------
\* The inductive invariant.

\* The buffers hold what the calls that are left need, to be in order.
InOrder(s, bufs) ==
  /\ s \in Seq(Steps)
  /\ \E h, g \in Contents : (\A i \in 1 .. 2 : Holds(bufs[i], h[i])) /\ Path(s, h, g)

\* A received packet waits for its handler, or a handler is at work.
Waits(s, b, q) == s = <<Dispatch>> /\ Holds(b, Payload(q))

Inv ==
  /\ packet \in Packets /\ recvPacket \in Buffers /\ local \in [1 .. 2 -> Buffers]
  /\ todo = <<>> \/ Waits(todo, recvPacket, packet) \/ InOrder(todo, local)
  /\ packet.type \in ClientTypes /\ todo # <<Dispatch>> => Read(got, packet)
  /\ SentAsLaidOut

LEMMA DispatchIsNoStep ==
  ASSUME NEW bufs
  PROVE  ~InOrder(<<Dispatch>>, bufs)
<1>1. SUFFICES ASSUME <<Dispatch>> \in Seq(Steps)
               PROVE  FALSE
  BY DEF InOrder
<1> DEFINE s == <<Dispatch>>
<1>2. Len(s) = 1 /\ s[1] = Dispatch
  OBVIOUS
<1> HIDE DEF s
<1>3. s \in Seq(Steps)
  BY <1>1 DEF s
<1>4. Dispatch \in Steps
  BY <1>2, <1>3
<1>5. Dispatch.buf = 0
  BY DEF Dispatch
<1> QED
  BY <1>4, <1>5 DEF Steps

\* A handler starts in order.
LEMMA StartsInOrder ==
  ASSUME NEW calls, Leads(calls, On(1, Empty, Empty), Contents), NEW bufs,
         bufs = [i \in 1 .. 2 |-> Buffer!Constructed]
  PROVE  InOrder(calls, bufs) /\ bufs \in [1 .. 2 -> Buffers]
<1> DEFINE e == <<>>
           h == [i \in 1 .. 2 |-> e]
<1>1. e \in Seq(Cells)
  OBVIOUS
<1>2. Holds(Buffer!Constructed, e) /\ Buffer!Constructed \in Buffers
  BY ConstructedHolds
<1>3. Empty = Just(e)
  BY DEF Empty
<1> HIDE DEF e
<1>4. h \in On(1, Empty, Empty)
  <2>1. Other(1) = 2
    BY DEF Other
  <2>2. h \in Contents
    BY <1>1 DEF Contents
  <2>3. h[1] = e /\ h[2] = e
    OBVIOUS
  <2> HIDE DEF h
  <2> QED
    BY <1>3, <2>1, <2>2, <2>3 DEF On, Just
<1>5. PICK g \in Contents : Path(calls, h, g)
  BY <1>4 DEF Leads
<1>6. \A i \in 1 .. 2 : Holds(bufs[i], h[i])
  BY <1>2
<1>7. bufs \in [1 .. 2 -> Buffers]
  BY <1>2
<1>8. h \in Contents
  BY <1>4 DEF On
<1> HIDE DEF h
<1>9. InOrder(calls, bufs)
  BY <1>5, <1>6, <1>8 DEF InOrder, Leads
<1> QED
  BY <1>7, <1>9

\* The next call finds the buffers in order, and leaves them so when its buffer

\* holds what it should.
Turns(c, rest, bufs, h, k) ==
  /\ h \in Contents /\ k \in Contents
  /\ \A i \in 1 .. 2 : Holds(bufs[i], h[i])
  /\ c \in Steps /\ Does(c, h, k)
  /\ rest \in Seq(Steps) /\ \E g \in Contents : Path(rest, k, g)

LEMMA NextTurns ==
  ASSUME NEW s, s # <<>>, NEW bufs, InOrder(s, bufs)
  PROVE  \E h, k \in Contents : Turns(Head(s), Tail(s), bufs, h, k)
<1>1. PICK h \in Contents, g \in Contents :
        (\A i \in 1 .. 2 : Holds(bufs[i], h[i])) /\ Path(s, h, g)
  BY DEF InOrder
<1>2. s \in Seq(Steps)
  BY DEF InOrder
<1>3. PICK k \in Contents : Does(Head(s), h, k) /\ Path(Tail(s), k, g)
  BY <1>1, <1>2, PathHead
<1>4. Tail(s) \in Seq(Steps)
  BY <1>2
<1>5. Head(s) \in Steps
  BY <1>3 DEF Does
<1> QED
  BY <1>1, <1>3, <1>4, <1>5 DEF Turns

LEMMA TurnKeeps ==
  ASSUME NEW c, NEW rest, NEW bufs \in [1 .. 2 -> Buffers], NEW h, NEW k,
         Turns(c, rest, bufs, h, k), NEW b, Holds(b, k[c.buf]),
         NEW new, new = [bufs EXCEPT ![c.buf] = b]
  PROVE  InOrder(rest, new) /\ new \in [1 .. 2 -> Buffers]
<1>1. c.buf \in 1 .. 2
  BY DEF Turns, Steps
<1>2. b \in Buffers
  BY DEF Holds
<1>3. new \in [1 .. 2 -> Buffers] /\ new[c.buf] = b
  BY <1>1, <1>2
<1>4. ASSUME NEW i \in 1 .. 2
      PROVE  Holds(new[i], k[i])
  <2>1. CASE i = c.buf
    BY <1>3, <2>1
  <2>2. CASE i # c.buf
    <3>1. Other(c.buf) = i
      BY <1>1, <2>2 DEF Other
    <3>2. k[i] = h[i]
      BY <3>1 DEF Turns, Does
    <3>3. new[i] = bufs[i]
      BY <1>1, <2>2
    <3> QED
      BY <3>2, <3>3 DEF Turns
  <2> QED
    BY <2>1, <2>2
<1> QED
  BY <1>3, <1>4 DEF InOrder, Turns

\* What a handler's buffer holds after each kind of call.
LEMMA MakeTurns ==
  ASSUME NEW c, NEW rest, NEW bufs, NEW h, NEW k, Turns(c, rest, bufs, h, k),
         c.call = "make"
  PROVE  Holds(PutAll(bufs[c.buf], c.puts), k[c.buf])
<1>1. /\ h[c.buf] = <<>> /\ Len(FlattenSeq(c.puts)) <= Capacity
      /\ k[c.buf] = FlattenSeq(c.puts)
  BY DEF Turns, Does
<1>2. c.puts \in Seq(Seq(Cells)) /\ c.buf \in 1 .. 2
  BY DEF Turns, Steps
<1>3. Holds(bufs[c.buf], <<>>)
  <2>1. Holds(bufs[c.buf], h[c.buf])
    BY <1>2 DEF Turns
  <2> QED
    BY <1>1, <2>1
<1> QED
  BY <1>1, <1>2, <1>3, PutAllHolds

LEMMA ConvertTurns ==
  ASSUME NEW c, NEW rest, NEW bufs, NEW h, NEW k, Turns(c, rest, bufs, h, k),
         c.call = "convert"
  PROVE  Holds(Buffer!OverwrittenAtFront(bufs[c.buf], Code("SC_CREATE_OTHER_CHARACTER")),
               k[c.buf])
<1>1. Recoded(h[c.buf], k[c.buf])
  BY DEF Turns, Does
<1>2. c.buf \in 1 .. 2
  BY DEF Turns, Steps
<1>3. /\ h[c.buf] \in Seq(Cells) /\ k[c.buf] \in Seq(Cells)
      /\ Holds(bufs[c.buf], h[c.buf])
  BY <1>2 DEF Turns, Contents
<1> QED
  BY <1>1, <1>3, ConvertedHolds

LEMMA ClearTurns ==
  ASSUME NEW c, NEW rest, NEW bufs \in [1 .. 2 -> Buffers], NEW h, NEW k,
         Turns(c, rest, bufs, h, k), c.call = "clear"
  PROVE  Holds(Buffer!ClearBuffer(bufs[c.buf]), k[c.buf])
<1>1. k[c.buf] = <<>>
  BY DEF Turns, Does
<1>2. bufs[c.buf] \in Buffers
  BY DEF Turns, Steps
<1>3. Holds(Buffer!ClearBuffer(bufs[c.buf]), <<>>)
  BY <1>2, ClearedHolds
<1> QED
  BY <1>1, <1>3

LEMMA SendTurns ==
  ASSUME NEW c, NEW rest, NEW bufs, NEW h, NEW k, Turns(c, rest, bufs, h, k),
         c.call = "send"
  PROVE  /\ Holds(bufs[c.buf], k[c.buf])
         /\ Buffer!Queued(bufs[c.buf]) = Wire(c.type, c.of)
<1>1. h[c.buf] = Wire(c.type, c.of) /\ k[c.buf] = h[c.buf]
  BY DEF Turns, Does
<1>2. c.buf \in 1 .. 2
  BY DEF Turns, Steps
<1>3. h[c.buf] \in Seq(Cells) /\ Holds(bufs[c.buf], h[c.buf])
  BY <1>2 DEF Turns, Contents
<1> QED
  BY <1>1, <1>3, QueuedHeld

\* The next bytes, when there are size of them.
LEMMA GotOf ==
  ASSUME NEW w \in Seq(Cells), NEW size \in Nat, Long(w, size),
         NEW k \in Nat, NEW m \in Nat \ {0}, NEW n \in Nat, n = k + m, n <= size,
         NEW b, Reading(b, w, k), NEW variable
  PROVE  /\ Buffer!Got(b, m, variable) = Part(w, k, m)
         /\ Reading(Buffer!MovedFront(b, m), w, n)
<1>1. k + m <= Len(w)
  BY DEF Long
<1>2. Buffer!Got(b, m, variable) = Part(w, k, m)
  BY <1>1, GotPart
<1>3. Reading(Buffer!MovedFront(b, m), w, k + m)
  BY <1>1, MovedOn
<1> QED
  BY <1>2, <1>3

\* The code in front of a received packet says which one it is.
LEMMA ReadsCode ==
  ASSUME NEW q \in Packets, NEW b, Holds(b, Payload(q))
  PROVE  /\ Buffer!Got(b, WORD, Unset) = Code(q.type)
         /\ Reading(Buffer!MovedFront(b, WORD), Payload(q), 2)
<1> DEFINE w == Payload(q)
<1>1. w \in Seq(Cells) /\ Len(w) \in 2 .. 12 /\ Part(w, 0, 2) = Code(q.type)
  BY PayloadCode
<1>2. Reading(b, w, 0)
  BY <1>1, ReadingStarts
<1> HIDE DEF w
<1>3. PICK size \in 2 .. 12 : Long(w, size)
  BY <1>1 DEF Long
<1>4. ASSUME NEW k \in Nat, NEW m \in Nat \ {0}, k = 0, m = 2
      PROVE  /\ Buffer!Got(b, m, Unset) = Part(w, k, m)
             /\ Reading(Buffer!MovedFront(b, m), w, m)
  <2>1. size \in Nat /\ m = k + m /\ m <= size /\ Reading(b, w, k)
    BY <1>2, <1>4
  <2> QED
    BY <1>1, <1>3, <2>1, GotOf
<1>5. Buffer!Got(b, 2, Unset) = Part(w, 0, 2) /\ Reading(Buffer!MovedFront(b, 2), w, 2)
  BY <1>4
<1> QED
  BY <1>1, <1>5 DEF w, WORD

LEMMA ReadsTime ==
  ASSUME NEW q \in Packets, q.type = "CS_ECHO", NEW b, Reading(b, Payload(q), 2)
  PROVE  /\ Buffer!Got(b, DWORD, Unset) = Bytes(Written(q)["Time"], 4)
         /\ Buffer!MovedFront(b, DWORD) \in Buffers
<1> DEFINE w == Payload(q)
<1>1. w \in Seq(Cells) /\ Long(w, 6) /\ Part(w, 2, 4) = Bytes(Written(q)["Time"], 4)
  BY EchoPayload
<1> HIDE DEF w
<1>2. ASSUME NEW k \in Nat, NEW m \in Nat \ {0}, NEW n \in Nat, k = 2, m = 4, n = 6
      PROVE  /\ Buffer!Got(b, m, Unset) = Part(w, k, m)
             /\ Reading(Buffer!MovedFront(b, m), w, n)
  <2>1. n = k + m /\ n <= n /\ Long(w, n) /\ Reading(b, w, k)
    BY <1>1, <1>2 DEF w
  <2> QED
    BY <1>1, <2>1, GotOf
<1>3. Buffer!Got(b, 4, Unset) = Part(w, 2, 4) /\ Reading(Buffer!MovedFront(b, 4), w, 6)
  BY <1>2
<1> QED
  BY <1>1, <1>3 DEF Reading, DWORD

LEMMA ReadsPlacement ==
  ASSUME NEW q \in Packets, q.type \in ClientTypes \ {"CS_ECHO"},
         NEW b, Reading(b, Payload(q), 2), NEW c, c = Buffer!MovedFront(b, BYTE),
         NEW d, d = Buffer!MovedFront(c, WORD)
  PROVE  /\ Buffer!Got(b, BYTE, Unset) = Bytes(Written(q)["Direction"], 1)
         /\ Buffer!Got(c, WORD, Unset) = Bytes(Written(q)["X"], 2)
         /\ Buffer!Got(d, WORD, Unset) = Bytes(Written(q)["Y"], 2)
         /\ Buffer!MovedFront(d, WORD) \in Buffers
<1> DEFINE w == Payload(q)
<1>1. /\ w \in Seq(Cells) /\ Long(w, 7)
      /\ Part(w, 2, 1) = Bytes(Written(q)["Direction"], 1)
      /\ Part(w, 3, 2) = Bytes(Written(q)["X"], 2)
      /\ Part(w, 5, 2) = Bytes(Written(q)["Y"], 2)
  BY ActionPayload
<1> HIDE DEF w
<1>2. ASSUME NEW k \in Nat, NEW m \in Nat \ {0}, NEW n \in Nat, n = k + m, n <= 7,
             NEW r, Reading(r, w, k)
      PROVE  /\ Buffer!Got(r, m, Unset) = Part(w, k, m)
             /\ Reading(Buffer!MovedFront(r, m), w, n)
  <2>1. PICK size \in Nat : size = 7
    OBVIOUS
  <2>2. Long(w, size) /\ n <= size
    BY <1>1, <1>2, <2>1
  <2> QED
    BY <1>1, <1>2, <2>2, GotOf
<1>3. Reading(b, w, 2)
  BY DEF w
<1>4. Buffer!Got(b, 1, Unset) = Part(w, 2, 1) /\ Reading(Buffer!MovedFront(b, 1), w, 3)
  BY <1>2, <1>3
<1>5. Reading(c, w, 3)
  BY <1>4 DEF BYTE
<1>6. Buffer!Got(c, 2, Unset) = Part(w, 3, 2) /\ Reading(Buffer!MovedFront(c, 2), w, 5)
  BY <1>2, <1>5
<1>7. Reading(d, w, 5)
  BY <1>6 DEF WORD
<1>8. Buffer!Got(d, 2, Unset) = Part(w, 5, 2) /\ Reading(Buffer!MovedFront(d, 2), w, 7)
  BY <1>2, <1>7
<1> QED
  BY <1>1, <1>4, <1>6, <1>8 DEF Reading, BYTE, WORD

LEMMA InitInv == Init => Inv
<1> SUFFICES ASSUME Init
             PROVE  Inv
  OBVIOUS
<1>1. packet \in Packets /\ packet.type \notin ClientTypes
  BY PacketAssumption DEF Init, Packets
<1>2. recvPacket \in Buffers /\ local \in [1 .. 2 -> Buffers]
  BY ConstructedHolds DEF Init
<1>3. todo = <<>>
  BY DEF Init
<1>4. SentAsLaidOut
  BY DEF Init, SentAsLaidOut
<1> QED
  BY <1>1, <1>2, <1>3, <1>4 DEF Inv

\* Actions that leave what was sent alone keep SentAsLaidOut.
LEMMA SentKept ==
  ASSUME SentAsLaidOut, sent' = sent
  PROVE  SentAsLaidOut'
BY DEF SentAsLaidOut

LEMMA StartsKeeps ==
  ASSUME NEW calls, Leads(calls, On(1, Empty, Empty), Contents), Starts(calls)
  PROVE  InOrder(todo', local') /\ local' \in [1 .. 2 -> Buffers] /\ todo' # <<Dispatch>>
<1>1. InOrder(todo', local') /\ local' \in [1 .. 2 -> Buffers]
  BY StartsInOrder DEF Starts
<1> QED
  BY <1>1, DispatchIsNoStep

LEMMA ServerEventKeeps ==
  ASSUME Inv, ServerEvent
  PROVE  Inv'
<1>1. PICK calls : Starts(calls) /\ Leads(calls, On(1, Empty, Empty), Contents)
  <2>1. ASSUME NEW met \in Meetings, Starts(OnAccept(met))
        PROVE  \E calls : Starts(calls) /\ Leads(calls, On(1, Empty, Empty), Contents)
    BY <2>1, OnAcceptLeads
  <2>2. ASSUME Starts(OnRelease)
        PROVE  \E calls : Starts(calls) /\ Leads(calls, On(1, Empty, Empty), Contents)
    <3>1. Leads(OnRelease, On(1, Empty, Empty), On(1, Anything, Empty))
      BY OnReleaseLeads
    <3>2. On(1, Anything, Empty) \subseteq Contents
      BY DEF On
    <3>3. On(1, Empty, Empty) \subseteq On(1, Empty, Empty)
      OBVIOUS
    <3>4. Leads(OnRelease, On(1, Empty, Empty), Contents)
      BY <3>1, <3>2, <3>3, LeadsOn
    <3> QED
      BY <2>2, <3>4
  <2>3. ASSUME NEW left \in Meetings, NEW met \in Meetings,
               Starts(SendPacketBySectorUpdate(left, met))
        PROVE  \E calls : Starts(calls) /\ Leads(calls, On(1, Empty, Empty), Contents)
    BY <2>3, SectorUpdateLeads
  <2> QED
    BY <2>1, <2>2, <2>3 DEF ServerEvent
<1>2. InOrder(todo', local') /\ local' \in [1 .. 2 -> Buffers]
  BY <1>1, StartsKeeps
<1>3. /\ recvPacket' = recvPacket /\ packet' = packet /\ got' = got /\ sent' = sent
      /\ todo = <<>>
  BY DEF ServerEvent
<1>4. packet.type \in ClientTypes => Read(got, packet)
  BY <1>3 DEF Inv
<1>5. SentAsLaidOut'
  BY <1>3, SentKept DEF Inv
<1> QED
  BY <1>2, <1>3, <1>4, <1>5 DEF Inv

LEMMA ReceivesKeeps ==
  ASSUME Inv, NEW type \in ClientTypes \cup {Unknown}, Receives(type)
  PROVE  Inv'
<1> DEFINE p == [type |-> type, number |-> 3 - packet.number]
<1>1. p \in Packets
  BY DEF Inv, Packets
<1>2. /\ recvPacket' = Buffer!MovedRear(
           Buffer!WrittenBehindRear(Buffer!ClearBuffer(recvPacket), Payload(p)),
           Len(Payload(p)))
      /\ packet' = p /\ todo' = <<Dispatch>> /\ local' = local /\ sent' = sent
  BY DEF Receives
<1> HIDE DEF p
<1>3. Holds(recvPacket', Payload(p))
  <2>1. Payload(p) \in Seq(Cells) /\ Len(Payload(p)) \in 2 .. 12 /\ recvPacket \in Buffers
    BY <1>1, PayloadCode DEF Inv
  <2> QED
    BY <1>2, <2>1, ReceivedHolds
<1>4. Waits(todo', recvPacket', packet') /\ recvPacket' \in Buffers
  BY <1>2, <1>3 DEF Waits, Holds
<1>5. SentAsLaidOut'
  BY <1>2, SentKept DEF Inv
<1> QED
  BY <1>1, <1>2, <1>4, <1>5 DEF Inv

\* The packet a handler is called for.
LEMMA Waiting ==
  ASSUME Inv, todo = <<Dispatch>>
  PROVE  /\ Holds(recvPacket, Payload(packet))
         /\ Buffer!Got(recvPacket, WORD, Unset) = Code(packet.type)
         /\ Reading(Buffer!MovedFront(recvPacket, WORD), Payload(packet), 2)
<1>1. ~InOrder(todo, local)
  BY DispatchIsNoStep
<1>2. Holds(recvPacket, Payload(packet)) /\ packet \in Packets
  BY <1>1 DEF Inv, Waits
<1> QED
  BY <1>2, ReadsCode

LEMMA IgnoresKeeps ==
  ASSUME Inv, Ignores
  PROVE  Inv'
<1>1. /\ todo = <<Dispatch>> /\ recvPacket' = Buffer!MovedFront(recvPacket, WORD)
      /\ local' = local /\ packet' = packet /\ sent' = sent
      /\ \A t \in ClientTypes : Buffer!Got(recvPacket, WORD, Unset) # Code(t)
  BY DEF Ignores
<1>2. packet.type \notin ClientTypes
  BY <1>1, Waiting
<1>3. recvPacket' \in Buffers
  BY <1>1, Waiting DEF Reading
<1>4. todo' = <<>>
  BY DEF Ignores
<1>5. SentAsLaidOut'
  BY <1>1, SentKept DEF Inv
<1> QED
  BY <1>1, <1>2, <1>3, <1>4, <1>5 DEF Inv

\* A handler that read its packet starts.
LEMMA HandlerKeeps ==
  ASSUME Inv, packet' = packet, sent' = sent, Read(got', packet),
         \E calls \in Handlers(packet.type, got', packet) : Starts(calls),
         recvPacket' \in Buffers
  PROVE  Inv'
<1>1. packet \in Packets
  BY DEF Inv
<1>2. PICK calls \in Handlers(packet.type, got', packet) : Starts(calls)
  OBVIOUS
<1>3. Leads(calls, On(1, Empty, Empty), Contents)
  BY <1>1, <1>2, HandlersLead
<1>4. InOrder(todo', local') /\ local' \in [1 .. 2 -> Buffers]
  BY <1>2, <1>3, StartsKeeps
<1>5. SentAsLaidOut'
  BY SentKept DEF Inv
<1> QED
  BY <1>1, <1>4, <1>5 DEF Inv

LEMMA ReadsEchoKeeps ==
  ASSUME Inv, ReadsEcho
  PROVE  Inv'
<1> DEFINE b == Buffer!MovedFront(recvPacket, WORD)
           v == Buffer!Got(b, DWORD, Unset)
<1>1. /\ todo = <<Dispatch>> /\ packet' = packet /\ sent' = sent
      /\ Buffer!Got(recvPacket, WORD, Unset) = Code("CS_ECHO")
      /\ recvPacket' = Buffer!MovedFront(b, DWORD) /\ got' = [Unread EXCEPT !.Time = v]
      /\ \E calls \in Handlers("CS_ECHO", got', packet) : Starts(calls)
  BY DEF ReadsEcho
<1>2. packet.type = "CS_ECHO" /\ packet \in Packets
  BY <1>1, Waiting, CodeTells DEF Inv
<1>3. Reading(b, Payload(packet), 2)
  BY <1>1, Waiting
<1>4. got'.Time = v
  <2> HIDE DEF v
  <2> QED
    BY <1>1 DEF Unread
<1> HIDE DEF b, v
<1>5. v = Bytes(Written(packet)["Time"], 4) /\ recvPacket' \in Buffers
  BY <1>1, <1>2, <1>3, ReadsTime DEF v
<1>6. Read(got', packet)
  BY <1>2, <1>4, <1>5 DEF Read, ClientTypes
<1> QED
  BY <1>1, <1>2, <1>5, <1>6, HandlerKeeps

LEMMA ReadsActionKeeps ==
  ASSUME Inv, NEW type \in ClientTypes \ {"CS_ECHO"}, ReadsAction(type)
  PROVE  Inv'
<1> DEFINE b == Buffer!MovedFront(recvPacket, WORD)
           c == Buffer!MovedFront(b, BYTE)
           d == Buffer!MovedFront(c, WORD)
           u == Buffer!Got(b, BYTE, Unset)
           v == Buffer!Got(c, WORD, Unset)
           w == Buffer!Got(d, WORD, Unset)
<1>1. /\ todo = <<Dispatch>> /\ packet' = packet /\ sent' = sent
      /\ Buffer!Got(recvPacket, WORD, Unset) = Code(type)
      /\ recvPacket' = Buffer!MovedFront(d, WORD)
      /\ got' = [Unread EXCEPT !.Direction = u, !.X = v, !.Y = w]
      /\ \E calls \in Handlers(type, got', packet) : Starts(calls)
  BY DEF ReadsAction
<1>2. packet.type = type /\ packet \in Packets
  BY <1>1, Waiting, CodeTells DEF Inv
<1>3. Reading(b, Payload(packet), 2)
  BY <1>1, Waiting
<1>4. got'.Direction = u /\ got'.X = v /\ got'.Y = w
  <2> HIDE DEF u, v, w
  <2> QED
    BY <1>1 DEF Unread
<1>5. /\ c = Buffer!MovedFront(b, BYTE) /\ d = Buffer!MovedFront(c, WORD)
      /\ u = Buffer!Got(b, BYTE, Unset) /\ v = Buffer!Got(c, WORD, Unset)
      /\ w = Buffer!Got(d, WORD, Unset)
  OBVIOUS
<1> HIDE DEF b, c, d, u, v, w
<1>6. /\ u = Bytes(Written(packet)["Direction"], 1)
      /\ v = Bytes(Written(packet)["X"], 2) /\ w = Bytes(Written(packet)["Y"], 2)
      /\ recvPacket' \in Buffers
  BY <1>1, <1>2, <1>3, <1>5, ReadsPlacement
<1>7. Read(got', packet)
  BY <1>2, <1>4, <1>6 DEF Read
<1> QED
  BY <1>1, <1>2, <1>6, <1>7, HandlerKeeps

\* A handler's call.
LEMMA Calling ==
  ASSUME Inv, NEW call \in {"make", "convert", "clear", "send"}, Calls(call)
  PROVE  /\ \E h, k \in Contents : Turns(Head(todo), Tail(todo), local, h, k)
         /\ packet.type \in ClientTypes => Read(got, packet)
         /\ todo # <<>> /\ Head(todo).call = call /\ todo' = Tail(todo)
<1>1. todo # <<>> /\ Head(todo).call = call /\ todo' = Tail(todo)
  BY DEF Calls
<1>2. todo # <<Dispatch>>
  <2>1. Head(<<Dispatch>>) = Dispatch
    OBVIOUS
  <2> QED
    BY <1>1, <2>1 DEF Dispatch
<1>3. InOrder(todo, local)
  BY <1>1, <1>2 DEF Inv, Waits
<1> QED
  BY <1>1, <1>2, <1>3, NextTurns DEF Inv

\* Calls other than a send.
LEMMA RewritesKeep ==
  ASSUME Inv, NEW call \in {"make", "convert", "clear"}, Calls(call),
         NEW b, Rewrites(b),
         \A h, k \in Contents : Turns(Head(todo), Tail(todo), local, h, k) =>
                                  Holds(b, k[Head(todo).buf])
  PROVE  Inv'
<1> DEFINE c == Head(todo)
           s == Tail(todo)
<1>1. /\ packet.type \in ClientTypes => Read(got, packet)
      /\ todo' = s
  BY Calling
<1>2. PICK h \in Contents, k \in Contents : Turns(c, s, local, h, k)
  BY Calling
<1>3. /\ local' = [local EXCEPT ![c.buf] = b] /\ recvPacket' = recvPacket
      /\ packet' = packet /\ got' = got /\ sent' = sent
  BY DEF Rewrites
<1>4. Holds(b, k[c.buf])
  BY <1>2
<1>5. local \in [1 .. 2 -> Buffers]
  BY DEF Inv
<1> HIDE DEF c, s
<1>6. InOrder(s, local') /\ local' \in [1 .. 2 -> Buffers]
  BY <1>2, <1>3, <1>4, <1>5, TurnKeeps
<1>7. SentAsLaidOut'
  BY <1>3, SentKept DEF Inv
<1> QED
  BY <1>1, <1>3, <1>6, <1>7 DEF Inv

LEMMA SendsKeeps ==
  ASSUME Inv, Sends
  PROVE  Inv'
<1> DEFINE c == Head(todo)
           s == Tail(todo)
           b == local[c.buf]
<1>0. Calls("send")
  BY DEF Sends
<1>1. /\ packet.type \in ClientTypes => Read(got, packet)
      /\ todo' = s /\ c.call = "send"
  BY <1>0, Calling
<1>2. PICK h \in Contents, k \in Contents : Turns(c, s, local, h, k)
  BY <1>0, Calling
<1>3. /\ local' = local /\ recvPacket' = recvPacket /\ packet' = packet /\ got' = got
      /\ sent' = [bytes |-> Buffer!Queued(b), type |-> c.type, of |-> c.of]
  BY DEF Sends
<1>4. local \in [1 .. 2 -> Buffers] /\ local = [local EXCEPT ![c.buf] = b]
  BY DEF Inv
<1>5. Holds(b, k[c.buf]) /\ Buffer!Queued(b) = Wire(c.type, c.of)
  <2> HIDE DEF c, s
  <2> QED
    BY <1>1, <1>2, SendTurns DEF b
<1> HIDE DEF c, s, b
<1>6. InOrder(s, local)
  BY <1>2, <1>4, <1>5, TurnKeeps
<1>7. SentAsLaidOut'
  BY <1>3, <1>5 DEF SentAsLaidOut
<1> QED
  BY <1>1, <1>3, <1>6, <1>7 DEF Inv

LEMMA NextKeeps == Inv /\ [Next]_vars => Inv'
<1> SUFFICES ASSUME Inv, [Next]_vars
             PROVE  Inv'
  OBVIOUS
<1>1. CASE ServerEvent
  BY <1>1, ServerEventKeeps
<1>2. ASSUME NEW type \in ClientTypes \cup {Unknown}, Receives(type)
      PROVE  Inv'
  BY <1>2, ReceivesKeeps
<1>3. CASE Ignores
  BY <1>3, IgnoresKeeps
<1>4. CASE ReadsEcho
  BY <1>4, ReadsEchoKeeps
<1>5. ASSUME NEW type \in ClientTypes \ {"CS_ECHO"}, ReadsAction(type)
      PROVE  Inv'
  BY <1>5, ReadsActionKeeps
<1>6. CASE Builds
  <2>1. Calls("make") /\ Rewrites(PutAll(local[Head(todo).buf], Head(todo).puts))
    BY <1>6 DEF Builds
  <2>2. Head(todo).call = "make"
    BY <2>1 DEF Calls
  <2> QED
    BY <2>1, <2>2, MakeTurns, RewritesKeep
<1>7. CASE Converts
  <2>1. /\ Calls("convert")
        /\ Rewrites(Buffer!OverwrittenAtFront(local[Head(todo).buf],
                                              Code("SC_CREATE_OTHER_CHARACTER")))
    BY <1>7 DEF Converts
  <2>2. Head(todo).call = "convert"
    BY <2>1 DEF Calls
  <2> QED
    BY <2>1, <2>2, ConvertTurns, RewritesKeep
<1>8. CASE Clears
  <2>1. Calls("clear") /\ Rewrites(Buffer!ClearBuffer(local[Head(todo).buf]))
    BY <1>8 DEF Clears
  <2>2. Head(todo).call = "clear" /\ local \in [1 .. 2 -> Buffers]
    BY <2>1 DEF Calls, Inv
  <2> QED
    BY <2>1, <2>2, ClearTurns, RewritesKeep
<1>9. CASE Sends
  BY <1>9, SendsKeeps
<1>10. CASE UNCHANGED vars
  BY <1>10 DEF vars, Inv, SentAsLaidOut
<1> QED
  BY <1>1, <1>2, <1>3, <1>4, <1>5, <1>6, <1>7, <1>8, <1>9, <1>10 DEF Next

LEMMA AlwaysInv == Spec => []Inv
BY InitInv, NextKeeps, PTL DEF Spec

-----------------------------------------------------------------------------
\* The theorems.

\* Whatever was built and sent in a thread's buffers before, SendPacket gets one

\* packet, laid out as the protocol header says, with the values it is meant to
\* carry: handlers clear a buffer before they build another packet in it, and no
\* field is dropped, because the largest packet fits.
THEOREM PacketsAreSentAsLaidOut == Spec => []SentAsLaidOut
<1>1. Inv => SentAsLaidOut
  BY DEF Inv
<1> QED
  BY <1>1, AlwaysInv, PTL

\* A handler's variables are the fields of the packet it was called for, although

\* recvPacket served packets before it that were read in part only.
THEOREM HandlersReadTheirPacket == Spec => []ReadsOwnPacket
<1>1. Inv => ReadsOwnPacket
  <2>1. SUFFICES ASSUME Inv, packet.type \in ClientTypes, todo # <<Dispatch>>,
                        NEW i \in DOMAIN Layout(packet.type)
                 PROVE  got[Layout(packet.type)[i][1]] =
                          Bytes(Written(packet)[Layout(packet.type)[i][1]],
                                Layout(packet.type)[i][2])
    BY DEF ReadsOwnPacket
  <2>2. Read(got, packet)
    BY <2>1 DEF Inv
  <2>3. CASE packet.type = "CS_ECHO"
    <3>1. Layout(packet.type) = <<<<"Time", 4>>>>
      BY <2>3, EchoLayout
    <3>2. i = 1
      BY <3>1
    <3>3. Layout(packet.type)[i][1] = "Time" /\ Layout(packet.type)[i][2] = 4
      BY <3>1, <3>2
    <3> QED
      BY <2>2, <2>3, <3>3 DEF Read
  <2>4. CASE packet.type # "CS_ECHO"
    <3>1. Layout(packet.type) = <<<<"Direction", 1>>, <<"X", 2>>, <<"Y", 2>>>>
      BY <2>1, <2>4, ClientLayout
    <3>2. i \in 1 .. 3
      BY <3>1
    <3>3. CASE i = 1
      <4>1. Layout(packet.type)[i][1] = "Direction" /\ Layout(packet.type)[i][2] = 1
        BY <3>1, <3>3
      <4> QED
        BY <2>2, <2>4, <4>1 DEF Read
    <3>4. CASE i = 2
      <4>1. Layout(packet.type)[i][1] = "X" /\ Layout(packet.type)[i][2] = 2
        BY <3>1, <3>4
      <4> QED
        BY <2>2, <2>4, <4>1 DEF Read
    <3>5. CASE i = 3
      <4>1. Layout(packet.type)[i][1] = "Y" /\ Layout(packet.type)[i][2] = 2
        BY <3>1, <3>5
      <4> QED
        BY <2>2, <2>4, <4>1 DEF Read
    <3> QED
      BY <3>2, <3>3, <3>4, <3>5
  <2> QED
    BY <2>3, <2>4
<1> QED
  BY <1>1, AlwaysInv, PTL
=============================================================================
