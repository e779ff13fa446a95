--------------------------- MODULE RecvRingProofs ---------------------------
(***************************************************************************)
(* Proofs about RecvRing, for every ring, header and packet size.          *)
(***************************************************************************)
EXTENDS RecvRing, RingIndexTheorems, FiniteSetTheorems

PacketType == [number : 0 .. Packets - 1, len : 0 .. MaxLen]
ByteType == [packet : 0 .. Packets, at : 0 .. Header + MaxLen, len : 0 .. MaxLen]

-----------------------------------------------------------------------------
\* The stream of a sequence of packets.

\* Induction up to n, for a set: if n were not in S, adding 1 would map the
\* numbers of S up to n, which are finitely many, one to one into those but 0.
LEMMA UpTo ==
  ASSUME NEW n \in Nat, NEW S, 0 \in S, \A i \in 0 .. n - 1 : i \in S => i + 1 \in S
  PROVE  n \in S
<1> SUFFICES ASSUME n \notin S
             PROVE  FALSE
  OBVIOUS
<1> DEFINE A == S \cap (0 .. n)
           f == [i \in A |-> i + 1]
<1>1. IsFiniteSet(A)
  <2>1. IsFiniteSet(0 .. n)
    BY FS_Interval
  <2>2. A \in SUBSET (0 .. n)
    OBVIOUS
  <2> QED
    BY <2>1, <2>2, FS_Subset
<1>2. IsFiniteSet(A \ {0}) /\ Cardinality(A \ {0}) < Cardinality(A)
  <2>1. 0 \in A
    OBVIOUS
  <2> HIDE DEF A
  <2>2. Cardinality(A) \in Nat
    BY <1>1, FS_CardinalityType
  <2>3. IsFiniteSet(A \ {0}) /\ Cardinality(A \ {0}) = Cardinality(A) - 1
    BY <1>1, <2>1, FS_RemoveElement
  <2> QED
    BY <2>2, <2>3
<1>3. f \in [A -> A \ {0}]
  OBVIOUS
<1>4. \E i, j \in A : i # j /\ f[i] = f[j]
  <2> HIDE DEF A, f
  <2> QED
    BY <1>1, <1>2, <1>3, FS_PigeonHole
<1> QED
  BY <1>4

\* What the recursive function in EndsOf demands of e, up to packet n.
Ends(e, ps, n) ==
  /\ e[0] = 0
  /\ \A i \in 1 .. n : e[i] = e[i - 1] + Header + ps[i].len

\* There is such a function,
LEMMA EndsExist ==
  ASSUME NEW ps \in Seq(PacketType)
  PROVE  \E e \in [0 .. Len(ps) -> Nat] : Ends(e, ps, Len(ps))
<1> DEFINE S == {n \in 0 .. Len(ps) : \E e \in [0 .. n -> Nat] : Ends(e, ps, n)}
<1>1. 0 \in S
  <2> DEFINE e == [i \in 0 .. 0 |-> 0]
  <2>1. e \in [0 .. 0 -> Nat] /\ Ends(e, ps, 0)
    BY DEF Ends
  <2> QED
    BY <2>1
<1>2. ASSUME NEW n \in 0 .. Len(ps) - 1, n \in S
      PROVE  n + 1 \in S
  <2>1. PICK e \in [0 .. n -> Nat] : Ends(e, ps, n)
    BY <1>2
  <2> DEFINE l == e[n] + Header + ps[n + 1].len
             d == [i \in 0 .. n + 1 |-> IF i = n + 1 THEN l ELSE e[i]]
  <2>2. l \in Nat
    <3>1. ps[n + 1] \in PacketType
      OBVIOUS
    <3> QED
      BY <3>1, RecvSizes, SMTT(30) DEF PacketType
  <2>3. d \in [0 .. n + 1 -> Nat]
    BY <2>2
  <2>4. d[0] = 0 /\ d[n + 1] = d[n] + Header + ps[n + 1].len
    BY <2>1 DEF Ends
  <2>5. \A i \in 1 .. n : d[i] = d[i - 1] + Header + ps[i].len
    BY <2>1 DEF Ends
  <2>6. Ends(d, ps, n + 1)
    <3> HIDE DEF d
    <3>1. \A i \in 1 .. n + 1 : i \in 1 .. n \/ (i = n + 1 /\ i - 1 = n)
      OBVIOUS
    <3> QED
      BY <2>4, <2>5, <3>1 DEF Ends
  <2> QED
    BY <2>3, <2>6
<1> HIDE DEF S
<1>3. Len(ps) \in S
  BY <1>1, <1>2, UpTo
<1> QED
  BY <1>3 DEF S

\* there is only one,
LEMMA EndsUnique ==
  ASSUME NEW ps, NEW n \in Nat, NEW d, NEW e, Ends(d, ps, n), Ends(e, ps, n)
  PROVE  \A i \in 0 .. n : d[i] = e[i]
<1> DEFINE S == {i \in 0 .. n : d[i] = e[i]}
<1> TAKE m \in 0 .. n
<1>1. 0 \in S
  BY DEF Ends
<1>2. \A i \in 0 .. m - 1 : i \in S => i + 1 \in S
  <2> TAKE i \in 0 .. m - 1
  <2>1. i + 1 \in 1 .. n /\ (i + 1) - 1 = i
    OBVIOUS
  <2> QED
    BY <2>1 DEF Ends
<1>3. m \in S
  <2> HIDE DEF S
  <2> QED
    BY <1>1, <1>2, UpTo
<1> QED
  BY <1>3

\* and it is EndsOf.
LEMMA EndsOfEnds ==
  ASSUME NEW ps \in Seq(PacketType)
  PROVE  EndsOf(ps) \in [0 .. Len(ps) -> Nat] /\ Ends(EndsOf(ps), ps, Len(ps))
<1> DEFINE F(e) == [i \in 0 .. Len(ps) |->
                      IF i = 0 THEN 0 ELSE e[i - 1] + Header + ps[i].len]
<1>1. PICK e \in [0 .. Len(ps) -> Nat] : Ends(e, ps, Len(ps))
  BY EndsExist
<1>2. e = F(e)
  BY <1>1 DEF Ends
<1>3. EndsOf(ps) = CHOOSE g : g = F(g)
  BY DEF EndsOf
<1>4. EndsOf(ps) = F(EndsOf(ps))
  BY <1>2, <1>3
<1>5. Ends(EndsOf(ps), ps, Len(ps))
  BY <1>4 DEF Ends
<1>6. \A i \in 0 .. Len(ps) : EndsOf(ps)[i] = e[i]
  BY <1>1, <1>5, EndsUnique
<1>7. EndsOf(ps) = e
  BY <1>4, <1>6
<1> QED
  BY <1>1, <1>7

\* A packet more ends behind the others, which end where they did.
LEMMA EndsAppended ==
  ASSUME NEW ps \in Seq(PacketType), NEW p \in PacketType
  PROVE  /\ \A i \in 0 .. Len(ps) : EndsOf(Append(ps, p))[i] = EndsOf(ps)[i]
         /\ EndsOf(Append(ps, p))[Len(ps) + 1] = EndsOf(ps)[Len(ps)] + Header + p.len
<1> DEFINE l == Len(ps)
           d == EndsOf(Append(ps, p))
<1>1. Append(ps, p) \in Seq(PacketType) /\ Len(Append(ps, p)) = l + 1
  OBVIOUS
<1>2. Ends(d, Append(ps, p), l + 1)
  BY <1>1, EndsOfEnds
<1>3. \A i \in 1 .. l : Append(ps, p)[i] = ps[i]
  OBVIOUS
<1>4. Append(ps, p)[l + 1] = p /\ l + 1 \in 1 .. l + 1 /\ (l + 1) - 1 = l /\ l \in 0 .. l
  OBVIOUS
<1> HIDE DEF d
<1>5. Ends(d, ps, l)
  BY <1>2, <1>3 DEF Ends
<1>6. \A i \in 0 .. l : d[i] = EndsOf(ps)[i]
  BY <1>5, EndsOfEnds, EndsUnique
<1>7. d[l + 1] = d[l] + Header + p.len
  BY <1>2, <1>4 DEF Ends
<1> QED
  BY <1>4, <1>6, <1>7 DEF d

\* Without the first packet the others end as much earlier as it is long.
LEMMA EndsTaken ==
  ASSUME NEW ps \in Seq(PacketType), ps # <<>>
  PROVE  /\ EndsOf(ps)[1] = Header + Head(ps).len
         /\ \A i \in 0 .. Len(ps) - 1 :
              EndsOf(Tail(ps))[i] = EndsOf(ps)[i + 1] - EndsOf(ps)[1]
<1> DEFINE l == Len(ps) - 1
           e == EndsOf(ps)
           d == [i \in 0 .. l |-> e[i + 1] - e[1]]
<1>1. l \in Nat /\ Tail(ps) \in Seq(PacketType) /\ Len(Tail(ps)) = l
  OBVIOUS
<1>2. \A i \in 1 .. l : Tail(ps)[i] = ps[i + 1]
  OBVIOUS
<1>3. e \in [0 .. l + 1 -> Nat] /\ Ends(e, ps, l + 1)
  BY EndsOfEnds
<1>4. \A i \in 1 .. l + 1 : ps[i].len \in Nat
  <2> TAKE i \in 1 .. l + 1
  <2>1. ps[i] \in PacketType
    OBVIOUS
  <2> QED
    BY <2>1 DEF PacketType
<1>5. e[1] = Header + Head(ps).len
  BY <1>1, <1>3, <1>4, RecvSizes DEF Ends
<1> HIDE DEF e
<1>6. Ends(d, Tail(ps), l)
  <2>1. d[0] = 0
    BY <1>1, <1>3
  <2>2. ASSUME NEW i \in 1 .. l
        PROVE  d[i] = d[i - 1] + Header + Tail(ps)[i].len
    <3>1. /\ i + 1 \in 1 .. l + 1 /\ (i + 1) - 1 = i /\ i - 1 \in 0 .. l
          /\ i \in 0 .. l /\ (i - 1) + 1 = i
      BY <1>1
    <3>2. e[i + 1] = e[i] + Header + ps[i + 1].len
      BY <1>3, <3>1 DEF Ends
    <3>3. e[i] \in Nat /\ e[1] \in Nat /\ ps[i + 1].len \in Nat
      BY <1>1, <1>3, <1>4
    <3>4. d[i] = e[i + 1] - e[1] /\ d[i - 1] = e[i] - e[1]
      BY <3>1
    <3> QED
      BY <1>2, <3>2, <3>3, <3>4, RecvSizes, SMTT(30)
  <2> HIDE DEF d
  <2> QED
    BY <2>1, <2>2 DEF Ends
<1>7. \A i \in 0 .. l : d[i] = EndsOf(Tail(ps))[i]
  <2> HIDE DEF d
  <2> QED
    BY <1>1, <1>6, EndsOfEnds, EndsUnique, SMTT(30)
<1> QED
  BY <1>5, <1>7 DEF e

\* No packet ends behind the last one.
LEMMA EndsBounded ==
  ASSUME NEW ps \in Seq(PacketType), NEW i \in 0 .. Len(ps)
  PROVE  EndsOf(ps)[i] \in 0 .. EndsOf(ps)[Len(ps)]
<1> DEFINE l == Len(ps)
           e == EndsOf(ps)
           S == {j \in 0 .. l : e[l - j] <= e[l]}
<1>1. e \in [0 .. l -> Nat] /\ Ends(e, ps, l)
  BY EndsOfEnds
<1> HIDE DEF e
<1>2. 0 \in S
  BY <1>1
<1>3. \A j \in 0 .. (l - i) - 1 : j \in S => j + 1 \in S
  <2> TAKE j \in 0 .. (l - i) - 1
  <2>1. l - j \in 1 .. l /\ (l - j) - 1 = l - (j + 1) /\ j + 1 \in 0 .. l
    OBVIOUS
  <2>2. ps[l - j].len \in Nat
    <3>1. ps[l - j] \in PacketType
      BY <2>1
    <3> QED
      BY <3>1 DEF PacketType
  <2>3. e[l - j] = e[l - (j + 1)] + Header + ps[l - j].len
    BY <1>1, <2>1 DEF Ends
  <2>4. e[l - (j + 1)] \in Nat /\ e[l] \in Nat
    BY <1>1
  <2> QED
    BY <2>1, <2>2, <2>3, <2>4, RecvSizes, SMTT(30)
<1>4. l - i \in S
  <2> HIDE DEF S
  <2> QED
    BY <1>2, <1>3, UpTo
<1> QED
  BY <1>1, <1>4 DEF e

-----------------------------------------------------------------------------
\* Pieces of sequences.

\* The elements of s behind the first a, up to b.
LEMMA Piece ==
  ASSUME NEW V, NEW s \in Seq(V), NEW b \in 0 .. Len(s), NEW a \in 0 .. b
  PROVE  /\ SubSeq(s, a + 1, b) \in Seq(V)
         /\ Len(SubSeq(s, a + 1, b)) = b - a
         /\ \A i \in 1 .. b - a : SubSeq(s, a + 1, b)[i] = s[a + i]
  OBVIOUS

LEMMA Joined ==
  ASSUME NEW V, NEW s \in Seq(V), NEW t \in Seq(V)
  PROVE  /\ s \o t \in Seq(V)
         /\ Len(s \o t) = Len(s) + Len(t)
         /\ \A i \in 1 .. Len(s) : (s \o t)[i] = s[i]
         /\ \A i \in 1 .. Len(t) : (s \o t)[Len(s) + i] = t[i]
  OBVIOUS

LEMMA SameSequence ==
  ASSUME NEW V, NEW s \in Seq(V), NEW t \in Seq(V), Len(s) = Len(t),
         \A i \in 1 .. Len(s) : s[i] = t[i]
  PROVE  s = t
  OBVIOUS

\* A piece of a piece is a piece.
LEMMA PieceOfPiece ==
  ASSUME NEW V, NEW s \in Seq(V), NEW a \in 0 .. Len(s), NEW b \in a .. Len(s),
         NEW d \in 0 .. b - a, NEW c \in 0 .. d
  PROVE  SubSeq(SubSeq(s, a + 1, b), c + 1, d) = SubSeq(s, (a + c) + 1, a + d)
<1> DEFINE t == SubSeq(s, a + 1, b)
<1>1. t \in Seq(V) /\ Len(t) = b - a /\ \A i \in 1 .. b - a : t[i] = s[a + i]
  BY Piece
<1> HIDE DEF t
<1>2. /\ SubSeq(t, c + 1, d) \in Seq(V) /\ Len(SubSeq(t, c + 1, d)) = d - c
      /\ \A i \in 1 .. d - c : SubSeq(t, c + 1, d)[i] = t[c + i]
  BY <1>1, Piece
<1>3. a + d \in 0 .. Len(s) /\ a + c \in 0 .. a + d
  OBVIOUS
<1>4. /\ SubSeq(s, (a + c) + 1, a + d) \in Seq(V)
      /\ Len(SubSeq(s, (a + c) + 1, a + d)) = (a + d) - (a + c)
      /\ \A i \in 1 .. (a + d) - (a + c) : SubSeq(s, (a + c) + 1, a + d)[i] = s[(a + c) + i]
  BY <1>3, Piece
<1>5. (a + d) - (a + c) = d - c
  OBVIOUS
<1>6. \A i \in 1 .. d - c : SubSeq(t, c + 1, d)[i] = SubSeq(s, (a + c) + 1, a + d)[i]
  <2> TAKE i \in 1 .. d - c
  <2>1. c + i \in 1 .. b - a /\ a + (c + i) = (a + c) + i
    OBVIOUS
  <2> QED
    BY <1>1, <1>2, <1>4, <1>5, <2>1
<1>7. SubSeq(t, c + 1, d) = SubSeq(s, (a + c) + 1, a + d)
  BY <1>2, <1>4, <1>5, <1>6, SameSequence
<1> QED
  BY <1>7 DEF t

\* A piece that ends within s is none of what follows s.
LEMMA PieceOfFirst ==
  ASSUME NEW V, NEW s \in Seq(V), NEW t \in Seq(V), NEW b \in 0 .. Len(s), NEW a \in 0 .. b
  PROVE  SubSeq(s \o t, a + 1, b) = SubSeq(s, a + 1, b)
<1>1. s \o t \in Seq(V) /\ b \in 0 .. Len(s \o t) /\ \A i \in 1 .. Len(s) : (s \o t)[i] = s[i]
  OBVIOUS
<1>2. /\ SubSeq(s \o t, a + 1, b) \in Seq(V) /\ Len(SubSeq(s \o t, a + 1, b)) = b - a
      /\ \A i \in 1 .. b - a : SubSeq(s \o t, a + 1, b)[i] = (s \o t)[a + i]
  BY <1>1, Piece
<1>3. /\ SubSeq(s, a + 1, b) \in Seq(V) /\ Len(SubSeq(s, a + 1, b)) = b - a
      /\ \A i \in 1 .. b - a : SubSeq(s, a + 1, b)[i] = s[a + i]
  BY Piece
<1>4. \A i \in 1 .. b - a : a + i \in 1 .. Len(s)
  OBVIOUS
<1> QED
  BY <1>1, <1>2, <1>3, <1>4, SameSequence

\* What follows s in s \o t.
LEMMA PieceOfSecond ==
  ASSUME NEW V, NEW s \in Seq(V), NEW t \in Seq(V), NEW n, n = Len(s) + Len(t)
  PROVE  SubSeq(s \o t, Len(s) + 1, n) = t
<1>1. s \o t \in Seq(V) /\ Len(s \o t) = n /\ \A i \in 1 .. Len(t) : (s \o t)[Len(s) + i] = t[i]
  OBVIOUS
<1>2. Len(s) \in 0 .. n /\ n \in 0 .. n /\ n - Len(s) = Len(t)
  OBVIOUS
<1>3. /\ SubSeq(s \o t, Len(s) + 1, n) \in Seq(V)
      /\ Len(SubSeq(s \o t, Len(s) + 1, n)) = Len(t)
      /\ \A i \in 1 .. Len(t) : SubSeq(s \o t, Len(s) + 1, n)[i] = (s \o t)[Len(s) + i]
  BY <1>1, <1>2, Piece
<1> QED
  BY <1>1, <1>3, SameSequence

\* Behind the first k elements of s \o t, if s has as many.
LEMMA RestOfBoth ==
  ASSUME NEW V, NEW s \in Seq(V), NEW t \in Seq(V), NEW k \in 0 .. Len(s)
  PROVE  SubSeq(s \o t, k + 1, Len(s \o t)) = SubSeq(s, k + 1, Len(s)) \o t
<1> DEFINE c == s \o t
<1>1. /\ c \in Seq(V) /\ Len(c) = Len(s) + Len(t)
      /\ \A i \in 1 .. Len(s) : c[i] = s[i]
      /\ \A i \in 1 .. Len(t) : c[Len(s) + i] = t[i]
  OBVIOUS
<1>2. PICK r \in Seq(V) :
        /\ r = SubSeq(s, k + 1, Len(s))
        /\ Len(r) = Len(s) - k
        /\ \A i \in 1 .. Len(s) - k : r[i] = s[k + i]
  <2>1. Len(s) \in 0 .. Len(s)
    OBVIOUS
  <2>2. /\ SubSeq(s, k + 1, Len(s)) \in Seq(V)
        /\ Len(SubSeq(s, k + 1, Len(s))) = Len(s) - k
        /\ \A i \in 1 .. Len(s) - k : SubSeq(s, k + 1, Len(s))[i] = s[k + i]
    BY <2>1, Piece
  <2> WITNESS SubSeq(s, k + 1, Len(s)) \in Seq(V)
  <2> QED
    BY <2>2
<1> HIDE DEF c
<1>3. /\ r \o t \in Seq(V) /\ Len(r \o t) = Len(s) - k + Len(t)
      /\ \A i \in 1 .. Len(s) - k : (r \o t)[i] = r[i]
      /\ \A i \in 1 .. Len(t) : (r \o t)[(Len(s) - k) + i] = t[i]
  <2>1. /\ r \o t \in Seq(V) /\ Len(r \o t) = Len(r) + Len(t)
        /\ \A i \in 1 .. Len(r) : (r \o t)[i] = r[i]
        /\ \A i \in 1 .. Len(t) : (r \o t)[Len(r) + i] = t[i]
    BY Joined
  <2> QED
    BY <1>2, <2>1
<1>4. /\ SubSeq(c, k + 1, Len(c)) \in Seq(V) /\ Len(SubSeq(c, k + 1, Len(c))) = Len(c) - k
      /\ \A i \in 1 .. Len(c) - k : SubSeq(c, k + 1, Len(c))[i] = c[k + i]
  <2>1. Len(c) \in 0 .. Len(c) /\ k \in 0 .. Len(c)
    BY <1>1
  <2> QED
    BY <1>1, <2>1, Piece
<1>5. Len(c) - k = Len(s) - k + Len(t)
  BY <1>1
<1>6. ASSUME NEW i \in 1 .. Len(c) - k
      PROVE  SubSeq(c, k + 1, Len(c))[i] = (r \o t)[i]
  <2>1. CASE i <= Len(s) - k
    <3>1. i \in 1 .. Len(s) - k /\ k + i \in 1 .. Len(s)
      BY <2>1
    <3> QED
      BY <1>1, <1>2, <1>3, <1>4, <3>1
  <2>2. CASE i > Len(s) - k
    <3> DEFINE j == i - (Len(s) - k)
    <3>1. j \in 1 .. Len(t) /\ (Len(s) - k) + j = i /\ Len(s) + j = k + i
      BY <1>5, <2>2
    <3> HIDE DEF j
    <3> QED
      BY <1>1, <1>3, <1>4, <3>1
  <2>3. i <= Len(s) - k \/ i > Len(s) - k
    <3>1. i \in Int /\ Len(s) - k \in Int
      BY <1>1
    <3> QED
      BY <3>1
  <2> QED
    BY <2>1, <2>2, <2>3
<1>7. SubSeq(c, k + 1, Len(c)) = r \o t
  BY <1>3, <1>4, <1>5, <1>6, SameSequence
<1> QED
  BY <1>2, <1>7 DEF c

\* Two pieces that follow each other are one.
LEMMA PiecesJoin ==
  ASSUME NEW V, NEW s \in Seq(V), NEW k \in 0 .. Len(s), NEW j \in 0 .. k
  PROVE  /\ SubSeq(s, 1, j) \o SubSeq(s, j + 1, k) = SubSeq(s, 1, k)
         /\ SubSeq(s, 1, j) \in Seq(V) /\ Len(SubSeq(s, 1, j)) = j
         /\ SubSeq(s, j + 1, k) \in Seq(V) /\ Len(SubSeq(s, j + 1, k)) = k - j
<1>1. PICK a \in Seq(V) :
        a = SubSeq(s, 1, j) /\ Len(a) = j /\ \A i \in 1 .. j : a[i] = s[i]
  <2>1. /\ SubSeq(s, 1, j) \in Seq(V) /\ Len(SubSeq(s, 1, j)) = j
        /\ \A i \in 1 .. j : SubSeq(s, 1, j)[i] = s[i]
    OBVIOUS
  <2> WITNESS SubSeq(s, 1, j) \in Seq(V)
  <2> QED
    BY <2>1
<1>2. PICK b \in Seq(V) :
        b = SubSeq(s, j + 1, k) /\ Len(b) = k - j /\ \A i \in 1 .. k - j : b[i] = s[j + i]
  <2>1. /\ SubSeq(s, j + 1, k) \in Seq(V) /\ Len(SubSeq(s, j + 1, k)) = k - j
        /\ \A i \in 1 .. k - j : SubSeq(s, j + 1, k)[i] = s[j + i]
    BY Piece
  <2> WITNESS SubSeq(s, j + 1, k) \in Seq(V)
  <2> QED
    BY <2>1
<1>3. /\ SubSeq(s, 1, k) \in Seq(V) /\ Len(SubSeq(s, 1, k)) = k
      /\ \A i \in 1 .. k : SubSeq(s, 1, k)[i] = s[i]
  OBVIOUS
<1>4. /\ a \o b \in Seq(V) /\ Len(a \o b) = Len(a) + Len(b)
      /\ \A i \in 1 .. Len(a) : (a \o b)[i] = a[i]
      /\ \A i \in 1 .. Len(b) : (a \o b)[Len(a) + i] = b[i]
  BY Joined
<1>5. Len(a \o b) = k
  BY <1>1, <1>2, <1>4
<1>6. ASSUME NEW i \in 1 .. k
      PROVE  (a \o b)[i] = SubSeq(s, 1, k)[i]
  <2>1. CASE i <= j
    <3>1. i \in 1 .. j
      BY <2>1
    <3> QED
      BY <1>1, <1>3, <1>4, <3>1
  <2>2. CASE i > j
    <3>1. PICK m \in 1 .. k - j : j + m = i
      BY <2>2
    <3> QED
      BY <1>1, <1>2, <1>3, <1>4, <3>1
  <2>3. i <= j \/ i > j
    OBVIOUS
  <2> QED
    BY <2>1, <2>2, <2>3
<1>7. a \o b = SubSeq(s, 1, k)
  BY <1>3, <1>4, <1>5, <1>6, SameSequence
<1> QED
  BY <1>1, <1>2, <1>7

LEMMA Associative ==
  ASSUME NEW V, NEW a \in Seq(V), NEW b \in Seq(V), NEW c \in Seq(V)
  PROVE  (a \o b) \o c = a \o (b \o c)
  OBVIOUS

-----------------------------------------------------------------------------
\* Packets that join the stream at its end, and leave it at its front.

LEMMA FrameBytes ==
  ASSUME NEW p \in PacketType
  PROVE  /\ Frame(p) \in Seq(ByteType)
         /\ Len(Frame(p)) = Header + p.len
         /\ \A i \in 1 .. Header + p.len : Frame(p)[i] = Byte(p, i)
<1>1. p.len \in 0 .. MaxLen /\ p.number \in 0 .. Packets
  BY RecvSizes DEF PacketType
<1>2. Header + p.len \in Nat /\ Header + p.len <= Header + MaxLen
  BY <1>1, RecvSizes
<1>3. \A i \in 1 .. Header + p.len : Byte(p, i) \in ByteType
  BY <1>1, <1>2, RecvSizes DEF Byte, ByteType
<1> QED
  BY <1>2, <1>3 DEF Frame

LEMMA StreamAppended ==
  ASSUME NEW b \in Seq(ByteType), NEW ps \in Seq(PacketType), NEW p \in PacketType,
         IsStreamOf(b, ps)
  PROVE  IsStreamOf(b \o Frame(p), Append(ps, p))
<1> DEFINE l == Len(ps)
           qs == Append(ps, p)
           c == b \o Frame(p)
<1>1. qs \in Seq(PacketType) /\ Len(qs) = l + 1 /\ l \in 0 .. l /\ qs[l + 1] = p
  OBVIOUS
<1>2. \A i \in 1 .. l : qs[i] = ps[i]
  OBVIOUS
<1>3. /\ \A i \in 0 .. l : EndsOf(qs)[i] = EndsOf(ps)[i]
      /\ EndsOf(qs)[l + 1] = Len(b) + Header + p.len
  BY EndsAppended DEF IsStreamOf
<1>4. Len(b) = EndsOf(ps)[l]
  BY DEF IsStreamOf
<1>5. /\ Frame(p) \in Seq(ByteType) /\ Len(Frame(p)) = Header + p.len
  BY FrameBytes
<1>6. p.len \in Nat
  BY DEF PacketType
<1>7. Len(c) = EndsOf(qs)[l + 1]
  <2>1. Len(c) = Len(b) + (Header + p.len)
    BY <1>5
  <2> HIDE DEF c, qs
  <2> QED
    BY <1>3, <1>6, <2>1, RecvSizes
<1>8. ASSUME NEW i \in 1 .. l
      PROVE  SubSeq(c, EndsOf(qs)[i - 1] + 1, EndsOf(qs)[i]) = Frame(qs[i])
  <2> DEFINE x == EndsOf(ps)[i - 1]
             y == EndsOf(ps)[i]
  <2>1. i - 1 \in 0 .. l /\ i \in 0 .. l
    OBVIOUS
  <2>2. EndsOf(qs)[i - 1] = x /\ EndsOf(qs)[i] = y
    BY <1>3, <2>1
  <2>3. y \in 0 .. Len(b)
    BY <1>4, <2>1, EndsBounded
  <2>4. x \in 0 .. y
    <3>1. EndsOf(ps)[i] = EndsOf(ps)[i - 1] + Header + ps[i].len
      BY EndsOfEnds DEF Ends
    <3>2. x \in Nat
      BY <2>1, EndsOfEnds
    <3>3. ps[i].len \in Nat
      <4>1. ps[i] \in PacketType
        OBVIOUS
      <4> QED
        BY <4>1 DEF PacketType
    <3> QED
      BY <3>1, <3>2, <3>3, RecvSizes
  <2>5. SubSeq(b, x + 1, y) = Frame(ps[i])
    BY DEF IsStreamOf
  <2> HIDE DEF x, y
  <2>6. SubSeq(c, x + 1, y) = SubSeq(b, x + 1, y)
    BY <1>5, <2>3, <2>4, PieceOfFirst
  <2> QED
    BY <1>2, <2>2, <2>5, <2>6
<1>9. SubSeq(c, EndsOf(qs)[l] + 1, EndsOf(qs)[l + 1]) = Frame(qs[l + 1])
  <2>1. EndsOf(qs)[l] = Len(b) /\ EndsOf(qs)[l + 1] = Len(b) + Len(Frame(p))
    BY <1>1, <1>3, <1>4, <1>5, <1>6, RecvSizes
  <2>2. SubSeq(b \o Frame(p), Len(b) + 1, Len(b) + Len(Frame(p))) = Frame(p)
    BY <1>5, PieceOfSecond
  <2> QED
    BY <1>1, <2>1, <2>2
<1>10. \A i \in 1 .. l + 1 : i \in 1 .. l \/ (i = l + 1 /\ i - 1 = l)
  BY <1>1
<1>11. DOMAIN qs = 1 .. l + 1
  BY <1>1
<1> HIDE DEF qs, c, l
<1>12. \A i \in DOMAIN qs : SubSeq(c, EndsOf(qs)[i - 1] + 1, EndsOf(qs)[i]) = Frame(qs[i])
  BY <1>8, <1>9, <1>10, <1>11
<1>13. IsStreamOf(c, qs)
  BY <1>1, <1>7, <1>12 DEF IsStreamOf
<1> QED
  BY <1>13 DEF qs, c

LEMMA StreamTaken ==
  ASSUME NEW b \in Seq(ByteType), NEW ps \in Seq(PacketType), IsStreamOf(b, ps), ps # <<>>,
         NEW m, m = Header + Head(ps).len
  PROVE  /\ m \in 1 .. Len(b)
         /\ SubSeq(b, 1, m) = Frame(Head(ps))
         /\ IsStreamOf(SubSeq(b, m + 1, Len(b)), Tail(ps))
<1> DEFINE l == Len(ps) - 1
           e == EndsOf(ps)
           qs == Tail(ps)
           c == SubSeq(b, m + 1, Len(b))
<1>1. /\ l \in Nat /\ Len(ps) = l + 1 /\ qs \in Seq(PacketType) /\ Len(qs) = l
      /\ \A i \in 1 .. l : qs[i] = ps[i + 1]
  OBVIOUS
<1>2. e[1] = m /\ \A i \in 0 .. l : EndsOf(qs)[i] = e[i + 1] - m
  BY EndsTaken
<1>3. e[0] = 0 /\ e \in [0 .. l + 1 -> Nat]
  BY EndsOfEnds DEF Ends
<1>4. Len(b) = e[l + 1] /\ \A i \in 1 .. l + 1 : SubSeq(b, e[i - 1] + 1, e[i]) = Frame(ps[i])
  BY <1>1 DEF IsStreamOf
<1>5. m \in 1 .. Len(b)
  <2>1. e[1] \in 0 .. e[l + 1]
    BY <1>1, EndsBounded
  <2>2. Head(ps) \in PacketType
    OBVIOUS
  <2> HIDE DEF e
  <2> QED
    BY <1>2, <1>4, <2>1, <2>2, RecvSizes DEF PacketType
<1>6. SubSeq(b, 1, m) = Frame(Head(ps))
  <2>1. 1 \in 1 .. l + 1 /\ 1 - 1 = 0 /\ 0 + 1 = 1 /\ ps[1] = Head(ps)
    BY <1>1
  <2> HIDE DEF e
  <2> QED
    BY <1>2, <1>3, <1>4, <2>1
<1>7. c \in Seq(ByteType) /\ Len(c) = Len(b) - m
  <2>1. Len(b) \in 0 .. Len(b) /\ m \in 0 .. Len(b)
    BY <1>5
  <2> QED
    BY <2>1, Piece
<1>8. Len(c) = EndsOf(qs)[l]
  <2>1. l \in 0 .. l
    BY <1>1
  <2> HIDE DEF c, e, qs
  <2> QED
    BY <1>2, <1>4, <1>7, <2>1
<1>9. ASSUME NEW i \in 1 .. l
      PROVE  SubSeq(c, EndsOf(qs)[i - 1] + 1, EndsOf(qs)[i]) = Frame(qs[i])
  <2> DEFINE x == e[i] - m
             y == e[i + 1] - m
  <2>1. /\ i + 1 \in 1 .. l + 1 /\ (i + 1) - 1 = i /\ i - 1 \in 0 .. l /\ i \in 0 .. l
        /\ (i - 1) + 1 = i
    BY <1>1
  <2>2. EndsOf(qs)[i - 1] = x /\ EndsOf(qs)[i] = y
    <3> HIDE DEF qs, e
    <3> QED
      BY <1>2, <2>1
  <2>3. SubSeq(b, e[i] + 1, e[i + 1]) = Frame(ps[i + 1])
    <3> HIDE DEF e
    <3> QED
      BY <1>4, <2>1
  <2>4. y \in 0 .. Len(b) - m
    <3>1. EndsOf(qs)[i] \in 0 .. EndsOf(qs)[l]
      <4> HIDE DEF qs, l
      <4> QED
        BY <1>1, <2>1, EndsBounded
    <3> HIDE DEF qs, y, c
    <3> QED
      BY <1>7, <1>8, <2>2, <3>1
  <2>5. x \in 0 .. y
    <3>1. EndsOf(qs)[i] = EndsOf(qs)[i - 1] + Header + qs[i].len
      BY <1>1, EndsOfEnds DEF Ends
    <3>2. EndsOf(qs)[i - 1] \in Nat
      BY <1>1, <2>1, EndsOfEnds
    <3>3. qs[i].len \in Nat
      <4>1. qs[i] \in PacketType
        BY <1>1
      <4> QED
        BY <4>1 DEF PacketType
    <3> HIDE DEF qs, x, y
    <3> QED
      BY <2>2, <3>1, <3>2, <3>3, RecvSizes
  <2>6. SubSeq(c, x + 1, y) = SubSeq(b, (m + x) + 1, m + y)
    <3>1. m \in 0 .. Len(b) /\ Len(b) \in m .. Len(b)
      BY <1>5
    <3> HIDE DEF x, y
    <3> QED
      BY <2>4, <2>5, <3>1, PieceOfPiece
  <2>7. m + x = e[i] /\ m + y = e[i + 1]
    <3>1. e[i] \in Nat /\ e[i + 1] \in Nat /\ m \in Nat
      BY <1>3, <1>5, <2>1
    <3> HIDE DEF e
    <3> QED
      BY <3>1
  <2> HIDE DEF x, y, qs, e, c
  <2> QED
    BY <1>1, <2>1, <2>2, <2>3, <2>6, <2>7
<1>10. DOMAIN qs = 1 .. l
  BY <1>1
<1> HIDE DEF qs, c, e, l
<1>11. IsStreamOf(c, qs)
  BY <1>1, <1>8, <1>9, <1>10 DEF IsStreamOf
<1> QED
  BY <1>5, <1>6, <1>11 DEF qs, c

-----------------------------------------------------------------------------
\* The inductive invariant: a posted receive has the free space of the ring as
\* it is still, what has arrived fits, and ring and network together are the
\* stream of the packets owed.

RecvType == [at : {"posted", "completed", "parsing"}, first : Nat, second : Nat,
             transferred : Nat]

RecvTypes ==
  /\ buffer \in Buffers(N, ByteType)
  /\ rear \in 0 .. N - 1 /\ front \in 0 .. N - 1
  /\ recv \in RecvType
  /\ wire \in Seq(ByteType)
  /\ owed \in Seq(PacketType)
  /\ next \in 0 .. Packets - 1

ReceiveHolds ==
  /\ recv.at = "posted" => recv = Post(rear, front)
  /\ recv.at = "completed" => recv.transferred \in 1 .. FreeSize(N, rear, front)

IInv ==
  /\ RecvTypes
  /\ ReceiveHolds
  /\ StreamIntact
  /\ WholePacketsInOrder
  /\ NothingHeldBack
  /\ RoomToReceive

\* sessionRecvBufferSize holds a packet, so the ring has one byte more than that.
LEMMA CapacityIsSize == N \in Nat /\ N = Size + 1 /\ Header \in Nat \ {0} /\ MaxLen \in Nat \ {0}
  BY RecvSizes DEF N, CapacityOf, MinCapacity

\* PostRecv posts all of the free space.
LEMMA PostFits ==
  ASSUME NEW r \in 0 .. N - 1, NEW f \in 0 .. N - 1
  PROVE  /\ Post(r, f) \in RecvType
         /\ Post(r, f).first = DirectEnqueueSize(N, r, f)
         /\ Post(r, f).first + Post(r, f).second = FreeSize(N, r, f)
         /\ r + Post(r, f).first <= N
         /\ FreeSize(N, r, f) > 0 => Post(r, f).first > 0
<1> DEFINE first == DirectEnqueueSize(N, r, f)
           free == FreeSize(N, r, f)
<1>1. /\ free \in 0 .. N - 1 /\ first \in 0 .. free /\ r + first <= N
      /\ free > 0 => first > 0
  BY CapacityIsSize, UseAndFree, DirectSizes
<1>2. Post(r, f) = [at |-> "posted", first |-> first, second |-> free - first,
                   transferred |-> 0]
  BY DEF Post
<1> HIDE DEF first, free
<1>3. free - first \in Nat /\ first \in Nat /\ first + (free - first) = free
  BY <1>1
<1> QED
  BY <1>1, <1>2, <1>3 DEF RecvType, first, free

LEMMA NothingOwed == <<>> \in Seq(PacketType) /\ Len(<<>>) = 0 /\ EndsOf(<<>>)[0] = 0
<1>1. <<>> \in Seq(PacketType) /\ Len(<<>>) = 0
  OBVIOUS
<1>2. Ends(EndsOf(<<>>), <<>>, Len(<<>>))
  BY <1>1, EndsOfEnds
<1> QED
  BY <1>1, <1>2 DEF Ends

LEMMA ContentsType ==
  ASSUME NEW n \in Nat, NEW f \in 0 .. n - 1, NEW k \in 0 .. n - 1, NEW V,
         NEW buf \in Buffers(n, V)
  PROVE  Contents(n, buf, f, k) \in Seq(V) /\ Len(Contents(n, buf, f, k)) = k
<1>1. Contents(n, buf, f, k) = RunAt(n, buf, f, k)
  BY ContentsAt
<1>2. \A i \in 1 .. k : Advance(n, f, i - 1) \in 0 .. n - 1
  <2> TAKE i \in 1 .. k
  <2>1. i - 1 \in 0 .. n - 1
    OBVIOUS
  <2> QED
    BY <2>1, AdvanceByCases
<1>3. \A i \in 1 .. k : buf[Advance(n, f, i - 1)] \in V
  BY <1>2 DEF Buffers
<1> QED
  BY <1>1, <1>3 DEF RunAt

\* What the ring holds, by where the receive is.
LEMMA RingHolds ==
  ASSUME RecvTypes, ReceiveHolds
  PROVE  /\ Used \in 0 .. N - 1 /\ Used + FreeSize(N, rear, front) = N - 1
         /\ Arrived \in Used .. N - 1
         /\ InRing \in Seq(ByteType) /\ Len(InRing) = Arrived
         /\ InRing \o wire \in Seq(ByteType)
         /\ Len(InRing \o wire) = Arrived + Len(wire)
         /\ recv.at # "completed" => Arrived = Used
<1> USE CapacityIsSize
<1>1. /\ Used \in 0 .. N - 1 /\ FreeSize(N, rear, front) \in 0 .. N - 1
      /\ Used + FreeSize(N, rear, front) = N - 1
  BY UseAndFree DEF RecvTypes, Used
<1>2. Arrived \in Used .. N - 1
  BY <1>1 DEF Arrived, ReceiveHolds
<1>3. Arrived \in 0 .. N - 1
  BY <1>1, <1>2
<1>4. InRing \in Seq(ByteType) /\ Len(InRing) = Arrived
  BY <1>3, ContentsType DEF InRing, RecvTypes
<1>5. wire \in Seq(ByteType)
  BY DEF RecvTypes
<1>6. InRing \o wire \in Seq(ByteType) /\ Len(InRing \o wire) = Arrived + Len(wire)
  BY <1>4, <1>5
<1>7. recv.at # "completed" => Arrived = Used
  BY DEF Arrived
<1> QED
  BY <1>1, <1>2, <1>4, <1>6, <1>7

LEMMA RecvInit == Init => IInv
<1> USE CapacityIsSize
<1> SUFFICES ASSUME Init PROVE IInv
  OBVIOUS
<1>1. RecvTypes
  <2>1. NoByte \in ByteType
    BY RecvSizes DEF NoByte, ByteType
  <2>2. buffer \in Buffers(N, ByteType)
    BY <2>1 DEF Init, Buffers
  <2>3. recv \in RecvType
    <3>1. 0 \in 0 .. N - 1 /\ recv = Post(0, 0)
      BY RecvSizes DEF Init
    <3> QED
      BY <3>1, PostFits
  <2> QED
    BY <2>2, <2>3, RecvSizes DEF Init, RecvTypes
<1>2. ReceiveHolds
  BY DEF Init, ReceiveHolds, Post
<1>3. Used = 0 /\ FreeSize(N, rear, front) = N - 1 /\ N - 1 > 0
  BY RecvSizes DEF Init, Used, UseSize, FreeSize
<1>4. StreamIntact
  <2>1. recv.at # "completed" /\ wire = <<>> /\ owed = <<>>
    BY DEF Init, Post
  <2>2. InRing \o wire \in Seq(ByteType) /\ Len(InRing \o wire) = 0
    BY <1>1, <1>2, <1>3, <2>1, RingHolds
  <2> QED
    BY <2>1, <2>2, NothingOwed DEF StreamIntact, IsStreamOf
<1>5. WholePacketsInOrder
  <2>1. NoPacket \in PacketType /\ NoPacket.len = 0
    BY RecvSizes DEF NoPacket, PacketType
  <2>2. Frame(NoPacket) \in Seq(ByteType) /\ Len(Frame(NoPacket)) = Header
    BY <2>1, FrameBytes
  <2>3. Payload(NoPacket) \in Seq(ByteType) /\ Len(Payload(NoPacket)) = 0
    BY <2>1, <2>2, Piece DEF Payload
  <2> QED
    BY <2>1, <2>3, RecvSizes DEF Init, WholePacketsInOrder, HeapIntact
<1>6. NothingHeldBack
  BY DEF Init, NothingHeldBack
<1>7. RoomToReceive
  <2>1. recv.first = DirectEnqueueSize(N, rear, front)
    BY DEF Init, Post
  <2> QED
    BY <1>1, <1>3, <2>1, DirectSizes DEF RoomToReceive, RecvTypes
<1> QED
  BY <1>1, <1>2, <1>4, <1>5, <1>6, <1>7 DEF IInv

-----------------------------------------------------------------------------
\* Each step keeps it.

LEMMA PeerKeeps ==
  ASSUME IInv, NEW len \in 0 .. MaxLen, PeerSends(len)
  PROVE  IInv'
<1> USE CapacityIsSize
<1> DEFINE p == [number |-> next, len |-> len]
<1>1. p \in PacketType
  BY DEF IInv, RecvTypes, PacketType
<1>2. /\ wire' = wire \o Frame(p) /\ owed' = Append(owed, p)
      /\ UNCHANGED <<buffer, rear, front, recv, given>>
  BY DEF PeerSends
<1>3. UNCHANGED <<Used, Arrived, InRing>>
  BY <1>2 DEF Used, Arrived, InRing
<1>4. Frame(p) \in Seq(ByteType)
  BY <1>1, FrameBytes
<1>5. wire \in Seq(ByteType) /\ owed \in Seq(PacketType)
  BY DEF IInv, RecvTypes
<1>6. RecvTypes'
  <2>1. next' \in 0 .. Packets - 1
    <3>1. Packets \in Nat \ {0} /\ next \in 0 .. Packets - 1
      BY RecvSizes DEF IInv, RecvTypes
    <3>2. next' = (next + 1) % Packets
      BY DEF PeerSends
    <3> QED
      BY <3>1, <3>2
  <2>2. wire' \in Seq(ByteType) /\ owed' \in Seq(PacketType)
    <3> HIDE DEF p
    <3> QED
      BY <1>1, <1>2, <1>4, <1>5
  <2> QED
    BY <1>2, <2>1, <2>2 DEF IInv, RecvTypes
<1>7. ReceiveHolds' /\ WholePacketsInOrder' /\ RoomToReceive'
  BY <1>2 DEF IInv, ReceiveHolds, WholePacketsInOrder, HeapIntact, RoomToReceive
<1>8. /\ InRing \in Seq(ByteType) /\ Len(InRing) = Arrived
      /\ InRing \o wire \in Seq(ByteType)
      /\ Len(InRing \o wire) = Arrived + Len(wire)
      /\ recv.at # "completed" => Arrived = Used
      /\ Used \in 0 .. N - 1
  BY RingHolds DEF IInv
<1>9. StreamIntact'
  <2>1. InRing \o (wire \o Frame(p)) = (InRing \o wire) \o Frame(p)
    <3> HIDE DEF p
    <3>1. PICK q \in Seq(ByteType) : q = InRing
      BY <1>8
    <3>2. PICK w \in Seq(ByteType) : w = wire
      BY <1>5
    <3>3. PICK f \in Seq(ByteType) : f = Frame(p)
      BY <1>4
    <3>4. (q \o w) \o f = q \o (w \o f)
      BY Associative, SMTT(30)
    <3> QED
      BY <3>1, <3>2, <3>3, <3>4
  <2>2. IsStreamOf((InRing \o wire) \o Frame(p), Append(owed, p))
    <3> HIDE DEF p
    <3> QED
      BY <1>1, <1>5, <1>8, StreamAppended DEF IInv, StreamIntact
  <2> HIDE DEF p
  <2> QED
    BY <1>2, <1>3, <2>1, <2>2 DEF StreamIntact
<1>10. NothingHeldBack'
  <2> SUFFICES ASSUME recv.at = "posted"
               PROVE  \/ Used < Header + Head(owed').len
                      \/ Used = Header /\ Head(owed').len = 0
    BY <1>2, <1>3 DEF NothingHeldBack
  <2>1. CASE owed = <<>>
    <3>1. Head(owed') = p
      BY <1>2, <2>1
    <3>2. Arrived + Len(wire) = EndsOf(<<>>)[0]
      BY <1>8, <2>1, NothingOwed DEF IInv, StreamIntact, IsStreamOf
    <3>3. Used = 0
      BY <1>5, <1>8, <3>2, NothingOwed
    <3> QED
      BY <3>1, <3>3
  <2>2. CASE owed # <<>>
    <3>1. Head(owed') = Head(owed)
      BY <1>2, <1>5, <2>2
    <3> QED
      BY <2>2, <3>1 DEF IInv, NothingHeldBack
  <2> QED
    BY <2>1, <2>2
<1> QED
  BY <1>6, <1>7, <1>9, <1>10 DEF IInv

\* Two copies into the free space, the second one from the start of the buffer
\* where the first one met its end: what is queued stays, and what is copied
\* lies behind it.
LEMMA TwoWrites ==
  ASSUME NEW n \in Nat, NEW r \in 0 .. n - 1, NEW f \in 0 .. n - 1, NEW V,
         NEW buf \in Buffers(n, V), NEW a \in Seq(V), NEW b \in Seq(V),
         r + Len(a) <= n, Len(b) > 0 => r + Len(a) = n,
         Len(a) + Len(b) <= FreeSize(n, r, f),
         NEW new, new = CopyIn(CopyIn(buf, r, a), 0, b)
  PROVE  /\ new \in Buffers(n, V)
         /\ Contents(n, new, f, UseSize(n, r, f)) = Contents(n, buf, f, UseSize(n, r, f))
         /\ LiesAt(n, new, r, a \o b)
<1> DEFINE mid == CopyIn(buf, r, a)
           k == Len(a) + Len(b)
           u == UseSize(n, r, f)
<1>1. /\ mid \in Buffers(n, V)
      /\ \A j \in 0 .. n - 1 :
           mid[j] = IF r <= j /\ j < r + Len(a) THEN a[j - r + 1] ELSE buf[j]
  <2>1. r \in Nat
    OBVIOUS
  <2>2. /\ CopyIn(buf, r, a) \in Buffers(n, V)
        /\ \A j \in 0 .. n - 1 : CopyIn(buf, r, a)[j] = Copied(buf, r, a, j)
    BY <2>1, CopyInAt
  <2>3. mid = CopyIn(buf, r, a)
    BY DEF mid
  <2> HIDE DEF mid
  <2> QED
    BY <2>2, <2>3 DEF Copied
<1> HIDE DEF mid
<1>2. /\ new \in Buffers(n, V)
      /\ \A j \in 0 .. n - 1 :
           new[j] = IF j < Len(b) THEN b[j + 1] ELSE mid[j]
  <2>1. \A j \in 0 .. n - 1 : 0 <= j /\ 0 + Len(b) = Len(b) /\ j - 0 + 1 = j + 1
    OBVIOUS
  <2>2. new = CopyIn(mid, 0, b)
    BY DEF mid
  <2>3. /\ CopyIn(mid, 0, b) \in Buffers(n, V)
        /\ \A j \in 0 .. n - 1 : CopyIn(mid, 0, b)[j] = Copied(mid, 0, b, j)
    BY <1>1, CopyInAt
  <2> QED
    BY <2>1, <2>2, <2>3 DEF Copied
<1>3. /\ u \in 0 .. n - 1 /\ FreeSize(n, r, f) \in 0 .. n - 1 /\ u + FreeSize(n, r, f) = n - 1
      /\ k \in 0 .. n - 1 /\ Len(a) \in Nat /\ Len(b) \in Nat
  <2>1. /\ u \in 0 .. n - 1 /\ FreeSize(n, r, f) \in 0 .. n - 1
        /\ u + FreeSize(n, r, f) = n - 1
    BY UseAndFree
  <2>2. Len(a) \in Nat /\ Len(b) \in Nat
    OBVIOUS
  <2> QED
    BY <2>1, <2>2
<1>4. Len(b) > 0 => r >= f /\ Len(b) < f
  BY <1>3 DEF FreeSize
<1>5. r < f => r + Len(a) < f
  BY <1>3 DEF FreeSize
<1>6. Contents(n, new, f, u) = Contents(n, buf, f, u)
  <2>1. \A j \in 0 .. n - 1 :
          (IF f <= r THEN f <= j /\ j < r ELSE f <= j \/ j < r) => new[j] = buf[j]
    <3> TAKE j \in 0 .. n - 1
    <3> HAVE IF f <= r THEN f <= j /\ j < r ELSE f <= j \/ j < r
    <3>1. ~(j < Len(b))
      BY <1>3, <1>4
    <3>2. ~(r <= j /\ j < r + Len(a))
      BY <1>3, <1>5
    <3> QED
      BY <1>1, <1>2, <3>1, <3>2
  <2>2. u \in 0 .. UseSize(n, r, f)
    BY <1>3
  <2> HIDE DEF u
  <2> QED
    BY <1>2, <2>1, <2>2, QueuedKept
<1>7. /\ a \o b \in Seq(V) /\ Len(a \o b) = k
      /\ \A i \in 1 .. Len(a) : (a \o b)[i] = a[i]
      /\ \A i \in 1 .. Len(b) : (a \o b)[Len(a) + i] = b[i]
  BY Joined
<1>8. \A i \in 1 .. k : new[Advance(n, r, i - 1)] = (a \o b)[i]
  <2> TAKE i \in 1 .. k
  <2>1. Advance(n, r, i - 1) = IF r + (i - 1) < n THEN r + (i - 1) ELSE r + (i - 1) - n
    <3>1. i - 1 \in 0 .. n - 1
      BY <1>3
    <3> QED
      BY <3>1, AdvanceByCases
  <2>2. CASE i <= Len(a)
    <3>1. i \in 1 .. Len(a) /\ r + (i - 1) \in 0 .. n - 1
      BY <1>3, <2>2
    <3>2. ~(r + (i - 1) < Len(b))
      BY <1>3, <1>4, <2>2
    <3>3. new[r + (i - 1)] = mid[r + (i - 1)]
      BY <1>2, <3>1, <3>2
    <3>4. mid[r + (i - 1)] = a[i]
      <4>1. (r + (i - 1)) - r + 1 = i /\ r <= r + (i - 1) /\ r + (i - 1) < r + Len(a)
        BY <1>3, <3>1
      <4> QED
        BY <1>1, <3>1, <4>1
    <3> QED
      BY <1>7, <2>1, <3>1, <3>3, <3>4
  <2>3. CASE i > Len(a)
    <3> DEFINE j == i - Len(a)
    <3>1. j \in 1 .. Len(b) /\ Len(a) + j = i
      BY <1>3, <2>3
    <3>2. Advance(n, r, i - 1) = j - 1
      BY <1>3, <2>1, <3>1
    <3>3. j - 1 \in 0 .. n - 1 /\ j - 1 < Len(b) /\ (j - 1) + 1 = j
      BY <1>3, <3>1
    <3> HIDE DEF j
    <3>4. new[j - 1] = b[j]
      BY <1>2, <3>3
    <3> QED
      BY <1>7, <3>1, <3>2, <3>4
  <2> QED
    BY <1>3, <2>2, <2>3, SMTT(30)
<1>9. LiesAt(n, new, r, a \o b)
  <2> HIDE DEF k
  <2> QED
    BY <1>7, <1>8 DEF LiesAt
<1> QED
  BY <1>2, <1>6, <1>9

LEMMA NetworkKeeps ==
  ASSUME IInv, NEW k \in 1 .. N, NetworkWrites(k)
  PROVE  IInv'
<1> USE CapacityIsSize
<1> DEFINE free == FreeSize(N, rear, front)
           first == IF k < recv.first THEN k ELSE recv.first
           h == SubSeq(wire, 1, k)
<1>types. /\ rear \in 0 .. N - 1 /\ front \in 0 .. N - 1
          /\ buffer \in Buffers(N, ByteType) /\ wire \in Seq(ByteType)
          /\ recv \in RecvType /\ recv.at = "posted" /\ k <= Len(wire)
          /\ UNCHANGED <<rear, front, owed, next, given>>
          /\ wire' = SubSeq(wire, k + 1, Len(wire))
          /\ recv' = [recv EXCEPT !.at = "completed", !.transferred = k]
  BY DEF IInv, RecvTypes, NetworkWrites
<1>recv. recv' \in RecvType /\ recv'.at = "completed" /\ recv'.transferred = k
  <2>1. k \in Nat
    OBVIOUS
  <2> QED
    BY <1>types, <2>1 DEF RecvType
<1>1. /\ recv.first = DirectEnqueueSize(N, rear, front)
      /\ recv.first + recv.second = free /\ rear + recv.first <= N
  BY <1>types, PostFits DEF IInv, ReceiveHolds
<1>2. free \in 0 .. N - 1 /\ recv.first \in 0 .. free /\ k \in 1 .. free
  <2>1. free \in 0 .. N - 1
    BY <1>types, UseAndFree
  <2>2. DirectEnqueueSize(N, rear, front) \in 0 .. free
    BY <1>types, DirectSizes
  <2>3. k <= recv.first + recv.second
    BY DEF NetworkWrites
  <2> HIDE DEF free
  <2> QED
    BY <1>1, <2>1, <2>2, <2>3
<1>3. first \in 0 .. k /\ k \in 0 .. Len(wire) /\ first <= recv.first
  BY <1>types, <1>2
<1>4. k - first > 0 => rear + first = N
  BY <1>types, <1>1, <1>2, SMTT(30) DEF FreeSize, DirectEnqueueSize
<1> HIDE DEF first
<1>5. /\ SubSeq(wire, 1, first) \o SubSeq(wire, first + 1, k) = h
      /\ SubSeq(wire, 1, first) \in Seq(ByteType) /\ Len(SubSeq(wire, 1, first)) = first
      /\ SubSeq(wire, first + 1, k) \in Seq(ByteType)
      /\ Len(SubSeq(wire, first + 1, k)) = k - first
  <2>1. wire \in Seq(ByteType)
    BY <1>types
  <2> QED
    BY <1>3, <2>1, PiecesJoin
<1>6. PICK a \in Seq(ByteType) : a = SubSeq(wire, 1, first) /\ Len(a) = first
  BY <1>5
<1>7. PICK b \in Seq(ByteType) : b = SubSeq(wire, first + 1, k) /\ Len(b) = k - first
  BY <1>5
<1>8. PICK c \in Seq(ByteType) : c = a \o b /\ c = h /\ Len(c) = k
  <2>1. h \in Seq(ByteType) /\ Len(h) = k
    BY <1>types, <1>3
  <2> HIDE DEF h
  <2> QED
    BY <1>5, <1>6, <1>7, <2>1
<1>9. /\ buffer' \in Buffers(N, ByteType)
      /\ Contents(N, buffer', front, Used) = Contents(N, buffer, front, Used)
      /\ LiesAt(N, buffer', rear, c)
  <2>1. buffer' = CopyIn(CopyIn(buffer, rear, a), 0, b)
    BY <1>6, <1>7 DEF NetworkWrites, first
  <2>2. Len(a) + Len(b) = k
    BY <1>3, <1>6, <1>7
  <2>3. rear + Len(a) <= N
    BY <1>types, <1>1, <1>2, <1>3, <1>6, SMTT(30)
  <2>4. Len(b) > 0 => rear + Len(a) = N
    BY <1>4, <1>6, <1>7
  <2>5. Len(a) + Len(b) <= FreeSize(N, rear, front)
    BY <1>2, <2>2
  <2>6. N \in Nat /\ rear \in 0 .. N - 1 /\ front \in 0 .. N - 1
    BY <1>types
  <2>7. PICK new : new = buffer'
    OBVIOUS
  <2>8. new = CopyIn(CopyIn(buffer, rear, a), 0, b)
    BY <2>1, <2>7
  <2>9. /\ new \in Buffers(N, ByteType)
        /\ Contents(N, new, front, UseSize(N, rear, front))
             = Contents(N, buffer, front, UseSize(N, rear, front))
        /\ LiesAt(N, new, rear, a \o b)
    BY <1>types, <2>3, <2>4, <2>5, <2>6, <2>8, TwoWrites
  <2> QED
    BY <1>8, <2>7, <2>9 DEF Used
<1>10. /\ Arrived = Used /\ Used \in 0 .. N - 1
       /\ InRing \in Seq(ByteType) /\ Len(InRing) = Used
       /\ InRing \o wire \in Seq(ByteType)
  BY <1>types, RingHolds DEF IInv
<1>11. Used' = Used /\ Arrived' = Used + k
  BY <1>types, <1>recv DEF Used, Arrived
<1>12. InRing' = InRing \o c
  <2>1. Contents(N, buffer', front, UseSize(N, rear, front) + Len(c))
          = Contents(N, buffer', front, UseSize(N, rear, front)) \o c
    <3>1. /\ N \in Nat /\ rear \in 0 .. N - 1 /\ front \in 0 .. N - 1
          /\ Len(c) <= FreeSize(N, rear, front)
      BY <1>types, <1>2, <1>8
    <3> QED
      BY <1>9, <3>1, ContentsGrow
  <2> QED
    BY <1>types, <1>8, <1>9, <1>10, <1>11, <2>1 DEF InRing, Used
<1>13. InRing' \o wire' = InRing \o wire
  <2>1. PICK n \in Nat : n = Len(wire)
    BY <1>types
  <2>2. SubSeq(wire, 1, n) = wire /\ n \in 0 .. Len(wire) /\ k \in 0 .. n
    BY <1>types, <1>3, <2>1
  <2>3. /\ SubSeq(wire, 1, k) \o SubSeq(wire, k + 1, n) = SubSeq(wire, 1, n)
        /\ SubSeq(wire, k + 1, n) \in Seq(ByteType)
    <3>1. wire \in Seq(ByteType)
      BY <1>types
    <3> QED
      BY <2>2, <3>1, PiecesJoin
  <2>4. PICK d \in Seq(ByteType) : d = wire'
    BY <1>types, <2>1, <2>3
  <2>5. c \o d = wire
    BY <1>types, <1>8, <2>1, <2>2, <2>3, <2>4
  <2>6. PICK q \in Seq(ByteType) : q = InRing
    BY <1>10
  <2>7. (q \o c) \o d = q \o (c \o d)
    BY Associative, SMTT(30)
  <2> QED
    BY <1>12, <2>4, <2>5, <2>6, <2>7
<1>14. RecvTypes'
  <2>1. wire' \in Seq(ByteType)
    BY <1>types
  <2> QED
    BY <1>types, <1>recv, <1>9, <2>1 DEF IInv, RecvTypes
<1>15. ReceiveHolds' /\ NothingHeldBack' /\ RoomToReceive'
  BY <1>types, <1>recv, <1>2 DEF ReceiveHolds, NothingHeldBack, RoomToReceive
<1>16. StreamIntact'
  BY <1>types, <1>13 DEF IInv, StreamIntact
<1>17. WholePacketsInOrder'
  BY <1>types DEF IInv, WholePacketsInOrder, HeapIntact
<1> QED
  BY <1>14, <1>15, <1>16, <1>17 DEF IInv

LEMMA CompletionKeeps ==
  ASSUME IInv, RecvCompletes
  PROVE  IInv'
<1> USE CapacityIsSize
<1> DEFINE k == recv.transferred
<1>types. /\ rear \in 0 .. N - 1 /\ front \in 0 .. N - 1
          /\ recv \in RecvType /\ recv.at = "completed"
          /\ k \in 1 .. FreeSize(N, rear, front)
          /\ FreeSize(N, rear, front) \in 0 .. N - 1
          /\ UNCHANGED <<buffer, front, wire, owed, next, given>>
          /\ rear' = MovedRear(N, rear, front, k)
          /\ recv' = [recv EXCEPT !.at = "parsing"]
  BY UseAndFree DEF IInv, RecvTypes, ReceiveHolds, RecvCompletes
<1>recv. recv' \in RecvType /\ recv'.at = "parsing"
  BY <1>types DEF RecvType
<1> HIDE DEF k
<1>1. rear' = Advance(N, rear, k)
  BY <1>types DEF MovedRear
<1>2. rear' \in 0 .. N - 1 /\ UseSize(N, rear', front) = Used + k
  <2>1. k \in Nat /\ k <= FreeSize(N, rear, front)
    BY <1>types
  <2> QED
    BY <1>types, <1>1, <2>1, EnqueueAdds DEF Used
<1>3. Arrived' = Arrived
  BY <1>types, <1>recv, <1>2 DEF Arrived, Used, k
<1>4. RecvTypes'
  BY <1>types, <1>recv, <1>2 DEF IInv, RecvTypes
<1>5. ReceiveHolds' /\ NothingHeldBack' /\ RoomToReceive'
  BY <1>recv DEF ReceiveHolds, NothingHeldBack, RoomToReceive
<1>6. StreamIntact' /\ WholePacketsInOrder'
  BY <1>types, <1>3 DEF IInv, StreamIntact, WholePacketsInOrder, HeapIntact, InRing
<1> QED
  BY <1>4, <1>5, <1>6 DEF IInv

-----------------------------------------------------------------------------
\* The loop over the packets: while a header is there, it is that of the packet
\* owed first.
LEMMA FirstPacket ==
  ASSUME IInv, recv.at = "parsing", Used > Header
  PROVE  /\ owed # <<>>
         /\ PeekedLen = Head(owed).len
<1> USE CapacityIsSize
<1>1. /\ Used \in 0 .. N - 1 /\ Arrived = Used
      /\ InRing \in Seq(ByteType) /\ Len(InRing) = Used
      /\ InRing \o wire \in Seq(ByteType) /\ Len(InRing \o wire) = Used + Len(wire)
  BY RingHolds DEF IInv
<1>2. /\ rear \in 0 .. N - 1 /\ front \in 0 .. N - 1 /\ buffer \in Buffers(N, ByteType)
      /\ owed \in Seq(PacketType) /\ wire \in Seq(ByteType)
  BY DEF IInv, RecvTypes
<1>3. IsStreamOf(InRing \o wire, owed)
  BY DEF IInv, StreamIntact
<1>4. owed # <<>>
  BY <1>1, <1>2, <1>3, NothingOwed DEF IsStreamOf
<1> DEFINE p == Head(owed)
<1>5. p \in PacketType
  BY <1>2, <1>4
<1>6. SubSeq(InRing \o wire, 1, Header + p.len) = Frame(p)
  BY <1>1, <1>2, <1>3, <1>4, StreamTaken
<1>7. Header + p.len \in 1 .. Len(InRing \o wire)
  BY <1>1, <1>2, <1>3, <1>4, StreamTaken
<1>8. (InRing \o wire)[1] = Byte(p, 1)
  <2>1. SubSeq(InRing \o wire, 1, Header + p.len)[1] = (InRing \o wire)[1]
    BY <1>1, <1>7
  <2>2. Frame(p)[1] = Byte(p, 1)
    <3>1. 1 \in 1 .. Header + p.len
      BY <1>7
    <3> QED
      BY <1>5, <3>1, FrameBytes
  <2> QED
    BY <1>6, <2>1, <2>2
<1>9. InRing[1] = (InRing \o wire)[1]
  BY <1>1, <1>2
<1>10. Peeked(N, buffer, rear, front, Header)[1] = InRing[1]
  <2>1. PICK q \in Seq(ByteType) : q = InRing /\ Len(q) = Used
    BY <1>1
  <2>2. Header \in 0 .. Used
    BY <1>1
  <2>3. q = Contents(N, buffer, front, Used)
    BY <1>1, <2>1 DEF InRing
  <2>4. Peeked(N, buffer, rear, front, Header) = SubSeq(q, 1, Header)
    <3>1. Peeked(N, buffer, rear, front, Header) = Contents(N, buffer, front, Header)
      BY <1>1 DEF Peeked, Used
    <3>2. QueueIs(N, ByteType, buffer, front, Used, q)
      BY <1>1, <1>2, <2>3 DEF QueueIs
    <3>3. QueueIs(N, ByteType, buffer, front, Header, SubSeq(q, 1, Header))
      <4>1. /\ N \in Nat /\ front \in 0 .. N - 1 /\ Used \in 0 .. N - 1
            /\ buffer \in Buffers(N, ByteType)
        BY <1>1, <1>2
      <4> QED
        BY <2>2, <3>2, <4>1, QueueTaken
    <3> QED
      BY <3>1, <3>3 DEF QueueIs
  <2>5. SubSeq(q, 1, Header)[1] = q[1]
    BY <2>1, <2>2
  <2> QED
    BY <2>1, <2>4, <2>5
<1>11. PeekedLen = p.len
  BY <1>8, <1>9, <1>10 DEF PeekedLen, Byte
<1> QED
  BY <1>4, <1>11

\* Two dequeues one after the other: the second hands out what follows the
\* first, and the rest stays.
LEMMA TwoTakes ==
  ASSUME NEW n \in Nat, NEW f \in 0 .. n - 1, NEW u \in 0 .. n - 1, NEW V,
         NEW buf \in Buffers(n, V), NEW q \in Seq(V), q = Contents(n, buf, f, u), Len(q) = u,
         NEW h \in 0 .. u, NEW l \in 0 .. u - h,
         NEW g \in 0 .. n - 1, g = Advance(n, f, h)
  PROVE  /\ Contents(n, buf, g, l) = SubSeq(q, h + 1, h + l)
         /\ Contents(n, buf, Advance(n, g, l), u - (h + l)) = SubSeq(q, (h + l) + 1, u)
<1>1. QueueIs(n, V, buf, f, u, q)
  BY DEF QueueIs
<1>2. PICK v \in 0 .. n - 1 : v = u - h
  OBVIOUS
<1>3. PICK t : t = SubSeq(q, h + 1, u)
  OBVIOUS
<1>4. QueueIs(n, V, buf, g, v, t)
  <2>1. QueueIs(n, V, buf, Advance(n, f, h), u - h, SubSeq(q, h + 1, u))
    BY <1>1, QueueTaken
  <2> QED
    BY <1>2, <1>3, <2>1
<1>5. /\ SubSeq(t, 1, l) = Contents(n, buf, g, l)
      /\ SubSeq(t, l + 1, v) = Contents(n, buf, Advance(n, g, l), v - l)
  <2>1. l \in 0 .. v
    BY <1>2
  <2>2. /\ QueueIs(n, V, buf, g, l, SubSeq(t, 1, l))
        /\ QueueIs(n, V, buf, Advance(n, g, l), v - l, SubSeq(t, l + 1, v))
    BY <1>4, <2>1, QueueTaken
  <2> QED
    BY <2>2 DEF QueueIs
<1>6. /\ h \in 0 .. Len(q) /\ u \in h .. Len(q)
      /\ l \in 0 .. u - h /\ 0 \in 0 .. l /\ v \in 0 .. u - h /\ l \in 0 .. v
  BY <1>2
<1>7. SubSeq(t, 0 + 1, l) = SubSeq(q, (h + 0) + 1, h + l)
  BY <1>3, <1>6, PieceOfPiece
<1>8. SubSeq(t, l + 1, v) = SubSeq(q, (h + l) + 1, h + v)
  BY <1>3, <1>6, PieceOfPiece
<1>9. 0 + 1 = 1 /\ (h + 0) + 1 = h + 1 /\ h + v = u /\ v - l = u - (h + l)
  BY <1>2
<1> QED
  BY <1>5, <1>7, <1>8, <1>9

LEMMA ParseKeeps ==
  ASSUME IInv, ParsePacket
  PROVE  IInv'
<1> USE CapacityIsSize
<1> DEFINE p == Head(owed)
           body == MovedFront(N, rear, front, Header)
<1>1. recv.at = "parsing" /\ Used > Header /\ Used >= Header + PeekedLen
  BY DEF ParsePacket, HasPacket
<1>2. owed # <<>> /\ PeekedLen = p.len
  BY <1>1, FirstPacket
<1>types. /\ rear \in 0 .. N - 1 /\ front \in 0 .. N - 1
          /\ buffer \in Buffers(N, ByteType) /\ wire \in Seq(ByteType)
          /\ owed \in Seq(PacketType) /\ Tail(owed) \in Seq(PacketType)
          /\ p \in PacketType
  BY <1>2 DEF IInv, RecvTypes
<1>3. /\ UNCHANGED <<buffer, rear, recv, wire, next>>
      /\ front' = MovedFront(N, rear, body, p.len)
      /\ given' = [bytes |-> IF p.len <= Capacity THEN Peeked(N, buffer, rear, body, p.len)
                            ELSE <<>>,
                   packet |-> p]
      /\ owed' = Tail(owed)
  BY <1>2 DEF ParsePacket
<1>4. PICK l \in Nat : l = p.len
  BY <1>types DEF PacketType
<1>5. PICK u \in 0 .. N - 1 : u = Used
  BY RingHolds DEF IInv
<1>6. Header \in 0 .. u /\ l \in 0 .. u - Header /\ Header + l \in 1 .. u
  BY <1>1, <1>2, <1>4, <1>5
<1>7. PICK g \in 0 .. N - 1 :
        g = Advance(N, front, Header) /\ g = body /\ UseSize(N, rear, g) = u - Header
  <2>1. Header \in Nat /\ Header <= UseSize(N, rear, front)
    BY <1>5, <1>6 DEF Used
  <2>2. /\ MovedFront(N, rear, front, Header) = Advance(N, front, Header)
        /\ Advance(N, front, Header) \in 0 .. N - 1
        /\ UseSize(N, rear, Advance(N, front, Header))
             = UseSize(N, rear, front) - Header
    BY <1>types, <2>1, FrontMoved
  <2> QED
    BY <1>5, <2>2 DEF Used
<1>8. /\ front' = Advance(N, g, l) /\ front' \in 0 .. N - 1
      /\ Used' = u - (Header + l)
  <2>1. /\ rear \in 0 .. N - 1 /\ l <= UseSize(N, rear, g)
    BY <1>types, <1>6, <1>7
  <2>2. /\ MovedFront(N, rear, g, l) = Advance(N, g, l)
        /\ Advance(N, g, l) \in 0 .. N - 1
        /\ UseSize(N, rear, Advance(N, g, l)) = UseSize(N, rear, g) - l
    BY <2>1, FrontMoved
  <2>3. front' = MovedFront(N, rear, g, l)
    BY <1>3, <1>4, <1>7
  <2>4. Used' = UseSize(N, rear, front')
    BY <1>3 DEF Used
  <2> QED
    BY <1>6, <1>7, <2>2, <2>3, <2>4
<1> HIDE DEF p, body
<1>9. PICK q \in Seq(ByteType) :
        q = InRing /\ Len(q) = u /\ q = Contents(N, buffer, front, u)
  BY <1>1, <1>5, RingHolds DEF IInv, InRing
<1>10. /\ Contents(N, buffer, g, l) = SubSeq(q, Header + 1, Header + l)
       /\ Contents(N, buffer, Advance(N, g, l), u - (Header + l))
            = SubSeq(q, (Header + l) + 1, u)
  <2>1. /\ N \in Nat /\ front \in 0 .. N - 1 /\ buffer \in Buffers(N, ByteType)
        /\ g = Advance(N, front, Header) /\ q = Contents(N, buffer, front, u)
    BY <1>types, <1>7, <1>9
  <2> QED
    BY <1>6, <1>9, <2>1, TwoTakes
<1>11. PICK m \in 1 .. u : m = Header + l
  BY <1>6
<1>12. PICK w \in Seq(ByteType) : w = wire
  BY <1>types
<1>13. q \o w \in Seq(ByteType) /\ IsStreamOf(q \o w, owed)
  BY <1>9, <1>12 DEF IInv, StreamIntact
<1>14. /\ SubSeq(q \o w, 1, m) = Frame(p)
       /\ IsStreamOf(SubSeq(q \o w, m + 1, Len(q \o w)), Tail(owed))
  <2>1. m = Header + Head(owed).len
    BY <1>4, <1>11 DEF p
  <2>2. /\ SubSeq(q \o w, 1, m) = Frame(Head(owed))
        /\ IsStreamOf(SubSeq(q \o w, m + 1, Len(q \o w)), Tail(owed))
    BY <1>2, <1>types, <1>13, <2>1, StreamTaken
  <2> QED
    BY <2>2 DEF p
<1>15. WholePacketsInOrder'
  <2>1. Peeked(N, buffer, rear, body, p.len) = SubSeq(q, Header + 1, m)
    <3>1. Peeked(N, buffer, rear, g, l) = Contents(N, buffer, g, l)
      BY <1>6, <1>7 DEF Peeked
    <3> QED
      BY <1>4, <1>7, <1>10, <1>11, <3>1
  <2>2. SubSeq(q \o w, 0 + 1, m) = SubSeq(q, 0 + 1, m)
    <3>1. m \in 0 .. Len(q) /\ 0 \in 0 .. m
      BY <1>9
    <3> QED
      BY <3>1, PieceOfFirst
  <2>3. SubSeq(SubSeq(q, 0 + 1, m), Header + 1, m) = SubSeq(q, (0 + Header) + 1, 0 + m)
    <3>1. /\ 0 \in 0 .. Len(q) /\ m \in 0 .. Len(q)
          /\ m \in 0 .. m - 0 /\ Header \in 0 .. m
      BY <1>9, <1>11
    <3> QED
      BY <3>1, PieceOfPiece
  <2>4. Payload(p) = SubSeq(Frame(p), Header + 1, m)
    BY <1>4, <1>11 DEF Payload
  <2>5. 0 + 1 = 1 /\ (0 + Header) + 1 = Header + 1 /\ 0 + m = m
    OBVIOUS
  <2>6. Payload(p) = SubSeq(q, Header + 1, m)
    BY <1>14, <2>2, <2>3, <2>4, <2>5
  <2> QED
    BY <1>3, <2>1, <2>6 DEF WholePacketsInOrder, HeapIntact
<1>16. StreamIntact'
  <2>1. Arrived' = u - (Header + l)
    BY <1>1, <1>3, <1>8 DEF Arrived
  <2>2. InRing' = Contents(N, buffer, Advance(N, g, l), u - (Header + l))
    BY <1>3, <1>8, <2>1 DEF InRing
  <2>3. InRing' = SubSeq(q, m + 1, Len(q))
    BY <1>9, <1>10, <1>11, <2>2
  <2>4. SubSeq(q \o w, m + 1, Len(q \o w)) = SubSeq(q, m + 1, Len(q)) \o w
    <3>1. m \in 0 .. Len(q)
      BY <1>9
    <3> QED
      BY <3>1, RestOfBoth
  <2>5. InRing' \o wire' = SubSeq(q \o w, m + 1, Len(q \o w))
    BY <1>3, <1>12, <2>3, <2>4
  <2> QED
    BY <1>3, <1>14, <2>5 DEF StreamIntact
<1>17. RecvTypes'
  BY <1>types, <1>3, <1>8 DEF IInv, RecvTypes
<1>18. ReceiveHolds' /\ NothingHeldBack' /\ RoomToReceive'
  BY <1>1, <1>3 DEF ReceiveHolds, NothingHeldBack, RoomToReceive
<1> QED
  BY <1>15, <1>16, <1>17, <1>18 DEF IInv

LEMMA ParseEndsKeeps ==
  ASSUME IInv, ParseEnds
  PROVE  IInv'
<1> USE CapacityIsSize
<1>types. /\ rear \in 0 .. N - 1 /\ front \in 0 .. N - 1
          /\ owed \in Seq(PacketType) /\ wire \in Seq(ByteType)
          /\ UNCHANGED <<buffer, rear, front, wire, owed, next, given>>
          /\ recv.at = "parsing" /\ recv' = Post(rear, front)
  BY DEF IInv, RecvTypes, ParseEnds
<1>1. /\ recv' \in RecvType
      /\ FreeSize(N, rear, front) > 0 => recv'.first > 0
  BY <1>types, PostFits
<1>2. recv'.at = "posted"
  BY <1>types DEF Post
<1>3. /\ Used \in 0 .. N - 1 /\ Used + FreeSize(N, rear, front) = N - 1
      /\ FreeSize(N, rear, front) \in 0 .. N - 1
      /\ Arrived = Used /\ Len(InRing \o wire) = Used + Len(wire)
      /\ InRing \o wire \in Seq(ByteType)
  BY <1>types, RingHolds, UseAndFree DEF IInv
<1>4. UNCHANGED <<Used, InRing>>
  <2>1. Used' = Used
    BY <1>types DEF Used
  <2>2. Arrived' = Used
    BY <1>2, <2>1 DEF Arrived
  <2> QED
    BY <1>types, <1>3, <2>1, <2>2 DEF InRing
<1>5. owed # <<>> => Head(owed) \in PacketType
  BY <1>types
<1>6. Used > Header => owed # <<>> /\ Used < Header + Head(owed).len
  <2> SUFFICES ASSUME Used > Header
               PROVE  owed # <<>> /\ Used < Header + Head(owed).len
    OBVIOUS
  <2>1. owed # <<>> /\ PeekedLen = Head(owed).len
    BY <1>types, FirstPacket
  <2>2. ~(Used >= Header + PeekedLen)
    BY DEF ParseEnds, HasPacket
  <2>3. Head(owed).len \in Nat
    BY <1>5, <2>1 DEF PacketType
  <2> QED
    BY <1>3, <2>1, <2>2, <2>3
<1>7. NothingHeldBack'
  <2> SUFFICES ASSUME owed # <<>>
               PROVE  \/ Used < Header + Head(owed).len
                      \/ Used = Header /\ Head(owed).len = 0
    BY <1>types, <1>4 DEF NothingHeldBack
  <2>1. Head(owed).len \in Nat
    BY <1>5 DEF PacketType
  <2> QED
    BY <1>3, <1>6, <2>1
<1>8. RoomToReceive'
  <2>1. Used < N - 1
    <3>1. CASE Used > Header
      <4>1. Head(owed).len <= MaxLen /\ Head(owed).len \in Nat
        BY <1>5, <1>6, <3>1 DEF PacketType
      <4>2. Used < Header + Head(owed).len
        BY <1>6, <3>1
      <4>3. Header + MaxLen <= N - 1
        BY RecvSizes
      <4> QED
        BY <1>3, <4>1, <4>2, <4>3
    <3>2. CASE ~(Used > Header)
      BY <1>3, <3>2, RecvSizes
    <3> QED
      BY <3>1, <3>2
  <2>2. FreeSize(N, rear, front) > 0
    BY <1>3, <2>1
  <2> QED
    BY <1>1, <2>2 DEF RoomToReceive
<1>9. RecvTypes'
  BY <1>types, <1>1 DEF IInv, RecvTypes
<1>10. ReceiveHolds'
  BY <1>types, <1>2 DEF ReceiveHolds
<1>11. StreamIntact' /\ WholePacketsInOrder'
  BY <1>types, <1>4 DEF IInv, StreamIntact, WholePacketsInOrder, HeapIntact
<1> QED
  BY <1>7, <1>8, <1>9, <1>10, <1>11 DEF IInv

LEMMA StutterKeeps ==
  ASSUME IInv, UNCHANGED vars
  PROVE  IInv'
<1>1. UNCHANGED <<Used, Arrived, InRing>>
  BY DEF vars, Used, Arrived, InRing
<1> QED
  BY <1>1 DEF IInv, vars, RecvTypes, ReceiveHolds, StreamIntact, WholePacketsInOrder,
              HeapIntact, NothingHeldBack, RoomToReceive

-----------------------------------------------------------------------------
\* The invariant holds in every reachable state: however the network cuts the
\* stream, whatever the sizes of the ring, the header, the packets and
\* recvPacket are.
THEOREM RecvInvariant == Spec => []IInv
<1>1. Init => IInv
  BY RecvInit
<1>2. IInv /\ [Next]_vars => IInv'
  <2> SUFFICES ASSUME IInv, [Next]_vars
               PROVE  IInv'
    OBVIOUS
  <2>1. CASE \E len \in 0 .. MaxLen : PeerSends(len)
    BY <2>1, PeerKeeps
  <2>2. CASE \E k \in 1 .. N : NetworkWrites(k)
    BY <2>2, NetworkKeeps
  <2>3. CASE RecvCompletes
    BY <2>3, CompletionKeeps
  <2>4. CASE ParsePacket
    BY <2>4, ParseKeeps
  <2>5. CASE ParseEnds
    BY <2>5, ParseEndsKeeps
  <2>6. CASE UNCHANGED vars
    BY <2>6, StutterKeeps
  <2> QED
    BY <2>1, <2>2, <2>3, <2>4, <2>5, <2>6 DEF Next
<1> QED
  BY <1>1, <1>2, PTL DEF Spec

\* Ring and network together are the packets OnRecv is owed: a WSARecv never
\* writes over bytes that are queued, and MoveRear counts exactly what it wrote.
THEOREM StreamStaysIntact == Spec => []StreamIntact
<1>1. IInv => StreamIntact
  BY DEF IInv
<1> QED
  BY <1>1, RecvInvariant, PTL

\* Every OnRecv gets the payload of the packet the peer sent next, whole, even
\* where the ring wraps inside it or a receive ended inside its header, if
\* recvPacket holds it; the first one it does not hold comes empty.
THEOREM PacketsArriveWhole == Spec => []WholePacketsInOrder
<1>1. IInv => WholePacketsInOrder
  BY DEF IInv
<1> QED
  BY <1>1, RecvInvariant, PTL

\* The loop of the worker posts the next receive only when no whole packet is
\* left, but for one without payload that came last.
THEOREM WorkerHoldsNothingBack == Spec => []NothingHeldBack
<1>1. IInv => NothingHeldBack
  BY DEF IInv
<1> QED
  BY <1>1, RecvInvariant, PTL

\* PostRecv never hands WSARecv a buffer of no bytes: a packet that is not whole
\* leaves room, because the ring holds the longest one.
THEOREM ReceiveHasRoom == Spec => []RoomToReceive
<1>1. IInv => RoomToReceive
  BY DEF IInv
<1> QED
  BY <1>1, RecvInvariant, PTL
=============================================================================
