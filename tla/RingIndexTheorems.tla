------------------------- MODULE RingIndexTheorems -------------------------
(***************************************************************************)
(* What the index arithmetic and the copies of class RingBuffer guarantee  *)
(* for every capacity: facts cited by the proofs about the rings.          *)
(***************************************************************************)
EXTENDS RingBuffer, TLAPS

\* The modulo of an index that moves by less than the capacity is one
\* subtraction at most.
LEMMA AdvanceByCases ==
  ASSUME NEW n \in Nat, NEW i \in 0 .. n - 1, NEW k \in 0 .. n - 1
  PROVE  Advance(n, i, k) = IF i + k < n THEN i + k ELSE i + k - n
<1>1. CASE i + k < n
  BY <1>1, SMTT(30) DEF Advance
<1>2. CASE i + k >= n
  <2>1. i + k - n \in 0 .. n - 1
    BY <1>2
  <2>2. (i + k) % n = i + k - n
    BY <1>2, <2>1, SMTT(30)
  <2> QED
    BY <1>2, <2>2 DEF Advance
<1> QED
  BY <1>1, <1>2

\* Queued and free bytes add up to the capacity less the unused slot: no
\* byte is counted twice and none is forgotten.
LEMMA UseAndFree ==
  ASSUME NEW n \in Nat, NEW r \in 0 .. n - 1, NEW f \in 0 .. n - 1
  PROVE  /\ UseSize(n, r, f) \in 0 .. n - 1
         /\ FreeSize(n, r, f) \in 0 .. n - 1
         /\ UseSize(n, r, f) + FreeSize(n, r, f) = n - 1
         /\ UseSize(n, r, f) = 0 <=> r = f
  BY DEF UseSize, FreeSize

\* The parts that do not wrap stay inside the buffer and inside what is
\* queued or free, and are empty only if nothing is queued or free.
LEMMA DirectSizes ==
  ASSUME NEW n \in Nat, NEW r \in 0 .. n - 1, NEW f \in 0 .. n - 1
  PROVE  /\ DirectDequeueSize(n, r, f) \in 0 .. UseSize(n, r, f)
         /\ f + DirectDequeueSize(n, r, f) <= n
         /\ r # f => DirectDequeueSize(n, r, f) > 0
         /\ DirectEnqueueSize(n, r, f) \in 0 .. FreeSize(n, r, f)
         /\ r + DirectEnqueueSize(n, r, f) <= n
         /\ FreeSize(n, r, f) > 0 => DirectEnqueueSize(n, r, f) > 0
  BY DEF DirectDequeueSize, DirectEnqueueSize, UseSize, FreeSize

\* Enqueue and MoveRear of what fits queue that many bytes.
LEMMA EnqueueAdds ==
  ASSUME NEW n \in Nat, NEW r \in 0 .. n - 1, NEW f \in 0 .. n - 1,
         NEW k \in Nat, k <= FreeSize(n, r, f)
  PROVE  /\ Advance(n, r, k) \in 0 .. n - 1
         /\ UseSize(n, Advance(n, r, k), f) = UseSize(n, r, f) + k
         /\ r < f => r <= Advance(n, r, k) /\ Advance(n, r, k) < f
<1>1. k \in 0 .. n - 1
  BY UseAndFree
<1>2. Advance(n, r, k) = IF r + k < n THEN r + k ELSE r + k - n
  BY <1>1, AdvanceByCases
<1> QED
  BY <1>1, <1>2 DEF UseSize, FreeSize

\* Dequeue and MoveFront of what is queued take that many bytes.
LEMMA DequeueTakes ==
  ASSUME NEW n \in Nat, NEW r \in 0 .. n - 1, NEW f \in 0 .. n - 1,
         NEW k \in Nat, k <= UseSize(n, r, f)
  PROVE  /\ MovedFront(n, r, f, k) \in 0 .. n - 1
         /\ UseSize(n, r, MovedFront(n, r, f, k)) = UseSize(n, r, f) - k
<1>1. k \in 0 .. n - 1
  BY UseAndFree
<1>2. Advance(n, f, k) = IF f + k < n THEN f + k ELSE f + k - n
  BY <1>1, AdvanceByCases
<1>3. CASE k = 0
  BY <1>3 DEF MovedFront, UseSize
<1>4. CASE k # 0
  <2>1. MovedFront(n, r, f, k) = Advance(n, f, k)
    BY <1>4, UseAndFree DEF MovedFront
  <2> QED
    BY <1>1, <1>2, <2>1 DEF UseSize
<1> QED
  BY <1>3, <1>4

-----------------------------------------------------------------------------
\* The bytes between two indices.

\* The internal buffers of n slots that hold elements of V.
Buffers(n, V) == [0 .. n - 1 -> V]

\* The k bytes from index f on, byte by byte instead of by two memcpys.
RunAt(n, buffer, f, k) == [i \in 1 .. k |-> buffer[Advance(n, f, i - 1)]]

\* Two consecutive runs of g, one after the other, are one run of g.
LEMMA ConcatOfRuns ==
  ASSUME NEW V, NEW g, NEW k \in Nat, NEW m \in 0 .. k, NEW a, NEW b,
         \A i \in 1 .. k : g[i] \in V,
         a = [i \in 1 .. m |-> g[i]],
         b = [i \in 1 .. k - m |-> g[m + i]]
  PROVE  a \o b = [i \in 1 .. k |-> g[i]]
<1>1. a \in Seq(V) /\ Len(a) = m
  OBVIOUS
<1>2. b \in Seq(V) /\ Len(b) = k - m
  OBVIOUS
<1>3. a \o b \in Seq(V) /\ Len(a \o b) = k
  BY <1>1, <1>2
<1>4. \A i \in 1 .. k : (a \o b)[i] = g[i]
  BY <1>1, <1>2
<1> QED
  BY <1>3, <1>4

\* Enqueue and Peek copy twice exactly if the run passes the end of the buffer,
\* and the first copy then ends there.
LEMMA WrapByCases ==
  ASSUME NEW n \in Nat, NEW f \in 0 .. n - 1, NEW k \in 1 .. n - 1
  PROVE  /\ Wraps(n, f, k) <=> f + k > n
         /\ FirstPart(n, f, k) = IF f + k > n THEN n - f ELSE k
<1>1. Advance(n, f, k) = IF f + k < n THEN f + k ELSE f + k - n
  BY AdvanceByCases
<1> QED
  BY <1>1 DEF Wraps, FirstPart

\* A copy up to the end of the buffer and one from its start are the bytes in
\* the order of the queue: no byte is skipped or doubled at the seam.
LEMMA TwoCopies ==
  ASSUME NEW n \in Nat, NEW f \in 0 .. n - 1, NEW k \in 0 .. n - 1,
         NEW m \in 0 .. k, NEW V, NEW buf \in Buffers(n, V),
         f + m <= n, m < k => f + m = n
  PROVE  CopyOut(buf, f, m) \o CopyOut(buf, 0, k - m)
           = RunAt(n, buf, f, k)
<1> DEFINE g == [i \in 1 .. k |-> buf[Advance(n, f, i - 1)]]
<1>1. \A i \in 1 .. k :
        Advance(n, f, i - 1) = IF f + (i - 1) < n THEN f + (i - 1) ELSE f + (i - 1) - n
  BY AdvanceByCases
<1>2. CopyOut(buf, f, m) = [i \in 1 .. m |-> g[i]]
  <2>1. \A i \in 1 .. m : i \in 1 .. k /\ g[i] = buf[f + i - 1]
    BY <1>1
  <2> QED
    BY <2>1 DEF CopyOut
<1>3. CopyOut(buf, 0, k - m) = [i \in 1 .. k - m |-> g[m + i]]
  <2>1. \A i \in 1 .. k - m : m + i \in 1 .. k /\ g[m + i] = buf[0 + i - 1]
    <3> TAKE i \in 1 .. k - m
    <3>1. m + i \in 1 .. k /\ f + m = n /\ f + ((m + i) - 1) - n = 0 + i - 1
      OBVIOUS
    <3>2. Advance(n, f, (m + i) - 1) = f + ((m + i) - 1) - n
      BY <1>1, <3>1
    <3> QED
      BY <3>1, <3>2
  <2> HIDE DEF g
  <2> QED
    BY <2>1 DEF CopyOut
<1>4. \A i \in 1 .. k : g[i] \in V
  BY <1>1 DEF Buffers
<1> HIDE DEF g
<1>5. CopyOut(buf, f, m) \o CopyOut(buf, 0, k - m) = [i \in 1 .. k |-> g[i]]
  <2> DEFINE a == CopyOut(buf, f, m)
             b == CopyOut(buf, 0, k - m)
  <2>1. a = [i \in 1 .. m |-> g[i]] /\ b = [i \in 1 .. k - m |-> g[m + i]]
    BY <1>2, <1>3
  <2>2. k \in Nat
    OBVIOUS
  <2> HIDE DEF a, b
  <2>3. a \o b = [i \in 1 .. k |-> g[i]]
    BY <1>4, <2>1, <2>2, ConcatOfRuns
  <2> QED
    BY <2>3 DEF a, b
<1>6. RunAt(n, buf, f, k) = g
  BY DEF RunAt, g
<1>7. g = [i \in 1 .. k |-> g[i]]
  BY DEF g
<1> QED
  BY <1>5, <1>6, <1>7

\* What Peek hands out is the k bytes from the front on.
LEMMA ContentsAt ==
  ASSUME NEW n \in Nat, NEW f \in 0 .. n - 1, NEW k \in 0 .. n - 1, NEW V,
         NEW buf \in Buffers(n, V)
  PROVE  Contents(n, buf, f, k) = RunAt(n, buf, f, k)
<1>1. CASE k = 0
  BY <1>1 DEF Contents, RunAt
<1>2. CASE k > 0
  <2> DEFINE m == FirstPart(n, f, k)
  <2>1. m = IF f + k > n THEN n - f ELSE k
    BY <1>2, WrapByCases
  <2>2. m \in 0 .. k /\ f + m <= n /\ (m < k => f + m = n)
    BY <2>1
  <2>3. Contents(n, buf, f, k) = CopyOut(buf, f, m) \o CopyOut(buf, 0, k - m)
    BY <1>2 DEF Contents
  <2> HIDE DEF m
  <2> QED
    BY <2>2, <2>3, TwoCopies
<1> QED
  BY <1>1, <1>2

\* The elements of h lie in the buffer from index r on.
LiesAt(n, buf, r, h) == \A i \in 1 .. Len(h) : buf[Advance(n, r, i - 1)] = h[i]

\* Bytes behind the rear, once the rear passes them, extend the queue at its end.
LEMMA ContentsGrow ==
  ASSUME NEW n \in Nat, NEW f \in 0 .. n - 1, NEW r \in 0 .. n - 1, NEW V,
         NEW buf \in Buffers(n, V), NEW h \in Seq(V),
         Len(h) <= FreeSize(n, r, f), LiesAt(n, buf, r, h)
  PROVE  Contents(n, buf, f, UseSize(n, r, f) + Len(h))
           = Contents(n, buf, f, UseSize(n, r, f)) \o h
<1>k. PICK k \in Nat : k = Len(h)
  OBVIOUS
<1>h. k <= FreeSize(n, r, f) /\ \A i \in 1 .. k : buf[Advance(n, r, i - 1)] = h[i]
  BY <1>k DEF LiesAt
<1> DEFINE u == UseSize(n, r, f)
           g == [i \in 1 .. u + k |-> buf[Advance(n, f, i - 1)]]
<1>1. u \in 0 .. n - 1 /\ u + k \in 0 .. n - 1 /\ u \in 0 .. u + k
  <2>1. /\ UseSize(n, r, f) \in 0 .. n - 1
        /\ FreeSize(n, r, f) \in 0 .. n - 1
        /\ UseSize(n, r, f) + FreeSize(n, r, f) = n - 1
    BY UseAndFree
  <2> QED
    BY <1>h, <2>1
<1>2. \A i \in 1 .. n : Advance(n, f, i - 1) =
        IF f + (i - 1) < n THEN f + (i - 1) ELSE f + (i - 1) - n
  BY AdvanceByCases
<1>3. \A i \in 1 .. n : Advance(n, r, i - 1) =
        IF r + (i - 1) < n THEN r + (i - 1) ELSE r + (i - 1) - n
  BY AdvanceByCases
<1>4. Contents(n, buf, f, u) = [i \in 1 .. u |-> g[i]]
  <2>1. Contents(n, buf, f, u) = RunAt(n, buf, f, u)
    BY <1>1, ContentsAt
  <2>2. \A i \in 1 .. u : g[i] = buf[Advance(n, f, i - 1)]
    BY <1>1
  <2> HIDE DEF g, u
  <2> QED
    BY <2>1, <2>2 DEF RunAt
<1>5. Contents(n, buf, f, u + k) = g
  <2>1. Contents(n, buf, f, u + k) = RunAt(n, buf, f, u + k)
    BY <1>1, ContentsAt
  <2> QED
    BY <2>1 DEF RunAt
<1>6. h = [i \in 1 .. (u + k) - u |-> g[u + i]]
  <2>1. \A i \in 1 .. k : Advance(n, f, u + i - 1) = Advance(n, r, i - 1)
    <3>1. u = IF r >= f THEN r - f ELSE n - (f - r)
      BY DEF UseSize
    <3> HIDE DEF u
    <3> TAKE i \in 1 .. k
    <3>2. i \in 1 .. n /\ u + i \in 1 .. n
      BY <1>1
    <3>3. Advance(n, f, u + i - 1)
            = IF f + (u + i - 1) < n THEN f + (u + i - 1) ELSE f + (u + i - 1) - n
      <4>1. u + i - 1 \in 0 .. n - 1
        BY <1>1, <3>2
      <4> QED
        BY <4>1, AdvanceByCases
    <3> QED
      BY <1>1, <1>3, <3>1, <3>2, <3>3
  <2>2. \A i \in 1 .. k : g[u + i] = h[i]
    <3> TAKE i \in 1 .. k
    <3>1. u + i \in 1 .. u + k
      BY <1>1
    <3>2. g[u + i] = buf[Advance(n, f, (u + i) - 1)]
      BY <3>1
    <3>3. (u + i) - 1 = u + i - 1
      BY <1>1
    <3> HIDE DEF g, u
    <3> QED
      BY <1>h, <2>1, <3>2, <3>3
  <2>3. (u + k) - u = k
    BY <1>1
  <2>4. h = [i \in 1 .. k |-> h[i]]
    BY <1>k
  <2> HIDE DEF g, u
  <2> QED
    BY <2>2, <2>3, <2>4
<1>7. \A i \in 1 .. u + k : g[i] \in V
  BY <1>1, <1>2 DEF Buffers
<1>8. g = [i \in 1 .. u + k |-> g[i]]
  OBVIOUS
<1> HIDE DEF g, u
<1>9. Contents(n, buf, f, u) \o h = [i \in 1 .. u + k |-> g[i]]
  BY <1>1, <1>4, <1>6, <1>7, ConcatOfRuns
<1> QED
  BY <1>k, <1>5, <1>8, <1>9 DEF u

\* Moving the front by k hands out the k oldest bytes and leaves the others.
LEMMA ContentsShrink ==
  ASSUME NEW n \in Nat, NEW f \in 0 .. n - 1, NEW u \in 0 .. n - 1, NEW V,
         NEW buf \in Buffers(n, V), NEW k \in 0 .. u
  PROVE  /\ Len(Contents(n, buf, f, u)) = u
         /\ SubSeq(Contents(n, buf, f, u), 1, k) = Contents(n, buf, f, k)
         /\ SubSeq(Contents(n, buf, f, u), k + 1, u)
              = Contents(n, buf, Advance(n, f, k), u - k)
<1> DEFINE q == Contents(n, buf, f, u)
           e == Advance(n, f, k)
<1>1. q = RunAt(n, buf, f, u)
  BY ContentsAt
<1>2. Contents(n, buf, f, k) = RunAt(n, buf, f, k)
  <2>1. k \in 0 .. n - 1
    OBVIOUS
  <2> QED
    BY <2>1, ContentsAt
<1>3. \A i \in 1 .. n : Advance(n, f, i - 1) =
        IF f + (i - 1) < n THEN f + (i - 1) ELSE f + (i - 1) - n
  BY AdvanceByCases
<1>4. e = IF f + k < n THEN f + k ELSE f + k - n
  BY AdvanceByCases
<1>5. e \in 0 .. n - 1
  BY <1>4
<1>6. \A i \in 1 .. n : Advance(n, e, i - 1) =
        IF e + (i - 1) < n THEN e + (i - 1) ELSE e + (i - 1) - n
  BY <1>5, AdvanceByCases
<1>7. Contents(n, buf, e, u - k) = RunAt(n, buf, e, u - k)
  <2>1. u - k \in 0 .. n - 1
    OBVIOUS
  <2> HIDE DEF e
  <2> QED
    BY <1>5, <2>1, ContentsAt
<1>8. q \in Seq(V) /\ Len(q) = u
  <2>1. \A i \in 1 .. u : buf[Advance(n, f, i - 1)] \in V
    BY <1>3 DEF Buffers
  <2> HIDE DEF q
  <2> QED
    BY <1>1, <2>1 DEF RunAt
<1>9. SubSeq(q, 1, k) = RunAt(n, buf, f, k)
  <2>1. \A i \in 1 .. k : i \in 1 .. u /\ q[i] = buf[Advance(n, f, i - 1)]
    BY <1>1 DEF RunAt
  <2>2. SubSeq(q, 1, k) \in Seq(V) /\ Len(SubSeq(q, 1, k)) = k
    BY <1>8
  <2>3. \A i \in 1 .. k : SubSeq(q, 1, k)[i] = q[i]
    BY <1>8
  <2> HIDE DEF q
  <2> QED
    BY <2>1, <2>2, <2>3 DEF RunAt
<1>10. SubSeq(q, k + 1, u) = RunAt(n, buf, e, u - k)
  <2>1. \A i \in 1 .. u - k : Advance(n, f, (k + i) - 1) = Advance(n, e, i - 1)
    <3> TAKE i \in 1 .. u - k
    <3>1. i \in 1 .. n /\ k + i \in 1 .. n
      OBVIOUS
    <3>2. Advance(n, f, (k + i) - 1)
            = IF f + ((k + i) - 1) < n THEN f + ((k + i) - 1) ELSE f + ((k + i) - 1) - n
      BY <1>3, <3>1
    <3> HIDE DEF e
    <3> QED
      BY <1>4, <1>6, <3>1, <3>2
  <2>2. \A i \in 1 .. u - k : k + i \in 1 .. u /\ q[k + i] = buf[Advance(n, e, i - 1)]
    <3> TAKE i \in 1 .. u - k
    <3>1. k + i \in 1 .. u
      OBVIOUS
    <3>2. q[k + i] = buf[Advance(n, f, (k + i) - 1)]
      BY <1>1, <3>1 DEF RunAt
    <3> QED
      BY <2>1, <3>1, <3>2
  <2>3. SubSeq(q, k + 1, u) \in Seq(V) /\ Len(SubSeq(q, k + 1, u)) = u - k
    BY <1>8
  <2>4. \A i \in 1 .. u - k : SubSeq(q, k + 1, u)[i] = q[k + i]
    BY <1>8
  <2> DEFINE s == SubSeq(q, k + 1, u)
  <2>5. s \in Seq(V) /\ Len(s) = u - k
    BY <2>3
  <2>6. \A i \in 1 .. u - k : s[i] = buf[Advance(n, e, i - 1)]
    BY <2>2, <2>4
  <2> HIDE DEF q, e, s
  <2>7. s = [i \in 1 .. u - k |-> s[i]]
    BY <2>5
  <2>8. s = RunAt(n, buf, e, u - k)
    BY <2>6, <2>7 DEF RunAt
  <2> QED
    BY <2>8 DEF s
<1> HIDE DEF q, e
<1> QED
  BY <1>2, <1>7, <1>8, <1>9, <1>10 DEF q, e

\* The u bytes queued from f on are the sequence q.
QueueIs(n, V, buf, f, u, q) ==
  /\ n \in Nat /\ f \in 0 .. n - 1 /\ u \in 0 .. n - 1 /\ buf \in Buffers(n, V)
  /\ q = Contents(n, buf, f, u)

LEMMA QueueTaken ==
  ASSUME NEW n \in Nat, NEW f \in 0 .. n - 1, NEW u \in 0 .. n - 1, NEW V,
         NEW buf \in Buffers(n, V), NEW q, QueueIs(n, V, buf, f, u, q), NEW k \in 0 .. u
  PROVE  /\ QueueIs(n, V, buf, f, k, SubSeq(q, 1, k))
         /\ QueueIs(n, V, buf, Advance(n, f, k), u - k, SubSeq(q, k + 1, u))
<1>1. q = Contents(n, buf, f, u)
  BY DEF QueueIs
<1>2. SubSeq(q, 1, k) = Contents(n, buf, f, k)
  BY <1>1, ContentsShrink
<1>3. SubSeq(q, k + 1, u) = Contents(n, buf, Advance(n, f, k), u - k)
  BY <1>1, ContentsShrink, ZenonT(60)
<1>4. k \in 0 .. n - 1 /\ u - k \in 0 .. n - 1
  OBVIOUS
<1>5. Advance(n, f, k) \in 0 .. n - 1
  BY <1>4, AdvanceByCases
<1> QED
  BY <1>2, <1>3, <1>4, <1>5 DEF QueueIs

\* What is queued from the front that MoveFront and Dequeue leave.
LEMMA FrontMoved ==
  ASSUME NEW n \in Nat, NEW r \in 0 .. n - 1, NEW f \in 0 .. n - 1, NEW k \in Nat,
         k <= UseSize(n, r, f)
  PROVE  /\ MovedFront(n, r, f, k) = Advance(n, f, k)
         /\ Advance(n, f, k) \in 0 .. n - 1
         /\ UseSize(n, r, Advance(n, f, k)) = UseSize(n, r, f) - k
<1>1. k \in 0 .. n - 1 /\ UseSize(n, r, f) \in 0 .. n - 1
  BY UseAndFree
<1>2. MovedFront(n, r, f, k) = Advance(n, f, k)
  <2>1. CASE k = 0
    BY <2>1, <1>1, AdvanceByCases DEF MovedFront
  <2>2. CASE k # 0
    BY <1>1, <2>2 DEF MovedFront
  <2> QED
    BY <2>1, <2>2
<1> QED
  BY <1>2, DequeueTakes

\* A write outside the queued part leaves every queued byte as it was.
LEMMA QueuedKept ==
  ASSUME NEW n \in Nat, NEW r \in 0 .. n - 1, NEW f \in 0 .. n - 1, NEW V,
         NEW old \in Buffers(n, V), NEW new \in Buffers(n, V),
         NEW k \in 0 .. UseSize(n, r, f),
         \A j \in 0 .. n - 1 :
           (IF f <= r THEN f <= j /\ j < r ELSE f <= j \/ j < r) => new[j] = old[j]
  PROVE  Contents(n, new, f, k) = Contents(n, old, f, k)
<1>use. UseSize(n, r, f) \in 0 .. n - 1
  BY UseAndFree
<1>1. k \in 0 .. n - 1 /\ k <= UseSize(n, r, f)
  BY <1>use
<1>2. Contents(n, new, f, k) = RunAt(n, new, f, k)
  BY <1>1, ContentsAt
<1>3. Contents(n, old, f, k) = RunAt(n, old, f, k)
  BY <1>1, ContentsAt
<1>4. \A i \in 1 .. k : new[Advance(n, f, i - 1)] = old[Advance(n, f, i - 1)]
  <2> TAKE i \in 1 .. k
  <2>1. UseSize(n, r, f) = IF r >= f THEN r - f ELSE n - (f - r)
    BY DEF UseSize
  <2>2. i \in Nat /\ i - 1 \in 0 .. n - 1 /\ i <= UseSize(n, r, f)
    BY <1>use, <1>1
  <2>3. Advance(n, f, i - 1) = IF f + (i - 1) < n THEN f + (i - 1) ELSE f + (i - 1) - n
    BY <2>2, AdvanceByCases
  <2>4. Advance(n, f, i - 1) \in 0 .. n - 1
    BY <2>2, <2>3
  <2> QED
    BY <2>1, <2>2, <2>3, <2>4
<1> QED
  BY <1>2, <1>3, <1>4 DEF RunAt

\* Byte j of buf after the bytes b were copied to index to.
Copied(buf, to, b, j) ==
  IF to <= j /\ j < to + Len(b) THEN b[j - to + 1] ELSE buf[j]

\* memcpy into the buffer writes the bytes it is given and no other.
LEMMA CopyInAt ==
  ASSUME NEW n \in Nat, NEW V, NEW buf \in Buffers(n, V), NEW to \in Nat, NEW b \in Seq(V)
  PROVE  /\ CopyIn(buf, to, b) \in Buffers(n, V)
         /\ \A j \in 0 .. n - 1 : CopyIn(buf, to, b)[j] = Copied(buf, to, b, j)
<1>1. \A j \in 0 .. n - 1 : j \in to .. to + Len(b) - 1 <=> to <= j /\ j < to + Len(b)
  OBVIOUS
<1>2. \A j \in 0 .. n - 1 : to <= j /\ j < to + Len(b) => b[j - to + 1] \in V
  OBVIOUS
<1> QED
  BY <1>1, <1>2 DEF CopyIn, Copied, Buffers
=============================================================================
