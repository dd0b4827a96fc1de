----------------------- MODULE PacketReorderingProofs -----------------------
(* Numbers that wrap are related to the places they stand for: all that is   *)
(* queued or still on its way lies within half the range around the place    *)
(* expected (Window), where seqNumLT is the order of the places.  That the   *)
(* sink is given frames rests on what has been copied being the beginning of *)
(* one, up to the place expected.                                            *)
EXTENDS PacketReordering, LeastNumbers, TLAPS, SequenceTheorems

USE NumberAssumption

-----------------------------------------------------------------------------
(* Numbers that wrap *)

\* The quotient and the remainder.
LEMMA DivMod ==
  ASSUME NEW W \in Nat \ {0}, NEW x \in Int
  PROVE  /\ x \div W \in Int
         /\ x % W \in 0..W - 1
         /\ x = W * (x \div W) + (x % W)
OBVIOUS

\* A multiple of W within W of zero is zero, and within W of W is zero or W.
LEMMA Multiples ==
  ASSUME NEW W \in Nat \ {0}, NEW q \in Int
  PROVE  /\ -W < W * q /\ W * q < W => q = 0
         /\ -W < W * q /\ W * q < 2 * W => q = 0 \/ q = 1
<1>1. q >= 1 => W * q >= W
  OBVIOUS
<1>2. q >= 2 => W * q >= 2 * W
  OBVIOUS
<1>3. q <= -1 => W * q <= -W
  OBVIOUS
<1> QED BY <1>1, <1>2, <1>3

\* Adding a multiple of W changes no remainder.
LEMMA Congruent ==
  ASSUME NEW W \in Nat \ {0}, NEW x \in Int, NEW y \in Int, NEW q \in Int,
         y = x + W * q
  PROVE  y % W = x % W
<1> DEFINE a == x \div W
           b == y \div W
           r == x % W
           s == y % W
<1>1. a \in Int /\ r \in 0..W - 1 /\ x = W * a + r
  BY DivMod
<1>2. b \in Int /\ s \in 0..W - 1 /\ y = W * b + s
  BY DivMod
<1> HIDE DEF a, b, r, s
<1>3. q + a - b \in Int
  BY <1>1, <1>2
<1>4. W * (q + a - b) = W * q + W * a - W * b
  BY <1>1, <1>2
<1>5. W * q \in Int /\ W * a \in Int /\ W * b \in Int
  BY <1>1, <1>2
<1>6. W * (q + a - b) = s - r
  BY <1>1, <1>2, <1>4, <1>5
<1>7. -W < s - r /\ s - r < W
  BY <1>1, <1>2
<1>8. q + a - b = 0
  BY <1>3, <1>6, <1>7, Multiples
<1>9. s - r = 0
  BY <1>6, <1>8
<1>10. s = r
  BY <1>1, <1>2, <1>9
<1> QED BY <1>10 DEF r, s

\* Remainders of numbers closer than W differ as the numbers do, or by W less.
LEMMA Apart ==
  ASSUME NEW W \in Nat \ {0}, NEW x \in Int, NEW y \in Int, x <= y, y - x < W
  PROVE  \/ (y % W) - (x % W) = y - x
         \/ (y % W) - (x % W) = y - x - W
<1> DEFINE a == x \div W
           b == y \div W
           r == x % W
           s == y % W
<1>1. a \in Int /\ r \in 0..W - 1 /\ x = W * a + r
  BY DivMod
<1>2. b \in Int /\ s \in 0..W - 1 /\ y = W * b + s
  BY DivMod
<1> HIDE DEF a, b, r, s
<1>3. b - a \in Int
  BY <1>1, <1>2
<1>4. W * (b - a) = W * b - W * a
  BY <1>1, <1>2
<1>5. W * a \in Int /\ W * b \in Int
  BY <1>1, <1>2
<1>6. W * (b - a) = (y - x) - (s - r)
  BY <1>1, <1>2, <1>4, <1>5
<1>7. -W < (y - x) - (s - r) /\ (y - x) - (s - r) < 2 * W
  BY <1>1, <1>2
<1>8. b - a = 0 \/ b - a = 1
  BY <1>3, <1>6, <1>7, Multiples
<1>9. W * (b - a) = 0 \/ W * (b - a) = W
  BY <1>8
<1>10. s - r = y - x \/ s - r = y - x - W
  BY <1>1, <1>2, <1>6, <1>9
<1> QED BY <1>10 DEF r, s

LEMMA NumberType ==
  ASSUME NEW n \in Int
  PROVE  Number(n) \in 0..2 * Half - 1
<1>1. 2 * Half \in Nat \ {0} /\ FirstNumber + n - 1 \in Int
  OBVIOUS
<1> QED BY <1>1, DivMod DEF Number

LEMMA NumbersApart ==
  ASSUME NEW m \in Int, NEW n \in Int, m <= n, n - m < 2 * Half
  PROVE  \/ Number(n) - Number(m) = n - m
         \/ Number(n) - Number(m) = n - m - 2 * Half
<1> DEFINE x == FirstNumber + m - 1
           y == FirstNumber + n - 1
<1>1. 2 * Half \in Nat \ {0} /\ x \in Int /\ y \in Int /\ x <= y /\ y - x = n - m
  OBVIOUS
<1> HIDE DEF x, y
<1>2. \/ (y % (2 * Half)) - (x % (2 * Half)) = y - x
      \/ (y % (2 * Half)) - (x % (2 * Half)) = y - x - 2 * Half
  BY <1>1, Apart
<1> QED BY <1>1, <1>2 DEF Number, x, y

\* Places closer than Half are ordered by their numbers.
LEMMA LessOrders ==
  ASSUME NEW m \in Int, NEW n \in Int, n - m < Half, m - n < Half
  PROVE  /\ Less(Number(m), Number(n)) <=> m < n
         /\ Number(m) = Number(n) <=> m = n
<1> DEFINE a == Number(m)
           b == Number(n)
<1>1. a \in Int /\ b \in Int
  BY NumberType
<1>2. m <= n => b - a = n - m \/ b - a = n - m - 2 * Half
  BY NumbersApart
<1>3. n <= m => a - b = m - n \/ a - b = m - n - 2 * Half
  BY NumbersApart
<1> HIDE DEF a, b
<1>4. Less(a, b) <=> m < n
  <2>1. CASE m < n
    <3>1. b - a = n - m \/ b - a = n - m - 2 * Half
      BY <1>2, <2>1
    <3> QED BY <1>1, <2>1, <3>1 DEF Less
  <2>2. CASE ~(m < n)
    <3>1. a - b = m - n \/ a - b = m - n - 2 * Half
      BY <1>3, <2>2
    <3> QED BY <1>1, <2>2, <3>1 DEF Less
  <2> QED BY <2>1, <2>2
<1>5. m = n => a = b
  BY DEF a, b
<1>6. a = b => m = n
  <2>1. CASE m < n
    <3>1. b - a = n - m \/ b - a = n - m - 2 * Half
      BY <1>2, <2>1
    <3>2. b - a # 0
      BY <1>1, <2>1, <3>1
    <3> QED BY <1>1, <3>2
  <2>2. CASE n < m
    <3>1. a - b = m - n \/ a - b = m - n - 2 * Half
      BY <1>3, <2>2
    <3>2. a - b # 0
      BY <1>1, <2>2, <3>1
    <3> QED BY <1>1, <3>2
  <2> QED BY <2>1, <2>2
<1> QED BY <1>4, <1>5, <1>6 DEF a, b

-----------------------------------------------------------------------------
(* The queue *)

\* r is q with p put in after the k-th.
InsertedAt(r, q, k, p) ==
  /\ r \in Seq(Packets)
  /\ Len(r) = Len(q) + 1
  /\ \A i \in 1..Len(q) + 1 :
       r[i] = IF i <= k THEN q[i] ELSE IF i = k + 1 THEN p ELSE q[i - 1]

LEMMA InsertFacts ==
  ASSUME NEW q \in Seq(Packets), NEW k \in 0..Len(q), NEW p \in Packets
  PROVE  InsertedAt(Insert(q, k, p), q, k, p)
<1> DEFINE f == SubSeq(q, 1, k)
           g == SubSeq(q, k + 1, Len(q))
           h == f \o <<p>>
<1>1. f \in Seq(Packets) /\ Len(f) = k /\ \A i \in 1..k : f[i] = q[i]
  OBVIOUS
<1>2. g \in Seq(Packets) /\ Len(g) = Len(q) - k /\ \A i \in 1..Len(q) - k : g[i] = q[k + i]
  OBVIOUS
<1> HIDE DEF f, g
<1>3. /\ h \in Seq(Packets) /\ Len(h) = k + 1
      /\ \A i \in 1..k + 1 : h[i] = IF i <= k THEN q[i] ELSE p
  BY <1>1
<1> HIDE DEF h
<1>4. /\ h \o g \in Seq(Packets) /\ Len(h \o g) = Len(q) + 1
      /\ \A i \in 1..Len(q) + 1 : (h \o g)[i] = IF i <= k + 1 THEN h[i] ELSE g[i - (k + 1)]
  BY <1>2, <1>3
<1>5. Insert(q, k, p) = h \o g
  BY DEF Insert, f, g, h
<1>6. \A i \in 1..Len(q) + 1 :
        (h \o g)[i] = IF i <= k THEN q[i] ELSE IF i = k + 1 THEN p ELSE q[i - 1]
  <2> TAKE i \in 1..Len(q) + 1
  <2>1. CASE i <= k + 1
    BY <1>3, <1>4, <2>1
  <2>2. CASE ~(i <= k + 1)
    <3>1. i - (k + 1) \in 1..Len(q) - k /\ k + (i - (k + 1)) = i - 1
      BY <2>2
    <3>2. g[i - (k + 1)] = q[i - 1]
      BY <1>2, <3>1
    <3>3. (h \o g)[i] = g[i - (k + 1)]
      BY <1>4, <2>2
    <3>4. ~(i <= k) /\ i # k + 1
      BY <2>2
    <3> QED BY <3>2, <3>3, <3>4
  <2> QED BY <2>1, <2>2
<1> QED BY <1>4, <1>5, <1>6 DEF InsertedAt

LEMMA TailFacts ==
  ASSUME NEW S, NEW q \in Seq(S), q # <<>>
  PROVE  /\ Tail(q) \in Seq(S)
         /\ Len(q) \in Nat /\ Len(q) >= 1 /\ Len(Tail(q)) = Len(q) - 1
         /\ \A i \in 1..Len(q) - 1 : Tail(q)[i] = q[i + 1]
         /\ q[1] \in S
OBVIOUS

LEMMA PacketFields ==
  ASSUME NEW p \in Packets, NEW u \in 0..1
  PROVE  [p EXCEPT !.used = u] \in Packets
<1> DEFINE A == 0..Threshold + 1
           U == 0..1
<1>1. Packets = [n : Places, first : BOOLEAN, age : A, used : U]
  BY DEF Packets
<1> HIDE DEF A, U
<1>2. u \in U
  BY DEF U
<1> QED BY <1>1, <1>2

LEMMA PacketAges ==
  ASSUME NEW p \in Packets, NEW u \in 0..Threshold + 1
  PROVE  LET r == [p EXCEPT !.age = u]
         IN  r \in Packets /\ r.n = p.n /\ r.first = p.first /\ r.used = p.used
<1> DEFINE A == 0..Threshold + 1
           U == 0..1
<1>1. Packets = [n : Places, first : BOOLEAN, age : A, used : U]
  BY DEF Packets
<1>2. u \in A
  OBVIOUS
<1> HIDE DEF A, U
<1> QED BY <1>1, <1>2

\* A piece of the head is used and others are left.
PieceUsed(q, r) == r = [q EXCEPT ![1].used = @ + 1]

LEMMA UsedFacts ==
  ASSUME NEW q \in Seq(Packets), q # <<>>, q[1].used = 0,
         NEW r, PieceUsed(q, r)
  PROVE  /\ r \in Seq(Packets) /\ Len(r) = Len(q) /\ Len(q) \in Nat /\ Len(q) >= 1
         /\ r[1].n = q[1].n /\ r[1].first = q[1].first /\ r[1].used = 1
         /\ \A i \in 2..Len(q) : r[i] = q[i]
<1>1. q[1] \in Packets /\ Len(q) \in Nat /\ Len(q) >= 1 /\ 1 \in DOMAIN q
  OBVIOUS
<1> DEFINE e == [q[1] EXCEPT !.used = @ + 1]
<1>2. e.n = q[1].n /\ e.first = q[1].first /\ e.age = q[1].age /\ e.used = 1
  BY <1>1 DEF Packets
<1>3. e \in Packets
  <2>1. e = [q[1] EXCEPT !.used = 1]
    BY <1>1 DEF Packets
  <2>2. q[1] \in Packets /\ 1 \in 0..1
    BY <1>1
  <2> QED BY <2>1, <2>2, PacketFields
<1>4. r = [q EXCEPT ![1] = e]
  BY DEF PieceUsed
<1> HIDE DEF e
<1>5. r \in Seq(Packets) /\ Len(r) = Len(q) /\ \A i \in 1..Len(q) : r[i] = IF i = 1 THEN e ELSE q[i]
  BY <1>1, <1>3, <1>4, ExceptSeq
<1>6. r[1] = e /\ \A i \in 2..Len(q) : r[i] = q[i]
  BY <1>1, <1>5
<1> QED BY <1>1, <1>2, <1>5, <1>6

\* Time passes for the packets in the queue.
LEMMA AgedFacts ==
  ASSUME NEW q \in Seq(Packets), NEW r,
         r = [i \in DOMAIN q |-> [q[i] EXCEPT !.age = IF @ <= Threshold THEN @ + 1 ELSE @]]
  PROVE  /\ r \in Seq(Packets) /\ Len(r) = Len(q) /\ Len(q) \in Nat
         /\ \A i \in 1..Len(q) :
              r[i].n = q[i].n /\ r[i].first = q[i].first /\ r[i].used = q[i].used
<1>1. Len(q) \in Nat /\ DOMAIN q = 1..Len(q)
  OBVIOUS
<1>2. ASSUME NEW i \in 1..Len(q)
      PROVE  /\ r[i] \in Packets
             /\ r[i].n = q[i].n /\ r[i].first = q[i].first /\ r[i].used = q[i].used
  <2>1. q[i] \in Packets
    OBVIOUS
  <2>2. r[i] = [q[i] EXCEPT !.age = IF @ <= Threshold THEN @ + 1 ELSE @]
    BY <1>1
  <2> DEFINE later == IF q[i].age <= Threshold THEN q[i].age + 1 ELSE q[i].age
  <2>3. later \in 0..Threshold + 1
    <3>1. q[i].age \in 0..Threshold + 1
      BY <2>1 DEF Packets
    <3> QED BY <3>1
  <2>4. r[i] = [q[i] EXCEPT !.age = later]
    BY <2>2
  <2> HIDE DEF later
  <2> QED BY <2>1, <2>3, <2>4, PacketAges
<1>3. DOMAIN r = 1..Len(q)
  BY <1>1
<1>4. r = [i \in 1..Len(q) |-> r[i]]
  BY <1>1
<1>5. r \in [1..Len(q) -> Packets]
  BY <1>2, <1>4
<1>6. r \in Seq(Packets) /\ Len(r) = Len(q)
  BY <1>1, <1>5
<1> QED BY <1>1, <1>2, <1>6

-----------------------------------------------------------------------------
(* Types *)

\* Only the first piece of a pair can be used alone.
UsedOK == \A i \in 1..Len(queue) : queue[i].used = 1 => Stream[queue[i].n] = "pair"

BufferType ==
  /\ queue \in Seq(Packets) /\ UsedOK
  /\ seen \in BOOLEAN /\ expected \in 0..2 * Half - 1 /\ want \in 0..Len(Stream) + 1

TInv == TypeOK /\ UsedOK

\* What happens to the queue, other than the arrival of a packet.
Released == queue # <<>> /\ Release /\ UNCHANGED seen

HalfUsed ==
  /\ queue # <<>> /\ queue[1].used = 0 /\ Kind = "pair"
  /\ PieceUsed(queue, queue')
  /\ expected' = Head16 /\ want' = queue[1].n /\ UNCHANGED seen

Aged ==
  /\ queue' = [i \in DOMAIN queue |->
                 [queue[i] EXCEPT !.age = IF @ <= Threshold THEN @ + 1 ELSE @]]
  /\ UNCHANGED <<seen, expected, want>>

LEMMA StreamType == Stream \in Seq(Kinds) /\ Len(Stream) \in Nat
BY StreamAssumption

LEMMA HeadType ==
  ASSUME queue \in Seq(Packets), queue # <<>>
  PROVE  /\ Len(queue) \in Nat /\ Len(queue) >= 1
         /\ queue[1] \in Packets
         /\ queue[1].n \in Places /\ queue[1].n \in Nat /\ queue[1].n \in Int
         /\ queue[1].n <= Len(Stream)
         /\ queue[1].used \in 0..1 /\ queue[1].first \in BOOLEAN
         /\ Kind \in Kinds
<1>1. Len(queue) \in Nat /\ Len(queue) >= 1 /\ queue[1] \in Packets
  OBVIOUS
<1>2. queue[1].n \in Places /\ queue[1].used \in 0..1 /\ queue[1].first \in BOOLEAN
  BY <1>1 DEF Packets
<1>3. queue[1].n \in Nat /\ queue[1].n <= Len(Stream) /\ queue[1].n \in 1..Len(Stream)
  BY <1>2, StreamType DEF Places
<1>4. Kind \in Kinds
  BY <1>3, StreamType DEF Kind
<1> QED BY <1>1, <1>2, <1>3, <1>4

LEMMA QueueInts ==
  ASSUME BufferType
  PROVE  /\ want \in Int
         /\ \A i \in 1..Len(queue) :
              queue[i] \in Packets /\ queue[i].n \in Places /\ queue[i].n \in Int
<1>1. want \in Int
  <2>1. Len(Stream) + 1 \in Int
    BY StreamType
  <2> QED BY <2>1 DEF BufferType
<1>2. ASSUME NEW i \in 1..Len(queue)
      PROVE  queue[i] \in Packets /\ queue[i].n \in Places /\ queue[i].n \in Int
  <2>1. queue[i] \in Packets
    BY DEF BufferType
  <2>2. queue[i].n \in Places
    BY <2>1 DEF Packets
  <2> QED BY <2>1, <2>2, StreamType DEF Places
<1> QED BY <1>1, <1>2

LEMMA ReleasedType ==
  ASSUME BufferType, Released
  PROVE  BufferType'
<1>1. queue' = Tail(queue) /\ expected' = Next16(Head16) /\ want' = queue[1].n + 1
      /\ seen' = seen /\ queue # <<>>
  BY DEF Released, Release
<1>2. queue \in Seq(Packets)
  BY DEF BufferType
<1>3. queue[1].n \in Nat /\ queue[1].n \in Int /\ queue[1].n <= Len(Stream)
  BY <1>1, <1>2, HeadType
<1>4. queue' \in Seq(Packets) /\ Len(queue) \in Nat
      /\ Len(queue') = Len(queue) - 1 /\ \A i \in 1..Len(queue) - 1 : queue'[i] = queue[i + 1]
  BY <1>1, <1>2, TailFacts
<1>5. UsedOK'
  <2>1. ASSUME NEW i \in 1..Len(queue'), queue'[i].used = 1
        PROVE  Stream[queue'[i].n] = "pair"
    <3>1. i + 1 \in 1..Len(queue) /\ queue'[i] = queue[i + 1]
      BY <1>4
    <3> QED BY <2>1, <3>1 DEF BufferType, UsedOK
  <2> QED BY <2>1 DEF UsedOK
<1>6. Head16 \in 0..2 * Half - 1
  BY <1>3, NumberType DEF Head16
<1>7. expected' \in 0..2 * Half - 1
  <2>1. Head16 + 1 \in Int /\ 2 * Half \in Nat \ {0}
    BY <1>6
  <2> QED BY <1>1, <2>1, DivMod DEF Next16
<1>8. want' \in 0..Len(Stream) + 1
  BY <1>1, <1>3, StreamType
<1> QED BY <1>1, <1>4, <1>5, <1>7, <1>8 DEF BufferType

LEMMA HalfUsedType ==
  ASSUME BufferType, HalfUsed
  PROVE  BufferType'
<1>1. queue \in Seq(Packets) /\ queue # <<>>
  BY DEF BufferType, HalfUsed
<1>2. /\ queue' \in Seq(Packets) /\ Len(queue') = Len(queue) /\ Len(queue) \in Nat
      /\ queue'[1].n = queue[1].n
      /\ \A i \in 2..Len(queue) : queue'[i] = queue[i]
  BY <1>1, UsedFacts DEF HalfUsed
<1>3. UsedOK'
  <2>1. ASSUME NEW i \in 1..Len(queue'), queue'[i].used = 1
        PROVE  Stream[queue'[i].n] = "pair"
    <3>1. CASE i = 1
      BY <1>2, <3>1 DEF HalfUsed, Kind
    <3>2. CASE i # 1
      <4>1. i \in 2..Len(queue) /\ i \in 1..Len(queue)
        BY <1>2, <3>2
      <4> QED BY <1>2, <2>1, <4>1 DEF BufferType, UsedOK
    <3> QED BY <3>1, <3>2
  <2> QED BY <2>1 DEF UsedOK
<1>4. queue[1].n \in Nat /\ queue[1].n \in Int /\ queue[1].n <= Len(Stream)
  BY <1>1, HeadType
<1>5. expected' \in 0..2 * Half - 1
  BY <1>4, NumberType DEF HalfUsed, Head16
<1>6. want' \in 0..Len(Stream) + 1
  BY <1>4, StreamType DEF HalfUsed
<1> QED BY <1>2, <1>3, <1>5, <1>6 DEF BufferType, HalfUsed

LEMMA AgedType ==
  ASSUME BufferType, Aged
  PROVE  BufferType'
<1>1. queue \in Seq(Packets)
  BY DEF BufferType
<1>2. /\ queue' \in Seq(Packets) /\ Len(queue') = Len(queue)
      /\ \A i \in 1..Len(queue) : queue'[i].n = queue[i].n /\ queue'[i].used = queue[i].used
  BY <1>1, AgedFacts DEF Aged
<1>3. UsedOK'
  BY <1>2 DEF BufferType, UsedOK
<1> QED BY <1>2, <1>3 DEF BufferType, Aged

\* Where storePacket puts a packet.
PlaceSpec(k, s) ==
  /\ k \in 0..Len(queue)
  /\ \/ queue = <<>>
     \/ k = Len(queue) /\ k >= 1 /\ Less(Number(queue[k].n), s)
     \/ k = Len(queue) /\ \A i \in 1..k : ~Less(s, Number(queue[i].n))
     \/ /\ k + 1 \in 1..Len(queue) /\ Less(s, Number(queue[k + 1].n))
        /\ \A i \in 1..k : ~Less(s, Number(queue[i].n))

LEMMA PlaceFacts ==
  ASSUME queue \in Seq(Packets), NEW s
  PROVE  PlaceSpec(PlaceFor(s), s)
<1>1. Len(queue) \in Nat /\ (queue # <<>> => Len(queue) >= 1)
  OBVIOUS
<1> DEFINE later == {i \in 1..Len(queue) : Less(s, Number(queue[i].n))}
<1>2. CASE queue = <<>> \/ Less(Number(queue[Len(queue)].n), s)
  <2>1. PlaceFor(s) = Len(queue)
    BY <1>2 DEF PlaceFor
  <2> QED BY <1>1, <1>2, <2>1 DEF PlaceSpec
<1>3. CASE ~(queue = <<>> \/ Less(Number(queue[Len(queue)].n), s))
  <2>1. CASE later = {}
    <3>1. PlaceFor(s) = Len(queue)
      BY <1>3, <2>1 DEF PlaceFor
    <3>2. \A i \in 1..Len(queue) : ~Less(s, Number(queue[i].n))
      BY <2>1
    <3> QED BY <1>1, <3>1, <3>2 DEF PlaceSpec
  <2>2. CASE later # {}
    <3> DEFINE First(i) == i \in later /\ \A j \in later : i <= j
               f == CHOOSE i \in later : \A j \in later : i <= j
    <3>1. later \in SUBSET Nat
      OBVIOUS
    <3>2. \E i \in later : \A j \in later : i <= j
      <4> HIDE DEF later
      <4> QED BY <2>2, <3>1, LeastNat
    <3>3. f \in later /\ \A j \in later : f <= j
      BY <3>2
    <3>4. PlaceFor(s) = f - 1
      BY <1>3, <2>2 DEF PlaceFor
    <3>5. f \in 1..Len(queue) /\ Less(s, Number(queue[f].n))
      BY <3>3
    <3>6. ASSUME NEW i \in 1..f - 1
          PROVE  ~Less(s, Number(queue[i].n))
      <4>1. i \in 1..Len(queue) /\ ~(f <= i)
        BY <1>1, <3>5
      <4>2. i \notin later
        BY <3>3, <4>1
      <4> QED BY <4>1, <4>2
    <3> HIDE DEF f, later
    <3>7. f - 1 \in 0..Len(queue) /\ (f - 1) + 1 = f
      BY <1>1, <3>5
    <3> QED BY <3>4, <3>5, <3>6, <3>7 DEF PlaceSpec
  <2> QED BY <2>1, <2>2
<1> QED BY <1>2, <1>3

LEMMA PlaceType ==
  ASSUME queue \in Seq(Packets), NEW s
  PROVE  PlaceFor(s) \in 0..Len(queue)
BY PlaceFacts DEF PlaceSpec

\* A packet that is put into the queue.
NewPacket(n) == [n |-> n, first |-> ~seen, age |-> 0, used |-> 0]

LEMMA NewPacketType ==
  ASSUME NEW n \in Places, seen \in BOOLEAN
  PROVE  /\ NewPacket(n) \in Packets
         /\ NewPacket(n).n = n /\ NewPacket(n).used = 0 /\ (NewPacket(n).first <=> ~seen)
<1> DEFINE A == 0..Threshold + 1
           U == 0..1
<1>1. Packets = [n : Places, first : BOOLEAN, age : A, used : U]
  BY DEF Packets
<1>2. 0 \in A /\ 0 \in U
  OBVIOUS
<1>3. (~seen) \in BOOLEAN
  BY Zenon
<1> HIDE DEF A, U
<1> QED BY <1>1, <1>2, <1>3 DEF NewPacket

\* The queue with the packet n put in at k.
LEMMA InsertNew ==
  ASSUME BufferType, NEW n \in Places, NEW k \in 0..Len(queue)
  PROVE  /\ Insert(queue, k, NewPacket(n)) \in Seq(Packets)
         /\ Len(queue) \in Nat
         /\ Len(Insert(queue, k, NewPacket(n))) = Len(queue) + 1
         /\ \A i \in 1..Len(queue) + 1 :
              Insert(queue, k, NewPacket(n))[i] =
                IF i <= k THEN queue[i]
                ELSE IF i = k + 1 THEN NewPacket(n) ELSE queue[i - 1]
<1>1. queue \in Seq(Packets) /\ Len(queue) \in Nat
  BY DEF BufferType
<1>2. NewPacket(n) \in Packets
  BY NewPacketType DEF BufferType
<1>3. InsertedAt(Insert(queue, k, NewPacket(n)), queue, k, NewPacket(n))
  BY <1>1, <1>2, InsertFacts
<1> QED BY <1>1, <1>3 DEF InsertedAt

LEMMA StoreType ==
  ASSUME BufferType, NEW n \in Places, StorePacket(n)
  PROVE  BufferType'
<1> DEFINE s   == Number(n)
           due == IF seen THEN expected ELSE s
           k   == PlaceFor(s)
           q   == Insert(queue, k, NewPacket(n))
<1>1. n \in Nat /\ n \in Int /\ n <= Len(Stream)
  BY StreamType DEF Places
<1>2. s \in 0..2 * Half - 1
  BY <1>1, NumberType
<1>3. /\ q \in Seq(Packets) /\ k \in 0..Len(queue) /\ Len(queue) \in Nat
      /\ Len(q) = Len(queue) + 1
      /\ \A i \in 1..Len(queue) + 1 :
           q[i] = IF i <= k THEN queue[i] ELSE IF i = k + 1 THEN NewPacket(n) ELSE queue[i - 1]
  <2>1. k \in 0..Len(queue)
    BY PlaceType DEF BufferType
  <2> HIDE DEF k
  <2> QED BY <2>1, InsertNew
<1>4. /\ seen' = TRUE /\ expected' = due /\ want' = IF seen THEN want ELSE n
      /\ queue' = queue \/ queue' = q
  BY DEF StorePacket, NewPacket
<1>5. expected' \in 0..2 * Half - 1
  BY <1>2, <1>4 DEF BufferType
<1>6. want' \in 0..Len(Stream) + 1
  BY <1>1, <1>4, StreamType DEF BufferType
<1>7. CASE queue' = queue
  BY <1>4, <1>5, <1>6, <1>7 DEF BufferType, UsedOK
<1>8. CASE queue' = q
  <2>1. ASSUME NEW i \in 1..Len(queue'), queue'[i].used = 1
        PROVE  Stream[queue'[i].n] = "pair"
    <3>1. i \in 1..Len(queue) + 1 /\ i \in Nat
      BY <1>3, <1>8
    <3> HIDE DEF k, q
    <3>2. i # k + 1
      BY <1>3, <1>8, <2>1, <3>1, NewPacketType DEF BufferType
    <3>3. \E j \in 1..Len(queue) : queue'[i] = queue[j]
      <4>1. CASE i <= k
        BY <1>3, <1>8, <3>1, <4>1
      <4>2. CASE ~(i <= k)
        <5>1. i - 1 \in 1..Len(queue)
          BY <1>3, <3>1, <3>2, <4>2
        <5> QED BY <1>3, <1>8, <3>1, <3>2, <4>2, <5>1
      <4> QED BY <4>1, <4>2
    <3> QED BY <2>1, <3>3 DEF BufferType, UsedOK
  <2>2. UsedOK'
    BY <2>1 DEF UsedOK
  <2> HIDE DEF q
  <2> QED BY <1>3, <1>4, <1>5, <1>6, <1>8, <2>2 DEF BufferType
<1> QED BY <1>4, <1>7, <1>8

LEMMA NoteType ==
  ASSUME highest \in Nat, base \in Int, NEW s \in 0..2 * Half - 1, NoteIncomingPacket(s)
  PROVE  highest' \in Nat /\ base' \in Int
<1> DEFINE old == highest % (2 * Half)
<1>1. 2 * Half \in Nat \ {0} /\ highest \in Int
  OBVIOUS
<1>2. old \in 0..2 * Half - 1
  BY <1>1, DivMod
<1>3. Extended(s) \in Int
  <2> HIDE DEF old
  <2> QED BY <1>1, <1>2 DEF Extended, old
<1>4. CASE arrived = {}
  BY <1>4 DEF NoteIncomingPacket
<1>5. CASE arrived # {}
  <2>1. /\ highest' = highest \/ (highest' = Extended(s) /\ Extended(s) > highest)
        /\ base' = base \/ base' = Extended(s)
    BY <1>5 DEF NoteIncomingPacket
  <2> QED BY <1>1, <1>3, <2>1
<1> QED BY <1>4, <1>5

FrameType ==
  /\ begins \in BOOLEAN /\ completes \in BOOLEAN /\ lossInFrame \in BOOLEAN
  /\ frame \in Seq(Places \X (1..2)) /\ given \in Seq(Places \X (1..2))

RestType ==
  /\ highest \in Nat /\ base \in Int
  /\ pc \in {"waiting", "loop", "delivering"}
  /\ arrived \subseteq Places /\ duplicates \in 0..MaxDuplicates

LEMMA TypeParts == TInv <=> BufferType /\ FrameType /\ RestType
BY DEF TInv, TypeOK, BufferType, FrameType, RestType

\* What the loop does to the queue when it uses a piece.
LEMMA UseMoves ==
  ASSUME BufferType, UsePiece
  PROVE  Released \/ HalfUsed
<1>1. queue \in Seq(Packets) /\ queue # <<>>
  BY DEF BufferType, UsePiece, HeadReady
<1>2. queue[1].used \in 0..1 /\ Len(queue) >= 1 /\ Len(queue) \in Nat
  BY <1>1, HeadType
<1>3. CASE queue[1].used + 1 = Pieces
  BY <1>1, <1>3 DEF UsePiece, UseHead, Released
<1>4. CASE queue[1].used + 1 # Pieces
  <2>1. queue[1].used = 1 => Kind = "pair"
    BY <1>1, <1>2 DEF BufferType, UsedOK, Kind
  <2>2. queue[1].used = 0 /\ Kind = "pair"
    BY <1>2, <1>4, <2>1 DEF Pieces
  <2> QED BY <1>1, <1>4, <2>2 DEF UsePiece, UseHead, HalfUsed, PieceUsed
<1> QED BY <1>3, <1>4

LEMMA UseFrames ==
  ASSUME BufferType, FrameType, UsePiece
  PROVE  FrameType'
<1>1. queue \in Seq(Packets) /\ queue # <<>>
  BY DEF BufferType, UsePiece, HeadReady
<1>2. queue[1].n \in Places /\ queue[1].used + 1 \in 1..2
  BY <1>1, HeadType
<1>3. <<queue[1].n, queue[1].used + 1>> \in Places \X (1..2)
  BY <1>2
<1> DEFINE kept == IF BeginsNow /\ (LossBeforeHead \/ lossInFrame) THEN <<>> ELSE frame
<1>4. kept \in Seq(Places \X (1..2))
  BY DEF FrameType
<1>5. FrameNow = Append(kept, <<queue[1].n, queue[1].used + 1>>)
  BY DEF FrameNow
<1> HIDE DEF kept
<1>6. FrameNow \in Seq(Places \X (1..2)) /\ <<>> \in Seq(Places \X (1..2))
  BY <1>3, <1>4, <1>5
<1>7. BeginsNow \in BOOLEAN /\ CompletesNow \in BOOLEAN
  BY DEF BeginsNow, CompletesNow, FrameType
<1>8. begins' \in BOOLEAN /\ completes' \in BOOLEAN /\ lossInFrame' \in BOOLEAN
  BY <1>7 DEF UsePiece, FrameType
<1>9. frame' \in {<<>>, FrameNow} /\ given' \in {given, FrameNow}
  BY DEF UsePiece
<1> QED BY <1>6, <1>8, <1>9 DEF FrameType

\* Every variable has the values its counterpart in the code can have, for every
\* stream, range of numbers and threshold.
LEMMA TypeInit == Init => TInv
<1> SUFFICES ASSUME Init PROVE TInv
  OBVIOUS
<1>1. 0 \in 0..2 * Half - 1 /\ 0 \in 0..Len(Stream) + 1 /\ 0 \in 0..MaxDuplicates
  BY StreamType
<1>2. UsedOK
  BY DEF Init, UsedOK
<1>3. <<>> \in Seq(Packets) /\ <<>> \in Seq(Places \X (1..2))
  OBVIOUS
<1>4. BufferType
  BY <1>1, <1>2, <1>3 DEF Init, BufferType
<1>5. FrameType
  BY <1>3 DEF Init, FrameType
<1>6. RestType
  BY <1>1 DEF Init, RestType
<1> QED BY <1>4, <1>5, <1>6, TypeParts

LEMMA TypeStep ==
  ASSUME TInv, [Next]_vars
  PROVE  TInv'
<1>0. BufferType /\ FrameType /\ RestType
  BY TypeParts
<1>1. ASSUME NEW n \in Places, Arrive(n)
      PROVE  TInv'
  <2>1. BufferType'
    BY <1>0, <1>1, StoreType DEF Arrive
  <2>2. Number(n) \in 0..2 * Half - 1
    BY NumberType, StreamType DEF Places
  <2>3. highest' \in Nat /\ base' \in Int
    BY <1>0, <1>1, <2>2, NoteType DEF Arrive, RestType
  <2>4. RestType'
    BY <1>0, <1>1, <2>3 DEF Arrive, RestType
  <2>5. FrameType'
    BY <1>0, <1>1 DEF Arrive, frameVars, FrameType
  <2> QED BY <2>1, <2>4, <2>5, TypeParts DEF TInv, TypeOK, BufferType, FrameType, RestType
<1>2. CASE Tick
  <2>1. BufferType'
    BY <1>0, <1>2, AgedType DEF Tick, Aged
  <2> QED BY <1>0, <1>2, <2>1
          DEF Tick, TInv, TypeOK, BufferType, FrameType, RestType, frameVars, statsVars
<1>3. CASE NothingReady
  BY <1>0, <1>3 DEF NothingReady, TInv, TypeOK, UsedOK, BufferType, FrameType, RestType, bufferVars,
                    frameVars, statsVars
<1>4. CASE RejectHeader
  <2>1. BufferType'
    BY <1>0, <1>4, ReleasedType DEF RejectHeader, HeadReady, Released
  <2> QED BY <1>0, <1>4, <2>1
          DEF RejectHeader, TInv, TypeOK, BufferType, FrameType, RestType, frameVars, statsVars
<1>5. CASE RejectFragment
  <2>1. BufferType'
    BY <1>0, <1>5, ReleasedType DEF RejectFragment, HeadReady, Released
  <2>2. begins' \in BOOLEAN /\ completes' \in BOOLEAN /\ lossInFrame' \in BOOLEAN
    BY <1>0, <1>5 DEF RejectFragment, FrameType, BeginsNow, CompletesNow
  <2> QED BY <1>0, <1>5, <2>1, <2>2
          DEF RejectFragment, TInv, TypeOK, BufferType, FrameType, RestType, statsVars
<1>6. CASE UsePiece
  <2>1. BufferType'
    BY <1>0, <1>6, UseMoves, ReleasedType, HalfUsedType
  <2>2. FrameType'
    BY <1>0, <1>6, UseFrames
  <2>3. RestType'
    BY <1>0, <1>6 DEF UsePiece, RestType, statsVars
  <2> QED BY <2>1, <2>2, <2>3 DEF TInv, TypeOK, BufferType, FrameType, RestType
<1>7. CASE AfterGetting
  BY <1>0, <1>7 DEF AfterGetting, TInv, TypeOK, UsedOK, BufferType, FrameType, RestType, bufferVars,
                    statsVars
<1>8. CASE UNCHANGED vars
  BY <1>0, <1>8 DEF vars, TInv, TypeOK, UsedOK, BufferType, FrameType, RestType, bufferVars,
                    frameVars, statsVars
<1> QED BY <1>1, <1>2, <1>3, <1>4, <1>5, <1>6, <1>7, <1>8 DEF Next

THEOREM TypeCorrect == Spec => []TypeOK
<1>1. TInv => TypeOK
  BY DEF TInv
<1> QED BY <1>1, TypeInit, TypeStep, PTL DEF Spec

-----------------------------------------------------------------------------
(* The numbers are true *)

Seen ==
  /\ seen <=> arrived # {}
  /\ ~seen => queue = <<>>
  /\ seen => expected = Number(want)

Sorted == \A i, j \in 1..Len(queue) : i < j => queue[i].n < queue[j].n

\* The numbers of the queue are those of places near the one expected.
Near == \A i \in 1..Len(queue) : want <= queue[i].n /\ queue[i].n - want < Half

Window == Seen /\ Sorted /\ Near

\* The extended numbers count from the oldest to the newest packet that arrived.
Extremes(lo, hi, c) ==
  /\ \A m \in arrived : lo <= m /\ m <= hi
  /\ highest = FirstNumber + hi - 1 + 2 * Half * c
  /\ highest - base = hi - lo

Counted == arrived # {} => \E lo, hi \in arrived, c \in Int : Extremes(lo, hi, c)

LEMMA ReleasedWindow ==
  ASSUME BufferType, Window, Released, seen, UNCHANGED arrived
  PROVE  Window'
<1>1. /\ queue' = Tail(queue) /\ expected' = Next16(Head16) /\ want' = queue[1].n + 1
      /\ seen' = seen /\ queue # <<>> /\ queue \in Seq(Packets)
  BY DEF Released, Release, BufferType
<1>2. queue[1].n \in Int
  BY <1>1, HeadType
<1>3. Len(queue) \in Nat /\ Len(queue) >= 1
      /\ Len(queue') = Len(queue) - 1 /\ \A i \in 1..Len(queue) - 1 : queue'[i] = queue[i + 1]
  BY <1>1, TailFacts
<1>4. expected' = Number(want')
  <2> DEFINE W == 2 * Half
             x == FirstNumber + queue[1].n - 1
  <2>1. W \in Nat \ {0} /\ x \in Int
    BY <1>2
  <2>2. Head16 = x % W /\ Number(want') = (x + 1) % W
    BY <1>1, <1>2 DEF Head16, Number
  <2>3. Next16(Head16) = (Head16 + 1) % W
    BY DEF Next16
  <2> HIDE DEF W, x
  <2>4. x \div W \in Int /\ x % W \in Int /\ x = W * (x \div W) + (x % W)
    BY <2>1, DivMod
  <2>5. x + 1 = ((x % W) + 1) + W * (x \div W) /\ (x % W) + 1 \in Int /\ x + 1 \in Int
    <3>1. W * (x \div W) \in Int
      BY <2>1, <2>4
    <3> QED BY <2>1, <2>4, <3>1
  <2>6. (x + 1) % W = ((x % W) + 1) % W
    BY <2>1, <2>4, <2>5, Congruent
  <2> QED BY <1>1, <2>2, <2>3, <2>6
<1>5. ASSUME NEW i \in 1..Len(queue')
      PROVE  /\ i \in Nat /\ i + 1 \in 1..Len(queue) /\ queue'[i] = queue[i + 1]
             /\ queue[i + 1].n \in Int
  <2>1. i \in Nat /\ i + 1 \in 1..Len(queue) /\ queue'[i] = queue[i + 1]
    BY <1>3
  <2>2. queue[i + 1] \in Packets
    BY <1>1, <2>1
  <2> QED BY <2>1, <2>2, StreamType DEF Packets, Places
<1>6. Sorted'
  <2>1. ASSUME NEW i \in 1..Len(queue'), NEW j \in 1..Len(queue'), i < j
        PROVE  queue'[i].n < queue'[j].n
    <3>1. i + 1 < j + 1
      BY <1>5, <2>1
    <3> QED BY <1>5, <3>1 DEF Window, Sorted
  <2> QED BY <2>1 DEF Sorted
<1>7. Near'
  <2>1. ASSUME NEW i \in 1..Len(queue')
        PROVE  want' <= queue'[i].n /\ queue'[i].n - want' < Half
    <3>1. 1 < i + 1 /\ 1 \in 1..Len(queue)
      BY <1>3, <1>5
    <3>2. queue[1].n < queue[i + 1].n
      BY <1>5, <3>1 DEF Window, Sorted
    <3>3. queue[i + 1].n - want < Half /\ want <= queue[1].n /\ want \in Int
      BY <1>5, <3>1, QueueInts DEF Window, Near
    <3> QED BY <1>1, <1>2, <1>5, <3>2, <3>3
  <2> QED BY <2>1 DEF Near
<1>8. Seen'
  BY <1>1, <1>4 DEF Window, Seen
<1> QED BY <1>6, <1>7, <1>8 DEF Window

LEMMA HalfUsedWindow ==
  ASSUME BufferType, Window, HalfUsed, seen, UNCHANGED arrived
  PROVE  Window'
<1>1. queue \in Seq(Packets) /\ queue # <<>> /\ want' = queue[1].n /\ seen' = seen
  BY DEF BufferType, HalfUsed
<1>2. /\ Len(queue') = Len(queue) /\ Len(queue) \in Nat /\ Len(queue) >= 1
      /\ queue'[1].n = queue[1].n
      /\ \A i \in 2..Len(queue) : queue'[i] = queue[i]
  BY <1>1, UsedFacts DEF HalfUsed
<1>3. \A i \in 1..Len(queue) : queue'[i].n = queue[i].n
  <2> TAKE i \in 1..Len(queue)
  <2>1. i = 1 \/ i \in 2..Len(queue)
    BY <1>2
  <2> QED BY <1>2, <2>1
<1>4. \A i \in 1..Len(queue) : queue[i].n \in Int /\ want \in Int
  BY QueueInts
<1>5. Sorted'
  BY <1>2, <1>3 DEF Window, Sorted
<1>6. Near'
  <2>1. ASSUME NEW i \in 1..Len(queue)
        PROVE  want' <= queue[i].n /\ queue[i].n - want' < Half
    <3>1. (1 \in 1..Len(queue) /\ i = 1) \/ 1 < i
      BY <1>2
    <3>2. queue[1].n <= queue[i].n
      <4>1. 1 \in 1..Len(queue) /\ queue[1].n \in Int
        BY <1>2, <1>4
      <4> QED BY <1>4, <3>1, <4>1 DEF Window, Sorted
    <3>3. want <= queue[1].n /\ queue[i].n - want < Half
      BY <1>2 DEF Window, Near
    <3>4. queue[1].n \in Int
      BY <1>2, <1>4
    <3> QED BY <1>1, <1>4, <3>2, <3>3, <3>4
  <2> QED BY <1>2, <1>3, <2>1 DEF Near
<1>7. Seen'
  BY <1>1 DEF Window, Seen, HalfUsed, Head16
<1> QED BY <1>5, <1>6, <1>7 DEF Window

LEMMA AgedWindow ==
  ASSUME BufferType, Window, Aged, UNCHANGED arrived
  PROVE  Window'
<1>1. queue \in Seq(Packets)
  BY DEF BufferType
<1>2. /\ queue' \in Seq(Packets) /\ Len(queue') = Len(queue) /\ Len(queue) \in Nat
      /\ \A i \in 1..Len(queue) : queue'[i].n = queue[i].n
  BY <1>1, AgedFacts DEF Aged
<1>3. queue = <<>> => queue' = <<>>
  BY <1>1, <1>2
<1> QED BY <1>2, <1>3 DEF Aged, Window, Seen, Sorted, Near

\* storePacket finds the place in the stream's order.
LEMMA PlaceSplits ==
  ASSUME BufferType, Window, NEW n \in Int, want <= n, n - want < Half,
         NEW k, k = PlaceFor(Number(n))
  PROVE  /\ k \in 0..Len(queue) /\ Len(queue) \in Nat
         /\ \A i \in 1..k : i \in 1..Len(queue) /\ queue[i].n <= n
         /\ \A i \in k + 1..Len(queue) : i \in 1..Len(queue) /\ n < queue[i].n
<1>1. PlaceSpec(k, Number(n))
  BY PlaceFacts DEF BufferType
<1>2. k \in 0..Len(queue) /\ Len(queue) \in Nat
  BY <1>1 DEF PlaceSpec, BufferType
<1>3. ASSUME NEW i \in 1..Len(queue)
      PROVE  /\ queue[i].n \in Int
             /\ Less(Number(n), Number(queue[i].n)) <=> n < queue[i].n
             /\ Less(Number(queue[i].n), Number(n)) <=> queue[i].n < n
  <2>1. queue[i].n \in Int /\ want \in Int
    BY QueueInts
  <2>2. want <= queue[i].n /\ queue[i].n - want < Half
    BY DEF Window, Near
  <2>3. queue[i].n - n < Half /\ n - queue[i].n < Half
    BY <2>1, <2>2
  <2> QED BY <2>1, <2>3, LessOrders
<1>4. ASSUME NEW i \in 1..k
      PROVE  i \in 1..Len(queue) /\ queue[i].n <= n
  <2>1. i \in 1..Len(queue) /\ i \in Nat
    BY <1>2
  <2>2. CASE k = Len(queue) /\ k >= 1 /\ Less(Number(queue[k].n), Number(n))
    <3>1. k \in 1..Len(queue) /\ queue[k].n < n /\ queue[k].n \in Int /\ queue[i].n \in Int
      BY <1>2, <1>3, <2>1, <2>2
    <3>2. i = k \/ i < k
      BY <1>2
    <3>3. queue[i].n <= queue[k].n
      BY <2>1, <3>1, <3>2 DEF Window, Sorted
    <3> QED BY <2>1, <3>1, <3>3
  <2>3. CASE ~Less(Number(n), Number(queue[i].n))
    BY <1>3, <2>1, <2>3
  <2>4. queue # <<>>
    BY <2>1
  <2> QED BY <1>1, <2>2, <2>3, <2>4 DEF PlaceSpec
<1>5. ASSUME NEW i \in k + 1..Len(queue)
      PROVE  i \in 1..Len(queue) /\ n < queue[i].n
  <2>1. i \in 1..Len(queue) /\ i \in Nat /\ k # Len(queue) /\ k + 1 <= i /\ queue # <<>>
    BY <1>2
  <2>2. k + 1 \in 1..Len(queue) /\ Less(Number(n), Number(queue[k + 1].n))
    BY <1>1, <2>1 DEF PlaceSpec
  <2>3. n < queue[k + 1].n /\ queue[k + 1].n \in Int /\ queue[i].n \in Int
    BY <1>3, <2>1, <2>2
  <2>4. i = k + 1 \/ k + 1 < i
    BY <1>2, <2>1
  <2>5. queue[k + 1].n <= queue[i].n
    BY <2>1, <2>2, <2>3, <2>4 DEF Window, Sorted
  <2> QED BY <2>1, <2>3, <2>5
<1> QED BY <1>2, <1>4, <1>5

\* What storePacket does with a packet, in terms of places.
Stored(n) ==
  \/ /\ queue' = queue
     /\ seen /\ n < want
  \/ /\ queue' = queue
     /\ seen /\ \E i \in 1..Len(queue) : queue[i].n = n
  \/ \E k \in 0..Len(queue) :
       /\ queue' = Insert(queue, k, NewPacket(n))
       /\ want' <= n
       /\ \A i \in 1..k : i \in 1..Len(queue) /\ queue[i].n < n
       /\ \A i \in k + 1..Len(queue) : i \in 1..Len(queue) /\ n < queue[i].n

LEMMA StoreEffect ==
  ASSUME BufferType, Window, NEW n \in Places, InReach(n), StorePacket(n)
  PROVE  Stored(n)
<1> DEFINE s   == Number(n)
           due == IF seen THEN expected ELSE s
           k   == PlaceFor(s)
<1>1. n \in Int /\ want \in Int /\ Len(queue) \in Nat
  BY StreamType, QueueInts DEF Places, BufferType
<1>2. /\ want' = IF seen THEN want ELSE n
      /\ queue' = IF Less(s, due) \/ Queued(s) THEN queue ELSE Insert(queue, k, NewPacket(n))
  BY DEF StorePacket, NewPacket
<1>3. CASE ~seen
  <2>1. queue = <<>> /\ due = s /\ want' = n
    BY <1>2, <1>3 DEF Window, Seen
  <2>2. k = 0 /\ Len(queue) = 0
    BY <2>1 DEF PlaceFor
  <2>3. ~Less(s, s)
    <3>1. n - n < Half
      BY <1>1
    <3> QED BY <1>1, <3>1, LessOrders
  <2>4. ~Queued(s)
    <3>1. PlaceFor(s) = 0
      BY <2>2
    <3> QED BY <3>1 DEF Queued
  <2>5. queue' = Insert(queue, 0, NewPacket(n))
    BY <1>2, <2>1, <2>2, <2>3, <2>4
  <2>6. want' <= n
    BY <1>1, <2>1
  <2>7. /\ \A i \in 1..0 : i \in 1..Len(queue) /\ queue[i].n < n
        /\ \A i \in 0 + 1..Len(queue) : i \in 1..Len(queue) /\ n < queue[i].n
    BY <2>2
  <2> QED BY <2>2, <2>5, <2>6, <2>7 DEF Stored
<1>4. CASE seen
  <2>1. due = Number(want) /\ n - want < Half /\ want - n < Half /\ want' = want
    BY <1>2, <1>4 DEF Window, Seen, InReach
  <2>2. Less(s, due) <=> n < want
    BY <1>1, <2>1, LessOrders
  <2>3. CASE n < want
    BY <1>2, <1>4, <2>2, <2>3 DEF Stored
  <2>4. CASE ~(n < want)
    <3>1. want <= n
      BY <1>1, <2>4
    <3>2. /\ k \in 0..Len(queue)
          /\ \A i \in 1..k : i \in 1..Len(queue) /\ queue[i].n <= n
          /\ \A i \in k + 1..Len(queue) : i \in 1..Len(queue) /\ n < queue[i].n
      BY <1>1, <2>1, <3>1, PlaceSplits
    <3> HIDE DEF k
    <3>3. CASE Queued(s)
      <4>1. PICK i \in 1..k : Number(queue[i].n) = s
        BY <3>3 DEF Queued, k
      <4>2. i \in 1..Len(queue) /\ queue[i].n \in Int /\ queue[i].n <= n
        BY <3>2, QueueInts
      <4>3. want <= queue[i].n
        BY <4>2 DEF Window, Near
      <4>4. queue[i].n - n < Half /\ n - queue[i].n < Half
        <5>1. queue[i].n - n <= 0 /\ n - queue[i].n <= n - want
          BY <1>1, <4>2, <4>3
        <5> HIDE DEF k, s, due
        <5> QED BY <1>1, <2>1, <4>2, <5>1, SMTT(30)
      <4>5. queue[i].n = n
        BY <1>1, <4>1, <4>2, <4>4, LessOrders
      <4> QED BY <1>2, <1>4, <3>3, <4>2, <4>5 DEF Stored
    <3>4. CASE ~Queued(s)
      <4>1. ASSUME NEW i \in 1..k
            PROVE  i \in 1..Len(queue) /\ queue[i].n < n
        <5>1. Number(queue[i].n) # s
          BY <3>4 DEF Queued, k
        <5>2. queue[i].n # n
          BY <5>1
        <5>3. i \in 1..Len(queue) /\ queue[i].n <= n /\ queue[i].n \in Int
          BY <3>2, QueueInts
        <5> QED BY <1>1, <5>2, <5>3
      <4>2. queue' = Insert(queue, k, NewPacket(n))
        BY <1>2, <2>2, <2>4, <3>4
      <4>3. want' <= n
        BY <2>1, <3>1
      <4> QED BY <3>2, <4>1, <4>2, <4>3 DEF Stored
    <3> QED BY <3>3, <3>4
  <2> QED BY <2>3, <2>4
<1> QED BY <1>3, <1>4

LEMMA StoreWindow ==
  ASSUME BufferType, Window, NEW n \in Places, InReach(n), StorePacket(n),
         arrived' = arrived \cup {n}
  PROVE  Window'
<1>1. n \in Int /\ want \in Int /\ Len(queue) \in Nat /\ queue \in Seq(Packets)
  BY StreamType, QueueInts DEF Places, BufferType
<1>2. /\ seen' = TRUE /\ want' = IF seen THEN want ELSE n
      /\ expected' = IF seen THEN expected ELSE Number(n)
  BY DEF StorePacket
<1>3. Seen'
  BY <1>2 DEF Window, Seen
<1>4. want' \in Int /\ n - want' < Half
  BY <1>1, <1>2 DEF InReach
<1>5. CASE queue' = queue /\ seen
  BY <1>2, <1>3, <1>5 DEF Window, Sorted, Near
<1>6. ASSUME NEW k \in 0..Len(queue),
             queue' = Insert(queue, k, NewPacket(n)),
             want' <= n,
             \A i \in 1..k : i \in 1..Len(queue) /\ queue[i].n < n,
             \A i \in k + 1..Len(queue) : i \in 1..Len(queue) /\ n < queue[i].n
      PROVE  Window'
  <2>1. /\ NewPacket(n) \in Packets /\ NewPacket(n).n = n
    BY NewPacketType DEF BufferType
  <2>2. /\ Len(queue') = Len(queue) + 1
        /\ \A i \in 1..Len(queue) + 1 :
             queue'[i] = IF i <= k THEN queue[i]
                         ELSE IF i = k + 1 THEN NewPacket(n) ELSE queue[i - 1]
    BY <1>6, InsertNew
  <2>3. ASSUME NEW i \in 1..Len(queue')
        PROVE  /\ i \in Nat
               /\ i <= k => i \in 1..Len(queue) /\ queue'[i].n = queue[i].n /\ queue[i].n < n
               /\ i = k + 1 => queue'[i].n = n
               /\ i > k + 1 => /\ i - 1 \in 1..Len(queue) /\ queue'[i].n = queue[i - 1].n
                               /\ n < queue[i - 1].n
    <3>1. i \in 1..Len(queue) + 1 /\ i \in Nat
      BY <1>1, <2>2
    <3>2. i <= k => i \in 1..Len(queue) /\ queue'[i].n = queue[i].n /\ queue[i].n < n
      BY <1>6, <2>2, <3>1
    <3>3. i = k + 1 => queue'[i].n = n
      BY <2>1, <2>2, <3>1
    <3>4. i > k + 1 => i - 1 \in k + 1..Len(queue) /\ queue'[i].n = queue[i - 1].n
      BY <1>1, <2>2, <3>1
    <3> QED BY <1>6, <3>1, <3>2, <3>3, <3>4
  <2>4. Sorted'
    <3>1. ASSUME NEW i \in 1..Len(queue'), NEW j \in 1..Len(queue'), i < j
          PROVE  queue'[i].n < queue'[j].n
      <4>1. /\ i \in Nat
            /\ i <= k => i \in 1..Len(queue) /\ queue'[i].n = queue[i].n /\ queue[i].n < n
                         /\ queue[i].n \in Int
            /\ i = k + 1 => queue'[i].n = n
            /\ i > k + 1 => /\ i - 1 \in 1..Len(queue) /\ queue'[i].n = queue[i - 1].n
                            /\ n < queue[i - 1].n /\ queue[i - 1].n \in Int
        BY <2>3, QueueInts
      <4>2. /\ j \in Nat
            /\ j <= k => j \in 1..Len(queue) /\ queue'[j].n = queue[j].n /\ queue[j].n < n
                         /\ queue[j].n \in Int
            /\ j = k + 1 => queue'[j].n = n
            /\ j > k + 1 => /\ j - 1 \in 1..Len(queue) /\ queue'[j].n = queue[j - 1].n
                            /\ n < queue[j - 1].n /\ queue[j - 1].n \in Int
        BY <2>3, QueueInts
      <4>3. CASE j <= k
        BY <3>1, <4>1, <4>2, <4>3 DEF Window, Sorted
      <4>4. CASE j = k + 1
        BY <3>1, <4>1, <4>2, <4>4
      <4>5. CASE j > k + 1
        <5>1. CASE i <= k + 1
          BY <1>1, <4>1, <4>2, <4>5, <5>1
        <5>2. CASE i > k + 1
          <6>1. i - 1 < j - 1
            BY <3>1, <4>1, <4>2
          <6> QED BY <4>1, <4>2, <4>5, <5>2, <6>1 DEF Window, Sorted
        <5> QED BY <4>1, <5>1, <5>2
      <4> QED BY <4>2, <4>3, <4>4, <4>5
    <3> QED BY <3>1 DEF Sorted
  <2>5. Near'
    <3>1. ASSUME NEW i \in 1..Len(queue')
          PROVE  want' <= queue'[i].n /\ queue'[i].n - want' < Half
      <4>1. CASE queue'[i].n = n
        BY <1>4, <1>6, <4>1
      <4>2. CASE queue'[i].n # n
        <5>1. PICK j \in 1..Len(queue) : queue'[i].n = queue[j].n
          BY <2>3, <4>2
        <5>2. queue # <<>>
          BY <1>1, <5>1
        <5>3. seen /\ want' = want
          BY <1>2, <5>2 DEF Window, Seen
        <5> QED BY <5>1, <5>3 DEF Window, Near
      <4> QED BY <4>1, <4>2
    <3> QED BY <3>1 DEF Near
  <2> QED BY <1>3, <2>4, <2>5 DEF Window
<1>7. Stored(n)
  BY StoreEffect
<1> QED BY <1>5, <1>6, <1>7 DEF Stored

LEMMA NewestIs ==
  ASSUME NEW lo \in arrived, NEW hi \in arrived, arrived \subseteq Places,
         \A m \in arrived : lo <= m /\ m <= hi
  PROVE  Newest = hi /\ Oldest = lo
<1>1. \A m \in arrived : m \in Int
  BY StreamType DEF Places
<1>2. Newest \in arrived /\ \A m \in arrived : m <= Newest
  BY DEF Newest
<1>3. Oldest \in arrived /\ \A m \in arrived : Oldest <= m
  BY DEF Oldest
<1>4. Newest <= hi /\ hi <= Newest /\ Oldest <= lo /\ lo <= Oldest
  BY <1>2, <1>3
<1> QED BY <1>1, <1>2, <1>3, <1>4

\* The cycle of a number is found if it is less than Half from the highest.
LEMMA ExtendedIs ==
  ASSUME NEW hi \in Int, NEW n \in Int, n - hi < Half, hi - n < Half, highest \in Int,
         highest % (2 * Half) = Number(hi)
  PROVE  Extended(Number(n)) = highest + (n - hi)
<1> DEFINE old == Number(hi)
           s   == Number(n)
<1>1. old \in Int /\ s \in Int
  BY NumberType
<1>2. Less(old, s) <=> hi < n
  BY LessOrders
<1>3. hi <= n => s - old = n - hi \/ s - old = n - hi - 2 * Half
  BY NumbersApart
<1>4. n <= hi => old - s = hi - n \/ old - s = hi - n - 2 * Half
  BY NumbersApart
<1>5. Extended(s) = IF Less(old, s)
                    THEN (highest - old) + s + (IF s - old < 0 THEN 2 * Half ELSE 0)
                    ELSE (highest - old) + s - (IF s - old >= Half THEN 2 * Half ELSE 0)
  BY DEF Extended
<1>6. n = hi => s = old
  OBVIOUS
<1> HIDE DEF old, s
<1>7. CASE hi < n
  <2>1. s - old = n - hi \/ s - old = n - hi - 2 * Half
    BY <1>3, <1>7
  <2>2. Extended(s) = (highest - old) + s + (IF s - old < 0 THEN 2 * Half ELSE 0)
    BY <1>2, <1>5, <1>7
  <2> QED BY <1>1, <1>7, <2>1, <2>2 DEF s
<1>8. CASE n <= hi
  <2>1. n < hi => old - s = hi - n \/ old - s = hi - n - 2 * Half
    BY <1>4, <1>8
  <2>2. Extended(s) = (highest - old) + s - (IF s - old >= Half THEN 2 * Half ELSE 0)
    BY <1>2, <1>5, <1>8
  <2>3. CASE n = hi
    BY <1>1, <1>6, <2>2, <2>3 DEF s
  <2>4. CASE n < hi
    <3>1. CASE old - s = hi - n
      <4>1. ~(s - old >= Half)
        BY <1>1, <2>4, <3>1
      <4>2. Extended(s) = (highest - old) + s
        BY <1>1, <2>2, <4>1
      <4>3. Extended(s) = highest + (n - hi)
        BY <1>1, <3>1, <4>2
      <4> QED BY <4>3 DEF s
    <3>2. CASE old - s = hi - n - 2 * Half
      <4>1. s - old >= Half
        BY <1>1, <3>2
      <4>2. Extended(s) = (highest - old) + s - 2 * Half
        BY <2>2, <4>1
      <4>3. Extended(s) = highest + (n - hi)
        BY <1>1, <3>2, <4>2
      <4> QED BY <4>3 DEF s
    <3> QED BY <2>1, <2>4, <3>1, <3>2
  <2> QED BY <1>8, <2>3, <2>4
<1> QED BY <1>7, <1>8

LEMMA NoteCounted ==
  ASSUME RestType, Counted, NEW n \in Places, InReach(n), NoteIncomingPacket(Number(n)),
         arrived' = arrived \cup {n}
  PROVE  Counted'
<1>1. n \in Int /\ highest \in Int /\ base \in Int /\ \A m \in arrived : m \in Int
  BY StreamType DEF RestType, Places
<1>2. CASE arrived = {}
  <2> DEFINE W == 2 * Half
             x == FirstNumber + n - 1
  <2>1. W \in Nat \ {0} /\ x \in Int
    BY <1>1
  <2>2. Number(n) = x % W /\ highest' = W + Number(n) /\ base' = W + Number(n)
    BY <1>2 DEF Number, NoteIncomingPacket
  <2> DEFINE c == 1 - (x \div W)
  <2>3. x \div W \in Int /\ x % W \in Int /\ x = W * (x \div W) + (x % W)
    <3> HIDE DEF W, x
    <3> QED BY <2>1, DivMod
  <2>4. c \in Int /\ W + Number(n) = x + W * c
    <3> HIDE DEF W, x
    <3>1. W * (1 - (x \div W)) = W - W * (x \div W) /\ W * (x \div W) \in Int
      BY <2>1, <2>3
    <3> QED BY <2>1, <2>2, <2>3, <3>1
  <2>5. Extremes(n, n, c)'
    <3>1. \A m \in arrived' : n <= m /\ m <= n
      BY <1>1, <1>2
    <3>2. highest' - base' = n - n
      BY <1>1, <2>1, <2>2, <2>3
    <3>3. highest' = FirstNumber + n - 1 + 2 * Half * c
      BY <2>2, <2>4
    <3> QED BY <3>1, <3>2, <3>3 DEF Extremes
  <2>6. n \in arrived'
    OBVIOUS
  <2> HIDE DEF c
  <2> QED BY <2>4, <2>5, <2>6 DEF Counted
<1>3. CASE arrived # {}
  <2>1. PICK lo \in arrived, hi \in arrived, c \in Int : Extremes(lo, hi, c)
    BY <1>3 DEF Counted
  <2>2. /\ \A m \in arrived : lo <= m /\ m <= hi
        /\ highest = FirstNumber + hi - 1 + 2 * Half * c
        /\ highest - base = hi - lo
        /\ lo \in Int /\ hi \in Int
    BY <1>1, <2>1 DEF Extremes
  <2>3. n - hi < Half /\ hi - n < Half
    BY <1>3, <2>2, NewestIs DEF InReach, RestType
  <2>4. highest % (2 * Half) = Number(hi)
    <3> DEFINE x == FirstNumber + hi - 1
    <3>1. 2 * Half \in Nat \ {0} /\ x \in Int /\ highest = x + 2 * Half * c
      BY <2>2
    <3> HIDE DEF x
    <3>2. highest % (2 * Half) = x % (2 * Half)
      BY <1>1, <3>1, Congruent
    <3> QED BY <3>2 DEF Number, x
  <2>5. Extended(Number(n)) = highest + (n - hi)
    BY <1>1, <2>2, <2>3, <2>4, ExtendedIs
  <2>6. Less(Number(hi), Number(n)) <=> hi < n
    BY <1>1, <2>2, <2>3, LessOrders
  <2>7. 2 * Half * c \in Int
    OBVIOUS
  <2>8. CASE hi < n
    <3>1. highest' = highest + (n - hi) /\ base' = base
      BY <1>1, <1>3, <2>2, <2>4, <2>5, <2>6, <2>8 DEF NoteIncomingPacket
    <3>2. \A m \in arrived' : lo <= m /\ m <= n
      BY <1>1, <2>2, <2>8
    <3>3. highest' = FirstNumber + n - 1 + 2 * Half * c
      BY <1>1, <2>2, <2>7, <3>1
    <3>4. highest' - base' = n - lo
      BY <1>1, <2>2, <3>1
    <3>5. Extremes(lo, n, c)'
      BY <3>2, <3>3, <3>4 DEF Extremes
    <3> QED BY <3>5 DEF Counted
  <2>9. CASE ~(hi < n)
    <3>1. highest' = highest
          /\ base' = IF Extended(Number(n)) < base THEN Extended(Number(n)) ELSE base
      BY <1>3, <2>4, <2>6, <2>9 DEF NoteIncomingPacket
    <3>2. base = highest - (hi - lo)
      BY <1>1, <2>2
    <3>3. CASE n < lo
      <4>1. base' = highest + (n - hi)
        BY <1>1, <2>2, <2>5, <3>1, <3>2, <3>3
      <4>2. \A m \in arrived' : n <= m /\ m <= hi
        BY <1>1, <2>2, <2>9, <3>3
      <4>3. highest' - base' = hi - n
        BY <1>1, <2>2, <3>1, <4>1
      <4>4. Extremes(n, hi, c)'
        BY <2>2, <3>1, <4>2, <4>3 DEF Extremes
      <4> QED BY <4>4 DEF Counted
    <3>4. CASE ~(n < lo)
      <4>1. base' = base
        BY <1>1, <2>2, <2>5, <3>1, <3>2, <3>4
      <4>2. \A m \in arrived' : lo <= m /\ m <= hi
        BY <1>1, <2>2, <2>9, <3>4
      <4>3. highest' - base' = hi - lo
        BY <2>2, <3>1, <4>1
      <4>4. Extremes(lo, hi, c)'
        BY <2>2, <3>1, <4>2, <4>3 DEF Extremes
      <4> QED BY <4>4 DEF Counted
    <3> QED BY <3>3, <3>4
  <2> QED BY <2>8, <2>9
<1> QED BY <1>2, <1>3

-----------------------------------------------------------------------------
(* The invariant *)

IInv == TInv /\ Window /\ Counted

LEMMA InvInit == Init => IInv
<1> SUFFICES ASSUME Init PROVE IInv
  OBVIOUS
<1>1. Window /\ Counted
  BY DEF Init, Window, Seen, Sorted, Near, Counted
<1> QED BY <1>1, TypeInit DEF IInv

LEMMA InvArrive ==
  ASSUME IInv, NEW n \in Places, Arrive(n)
  PROVE  Window' /\ Counted'
<1>1. BufferType /\ RestType
  BY TypeParts DEF IInv
<1> QED BY <1>1, StoreWindow, NoteCounted DEF IInv, Arrive

\* A step of the loop that uses up the head, or a part of it.
LEMMA InvMoves ==
  ASSUME IInv, Released \/ HalfUsed, UNCHANGED <<statsVars, arrived>>
  PROVE  Window' /\ Counted'
<1>1. BufferType
  BY TypeParts DEF IInv
<1>2. seen
  BY DEF IInv, Window, Seen, Released, HalfUsed
<1>3. Window'
  BY <1>1, <1>2, ReleasedWindow, HalfUsedWindow DEF IInv
<1> QED BY <1>3 DEF IInv, Counted, Extremes, statsVars

LEMMA InvStep ==
  ASSUME IInv, [Next]_vars
  PROVE  IInv'
<1>0. BufferType /\ TInv'
  BY TypeParts, TypeStep DEF IInv
<1>1. ASSUME NEW n \in Places, Arrive(n)
      PROVE  IInv'
  BY <1>0, <1>1, InvArrive DEF IInv
<1>2. CASE Tick
  <2>1. Window'
    BY <1>0, <1>2, AgedWindow DEF Tick, Aged, IInv
  <2> QED BY <1>0, <1>2, <2>1 DEF Tick, IInv, Counted, Extremes, statsVars
<1>3. CASE NothingReady \/ AfterGetting \/ UNCHANGED vars
  <2>1. UNCHANGED <<bufferVars, statsVars, arrived>>
    BY <1>3 DEF NothingReady, AfterGetting, vars
  <2>2. Window'
    BY <2>1 DEF IInv, Window, Seen, Sorted, Near, bufferVars
  <2> QED BY <1>0, <2>1, <2>2 DEF IInv, Counted, Extremes, statsVars
<1>4. CASE RejectHeader \/ RejectFragment
  <2>1. Released /\ UNCHANGED <<statsVars, arrived>>
    BY <1>4 DEF RejectHeader, RejectFragment, HeadReady, Released
  <2> QED BY <1>0, <2>1, InvMoves DEF IInv
<1>5. CASE UsePiece
  <2>1. UNCHANGED <<statsVars, arrived>>
    BY <1>5 DEF UsePiece
  <2> QED BY <1>0, <1>5, <2>1, UseMoves, InvMoves DEF IInv
<1> QED BY <1>1, <1>2, <1>3, <1>4, <1>5 DEF Next

LEMMA Inductive == Spec => []IInv
BY InvInit, InvStep, PTL DEF Spec

LEMMA CountedTrue ==
  ASSUME IInv
  PROVE  NumbersTrue
<1>1. ASSUME arrived # {}
      PROVE  highest % (2 * Half) = Number(Newest) /\ highest - base = Newest - Oldest
  <2>1. PICK lo \in arrived, hi \in arrived, c \in Int : Extremes(lo, hi, c)
    BY <1>1 DEF IInv, Counted
  <2>2. Newest = hi /\ Oldest = lo
    BY <2>1, NewestIs DEF Extremes, IInv, TInv, TypeOK
  <2> DEFINE x == FirstNumber + hi - 1
  <2>3. 2 * Half \in Nat \ {0} /\ x \in Int /\ highest = x + 2 * Half * c /\ highest \in Int
    BY <2>1, StreamType DEF Extremes, IInv, TInv, TypeOK, Places
  <2>4. highest % (2 * Half) = x % (2 * Half)
    <3> HIDE DEF x
    <3> QED BY <2>3, Congruent
  <2> QED BY <2>1, <2>2, <2>4 DEF Number, Extremes
<1> QED BY <1>1 DEF NumbersTrue, IInv, Window, Seen, Sorted, Near

\* Numbers that wrap stand for the true places: the queue is in the order of the
\* stream from the packet expected on, and the extended numbers of
\* RTPReceptionStats span what has arrived; for every stream and range of numbers.
THEOREM NumbersStayTrue == Spec => []NumbersTrue
BY CountedTrue, Inductive, PTL

Refused ==
  \A n \in arrived' \ arrived : n \in {queue'[i].n : i \in DOMAIN queue'} \/ n < want

LEMMA RefusedLate ==
  ASSUME IInv, [Next]_vars
  PROVE  Refused
<1>1. CASE \E n \in Places : Arrive(n)
  <2>1. PICK n \in Places : Arrive(n)
    BY <1>1
  <2>2. BufferType /\ Stored(n) /\ \A m \in arrived' \ arrived : m = n
    BY <2>1, StoreEffect, TypeParts DEF IInv, Arrive
  <2>3. queue \in Seq(Packets) /\ Len(queue) \in Nat
    BY <2>2 DEF BufferType
  <2>4. ASSUME NEW k \in 0..Len(queue), queue' = Insert(queue, k, NewPacket(n))
        PROVE  \E i \in DOMAIN queue' : queue'[i].n = n
    <3>1. /\ Len(queue') = Len(queue) + 1 /\ queue' \in Seq(Packets)
          /\ \A i \in 1..Len(queue) + 1 :
               queue'[i] = IF i <= k THEN queue[i]
                           ELSE IF i = k + 1 THEN NewPacket(n) ELSE queue[i - 1]
      BY <2>2, <2>4, InsertNew
    <3>2. k + 1 \in 1..Len(queue) + 1 /\ ~(k + 1 <= k) /\ k + 1 \in DOMAIN queue'
      BY <2>3, <3>1
    <3>3. queue'[k + 1].n = n
      BY <2>2, <3>1, <3>2, NewPacketType DEF BufferType
    <3> QED BY <3>2, <3>3
  <2>5. CASE queue' = queue /\ \E i \in 1..Len(queue) : queue[i].n = n
    <3>1. PICK i \in 1..Len(queue) : queue[i].n = n
      BY <2>5
    <3>2. i \in DOMAIN queue'
      BY <2>3, <2>5
    <3> QED BY <2>2, <2>5, <3>1, <3>2 DEF Refused
  <2>6. CASE n < want
    BY <2>2, <2>6 DEF Refused
  <2>7. CASE \E i \in DOMAIN queue' : queue'[i].n = n
    BY <2>2, <2>7 DEF Refused
  <2> QED BY <2>2, <2>4, <2>5, <2>6, <2>7 DEF Stored
<1>2. CASE ~(\E n \in Places : Arrive(n))
  <2>1. arrived' = arrived
    BY <1>2 DEF Next, Tick, NothingReady, RejectHeader, RejectFragment, UsePiece, AfterGetting,
                vars
  <2> QED BY <2>1 DEF Refused
<1> QED BY <1>1, <1>2

\* A packet that arrives for the first time is kept unless a later one was used
\* or given up waiting for, for every stream and range of numbers.
THEOREM OnlyLateAreRefused == Spec => OnlyLateRefused
<1>1. IInv /\ [Next]_vars => [Refused]_vars
  BY RefusedLate
<1>2. OnlyLateRefused <=> [][Refused]_vars
  BY DEF OnlyLateRefused, Refused
<1> QED BY <1>1, <1>2, Inductive, PTL DEF Spec

-----------------------------------------------------------------------------
(* The source gives frames *)

\* The streams the source keeps its promise for: aggregation packets and packets
\* with a bad header come before the fragments.  AggregateGlued.cfg shows what
\* happens otherwise.
Orderly ==
  \A i, j \in Places :
    i < j /\ Stream[j] \in {"pair", "bad"} => Stream[i] \notin {"begin", "middle", "end"}

Piece == Int \X Int

LEMMA FragmentsFacts ==
  ASSUME NEW a \in Int, NEW b \in Int, a <= b
  PROVE  /\ FS!Fragments(a, b) \in Seq(Piece)
         /\ Len(FS!Fragments(a, b)) = b - a + 1
         /\ FS!Fragments(a, b) # <<>>
         /\ FS!Fragments(a, b)[1] = <<a, 1>>
         /\ FS!Fragments(a, b)[b - a + 1] = <<b, 1>>
         /\ \A i \in 1..b - a + 1 : FS!Fragments(a, b)[i] = <<a + i - 1, 1>>
<1> DEFINE f == FS!Fragments(a, b)
           n == b - a + 1
<1>1. n \in Nat /\ n >= 1 /\ 1 \in 1..n /\ n \in 1..n
  OBVIOUS
<1>2. f = [i \in 1..n |-> <<a + i - 1, 1>>]
  BY DEF FS!Fragments
<1>3. \A i \in 1..n : f[i] = <<a + i - 1, 1>> /\ f[i] \in Piece
  BY <1>2 DEF Piece
<1>4. DOMAIN f = 1..n /\ f = [i \in 1..n |-> f[i]]
  BY <1>2
<1>5. a + 1 - 1 = a /\ a + n - 1 = b
  OBVIOUS
<1> HIDE DEF f, n
<1>6. f \in [1..n -> Piece]
  BY <1>3, <1>4
<1>7. f \in Seq(Piece) /\ Len(f) = n
  BY <1>1, <1>4, <1>6
<1>8. f[1] = <<a, 1>> /\ f[n] = <<b, 1>>
  BY <1>1, <1>3, <1>5
<1>9. f # <<>>
  BY <1>1, <1>7
<1>10. /\ f \in Seq(Piece) /\ Len(f) = n /\ f # <<>> /\ f[1] = <<a, 1>> /\ f[n] = <<b, 1>>
       /\ \A i \in 1..n : f[i] = <<a + i - 1, 1>>
  BY <1>3, <1>7, <1>8, <1>9
<1> QED BY <1>10 DEF f, n

LEMMA OneFragment ==
  ASSUME NEW a \in Int
  PROVE  <<<<a, 1>>>> = FS!Fragments(a, a)
<1> DEFINE f == FS!Fragments(a, a)
           g == <<<<a, 1>>>>
<1>1. f \in Seq(Piece) /\ Len(f) = a - a + 1 /\ f[1] = <<a, 1>>
  <2>1. a <= a
    OBVIOUS
  <2> QED BY <2>1, FragmentsFacts
<1>2. g \in Seq(Piece) /\ Len(g) = 1 /\ g[1] = <<a, 1>>
  <2>1. <<a, 1>> \in Piece
    BY DEF Piece
  <2> QED BY <2>1
<1>3. Len(f) = 1
  BY <1>1
<1> HIDE DEF f, g
<1>4. f = g
  BY <1>1, <1>2, <1>3, SeqEqual
<1> QED BY <1>4 DEF f, g

LEMMA NextFragment ==
  ASSUME NEW a \in Int, NEW b \in Int, a <= b - 1
  PROVE  Append(FS!Fragments(a, b - 1), <<b, 1>>) = FS!Fragments(a, b)
<1> DEFINE e == FS!Fragments(a, b - 1)
           f == FS!Fragments(a, b)
           g == Append(e, <<b, 1>>)
           n == b - a
<1>1. (b - 1) - a + 1 = n /\ b - a + 1 = n + 1 /\ n \in Nat /\ a + (n + 1) - 1 = b
      /\ b - 1 \in Int /\ a <= b
  OBVIOUS
<1>2. /\ f \in Seq(Piece) /\ Len(f) = b - a + 1
      /\ \A i \in 1..b - a + 1 : f[i] = <<a + i - 1, 1>>
  <2> HIDE DEF n
  <2> QED BY <1>1, FragmentsFacts
<1>3. /\ e \in Seq(Piece) /\ Len(e) = (b - 1) - a + 1
      /\ \A i \in 1..(b - 1) - a + 1 : e[i] = <<a + i - 1, 1>>
  <2> DEFINE c == b - 1
  <2>1. c \in Int /\ a <= c
    OBVIOUS
  <2> HIDE DEF c, n
  <2>2. /\ FS!Fragments(a, c) \in Seq(Piece) /\ Len(FS!Fragments(a, c)) = c - a + 1
        /\ \A i \in 1..c - a + 1 : FS!Fragments(a, c)[i] = <<a + i - 1, 1>>
    BY <2>1, FragmentsFacts
  <2> QED BY <2>2 DEF c
<1>4. <<b, 1>> \in Piece
  BY DEF Piece
<1> HIDE DEF e, f, n
<1>5. Len(e) = n /\ \A i \in 1..n : e[i] = <<a + i - 1, 1>>
  BY <1>1, <1>3
<1>6. Len(f) = n + 1 /\ \A i \in 1..n + 1 : f[i] = <<a + i - 1, 1>>
  BY <1>1, <1>2
<1>7. /\ g \in Seq(Piece) /\ Len(g) = n + 1
      /\ \A i \in 1..n + 1 : g[i] = IF i = n + 1 THEN <<b, 1>> ELSE e[i]
  BY <1>1, <1>3, <1>4, <1>5, AppendProperties
<1> HIDE DEF g
<1>8. \A i \in 1..n + 1 : g[i] = f[i]
  <2> TAKE i \in 1..n + 1
  <2>1. CASE i = n + 1
    BY <1>1, <1>6, <1>7, <2>1
  <2>2. CASE i # n + 1
    <3>1. i \in 1..n
      BY <1>1, <2>2
    <3> QED BY <1>5, <1>6, <1>7, <2>2, <3>1
  <2> QED BY <2>1, <2>2
<1>9. f = g
  BY <1>2, <1>6, <1>7, <1>8, SeqEqual
<1> QED BY <1>9 DEF e, f, g

LastOf(f) == f[Len(f)]

HeadUsedNow == queue # <<>> /\ queue[1].used = 1

\* The packet that arrived first, and one that is used in part, are expected.
AtWant == \A i \in 1..Len(queue) : queue[i].first \/ queue[i].used = 1 => queue[i].n = want

\* What was given came before what is expected.
Behind ==
  given # <<>> =>
    /\ Len(given) \in Nat
    /\ LastOf(given)[1] \in Int /\ LastOf(given)[2] \in Int
    /\ \/ LastOf(given)[1] < want
       \/ LastOf(given)[1] = want /\ LastOf(given)[2] = 1 /\ HeadUsedNow

\* The pieces saved are all those of a frame up to the packet expected.
PrefixFrom(a) ==
  /\ Stream[a] = "begin" /\ a < want
  /\ \A i \in a + 1..want - 1 : Stream[i] = "middle"
  /\ frame = FS!Fragments(a, want - 1)
  /\ given # <<>> => LastOf(given)[1] < a

InFrame ==
  pc # "delivering" /\ frame # <<>> /\ ~lossInFrame => \E a \in Places : PrefixFrom(a)

\* Without a loss and without pieces saved no fragment is expected that continues
\* a frame, but for the packet that arrived first.
FirstExpected == queue # <<>> /\ queue[1].n = want /\ queue[1].first

BetweenFrames ==
  (pc = "delivering" \/ frame = <<>>) /\ ~lossInFrame /\ seen /\ want \in Places =>
    Stream[want] \notin {"middle", "end"} \/ FirstExpected

\* Before aggregation packets the flags are those of whole frames.
SpecialAhead == \E j \in Places : want <= j /\ Stream[j] \in {"pair", "bad"}

Ahead ==
  SpecialAhead => begins /\ completes /\ ~lossInFrame /\ (pc = "delivering" \/ frame = <<>>)

NothingYet == ~seen => given = <<>> /\ frame = <<>> /\ want = 0

GInv == IInv /\ AtWant /\ Behind /\ InFrame /\ BetweenFrames /\ Ahead /\ NothingYet

LEMMA GInvInit == Init => GInv
<1> SUFFICES ASSUME Init PROVE GInv
  OBVIOUS
<1>1. IInv
  BY InvInit
<1>2. AtWant /\ Behind /\ InFrame /\ BetweenFrames /\ Ahead /\ NothingYet
  BY DEF Init, AtWant, Behind, InFrame, BetweenFrames, Ahead, NothingYet
<1> QED BY <1>1, <1>2 DEF GInv

\* The head of the queue.
HeadIs(n) ==
  /\ queue # <<>> /\ queue \in Seq(Packets) /\ seen
  /\ n = queue[1].n /\ n \in Places /\ n \in Int /\ want \in Int /\ want <= n
  /\ queue[1].used \in 0..1 /\ (queue[1].used = 1 => Kind = "pair" /\ n = want)
  /\ HeadExpected <=> n = want
  /\ queue[1].first => n = want
  /\ Kind = Stream[n] /\ Kind \in Kinds
  /\ HeadUsedNow <=> queue[1].used = 1

LEMMA HeadFacts ==
  ASSUME GInv, queue # <<>>, NEW n, n = queue[1].n
  PROVE  HeadIs(n)
<1>1. BufferType /\ queue \in Seq(Packets)
  BY TypeParts DEF GInv, IInv, BufferType
<1>2. /\ Len(queue) \in Nat /\ Len(queue) >= 1 /\ 1 \in 1..Len(queue)
      /\ n \in Places /\ n \in Int /\ queue[1].used \in 0..1 /\ Kind \in Kinds
  BY <1>1, HeadType
<1>3. seen /\ want \in Int /\ want <= n /\ n - want < Half /\ expected = Number(want)
  BY <1>1, <1>2, QueueInts DEF GInv, IInv, Window, Seen, Near
<1>4. queue[1].used = 1 => Kind = "pair" /\ n = want
  BY <1>1, <1>2 DEF BufferType, UsedOK, Kind, GInv, AtWant
<1>5. queue[1].first => n = want
  BY <1>2 DEF GInv, AtWant
<1>6. HeadExpected <=> n = want
  <2>1. want - n < Half
    BY <1>2, <1>3
  <2>2. Number(n) = Number(want) <=> n = want
    BY <1>2, <1>3, <2>1, LessOrders
  <2> QED BY <1>3, <2>2 DEF HeadExpected, Head16
<1> QED BY <1>1, <1>2, <1>3, <1>4, <1>5, <1>6 DEF HeadIs, Kind, HeadUsedNow

LEMMA SpecialHead ==
  ASSUME GInv, NEW n, HeadIs(n), Kind \in {"pair", "bad"}, pc = "loop"
  PROVE  begins /\ completes /\ ~lossInFrame /\ frame = <<>>
<1>1. SpecialAhead
  BY DEF HeadIs, SpecialAhead
<1> QED BY <1>1 DEF GInv, Ahead

LEMMA ReleasedAtWant ==
  ASSUME GInv, Released
  PROVE  AtWant'
<1>1. BufferType /\ queue \in Seq(Packets) /\ queue # <<>> /\ queue' = Tail(queue)
  BY TypeParts DEF GInv, IInv, BufferType, Released, Release
<1>2. Len(queue) \in Nat /\ Len(queue) >= 1
      /\ Len(queue') = Len(queue) - 1 /\ \A i \in 1..Len(queue) - 1 : queue'[i] = queue[i + 1]
  BY <1>1, TailFacts
<1>3. ASSUME NEW i \in 1..Len(queue'), queue'[i].first \/ queue'[i].used = 1
      PROVE  FALSE
  <2>1. i + 1 \in 1..Len(queue) /\ 1 \in 1..Len(queue) /\ 1 < i + 1 /\ queue'[i] = queue[i + 1]
    BY <1>2
  <2>2. queue[1].n < queue[i + 1].n /\ want <= queue[1].n
    BY <2>1 DEF GInv, IInv, Window, Sorted, Near
  <2>3. queue[i + 1].n = want
    BY <1>3, <2>1 DEF GInv, AtWant
  <2>4. want \in Int /\ queue[1].n \in Int
    BY <1>1, <2>1, QueueInts
  <2> QED BY <2>2, <2>3, <2>4
<1> QED BY <1>3 DEF AtWant

LEMMA HalfUsedAtWant ==
  ASSUME GInv, HalfUsed
  PROVE  AtWant' /\ HeadUsedNow'
<1>1. BufferType /\ queue \in Seq(Packets) /\ queue # <<>> /\ want' = queue[1].n
  BY TypeParts DEF GInv, IInv, BufferType, HalfUsed
<1>2. /\ queue' \in Seq(Packets) /\ Len(queue') = Len(queue) /\ Len(queue) \in Nat /\ Len(queue) >= 1
      /\ queue'[1].n = queue[1].n /\ queue'[1].used = 1
      /\ \A i \in 2..Len(queue) : queue'[i] = queue[i]
  BY <1>1, UsedFacts DEF HalfUsed
<1>3. ASSUME NEW i \in 1..Len(queue'), queue'[i].first \/ queue'[i].used = 1
      PROVE  queue'[i].n = want'
  <2>1. CASE i = 1
    BY <1>1, <1>2, <2>1
  <2>2. CASE i # 1
    <3>1. i \in 2..Len(queue) /\ i \in 1..Len(queue) /\ 1 \in 1..Len(queue) /\ 1 < i
      BY <1>2, <2>2
    <3>2. queue[1].n < queue[i].n /\ want <= queue[1].n
      BY <3>1 DEF GInv, IInv, Window, Sorted, Near
    <3>3. queue[i].n = want
      BY <1>2, <1>3, <3>1 DEF GInv, AtWant
    <3>4. want \in Int /\ queue[1].n \in Int
      BY <1>1, <3>1, QueueInts
    <3> QED BY <3>2, <3>3, <3>4
  <2> QED BY <2>1, <2>2
<1>4. queue' # <<>>
  BY <1>2
<1> QED BY <1>2, <1>3, <1>4 DEF AtWant, HeadUsedNow

\* After the loop has moved past the packet n, or past its first piece.
Moved(n, u) ==
  \/ Released /\ want' = n + 1 /\ (Kind = "pair" => u = 1)
  \/ HalfUsed /\ want' = n /\ u = 0 /\ Kind = "pair"

\* The piece the loop uses.
Used(n, u) == HeadIs(n) /\ u = queue[1].used /\ pc = "loop"

LEMMA NotUnusable ==
  ASSUME GInv, Orderly, NEW n, NEW u, Used(n, u), ~Unusable, u = 0 => Kind # "bad"
  PROVE  \/ /\ Kind \in {"whole", "pair", "begin"} /\ BeginsNow
            /\ FrameNow = <<<<n, u + 1>>>>
            /\ CompletesNow <=> Kind # "begin"
         \/ /\ Kind \in {"middle", "end"} /\ ~BeginsNow /\ u = 0 /\ n = want
            /\ \E a \in Places : PrefixFrom(a)
            /\ FrameNow = Append(frame, <<n, u + 1>>)
            /\ CompletesNow <=> Kind = "end"
            /\ ~lossInFrame
<1>0. /\ Kind \in Kinds /\ Kind = Stream[n] /\ n \in Places /\ n \in Int /\ want \in Int
      /\ u \in 0..1 /\ (u = 1 => Kind = "pair") /\ n = queue[1].n /\ u = queue[1].used
      /\ pc = "loop" /\ seen /\ (HeadExpected <=> n = want) /\ queue # <<>>
  BY DEF Used, HeadIs
<1>1. Kind = "pair" => begins /\ completes /\ ~lossInFrame /\ frame = <<>>
  BY SpecialHead DEF Used
<1>2. Kind \in {"whole", "pair", "begin", "middle", "end"}
  BY <1>0 DEF Kinds
<1>3. LossBeforeHead \in BOOLEAN
  BY HeadType DEF LossBeforeHead, Used, HeadIs
<1>4. CASE Kind \in {"middle", "end"}
  <2>1. ~BeginsNow /\ (CompletesNow <=> Kind = "end")
    BY <1>4 DEF BeginsNow, CompletesNow
  <2>2. ~LossBeforeHead /\ ~lossInFrame
    BY <2>1 DEF Unusable
  <2>3. HeadExpected /\ ~queue[1].first /\ n = want /\ u = 0
    BY <1>0, <1>4, <2>2 DEF LossBeforeHead
  <2>4. frame # <<>>
    BY <1>0, <1>4, <2>2, <2>3 DEF GInv, BetweenFrames, FirstExpected
  <2>5. \E a \in Places : PrefixFrom(a)
    BY <1>0, <2>2, <2>4 DEF GInv, InFrame
  <2>6. FrameNow = Append(frame, <<n, u + 1>>)
    BY <1>0, <2>1 DEF FrameNow
  <2> QED BY <1>4, <2>1, <2>2, <2>3, <2>5, <2>6
<1>5. CASE Kind \in {"whole", "pair", "begin"}
  <2>1. BeginsNow /\ (CompletesNow <=> Kind # "begin")
    BY <1>1, <1>5 DEF BeginsNow, CompletesNow
  <2>2. ~(LossBeforeHead \/ lossInFrame) => frame = <<>>
    <3> SUFFICES ASSUME ~LossBeforeHead, ~lossInFrame, frame # <<>> PROVE FALSE
      OBVIOUS
    <3>1. HeadExpected /\ n = want
      BY <1>0 DEF LossBeforeHead
    <3>2. PICK a \in Places : PrefixFrom(a)
      BY <1>0 DEF GInv, InFrame
    <3>3. a \in Int /\ a < n
      BY <3>1, <3>2, StreamType DEF PrefixFrom, Places
    <3>4. n - 1 = a \/ n - 1 \in a + 1..want - 1
      BY <1>0, <3>1, <3>3
    <3>5. Stream[n - 1] \in {"begin", "middle"}
      BY <3>2, <3>4 DEF PrefixFrom
    <3>6. n \in 2..Len(Stream)
      BY <1>0, <3>2, <3>3, StreamType DEF Places
    <3>7. Stream[n] \in {"middle", "end"}
      BY <3>5, <3>6, StreamAssumption
    <3> QED BY <1>0, <1>5, <3>7
  <2>3. FrameNow = Append(<<>>, <<n, u + 1>>)
    BY <1>0, <2>1, <2>2 DEF FrameNow
  <2>4. FrameNow = <<<<n, u + 1>>>>
    BY <2>3
  <2> QED BY <1>5, <2>1, <2>4
<1> QED BY <1>2, <1>4, <1>5

LEMMA StreamDomain == DOMAIN Stream = Places
BY StreamType DEF Places

LEMMA UsedMoves ==
  ASSUME GInv, UsePiece, NEW n, n = queue[1].n, NEW u, u = queue[1].used
  PROVE  Used(n, u) /\ Moved(n, u) /\ ~Unusable /\ (u = 0 => Kind # "bad")
<1>1. HeadIs(n)
  BY HeadFacts DEF UsePiece, HeadReady
<1>2. Released \/ HalfUsed
  BY UseMoves, TypeParts DEF GInv, IInv
<1>3. u \in 0..1 /\ (u = 1 => Kind = "pair")
  BY <1>1 DEF HeadIs
<1>4. CASE u + 1 = Pieces
  <2>1. Released
    BY <1>1, <1>4 DEF UsePiece, UseHead, Released, HeadIs
  <2>2. Kind = "pair" => u = 1
    BY <1>3, <1>4 DEF Pieces
  <2> QED BY <1>1, <2>1, <2>2 DEF Moved, Used, Released, Release, UsePiece
<1>5. CASE u + 1 # Pieces
  <2>1. u = 0 /\ Kind = "pair"
    BY <1>3, <1>5 DEF Pieces
  <2>2. HalfUsed
    BY <1>1, <1>5, <2>1 DEF UsePiece, UseHead, HalfUsed, PieceUsed, HeadIs
  <2> QED BY <1>1, <2>1, <2>2 DEF Moved, Used, HalfUsed, UsePiece
<1> QED BY <1>4, <1>5

\* What was given ends before the piece used.
LEMMA BehindPiece ==
  ASSUME GInv, NEW n, NEW u, Used(n, u), given # <<>>
  PROVE  /\ LastOf(given)[1] \in Int /\ LastOf(given)[2] \in Int /\ Len(given) \in Nat
         /\ \/ LastOf(given)[1] < n
            \/ LastOf(given)[1] = n /\ LastOf(given)[2] = 1 /\ u = 1
         /\ u = 0 => LastOf(given)[1] < want
<1>1. /\ Len(given) \in Nat /\ LastOf(given)[1] \in Int /\ LastOf(given)[2] \in Int
      /\ \/ LastOf(given)[1] < want
         \/ LastOf(given)[1] = want /\ LastOf(given)[2] = 1 /\ HeadUsedNow
  BY DEF GInv, Behind
<1>2. /\ n \in Int /\ want \in Int /\ want <= n /\ u \in 0..1
      /\ (u = 1 => n = want) /\ (HeadUsedNow <=> u = 1)
  BY DEF Used, HeadIs
<1>3. LastOf(given)[1] < want => LastOf(given)[1] < n
  BY <1>1, <1>2
<1> QED BY <1>1, <1>2, <1>3

LEMMA OnePieceFrame ==
  ASSUME NEW n \in Places, NEW u \in 0..1, Stream[n] \in {"whole", "pair"},
         u = 1 => Stream[n] = "pair"
  PROVE  <<<<n, u + 1>>>> \in FS!Frames
<1>1. CASE u = 0
  <2>1. n \in {i \in DOMAIN Stream : Stream[i] \in {"whole", "pair"}}
    BY StreamDomain
  <2> QED BY <1>1, <2>1 DEF FS!Frames
<1>2. CASE u = 1
  <2>1. n \in {i \in DOMAIN Stream : Stream[i] = "pair"} /\ u + 1 = 2
    BY <1>2, StreamDomain
  <2> QED BY <1>2, <2>1 DEF FS!Frames
<1> QED BY <1>1, <1>2

LEMMA FragmentedFrame ==
  ASSUME NEW a \in Places, NEW b \in Places, FS!Fragmented(a, b)
  PROVE  FS!Fragments(a, b) \in FS!Frames
<1> DEFINE R == {s \in (DOMAIN Stream) \X (DOMAIN Stream) : FS!Fragmented(s[1], s[2])}
<1>1. <<a, b>> \in R
  BY StreamDomain
<1>2. FS!Fragments(<<a, b>>[1], <<a, b>>[2]) \in {FS!Fragments(r[1], r[2]) : r \in R}
  <2> HIDE DEF R
  <2> QED BY <1>1
<1>3. FS!Frames = {<<<<n, 1>>>> : n \in {i \in DOMAIN Stream : Stream[i] \in {"whole", "pair"}}}
        \cup {<<<<n, 2>>>> : n \in {i \in DOMAIN Stream : Stream[i] = "pair"}}
        \cup {FS!Fragments(r[1], r[2]) : r \in R}
  BY DEF FS!Frames
<1>4. <<a, b>>[1] = a /\ <<a, b>>[2] = b
  OBVIOUS
<1> HIDE DEF R
<1> QED BY <1>2, <1>3, <1>4

\* The pieces saved, with the piece used: where they begin and end, and a frame
\* after what was given if they complete one.
LEMMA UseGives ==
  ASSUME GInv, Orderly, NEW n, NEW u, Used(n, u), ~Unusable, u = 0 => Kind # "bad"
  PROVE  /\ FrameNow # <<>> /\ Len(FrameNow) \in Nat /\ LastOf(FrameNow) = <<n, u + 1>>
         /\ CompletesNow => /\ FrameNow \in FS!Frames
                            /\ given = <<>> \/ FS!Precedes(given, FrameNow)
         /\ ~CompletesNow => \E a \in Places :
              /\ Stream[a] = "begin" /\ a <= n
              /\ \A i \in a + 1..n : Stream[i] = "middle"
              /\ FrameNow = FS!Fragments(a, n)
              /\ given # <<>> => LastOf(given)[1] < a
<1>0. /\ Kind = Stream[n] /\ n \in Places /\ n \in Int /\ want \in Int /\ want <= n
      /\ u \in 0..1 /\ (u = 1 => Kind = "pair")
  BY DEF Used, HeadIs
<1>1. CASE /\ Kind \in {"whole", "pair", "begin"} /\ BeginsNow
           /\ FrameNow = <<<<n, u + 1>>>>
           /\ CompletesNow <=> Kind # "begin"
  <2> DEFINE f == <<<<n, u + 1>>>>
  <2>1. f # <<>> /\ Len(f) = 1 /\ LastOf(f) = <<n, u + 1>> /\ f[1] = <<n, u + 1>>
    BY DEF LastOf
  <2>2. CASE CompletesNow
    <3>1. f \in FS!Frames
      BY <1>0, <1>1, <2>2, OnePieceFrame
    <3>2. given # <<>> => FS!Precedes(given, f)
      <4>1. /\ FS!Precedes(given, f) <=>
                 \/ given[Len(given)][1] < f[1][1]
                 \/ given[Len(given)][1] = f[1][1] /\ given[Len(given)][2] < f[1][2]
        BY DEF FS!Precedes
      <4>2. f[1][1] = n /\ f[1][2] = u + 1
        BY <2>1
      <4> HIDE DEF f
      <4> SUFFICES ASSUME given # <<>> PROVE FS!Precedes(given, f)
        OBVIOUS
      <4>3. \/ LastOf(given)[1] < n
            \/ LastOf(given)[1] = n /\ LastOf(given)[2] = 1 /\ u = 1
        BY BehindPiece
      <4> QED BY <4>1, <4>2, <4>3 DEF LastOf
    <3> HIDE DEF f
    <3> QED BY <1>1, <2>1, <2>2, <3>1, <3>2 DEF f
  <2>3. CASE ~CompletesNow
    <3>1. Kind = "begin" /\ u = 0
      BY <1>0, <1>1, <2>3
    <3>2. f = FS!Fragments(n, n)
      BY <1>0, <3>1, OneFragment
    <3>3. \A i \in n + 1..n : Stream[i] = "middle"
      BY <1>0
    <3>4. given # <<>> => LastOf(given)[1] < n
      BY <1>0, <3>1, BehindPiece
    <3>5. FrameNow = FS!Fragments(n, n)
      BY <1>1, <3>2
    <3>6. Stream[n] = "begin" /\ n <= n
      BY <1>0, <3>1
    <3>7. FrameNow # <<>> /\ Len(FrameNow) \in Nat /\ LastOf(FrameNow) = <<n, u + 1>>
      BY <1>1, <2>1
    <3>8. \E a \in Places :
            /\ Stream[a] = "begin" /\ a <= n
            /\ \A i \in a + 1..n : Stream[i] = "middle"
            /\ FrameNow = FS!Fragments(a, n)
            /\ given # <<>> => LastOf(given)[1] < a
      BY <1>0, <3>3, <3>4, <3>5, <3>6
    <3> QED BY <2>3, <3>7, <3>8
  <2> QED BY <2>2, <2>3
<1>2. CASE /\ Kind \in {"middle", "end"} /\ ~BeginsNow /\ u = 0 /\ n = want
           /\ \E a \in Places : PrefixFrom(a)
           /\ FrameNow = Append(frame, <<n, u + 1>>)
           /\ CompletesNow <=> Kind = "end"
           /\ ~lossInFrame
  <2>1. PICK a \in Places : PrefixFrom(a)
    BY <1>2
  <2>2. a \in Int /\ a <= n - 1 /\ a < n /\ a <= n
    BY <1>0, <1>2, <2>1, StreamType DEF PrefixFrom, Places
  <2>3. FrameNow = FS!Fragments(a, n)
    <3>1. frame = FS!Fragments(a, n - 1)
      BY <1>2, <2>1 DEF PrefixFrom
    <3>2. u + 1 = 1
      BY <1>2
    <3>3. FrameNow = Append(FS!Fragments(a, n - 1), <<n, 1>>)
      BY <1>2, <3>1, <3>2
    <3> QED BY <1>0, <2>2, <3>3, NextFragment
  <2> DEFINE f == FS!Fragments(a, n)
  <2>4. f # <<>> /\ Len(f) = n - a + 1 /\ f[1] = <<a, 1>> /\ f[n - a + 1] = <<n, 1>>
    BY <1>0, <2>2, FragmentsFacts
  <2>5. FrameNow # <<>> /\ Len(FrameNow) \in Nat /\ LastOf(FrameNow) = <<n, u + 1>>
    <3>1. u + 1 = 1 /\ n - a + 1 \in Nat
      BY <1>0, <1>2, <2>2
    <3> HIDE DEF f
    <3>2. FrameNow = f
      BY <2>3 DEF f
    <3> QED BY <2>4, <3>1, <3>2 DEF LastOf
  <2>6. \A i \in a + 1..n - 1 : Stream[i] = "middle"
    BY <1>2, <2>1 DEF PrefixFrom
  <2>7. Stream[a] = "begin" /\ (given # <<>> => LastOf(given)[1] < a)
    BY <2>1 DEF PrefixFrom
  <2>8. CASE CompletesNow
    <3>1. FS!Fragmented(a, n)
      BY <1>0, <1>2, <2>2, <2>6, <2>7, <2>8 DEF FS!Fragmented
    <3>2. f \in FS!Frames
      BY <1>0, <3>1, FragmentedFrame
    <3>3. given # <<>> => FS!Precedes(given, f)
      BY <2>4, <2>7 DEF FS!Precedes, LastOf
    <3>4. FrameNow \in FS!Frames /\ (given # <<>> => FS!Precedes(given, FrameNow))
      BY <2>3, <3>2, <3>3
    <3> QED BY <2>5, <2>8, <3>4
  <2>9. CASE ~CompletesNow
    <3>1. Stream[n] = "middle"
      BY <1>0, <1>2, <2>9
    <3>2. \A i \in a + 1..n : Stream[i] = "middle"
      <4> TAKE i \in a + 1..n
      <4>1. i = n \/ i \in a + 1..n - 1
        BY <1>0, <2>2
      <4> QED BY <2>6, <3>1, <4>1
    <3>3. \E c \in Places :
            /\ Stream[c] = "begin" /\ c <= n
            /\ \A i \in c + 1..n : Stream[i] = "middle"
            /\ FrameNow = FS!Fragments(c, n)
            /\ given # <<>> => LastOf(given)[1] < c
      BY <2>2, <2>3, <2>7, <3>2
    <3> QED BY <2>5, <2>9, <3>3
  <2> QED BY <2>8, <2>9
<1> QED BY <1>1, <1>2, NotUnusable

LEMMA MovedAhead ==
  ASSUME GInv, Orderly, NEW n, NEW u, Used(n, u), Moved(n, u), SpecialAhead'
  PROVE  SpecialAhead /\ Kind \notin {"begin", "middle", "end"}
<1>1. /\ Kind = Stream[n] /\ n \in Places /\ n \in Int /\ want \in Int /\ want <= n
  BY DEF Used, HeadIs
<1>2. PICK j \in Places : want' <= j /\ Stream[j] \in {"pair", "bad"}
  BY DEF SpecialAhead
<1>3. j \in Int
  BY StreamType DEF Places
<1>4. CASE want' = n + 1
  <2>1. n < j /\ want <= j
    BY <1>1, <1>2, <1>3, <1>4
  <2> QED BY <1>1, <1>2, <2>1 DEF Orderly, SpecialAhead
<1>5. CASE want' = n /\ Kind = "pair"
  BY <1>1, <1>5 DEF SpecialAhead
<1> QED BY <1>4, <1>5 DEF Moved

LEMMA AfterFrame ==
  ASSUME NEW n \in Places, n + 1 \in Places, Stream[n] \notin {"begin", "middle"}
  PROVE  Stream[n + 1] \notin {"middle", "end"}
<1>1. n + 1 \in 2..Len(Stream) /\ (n + 1) - 1 = n
  BY StreamType DEF Places
<1> QED BY <1>1, StreamAssumption

LEMMA MovedBetween ==
  ASSUME NEW n, NEW u, Used(n, u), Moved(n, u), want' \in Places, Kind \notin {"begin", "middle"}
  PROVE  Stream[want'] \notin {"middle", "end"}
<1>1. /\ Kind = Stream[n] /\ n \in Places /\ n \in Int
  BY DEF Used, HeadIs
<1>2. CASE want' = n + 1
  BY <1>1, <1>2, AfterFrame
<1>3. CASE want' = n /\ Kind = "pair"
  BY <1>1, <1>3
<1> QED BY <1>2, <1>3 DEF Moved

LEMMA MovedAtWant ==
  ASSUME GInv, NEW n, NEW u, Moved(n, u)
  PROVE  AtWant' /\ (HalfUsed => HeadUsedNow')
BY ReleasedAtWant, HalfUsedAtWant DEF Moved

LEMMA UseInv ==
  ASSUME GInv, Orderly, UsePiece, IInv'
  PROVE  GInv'
<1> DEFINE n == queue[1].n
           u == queue[1].used
<1>1. Used(n, u) /\ Moved(n, u) /\ ~Unusable /\ (u = 0 => Kind # "bad")
  BY UsedMoves
<1>2. /\ Kind = Stream[n] /\ n \in Places /\ n \in Int /\ want \in Int /\ want <= n
      /\ u \in 0..1 /\ (u = 1 => Kind = "pair") /\ pc = "loop" /\ seen /\ Kind \in Kinds
  BY <1>1 DEF Used, HeadIs
<1>3. /\ FrameNow # <<>> /\ Len(FrameNow) \in Nat /\ LastOf(FrameNow) = <<n, u + 1>>
      /\ ~CompletesNow => \E a \in Places :
           /\ Stream[a] = "begin" /\ a <= n
           /\ \A i \in a + 1..n : Stream[i] = "middle"
           /\ FrameNow = FS!Fragments(a, n)
           /\ given # <<>> => LastOf(given)[1] < a
  <2> HIDE DEF n, u
  <2> QED BY <1>1, UseGives
<1>4. \/ /\ Kind \in {"whole", "pair", "begin"} /\ BeginsNow
         /\ CompletesNow <=> Kind # "begin"
      \/ /\ Kind \in {"middle", "end"} /\ ~BeginsNow /\ u = 0
         /\ CompletesNow <=> Kind = "end"
         /\ ~lossInFrame
  <2> HIDE DEF n, u
  <2> QED BY <1>1, NotUnusable
<1>5. /\ begins' = BeginsNow /\ completes' = CompletesNow
      /\ lossInFrame' = (lossInFrame /\ ~BeginsNow) /\ seen' = seen
      /\ \/ ~CompletesNow /\ frame' = FrameNow /\ given' = given /\ pc' = pc
         \/ CompletesNow /\ given' = FrameNow /\ frame' = <<>> /\ pc' = pc
         \/ CompletesNow /\ given' = FrameNow /\ pc' = "delivering"
  BY DEF UsePiece
<1>6. ~lossInFrame'
  BY <1>4, <1>5
<1>7. \/ Released /\ want' = n + 1 /\ (Kind = "pair" => u = 1)
      \/ HalfUsed /\ want' = n /\ u = 0 /\ Kind = "pair"
  BY <1>1 DEF Moved
<1>8. AtWant' /\ (HalfUsed => HeadUsedNow')
  <2> HIDE DEF n, u
  <2> QED BY <1>1, MovedAtWant
<1>9. given # <<>> =>
        /\ LastOf(given)[1] \in Int /\ LastOf(given)[2] \in Int /\ Len(given) \in Nat
        /\ u = 0 => LastOf(given)[1] < want
  <2> HIDE DEF n, u
  <2> QED BY <1>1, BehindPiece
<1>10. Used(n, u) /\ Moved(n, u)
  BY <1>1
<1>11. SpecialAhead' => SpecialAhead /\ Kind \notin {"begin", "middle", "end"}
  <2> HIDE DEF n, u
  <2> QED BY <1>10, MovedAhead
<1>12. want' \in Places /\ Kind \notin {"begin", "middle"} => Stream[want'] \notin {"middle", "end"}
  <2> HIDE DEF n, u
  <2> QED BY <1>10, MovedBetween
<1> HIDE DEF n, u
<1>13. Behind'
  <2>1. CASE CompletesNow
    <3>1. given' = FrameNow /\ LastOf(given') = <<n, u + 1>>
      BY <1>3, <1>5, <2>1
    <3>2. LastOf(given')[1] = n /\ LastOf(given')[2] = u + 1
      BY <3>1
    <3>3. \/ n < want'
          \/ n = want' /\ u + 1 = 1 /\ HeadUsedNow'
      BY <1>2, <1>7, <1>8
    <3>4. n \in Int /\ u + 1 \in Int
      BY <1>2
    <3> QED BY <1>3, <3>1, <3>2, <3>3, <3>4 DEF Behind, LastOf
  <2>2. CASE ~CompletesNow
    <3>1. given' = given /\ u = 0 /\ Kind # "pair"
      BY <1>4, <1>2, <1>5, <2>2
    <3>2. want' = n + 1
      BY <1>7, <3>1
    <3>3. given # <<>> => LastOf(given)[1] < want'
      BY <1>2, <1>9, <3>1, <3>2
    <3> QED BY <1>9, <3>1, <3>3 DEF Behind, LastOf
  <2> QED BY <2>1, <2>2
<1>14. InFrame'
  <2>1. CASE CompletesNow
    BY <1>5, <2>1 DEF InFrame
  <2>2. CASE ~CompletesNow
    <3>1. frame' = FrameNow /\ given' = given /\ Kind # "pair"
      BY <1>4, <1>5, <2>2
    <3>2. want' = n + 1 /\ want' - 1 = n /\ n < want'
      BY <1>2, <1>7, <3>1
    <3>3. PICK a \in Places :
            /\ Stream[a] = "begin" /\ a <= n
            /\ \A i \in a + 1..n : Stream[i] = "middle"
            /\ FrameNow = FS!Fragments(a, n)
            /\ given # <<>> => LastOf(given)[1] < a
      BY <1>3, <2>2
    <3>4. a \in Int /\ a < want'
      BY <1>2, <3>2, <3>3, StreamType DEF Places
    <3>5. PrefixFrom(a)'
      BY <3>1, <3>2, <3>3, <3>4 DEF PrefixFrom, LastOf
    <3> QED BY <3>5 DEF InFrame
  <2> QED BY <2>1, <2>2
<1>15. BetweenFrames'
  <2>1. CASE CompletesNow
    <3>1. Kind \notin {"begin", "middle"}
      BY <1>4, <2>1
    <3> QED BY <1>12, <3>1 DEF BetweenFrames
  <2>2. CASE ~CompletesNow
    <3>1. frame' # <<>> /\ pc' # "delivering"
      BY <1>2, <1>3, <1>5, <2>2
    <3> QED BY <3>1 DEF BetweenFrames
  <2> QED BY <2>1, <2>2
<1>16. Ahead'
  <2> SUFFICES ASSUME SpecialAhead'
               PROVE  begins' /\ completes' /\ ~lossInFrame' /\ (pc' = "delivering" \/ frame' = <<>>)
    BY DEF Ahead
  <2>1. BeginsNow /\ CompletesNow
    BY <1>4, <1>11
  <2> QED BY <1>5, <1>6, <2>1
<1>17. NothingYet'
  BY <1>2, <1>5 DEF NothingYet
<1> QED BY <1>8, <1>13, <1>14, <1>15, <1>16, <1>17 DEF GInv

LEMMA RejectMoves ==
  ASSUME GInv, RejectHeader \/ RejectFragment, NEW n, n = queue[1].n, NEW u, u = queue[1].used
  PROVE  Used(n, u) /\ Moved(n, 1) /\ Released /\ want' = n + 1
<1>1. HeadIs(n)
  BY HeadFacts DEF RejectHeader, RejectFragment, HeadReady
<1> QED BY <1>1 DEF Used, Moved, RejectHeader, RejectFragment, Released, Release, HeadIs

LEMMA RejectInv ==
  ASSUME GInv, Orderly, RejectHeader \/ RejectFragment, IInv'
  PROVE  GInv'
<1> DEFINE n == queue[1].n
           u == queue[1].used
<1>1. Used(n, u) /\ Moved(n, 1) /\ Released /\ want' = n + 1
  BY RejectMoves
<1>2. /\ Kind = Stream[n] /\ n \in Places /\ n \in Int /\ want \in Int /\ want <= n
      /\ u \in 0..1 /\ (u = 1 => Kind = "pair") /\ pc = "loop" /\ seen /\ Kind \in Kinds
      /\ HeadIs(n)
  BY <1>1 DEF Used, HeadIs
<1>3. given' = given /\ frame' = frame /\ seen' = seen /\ pc' = "waiting"
  BY DEF RejectHeader, RejectFragment, frameVars
<1>4. given # <<>> =>
        /\ LastOf(given)[1] \in Int /\ LastOf(given)[2] \in Int /\ Len(given) \in Nat
        /\ \/ LastOf(given)[1] < n
           \/ LastOf(given)[1] = n /\ LastOf(given)[2] = 1 /\ u = 1
  <2> HIDE DEF n, u
  <2> QED BY <1>1, BehindPiece
<1>5. Kind \in {"pair", "bad"} => begins /\ completes /\ ~lossInFrame /\ frame = <<>>
  <2> HIDE DEF n, u
  <2> QED BY <1>2, SpecialHead
<1>6. AtWant'
  BY <1>1, ReleasedAtWant
<1>7. SpecialAhead' => SpecialAhead /\ Kind \notin {"begin", "middle", "end"}
  <2>1. SpecialAhead' => \E j \in Places : n + 1 <= j /\ Stream[j] \in {"pair", "bad"}
    BY <1>1 DEF SpecialAhead
  <2> HIDE DEF n, u
  <2>2. ASSUME NEW j \in Places, n + 1 <= j, Stream[j] \in {"pair", "bad"}
        PROVE  SpecialAhead /\ Kind \notin {"begin", "middle", "end"}
    <3>1. j \in Int /\ n < j /\ want <= j
      BY <1>2, <2>2, StreamType DEF Places
    <3> QED BY <1>2, <2>2, <3>1 DEF Orderly, SpecialAhead
  <2> QED BY <2>1, <2>2
<1> HIDE DEF n, u
<1>8. Behind'
  <2>1. given # <<>> => LastOf(given)[1] < want'
    BY <1>1, <1>2, <1>4
  <2> QED BY <1>3, <1>4, <2>1 DEF Behind, LastOf
<1>9. NothingYet'
  BY <1>2, <1>3 DEF NothingYet
<1>10. CASE RejectFragment
  <2>1. lossInFrame' /\ begins' = BeginsNow /\ completes' = CompletesNow /\ ~BeginsNow
    BY <1>10 DEF RejectFragment, Unusable
  <2>2. Kind \in {"middle", "end"}
    <3>1. Kind # "pair"
      BY <1>5, <2>1 DEF BeginsNow
    <3> QED BY <2>1, <3>1 DEF BeginsNow
  <2>3. InFrame' /\ BetweenFrames'
    BY <2>1 DEF InFrame, BetweenFrames
  <2>4. Ahead'
    BY <1>7, <2>2 DEF Ahead
  <2> QED BY <1>6, <1>8, <1>9, <2>3, <2>4 DEF GInv
<1>11. CASE RejectHeader
  <2>1. Kind = "bad" /\ UNCHANGED <<begins, completes, lossInFrame>>
    BY <1>11 DEF RejectHeader, frameVars, Kind
  <2>2. begins /\ completes /\ ~lossInFrame /\ frame = <<>>
    BY <1>5, <2>1
  <2>3. InFrame' /\ Ahead'
    BY <1>3, <2>1, <2>2 DEF InFrame, Ahead
  <2>4. BetweenFrames'
    <3>1. want' = n + 1
      BY <1>1
    <3>2. want' \in Places => Stream[want'] \notin {"middle", "end"}
      BY <1>2, <2>1, <3>1, AfterFrame
    <3> QED BY <3>2 DEF BetweenFrames
  <2> QED BY <1>6, <1>8, <1>9, <2>3, <2>4 DEF GInv
<1> QED BY <1>10, <1>11

\* The head keeps its place if it is the packet expected.
HeadKept ==
  /\ AtWant'
  /\ queue # <<>> /\ queue[1].n = want =>
       queue' # <<>> /\ queue'[1].n = want /\ queue'[1] = queue[1]
  /\ ~seen => FirstExpected'

\* What the network does.
LEMMA ArriveInv ==
  ASSUME GInv, NEW n \in Places, Arrive(n), IInv'
  PROVE  GInv'
<1>1. BufferType /\ queue \in Seq(Packets) /\ Len(queue) \in Nat
  BY TypeParts DEF GInv, IInv, BufferType
<1>2. StorePacket(n) /\ InReach(n) /\ UNCHANGED frameVars
      /\ (pc' = "delivering" <=> pc = "delivering")
  BY DEF Arrive
<1>3. seen' = TRUE /\ (seen => want' = want) /\ (~seen => want' = n)
  BY <1>2 DEF StorePacket
<1>4. n \in Int /\ want \in Int /\ n >= 1
  BY <1>1, QueueInts, StreamType DEF Places
<1>5. Stored(n)
  BY <1>1, <1>2, StoreEffect DEF GInv, IInv
<1>6. ~seen => queue = <<>>
  BY DEF GInv, IInv, Window, Seen
<1>7. HeadKept
  <2>1. CASE queue' = queue /\ seen
    BY <1>3, <2>1 DEF HeadKept, GInv, AtWant
  <2>2. ASSUME NEW k \in 0..Len(queue),
               queue' = Insert(queue, k, NewPacket(n)), want' <= n,
               \A i \in k + 1..Len(queue) : i \in 1..Len(queue) /\ n < queue[i].n
        PROVE  HeadKept
    <3>1. /\ Len(queue') = Len(queue) + 1
          /\ \A i \in 1..Len(queue) + 1 :
               queue'[i] = IF i <= k THEN queue[i]
                           ELSE IF i = k + 1 THEN NewPacket(n) ELSE queue[i - 1]
      BY <1>1, <2>2, InsertNew
    <3>2. NewPacket(n).n = n /\ NewPacket(n).used = 0 /\ (NewPacket(n).first <=> ~seen)
      BY <1>1, NewPacketType DEF BufferType
    <3>3. AtWant'
      <4>1. ASSUME NEW i \in 1..Len(queue'), queue'[i].first \/ queue'[i].used = 1
            PROVE  queue'[i].n = want'
        <5>1. i \in 1..Len(queue) + 1 /\ i \in Nat
          BY <1>1, <3>1
        <5>2. CASE i = k + 1
          <6>1. queue'[i] = NewPacket(n)
            BY <3>1, <5>1, <5>2
          <6> QED BY <1>3, <3>2, <4>1, <6>1
        <5>3. CASE i # k + 1
          <6>1. \E j \in 1..Len(queue) : queue'[i] = queue[j]
            <7>1. CASE i <= k
              BY <1>1, <3>1, <5>1, <7>1
            <7>2. CASE ~(i <= k)
              <8>1. i - 1 \in 1..Len(queue) /\ queue'[i] = queue[i - 1]
                BY <1>1, <3>1, <5>1, <5>3, <7>2
              <8> QED BY <8>1
            <7> QED BY <7>1, <7>2
          <6>2. PICK j \in 1..Len(queue) : queue'[i] = queue[j]
            BY <6>1
          <6>3. queue # <<>>
            BY <1>1, <6>2
          <6>4. want' = want
            BY <1>3, <1>6, <6>3
          <6> QED BY <4>1, <6>2, <6>4 DEF GInv, AtWant
        <5> QED BY <5>2, <5>3
      <4> QED BY <4>1 DEF AtWant
    <3>4. queue' # <<>>
      BY <1>1, <3>1
    <3>5. ASSUME queue # <<>>, queue[1].n = want
          PROVE  queue'[1] = queue[1]
      <4>1. 1 \in 1..Len(queue) /\ 1 \in 1..Len(queue) + 1
        BY <1>1, <3>5
      <4>2. want <= n
        BY <1>3, <1>6, <2>2, <3>5
      <4>3. 1 <= k
        <5>1. ~(1 \in k + 1..Len(queue))
          BY <1>4, <2>2, <3>5, <4>2
        <5> QED BY <1>1, <4>1, <5>1
      <4> QED BY <3>1, <4>1, <4>3
    <3>6. ~seen => FirstExpected'
      <4> SUFFICES ASSUME ~seen PROVE FirstExpected'
        OBVIOUS
      <4>1. Len(queue) = 0
        BY <1>6
      <4>2. k = 0 /\ 1 \in 1..Len(queue) + 1
        BY <4>1
      <4>3. queue'[1] = NewPacket(n)
        BY <3>1, <4>2
      <4> QED BY <1>3, <3>2, <3>4, <4>3 DEF FirstExpected
    <3> QED BY <3>3, <3>4, <3>5, <3>6 DEF HeadKept
  <2> QED BY <1>5, <2>1, <2>2 DEF Stored
<1>8. HeadUsedNow => HeadUsedNow'
  <2> SUFFICES ASSUME HeadUsedNow PROVE HeadUsedNow'
    OBVIOUS
  <2>1. queue # <<>> /\ 1 \in 1..Len(queue) /\ queue[1].used = 1
    BY <1>1 DEF HeadUsedNow
  <2>2. queue[1].n = want
    BY <2>1 DEF GInv, AtWant
  <2> QED BY <1>7, <2>1, <2>2 DEF HeadUsedNow, HeadKept
<1>9. given # <<>> => seen
  BY DEF GInv, NothingYet
<1>10. Behind'
  BY <1>2, <1>3, <1>8, <1>9 DEF GInv, Behind, LastOf, frameVars
<1>11. InFrame'
  <2> SUFFICES ASSUME pc' # "delivering", frame' # <<>>, ~lossInFrame'
               PROVE  \E a \in Places : PrefixFrom(a)'
    BY DEF InFrame
  <2>1. seen /\ want' = want
    BY <1>2, <1>3 DEF frameVars, GInv, NothingYet
  <2>2. PICK a \in Places : PrefixFrom(a)
    BY <1>2 DEF frameVars, GInv, InFrame
  <2>3. PrefixFrom(a)'
    BY <1>2, <2>1, <2>2 DEF PrefixFrom, frameVars, LastOf
  <2> QED BY <2>3
<1>12. BetweenFrames'
  <2>1. CASE seen
    <3>1. FirstExpected => FirstExpected'
      BY <1>3, <1>7, <2>1 DEF FirstExpected, HeadKept
    <3> QED BY <1>2, <1>3, <2>1, <3>1 DEF BetweenFrames, GInv, frameVars
  <2>2. CASE ~seen
    BY <1>7, <2>2 DEF BetweenFrames, HeadKept
  <2> QED BY <2>1, <2>2
<1>13. Ahead'
  <2>1. SpecialAhead' => SpecialAhead
    <3>1. want <= want' /\ want' \in Int
      <4>1. ~seen => want = 0
        BY DEF GInv, NothingYet
      <4> QED BY <1>3, <1>4, <4>1
    <3>2. \A j \in Places : j \in Int
      BY StreamType DEF Places
    <3>3. \A j \in Places : want' <= j => want <= j
      BY <1>4, <3>1, <3>2
    <3> QED BY <3>3 DEF SpecialAhead
  <2> QED BY <1>2, <2>1 DEF Ahead, GInv, frameVars
<1>14. NothingYet'
  BY <1>3 DEF NothingYet
<1> QED BY <1>7, <1>10, <1>11, <1>12, <1>13, <1>14 DEF GInv, HeadKept

LEMMA TickInv ==
  ASSUME GInv, Tick, IInv'
  PROVE  GInv'
<1>1. queue \in Seq(Packets) /\ Aged /\ UNCHANGED <<seen, want, pc, frameVars>>
  BY DEF GInv, IInv, TInv, TypeOK, Tick, Aged
<1>2. /\ Len(queue') = Len(queue) /\ Len(queue) \in Nat /\ queue' \in Seq(Packets)
      /\ \A i \in 1..Len(queue) :
           queue'[i].n = queue[i].n /\ queue'[i].first = queue[i].first
             /\ queue'[i].used = queue[i].used
  BY <1>1, AgedFacts DEF Aged
<1>3. AtWant'
  BY <1>1, <1>2 DEF GInv, AtWant
<1>4. queue # <<>> => queue' # <<>> /\ 1 \in 1..Len(queue)
  BY <1>1, <1>2
<1>5. (HeadUsedNow => HeadUsedNow') /\ (FirstExpected => FirstExpected')
  BY <1>1, <1>2, <1>4 DEF HeadUsedNow, FirstExpected
<1>6. Behind'
  BY <1>1, <1>5 DEF GInv, Behind, LastOf, frameVars
<1>7. InFrame'
  BY <1>1 DEF GInv, InFrame, PrefixFrom, LastOf, frameVars
<1>8. BetweenFrames' /\ Ahead' /\ NothingYet'
  BY <1>1, <1>5 DEF GInv, BetweenFrames, Ahead, SpecialAhead, NothingYet, frameVars
<1> QED BY <1>3, <1>6, <1>7, <1>8 DEF GInv

LEMMA AfterGettingInv ==
  ASSUME GInv, AfterGetting, IInv'
  PROVE  GInv'
<1>1. /\ UNCHANGED <<queue, seen, want, begins, completes, lossInFrame, given>>
      /\ frame' = <<>> /\ pc = "delivering" /\ pc' = "loop"
  BY DEF AfterGetting, bufferVars
<1>2. AtWant' /\ Behind'
  BY <1>1 DEF GInv, AtWant, Behind, LastOf, HeadUsedNow
<1>3. InFrame' /\ BetweenFrames' /\ Ahead' /\ NothingYet'
  BY <1>1 DEF GInv, InFrame, BetweenFrames, FirstExpected, Ahead, SpecialAhead, NothingYet
<1> QED BY <1>2, <1>3 DEF GInv

LEMMA SameInv ==
  ASSUME GInv, NothingReady \/ UNCHANGED vars, IInv'
  PROVE  GInv'
<1>1. /\ UNCHANGED <<queue, seen, want, begins, completes, lossInFrame, given, frame>>
      /\ (pc' = "delivering" <=> pc = "delivering")
  BY DEF NothingReady, vars, bufferVars, frameVars
<1>2. AtWant' /\ Behind'
  BY <1>1 DEF GInv, AtWant, Behind, LastOf, HeadUsedNow
<1>3. InFrame'
  BY <1>1 DEF GInv, InFrame, PrefixFrom, LastOf
<1>4. BetweenFrames' /\ Ahead' /\ NothingYet'
  BY <1>1 DEF GInv, BetweenFrames, FirstExpected, Ahead, SpecialAhead, NothingYet
<1> QED BY <1>2, <1>3, <1>4 DEF GInv

LEMMA GInvStep ==
  ASSUME Orderly, GInv, [Next]_vars
  PROVE  GInv'
<1>1. IInv'
  BY InvStep DEF GInv
<1> QED BY <1>1, ArriveInv, TickInv, SameInv, RejectInv, UseInv, AfterGettingInv DEF Next

LEMMA GiveStep ==
  ASSUME Orderly, GInv, [Next]_vars
  PROVE  [FS!Give]_given
<1>1. CASE UsePiece
  <2> DEFINE n == queue[1].n
             u == queue[1].used
  <2>1. Used(n, u) /\ Moved(n, u) /\ ~Unusable /\ (u = 0 => Kind # "bad")
    BY <1>1, UsedMoves
  <2> HIDE DEF n, u
  <2>2. CompletesNow => FrameNow \in FS!Frames /\ (given = <<>> \/ FS!Precedes(given, FrameNow))
    BY <2>1, UseGives
  <2>3. given' = given \/ (CompletesNow /\ given' = FrameNow)
    BY <1>1 DEF UsePiece
  <2> QED BY <2>2, <2>3 DEF FS!Give
<1>2. CASE ~UsePiece
  <2>1. given' = given
    BY <1>2 DEF Next, Arrive, Tick, NothingReady, RejectHeader, RejectFragment, AfterGetting, vars,
                frameVars
  <2> QED BY <2>1
<1> QED BY <1>1, <1>2

\* The sink is given whole frames in the order of the stream, none of them twice,
\* whatever is lost, overtaken or repeated: for every stream whose aggregation
\* packets, and packets with a bad header, come before its fragments, and every
\* range of numbers and threshold.
THEOREM FramesAreGiven == Orderly => (Spec => GivesFrames)
<1> SUFFICES ASSUME Orderly PROVE Spec => GivesFrames
  OBVIOUS
<1>1. Init => GInv
  BY GInvInit
<1>2. GInv /\ [Next]_vars => GInv'
  BY GInvStep
<1>3. GInv /\ [Next]_vars => [FS!Give]_given
  BY GiveStep
<1>4. Init => FS!Init
  BY DEF Init, FS!Init
<1> QED BY <1>1, <1>2, <1>3, <1>4, PTL DEF Spec, GivesFrames, FS!Spec
=============================================================================
