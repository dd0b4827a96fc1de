------------------------ MODULE TaskSchedulerProofs -------------------------
(***************************************************************************)
(* Proofs about TaskScheduler.  The list of differences is related to the  *)
(* countdowns it stands for by the sums Due; each operation of the list is *)
(* first said in terms of Due, and the theorems use only that.  Induction  *)
(* over the list is by the least counterexample.                           *)
(***************************************************************************)
EXTENDS TaskScheduler, LeastNumbers, TLAPS

USE SocketsAssumption, DelaysAssumption, BoundAssumption

-----------------------------------------------------------------------------
(* The sums *)

Sums(f, q) ==
  f = [i \in 0..Len(q) |-> IF i = 0 THEN 0 ELSE f[i - 1] + q[i].delta]

\* Two functions that add up the same list are equal.
LEMMA SumsUnique ==
  ASSUME NEW q \in Seq(Entries), NEW f, NEW g, Sums(f, q), Sums(g, q)
  PROVE  f = g
<1>1. Len(q) \in Nat
  OBVIOUS
<1> DEFINE n == Len(q)
           Bad == {i \in 0..n : f[i] # g[i]}
<1>2. CASE Bad # {}
  <2>1. PICK x \in Bad : \A y \in 0..n : y < x => y \notin Bad
    BY <1>1, <1>2, FirstFailure
  <2>2. CASE x = 0
    BY <2>1, <2>2 DEF Sums
  <2>3. CASE x # 0
    <3>1. x \in 0..n /\ x - 1 \in 0..n /\ x - 1 < x
      BY <1>1, <2>1, <2>3
    <3>2. f[x - 1] = g[x - 1]
      BY <2>1, <3>1
    <3>3. f[x] = f[x - 1] + q[x].delta /\ g[x] = g[x - 1] + q[x].delta
      BY <2>3, <3>1 DEF Sums
    <3> QED BY <2>1, <3>2, <3>3
  <2> QED BY <2>2, <2>3
<1>3. CASE Bad = {}
  <2>1. \A i \in 0..n : f[i] = g[i]
    BY <1>3
  <2>2. /\ f = [i \in 0..n |-> f[i]]
        /\ g = [i \in 0..n |-> g[i]]
    BY DEF Sums
  <2> QED BY <2>1, <2>2
<1> QED BY <1>2, <1>3

\* Every list has its sums: a longer one extends those of a shorter.
LEMMA SumsExist ==
  ASSUME NEW q \in Seq(Entries)
  PROVE  \E f : Sums(f, q)
<1>1. Len(q) \in Nat
  OBVIOUS
<1> DEFINE n == Len(q)
           Upto(m, f) == f = [i \in 0..m |-> IF i = 0 THEN 0 ELSE f[i - 1] + q[i].delta]
           Bad == {m \in 0..n : ~ \E f : Upto(m, f)}
<1>2. ASSUME Bad # {} PROVE FALSE
  <2>1. PICK m \in Bad : \A y \in 0..n : y < m => y \notin Bad
    BY <1>1, <1>2, FirstFailure
  <2>2. CASE m = 0
    <3> DEFINE z == [i \in 0..0 |-> 0]
    <3>1. Upto(0, z)
      <4>1. \A i \in 0..0 : i = 0
        OBVIOUS
      <4>2. [i \in 0..0 |-> IF i = 0 THEN 0 ELSE z[i - 1] + q[i].delta] = z
        BY <4>1
      <4> QED BY <4>2
    <3> QED BY <2>1, <2>2, <3>1
  <2>3. CASE m # 0
    <3>1. m \in 0..n /\ m - 1 \in 0..n /\ m - 1 < m
      BY <1>1, <2>1, <2>3
    <3>2. PICK f : Upto(m - 1, f)
      BY <2>1, <3>1
    <3> DEFINE g == [i \in 0..m |-> IF i < m THEN f[i] ELSE f[m - 1] + q[m].delta]
    <3>3. \A i \in 0..m : g[i] = IF i = 0 THEN 0 ELSE g[i - 1] + q[i].delta
      <4> TAKE i \in 0..m
      <4>0. \A j \in 0..(m - 1) : f[j] = IF j = 0 THEN 0 ELSE f[j - 1] + q[j].delta
        BY <3>2, ZenonT(30)
      <4>1. CASE i = 0
        BY <2>3, <3>1, <4>0, <4>1
      <4>2. CASE i # 0 /\ i < m
        BY <3>1, <4>0, <4>2
      <4>3. CASE i = m
        BY <2>3, <3>1, <4>3
      <4> QED BY <3>1, <4>1, <4>2, <4>3
    <3>4. Upto(m, g)
      <4> DEFINE h == [i \in 0..m |-> IF i = 0 THEN 0 ELSE g[i - 1] + q[i].delta]
      <4>1. \A i \in 0..m : g[i] = h[i]
        <5> HIDE DEF g
        <5> QED BY <3>3
      <4>2. g = h
        BY <4>1
      <4> QED BY <4>2
    <3> QED BY <2>1, <3>4
  <2> QED BY <2>2, <2>3
<1>3. \E f : Upto(n, f)
  BY <1>1, <1>2
<1> QED BY <1>3 DEF Sums

\* Due is what its recursive definition says, and never decreases.
LEMMA DueSums ==
  ASSUME NEW q \in Seq(Entries)
  PROVE  Sums(Due(q), q)
<1>1. Due(q) = CHOOSE f : Sums(f, q)
  BY DEF Due, Sums
<1> QED BY <1>1, SumsExist

LEMMA DueFacts ==
  ASSUME NEW q \in Seq(Entries)
  PROVE  /\ Due(q) \in [0..Len(q) -> Nat]
         /\ Due(q)[0] = 0
         /\ \A i \in 1..Len(q) : Due(q)[i] = Due(q)[i - 1] + q[i].delta
         /\ \A i, j \in 0..Len(q) : i <= j => Due(q)[i] <= Due(q)[j]
<1> DEFINE n == Len(q)
           D == Due(q)
<1>0. n \in Nat /\ \A i \in 1..n : q[i] \in Entries
  OBVIOUS
<1>1. n \in Nat /\ \A i \in 1..n : q[i].delta \in Nat
  BY <1>0 DEF Entries
<1>2. D = [i \in 0..n |-> IF i = 0 THEN 0 ELSE D[i - 1] + q[i].delta]
  BY DueSums DEF Sums
<1> HIDE DEF D
<1>3. D[0] = 0
  BY <1>1, <1>2
<1>4. \A i \in 1..n : D[i] = D[i - 1] + q[i].delta
  <2> TAKE i \in 1..n
  <2>1. i \in 0..n /\ i # 0
    BY <1>1
  <2> QED BY <1>2, <2>1
<1>5. \A i \in 0..n : D[i] \in Nat
  <2> DEFINE Bad == {i \in 0..n : D[i] \notin Nat}
  <2>1. ASSUME Bad # {} PROVE FALSE
    <3>1. PICK x \in Bad : \A y \in 0..n : y < x => y \notin Bad
      BY <1>1, <2>1, FirstFailure
    <3>2. x # 0 /\ x \in 1..n /\ x - 1 \in 0..n /\ x - 1 < x
      BY <1>1, <1>3, <3>1
    <3>3. D[x - 1] \in Nat
      BY <3>1, <3>2
    <3> QED BY <1>1, <1>4, <3>1, <3>2, <3>3
  <2> QED BY <2>1
<1>6. \A i, j \in 0..n : i <= j => D[i] <= D[j]
  <2> TAKE i \in 0..n
  <2> DEFINE Bad == {j \in 0..n : i <= j /\ ~ (D[i] <= D[j])}
  <2>1. ASSUME Bad # {} PROVE FALSE
    <3>1. PICK x \in Bad : \A y \in 0..n : y < x => y \notin Bad
      BY <1>1, <2>1, FirstFailure
    <3>2. x # i
      BY <1>5, <3>1
    <3>3. x \in 1..n /\ x - 1 \in 0..n /\ x - 1 < x /\ i <= x - 1
      BY <1>1, <3>1, <3>2
    <3>4. D[i] <= D[x - 1]
      BY <3>1, <3>3
    <3>5. D[x] = D[x - 1] + q[x].delta
      BY <1>4, <3>3
    <3>6. q[x].delta \in Nat /\ D[x - 1] \in Nat /\ D[i] \in Nat
      BY <1>1, <1>5, <3>3
    <3>7. ~ (D[i] <= D[x])
      BY <3>1
    <3> HIDE DEF Bad
    <3> QED BY <3>4, <3>5, <3>6, <3>7
  <2> QED BY <2>1
<1>7. D \in [0..n -> Nat]
  BY <1>2, <1>5
<1> QED BY <1>3, <1>4, <1>6, <1>7 DEF D

\* Whatever adds up a list is its Due.
LEMMA DueIs ==
  ASSUME NEW q \in Seq(Entries), NEW f,
         f = [i \in 0..Len(q) |-> f[i]],
         f[0] = 0,
         \A i \in 1..Len(q) : f[i] = f[i - 1] + q[i].delta
  PROVE  Due(q) = f
<1> DEFINE h == [i \in 0..Len(q) |-> IF i = 0 THEN 0 ELSE f[i - 1] + q[i].delta]
<1>1. \A i \in 0..Len(q) : f[i] = h[i]
  <2> TAKE i \in 0..Len(q)
  <2>1. i = 0 \/ i \in 1..Len(q)
    OBVIOUS
  <2> QED BY <2>1
<1>2. f = h
  BY <1>1
<1>3. Sums(f, q)
  BY <1>2 DEF Sums
<1> QED BY <1>3, DueSums, SumsUnique

-----------------------------------------------------------------------------
(* The operations of the list *)

\* The walk goes past the entries that are due within t.
LEMMA WalkFacts ==
  ASSUME NEW q \in Seq(Entries), NEW t \in Nat
  PROVE  /\ Walk(q, t) \in 0..Len(q)
         /\ \A i \in 1..Len(q) : i <= Walk(q, t) <=> Due(q)[i] <= t
<1> DEFINE n == Len(q)
           D == Due(q)
           Stops(k) == /\ \A i \in 1..k : t - D[i - 1] >= q[i].delta
                       /\ k < n => t - D[k] < q[k + 1].delta
           S == {k \in 0..n : k < n => D[k + 1] > t}
<1>0. \A i \in 1..n : q[i] \in Entries
  OBVIOUS
<1>1. /\ n \in Nat /\ \A i \in 1..n : q[i].delta \in Nat
      /\ \A i \in 0..n : D[i] \in Nat
      /\ \A i \in 1..n : D[i] = D[i - 1] + q[i].delta
      /\ \A i, j \in 0..n : i <= j => D[i] <= D[j]
      /\ D[0] = 0
  <2>1. \A i \in 1..n : q[i].delta \in Nat
    BY <1>0 DEF Entries
  <2>2. D \in [0..n -> Nat]
    BY DueFacts
  <2> HIDE DEF D
  <2>3. \A i \in 0..n : D[i] \in Nat
    BY <2>2
  <2> QED BY <2>1, <2>3, DueFacts DEF D
<1> HIDE DEF D
<1>2. \A k \in 0..n : Stops(k) <=> ((k > 0 => D[k] <= t) /\ k \in S)
  <2> TAKE k \in 0..n
  <2>1. (k < n => t - D[k] < q[k + 1].delta) <=> k \in S
    <3>1. k < n => /\ k + 1 \in 1..n /\ D[k + 1] = D[k] + q[k + 1].delta
                   /\ D[k] \in Nat /\ q[k + 1].delta \in Nat
      <4>1. k < n => k + 1 \in 1..n /\ (k + 1) - 1 = k
        BY <1>1
      <4> QED BY <1>1, <4>1
    <3> QED BY <3>1
  <2>2. (\A i \in 1..k : t - D[i - 1] >= q[i].delta) <=> (\A i \in 1..k : D[i] <= t)
    <3>1. \A i \in 1..k : i \in 1..n /\ i - 1 \in 0..n
      BY <1>1
    <3>2. \A i \in 1..k : (t - D[i - 1] >= q[i].delta) <=> (D[i] <= t)
      BY <1>1, <3>1, SMTT(30)
    <3> QED BY <3>2
  <2>3. (\A i \in 1..k : D[i] <= t) <=> (k > 0 => D[k] <= t)
    <3>1. \A i \in 1..k : i \in 0..n /\ D[i] <= D[k] /\ D[i] \in Nat /\ D[k] \in Nat
      BY <1>1
    <3> QED BY <3>1
  <2> QED BY <2>1, <2>2, <2>3
<1>3. \E k \in 0..n : Stops(k)
  <2>1. n \in S
    BY <1>1
  <2>2. PICK k \in S : \A y \in 0..n : y < k => y \notin S
    BY <1>1, <2>1, FirstFailure
  <2>3. k > 0 => D[k] <= t
    <3>1. k > 0 => k - 1 \in 0..n /\ k - 1 < k /\ (k - 1) + 1 = k /\ k \in 0..n
      BY <1>1, <2>2
    <3>2. k > 0 => k - 1 \notin S
      BY <2>2, <3>1
    <3> QED BY <1>1, <3>1, <3>2
  <2> QED BY <1>2, <2>2, <2>3
<1>4. Walk(q, t) = CHOOSE k \in 0..n : Stops(k)
  BY DEF Walk, D
<1> DEFINE w == Walk(q, t)
<1>5. w \in 0..n /\ Stops(w)
  <2> HIDE DEF Stops
  <2> QED BY <1>3, <1>4
<1> HIDE DEF w
<1>6. (w > 0 => D[w] <= t) /\ w \in S
  BY <1>2, <1>5
<1>7. \A i \in 1..n : i <= w <=> D[i] <= t
  <2> TAKE i \in 1..n
  <2>1. i \in 0..n /\ D[i] \in Nat /\ D[w] \in Nat /\ w \in Nat
    BY <1>1, <1>5
  <2>2. i <= w => D[i] <= D[w] /\ w > 0
    BY <1>1, <1>5, <2>1
  <2>3. i > w => w + 1 \in 0..n /\ D[w + 1] <= D[i] /\ w < n /\ D[w + 1] \in Nat
    BY <1>1, <1>5, <2>1
  <2> QED BY <1>6, <2>1, <2>2, <2>3
<1> QED BY <1>5, <1>7 DEF D, w

\* Time that is consumed is taken off every countdown.
LEMMA ConsumedEffect ==
  ASSUME NEW q \in Seq(Entries), NEW t \in Nat
  PROVE  /\ Consumed(q, t) \in Seq(Entries)
         /\ Len(Consumed(q, t)) = Len(q)
         /\ \A i \in 1..Len(q) : /\ Consumed(q, t)[i].token = q[i].token
                                /\ Consumed(q, t)[i].real = q[i].real
                                /\ Due(Consumed(q, t))[i] = Larger(0, Due(q)[i] - t)
<1> DEFINE n == Len(q)
           D == Due(q)
           k == Walk(q, t)
           c == Consumed(q, t)
           d == [i \in 1..n |-> DeltaAfter(q, t, i)]
           f == [i \in 0..n |-> Larger(0, D[i] - t)]
<1>0. \A i \in 1..n : /\ q[i] = [token |-> q[i].token, delta |-> q[i].delta, real |-> q[i].real]
                      /\ q[i].token \in 1..MaxToken /\ q[i].delta \in Nat /\ q[i].real \in Nat
  <2>1. \A i \in 1..n : q[i] \in Entries
    OBVIOUS
  <2> QED BY <2>1 DEF Entries
<1>1. /\ n \in Nat /\ D \in [0..n -> Nat] /\ D[0] = 0
      /\ \A i \in 1..n : D[i] = D[i - 1] + q[i].delta
  BY DueFacts
<1>2. k \in 0..n /\ \A i \in 1..n : i <= k <=> D[i] <= t
  BY WalkFacts
<1>3. \A i \in 1..n : d[i] = IF i <= k THEN 0
                               ELSE q[i].delta - (IF i = k + 1 THEN t - D[k] ELSE 0)
  BY DEF DeltaAfter
<1>4. c = [i \in 1..n |-> [q[i] EXCEPT !.delta = d[i]]]
  BY DEF Consumed
<1> HIDE DEF D, k, c, d
<1>5. \A i \in 1..n : /\ D[i] \in Nat /\ D[i - 1] \in Nat /\ i \in Nat /\ k \in Nat
                      /\ i - 1 \in 0..n /\ i \in 0..n
                      /\ i - 1 > 0 => i - 1 \in 1..n
  BY <1>1, <1>2
<1>6. \A i \in 1..n : D[i] > t /\ D[i - 1] <= t <=> i = k + 1
  <2> TAKE i \in 1..n
  <2>0. /\ D[i] \in Nat /\ D[i - 1] \in Nat /\ i \in Nat /\ k \in Nat /\ i > 0
        /\ i <= k <=> D[i] <= t
        /\ i - 1 > 0 => (i - 1 <= k <=> D[i - 1] <= t)
        /\ i - 1 = 0 => D[i - 1] = 0
    BY <1>1, <1>2, <1>5
  <2> QED BY <2>0
<1>8. \A i \in 1..n : d[i] = Larger(0, D[i] - t) - Larger(0, D[i - 1] - t) /\ d[i] \in Nat
  <2> TAKE i \in 1..n
  <2>0. /\ D[i] \in Nat /\ D[i - 1] \in Nat /\ i \in Nat /\ k \in Nat
        /\ i <= k <=> D[i] <= t
        /\ D[i] > t /\ D[i - 1] <= t <=> i = k + 1
        /\ i = k + 1 => D[k] = D[i - 1]
        /\ d[i] = IF i <= k THEN 0 ELSE q[i].delta - (IF i = k + 1 THEN t - D[k] ELSE 0)
    <3>1. i = k + 1 => k = i - 1
      BY <1>1, <1>5
    <3>2. /\ i <= k <=> D[i] <= t
          /\ D[i] > t /\ D[i - 1] <= t <=> i = k + 1
      BY <1>2, <1>6
    <3>3. D[i] \in Nat /\ D[i - 1] \in Nat /\ i \in Nat /\ k \in Nat
      BY <1>1, <1>5
    <3> QED BY <1>3, <3>1, <3>2, <3>3
  <2>1. D[i] = D[i - 1] + q[i].delta /\ q[i].delta \in Nat
    BY <1>0, <1>1
  <2>2. CASE D[i] <= t
    <3>1. d[i] = 0
      BY <2>0, <2>2
    <3>2. Larger(0, D[i] - t) = 0 /\ Larger(0, D[i - 1] - t) = 0
      BY <2>0, <2>1, <2>2 DEF Larger
    <3> QED BY <3>1, <3>2
  <2>3. CASE D[i] > t /\ D[i - 1] <= t
    <3>1. d[i] = q[i].delta - (t - D[i - 1])
      BY <2>0, <2>1, <2>3
    <3>2. Larger(0, D[i] - t) = D[i] - t /\ Larger(0, D[i - 1] - t) = 0
      BY <2>0, <2>1, <2>3 DEF Larger
    <3> QED BY <2>0, <2>1, <2>3, <3>1, <3>2, SMTT(30)
  <2>4. CASE D[i] > t /\ D[i - 1] > t
    <3>1. d[i] = q[i].delta
      BY <2>0, <2>1, <2>4
    <3>2. Larger(0, D[i] - t) = D[i] - t /\ Larger(0, D[i - 1] - t) = D[i - 1] - t
      BY <2>0, <2>1, <2>4 DEF Larger
    <3> QED BY <2>0, <2>1, <2>4, <3>1, <3>2, SMTT(30)
  <2> QED BY <2>0, <2>2, <2>3, <2>4
<1>9. \A i \in 1..n : c[i] = [token |-> q[i].token, delta |-> d[i], real |-> q[i].real]
  <2> TAKE i \in 1..n
  <2>1. c[i] = [q[i] EXCEPT !.delta = d[i]]
    BY <1>4
  <2> QED BY <1>0, <2>1
<1>10. c \in Seq(Entries) /\ Len(c) = n
  <2>1. \A i \in 1..n : c[i] \in Entries
    <3> TAKE i \in 1..n
    <3>1. q[i].token \in 1..MaxToken /\ q[i].real \in Nat /\ d[i] \in Nat
      BY <1>0, <1>8
    <3>2. c[i] = [token |-> q[i].token, delta |-> d[i], real |-> q[i].real]
      BY <1>9
    <3> QED BY <3>1, <3>2 DEF Entries
  <2>2. c \in [1..n -> Entries]
    BY <1>4, <2>1
  <2> QED BY <1>1, <2>2
<1>11. \A i \in 0..n : f[i] = Larger(0, D[i] - t)
  OBVIOUS
<1>12. f = [i \in 0..n |-> f[i]] /\ f[0] = 0
  BY <1>1 DEF Larger
<1> HIDE DEF f
<1>13. \A i \in 1..n : f[i] = f[i - 1] + c[i].delta
  <2> TAKE i \in 1..n
  <2>1. f[i] = Larger(0, D[i] - t) /\ f[i - 1] = Larger(0, D[i - 1] - t)
    BY <1>5, <1>11
  <2>2. c[i].delta = d[i]
    <3>1. c[i] = [token |-> q[i].token, delta |-> d[i], real |-> q[i].real]
      BY <1>9
    <3> QED BY <3>1
  <2>3. Larger(0, D[i] - t) \in Nat /\ Larger(0, D[i - 1] - t) \in Nat
    BY <1>1, <1>5 DEF Larger
  <2> QED BY <1>8, <2>1, <2>2, <2>3
<1>14. Due(c) = f
  BY <1>10, <1>12, <1>13, DueIs
<1>15. \A i \in 1..n : c[i].token = q[i].token /\ c[i].real = q[i].real /\ Due(c)[i] = Larger(0, D[i] - t)
  <2> TAKE i \in 1..n
  <2>1. c[i] = [token |-> q[i].token, delta |-> d[i], real |-> q[i].real]
    BY <1>9
  <2>2. c[i].token = q[i].token /\ c[i].real = q[i].real
    BY <2>1
  <2>3. i \in 0..n
    BY <1>1
  <2> QED BY <1>11, <1>14, <2>2, <2>3
<1> QED BY <1>10, <1>15 DEF D, c

\* An entry is itself, field by field.
LEMMA EntryFields ==
  ASSUME NEW q \in Seq(Entries)
  PROVE  /\ Len(q) \in Nat
         /\ q = [i \in 1..Len(q) |-> q[i]]
         /\ \A i \in 1..Len(q) :
              /\ q[i] = [token |-> q[i].token, delta |-> q[i].delta, real |-> q[i].real]
              /\ q[i].token \in 1..MaxToken
              /\ q[i].delta \in Nat
              /\ q[i].real \in Nat
<1>1. \A i \in 1..Len(q) : q[i] \in Entries
  OBVIOUS
<1>2. Len(q) \in Nat /\ q = [i \in 1..Len(q) |-> q[i]]
  OBVIOUS
<1> QED BY <1>1, <1>2 DEF Entries

\* p is q with a task t of the delay w after the first k entries.
IsInserted(p, q, t, w, k) ==
  /\ p \in Seq(Entries)
  /\ Len(p) = Len(q) + 1
  /\ k \in 0..Len(q)
  /\ \A i \in 1..Len(q) : i <= k <=> Due(q)[i] <= w
  /\ \A i \in 1..Len(q) + 1 :
       /\ p[i].token = IF i <= k THEN q[i].token ELSE IF i = k + 1 THEN t ELSE q[i - 1].token
       /\ p[i].real = IF i <= k THEN q[i].real ELSE IF i = k + 1 THEN w ELSE q[i - 1].real
       /\ Due(p)[i] = IF i <= k THEN Due(q)[i] ELSE IF i = k + 1 THEN w ELSE Due(q)[i - 1]

\* A new entry leaves every countdown as it was and gets its own delay.
LEMMA InsertedEffect ==
  ASSUME NEW q \in Seq(Entries), NEW t \in 1..MaxToken, NEW w \in Nat
  PROVE  IsInserted(Inserted(q, t, w), q, t, w, Walk(q, w))
<1> DEFINE n == Len(q)
           D == Due(q)
           k == Walk(q, w)
           c == Inserted(q, t, w)
           d == [i \in 1..n + 1 |-> IF i <= k THEN q[i].delta
                                   ELSE IF i = k + 1 THEN w - D[k]
                                   ELSE IF i = k + 2 THEN q[i - 1].delta - (w - D[k])
                                   ELSE q[i - 1].delta]
           g == [i \in 1..n + 1 |-> IF i <= k THEN q[i].token
                                   ELSE IF i = k + 1 THEN t ELSE q[i - 1].token]
           r == [i \in 1..n + 1 |-> IF i <= k THEN q[i].real
                                   ELSE IF i = k + 1 THEN w ELSE q[i - 1].real]
           f == [i \in 0..n + 1 |-> IF i <= k THEN D[i] ELSE IF i = k + 1 THEN w ELSE D[i - 1]]
<1>0. \A i \in 1..n : /\ q[i] = [token |-> q[i].token, delta |-> q[i].delta, real |-> q[i].real]
                      /\ q[i].token \in 1..MaxToken /\ q[i].delta \in Nat /\ q[i].real \in Nat
  BY EntryFields
<1>1. /\ n \in Nat /\ D \in [0..n -> Nat] /\ D[0] = 0
      /\ \A i \in 1..n : D[i] = D[i - 1] + q[i].delta
  BY DueFacts
<1>2. k \in 0..n /\ \A i \in 1..n : i <= k <=> D[i] <= w
  BY WalkFacts
<1>3. D[k] \in Nat /\ D[k] <= w /\ k \in Nat
  <2> HIDE DEF D
  <2>1. k = 0 \/ k \in 1..n
    BY <1>1, <1>2
  <2> QED BY <1>1, <1>2, <2>1
<1>4. c = [i \in 1..n + 1 |-> IF i <= k THEN q[i]
             ELSE IF i = k + 1 THEN [token |-> t, delta |-> w - D[k], real |-> w]
             ELSE [q[i - 1] EXCEPT !.delta = @ - (IF i = k + 2 THEN w - D[k] ELSE 0)]]
  BY DEF Inserted
<1> HIDE DEF D, c, k
<1>5. \A i \in 1..n + 1 : c[i] = [token |-> g[i], delta |-> d[i], real |-> r[i]]
  <2> TAKE i \in 1..n + 1
  <2>1. CASE i <= k
    <3>1. i \in 1..n
      BY <1>1, <1>2, <2>1
    <3>2. c[i] = q[i] /\ g[i] = q[i].token /\ d[i] = q[i].delta /\ r[i] = q[i].real
      BY <1>4, <2>1
    <3> QED BY <1>0, <3>1, <3>2
  <2>2. CASE i = k + 1
    <3>1. ~ (i <= k)
      BY <1>3, <2>2
    <3>2. /\ c[i] = [token |-> t, delta |-> w - D[k], real |-> w]
          /\ g[i] = t /\ d[i] = w - D[k] /\ r[i] = w
      BY <1>4, <2>2, <3>1
    <3> QED BY <3>2
  <2>3. CASE i > k + 1
    <3>1. ~ (i <= k) /\ i # k + 1 /\ i - 1 \in 1..n
      BY <1>1, <1>3, <2>3
    <3> DEFINE e == IF i = k + 2 THEN w - D[k] ELSE 0
    <3>2. c[i] = [q[i - 1] EXCEPT !.delta = @ - e]
      BY <1>4, <3>1
    <3>3. c[i] = [token |-> q[i - 1].token, delta |-> q[i - 1].delta - e, real |-> q[i - 1].real]
      <4> HIDE DEF e
      <4> QED BY <1>0, <3>1, <3>2
    <3>4. d[i] = q[i - 1].delta - e
      <4>1. q[i - 1].delta \in Nat
        BY <1>0, <3>1
      <4>2. d[i] = IF i = k + 2 THEN q[i - 1].delta - (w - D[k]) ELSE q[i - 1].delta
        BY <3>1
      <4> HIDE DEF d
      <4> QED BY <4>1, <4>2
    <3>5. g[i] = q[i - 1].token /\ r[i] = q[i - 1].real
      BY <3>1
    <3> QED BY <3>3, <3>4, <3>5
  <2> QED BY <1>1, <1>3, <2>1, <2>2, <2>3
<1>6. \A i \in 1..n + 1 : /\ d[i] \in Nat /\ g[i] \in 1..MaxToken /\ r[i] \in Nat
                          /\ f[i] = f[i - 1] + d[i]
  <2> TAKE i \in 1..n + 1
  <2>0. i \in 0..n + 1 /\ i - 1 \in 0..n + 1 /\ i \in Nat
    BY <1>1
  <2>1. CASE i <= k
    <3>1. i \in 1..n /\ i - 1 <= k /\ i - 1 \in 0..n
      BY <1>1, <1>2, <2>1
    <3>2. d[i] = q[i].delta /\ g[i] = q[i].token /\ r[i] = q[i].real
      BY <2>1
    <3>3. f[i] = D[i] /\ f[i - 1] = D[i - 1]
      BY <2>0, <2>1, <3>1
    <3> QED BY <1>0, <1>1, <3>1, <3>2, <3>3
  <2>2. CASE i = k + 1
    <3>1. ~ (i <= k) /\ i - 1 = k
      BY <1>3, <2>2
    <3>2. d[i] = w - D[k] /\ g[i] = t /\ r[i] = w
      BY <2>2, <3>1
    <3>3. f[i] = w /\ f[i - 1] = D[k]
      BY <1>3, <2>0, <2>2, <3>1
    <3> HIDE DEF d, g, r, f
    <3> QED BY <1>3, <3>2, <3>3
  <2>3. CASE i = k + 2
    <3>1. ~ (i <= k) /\ i # k + 1 /\ i - 1 = k + 1 /\ ~ (i - 1 <= k) /\ i - 1 \in 1..n
      BY <1>1, <1>3, <2>3
    <3>2. d[i] = q[i - 1].delta - (w - D[k]) /\ g[i] = q[i - 1].token /\ r[i] = q[i - 1].real
      BY <2>3, <3>1
    <3>3. f[i] = D[i - 1] /\ f[i - 1] = w
      BY <2>0, <3>1
    <3>4. D[i - 1] = D[k] + q[i - 1].delta
      <4>1. (i - 1) - 1 = k
        BY <1>3, <3>1
      <4> QED BY <1>1, <3>1, <4>1
    <3>5. D[i - 1] \in Nat /\ D[i - 1] > w
      <4>1. D[i - 1] \in Nat
        BY <1>1, <3>1
      <4>2. ~ (D[i - 1] <= w)
        BY <1>2, <3>1
      <4> QED BY <4>1, <4>2
    <3>6. q[i - 1].token \in 1..MaxToken /\ q[i - 1].delta \in Nat /\ q[i - 1].real \in Nat
      BY <1>0, <3>1
    <3> HIDE DEF d, g, r, f, k
    <3>7. d[i] \in Nat /\ f[i] = f[i - 1] + d[i]
      <4>1. d[i] = D[i - 1] - w
        BY <1>3, <3>2, <3>4, <3>6, SMTT(30)
      <4> QED BY <3>3, <3>5, <4>1
    <3> QED BY <3>2, <3>6, <3>7
  <2>4. CASE i > k + 2
    <3>1. ~ (i <= k) /\ i # k + 1 /\ i # k + 2 /\ i - 1 \in 1..n /\ ~ (i - 1 <= k) /\ i - 1 # k + 1
      BY <1>1, <1>3, <2>4
    <3>2. d[i] = q[i - 1].delta /\ g[i] = q[i - 1].token /\ r[i] = q[i - 1].real
      BY <3>1
    <3>3. f[i] = D[i - 1] /\ f[i - 1] = D[(i - 1) - 1]
      BY <2>0, <3>1
    <3> QED BY <1>0, <1>1, <3>1, <3>2, <3>3
  <2> QED BY <1>1, <1>3, <2>1, <2>2, <2>3, <2>4
<1>7. f = [i \in 0..n + 1 |-> f[i]] /\ f[0] = 0
  BY <1>1, <1>3
<1>8. \A i \in 1..n + 1 : f[i] = IF i <= k THEN D[i] ELSE IF i = k + 1 THEN w ELSE D[i - 1]
  BY <1>1
<1>9. \A i \in 1..n + 1 :
        /\ g[i] = IF i <= k THEN q[i].token ELSE IF i = k + 1 THEN t ELSE q[i - 1].token
        /\ r[i] = IF i <= k THEN q[i].real ELSE IF i = k + 1 THEN w ELSE q[i - 1].real
  OBVIOUS
<1> HIDE DEF d, g, r, f
<1>10. c \in Seq(Entries) /\ Len(c) = n + 1
  <2>1. \A i \in 1..n + 1 : c[i] \in Entries
    <3> TAKE i \in 1..n + 1
    <3>1. c[i] = [token |-> g[i], delta |-> d[i], real |-> r[i]]
      BY <1>5
    <3>2. d[i] \in Nat /\ g[i] \in 1..MaxToken /\ r[i] \in Nat
      BY <1>6
    <3> QED BY <3>1, <3>2 DEF Entries
  <2>2. c \in [1..n + 1 -> Entries]
    BY <1>4, <2>1
  <2> QED BY <1>1, <2>2
<1>11. \A i \in 1..n + 1 : c[i].token = g[i] /\ c[i].delta = d[i] /\ c[i].real = r[i]
  <2> TAKE i \in 1..n + 1
  <2>1. c[i] = [token |-> g[i], delta |-> d[i], real |-> r[i]]
    BY <1>5
  <2> QED BY <2>1
<1>12. Due(c) = f
  <2>1. \A i \in 1..Len(c) : f[i] = f[i - 1] + c[i].delta
    BY <1>6, <1>10, <1>11
  <2> QED BY <1>7, <1>10, <2>1, DueIs
<1> QED BY <1>2, <1>8, <1>9, <1>10, <1>11, <1>12 DEF D, c, k, IsInserted

\* Removing an entry leaves the countdowns of the others as they were.
LEMMA RemovedEffect ==
  ASSUME NEW q \in Seq(Entries), NEW j \in 1..Len(q)
  PROVE  /\ Removed(q, j) \in Seq(Entries)
         /\ Len(Removed(q, j)) = Len(q) - 1
         /\ \A i \in 1..Len(q) - 1 :
              /\ Removed(q, j)[i].token = IF i < j THEN q[i].token ELSE q[i + 1].token
              /\ Removed(q, j)[i].real = IF i < j THEN q[i].real ELSE q[i + 1].real
              /\ Due(Removed(q, j))[i] = IF i < j THEN Due(q)[i] ELSE Due(q)[i + 1]
<1> DEFINE n == Len(q)
           D == Due(q)
           c == Removed(q, j)
           d == [i \in 1..n - 1 |-> IF i < j THEN q[i].delta
                                   ELSE IF i = j THEN q[i + 1].delta + q[j].delta
                                   ELSE q[i + 1].delta]
           g == [i \in 1..n - 1 |-> IF i < j THEN q[i].token ELSE q[i + 1].token]
           r == [i \in 1..n - 1 |-> IF i < j THEN q[i].real ELSE q[i + 1].real]
           f == [i \in 0..n - 1 |-> IF i < j THEN D[i] ELSE D[i + 1]]
<1>0. \A i \in 1..n : /\ q[i] = [token |-> q[i].token, delta |-> q[i].delta, real |-> q[i].real]
                      /\ q[i].token \in 1..MaxToken /\ q[i].delta \in Nat /\ q[i].real \in Nat
  BY EntryFields
<1>1. /\ n \in Nat /\ D \in [0..n -> Nat] /\ D[0] = 0
      /\ \A i \in 1..n : D[i] = D[i - 1] + q[i].delta
  BY DueFacts
<1>2. j \in 1..n /\ j \in Nat /\ n - 1 \in Nat
  BY <1>1
<1>4. c = [i \in 1..n - 1 |-> IF i < j THEN q[i]
             ELSE [q[i + 1] EXCEPT !.delta = @ + (IF i = j THEN q[j].delta ELSE 0)]]
  BY DEF Removed
<1> HIDE DEF D, c
<1>5. \A i \in 1..n - 1 : c[i] = [token |-> g[i], delta |-> d[i], real |-> r[i]]
  <2> TAKE i \in 1..n - 1
  <2>0. i \in 1..n /\ i + 1 \in 1..n /\ i \in Nat
    BY <1>1
  <2>1. CASE i < j
    <3>2. c[i] = q[i] /\ g[i] = q[i].token /\ d[i] = q[i].delta /\ r[i] = q[i].real
      BY <1>4, <2>1
    <3> QED BY <1>0, <2>0, <3>2
  <2>3. CASE ~ (i < j)
    <3> DEFINE e == IF i = j THEN q[j].delta ELSE 0
    <3>2. c[i] = [q[i + 1] EXCEPT !.delta = @ + e]
      BY <1>4, <2>3
    <3>3. c[i] = [token |-> q[i + 1].token, delta |-> q[i + 1].delta + e, real |-> q[i + 1].real]
      <4> HIDE DEF e
      <4> QED BY <1>0, <2>0, <3>2
    <3>4. d[i] = q[i + 1].delta + e
      <4>1. q[i + 1].delta \in Nat
        BY <1>0, <2>0
      <4>2. d[i] = IF i = j THEN q[i + 1].delta + q[j].delta ELSE q[i + 1].delta
        BY <2>3
      <4> HIDE DEF d
      <4> QED BY <4>1, <4>2
    <3>5. g[i] = q[i + 1].token /\ r[i] = q[i + 1].real
      BY <2>3
    <3> QED BY <3>3, <3>4, <3>5
  <2> QED BY <2>1, <2>3
<1>6. \A i \in 1..n - 1 : /\ d[i] \in Nat /\ g[i] \in 1..MaxToken /\ r[i] \in Nat
                          /\ f[i] = f[i - 1] + d[i]
  <2> TAKE i \in 1..n - 1
  <2>0. /\ i \in 0..n - 1 /\ i - 1 \in 0..n - 1 /\ i \in Nat
        /\ i \in 1..n /\ i + 1 \in 1..n /\ (i + 1) - 1 = i /\ (i - 1) + 1 = i
    BY <1>1
  <2>1. CASE i < j
    <3>1. i - 1 < j
      BY <1>2, <2>0, <2>1
    <3>2. d[i] = q[i].delta /\ g[i] = q[i].token /\ r[i] = q[i].real
      BY <2>1
    <3>3. f[i] = D[i] /\ f[i - 1] = D[i - 1]
      BY <2>0, <2>1, <3>1
    <3> HIDE DEF d, g, r, f
    <3> QED BY <1>0, <1>1, <2>0, <3>2, <3>3
  <2>2. CASE i = j
    <3>1. ~ (i < j) /\ i - 1 < j
      BY <1>2, <2>0, <2>2
    <3>2. d[i] = q[i + 1].delta + q[i].delta /\ g[i] = q[i + 1].token /\ r[i] = q[i + 1].real
      BY <2>2, <3>1
    <3>3. f[i] = D[i + 1] /\ f[i - 1] = D[i - 1]
      BY <2>0, <3>1
    <3>4. D[i + 1] = D[i] + q[i + 1].delta /\ D[i] = D[i - 1] + q[i].delta
      BY <1>1, <2>0
    <3>5. q[i + 1].delta \in Nat /\ q[i + 1].token \in 1..MaxToken /\ q[i + 1].real \in Nat
      BY <1>0, <2>0
    <3>6. D[i - 1] \in Nat /\ q[i].delta \in Nat
      <4>1. i \in 0..n /\ i - 1 \in 0..n
        BY <1>1, <2>0
      <4>2. D[i - 1] \in Nat
        BY <1>1, <4>1
      <4> QED BY <1>0, <2>0, <4>2
    <3> HIDE DEF d, g, r, f
    <3>7. d[i] \in Nat /\ g[i] \in 1..MaxToken /\ r[i] \in Nat
      BY <3>2, <3>5, <3>6, SMTT(30)
    <3>8. f[i] = f[i - 1] + d[i]
      <4>1. D[i + 1] = (D[i - 1] + q[i].delta) + q[i + 1].delta
        BY <3>4
      <4>2. f[i - 1] + d[i] = D[i - 1] + (q[i + 1].delta + q[i].delta)
        BY <3>2, <3>3
      <4> QED BY <3>3, <3>5, <3>6, <4>1, <4>2, SMTT(30)
    <3> QED BY <3>7, <3>8
  <2>3. CASE i > j
    <3>1. ~ (i < j) /\ ~ (i - 1 < j) /\ i # j
      BY <1>2, <2>0, <2>3
    <3>2. d[i] = q[i + 1].delta /\ g[i] = q[i + 1].token /\ r[i] = q[i + 1].real
      BY <3>1
    <3>3. f[i] = D[i + 1] /\ f[i - 1] = D[i]
      BY <2>0, <3>1
    <3>4. D[i + 1] = D[i] + q[i + 1].delta
      BY <1>1, <2>0
    <3>5. q[i + 1].delta \in Nat /\ q[i + 1].token \in 1..MaxToken /\ q[i + 1].real \in Nat
      BY <1>0, <2>0
    <3>6. D[i] \in Nat
      <4>1. i \in 0..n /\ i - 1 \in 0..n
        BY <1>1, <2>0
      <4>2. D[i] \in Nat
        BY <1>1, <4>1
      <4> QED BY <1>0, <2>0, <4>2
    <3> HIDE DEF d, g, r, f
    <3> QED BY <3>2, <3>3, <3>4, <3>5, <3>6
  <2> QED BY <1>2, <2>0, <2>1, <2>2, <2>3
<1>7. f = [i \in 0..n - 1 |-> f[i]] /\ f[0] = 0
  BY <1>1, <1>2
<1>8. \A i \in 1..n - 1 : f[i] = IF i < j THEN D[i] ELSE D[i + 1]
  BY <1>1
<1>9. \A i \in 1..n - 1 : /\ g[i] = IF i < j THEN q[i].token ELSE q[i + 1].token
                          /\ r[i] = IF i < j THEN q[i].real ELSE q[i + 1].real
  OBVIOUS
<1> HIDE DEF d, g, r, f
<1>10. c \in Seq(Entries) /\ Len(c) = n - 1
  <2>1. \A i \in 1..n - 1 : c[i] \in Entries
    <3> TAKE i \in 1..n - 1
    <3>1. c[i] = [token |-> g[i], delta |-> d[i], real |-> r[i]]
      BY <1>5
    <3>2. d[i] \in Nat /\ g[i] \in 1..MaxToken /\ r[i] \in Nat
      BY <1>6
    <3> QED BY <3>1, <3>2 DEF Entries
  <2>2. c \in [1..n - 1 -> Entries]
    BY <1>4, <2>1
  <2> QED BY <1>2, <2>2
<1>11. \A i \in 1..n - 1 : c[i].token = g[i] /\ c[i].delta = d[i] /\ c[i].real = r[i]
  <2> TAKE i \in 1..n - 1
  <2>1. c[i] = [token |-> g[i], delta |-> d[i], real |-> r[i]]
    BY <1>5
  <2> QED BY <2>1
<1>12. Due(c) = f
  <2>1. \A i \in 1..Len(c) : f[i] = f[i - 1] + c[i].delta
    BY <1>6, <1>10, <1>11
  <2> QED BY <1>7, <1>10, <2>1, DueIs
<1> QED BY <1>8, <1>9, <1>10, <1>11, <1>12 DEF D, c

-----------------------------------------------------------------------------
(* Looking at the clock *)

\* The time that synchronize counts.
Counts == IF lag < 0 THEN 0 ELSE lag

LEMMA SynchronizedEffect ==
  ASSUME TypeOK
  PROVE  /\ Counts \in Nat /\ Counts \in 0..MaxLag /\ Counts = Larger(0, lag)
         /\ Synchronized \in Seq(Entries)
         /\ Len(Synchronized) = Len(queue)
         /\ \A i \in 1..Len(queue) :
              /\ Synchronized[i].token = queue[i].token
              /\ Synchronized[i].real = queue[i].real
              /\ Due(Synchronized)[i] = Larger(0, Due(queue)[i] - Counts)
<1>1. queue \in Seq(Entries) /\ lag \in Int /\ lag <= MaxLag
  BY DEF TypeOK
<1>2. CASE lag < 0
  <2>1. Synchronized = queue /\ Counts = 0
    BY <1>2 DEF Synchronized, Counts
  <2>2. Due(queue) \in [0..Len(queue) -> Nat] /\ Len(queue) \in Nat
    BY <1>1, DueFacts
  <2>3. \A i \in 1..Len(queue) : Due(queue)[i] = Larger(0, Due(queue)[i] - 0)
    <3> TAKE i \in 1..Len(queue)
    <3>1. Due(queue)[i] \in Nat
      BY <2>2
    <3> QED BY <3>1 DEF Larger
  <2> QED BY <1>1, <1>2, <2>1, <2>3 DEF Larger
<1>3. CASE ~ (lag < 0)
  <2>1. Synchronized = Consumed(queue, lag) /\ Counts = lag /\ lag \in Nat
    BY <1>1, <1>3 DEF Synchronized, Counts
  <2> QED BY <1>1, <2>1, ConsumedEffect DEF Larger
<1> QED BY <1>2, <1>3

\* What timeToNextAlarm and handleAlarm count.
LookCounts == IF HeadIsDue(queue) THEN 0 ELSE Counts

LEMMA LookEffect ==
  ASSUME TypeOK
  PROVE  /\ LookCounts \in 0..MaxLag
         /\ Look \in Seq(Entries)
         /\ Len(Look) = Len(queue)
         /\ \A i \in 1..Len(queue) : /\ Look[i].token = queue[i].token
                                    /\ Look[i].real = queue[i].real
                                    /\ Due(Look)[i] = Larger(0, Due(queue)[i] - LookCounts)
<1>1. queue \in Seq(Entries)
  BY DEF TypeOK
<1>2. CASE HeadIsDue(queue)
  <2>1. Look = queue /\ LookCounts = 0
    BY <1>2 DEF Look, LookCounts
  <2>2. Due(queue) \in [0..Len(queue) -> Nat] /\ Len(queue) \in Nat
    BY <1>1, DueFacts
  <2>3. \A i \in 1..Len(queue) : Due(queue)[i] = Larger(0, Due(queue)[i] - 0)
    <3> TAKE i \in 1..Len(queue)
    <3>1. Due(queue)[i] \in Nat
      BY <2>2
    <3> QED BY <3>1 DEF Larger
  <2> QED BY <1>1, <2>1, <2>3
<1>3. CASE ~ HeadIsDue(queue)
  BY <1>3, SynchronizedEffect DEF Look, LookCounts
<1> QED BY <1>2, <1>3

\* A list whose head is due is not empty, and no time is left of its head.
LEMMA HeadFacts ==
  ASSUME NEW q \in Seq(Entries), HeadIsDue(q)
  PROVE  1 \in 1..Len(q) /\ Due(q)[1] = 0
<1>1. Len(q) \in Nat /\ 1 \in 1..Len(q) /\ q[1].delta = 0
  BY DEF HeadIsDue
<1>2. Due(q)[1] = Due(q)[1 - 1] + q[1].delta /\ Due(q)[0] = 0
  BY <1>1, DueFacts
<1> QED BY <1>1, <1>2

\* The deltas alone make the sums.
LEMMA SameDeltas ==
  ASSUME NEW p \in Seq(Entries), NEW q \in Seq(Entries), Len(p) = Len(q),
         \A i \in 1..Len(q) : p[i].delta = q[i].delta
  PROVE  Due(p) = Due(q)
<1>1. /\ Due(p) \in [0..Len(q) -> Nat] /\ Due(p)[0] = 0
      /\ \A i \in 1..Len(q) : Due(p)[i] = Due(p)[i - 1] + q[i].delta
  BY DueFacts
<1>2. Due(p) = [i \in 0..Len(q) |-> Due(p)[i]]
  BY <1>1
<1> DEFINE f == Due(p)
<1> HIDE DEF f
<1>3. Due(q) = f
  BY <1>1, <1>2, DueIs DEF f
<1> QED BY <1>3 DEF f

\* Time that passes shortens the real delays and no difference.
LEMMA TickEffect ==
  ASSUME TypeOK, Tick
  PROVE  /\ queue' \in Seq(Entries) /\ Len(queue') = Len(queue)
         /\ \A i \in 1..Len(queue) : /\ queue'[i].token = queue[i].token
                                    /\ queue'[i].delta = queue[i].delta
                                    /\ queue'[i].real = Larger(0, queue[i].real - 1)
<1>1. /\ Len(queue) \in Nat
      /\ \A i \in 1..Len(queue) :
           /\ queue[i] = [token |-> queue[i].token, delta |-> queue[i].delta, real |-> queue[i].real]
           /\ queue[i].token \in 1..MaxToken /\ queue[i].delta \in Nat /\ queue[i].real \in Nat
  BY EntryFields DEF TypeOK
<1>2. queue' = [i \in 1..Len(queue) |-> [queue[i] EXCEPT !.real = Larger(0, @ - 1)]]
  BY DEF Tick, TypeOK
<1>3. \A i \in 1..Len(queue) : queue'[i] = [token |-> queue[i].token, delta |-> queue[i].delta,
                                           real |-> Larger(0, queue[i].real - 1)]
  <2> TAKE i \in 1..Len(queue)
  <2>1. queue'[i] = [queue[i] EXCEPT !.real = Larger(0, @ - 1)]
    BY <1>2
  <2> QED BY <1>1, <2>1
<1>4. \A i \in 1..Len(queue) : /\ queue'[i].token = queue[i].token
                               /\ queue'[i].delta = queue[i].delta
                               /\ queue'[i].real = Larger(0, queue[i].real - 1)
                               /\ queue'[i] \in Entries
  <2> TAKE i \in 1..Len(queue)
  <2>1. Larger(0, queue[i].real - 1) \in Nat
    <3>1. queue[i].real \in Nat
      BY <1>1
    <3> QED BY <3>1 DEF Larger
  <2>2. queue[i].token \in 1..MaxToken /\ queue[i].delta \in Nat
    BY <1>1
  <2>3. queue'[i] = [token |-> queue[i].token, delta |-> queue[i].delta,
                     real |-> Larger(0, queue[i].real - 1)]
    BY <1>3
  <2> QED BY <2>1, <2>2, <2>3 DEF Entries
<1>5. queue' \in [1..Len(queue) -> Entries]
  BY <1>2, <1>4
<1>6. queue' \in Seq(Entries) /\ Len(queue') = Len(queue)
  BY <1>1, <1>5
<1> QED BY <1>4, <1>6

\* The first of a set of places is one of them.
LEMMA FirstPlaceIn ==
  ASSUME TypeOK, ReadyPlaces # {}
  PROVE  NextPlace \in ReadyPlaces
<1>1. \A P \in SUBSET DOMAIN handlers : P # {} => FirstOf(P) \in P
  <2> SUFFICES ASSUME NEW P \in SUBSET DOMAIN handlers, P # {} PROVE FirstOf(P) \in P
    OBVIOUS
  <2>1. P \in SUBSET Nat
    BY DEF TypeOK
  <2>2. \E i \in P : \A j \in P : i <= j
    BY <2>1, LeastNat
  <2> QED BY <2>2 DEF FirstOf
<1> DEFINE later == {i \in ReadyPlaces : i > LastPlace}
<1>2. ReadyPlaces \in SUBSET DOMAIN handlers /\ later \in SUBSET DOMAIN handlers
  BY DEF ReadyPlaces
<1>3. NextPlace = IF later # {} THEN FirstOf(later) ELSE FirstOf(ReadyPlaces)
  BY DEF NextPlace
<1>4. later \subseteq ReadyPlaces
  OBVIOUS
<1> HIDE DEF later
<1> QED BY <1>1, <1>2, <1>3, <1>4

-----------------------------------------------------------------------------
(* Type correctness *)

\* The type invariant: no difference is ever negative, the tokens are those
\* given out, each event and its handler stay within the sets of the code.
THEOREM TypeCorrect == Spec => []TypeOK
<1>1. Init => TypeOK
  BY DEF Init, TypeOK, NoTask
<1>2. TypeOK /\ [Next]_vars => TypeOK'
  <2> SUFFICES ASSUME TypeOK, [Next]_vars PROVE TypeOK'
    OBVIOUS
  <2>0. /\ Look \in Seq(Entries) /\ Synchronized \in Seq(Entries)
        /\ LagAfterLook \in Int /\ LagAfterLook <= MaxLag
    BY LookEffect, SynchronizedEffect DEF TypeOK, LagAfterLook
  <2>1. ASSUME NEW d \in Delays, ScheduleDelayedTask(d) PROVE TypeOK'
    <3>1. tokenCounter' \in 1..MaxToken /\ d \in Nat
      BY <2>1 DEF ScheduleDelayedTask, TypeOK
    <3>2. Inserted(Synchronized, tokenCounter', d) \in Seq(Entries)
      BY <2>0, <3>1, InsertedEffect DEF IsInserted
    <3> QED BY <2>1, <3>1, <3>2 DEF ScheduleDelayedTask, TypeOK, socketVars
  <2>2. ASSUME NEW j \in DOMAIN queue, UnscheduleDelayedTask(j) PROVE TypeOK'
    <3>1. j \in 1..Len(queue)
      BY DEF TypeOK
    <3>2. Removed(queue, j) \in Seq(Entries)
      BY <3>1, RemovedEffect DEF TypeOK
    <3> QED BY <2>2, <3>2 DEF UnscheduleDelayedTask, TypeOK, socketVars
  <2>3. ASSUME NEW s \in Sockets, SetBackgroundHandling(s) PROVE TypeOK'
    BY <2>3 DEF SetBackgroundHandling, TypeOK, queueVars
  <2>4. ASSUME NEW j \in DOMAIN handlers, DisableBackgroundHandling(j) PROVE TypeOK'
    <3>1. handlers' \in Seq(Sockets)
      <4>1. Len(handlers) \in Nat /\ Len(handlers) - 1 \in Nat
        BY DEF TypeOK
      <4>2. \A i \in 1..Len(handlers) - 1 : i \in DOMAIN handlers /\ i + 1 \in DOMAIN handlers
        BY <4>1 DEF TypeOK
      <4>3. handlers' \in [1..Len(handlers) - 1 -> Sockets]
        BY <2>4, <4>2 DEF DisableBackgroundHandling, TypeOK
      <4> QED BY <4>1, <4>3
    <3> QED BY <2>4, <3>1 DEF DisableBackgroundHandling, TypeOK, queueVars
  <2>5. CASE TimeToNextAlarm
    BY <2>0, <2>5 DEF TimeToNextAlarm, TypeOK, socketVars
  <2>6. CASE HandleSocket
    <3>1. lastHandled' \in Sockets
      <4> DEFINE later == {i \in ReadyPlaces : i > LastPlace}
      <4>1. NextPlace \in ReadyPlaces
        BY <2>6, FirstPlaceIn DEF HandleSocket, NextPlace
      <4>2. NextPlace \in DOMAIN handlers
        BY <4>1 DEF ReadyPlaces
      <4> QED BY <2>6, <4>2 DEF HandleSocket, TypeOK
    <3> QED BY <2>6, <3>1 DEF HandleSocket, TypeOK, queueVars
  <2>7. CASE NoSocketReady
    BY <2>7 DEF NoSocketReady, TypeOK, queueVars
  <2>8. CASE HandleAlarm
    <3>1. CASE HeadIsDue(Look)
      <4>1. 1 \in 1..Len(Look)
        BY <2>0, <3>1, HeadFacts
      <4>2. Removed(Look, 1) \in Seq(Entries) /\ Look[1] \in Entries
        BY <2>0, <4>1, RemovedEffect
      <4> QED BY <2>0, <2>8, <3>1, <4>2 DEF HandleAlarm, TypeOK, socketVars
    <3>2. CASE ~ HeadIsDue(Look)
      BY <2>0, <2>8, <3>2 DEF HandleAlarm, TypeOK, socketVars
    <3> QED BY <3>1, <3>2
  <2>9. CASE HandlerReturns
    BY <2>9 DEF HandlerReturns, TypeOK, socketVars, queueVars
  <2>10. CASE Tick
    <3>1. queue' \in Seq(Entries)
      BY <2>10, TickEffect DEF Tick, TypeOK
    <3> QED BY <2>10, <3>1 DEF Tick, TypeOK, socketVars
  <2>11. ASSUME NEW j \in Setbacks, SetClockBack(j) PROVE TypeOK'
    <3>1. j \in Nat
      OBVIOUS
    <3> QED BY <2>11, <3>1 DEF SetClockBack, TypeOK, socketVars
  <2>12. ASSUME NEW s \in Sockets, SocketBecomesReady(s) PROVE TypeOK'
    BY <2>12 DEF SocketBecomesReady, TypeOK, queueVars
  <2>13. CASE UNCHANGED vars
    BY <2>13 DEF vars, TypeOK, queueVars, socketVars
  <2> QED BY <2>1, <2>2, <2>3, <2>4, <2>5, <2>6, <2>7, <2>8, <2>9, <2>10, <2>11, <2>12, <2>13
          DEF Next, Loop, Calls, Environment
<1> QED BY <1>1, <1>2, PTL DEF Spec

-----------------------------------------------------------------------------
(* Tokens and real time *)

IInv == TypeOK /\ TokensInv /\ RealTime /\ NeverEarly

\* A list that was looked at has the entries of queue, in real time too.
LEMMA LookInv ==
  ASSUME IInv
  PROVE  /\ \A i \in 1..Len(queue) :
              Look[i].real <= Larger(0, Due(Look)[i] - Larger(0, LagAfterLook))
         /\ \A i \in 1..Len(queue) : Synchronized[i].real <= Due(Synchronized)[i]
<1>1. /\ queue \in Seq(Entries) /\ lag \in Int /\ Len(queue) \in Nat
      /\ \A i \in 1..Len(queue) : queue[i].real <= Larger(0, Due(queue)[i] - Larger(0, lag))
  BY DEF IInv, TypeOK, RealTime
<1>2. \A i \in 1..Len(queue) : Synchronized[i].real <= Due(Synchronized)[i]
  <2> TAKE i \in 1..Len(queue)
  <2>1. /\ Synchronized[i].real = queue[i].real
        /\ Due(Synchronized)[i] = Larger(0, Due(queue)[i] - Counts)
        /\ Counts = Larger(0, lag)
    BY SynchronizedEffect DEF IInv
  <2> QED BY <1>1, <2>1
<1>3. CASE HeadIsDue(queue)
  <2>1. Look = queue /\ LagAfterLook = lag
    BY <1>3 DEF Look, LagAfterLook
  <2> QED BY <1>1, <1>2, <2>1
<1>4. CASE ~ HeadIsDue(queue)
  <2>1. Look = Synchronized /\ LagAfterLook = 0
    BY <1>4 DEF Look, LagAfterLook
  <2>2. \A i \in 1..Len(queue) : Due(Synchronized)[i] = Larger(0, Due(Synchronized)[i] - Larger(0, 0))
    <3> TAKE i \in 1..Len(queue)
    <3>1. Synchronized \in Seq(Entries) /\ Len(Synchronized) = Len(queue)
      BY SynchronizedEffect DEF IInv
    <3>2. Due(Synchronized) \in [0..Len(queue) -> Nat]
      BY <3>1, DueFacts
    <3>3. Due(Synchronized)[i] \in Nat
      BY <1>1, <3>2
    <3> QED BY <3>3 DEF Larger
  <2> QED BY <1>2, <2>1, <2>2
<1> QED BY <1>3, <1>4

\* Scheduling a task keeps the invariant: the token is new, and where the
\* walk stops the new entry is due after its whole delay.
LEMMA ScheduleInv ==
  ASSUME IInv, NEW d \in Delays, ScheduleDelayedTask(d)
  PROVE  TokensInv' /\ RealTime' /\ NeverEarly'
<1> DEFINE q == Synchronized
           t == tokenCounter'
           p == Inserted(q, t, d)
           k == Walk(q, d)
           n == Len(queue)
<1>1. /\ n \in Nat /\ tokenCounter \in Nat /\ t = tokenCounter + 1 /\ t \in 1..MaxToken
      /\ d \in Nat /\ DOMAIN queue = 1..n /\ queue' = p /\ lag' = 0
      /\ task' = task /\ pc' = pc /\ task.token \in Nat
  <2>1. /\ t = tokenCounter + 1 /\ tokenCounter < MaxToken /\ queue' = p /\ lag' = 0
        /\ task' = task /\ pc' = pc
    BY DEF ScheduleDelayedTask
  <2>2. tokenCounter \in 0..MaxToken /\ n \in Nat /\ DOMAIN queue = 1..n /\ d \in Nat
    BY DEF IInv, TypeOK
  <2>3. task.token \in Nat
    BY DEF IInv, TypeOK, Entries, NoTask
  <2> HIDE DEF p, n, t
  <2> QED BY <2>1, <2>2, <2>3
<1>2. q \in Seq(Entries) /\ Len(q) = n
  BY SynchronizedEffect DEF IInv
<1>3. \A i \in 1..n : q[i].token = queue[i].token /\ q[i].real <= Due(q)[i]
  BY SynchronizedEffect, LookInv DEF IInv
<1> HIDE DEF q, t, n
<1>4. /\ p \in Seq(Entries) /\ Len(p) = n + 1 /\ k \in 0..n
      /\ \A i \in 1..n + 1 :
           /\ p[i].token = IF i <= k THEN q[i].token ELSE IF i = k + 1 THEN t ELSE q[i - 1].token
           /\ p[i].real = IF i <= k THEN q[i].real ELSE IF i = k + 1 THEN d ELSE q[i - 1].real
           /\ Due(p)[i] = IF i <= k THEN Due(q)[i] ELSE IF i = k + 1 THEN d ELSE Due(q)[i - 1]
  <2>1. IsInserted(p, q, t, d, k)
    BY <1>1, <1>2, InsertedEffect
  <2> HIDE DEF p, k
  <2> QED BY <1>2, <2>1 DEF IsInserted
<1> HIDE DEF p, k
<1>5. \A i \in 1..n : queue[i].token \in Nat /\ queue[i].token <= tokenCounter /\ queue[i].token # task.token
  <2>1. \A i \in 1..n : queue[i].token \in 1..MaxToken
    BY EntryFields DEF IInv, TypeOK, n
  <2> QED BY <1>1, <2>1 DEF IInv, TokensInv, TokensDiffer
<1>6. \A i, j \in 1..n : queue[i].token = queue[j].token => i = j
  BY <1>1 DEF IInv, TokensInv, TokensDiffer
<1>7. DOMAIN p = 1..n + 1
  BY <1>1, <1>4
<1>8. task.token <= tokenCounter
  BY DEF IInv, TokensInv
<1>9. \A i \in 1..n + 1 : i <= k \/ i = k + 1 \/ (i > k + 1 /\ i - 1 \in 1..n)
  BY <1>1, <1>4
<1>10. \A i \in 1..n + 1 : i <= k => i \in 1..n
  BY <1>1, <1>4
<1>11. \A i, j \in 1..n + 1 : p[i].token = p[j].token => i = j
  <2> SUFFICES ASSUME NEW i \in 1..n + 1, NEW j \in 1..n + 1, p[i].token = p[j].token
               PROVE  i = j
    OBVIOUS
  <2> DEFINE old(x) == IF x <= k THEN x ELSE x - 1
  <2>1. \A x \in 1..n + 1 : x # k + 1 =>
           old(x) \in 1..n /\ p[x].token = queue[old(x)].token /\ p[x].token # t
    <3> TAKE x \in 1..n + 1
    <3>1. HAVE x # k + 1
    <3>2. old(x) \in 1..n
      BY <1>1, <1>4, <1>9, <1>10, <3>1
    <3>3. p[x].token = q[old(x)].token
      BY <1>4, <3>1
    <3> QED BY <1>1, <1>3, <1>5, <3>2, <3>3
  <2>2. p[k + 1].token = t
    BY <1>1, <1>4
  <2>3. CASE i = k + 1 \/ j = k + 1
    BY <2>1, <2>2, <2>3
  <2>4. CASE i # k + 1 /\ j # k + 1
    <3>1. old(i) = old(j)
      BY <1>6, <2>1, <2>4
    <3>2. i \in Nat /\ j \in Nat /\ k \in Nat
      BY <1>1, <1>4
    <3> QED BY <2>4, <3>1, <3>2
  <2> QED BY <2>3, <2>4
<1>12. \A i \in 1..n + 1 : p[i].token # task.token /\ p[i].token <= t
  <2> TAKE i \in 1..n + 1
  <2>1. CASE i = k + 1
    <3>1. p[i].token = t
      BY <1>1, <1>4, <2>1
    <3> QED BY <1>1, <1>8, <3>1
  <2>2. CASE i # k + 1
    <3>1. PICK x \in 1..n : p[i].token = q[x].token
      <4>1. CASE i <= k
        BY <1>4, <1>10, <4>1
      <4>2. CASE ~ (i <= k)
        BY <1>1, <1>4, <1>9, <2>2, <4>2
      <4> QED BY <4>1, <4>2
    <3>2. p[i].token = queue[x].token
      BY <1>3, <3>1
    <3> QED BY <1>1, <1>5, <3>2
  <2> QED BY <2>1, <2>2
<1>13. TokensInv'
  <2>1. task'.token <= tokenCounter' /\ (pc' # "task" => task' = NoTask)
    BY <1>1, <1>8 DEF IInv, TokensInv, t
  <2> QED BY <1>1, <1>7, <1>11, <1>12, <2>1 DEF TokensInv, TokensDiffer, t
<1>14. RealTime'
  <2>1. \A i \in 1..n + 1 : p[i].real <= Larger(0, Due(p)[i] - Larger(0, 0))
    <3> TAKE i \in 1..n + 1
    <3>1. p[i].real <= Due(p)[i]
      <4>1. CASE i <= k
        BY <1>3, <1>4, <1>10, <4>1
      <4>2. CASE i = k + 1
        <5>1. ~ (i <= k)
          BY <1>1, <1>4, <4>2
        <5> QED BY <1>1, <1>4, <4>2, <5>1
      <4>3. CASE i > k + 1 /\ i - 1 \in 1..n
        <5>1. ~ (i <= k) /\ i # k + 1
          BY <1>1, <1>4, <4>3
        <5> QED BY <1>3, <1>4, <4>3, <5>1
      <4> QED BY <1>9, <4>1, <4>2, <4>3
    <3>2. Due(p) \in [0..n + 1 -> Nat]
      BY <1>4, DueFacts
    <3>3. Due(p)[i] \in Nat
      BY <1>1, <3>2
    <3> QED BY <3>1, <3>3 DEF Larger
  <2> QED BY <1>1, <1>7, <2>1 DEF RealTime
<1>15. NeverEarly'
  BY <1>1 DEF IInv, NeverEarly
<1> QED BY <1>13, <1>14, <1>15

\* What the invariant says of a list: its tokens differ from each other and
\* from x and are at most c; the real time left is within what a lag l leaves.
ListInv(q, x, c, l) ==
  /\ \A a, b \in DOMAIN q : q[a].token = q[b].token => a = b
  /\ \A i \in DOMAIN q : q[i].token # x /\ q[i].token <= c
  /\ \A i \in DOMAIN q : q[i].real <= Larger(0, Due(q)[i] - Larger(0, l))

\* What is left of a list satisfies what the list did, and none of its
\* tokens is that of the entry removed.
LEMMA RemoveInv ==
  ASSUME NEW q \in Seq(Entries), NEW l, NEW j \in 1..Len(q), NEW c, NEW x,
         ListInv(q, x, c, l)
  PROVE  /\ ListInv(Removed(q, j), x, c, l)
         /\ ListInv(Removed(q, j), q[j].token, c, l)
<1>0. /\ DOMAIN q = 1..Len(q)
      /\ \A a, b \in 1..Len(q) : q[a].token = q[b].token => a = b
      /\ \A i \in 1..Len(q) : q[i].token # x /\ q[i].token <= c
      /\ \A i \in 1..Len(q) : q[i].real <= Larger(0, Due(q)[i] - Larger(0, l))
  BY DEF ListInv
<1> DEFINE p == Removed(q, j)
           n == Len(q)
           old == [i \in 1..n - 1 |-> IF i < j THEN i ELSE i + 1]
<1>1. /\ n \in Nat /\ n - 1 \in Nat /\ j \in Nat
      /\ \A i \in 1..n - 1 : i \in Nat /\ i \in 1..n /\ i + 1 \in 1..n
  OBVIOUS
<1>2. \A i \in 1..n - 1 : /\ old[i] = IF i < j THEN i ELSE i + 1
                          /\ old[i] \in 1..n /\ old[i] # j
  BY <1>1
<1>3. /\ DOMAIN p = 1..n - 1
      /\ \A i \in 1..n - 1 : /\ p[i].token = q[old[i]].token
                            /\ p[i].real = q[old[i]].real
                            /\ Due(p)[i] = Due(q)[old[i]]
  <2>1. /\ p \in Seq(Entries) /\ Len(p) = n - 1
        /\ \A i \in 1..n - 1 :
              /\ p[i].token = IF i < j THEN q[i].token ELSE q[i + 1].token
              /\ p[i].real = IF i < j THEN q[i].real ELSE q[i + 1].real
              /\ Due(p)[i] = IF i < j THEN Due(q)[i] ELSE Due(q)[i + 1]
    BY RemovedEffect
  <2> HIDE DEF p, old
  <2>2. DOMAIN p = 1..n - 1
    BY <1>1, <2>1
  <2>3. ASSUME NEW i \in 1..n - 1
        PROVE  /\ p[i].token = q[old[i]].token
               /\ p[i].real = q[old[i]].real
               /\ Due(p)[i] = Due(q)[old[i]]
    <3>1. CASE i < j
      BY <1>2, <2>1, <3>1
    <3>2. CASE ~ (i < j)
      BY <1>2, <2>1, <3>2
    <3> QED BY <3>1, <3>2
  <2> QED BY <2>2, <2>3
<1>4. \A a, b \in 1..n - 1 : old[a] = old[b] => a = b
  BY <1>1, <1>2
<1> HIDE DEF p, n, old
<1>5. \A a, b \in DOMAIN p : p[a].token = p[b].token => a = b
  <2> SUFFICES ASSUME NEW a \in DOMAIN p, NEW b \in DOMAIN p, p[a].token = p[b].token
               PROVE  a = b
    OBVIOUS
  <2>1. /\ old[a] \in 1..Len(q) /\ p[a].token = q[old[a]].token
        /\ old[b] \in 1..Len(q) /\ p[b].token = q[old[b]].token
    BY <1>2, <1>3 DEF n
  <2>2. old[a] = old[b]
    BY <1>0, <2>1
  <2> QED BY <1>3, <1>4, <2>2
<1>6. \A i \in DOMAIN p : p[i].token # x /\ p[i].token # q[j].token /\ p[i].token <= c
  <2> TAKE i \in DOMAIN p
  <2>1. old[i] \in 1..Len(q) /\ old[i] # j /\ p[i].token = q[old[i]].token
    BY <1>2, <1>3 DEF n
  <2> QED BY <1>0, <2>1
<1>7. \A i \in DOMAIN p : p[i].real <= Larger(0, Due(p)[i] - Larger(0, l))
  <2> TAKE i \in DOMAIN p
  <2>1. old[i] \in 1..Len(q) /\ p[i].real = q[old[i]].real /\ Due(p)[i] = Due(q)[old[i]]
    BY <1>2, <1>3 DEF n
  <2> QED BY <1>0, <2>1
<1>8. ListInv(p, x, c, l) /\ ListInv(p, q[j].token, c, l)
  BY <1>5, <1>6, <1>7 DEF ListInv
<1> QED BY <1>8 DEF p

\* The invariant of TaskScheduler: tokens are given to one task, and no
\* difference is smaller than the real time that is left.
THEOREM Inductive == Spec => []IInv
<1>1. Init => IInv
  <2> SUFFICES ASSUME Init PROVE IInv
    OBVIOUS
  <2>1. TypeOK
    BY DEF Init, TypeOK, NoTask
  <2>2. DOMAIN queue = {} /\ tokenCounter = 0 /\ task = NoTask /\ task.token = 0 /\ task.real = 0
    BY DEF Init, NoTask
  <2> QED BY <2>1, <2>2 DEF IInv, TokensInv, TokensDiffer, RealTime, NeverEarly
<1>2. IInv /\ TypeOK' /\ [Next]_vars => IInv'
  <2> SUFFICES ASSUME IInv, TypeOK', [Next]_vars PROVE TokensInv' /\ RealTime' /\ NeverEarly'
    BY DEF IInv
  <2> DEFINE n == Len(queue)
  <2>0. /\ n \in Nat /\ DOMAIN queue = 1..n /\ queue \in Seq(Entries)
        /\ lag \in Int /\ tokenCounter \in Nat
        /\ Due(queue) \in [0..n -> Nat]
        /\ \A i \in 1..n : queue[i].token \in Nat /\ queue[i].real \in Nat
    <3>1. queue \in Seq(Entries) /\ lag \in Int /\ tokenCounter \in Nat
      BY DEF IInv, TypeOK
    <3>2. \A i \in 1..n : queue[i].token \in 1..MaxToken /\ queue[i].real \in Nat
      BY <3>1, EntryFields
    <3>3. Due(queue) \in [0..n -> Nat]
      BY <3>1, DueFacts
    <3> QED BY <3>1, <3>2, <3>3
  <2>r. /\ \A a, b \in 1..n : queue[a].token = queue[b].token => a = b
        /\ \A i \in 1..n : queue[i].token # task.token /\ queue[i].token <= tokenCounter
        /\ task.token <= tokenCounter
        /\ pc # "task" => task = NoTask
        /\ \A i \in 1..n : queue[i].real <= Larger(0, Due(queue)[i] - Larger(0, lag))
        /\ task.real = 0
    BY <2>0 DEF IInv, TokensInv, TokensDiffer, RealTime, NeverEarly
  <2> HIDE DEF n
  <2>1. ASSUME NEW d \in Delays, ScheduleDelayedTask(d) PROVE TokensInv' /\ RealTime' /\ NeverEarly'
    BY <2>1, ScheduleInv
  <2>2. ASSUME NEW j \in DOMAIN queue, UnscheduleDelayedTask(j)
        PROVE  TokensInv' /\ RealTime' /\ NeverEarly'
    <3>1. /\ j \in 1..Len(queue) /\ queue' = Removed(queue, j)
          /\ UNCHANGED <<lag, tokenCounter, task, pc>>
      BY <2>0, <2>2 DEF UnscheduleDelayedTask, n
    <3>2. ListInv(queue, task.token, tokenCounter, lag)
      BY <2>0, <2>r DEF ListInv
    <3>3. ListInv(queue', task.token, tokenCounter, lag)
      BY <2>0, <3>1, <3>2, RemoveInv
    <3> QED BY <2>r, <3>1, <3>3 DEF ListInv, TokensInv, TokensDiffer, RealTime, NeverEarly
  <2>3. ASSUME NEW s \in Sockets, SetBackgroundHandling(s) PROVE TokensInv' /\ RealTime' /\ NeverEarly'
    BY <2>3 DEF SetBackgroundHandling, queueVars, IInv, TokensInv, TokensDiffer, RealTime, NeverEarly
  <2>4. ASSUME NEW j \in DOMAIN handlers, DisableBackgroundHandling(j)
        PROVE  TokensInv' /\ RealTime' /\ NeverEarly'
    BY <2>4 DEF DisableBackgroundHandling, queueVars, IInv, TokensInv, TokensDiffer, RealTime, NeverEarly
  <2>a. /\ Look \in Seq(Entries) /\ Len(Look) = n /\ DOMAIN Look = 1..n
        /\ \A a, b \in 1..n : Look[a].token = Look[b].token => a = b
        /\ \A i \in 1..n : Look[i].token # task.token /\ Look[i].token <= tokenCounter
        /\ \A i \in 1..n : Look[i].real <= Larger(0, Due(Look)[i] - Larger(0, LagAfterLook))
    <3>1. Look \in Seq(Entries) /\ Len(Look) = n /\ \A i \in 1..n : Look[i].token = queue[i].token
      BY LookEffect DEF IInv, n
    <3>2. \A i \in 1..n : Look[i].real <= Larger(0, Due(Look)[i] - Larger(0, LagAfterLook))
      BY LookInv DEF n
    <3>3. DOMAIN Look = 1..n
      BY <2>0, <3>1
    <3>4. /\ \A a, b \in 1..n : Look[a].token = Look[b].token => a = b
          /\ \A i \in 1..n : Look[i].token # task.token /\ Look[i].token <= tokenCounter
      BY <2>r, <3>1
    <3> QED BY <3>1, <3>2, <3>3, <3>4
  <2>5. CASE TimeToNextAlarm
    <3>1. /\ queue' = Look /\ lag' = LagAfterLook /\ UNCHANGED <<tokenCounter, task>>
          /\ pc = "top" /\ pc' = "select"
      BY <2>5 DEF TimeToNextAlarm
    <3> QED BY <2>a, <2>r, <3>1 DEF TokensInv, TokensDiffer, RealTime, NeverEarly
  <2>6. CASE HandleSocket
    BY <2>6 DEF HandleSocket, queueVars, IInv, TokensInv, TokensDiffer, RealTime, NeverEarly
  <2>7. CASE NoSocketReady
    BY <2>7 DEF NoSocketReady, queueVars, IInv, TokensInv, TokensDiffer, RealTime, NeverEarly
  <2>8. CASE HandleAlarm
    <3>0. lag' = LagAfterLook /\ UNCHANGED tokenCounter /\ pc = "alarms"
      BY <2>8 DEF HandleAlarm
    <3>1. CASE HeadIsDue(Look)
      <4>1. queue' = Removed(Look, 1) /\ task' = Look[1] /\ pc' = "task"
        BY <2>8, <3>1 DEF HandleAlarm
      <4>2. 1 \in 1..Len(Look) /\ 1 \in 1..n /\ Due(Look)[1] = 0
        BY <2>a, <3>1, HeadFacts
      <4>3. ListInv(queue', Look[1].token, tokenCounter, LagAfterLook)
        <5>1. ListInv(Look, task.token, tokenCounter, LagAfterLook)
          BY <2>a DEF ListInv
        <5> QED BY <2>a, <4>1, <4>2, <5>1, RemoveInv
      <4>4. Look[1].token <= tokenCounter /\ Look[1].real <= Larger(0, 0 - Larger(0, LagAfterLook))
        BY <2>a, <4>2
      <4>5. Look[1].real = 0
        <5>1. LagAfterLook \in Int
          BY <2>0 DEF LagAfterLook
        <5>2. Larger(0, 0 - Larger(0, LagAfterLook)) = 0
          BY <5>1 DEF Larger
        <5>3. Look[1].real \in Nat
          BY <2>a, <4>2, EntryFields
        <5> QED BY <4>4, <5>2, <5>3
      <4> QED BY <3>0, <4>1, <4>3, <4>4, <4>5 DEF ListInv, TokensInv, TokensDiffer, RealTime, NeverEarly
    <3>2. CASE ~ HeadIsDue(Look)
      <4>1. queue' = Look /\ task' = task /\ pc' = "top"
        BY <2>8, <3>2 DEF HandleAlarm
      <4> QED BY <2>a, <2>r, <3>0, <4>1 DEF TokensInv, TokensDiffer, RealTime, NeverEarly
    <3> QED BY <3>1, <3>2
  <2>9. CASE HandlerReturns
    <3>1. UNCHANGED <<queue, lag, tokenCounter>> /\ task' = NoTask
      BY <2>9 DEF HandlerReturns, queueVars
    <3>2. \A i \in 1..n : queue[i].token # 0
      BY <2>0, EntryFields, SMTT(30) DEF n
    <3>3. NoTask.token = 0 /\ NoTask.real = 0
      BY DEF NoTask
    <3> QED BY <2>0, <2>r, <3>1, <3>2, <3>3 DEF TokensInv, TokensDiffer, RealTime, NeverEarly
  <2>10. CASE Tick
    <3>1. /\ queue' \in Seq(Entries) /\ Len(queue') = n
          /\ \A i \in 1..n : /\ queue'[i].token = queue[i].token
                             /\ queue'[i].delta = queue[i].delta
                             /\ queue'[i].real = Larger(0, queue[i].real - 1)
      BY <2>10, TickEffect DEF IInv, n
    <3>2. Due(queue') = Due(queue)
      BY <2>0, <3>1, SameDeltas DEF n
    <3>3. DOMAIN queue' = 1..n /\ lag' = lag + 1 /\ UNCHANGED <<tokenCounter, task, pc>>
      BY <2>0, <2>10, <3>1 DEF Tick
    <3>4. \A i \in 1..n : queue'[i].real <= Larger(0, Due(queue)[i] - Larger(0, lag + 1))
      <4> TAKE i \in 1..n
      <4>1. /\ queue[i].real <= Larger(0, Due(queue)[i] - Larger(0, lag))
            /\ queue[i].real \in Nat /\ Due(queue)[i] \in Nat
            /\ queue'[i].real = Larger(0, queue[i].real - 1)
        BY <2>0, <2>r, <3>1
      <4> QED BY <2>0, <4>1 DEF Larger
    <3> QED BY <2>r, <3>1, <3>2, <3>3, <3>4 DEF TokensInv, TokensDiffer, RealTime, NeverEarly
  <2>11. ASSUME NEW j \in Setbacks, SetClockBack(j) PROVE TokensInv' /\ RealTime' /\ NeverEarly'
    <3>1. lag' = lag - j /\ UNCHANGED <<queue, tokenCounter, task, pc>> /\ j \in Nat
      BY <2>11 DEF SetClockBack
    <3>2. \A i \in 1..n : queue[i].real <= Larger(0, Due(queue)[i] - Larger(0, lag - j))
      <4> TAKE i \in 1..n
      <4>1. /\ queue[i].real <= Larger(0, Due(queue)[i] - Larger(0, lag))
            /\ queue[i].real \in Nat /\ Due(queue)[i] \in Nat
        BY <2>0, <2>r
      <4> QED BY <2>0, <3>1, <4>1, SMTT(30) DEF Larger
    <3> QED BY <2>0, <2>r, <3>1, <3>2 DEF TokensInv, TokensDiffer, RealTime, NeverEarly
  <2>12. ASSUME NEW s \in Sockets, SocketBecomesReady(s) PROVE TokensInv' /\ RealTime' /\ NeverEarly'
    BY <2>12 DEF SocketBecomesReady, queueVars, IInv, TokensInv, TokensDiffer, RealTime, NeverEarly
  <2>13. CASE UNCHANGED vars
    BY <2>13 DEF vars, queueVars, IInv, TokensInv, TokensDiffer, RealTime, NeverEarly
  <2> QED BY <2>1, <2>2, <2>3, <2>4, <2>5, <2>6, <2>7, <2>8, <2>9, <2>10, <2>11, <2>12, <2>13
          DEF Next, Loop, Calls, Environment
<1> QED BY <1>1, <1>2, TypeCorrect, PTL DEF Spec

\* No two tasks have one token.
THEOREM TokensStayApart == Spec => []TokensDiffer
<1>1. IInv => TokensDiffer
  BY DEF IInv, TokensInv
<1> QED BY <1>1, Inductive, PTL

\* No entry of the list is due before its delay is over, in real time.
THEOREM DueInRealTime == Spec => []RealTime
<1>1. IInv => RealTime
  BY DEF IInv
<1> QED BY <1>1, Inductive, PTL

\* No task is called before its delay is over, however the clock is set back.
THEOREM CalledNeverEarly == Spec => []NeverEarly
<1>1. IInv => NeverEarly
  BY DEF IInv
<1> QED BY <1>1, Inductive, PTL

-----------------------------------------------------------------------------
(* The list of differences implements the countdowns *)

LEMMA SeqOf ==
  ASSUME NEW n \in Nat, NEW S, NEW f \in [1..n -> S]
  PROVE  f \in Seq(S) /\ Len(f) = n /\ DOMAIN f = 1..n
  OBVIOUS

LEMMA AlarmsAre ==
  ASSUME NEW q \in Seq(Entries)
  PROVE  /\ Len(q) \in Nat
         /\ Alarms(q) = [i \in 1..Len(q) |-> [token |-> q[i].token, left |-> Due(q)[i]]]
         /\ DOMAIN Alarms(q) = 1..Len(q)
         /\ Len(Alarms(q)) = Len(q)
<1>1. Len(q) \in Nat /\ DOMAIN q = 1..Len(q)
  OBVIOUS
<1>2. Alarms(q) = [i \in 1..Len(q) |-> [token |-> q[i].token, left |-> Due(q)[i]]]
  BY <1>1 DEF Alarms
<1> DEFINE f == [i \in 1..Len(q) |-> [token |-> q[i].token, left |-> Due(q)[i]]]
<1>3. f \in [1..Len(q) -> {f[i] : i \in 1..Len(q)}]
  OBVIOUS
<1> HIDE DEF f
<1>4. DOMAIN f = 1..Len(q) /\ Len(f) = Len(q)
  BY <1>1, <1>3, SeqOf
<1> QED BY <1>1, <1>2, <1>4 DEF f

\* Time taken off the list is taken off every countdown.
LEMMA CountedAlarms ==
  ASSUME NEW q \in Seq(Entries), NEW p \in Seq(Entries), NEW e, Len(p) = Len(q),
         \A i \in 1..Len(q) : p[i].token = q[i].token /\ Due(p)[i] = Larger(0, Due(q)[i] - e)
  PROVE  Alarms(p) = CD!Counted(Alarms(q), e)
<1>1. /\ Alarms(p) = [i \in 1..Len(q) |-> [token |-> p[i].token, left |-> Due(p)[i]]]
      /\ Alarms(q) = [i \in 1..Len(q) |-> [token |-> q[i].token, left |-> Due(q)[i]]]
      /\ DOMAIN Alarms(q) = 1..Len(q)
  BY AlarmsAre
<1>2. CD!Counted(Alarms(q), e) =
        [i \in 1..Len(q) |-> [token |-> Alarms(q)[i].token,
                              left |-> Larger(0, Alarms(q)[i].left - e)]]
  BY <1>1 DEF CD!Counted, CD!Larger, Larger
<1>3. \A i \in 1..Len(q) : Alarms(q)[i].token = q[i].token /\ Alarms(q)[i].left = Due(q)[i]
  BY <1>1
<1>4. \A i \in 1..Len(q) :
        [token |-> p[i].token, left |-> Due(p)[i]] =
          [token |-> Alarms(q)[i].token, left |-> Larger(0, Alarms(q)[i].left - e)]
  BY <1>3
<1>5. Alarms(p) = [i \in 1..Len(q) |-> [token |-> p[i].token, left |-> Due(p)[i]]]
  BY <1>1
<1> QED BY <1>2, <1>4, <1>5

\* The walk stops where the countdowns that are over no later end.
LEMMA BeforeIsWalk ==
  ASSUME NEW q \in Seq(Entries), NEW w \in Nat
  PROVE  CD!Before(Alarms(q), w) = Walk(q, w)
<1> DEFINE n == Len(q)
           k == Walk(q, w)
           Ends(m) == \A i \in 1..n : (i <= m) <=> (Due(q)[i] <= w)
<1>1. n \in Nat /\ k \in 0..n /\ Ends(k)
  BY WalkFacts, SMTT(30)
<1>2. \A m \in 0..n : Ends(m) => m = k
  <2> SUFFICES ASSUME NEW m \in 0..n, Ends(m), m # k PROVE FALSE
    OBVIOUS
  <2>1. CASE m < k
    <3>1. m + 1 \in 1..n /\ m + 1 <= k /\ ~ (m + 1 <= m)
      BY <1>1, <2>1
    <3> QED BY <1>1, <3>1
  <2>2. CASE k < m
    <3>1. k + 1 \in 1..n /\ k + 1 <= m /\ ~ (k + 1 <= k)
      BY <1>1, <2>2
    <3> QED BY <1>1, <3>1
  <2> QED BY <1>1, <2>1, <2>2
<1>3. \A m : (\A i \in DOMAIN Alarms(q) : (i <= m) <=> (Alarms(q)[i].left <= w)) <=> Ends(m)
  <2>1. DOMAIN Alarms(q) = 1..n
    BY AlarmsAre
  <2>2. \A i \in 1..n : Alarms(q)[i].left = Due(q)[i]
    BY AlarmsAre
  <2> HIDE DEF n
  <2> QED BY <2>1, <2>2
<1>4. CD!Before(Alarms(q), w) =
        CHOOSE m \in 0..n : \A i \in DOMAIN Alarms(q) : (i <= m) <=> (Alarms(q)[i].left <= w)
  BY AlarmsAre DEF CD!Before
<1> HIDE DEF n, k, Ends
<1>5. CD!Before(Alarms(q), w) = CHOOSE m \in 0..n : Ends(m)
  BY <1>3, <1>4
<1>6. (CHOOSE m \in 0..n : Ends(m)) = k
  BY <1>1, <1>2
<1> QED BY <1>5, <1>6 DEF k

LEMMA InsertedAlarms ==
  ASSUME NEW q \in Seq(Entries), NEW t \in 1..MaxToken, NEW w \in Nat
  PROVE  Alarms(Inserted(q, t, w)) = CD!Inserted(Alarms(q), t, w)
<1> DEFINE n == Len(q)
           k == Walk(q, w)
           p == Inserted(q, t, w)
<1>1. /\ p \in Seq(Entries) /\ Len(p) = n + 1 /\ k \in 0..n /\ n \in Nat
      /\ \A i \in 1..n + 1 :
           /\ p[i].token = IF i <= k THEN q[i].token ELSE IF i = k + 1 THEN t ELSE q[i - 1].token
           /\ Due(p)[i] = IF i <= k THEN Due(q)[i] ELSE IF i = k + 1 THEN w ELSE Due(q)[i - 1]
  <2>1. IsInserted(p, q, t, w, k) /\ n \in Nat
    BY InsertedEffect
  <2> HIDE DEF p, k, n
  <2> QED BY <2>1 DEF IsInserted, n
<1>2. CD!Inserted(Alarms(q), t, w) =
        [i \in 1..n + 1 |-> IF i <= k THEN Alarms(q)[i]
                            ELSE IF i = k + 1 THEN [token |-> t, left |-> w] ELSE Alarms(q)[i - 1]]
  BY BeforeIsWalk, AlarmsAre DEF CD!Inserted
<1>3. \A i \in 1..n : Alarms(q)[i] = [token |-> q[i].token, left |-> Due(q)[i]]
  BY AlarmsAre
<1>4. Alarms(p) = [i \in 1..n + 1 |-> [token |-> p[i].token, left |-> Due(p)[i]]]
  BY <1>1, AlarmsAre
<1> HIDE DEF n, k, p
<1>5. \A i \in 1..n + 1 :
        [token |-> p[i].token, left |-> Due(p)[i]] =
          IF i <= k THEN Alarms(q)[i]
          ELSE IF i = k + 1 THEN [token |-> t, left |-> w] ELSE Alarms(q)[i - 1]
  <2> TAKE i \in 1..n + 1
  <2>1. CASE i <= k
    <3>1. i \in 1..n
      BY <1>1, <2>1
    <3> QED BY <1>1, <1>3, <2>1, <3>1
  <2>2. CASE i = k + 1
    <3>1. ~ (i <= k)
      BY <1>1, <2>2
    <3> QED BY <1>1, <2>2, <3>1
  <2>3. CASE i > k + 1
    <3>1. i - 1 \in 1..n /\ ~ (i <= k) /\ i # k + 1
      BY <1>1, <2>3
    <3>2. p[i].token = q[i - 1].token /\ Due(p)[i] = Due(q)[i - 1]
      BY <1>1, <3>1
    <3> QED BY <1>3, <3>1, <3>2
  <2> QED BY <1>1, <2>1, <2>2, <2>3
<1> QED BY <1>2, <1>4, <1>5 DEF p

LEMMA RemovedAlarms ==
  ASSUME NEW q \in Seq(Entries), NEW j \in 1..Len(q)
  PROVE  Alarms(Removed(q, j)) = CD!Without(Alarms(q), j)
<1> DEFINE n == Len(q)
           p == Removed(q, j)
<1>1. /\ p \in Seq(Entries) /\ Len(p) = n - 1 /\ n \in Nat
      /\ \A i \in 1..n - 1 :
           /\ p[i].token = IF i < j THEN q[i].token ELSE q[i + 1].token
           /\ Due(p)[i] = IF i < j THEN Due(q)[i] ELSE Due(q)[i + 1]
  BY RemovedEffect
<1>2. CD!Without(Alarms(q), j) =
        [i \in 1..n - 1 |-> IF i < j THEN Alarms(q)[i] ELSE Alarms(q)[i + 1]]
  BY AlarmsAre DEF CD!Without
<1>3. \A i \in 1..n : Alarms(q)[i] = [token |-> q[i].token, left |-> Due(q)[i]]
  BY AlarmsAre
<1>4. Alarms(p) = [i \in 1..n - 1 |-> [token |-> p[i].token, left |-> Due(p)[i]]]
  BY <1>1, AlarmsAre
<1>5. \A i \in 1..n - 1 : i \in 1..n /\ i + 1 \in 1..n
  BY <1>1
<1> HIDE DEF n, p
<1>6. \A i \in 1..n - 1 :
        [token |-> p[i].token, left |-> Due(p)[i]] =
          IF i < j THEN Alarms(q)[i] ELSE Alarms(q)[i + 1]
  BY <1>1, <1>3, <1>5
<1> QED BY <1>2, <1>4, <1>6 DEF p

\* Every step is one of the countdowns' or changes none of them.
LEMMA StepImplements ==
  ASSUME IInv, TypeOK', [Next]_vars
  PROVE  [CD!Next]_(CD!vars)
<1>0. /\ queue \in Seq(Entries) /\ queue' \in Seq(Entries) /\ DOMAIN queue = 1..Len(queue)
      /\ Synchronized \in Seq(Entries) /\ Look \in Seq(Entries) /\ Len(Look) = Len(queue)
      /\ MaxToken \in Nat /\ tokenCounter \in Nat
      /\ Counts \in Delays \cup 0..MaxLag /\ LookCounts \in Delays \cup 0..MaxLag
  BY LookEffect, SynchronizedEffect, BoundAssumption DEF IInv, TypeOK
<1>s. Alarms(Synchronized) = CD!Counted(Alarms(queue), Counts)
  BY <1>0, SynchronizedEffect, CountedAlarms DEF IInv
<1>l. Alarms(Look) = CD!Counted(Alarms(queue), LookCounts)
  BY <1>0, LookEffect, CountedAlarms DEF IInv
<1>1. ASSUME NEW d \in Delays, ScheduleDelayedTask(d) PROVE CD!Next
  <2>1. /\ queue' = Inserted(Synchronized, tokenCounter + 1, d) /\ task' = task
        /\ tokenCounter < MaxToken /\ d \in Nat
    BY <1>1, DelaysAssumption DEF ScheduleDelayedTask
  <2>2. tokenCounter + 1 \in 1..MaxToken
    BY <1>0, <2>1
  <2>3. Alarms(queue') = CD!Inserted(CD!Counted(Alarms(queue), Counts), tokenCounter + 1, d)
    BY <1>0, <1>s, <2>1, <2>2, InsertedAlarms
  <2>4. \A i \in DOMAIN Alarms(queue) : Alarms(queue)[i].token # tokenCounter + 1
    <3>1. \A i \in 1..Len(queue) : queue[i].token <= tokenCounter /\ queue[i].token \in Nat
      <4>1. \A i \in 1..Len(queue) : queue[i].token \in 1..MaxToken
        BY <1>0, EntryFields
      <4>2. \A i \in DOMAIN queue : queue[i].token <= tokenCounter
        BY DEF IInv, TokensInv
      <4>3. \A x \in 1..MaxToken : x \in Nat
        BY BoundAssumption
      <4>4. DOMAIN queue = 1..Len(queue)
        BY <1>0
      <4> QED BY <4>1, <4>2, <4>3, <4>4
    <3>2. /\ DOMAIN Alarms(queue) = 1..Len(queue)
          /\ \A i \in 1..Len(queue) : Alarms(queue)[i].token = queue[i].token
      BY <1>0, AlarmsAre
    <3> QED BY <1>0, <3>1, <3>2
  <2>5. CD!Schedule(tokenCounter + 1, d, Counts)
    BY <2>1, <2>3, <2>4 DEF CD!Schedule
  <2> QED BY <1>0, <2>2, <2>5 DEF CD!Next
<1>2. ASSUME NEW j \in DOMAIN queue, UnscheduleDelayedTask(j) PROVE CD!Next
  <2>1. queue' = Removed(queue, j) /\ task' = task
    BY <1>2 DEF UnscheduleDelayedTask
  <2>2. j \in DOMAIN Alarms(queue) /\ CD!Cancel(j)
    BY <1>0, <2>1, RemovedAlarms, AlarmsAre DEF CD!Cancel
  <2> QED BY <2>2 DEF CD!Next
<1>3. CASE TimeToNextAlarm
  <2>1. queue' = Look /\ task' = task
    BY <1>3 DEF TimeToNextAlarm
  <2>2. CD!Pass(LookCounts)
    BY <1>l, <2>1 DEF CD!Pass
  <2> QED BY <1>0, <2>2 DEF CD!Next
<1>4. CASE HandleAlarm
  <2>1. CASE HeadIsDue(Look)
    <3>1. queue' = Removed(Look, 1) /\ task' = Look[1] /\ pc = "alarms"
      BY <1>4, <2>1 DEF HandleAlarm
    <3>2. 1 \in 1..Len(Look) /\ Due(Look)[1] = 0
      BY <1>0, <2>1, HeadFacts
    <3>3. Alarms(queue') = CD!Without(CD!Counted(Alarms(queue), LookCounts), 1)
      BY <1>0, <1>l, <3>1, <3>2, RemovedAlarms
    <3>4. Alarms(queue) # <<>> /\ Alarms(queue)[1].token = queue[1].token
      BY <1>0, <3>2, AlarmsAre
    <3>5. Alarms(Look)[1].left = 0
      BY <1>0, <3>2, AlarmsAre
    <3>6. task'.token = Alarms(queue)[1].token
      BY <1>0, <3>1, <3>2, <3>4, LookEffect DEF IInv
    <3>7. task.token = 0
      BY <3>1 DEF IInv, TokensInv, NoTask
    <3>8. CD!Call(LookCounts)
      BY <1>l, <3>3, <3>4, <3>5, <3>6, <3>7 DEF CD!Call
    <3> QED BY <1>0, <3>8 DEF CD!Next
  <2>2. CASE ~ HeadIsDue(Look)
    <3>1. queue' = Look /\ task' = task
      BY <1>4, <2>2 DEF HandleAlarm
    <3>2. CD!Pass(LookCounts)
      BY <1>l, <3>1 DEF CD!Pass
    <3> QED BY <1>0, <3>2 DEF CD!Next
  <2> QED BY <2>1, <2>2
<1>5. CASE HandlerReturns
  <2>1. CD!Return
    BY <1>5 DEF HandlerReturns, queueVars, NoTask, CD!Return
  <2> QED BY <2>1 DEF CD!Next
<1>6. CASE Tick
  <2>1. /\ Len(queue') = Len(queue) /\ task' = task
        /\ \A i \in 1..Len(queue) : /\ queue'[i].token = queue[i].token
                                   /\ queue'[i].delta = queue[i].delta
    BY <1>6, TickEffect DEF IInv, Tick
  <2>2. Due(queue') = Due(queue)
    BY <1>0, <2>1, SameDeltas
  <2>3. Alarms(queue') = Alarms(queue)
    BY <1>0, <2>1, <2>2, AlarmsAre
  <2> QED BY <2>1, <2>3 DEF CD!vars
<1>7. CASE UNCHANGED <<queue, task>>
  BY <1>7 DEF CD!vars
<1> QED
  <2>1. ASSUME Next PROVE [CD!Next]_(CD!vars)
    BY <1>1, <1>2, <1>3, <1>4, <1>5, <1>6, <1>7, <2>1
       DEF Next, Loop, Calls, Environment, SetBackgroundHandling, DisableBackgroundHandling,
           HandleSocket, NoSocketReady, SetClockBack, SocketBecomesReady, queueVars
  <2>2. ASSUME UNCHANGED vars PROVE [CD!Next]_(CD!vars)
    BY <1>7, <2>2 DEF vars, queueVars
  <2> QED BY <2>1, <2>2

\* Each delayed task keeps a countdown of its own, and tasks are called in
\* the order they come due, for every delay and every use of the scheduler.
THEOREM ListImplementsCountdowns == Spec => KeepsCountdowns
<1>1. Init => CD!Init
  BY DEF Init, CD!Init, Alarms, NoTask
<1>2. IInv /\ IInv' /\ [Next]_vars => [CD!Next]_(CD!vars)
  BY StepImplements DEF IInv
<1> QED BY <1>1, <1>2, Inductive, PTL DEF Spec, KeepsCountdowns, CD!Spec
=============================================================================
