-------------------------- MODULE RtspClientProofs --------------------------
(* The requests of RtspClient are never lost and never handled twice.        *)
EXTENDS RtspClient, FiniteSetTheorems, LeastNumbers, TLAPS

-----------------------------------------------------------------------------
(* The inductive invariant *)

\* How often the steps t send a request or call its handler.
Intends(t, id) ==
  Cardinality({i \in 1..Len(t) :
                 t[i].do \in {"send", "resend", "call"} /\ t[i].req.id = id})

\* Where a request is, all places counted together.
Total(id) ==
  Copies(awaitingConnection, id) + Copies(awaitingTunneling, id)
    + Copies(awaitingResponse, id) + Intends(todo, id)
    + Len(outcomes[id]) + (IF id \in dropped THEN 1 ELSE 0)

\* Those sent are in one place, those not yet sent in none.
Accounted == ~broken => \A id \in Ids : Total(id) = (IF id <= sent THEN 1 ELSE 0)

Parses(t) == \E i \in 1..Len(t) : t[i].do = "parse"

ParseLast(t) == \A i \in 1..Len(t) : t[i].do = "parse" => i = Len(t)

\* The loop over the responses is the last thing a handler returns to, and there
\* is a response for its next turn.
ParseInv == ParseLast(todo) /\ (Parses(todo) => buffer # <<>>)

\* A redirection that is in the buffer is still within the server's bound.
RedirectInv ==
  \A i \in 1..Len(buffer) : buffer[i].code = "redirect" => redirects < MaxRedirects

IInv == TypeOK /\ Accounted /\ ParseInv

-----------------------------------------------------------------------------
(* Counting *)

Hits(q, P) == {i \in 1..Len(q) : q[i] \in P}

\* A set of indices that is moved along keeps its size.
LEMMA Shifted ==
  ASSUME NEW m \in Nat, NEW k \in Nat, NEW A \in SUBSET (1..m)
  PROVE  /\ IsFiniteSet(A) /\ IsFiniteSet({i + k : i \in A})
         /\ Cardinality({i + k : i \in A}) = Cardinality(A)
<1> DEFINE B == {i + k : i \in A}
           f == [i \in A |-> i + k]
<1>1. IsFiniteSet(A)
  <2>1. IsFiniteSet(1..m) BY FS_Interval
  <2>2. QED BY <2>1, FS_Subset
<1>2. f \in [A -> B] OBVIOUS
<1>3. f \in Surjection(A, B) BY <1>2 DEF Surjection
<1>4. f \in Injection(A, B)
  <2>1. \A i, j \in A : f[i] = f[j] => i = j OBVIOUS
  <2>2. QED BY <1>2, <2>1 DEF Injection, IsInjective
<1>5. QED BY <1>1, <1>3, <1>4, FS_Surjection

\* r is what comes after the first k elements of q.
RestOf(q, k, r) ==
  /\ k \in Nat /\ Len(q) \in Nat /\ Len(r) \in Nat /\ Len(q) = k + Len(r)
  /\ \A i \in 1..Len(r) : r[i] = q[i + k]

\* The hits in q are those in its first k elements and those in the rest r.
SplitsAt(q, k, r, P) ==
  /\ IsFiniteSet({i \in 1..k : q[i] \in P})
  /\ Cardinality({i \in 1..k : q[i] \in P}) \in Nat
  /\ Cardinality(Hits(r, P)) \in Nat
  /\ Cardinality(Hits(q, P))
       = Cardinality({i \in 1..k : q[i] \in P}) + Cardinality(Hits(r, P))

LEMMA HitsSplit ==
  ASSUME NEW q, NEW r, NEW P, NEW k, RestOf(q, k, r)
  PROVE  SplitsAt(q, k, r, P)
<1>0. /\ k \in Nat /\ Len(q) \in Nat /\ Len(r) \in Nat /\ Len(q) = k + Len(r)
      /\ \A i \in 1..Len(r) : r[i] = q[i + k]
  BY DEF RestOf
<1> DEFINE C == {i \in 1..k : q[i] \in P}
           A == Hits(r, P)
           B == {i + k : i \in A}
<1>1. A \in SUBSET (1..Len(r)) BY DEF Hits
<1>2. IsFiniteSet(A) /\ IsFiniteSet(B) /\ Cardinality(B) = Cardinality(A)
  BY <1>0, <1>1, Shifted
<1>3. IsFiniteSet(C)
  <2>1. IsFiniteSet(1..k) BY <1>0, FS_Interval
  <2>2. C \subseteq 1..k OBVIOUS
  <2>3. QED BY <2>1, <2>2, FS_Subset
<1>4. C \cap B = {} BY <1>0, <1>1
<1>5. Hits(q, P) = C \cup B
  <2>1. ASSUME NEW i \in Hits(q, P), i \notin C PROVE i \in B
    <3>1. i \in 1..Len(q) /\ q[i] \in P /\ i > k BY <1>0, <2>1 DEF Hits
    <3>2. i - k \in 1..Len(r) /\ (i - k) + k = i BY <1>0, <3>1
    <3>3. i - k \in A BY <1>0, <3>1, <3>2 DEF Hits
    <3>4. QED BY <3>2, <3>3
  <2>2. ASSUME NEW i \in C PROVE i \in Hits(q, P) BY <1>0 DEF Hits
  <2>3. ASSUME NEW i \in A PROVE i + k \in Hits(q, P)
    <3>1. i \in 1..Len(r) /\ r[i] \in P BY DEF Hits
    <3>2. i + k \in 1..Len(q) /\ q[i + k] \in P BY <1>0, <3>1
    <3>3. QED BY <3>2 DEF Hits
  <2>4. QED BY <2>1, <2>2, <2>3
<1>6. Cardinality(A) \in Nat /\ Cardinality(C) \in Nat
  BY <1>2, <1>3, FS_CardinalityType
<1> HIDE DEF A, B, C
<1>7. Cardinality(C \cup B) = Cardinality(C) + Cardinality(B) - Cardinality(C \cap B)
  BY <1>2, <1>3, FS_Union
<1>8. Cardinality(C \cap B) = 0 BY <1>4, FS_EmptySet
<1>9. Cardinality(Hits(q, P)) = Cardinality(C) + Cardinality(A)
  BY <1>2, <1>5, <1>6, <1>7, <1>8
<1>10. QED BY <1>3, <1>6, <1>9 DEF A, C, SplitsAt

\* One element is hit or not.
LEMMA OneHit ==
  ASSUME NEW q, NEW P
  PROVE  Cardinality({i \in 1..1 : q[i] \in P}) = (IF q[1] \in P THEN 1 ELSE 0)
<1>1. CASE q[1] \in P
  <2>1. {i \in 1..1 : q[i] \in P} = {1} BY <1>1
  <2>2. QED BY <1>1, <2>1, FS_Singleton
<1>2. CASE q[1] \notin P
  <2>1. {i \in 1..1 : q[i] \in P} = {} BY <1>2
  <2>2. QED BY <1>2, <2>1, FS_EmptySet
<1>3. QED BY <1>1, <1>2

-----------------------------------------------------------------------------
(* Copies in a queue *)

WithId(id) == {r \in Requests : r.id = id}

LEMMA CopiesAreHits ==
  ASSUME NEW q \in Seq(Requests), NEW id
  PROVE  Copies(q, id) = Cardinality(Hits(q, WithId(id)))
<1>1. \A i \in 1..Len(q) : q[i] \in Requests OBVIOUS
<1>2. {i \in 1..Len(q) : q[i].id = id} = Hits(q, WithId(id))
  BY <1>1 DEF Hits, WithId
<1>3. QED BY <1>2 DEF Copies

\* Copies are counted by numbers, and an empty queue has none.
LEMMA CopiesNat ==
  ASSUME NEW q \in Seq(Requests), NEW id
  PROVE  /\ Copies(q, id) \in Nat /\ IsFiniteSet({i \in 1..Len(q) : q[i].id = id})
         /\ Copies(<<>>, id) = 0
<1>1. \A m \in Nat : IsFiniteSet(1..m) BY FS_Interval
<1>2. {i \in 1..Len(q) : q[i].id = id} \subseteq 1..Len(q) /\ Len(q) \in Nat
  OBVIOUS
<1>3. IsFiniteSet({i \in 1..Len(q) : q[i].id = id}) BY <1>1, <1>2, FS_Subset
<1>4. {i \in 1..Len(<<>>) : <<>>[i].id = id} = {} OBVIOUS
<1>5. QED BY <1>3, <1>4, FS_CardinalityType, FS_EmptySet DEF Copies

\* The copies in q and in the rest of it after k elements.
LEMMA CopiesFrom ==
  ASSUME NEW q \in Seq(Requests), NEW id, NEW k \in 0..Len(q)
  PROVE  /\ SubSeq(q, k + 1, Len(q)) \in Seq(Requests)
         /\ Cardinality({i \in 1..k : q[i].id = id}) \in Nat
         /\ IsFiniteSet({i \in 1..k : q[i].id = id})
         /\ Copies(q, id) = Cardinality({i \in 1..k : q[i].id = id})
                              + Copies(SubSeq(q, k + 1, Len(q)), id)
<1> DEFINE r == SubSeq(q, k + 1, Len(q))
<1>1. Len(q) \in Nat /\ k \in Nat /\ k <= Len(q) OBVIOUS
<1>2. r \in Seq(Requests) /\ Len(r) = Len(q) - k
      /\ \A i \in 1..Len(r) : r[i] = q[i + k]
  OBVIOUS
<1>3. {i \in 1..k : q[i].id = id} = {i \in 1..k : q[i] \in WithId(id)}
  BY <1>1 DEF WithId
<1> HIDE DEF r
<1>4. Len(r) \in Nat /\ Len(q) = k + Len(r) BY <1>1, <1>2
<1> DEFINE P == WithId(id)
<1> HIDE DEF P
<1>5. /\ Cardinality({i \in 1..k : q[i] \in P}) \in Nat
      /\ IsFiniteSet({i \in 1..k : q[i] \in P})
      /\ Cardinality(Hits(q, P))
           = Cardinality({i \in 1..k : q[i] \in P}) + Cardinality(Hits(r, P))
  <2>1. RestOf(q, k, r) BY <1>1, <1>2, <1>4 DEF RestOf
  <2>2. SplitsAt(q, k, r, P) BY <2>1, HitsSplit
  <2>3. QED BY <2>2 DEF SplitsAt
<1>6. QED BY <1>2, <1>3, <1>5, CopiesAreHits DEF r, P

LEMMA CopiesConcat ==
  ASSUME NEW p \in Seq(Requests), NEW q \in Seq(Requests), NEW id
  PROVE  p \o q \in Seq(Requests) /\ Copies(p \o q, id) = Copies(p, id) + Copies(q, id)
<1> DEFINE r == p \o q
<1>1. /\ Len(p) \in Nat /\ Len(q) \in Nat /\ r \in Seq(Requests)
      /\ Len(r) = Len(p) + Len(q)
      /\ \A i \in 1..Len(p) : r[i] = p[i]
      /\ \A i \in 1..Len(q) : q[i] = r[i + Len(p)]
  OBVIOUS
<1> DEFINE P == WithId(id)
<1> HIDE DEF r, P
<1>2. {i \in 1..Len(p) : r[i] \in P} = Hits(p, P)
  BY <1>1 DEF Hits
<1>3. Cardinality(Hits(r, P))
        = Cardinality({i \in 1..Len(p) : r[i] \in P}) + Cardinality(Hits(q, P))
  <2>1. RestOf(r, Len(p), q) BY <1>1 DEF RestOf
  <2>2. SplitsAt(r, Len(p), q, P) BY <2>1, HitsSplit
  <2>3. QED BY <2>2 DEF SplitsAt
<1>4. QED BY <1>1, <1>2, <1>3, CopiesAreHits DEF r, P

LEMMA CopiesOne ==
  ASSUME NEW r \in Requests, NEW id
  PROVE  Copies(<<r>>, id) = (IF r.id = id THEN 1 ELSE 0)
<1>1. {i \in 1..Len(<<r>>) : <<r>>[i].id = id} = IF r.id = id THEN {1} ELSE {}
  OBVIOUS
<1>2. QED BY <1>1, FS_Singleton, FS_EmptySet DEF Copies

LEMMA CopiesAppend ==
  ASSUME NEW q \in Seq(Requests), NEW r \in Requests, NEW id
  PROVE  /\ Append(q, r) \in Seq(Requests)
         /\ Copies(Append(q, r), id) = Copies(q, id) + (IF r.id = id THEN 1 ELSE 0)
<1>1. Append(q, r) = q \o <<r>> OBVIOUS
<1>2. <<r>> \in Seq(Requests) OBVIOUS
<1>3. /\ q \o <<r>> \in Seq(Requests)
      /\ Copies(q \o <<r>>, id) = Copies(q, id) + Copies(<<r>>, id)
  BY <1>2, CopiesConcat
<1>4. QED BY <1>1, <1>3, CopiesOne

-----------------------------------------------------------------------------
(* What the running handler intends *)

\* The step e sends the request or calls its handler.
Acts(e, id) == e.do \in {"send", "resend", "call"} /\ e.req.id = id

Acting(id) == {e \in Steps : Acts(e, id)}

LEMMA IntendsAreHits ==
  ASSUME NEW t \in Seq(Steps), NEW id
  PROVE  Intends(t, id) = Cardinality(Hits(t, Acting(id)))
<1>1. \A i \in 1..Len(t) : t[i] \in Steps OBVIOUS
<1>2. {i \in 1..Len(t) : t[i].do \in {"send", "resend", "call"} /\ t[i].req.id = id}
        = Hits(t, Acting(id))
  BY <1>1 DEF Hits, Acting, Acts
<1>3. QED BY <1>2 DEF Intends

LEMMA IntendsNat ==
  ASSUME NEW t \in Seq(Steps), NEW id
  PROVE  Intends(t, id) \in Nat /\ Intends(<<>>, id) = 0
<1> DEFINE A == {i \in 1..Len(t) :
                   t[i].do \in {"send", "resend", "call"} /\ t[i].req.id = id}
<1>1. A \subseteq 1..Len(t) /\ Len(t) \in Nat OBVIOUS
<1>2. IsFiniteSet(1..Len(t)) BY <1>1, FS_Interval
<1>3. IsFiniteSet(A) BY <1>1, <1>2, FS_Subset
<1>4. {i \in 1..Len(<<>>) :
         <<>>[i].do \in {"send", "resend", "call"} /\ <<>>[i].req.id = id} = {}
  OBVIOUS
<1>5. QED BY <1>3, <1>4, FS_CardinalityType, FS_EmptySet DEF Intends

LEMMA IntendsConcat ==
  ASSUME NEW s \in Seq(Steps), NEW t \in Seq(Steps), NEW id
  PROVE  /\ s \o t \in Seq(Steps)
         /\ Intends(s \o t, id) = Intends(s, id) + Intends(t, id)
<1> DEFINE r == s \o t
<1>1. /\ Len(s) \in Nat /\ Len(t) \in Nat /\ r \in Seq(Steps)
      /\ Len(r) = Len(s) + Len(t)
      /\ \A i \in 1..Len(s) : r[i] = s[i]
      /\ \A i \in 1..Len(t) : t[i] = r[i + Len(s)]
  OBVIOUS
<1> DEFINE P == Acting(id)
<1> HIDE DEF r, P
<1>2. {i \in 1..Len(s) : r[i] \in P} = Hits(s, P) BY <1>1 DEF Hits
<1>3. Cardinality(Hits(r, P))
        = Cardinality({i \in 1..Len(s) : r[i] \in P}) + Cardinality(Hits(t, P))
  <2>1. RestOf(r, Len(s), t) BY <1>1 DEF RestOf
  <2>2. SplitsAt(r, Len(s), t, P) BY <2>1, HitsSplit
  <2>3. QED BY <2>2 DEF SplitsAt
<1>4. QED BY <1>1, <1>2, <1>3, IntendsAreHits DEF r, P

LEMMA IntendsTail ==
  ASSUME NEW t \in Seq(Steps), t # <<>>, NEW id
  PROVE  /\ Tail(t) \in Seq(Steps) /\ Head(t) \in Steps
         /\ Intends(t, id) = (IF Acts(Head(t), id) THEN 1 ELSE 0) + Intends(Tail(t), id)
<1> DEFINE r == Tail(t)
<1>1. /\ Len(t) \in Nat /\ Len(r) \in Nat /\ r \in Seq(Steps) /\ Len(t) = 1 + Len(r)
      /\ \A i \in 1..Len(r) : r[i] = t[i + 1]
      /\ Head(t) = t[1] /\ t[1] \in Steps
  OBVIOUS
<1> DEFINE P == Acting(id)
<1>2. t[1] \in P <=> Acts(Head(t), id) BY <1>1 DEF Acting
<1> HIDE DEF r, P
<1>3. Cardinality(Hits(t, P))
        = Cardinality({i \in 1..1 : t[i] \in P}) + Cardinality(Hits(r, P))
  <2>1. RestOf(t, 1, r) BY <1>1 DEF RestOf
  <2>2. SplitsAt(t, 1, r, P) BY <2>1, HitsSplit
  <2>3. QED BY <2>2 DEF SplitsAt
<1>4. Cardinality({i \in 1..1 : t[i] \in P}) = (IF t[1] \in P THEN 1 ELSE 0)
  BY OneHit
<1>5. QED BY <1>1, <1>2, <1>3, <1>4, IntendsAreHits DEF r, P

LEMMA IntendsOne ==
  ASSUME NEW e \in Steps, NEW id
  PROVE  <<e>> \in Seq(Steps) /\ Intends(<<e>>, id) = (IF Acts(e, id) THEN 1 ELSE 0)
<1>1. <<e>> \in Seq(Steps) /\ Len(<<e>>) = 1 /\ <<e>>[1] = e OBVIOUS
<1>2. CASE Acts(e, id)
  <2>1. {i \in 1..Len(<<e>>) :
           <<e>>[i].do \in {"send", "resend", "call"} /\ <<e>>[i].req.id = id} = {1}
    BY <1>1, <1>2 DEF Acts
  <2>2. QED BY <1>1, <1>2, <2>1, FS_Singleton DEF Intends
<1>3. CASE ~Acts(e, id)
  <2>1. {i \in 1..Len(<<e>>) :
           <<e>>[i].do \in {"send", "resend", "call"} /\ <<e>>[i].req.id = id} = {}
    BY <1>1, <1>3 DEF Acts
  <2>2. QED BY <1>1, <1>3, <2>1, FS_EmptySet DEF Intends
<1>4. QED BY <1>2, <1>3

\* A queue that is sent again, or whose handlers are called, is intended.
LEMMA IntendsEach ==
  ASSUME NEW q \in Seq(Requests), NEW id
  PROVE  /\ Each("send", q) \in Seq(Steps) /\ Errors(q) \in Seq(Steps)
         /\ ~Parses(Each("send", q)) /\ ~Parses(Errors(q))
         /\ Intends(Each("send", q), id) = Copies(q, id)
         /\ Intends(Errors(q), id) = Copies(q, id)
<1>1. \A i \in 1..Len(q) : q[i] \in Requests OBVIOUS
<1>2. Failure \in 0..MaxRequests + 1 BY RtspClientAssumption DEF Failure
<1>3. ASSUME NEW r \in Requests
      PROVE  /\ Entry("send", r) \in Steps /\ Call(r, Failure, FALSE) \in Steps
             /\ Entry("send", r).do = "send" /\ Call(r, Failure, FALSE).do = "call"
             /\ Entry("send", r).req = r /\ Call(r, Failure, FALSE).req = r
  BY <1>2 DEF Entry, Call, Steps
<1> DEFINE E == Each("send", q)
           F == Errors(q)
<1>4. /\ Len(E) = Len(q) /\ \A i \in 1..Len(q) : E[i] = Entry("send", q[i])
      /\ Len(F) = Len(q) /\ \A i \in 1..Len(q) : F[i] = Call(q[i], Failure, FALSE)
  BY DEF Each, Errors
<1>5. E \in Seq(Steps) /\ F \in Seq(Steps)
  <2>1. \A r \in Requests : Entry("send", r) \in Steps /\ Call(r, Failure, FALSE) \in Steps
    BY <1>3
  <2>2. E \in [1..Len(q) -> Steps] /\ F \in [1..Len(q) -> Steps]
    BY <1>1, <2>1 DEF Each, Errors
  <2> HIDE DEF E, F
  <2>3. Len(q) \in Nat OBVIOUS
  <2>4. QED BY <2>2, <2>3
<1> HIDE DEF E, F
<1>6. \A i \in 1..Len(q) : /\ E[i].do = "send" /\ E[i].req = q[i]
                           /\ F[i].do = "call" /\ F[i].req = q[i]
  <2> SUFFICES ASSUME NEW i \in 1..Len(q)
               PROVE  /\ E[i].do = "send" /\ E[i].req = q[i]
                      /\ F[i].do = "call" /\ F[i].req = q[i]
    OBVIOUS
  <2>1. q[i] \in Requests BY <1>1
  <2>2. E[i] = Entry("send", q[i]) /\ F[i] = Call(q[i], Failure, FALSE) BY <1>4
  <2>3. QED BY <2>2 DEF Entry, Call
<1>7. ~Parses(E) /\ ~Parses(F) BY <1>4, <1>6 DEF Parses
<1>8. Intends(E, id) = Copies(q, id)
  BY <1>4, <1>6 DEF Intends, Copies
<1>9. Intends(F, id) = Copies(q, id)
  BY <1>4, <1>6 DEF Intends, Copies
<1>10. QED BY <1>5, <1>7, <1>8, <1>9 DEF E, F

-----------------------------------------------------------------------------
(* The loop over the responses *)

LEMMA ParsesConcat ==
  ASSUME NEW s \in Seq(Steps), NEW t \in Seq(Steps), ~Parses(s)
  PROVE  /\ Parses(s \o t) => Parses(t)
         /\ ParseLast(t) => ParseLast(s \o t)
<1> DEFINE r == s \o t
<1>1. /\ Len(s) \in Nat /\ Len(t) \in Nat /\ Len(r) = Len(s) + Len(t)
      /\ \A i \in 1..Len(s) : r[i] = s[i]
      /\ \A i \in 1..Len(r) : i > Len(s) => r[i] = t[i - Len(s)]
  OBVIOUS
<1> HIDE DEF r
<1>2. ASSUME NEW i \in 1..Len(r), r[i].do = "parse"
      PROVE  i - Len(s) \in 1..Len(t) /\ t[i - Len(s)].do = "parse"
  <2>1. i > Len(s) BY <1>1, <1>2 DEF Parses
  <2>2. QED BY <1>1, <1>2, <2>1
<1>3. Parses(r) => Parses(t) BY <1>2 DEF Parses
<1>4. ASSUME ParseLast(t), NEW i \in 1..Len(r), r[i].do = "parse" PROVE i = Len(r)
  <2>1. i - Len(s) = Len(t) BY <1>2, <1>4 DEF ParseLast
  <2>2. QED BY <1>1, <2>1
<1>5. QED BY <1>3, <1>4 DEF r, ParseLast

LEMMA ParsesTail ==
  ASSUME NEW t \in Seq(Steps), t # <<>>
  PROVE  /\ Parses(Tail(t)) => Parses(t)
         /\ ParseLast(t) => ParseLast(Tail(t))
         /\ ParseLast(t) /\ Head(t).do = "parse" => Tail(t) = <<>>
         /\ Head(t).do = "parse" => Parses(t)
<1> DEFINE r == Tail(t)
<1>1. /\ Len(t) \in Nat /\ Len(r) \in Nat /\ Len(t) = Len(r) + 1
      /\ \A i \in 1..Len(r) : r[i] = t[i + 1]
      /\ Head(t) = t[1] /\ r \in Seq(Steps)
  OBVIOUS
<1> HIDE DEF r
<1>2. Len(r) = 0 => r = <<>> BY <1>1
<1>3. \A i \in 1..Len(r) : i + 1 \in 1..Len(t) BY <1>1
<1>4. 1 \in 1..Len(t) BY <1>1
<1>5. Parses(r) => Parses(t) BY <1>1, <1>3 DEF Parses
<1>6. ASSUME ParseLast(t), NEW i \in 1..Len(r), r[i].do = "parse" PROVE i = Len(r)
  <2>1. i + 1 = Len(t) BY <1>1, <1>3, <1>6 DEF ParseLast
  <2>2. QED BY <1>1, <2>1
<1>7. ASSUME ParseLast(t), Head(t).do = "parse" PROVE r = <<>>
  <2>1. Len(t) = 1 BY <1>1, <1>4, <1>7 DEF ParseLast
  <2>2. QED BY <1>1, <1>2, <2>1
<1>8. Head(t).do = "parse" => Parses(t) BY <1>1, <1>4 DEF Parses
<1>9. QED BY <1>5, <1>6, <1>7, <1>8 DEF r, ParseLast

-----------------------------------------------------------------------------
(* Steps and requests *)

\* A request is a command of the program, or it is the GET.
LEMMA RequestFacts ==
  ASSUME NEW r \in Requests
  PROVE  /\ r.id \in 1..MaxRequests + 1 /\ r.cseq \in Nat \ {0}
         /\ r.id \in Ids \/ r = GET
         /\ GET.id \notin Ids
<1>1. GET.id = MaxRequests + 1 /\ GET.cseq = 1 BY DEF GET
<1>2. MaxRequests \in Nat /\ Ids = 1..MaxRequests BY RtspClientAssumption DEF Ids
<1>3. CASE r \in [id : Ids, cseq : Nat \ {0}] BY <1>1, <1>2, <1>3
<1>4. CASE r = GET BY <1>1, <1>2, <1>4
<1>5. QED BY <1>3, <1>4 DEF Requests

LEMMA StepFacts ==
  /\ GET \in Requests /\ GET.id \notin Ids /\ Failure \in 0..MaxRequests + 1
  /\ HandlerRuns \in Steps /\ ParseFirst \in Steps /\ ParseMore \in Steps
  /\ HandlerRuns.do = "handler" /\ ParseFirst.do = "parse" /\ ParseMore.do = "parse"
  /\ \A id : ~Acts(HandlerRuns, id) /\ ~Acts(ParseFirst, id) /\ ~Acts(ParseMore, id)
<1>1. GET \in Requests /\ GET.id = MaxRequests + 1 /\ MaxRequests + 1 \notin Ids
  BY RtspClientAssumption DEF GET, Requests, Ids
<1>2. Failure \in 0..MaxRequests + 1 BY RtspClientAssumption DEF Failure
<1>3. HandlerRuns \in Steps /\ ParseFirst \in Steps
  BY <1>1, <1>2 DEF HandlerRuns, ParseFirst, Entry, Steps
<1>4. /\ ParseMore \in Steps
      /\ HandlerRuns.do = "handler" /\ ParseFirst.do = "parse" /\ ParseMore.do = "parse"
  BY <1>3 DEF ParseMore, ParseFirst, HandlerRuns, Entry, Steps
<1>5. QED BY <1>1, <1>2, <1>3, <1>4 DEF Acts

\* An entry that sends r.
LEMMA EntryFacts ==
  ASSUME NEW r \in Requests, NEW w \in {"send", "resend", "again"}
  PROVE  /\ Entry(w, r) \in Steps /\ Entry(w, r).do = w /\ Entry(w, r).req = r
         /\ \A id : Acts(Entry(w, r), id) <=> (w # "again" /\ r.id = id)
<1>1. Entry(w, r) \in Steps BY StepFacts DEF Entry, Steps
<1>2. Entry(w, r).do = w /\ Entry(w, r).req = r BY DEF Entry
<1>3. QED BY <1>1, <1>2 DEF Acts

\* An entry that calls the handler of r.
LEMMA CallFacts ==
  ASSUME NEW r \in Requests, NEW from \in 0..MaxRequests + 1, NEW ok \in BOOLEAN
  PROVE  /\ Call(r, from, ok) \in Steps /\ Call(r, from, ok).do = "call"
         /\ \A id : Acts(Call(r, from, ok), id) <=> r.id = id
<1>1. Call(r, from, ok) \in Steps BY DEF Call, Steps
<1>2. Call(r, from, ok).do = "call" /\ Call(r, from, ok).req = r BY DEF Call
<1>3. QED BY <1>1, <1>2 DEF Acts

LEMMA ParsesOne ==
  ASSUME NEW e
  PROVE  /\ Parses(<<e>>) <=> e.do = "parse"
         /\ ParseLast(<<e>>) /\ ParseLast(<<>>) /\ ~Parses(<<>>)
BY DEF Parses, ParseLast

\* What a failed sendRequest leaves to do for its request.
LEMMA FailedFacts ==
  ASSUME NEW e \in Steps, NEW id
  PROVE  /\ Failed(e) \in Seq(Steps) /\ ~Parses(Failed(e))
         /\ Intends(Failed(e), id) = (IF e.req.id = id THEN 1 ELSE 0)
<1> DEFINE c == Call(e.req, Failure, FALSE)
           a == Entry("again", e.req)
<1>1. e.req \in Requests BY DEF Steps
<1>2. c \in Steps /\ c.do = "call" /\ (Acts(c, id) <=> e.req.id = id)
  BY <1>1, CallFacts, StepFacts
<1>3. a \in Steps /\ a.do = "again" /\ ~Acts(a, id) BY <1>1, EntryFacts
<1>4. Failed(e) = <<c>> \o (IF e.do = "resend" THEN <<a>> ELSE <<>>)
  BY DEF Failed
<1> HIDE DEF a, c
<1>5. /\ <<c>> \in Seq(Steps) /\ Intends(<<c>>, id) = (IF e.req.id = id THEN 1 ELSE 0)
      /\ <<a>> \in Seq(Steps) /\ Intends(<<a>>, id) = 0
      /\ ~Parses(<<c>>) /\ ~Parses(<<a>>)
  BY <1>2, <1>3, IntendsOne, ParsesOne
<1>6. CASE e.do = "resend"
  <2>1. Failed(e) = <<c>> \o <<a>> BY <1>4, <1>6
  <2>2. <<c>> \o <<a>> \in Seq(Steps)
        /\ Intends(<<c>> \o <<a>>, id) = Intends(<<c>>, id) + Intends(<<a>>, id)
    BY <1>5, IntendsConcat
  <2>3. ~Parses(<<c>> \o <<a>>) BY <1>5, ParsesConcat
  <2>4. Intends(<<c>> \o <<a>>, id) = (IF e.req.id = id THEN 1 ELSE 0)
    BY <1>5, <2>2
  <2>5. QED BY <2>1, <2>2, <2>3, <2>4
<1>7. CASE e.do # "resend"
  <2>1. Failed(e) = <<c>> BY <1>4, <1>7
  <2>2. QED BY <1>5, <2>1
<1>8. QED BY <1>6, <1>7

-----------------------------------------------------------------------------
(* What a step has to keep *)

\* The places of each request sum up to what they were.
SameTotals ==
  /\ sent' = sent /\ broken' = broken
  /\ \A id \in Ids : Total(id)' = Total(id)

LEMMA KeepsAccounted ==
  ASSUME Accounted, SameTotals
  PROVE  Accounted'
BY DEF Accounted, SameTotals

LEMMA TotalNat ==
  ASSUME TypeOK, NEW id \in Ids
  PROVE  /\ Copies(awaitingConnection, id) \in Nat
         /\ Copies(awaitingTunneling, id) \in Nat
         /\ Copies(awaitingResponse, id) \in Nat
         /\ Intends(todo, id) \in Nat /\ Len(outcomes[id]) \in Nat
<1>1. /\ awaitingConnection \in Seq(Requests) /\ awaitingTunneling \in Seq(Requests)
      /\ awaitingResponse \in Seq(Requests) /\ todo \in Seq(Steps)
      /\ outcomes[id] \in Seq(0..MaxRequests + 1)
  BY DEF TypeOK
<1>2. Len(outcomes[id]) \in Nat BY <1>1
<1>3. QED BY <1>1, <1>2, CopiesNat, IntendsNat

\* The steps that only go on with todo, and the parts that they put in front.
LEMMA KeepsParsing ==
  ASSUME NEW s \in Seq(Steps), NEW t \in Seq(Steps), ~Parses(s),
         ParseLast(t), Parses(t) => buffer # <<>>, todo' = s \o t, buffer' = buffer
  PROVE  ParseInv'
BY ParsesConcat DEF ParseInv

LEMMA SendCommandKeeps ==
  ASSUME IInv, SendCommand
  PROVE  IInv'
<1> DEFINE r == [id |-> sent', cseq |-> cseq']
           e == Entry("send", r)
<1>1. /\ TypeOK /\ todo \in Seq(Steps) /\ sent \in 0..MaxRequests
      /\ cseq \in Nat \ {0} /\ sent' = sent + 1 /\ cseq' = cseq + 1 /\ sent < MaxRequests
      /\ MaxRequests \in Nat
  BY RtspClientAssumption DEF IInv, TypeOK, SendCommand
<1>2. r \in Requests /\ r.id = sent + 1
  <2>1. sent' \in Ids /\ cseq' \in Nat \ {0} BY <1>1 DEF Ids
  <2>2. r \in [id : Ids, cseq : Nat \ {0}] BY <2>1
  <2>3. QED BY <1>1, <2>2 DEF Requests
<1>3. todo' = <<e>> \o todo BY DEF SendCommand
<1> HIDE DEF r
<1>4. e \in Steps /\ e.do = "send" /\ \A id : Acts(e, id) <=> r.id = id
  BY <1>2, EntryFacts
<1> HIDE DEF e
<1>5. <<e>> \in Seq(Steps) /\ <<e>> \o todo \in Seq(Steps) BY <1>1, <1>4
<1>6. TypeOK'
  <2>1. sent' \in 0..MaxRequests /\ cseq' \in Nat \ {0} BY <1>1
  <2>2. todo' \in Seq(Steps) BY <1>3, <1>5
  <2>3. QED BY <1>1, <2>1, <2>2
          DEF TypeOK, SendCommand, queues, sockets, results, bounds
<1>7. Accounted'
  <2> SUFFICES ASSUME ~broken', NEW id \in Ids
               PROVE  Total(id)' = (IF id <= sent' THEN 1 ELSE 0)
    BY DEF Accounted
  <2>1. ~broken BY DEF SendCommand, results
  <2>2. Total(id) = (IF id <= sent THEN 1 ELSE 0) BY <2>1 DEF IInv, Accounted
  <2>3. Intends(<<e>>, id) = (IF id = sent + 1 THEN 1 ELSE 0)
    BY <1>2, <1>4, IntendsOne
  <2>4. Intends(<<e>> \o todo, id) = Intends(<<e>>, id) + Intends(todo, id)
    <3> DEFINE s == <<e>>
    <3>1. s \in Seq(Steps) BY <1>5
    <3> HIDE DEF s
    <3>2. Intends(s \o todo, id) = Intends(s, id) + Intends(todo, id)
      BY <1>1, <3>1, IntendsConcat
    <3>3. QED BY <3>2 DEF s
  <2>5. /\ Intends(todo, id) \in Nat /\ Copies(awaitingConnection, id) \in Nat
        /\ Copies(awaitingTunneling, id) \in Nat /\ Copies(awaitingResponse, id) \in Nat
        /\ Len(outcomes[id]) \in Nat
    BY <1>1, TotalNat
  <2>6. /\ awaitingConnection' = awaitingConnection
        /\ awaitingTunneling' = awaitingTunneling
        /\ awaitingResponse' = awaitingResponse
        /\ outcomes' = outcomes /\ dropped' = dropped
    BY DEF SendCommand, queues, results
  <2>7. Total(id)' = Total(id) + (IF id = sent + 1 THEN 1 ELSE 0)
    <3>1. Intends(todo', id) = (IF id = sent + 1 THEN 1 ELSE 0) + Intends(todo, id)
      BY <1>3, <2>3, <2>4
    <3> DEFINE a == Copies(awaitingConnection, id)
               b == Copies(awaitingTunneling, id)
               c == Copies(awaitingResponse, id)
               o == Len(outcomes[id])
               d == IF id \in dropped THEN 1 ELSE 0
               k == IF id = sent + 1 THEN 1 ELSE 0
    <3>2. /\ k \in Nat /\ d \in Nat /\ a \in Nat /\ b \in Nat /\ c \in Nat /\ o \in Nat
          /\ Intends(todo, id) \in Nat
      BY <2>5
    <3>3. Intends(todo', id) = k + Intends(todo, id) BY <3>1
    <3>4. /\ Total(id) = a + b + c + Intends(todo, id) + o + d
          /\ Total(id)' = a + b + c + Intends(todo', id) + o + d
      BY <2>6 DEF Total
    <3> HIDE DEF a, b, c, o, d, k
    <3>5. Total(id)' = Total(id) + k BY <3>2, <3>3, <3>4
    <3> QED BY <3>5 DEF k
  <2>8. id \in Nat BY <1>1 DEF Ids
  <2>9. QED BY <1>1, <2>2, <2>7, <2>8
<1>8. ParseInv'
  <2>1. ~Parses(<<e>>) BY <1>4, ParsesOne
  <2>2. buffer' = buffer BY DEF SendCommand
  <2>3. ParseLast(todo) /\ (Parses(todo) => buffer # <<>>) BY DEF IInv, ParseInv
  <2>4. QED BY <1>1, <1>3, <1>5, <2>1, <2>2, <2>3, KeepsParsing
<1>9. QED BY <1>6, <1>7, <1>8 DEF IInv

-----------------------------------------------------------------------------
(* Sending *)

\* t is a sequence of steps that may come after the buffer's responses.
GoodTodo(t) == t \in Seq(Steps) /\ ParseLast(t) /\ (Parses(t) => buffer # <<>>)

\* The first step of todo taken off: the rest intends what it did not do.
LEMMA RestFacts ==
  ASSUME IInv, todo # <<>>
  PROVE  /\ Head(todo) \in Steps /\ Tail(todo) \in Seq(Steps) /\ GoodTodo(Tail(todo))
         /\ \A id : Intends(Tail(todo), id) \in Nat
         /\ \A id : Intends(todo, id) =
              (IF Acts(Head(todo), id) THEN 1 ELSE 0) + Intends(Tail(todo), id)
<1>1. todo \in Seq(Steps) /\ ParseLast(todo) /\ (Parses(todo) => buffer # <<>>)
  BY DEF IInv, TypeOK, ParseInv
<1>2. /\ Head(todo) \in Steps /\ Tail(todo) \in Seq(Steps)
      /\ \A id : Intends(todo, id) =
           (IF Acts(Head(todo), id) THEN 1 ELSE 0) + Intends(Tail(todo), id)
  BY <1>1, IntendsTail
<1>3. \A id : Intends(Tail(todo), id) \in Nat BY <1>2, IntendsNat
<1>4. GoodTodo(Tail(todo)) BY <1>1, <1>2, ParsesTail DEF GoodTodo
<1>5. QED BY <1>2, <1>3, <1>4

\* Steps put in front of the rest.
LEMMA FrontFacts ==
  ASSUME NEW s \in Seq(Steps), NEW t \in Seq(Steps), ~Parses(s), GoodTodo(t)
  PROVE  /\ GoodTodo(s \o t)
         /\ \A id : Intends(s \o t, id) = Intends(s, id) + Intends(t, id)
<1>1. s \o t \in Seq(Steps) /\ \A id : Intends(s \o t, id) = Intends(s, id) + Intends(t, id)
  BY IntendsConcat
<1>2. ParseLast(s \o t) /\ (Parses(s \o t) => buffer # <<>>)
  BY ParsesConcat DEF GoodTodo
<1>3. QED BY <1>1, <1>2 DEF GoodTodo

LEMMA SendFacts ==
  ASSUME IInv, Doing("send") \/ Doing("resend")
  PROVE  /\ Head(todo).req \in Requests
         /\ GoodTodo(Tail(todo)) /\ GoodTodo(Failed(Head(todo)) \o Tail(todo))
         /\ GoodTodo(<<Call(GET, Failure, FALSE)>> \o Failed(Head(todo)) \o Tail(todo))
         /\ \A id \in Ids :
              /\ Intends(Tail(todo), id) \in Nat
              /\ Intends(todo, id) = (IF Head(todo).req.id = id THEN 1 ELSE 0)
                                       + Intends(Tail(todo), id)
              /\ Intends(Failed(Head(todo)) \o Tail(todo), id) = Intends(todo, id)
              /\ Intends(<<Call(GET, Failure, FALSE)>> \o Failed(Head(todo))
                           \o Tail(todo), id) = Intends(todo, id)
<1> DEFINE h == Head(todo)
           t == Tail(todo)
           f == Failed(h)
           c == Call(GET, Failure, FALSE)
           g == <<c>>
<1>1. todo # <<>> /\ h.do \in {"send", "resend"} BY DEF Doing
<1>2. /\ h \in Steps /\ t \in Seq(Steps) /\ GoodTodo(t)
      /\ \A id : Intends(t, id) \in Nat
      /\ \A id : Intends(todo, id) = (IF Acts(h, id) THEN 1 ELSE 0) + Intends(t, id)
  BY <1>1, RestFacts
<1>3. h.req \in Requests BY <1>2 DEF Steps
<1>4. \A id : Acts(h, id) <=> h.req.id = id BY <1>1 DEF Acts
<1> HIDE DEF h, t
<1>5. f \in Seq(Steps) /\ ~Parses(f)
      /\ \A id : Intends(f, id) = (IF h.req.id = id THEN 1 ELSE 0)
  BY <1>2, FailedFacts
<1>6. c \in Steps /\ c.do = "call" /\ \A id : Acts(c, id) <=> GET.id = id
  BY StepFacts, CallFacts
<1> HIDE DEF c
<1>7. g \in Seq(Steps) /\ ~Parses(g) /\ \A id \in Ids : Intends(g, id) = 0
  <2>1. \A id \in Ids : ~Acts(c, id) BY <1>6, StepFacts
  <2>2. ~Parses(g) BY <1>6, ParsesOne
  <2>3. g \in Seq(Steps) BY <1>6
  <2>4. \A id \in Ids : Intends(g, id) = 0 BY <1>6, <2>1, IntendsOne
  <2>5. QED BY <2>2, <2>3, <2>4
<1> HIDE DEF f, g
<1>8. GoodTodo(f \o t) /\ \A id : Intends(f \o t, id) = Intends(f, id) + Intends(t, id)
  BY <1>2, <1>5, FrontFacts
<1>9. f \o t \in Seq(Steps) BY <1>8 DEF GoodTodo
<1>10. /\ GoodTodo(g \o (f \o t))
       /\ \A id : Intends(g \o (f \o t), id) = Intends(g, id) + Intends(f \o t, id)
  BY <1>7, <1>8, <1>9, FrontFacts
<1>11. g \o f \o t = g \o (f \o t) BY <1>2, <1>5, <1>7
<1>12. \A id \in Ids :
         /\ Intends(t, id) \in Nat
         /\ Intends(todo, id) = (IF h.req.id = id THEN 1 ELSE 0) + Intends(t, id)
         /\ Intends(f \o t, id) = Intends(todo, id)
         /\ Intends(g \o (f \o t), id) = Intends(todo, id)
  <2> TAKE id \in Ids
  <2>1. Intends(todo, id) = (IF h.req.id = id THEN 1 ELSE 0) + Intends(t, id)
        /\ Intends(t, id) \in Nat
    BY <1>2, <1>4
  <2>2. Intends(f \o t, id) = Intends(todo, id) BY <1>5, <1>8, <2>1
  <2>3. Intends(todo, id) \in Nat BY <2>1
  <2>4. Intends(g \o (f \o t), id) = Intends(todo, id) BY <1>7, <1>10, <2>2, <2>3
  <2>5. QED BY <2>1, <2>2, <2>4
<1>13. QED BY <1>2, <1>3, <1>8, <1>10, <1>11, <1>12 DEF h, t, f, g, c

\* The places a request can be in before its handler is called.
Held(id) ==
  Copies(awaitingConnection, id) + Copies(awaitingTunneling, id)
    + Copies(awaitingResponse, id) + Intends(todo, id)

SameHeld == \A id \in Ids : Held(id)' = Held(id)

\* What sendRequest changes, and that it loses and doubles no request.
SendsSoundly ==
  /\ awaitingConnection' \in Seq(Requests) /\ awaitingTunneling' \in Seq(Requests)
  /\ awaitingResponse' \in Seq(Requests) /\ unanswered' \in Seq(Requests)
  /\ input' \in {"none", "connecting", "open"}
  /\ output' \in {"same", "connecting", "own"}
  /\ faults' \in 0..MaxFaults
  /\ GoodTodo(todo')
  /\ SameHeld

LEMMA QueueTypes ==
  ASSUME IInv
  PROVE  /\ awaitingConnection \in Seq(Requests) /\ awaitingTunneling \in Seq(Requests)
         /\ awaitingResponse \in Seq(Requests) /\ unanswered \in Seq(Requests)
         /\ input \in {"none", "connecting", "open"}
         /\ output \in {"same", "connecting", "own"}
         /\ faults \in 0..MaxFaults /\ GoodTodo(todo)
         /\ \A id \in Ids :
              /\ Copies(awaitingConnection, id) \in Nat
              /\ Copies(awaitingTunneling, id) \in Nat
              /\ Copies(awaitingResponse, id) \in Nat
              /\ Intends(todo, id) \in Nat /\ Len(outcomes[id]) \in Nat
<1>1. TypeOK /\ ParseInv BY DEF IInv
<1>2. \A id \in Ids :
        /\ Copies(awaitingConnection, id) \in Nat
        /\ Copies(awaitingTunneling, id) \in Nat
        /\ Copies(awaitingResponse, id) \in Nat
        /\ Intends(todo, id) \in Nat /\ Len(outcomes[id]) \in Nat
  BY <1>1, TotalNat
<1>3. QED BY <1>1, <1>2 DEF TypeOK, ParseInv, GoodTodo

\* How often a request is in each place is a number.
LEMMA CountTypes ==
  ASSUME IInv, NEW id \in Ids
  PROVE  /\ Copies(awaitingConnection, id) \in Nat
         /\ Copies(awaitingTunneling, id) \in Nat
         /\ Copies(awaitingResponse, id) \in Nat
         /\ Intends(todo, id) \in Nat /\ Len(outcomes[id]) \in Nat
BY QueueTypes

LEMMA FaultType ==
  ASSUME IInv, Fault
  PROVE  faults' \in 0..MaxFaults
BY RtspClientAssumption DEF IInv, TypeOK, Fault

LEMMA EnqueueSound ==
  ASSUME IInv, Doing("send") \/ Doing("resend"),
         EnqueueBehind(Head(todo).req, Tail(todo)), output' = output
  PROVE  SendsSoundly
<1> DEFINE r == Head(todo).req
<1>1. r \in Requests /\ GoodTodo(Tail(todo)) BY SendFacts
<1>2. /\ awaitingConnection' = Append(awaitingConnection, r) /\ todo' = Tail(todo)
      /\ awaitingTunneling' = awaitingTunneling /\ awaitingResponse' = awaitingResponse
      /\ input' = input /\ unanswered' = unanswered /\ faults' = faults
  BY DEF EnqueueBehind, sockets
<1>3. \A id \in Ids : Intends(todo, id) = (IF r.id = id THEN 1 ELSE 0)
                                            + Intends(Tail(todo), id)
                      /\ Intends(Tail(todo), id) \in Nat
  BY SendFacts
<1> HIDE DEF r
<1>4. /\ Append(awaitingConnection, r) \in Seq(Requests)
      /\ \A id \in Ids : Copies(Append(awaitingConnection, r), id)
                           = Copies(awaitingConnection, id)
                               + (IF r.id = id THEN 1 ELSE 0)
  BY <1>1, QueueTypes, CopiesAppend
<1>5. ASSUME NEW id \in Ids PROVE Held(id)' = Held(id)
  <2>1. Copies(awaitingConnection', id)
          = Copies(awaitingConnection, id) + (IF r.id = id THEN 1 ELSE 0)
    BY <1>2, <1>4
  <2>2. /\ Intends(todo, id) = (IF r.id = id THEN 1 ELSE 0) + Intends(todo', id)
        /\ Intends(todo', id) \in Nat
    BY <1>2, <1>3
  <2>3. QED BY <1>2, <2>1, <2>2, CountTypes DEF Held
<1>6. QED BY <1>1, <1>2, <1>4, <1>5, QueueTypes DEF SendsSoundly, SameHeld

LEMMA OpenSound ==
  ASSUME IInv, Doing("send") \/ Doing("resend"),
         OpenConnection(Head(todo).req, Tail(todo), Failed(Head(todo)))
  PROVE  SendsSoundly
<1> DEFINE r == Head(todo).req
           f == Failed(Head(todo))
<1>1. /\ r \in Requests /\ GoodTodo(Tail(todo)) /\ GoodTodo(f \o Tail(todo))
      /\ \A id \in Ids : /\ Intends(todo, id) = (IF r.id = id THEN 1 ELSE 0)
                                                  + Intends(Tail(todo), id)
                         /\ Intends(Tail(todo), id) \in Nat
                         /\ Intends(f \o Tail(todo), id) = Intends(todo, id)
  BY SendFacts
<1>2. /\ awaitingConnection = <<>> /\ awaitingTunneling' = awaitingTunneling
      /\ awaitingResponse' = awaitingResponse
      /\ output' = output /\ unanswered' = unanswered
  BY DEF OpenConnection
<1>3. \/ /\ input' = "connecting" /\ awaitingConnection' = <<r>>
         /\ todo' = Tail(todo) /\ faults' = faults
      \/ /\ input' = "open" /\ awaitingConnection' = awaitingConnection
         /\ todo' = todo /\ faults' = faults
      \/ /\ Fault /\ todo' = f \o Tail(todo)
         /\ input' = input /\ awaitingConnection' = awaitingConnection
  BY DEF OpenConnection
<1> HIDE DEF r, f
<1>4. CASE /\ input' = "connecting" /\ awaitingConnection' = <<r>>
           /\ todo' = Tail(todo) /\ faults' = faults
  <2>1. /\ <<r>> \in Seq(Requests)
        /\ \A id \in Ids : Copies(<<r>>, id) = (IF r.id = id THEN 1 ELSE 0)
    BY <1>1, CopiesOne
  <2>2. \A id \in Ids : Copies(awaitingConnection, id) = 0
    BY <1>2, QueueTypes, CopiesNat
  <2>3. ASSUME NEW id \in Ids PROVE Held(id)' = Held(id)
    <3>1. Copies(awaitingConnection', id) = (IF r.id = id THEN 1 ELSE 0)
      BY <1>4, <2>1
    <3>2. Copies(awaitingConnection, id) = 0 BY <2>2
    <3>3. QED BY <1>1, <1>2, <1>4, <3>1, <3>2, CountTypes DEF Held
  <2>4. QED BY <1>1, <1>2, <1>4, <2>1, <2>3, QueueTypes DEF SendsSoundly, SameHeld
<1>5. CASE /\ input' = "open" /\ awaitingConnection' = awaitingConnection
           /\ todo' = todo /\ faults' = faults
  BY <1>2, <1>5, QueueTypes DEF SendsSoundly, SameHeld, Held
<1>6. CASE /\ Fault /\ todo' = f \o Tail(todo)
           /\ input' = input /\ awaitingConnection' = awaitingConnection
  <2>1. faults' \in 0..MaxFaults BY <1>6, FaultType
  <2>2. ASSUME NEW id \in Ids PROVE Held(id)' = Held(id) BY <1>1, <1>2, <1>6 DEF Held
  <2>3. QED BY <1>1, <1>2, <1>6, <2>1, <2>2, QueueTypes DEF SendsSoundly, SameHeld
<1>7. QED BY <1>3, <1>4, <1>5, <1>6

LEMMA TunnelSound ==
  ASSUME IInv, Doing("send") \/ Doing("resend"),
         SetupTunnel(Head(todo).req, Tail(todo), Failed(Head(todo))),
         awaitingConnection' = awaitingConnection, input' = input, output' = output
  PROVE  SendsSoundly
<1> DEFINE r == Head(todo).req
           t == Tail(todo)
           g == <<Call(GET, Failure, FALSE)>> \o Failed(Head(todo)) \o t
<1>1. /\ r \in Requests /\ GoodTodo(t) /\ GoodTodo(g)
      /\ \A id \in Ids : /\ Intends(todo, id) = (IF r.id = id THEN 1 ELSE 0)
                                                  + Intends(t, id)
                         /\ Intends(t, id) \in Nat
                         /\ Intends(g, id) = Intends(todo, id)
  BY SendFacts
<1>2. \/ /\ awaitingResponse' = Append(awaitingResponse, GET)
         /\ unanswered' = Append(unanswered, GET)
         /\ awaitingTunneling' = Append(awaitingTunneling, r)
         /\ todo' = t /\ faults' = faults
      \/ /\ Fault /\ todo' = g /\ awaitingResponse' = awaitingResponse
         /\ awaitingTunneling' = awaitingTunneling /\ unanswered' = unanswered
  BY DEF SetupTunnel, Transmit
<1> HIDE DEF r, t, g
<1>3. CASE /\ awaitingResponse' = Append(awaitingResponse, GET)
           /\ unanswered' = Append(unanswered, GET)
           /\ awaitingTunneling' = Append(awaitingTunneling, r)
           /\ todo' = t /\ faults' = faults
  <2>1. /\ Append(awaitingResponse, GET) \in Seq(Requests)
        /\ \A id \in Ids : Copies(Append(awaitingResponse, GET), id)
             = Copies(awaitingResponse, id) + (IF GET.id = id THEN 1 ELSE 0)
    BY StepFacts, QueueTypes, CopiesAppend
  <2>2. /\ Append(awaitingTunneling, r) \in Seq(Requests)
        /\ \A id \in Ids : Copies(Append(awaitingTunneling, r), id)
             = Copies(awaitingTunneling, id) + (IF r.id = id THEN 1 ELSE 0)
    BY <1>1, QueueTypes, CopiesAppend
  <2>3. Append(unanswered, GET) \in Seq(Requests) BY StepFacts, QueueTypes
  <2>4. ASSUME NEW id \in Ids PROVE Held(id)' = Held(id)
    <3>1. Copies(awaitingResponse', id) = Copies(awaitingResponse, id)
      <4>1. GET.id # id BY StepFacts
      <4>2. Copies(awaitingResponse', id) = Copies(awaitingResponse, id) + 0
        BY <1>3, <2>1, <4>1
      <4>3. QED BY <4>2, QueueTypes
    <3>2. Copies(awaitingTunneling', id)
            = Copies(awaitingTunneling, id) + (IF r.id = id THEN 1 ELSE 0)
      BY <1>3, <2>2
    <3>3. Copies(awaitingConnection', id) = Copies(awaitingConnection, id) OBVIOUS
    <3>4. /\ Intends(todo, id) = (IF r.id = id THEN 1 ELSE 0) + Intends(todo', id)
          /\ Intends(todo', id) \in Nat
      BY <1>1, <1>3
    <3>5. QED BY <3>1, <3>2, <3>3, <3>4, CountTypes DEF Held
  <2>5. QED BY <1>1, <1>3, <2>1, <2>2, <2>3, <2>4, QueueTypes DEF SendsSoundly, SameHeld
<1>4. CASE /\ Fault /\ todo' = g /\ awaitingResponse' = awaitingResponse
           /\ awaitingTunneling' = awaitingTunneling /\ unanswered' = unanswered
  <2>1. faults' \in 0..MaxFaults BY <1>4, FaultType
  <2>2. ASSUME NEW id \in Ids PROVE Held(id)' = Held(id) BY <1>1, <1>4 DEF Held
  <2>3. QED BY <1>1, <1>4, <2>1, <2>2, QueueTypes DEF SendsSoundly, SameHeld
<1>5. QED BY <1>2, <1>3, <1>4

LEMMA TransferSound ==
  ASSUME IInv, Doing("send") \/ Doing("resend"),
         Transfer(Head(todo).req, Tail(todo), Failed(Head(todo))),
         awaitingConnection' = awaitingConnection, input' = input, output' = output
  PROVE  SendsSoundly
<1> DEFINE r == Head(todo).req
           t == Tail(todo)
           g == Failed(Head(todo)) \o t
<1>1. /\ r \in Requests /\ GoodTodo(t) /\ GoodTodo(g)
      /\ \A id \in Ids : /\ Intends(todo, id) = (IF r.id = id THEN 1 ELSE 0)
                                                  + Intends(t, id)
                         /\ Intends(t, id) \in Nat
                         /\ Intends(g, id) = Intends(todo, id)
  BY SendFacts
<1>2. awaitingTunneling' = awaitingTunneling BY DEF Transfer
<1>3. \/ /\ awaitingResponse' = Append(awaitingResponse, r)
         /\ unanswered' = Append(unanswered, r)
         /\ todo' = t /\ faults' = faults
      \/ /\ Fault /\ todo' = g /\ awaitingResponse' = awaitingResponse
         /\ unanswered' = unanswered
  BY DEF Transfer, Transmit
<1> HIDE DEF r, t, g
<1>4. CASE /\ awaitingResponse' = Append(awaitingResponse, r)
           /\ unanswered' = Append(unanswered, r)
           /\ todo' = t /\ faults' = faults
  <2>1. /\ Append(awaitingResponse, r) \in Seq(Requests)
        /\ \A id \in Ids : Copies(Append(awaitingResponse, r), id)
             = Copies(awaitingResponse, id) + (IF r.id = id THEN 1 ELSE 0)
    BY <1>1, QueueTypes, CopiesAppend
  <2>2. Append(unanswered, r) \in Seq(Requests) BY <1>1, QueueTypes
  <2>3. ASSUME NEW id \in Ids PROVE Held(id)' = Held(id)
    <3>1. Copies(awaitingResponse', id)
            = Copies(awaitingResponse, id) + (IF r.id = id THEN 1 ELSE 0)
      BY <1>4, <2>1
    <3>2. /\ Intends(todo, id) = (IF r.id = id THEN 1 ELSE 0) + Intends(todo', id)
          /\ Intends(todo', id) \in Nat
      BY <1>1, <1>4
    <3>3. QED BY <1>2, <3>1, <3>2, CountTypes DEF Held
  <2>4. QED BY <1>1, <1>2, <1>4, <2>1, <2>2, <2>3, QueueTypes
          DEF SendsSoundly, SameHeld
<1>5. CASE /\ Fault /\ todo' = g /\ awaitingResponse' = awaitingResponse
           /\ unanswered' = unanswered
  <2>1. faults' \in 0..MaxFaults BY <1>5, FaultType
  <2>2. ASSUME NEW id \in Ids PROVE Held(id)' = Held(id) BY <1>1, <1>2, <1>5 DEF Held
  <2>3. QED BY <1>1, <1>2, <1>5, <2>1, <2>2, QueueTypes DEF SendsSoundly, SameHeld
<1>6. QED BY <1>3, <1>4, <1>5

\* While a step calls no handler and deletes no request, it is enough that it
\* keeps the requests held.
LEMMA HeldAccounted ==
  ASSUME IInv, SameHeld, sent' = sent, broken' = broken, outcomes' = outcomes,
         dropped' = dropped
  PROVE  Accounted'
<1>1. ASSUME NEW id \in Ids PROVE Total(id)' = Total(id)
  <2>1. Held(id)' = Held(id) BY DEF SameHeld
  <2>2. QED BY <2>1 DEF Total, Held
<1>2. QED BY <1>1, KeepsAccounted DEF SameTotals, IInv

LEMMA SendRequestKeeps ==
  ASSUME IInv, SendRequest
  PROVE  IInv'
<1>1. /\ Doing("send") \/ Doing("resend")
      /\ tunnel' = tunnel /\ sent' = sent /\ cseq' = cseq
      /\ tunnelPending' = tunnelPending /\ unchallenged' = unchallenged
      /\ buffer' = buffer /\ outcomes' = outcomes /\ dropped' = dropped
      /\ broken' = broken /\ kept' = kept /\ redirects' = redirects
      /\ repeats' = repeats
  BY DEF SendRequest, results
<1>2. \/ EnqueueBehind(Head(todo).req, Tail(todo)) /\ output' = output
      \/ OpenConnection(Head(todo).req, Tail(todo), Failed(Head(todo)))
      \/ /\ SetupTunnel(Head(todo).req, Tail(todo), Failed(Head(todo)))
         /\ awaitingConnection' = awaitingConnection
         /\ input' = input /\ output' = output
      \/ /\ Transfer(Head(todo).req, Tail(todo), Failed(Head(todo)))
         /\ awaitingConnection' = awaitingConnection
         /\ input' = input /\ output' = output
  BY DEF SendRequest, EnqueueBehind, sockets
<1>3. SendsSoundly
  BY <1>1, <1>2, EnqueueSound, OpenSound, TunnelSound, TransferSound
<1>4. TypeOK' BY <1>1, <1>3 DEF IInv, TypeOK, SendsSoundly, GoodTodo
<1>5. Accounted' BY <1>1, <1>3, HeldAccounted DEF SendsSoundly
<1>6. ParseInv' BY <1>1, <1>3 DEF SendsSoundly, GoodTodo, ParseInv
<1>7. QED BY <1>4, <1>5, <1>6 DEF IInv

-----------------------------------------------------------------------------
(* Calling the response handlers *)

LEMMA CallHandlerKeeps ==
  ASSUME IInv, CallHandler
  PROVE  IInv'
<1> DEFINE h == Head(todo)
           t == Tail(todo)
<1>1. /\ todo # <<>> /\ h.do = "call" /\ h.req.id \in Ids
      /\ outcomes' = [outcomes EXCEPT ![h.req.id] = Append(@, h.from)]
      /\ todo' = <<HandlerRuns>> \o t
  BY DEF CallHandler, Doing
<1>2. /\ h \in Steps /\ t \in Seq(Steps) /\ GoodTodo(t)
      /\ \A id : Intends(t, id) \in Nat
      /\ \A id : Intends(todo, id) = (IF Acts(h, id) THEN 1 ELSE 0) + Intends(t, id)
  BY <1>1, RestFacts
<1>3. h.from \in 0..MaxRequests + 1 BY <1>2 DEF Steps
<1>4. \A id : Acts(h, id) <=> h.req.id = id BY <1>1 DEF Acts
<1> DEFINE s == <<HandlerRuns>>
<1>5. s \in Seq(Steps) /\ ~Parses(s) /\ \A id : Intends(s, id) = 0
  <2>1. s \in Seq(Steps) BY StepFacts
  <2>2. ~Parses(s) BY StepFacts DEF Parses
  <2>3. \A id : Intends(s, id) = 0 BY StepFacts, IntendsOne
  <2>4. QED BY <2>1, <2>2, <2>3
<1> HIDE DEF h, t, s
<1>6. GoodTodo(s \o t) /\ \A id : Intends(s \o t, id) = Intends(s, id) + Intends(t, id)
  BY <1>2, <1>5, FrontFacts
<1>7. todo' = s \o t BY <1>1 DEF s
<1>8. /\ outcomes \in [Ids -> Seq(0..MaxRequests + 1)]
      /\ outcomes' \in [Ids -> Seq(0..MaxRequests + 1)]
      /\ \A id \in Ids : Len(outcomes'[id])
                           = Len(outcomes[id]) + (IF h.req.id = id THEN 1 ELSE 0)
  <2>1. outcomes \in [Ids -> Seq(0..MaxRequests + 1)] BY DEF IInv, TypeOK
  <2>2. \A id \in Ids : outcomes[id] \in Seq(0..MaxRequests + 1) BY <2>1
  <2>3. Append(outcomes[h.req.id], h.from) \in Seq(0..MaxRequests + 1)
        /\ Len(Append(outcomes[h.req.id], h.from)) = Len(outcomes[h.req.id]) + 1
    BY <1>1, <1>3, <2>2
  <2>4. outcomes' \in [Ids -> Seq(0..MaxRequests + 1)] BY <1>1, <2>1, <2>3
  <2>5. ASSUME NEW id \in Ids
        PROVE  Len(outcomes'[id])
                 = Len(outcomes[id]) + (IF h.req.id = id THEN 1 ELSE 0)
    <3>1. CASE h.req.id = id
      <4>1. outcomes'[id] = Append(outcomes[h.req.id], h.from) BY <1>1, <2>1, <3>1
      <4>2. QED BY <2>3, <3>1, <4>1
    <3>2. CASE h.req.id # id
      <4>1. outcomes'[id] = outcomes[id] BY <1>1, <2>1, <3>2
      <4>2. Len(outcomes[id]) \in Nat BY <2>2
      <4>3. QED BY <3>2, <4>1, <4>2
    <3>3. QED BY <3>1, <3>2
  <2>6. QED BY <2>1, <2>4, <2>5
<1>9. TypeOK'
  <2>1. todo' \in Seq(Steps) BY <1>6, <1>7 DEF GoodTodo
  <2>2. QED BY <1>8, <2>1 DEF IInv, TypeOK, CallHandler, queues, sockets, bounds
<1>10. Accounted'
  <2>1. /\ sent' = sent /\ broken' = broken /\ dropped' = dropped
        /\ awaitingConnection' = awaitingConnection
        /\ awaitingTunneling' = awaitingTunneling
        /\ awaitingResponse' = awaitingResponse
    BY DEF CallHandler, queues
  <2>2. ASSUME NEW id \in Ids PROVE Total(id)' = Total(id)
    <3>1. Intends(todo', id) = Intends(t, id) BY <1>2, <1>5, <1>6, <1>7
    <3>2. Intends(todo, id) = (IF h.req.id = id THEN 1 ELSE 0) + Intends(todo', id)
          /\ Intends(todo', id) \in Nat
      BY <1>2, <1>4, <3>1
    <3>3. Len(outcomes'[id]) = Len(outcomes[id]) + (IF h.req.id = id THEN 1 ELSE 0)
      BY <1>8
    <3>4. /\ Copies(awaitingConnection, id) \in Nat
          /\ Copies(awaitingTunneling, id) \in Nat
          /\ Copies(awaitingResponse, id) \in Nat /\ Len(outcomes[id]) \in Nat
      BY QueueTypes
    <3>5. Intends(todo', id) + Len(outcomes'[id]) = Intends(todo, id) + Len(outcomes[id])
          /\ Len(outcomes'[id]) \in Nat /\ Intends(todo, id) \in Nat
      <4> DEFINE i0 == Intends(todo, id)
                 i1 == Intends(todo', id)
                 o0 == Len(outcomes[id])
                 o1 == Len(outcomes'[id])
                 d == IF h.req.id = id THEN 1 ELSE 0
      <4>1. i0 = d + i1 /\ i1 \in Nat /\ o1 = o0 + d /\ o0 \in Nat /\ d \in Nat
        BY <3>2, <3>3, <3>4
      <4> HIDE DEF i0, i1, o0, o1, d
      <4>2. i1 + o1 = i0 + o0 /\ o1 \in Nat /\ i0 \in Nat BY <4>1
      <4>3. QED BY <4>2 DEF i0, i1, o0, o1
    <3>6. Total(id)' = Copies(awaitingConnection, id) + Copies(awaitingTunneling, id)
                         + Copies(awaitingResponse, id) + Intends(todo', id)
                         + Len(outcomes'[id]) + (IF id \in dropped THEN 1 ELSE 0)
      BY <2>1 DEF Total
    <3>7. Intends(todo', id) \in Nat BY <3>2
    <3> DEFINE i0 == Intends(todo, id)
               i1 == Intends(todo', id)
               o0 == Len(outcomes[id])
               o1 == Len(outcomes'[id])
               c == Copies(awaitingConnection, id) + Copies(awaitingTunneling, id)
                      + Copies(awaitingResponse, id)
               d == IF id \in dropped THEN 1 ELSE 0
    <3>8. Total(id) = c + i0 + o0 + d /\ Total(id)' = c + i1 + o1 + d
      BY <3>6 DEF Total
    <3>9. /\ c \in Nat /\ d \in Nat /\ i0 \in Nat /\ i1 \in Nat /\ o0 \in Nat
          /\ o1 \in Nat /\ i1 + o1 = i0 + o0
      BY <3>4, <3>5, <3>7
    <3> HIDE DEF c, d, i0, i1, o0, o1
    <3>10. c + i0 + o0 + d = c + i1 + o1 + d BY <3>9
    <3>11. QED BY <3>8, <3>10
  <2>3. QED BY <2>1, <2>2, KeepsAccounted DEF SameTotals, IInv
<1>11. ParseInv'
  <2>1. buffer' = buffer BY DEF CallHandler
  <2>2. QED BY <1>6, <1>7, <2>1 DEF ParseInv, GoodTodo
<1>12. QED BY <1>9, <1>10, <1>11 DEF IInv

\* A step of todo that neither sends nor calls is taken off.
LEMMA HandlerReturnsKeeps ==
  ASSUME IInv, HandlerReturns
  PROVE  IInv'
<1>1. todo # <<>> /\ Head(todo).do = "handler" /\ todo' = Tail(todo)
  BY DEF HandlerReturns, Doing
<1>2. /\ GoodTodo(Tail(todo)) /\ \A id : Intends(Tail(todo), id) \in Nat
      /\ \A id : Intends(todo, id) =
           (IF Acts(Head(todo), id) THEN 1 ELSE 0) + Intends(Tail(todo), id)
  BY <1>1, RestFacts
<1>3. \A id : ~Acts(Head(todo), id) BY <1>1 DEF Acts
<1>4. \A id : Intends(todo', id) = Intends(todo, id) BY <1>1, <1>2, <1>3
<1>5. TypeOK'
  BY <1>1, <1>2 DEF IInv, TypeOK, HandlerReturns, GoodTodo, queues, sockets, results,
                    bounds
<1>6. SameHeld BY <1>4 DEF SameHeld, Held, HandlerReturns, queues
<1>7. Accounted' BY <1>6, HeldAccounted DEF HandlerReturns, results
<1>8. ParseInv' BY <1>1, <1>2 DEF ParseInv, GoodTodo, HandlerReturns
<1>9. QED BY <1>5, <1>7, <1>8 DEF IInv

LEMMA CallAgainKeeps ==
  ASSUME IInv, CallAgain
  PROVE  IInv'
<1>1. TypeOK' BY DEF IInv, TypeOK, CallAgain, queues, sockets, bounds
<1>2. Accounted' BY DEF Accounted, CallAgain
<1>3. ParseInv' BY DEF ParseInv, ParseLast, Parses, CallAgain
<1>4. QED BY <1>1, <1>2, <1>3 DEF IInv

LEMMA TunnelFacts ==
  ASSUME IInv, HandlerForGET
  PROVE  /\ GoodTodo(Tail(todo)) /\ GoodTodo(Errors(awaitingTunneling) \o Tail(todo))
         /\ GoodTodo(Each("send", awaitingTunneling) \o Tail(todo))
         /\ awaitingConnection \o awaitingTunneling \in Seq(Requests)
         /\ \A id \in Ids :
              /\ Intends(Tail(todo), id) = Intends(todo, id)
              /\ Intends(Errors(awaitingTunneling) \o Tail(todo), id)
                   = Copies(awaitingTunneling, id) + Intends(todo, id)
              /\ Intends(Each("send", awaitingTunneling) \o Tail(todo), id)
                   = Copies(awaitingTunneling, id) + Intends(todo, id)
              /\ Copies(awaitingConnection \o awaitingTunneling, id)
                   = Copies(awaitingConnection, id) + Copies(awaitingTunneling, id)
              /\ Copies(<<>>, id) = 0
<1> DEFINE t == Tail(todo)
           q == awaitingTunneling
<1>1. todo # <<>> /\ Head(todo).do = "call" /\ Head(todo).req = GET
  BY DEF HandlerForGET, Doing
<1>2. /\ t \in Seq(Steps) /\ GoodTodo(t)
      /\ \A id : Intends(t, id) \in Nat
      /\ \A id : Intends(todo, id) =
           (IF Acts(Head(todo), id) THEN 1 ELSE 0) + Intends(t, id)
  BY <1>1, RestFacts
<1>3. \A id \in Ids : ~Acts(Head(todo), id)
  <2>1. \A id \in Ids : GET.id # id BY StepFacts
  <2>2. QED BY <1>1, <2>1 DEF Acts
<1>4. \A id \in Ids : Intends(t, id) = Intends(todo, id) BY <1>2, <1>3
<1>5. q \in Seq(Requests) BY QueueTypes
<1> HIDE DEF t, q
<1>6. /\ Errors(q) \in Seq(Steps) /\ Each("send", q) \in Seq(Steps)
      /\ ~Parses(Errors(q)) /\ ~Parses(Each("send", q))
      /\ \A id : /\ Intends(Errors(q), id) = Copies(q, id)
                 /\ Intends(Each("send", q), id) = Copies(q, id)
  BY <1>5, IntendsEach
<1>7. /\ GoodTodo(Errors(q) \o t)
      /\ \A id : Intends(Errors(q) \o t, id) = Intends(Errors(q), id) + Intends(t, id)
  BY <1>2, <1>6, FrontFacts
<1>8. /\ GoodTodo(Each("send", q) \o t)
      /\ \A id : Intends(Each("send", q) \o t, id)
                   = Intends(Each("send", q), id) + Intends(t, id)
  BY <1>2, <1>6, FrontFacts
<1>9. /\ awaitingConnection \o q \in Seq(Requests)
      /\ \A id : Copies(awaitingConnection \o q, id)
                   = Copies(awaitingConnection, id) + Copies(q, id)
  BY <1>5, QueueTypes, CopiesConcat
<1>10. \A id : Copies(<<>>, id) = 0 BY <1>5, CopiesNat
<1>11. QED BY <1>2, <1>4, <1>6, <1>7, <1>8, <1>9, <1>10 DEF t, q

LEMMA HandlerForGETKeeps ==
  ASSUME IInv, HandlerForGET
  PROVE  IInv'
<1> DEFINE t == Tail(todo)
           q == awaitingTunneling
<1>1. /\ tunnel' = tunnel /\ awaitingResponse' = awaitingResponse /\ sent' = sent
      /\ cseq' = cseq /\ unchallenged' = unchallenged /\ buffer' = buffer
      /\ outcomes' = outcomes /\ dropped' = dropped /\ broken' = broken
      /\ redirects' = redirects /\ repeats' = repeats /\ kept' = kept
  BY DEF HandlerForGET, results
<1>2. faults' \in 0..MaxFaults BY FaultType, QueueTypes DEF HandlerForGET
<1>3. awaitingTunneling' = <<>> BY DEF HandlerForGET, TunnelFails, TunnelOpens
<1>4. /\ tunnelPending' \in BOOLEAN /\ input' \in {"none", "connecting", "open"}
      /\ output' \in {"same", "connecting", "own"} /\ unanswered' \in Seq(Requests)
  <2>1. \/ /\ tunnelPending' = FALSE /\ input' = "none" /\ output' = "same"
           /\ unanswered' = <<>>
        \/ /\ tunnelPending' = TRUE /\ input' = input /\ output' = "connecting"
           /\ unanswered' = unanswered
        \/ /\ tunnelPending' = FALSE /\ input' = input /\ output' = "own"
           /\ unanswered' = unanswered
    BY DEF HandlerForGET, TunnelFails, TunnelOpens, ResetTCPSockets
  <2>2. input \in {"none", "connecting", "open"} /\ unanswered \in Seq(Requests)
    BY QueueTypes
  <2>3. tunnelPending' \in BOOLEAN BY <2>1
  <2>4. unanswered' \in Seq(Requests)
    <3>1. unanswered' = <<>> \/ unanswered' = unanswered BY <2>1
    <3>2. <<>> \in Seq(Requests) OBVIOUS
    <3>3. QED BY <2>2, <3>1, <3>2
  <2>5. input' \in {"none", "connecting", "open"} BY <2>1, <2>2
  <2>6. output' \in {"same", "connecting", "own"} BY <2>1
  <2>7. QED BY <2>3, <2>4, <2>5, <2>6
<1>5. \/ todo' = Errors(q) \o t /\ awaitingConnection' = awaitingConnection
      \/ todo' = t /\ awaitingConnection' = awaitingConnection \o q
      \/ todo' = Each("send", q) \o t /\ awaitingConnection' = awaitingConnection
  BY DEF HandlerForGET, TunnelFails, TunnelOpens
<1>6. GoodTodo(todo') BY <1>5, TunnelFacts
<1>7. awaitingConnection' \in Seq(Requests) BY <1>5, TunnelFacts, QueueTypes
<1>8. TypeOK' BY <1>1, <1>2, <1>3, <1>4, <1>6, <1>7 DEF IInv, TypeOK, GoodTodo
<1>9. ASSUME NEW id \in Ids PROVE Held(id)' = Held(id)
  <2> DEFINE c0 == Copies(awaitingConnection, id)
             c1 == Copies(awaitingConnection', id)
             n == Copies(q, id)
             a == Copies(awaitingResponse, id)
             i0 == Intends(todo, id)
             i1 == Intends(todo', id)
  <2>1. (i1 = n + i0 /\ c1 = c0) \/ (i1 = i0 /\ c1 = c0 + n)
    BY <1>5, TunnelFacts
  <2>2. c0 \in Nat /\ n \in Nat /\ a \in Nat /\ i0 \in Nat BY QueueTypes
  <2>3. Held(id) = c0 + n + a + i0 BY DEF Held
  <2>4. Held(id)' = c1 + 0 + a + i1 BY <1>1, <1>3, TunnelFacts DEF Held
  <2> HIDE DEF c0, c1, n, a, i0, i1
  <2>5. c1 + 0 + a + i1 = c0 + n + a + i0 BY <2>1, <2>2
  <2>6. QED BY <2>3, <2>4, <2>5
<1>10. Accounted' BY <1>1, <1>9, HeldAccounted DEF SameHeld
<1>11. ParseInv' BY <1>1, <1>6 DEF ParseInv, GoodTodo
<1>12. QED BY <1>8, <1>10, <1>11 DEF IInv

-----------------------------------------------------------------------------
(* The connection *)

\* With todo empty nothing is intended; then a queue is taken over by todo.
LEMMA IdleFacts ==
  ASSUME IInv, EventLoop, NEW q \in Seq(Requests)
  PROVE  /\ GoodTodo(Errors(q)) /\ GoodTodo(Each("send", q))
         /\ ~Parses(Errors(q)) /\ ~Parses(Each("send", q))
         /\ \A id \in Ids :
              /\ Intends(todo, id) = 0 /\ Copies(<<>>, id) = 0
              /\ Intends(Errors(q), id) = Copies(q, id)
              /\ Intends(Each("send", q), id) = Copies(q, id)
<1>1. todo = <<>> /\ todo \in Seq(Steps) BY DEF EventLoop, IInv, TypeOK
<1>2. \A id : Intends(<<>>, id) = 0 BY <1>1, IntendsNat
<1>3. \A id : Copies(<<>>, id) = 0 BY CopiesNat
<1>4. /\ Errors(q) \in Seq(Steps) /\ Each("send", q) \in Seq(Steps)
      /\ ~Parses(Errors(q)) /\ ~Parses(Each("send", q))
      /\ \A id : /\ Intends(Errors(q), id) = Copies(q, id)
                 /\ Intends(Each("send", q), id) = Copies(q, id)
  BY IntendsEach
<1>5. ParseLast(Errors(q)) /\ ParseLast(Each("send", q))
  BY <1>4 DEF ParseLast, Parses
<1>6. QED BY <1>1, <1>2, <1>3, <1>4, <1>5 DEF GoodTodo

LEMMA ConnectionSucceedsKeeps ==
  ASSUME IInv, ConnectionSucceeds
  PROVE  IInv'
<1> DEFINE q == awaitingConnection
<1>1. /\ EventLoop /\ todo' = Each("send", q) /\ awaitingConnection' = <<>>
      /\ awaitingTunneling' = awaitingTunneling /\ awaitingResponse' = awaitingResponse
      /\ sent' = sent /\ buffer' = buffer
      /\ outcomes' = outcomes /\ dropped' = dropped /\ broken' = broken
      /\ kept' = kept
  BY DEF ConnectionSucceeds, results
<1>2. GoodTodo(todo') BY <1>1, QueueTypes, IdleFacts
<1>3. TypeOK'
  <2>1. todo' \in Seq(Steps) BY <1>2 DEF GoodTodo
  <2>2. output' \in {"same", "connecting", "own"}
    <3>1. output' = "own" \/ output' = output
      BY DEF ConnectionSucceeds
    <3>2. output \in {"same", "connecting", "own"} BY QueueTypes
    <3>3. QED BY <3>1, <3>2
  <2>3. tunnelPending' \in BOOLEAN
    <3>1. tunnelPending' = FALSE BY DEF ConnectionSucceeds
    <3>2. QED BY ONLY <3>1
  <2>4. /\ input' = "open" /\ unanswered' = unanswered /\ tunnel' = tunnel
        /\ cseq' = cseq /\ unchallenged' = unchallenged /\ faults' = faults
        /\ redirects' = redirects /\ repeats' = repeats
    BY DEF ConnectionSucceeds, bounds
  <2>5. QED BY <1>1, <2>1, <2>2, <2>3, <2>4 DEF IInv, TypeOK
<1>4. ASSUME NEW id \in Ids PROVE Held(id)' = Held(id)
  <2>1. Intends(todo, id) = 0 /\ Intends(todo', id) = Copies(q, id)
        /\ Copies(awaitingConnection', id) = 0
    BY <1>1, QueueTypes, IdleFacts
  <2>2. QED BY <1>1, <2>1, QueueTypes DEF Held
<1>5. Accounted' BY <1>1, <1>4, HeldAccounted DEF SameHeld
<1>6. ParseInv' BY <1>1, <1>2 DEF ParseInv, GoodTodo
<1>7. QED BY <1>3, <1>5, <1>6 DEF IInv

LEMMA ConnectionFailsKeeps ==
  ASSUME IInv, ConnectionFails
  PROVE  IInv'
<1> DEFINE q == awaitingConnection
<1>1. /\ EventLoop /\ todo' = Errors(q) /\ awaitingConnection' = <<>>
      /\ awaitingTunneling' = awaitingTunneling /\ awaitingResponse' = awaitingResponse
      /\ sent' = sent /\ buffer' = buffer
      /\ outcomes' = outcomes /\ dropped' = dropped /\ broken' = broken
      /\ kept' = kept
  BY DEF ConnectionFails, results
<1>2. GoodTodo(todo') BY <1>1, QueueTypes, IdleFacts
<1>3. TypeOK'
  <2>1. todo' \in Seq(Steps) BY <1>2 DEF GoodTodo
  <2>2. faults' \in 0..MaxFaults BY FaultType DEF ConnectionFails
  <2>3. /\ input' = "none" /\ output' = "same" /\ unanswered' = <<>>
        /\ tunnel' = tunnel /\ cseq' = cseq
        /\ unchallenged' = unchallenged /\ redirects' = redirects
        /\ repeats' = repeats
    BY DEF ConnectionFails, ResetTCPSockets
  <2>4. tunnelPending' \in BOOLEAN
    <3>1. tunnelPending' = FALSE BY DEF ConnectionFails
    <3>2. QED BY ONLY <3>1
  <2>5. QED BY <1>1, <2>1, <2>2, <2>3, <2>4 DEF IInv, TypeOK
<1>4. ASSUME NEW id \in Ids PROVE Held(id)' = Held(id)
  <2>1. Intends(todo, id) = 0 /\ Intends(todo', id) = Copies(q, id)
        /\ Copies(awaitingConnection', id) = 0
    BY <1>1, QueueTypes, IdleFacts
  <2>2. QED BY <1>1, <2>1, QueueTypes DEF Held
<1>5. Accounted' BY <1>1, <1>4, HeldAccounted DEF SameHeld
<1>6. ParseInv' BY <1>1, <1>2 DEF ParseInv, GoodTodo
<1>7. QED BY <1>3, <1>5, <1>6 DEF IInv

LEMMA ConnectionLostKeeps ==
  ASSUME IInv, ConnectionLost
  PROVE  IInv'
<1> DEFINE q == awaitingResponse
<1>1. /\ EventLoop /\ todo' = Errors(q) /\ awaitingResponse' = <<>>
      /\ awaitingTunneling' = awaitingTunneling
      /\ awaitingConnection' = awaitingConnection /\ sent' = sent
      /\ outcomes' = outcomes /\ dropped' = dropped /\ broken' = broken
  BY DEF ConnectionLost, results
<1>2. GoodTodo(todo') /\ ~Parses(todo') BY <1>1, QueueTypes, IdleFacts
<1>3. TypeOK'
  <2>1. todo' \in Seq(Steps) BY <1>2 DEF GoodTodo
  <2>2. faults' \in 0..MaxFaults BY FaultType DEF ConnectionLost
  <2>3. QED BY <2>1, <2>2
          DEF IInv, TypeOK, ConnectionLost, ResetTCPSockets, results
<1>4. ASSUME NEW id \in Ids PROVE Held(id)' = Held(id)
  <2>1. Intends(todo, id) = 0 /\ Intends(todo', id) = Copies(q, id)
        /\ Copies(awaitingResponse', id) = 0
    BY <1>1, QueueTypes, IdleFacts
  <2>2. QED BY <1>1, <2>1, QueueTypes DEF Held
<1>5. Accounted' BY <1>1, <1>4, HeldAccounted DEF SameHeld
<1>6. ParseInv' BY <1>1, <1>2 DEF ParseInv, GoodTodo
<1>7. QED BY <1>3, <1>5, <1>6 DEF IInv

-----------------------------------------------------------------------------
(* Responses *)

\* Sequences with the same elements are the same.
LEMMA SameSequence ==
  ASSUME NEW S, NEW s \in Seq(S), NEW t \in Seq(S),
         Len(s) = Len(t), \A i \in 1..Len(s) : s[i] = t[i]
  PROVE  s = t
OBVIOUS

\* The queue of those awaiting a response around its k-th.
LEMMA TakeSplit ==
  ASSUME NEW q \in Seq(Requests), NEW k \in 1..Len(q), NEW id
  PROVE  /\ SubSeq(q, k + 1, Len(q)) \in Seq(Requests) /\ q[k] \in Requests
         /\ SubSeq(q, k, Len(q)) \in Seq(Requests)
         /\ Cardinality({i \in 1..k - 1 : q[i].id = id}) \in Nat
         /\ IsFiniteSet({i \in 1..k - 1 : q[i].id = id})
         /\ Copies(SubSeq(q, k + 1, Len(q)), id) \in Nat
         /\ Copies(q, id) = Cardinality({i \in 1..k - 1 : q[i].id = id})
                              + Copies(SubSeq(q, k, Len(q)), id)
         /\ Copies(SubSeq(q, k, Len(q)), id) = (IF q[k].id = id THEN 1 ELSE 0)
                              + Copies(SubSeq(q, k + 1, Len(q)), id)
<1> DEFINE m == k - 1
           p == SubSeq(q, k, Len(q))
           r == SubSeq(q, k + 1, Len(q))
<1>1. /\ Len(q) \in Nat /\ k \in Nat /\ m \in 0..Len(q) /\ m + 1 = k
      /\ q[k] \in Requests
  OBVIOUS
<1>2. /\ p \in Seq(Requests) /\ Len(p) = Len(q) - m /\ Len(p) \in Nat /\ 1 <= Len(p)
      /\ p[1] = q[k]
      /\ SubSeq(p, 2, Len(p)) = r
  <2>1. p \in Seq(Requests) /\ Len(p) = Len(q) - k + 1
        /\ \A i \in 1..Len(p) : p[i] = q[i + k - 1]
    <3>1. Len(q) \in Nat /\ k \in 1..Len(q) BY <1>1
    <3>2. p \in Seq(Requests) BY <3>1
    <3>3. Len(p) = Len(q) - k + 1 BY <3>1
    <3>4. \A i \in 1..Len(p) : p[i] = q[i + k - 1] BY <3>1, <3>3
    <3>5. QED BY <3>2, <3>3, <3>4
  <2>2. 1 \in 1..Len(p) BY <1>1, <2>1
  <2>3. SubSeq(p, 2, Len(p)) = r
    <3> HIDE DEF p
    <3>1. /\ SubSeq(p, 2, Len(p)) \in Seq(Requests) /\ r \in Seq(Requests)
          /\ Len(SubSeq(p, 2, Len(p))) = Len(q) - k /\ Len(r) = Len(q) - k
          /\ \A i \in 1..Len(r) : r[i] = q[i + k]
          /\ \A i \in 1..Len(r) : SubSeq(p, 2, Len(p))[i] = p[i + 1]
      <4>1. Len(p) \in Nat /\ 2 \in 1..Len(p) + 1 /\ Len(p) = Len(q) - k + 1
        BY <1>1, <2>1
      <4>2. /\ SubSeq(p, 2, Len(p)) \in Seq(Requests)
            /\ Len(SubSeq(p, 2, Len(p))) = Len(p) - 1
            /\ \A i \in 1..Len(p) - 1 : SubSeq(p, 2, Len(p))[i] = p[i + 1]
        BY <2>1, <4>1
      <4>3. /\ r \in Seq(Requests) /\ Len(r) = Len(q) - k
            /\ \A i \in 1..Len(r) : r[i] = q[i + k]
        BY <1>1
      <4> HIDE DEF r
      <4>4. Len(SubSeq(p, 2, Len(p))) = Len(q) - k /\ Len(p) - 1 = Len(r)
        <5>1. Len(p) - 1 = Len(q) - k BY <4>1, <1>1
        <5>2. QED BY <5>1, <4>2, <4>3
      <4>5. \A i \in 1..Len(r) : SubSeq(p, 2, Len(p))[i] = p[i + 1] BY <4>2, <4>4
      <4>6. QED BY <4>2, <4>3, <4>4, <4>5
    <3>2. \A i \in 1..Len(r) : p[i + 1] = q[i + k] BY <1>1, <2>1, <3>1
    <3> DEFINE t == SubSeq(p, 2, Len(p))
    <3>3. /\ t \in Seq(Requests) /\ r \in Seq(Requests) /\ Len(t) = Len(r)
          /\ \A i \in 1..Len(t) : t[i] = r[i]
      BY <1>1, <3>1, <3>2
    <3> HIDE DEF p, r, t
    <3>4. t = r BY <3>3, SameSequence
    <3>5. QED BY <3>4 DEF t
  <2>4. QED BY <1>1, <2>1, <2>2, <2>3
<1> HIDE DEF m, p, r
<1>3. /\ Cardinality({i \in 1..m : q[i].id = id}) \in Nat
      /\ IsFiniteSet({i \in 1..m : q[i].id = id})
      /\ Copies(q, id) = Cardinality({i \in 1..m : q[i].id = id})
                           + Copies(SubSeq(q, m + 1, Len(q)), id)
  BY <1>1, CopiesFrom
<1>4. 1 \in 0..Len(p) BY <1>2
<1>5. /\ SubSeq(p, 1 + 1, Len(p)) \in Seq(Requests)
      /\ Copies(p, id) = Cardinality({i \in 1..1 : p[i].id = id})
                           + Copies(SubSeq(p, 1 + 1, Len(p)), id)
  BY <1>2, <1>4, CopiesFrom
<1>6. Cardinality({i \in 1..1 : p[i].id = id}) = (IF q[k].id = id THEN 1 ELSE 0)
  <2> DEFINE P == WithId(id)
  <2>1. {i \in 1..1 : p[i].id = id} = {i \in 1..1 : p[i] \in P}
    BY <1>1, <1>2 DEF WithId
  <2>2. p[1] \in P <=> q[k].id = id BY <1>1, <1>2 DEF WithId
  <2> HIDE DEF P
  <2>3. Cardinality({i \in 1..1 : p[i] \in P}) = (IF p[1] \in P THEN 1 ELSE 0)
    BY OneHit
  <2>4. QED BY <2>1, <2>2, <2>3
<1>7. 1 + 1 = 2 OBVIOUS
<1>8. r \in Seq(Requests) /\ Copies(p, id) = (IF q[k].id = id THEN 1 ELSE 0) + Copies(r, id)
  BY <1>2, <1>5, <1>6, <1>7
<1>9. Copies(r, id) \in Nat BY <1>8, CopiesNat
<1>10. SubSeq(q, m + 1, Len(q)) = p BY <1>1 DEF p
<1>11. Copies(q, id) = Cardinality({i \in 1..m : q[i].id = id}) + Copies(p, id)
  BY <1>3, <1>10
<1>12. QED BY <1>1, <1>2, <1>3, <1>8, <1>9, <1>11 DEF m, p, r

\* The scan stops at a request of the queue or behind its end.
LEMMA TakenRange ==
  ASSUME IInv, NEW c
  PROVE  TakenFor(c) \in 1..Len(awaitingResponse) + 1
<1> DEFINE S == {i \in 1..Len(awaitingResponse) : awaitingResponse[i].cseq >= c}
           first == CHOOSE i \in S : \A j \in S : i <= j
<1>1. Len(awaitingResponse) \in Nat BY QueueTypes
<1>2. ASSUME S # {} PROVE first \in 1..Len(awaitingResponse)
  <2>1. S \in SUBSET Nat BY <1>1
  <2>2. \E i \in S : \A j \in S : i <= j BY <1>2, <2>1, LeastNat
  <2>3. first \in S BY <2>2
  <2>4. QED BY <2>3
<1>3. TakenFor(c) = IF c = 0 THEN 1
                    ELSE IF S = {} THEN Len(awaitingResponse) + 1
                    ELSE IF awaitingResponse[first].cseq = c THEN first ELSE first + 1
  BY DEF TakenFor
<1> HIDE DEF S, first
<1>4. QED BY <1>1, <1>2, <1>3

\* How often the first k - 1 of those awaiting a response are the request.
Before(k, id) == Cardinality({i \in 1..k - 1 : awaitingResponse[i].id = id})

\* A request is deleted once: dropped counts what the scan deletes.
LEMMA DroppedCounts ==
  ASSUME IInv, ~broken, NEW id \in Ids, NEW k \in Nat, NEW n \in Nat,
         n <= Copies(awaitingResponse, id), n = Before(k, id),
         IsFiniteSet({i \in 1..k - 1 : awaitingResponse[i].id = id}),
         dropped' = dropped \cup {awaitingResponse[i].id : i \in 1..k - 1}
  PROVE  (IF id \in dropped' THEN 1 ELSE 0) = (IF id \in dropped THEN 1 ELSE 0) + n
<1> DEFINE A == {i \in 1..k - 1 : awaitingResponse[i].id = id}
<1>1. n = Cardinality(A) /\ IsFiniteSet(A) BY DEF Before
<1>2. id \in dropped' <=> id \in dropped \/ A # {} BY DEF Accounted
<1>3. n = 0 <=> A = {}
  <2> HIDE DEF A
  <2>1. QED BY <1>1, FS_EmptySet
<1>4. Total(id) = (IF id <= sent THEN 1 ELSE 0) BY DEF IInv, Accounted
<1>5. n + (IF id \in dropped THEN 1 ELSE 0) <= 1
  <2> DEFINE c == Copies(awaitingConnection, id) + Copies(awaitingTunneling, id)
             a == Copies(awaitingResponse, id)
             e == Intends(todo, id) + Len(outcomes[id])
             d == IF id \in dropped THEN 1 ELSE 0
             t == IF id <= sent THEN 1 ELSE 0
  <2>1. c \in Nat /\ a \in Nat /\ e \in Nat BY CountTypes
  <2>2. d \in Nat /\ t \in 0..1 OBVIOUS
  <2>3. c + a + e + d = t BY <1>4, CountTypes DEF Total
  <2>4. n <= a OBVIOUS
  <2> HIDE DEF c, a, e, d, t
  <2>5. n + d <= 1 BY <2>1, <2>2, <2>3, <2>4
  <2>6. QED BY <2>5 DEF d
<1> HIDE DEF A
<1>6. CASE A = {} BY <1>2, <1>3, <1>6
<1>7. CASE A # {}
  <2>1. n >= 1 BY <1>3, <1>7
  <2>2. id \notin dropped BY <1>5, <2>1
  <2>3. n = 1 BY <1>5, <2>1, <2>2
  <2>4. QED BY <1>2, <1>7, <2>2, <2>3
<1>8. QED BY <1>6, <1>7

\* A response finds a request: the ones before it are deleted, the one found is
\* taken, and the rest stays.  A request taken must then be intended.
LEMMA TakeFacts ==
  ASSUME IInv, NEW k \in 1..Len(awaitingResponse), Take(k)
  PROVE  /\ awaitingResponse' \in Seq(Requests) /\ awaitingResponse[k] \in Requests
         /\ dropped' \subseteq 1..MaxRequests + 1
         /\ ~broken => \A id \in Ids :
              Copies(awaitingResponse, id) + (IF id \in dropped THEN 1 ELSE 0)
                = Copies(awaitingResponse', id) + (IF id \in dropped' THEN 1 ELSE 0)
                    + (IF awaitingResponse[k].id = id THEN 1 ELSE 0)
<1> DEFINE q == awaitingResponse
           r == SubSeq(q, k + 1, Len(q))
<1>1. q \in Seq(Requests) BY QueueTypes
<1>2. /\ r \in Seq(Requests) /\ q[k] \in Requests
      /\ \A id : /\ Cardinality({i \in 1..k - 1 : q[i].id = id}) \in Nat
                 /\ IsFiniteSet({i \in 1..k - 1 : q[i].id = id})
                 /\ Copies(r, id) \in Nat
                 /\ Copies(q, id) = Cardinality({i \in 1..k - 1 : q[i].id = id})
                                      + Copies(SubSeq(q, k, Len(q)), id)
                 /\ Copies(SubSeq(q, k, Len(q)), id)
                      = (IF q[k].id = id THEN 1 ELSE 0) + Copies(r, id)
  BY <1>1, TakeSplit
<1>3. q' = r /\ dropped' = dropped \cup {q[i].id : i \in 1..k - 1} BY DEF Take
<1>4. dropped' \subseteq 1..MaxRequests + 1
  <2>1. dropped \subseteq 1..MaxRequests + 1 BY DEF IInv, TypeOK
  <2>2. \A i \in 1..Len(q) : q[i].id \in 1..MaxRequests + 1
    <3>1. \A i \in 1..Len(q) : q[i] \in Requests BY <1>1
    <3>2. \A x \in Requests : x.id \in 1..MaxRequests + 1 BY RequestFacts
    <3> HIDE DEF q
    <3>3. QED BY <3>1, <3>2
  <2>3. 1..k - 1 \subseteq 1..Len(q) BY <1>1
  <2>4. QED BY <1>3, <2>1, <2>2, <2>3
<1>5. ASSUME ~broken, NEW id \in Ids
      PROVE  Copies(q, id) + (IF id \in dropped THEN 1 ELSE 0)
               = Copies(r, id) + (IF id \in dropped' THEN 1 ELSE 0)
                   + (IF q[k].id = id THEN 1 ELSE 0)
  <2> DEFINE n == Before(k, id)
             f == IF q[k].id = id THEN 1 ELSE 0
             d0 == IF id \in dropped THEN 1 ELSE 0
             d1 == IF id \in dropped' THEN 1 ELSE 0
             c0 == Copies(q, id)
             c1 == Copies(r, id)
  <2>1. n \in Nat /\ c1 \in Nat /\ f \in Nat /\ c0 = n + (f + c1) BY <1>2 DEF Before
  <2>2. d0 \in Nat OBVIOUS
  <2>3. d1 = d0 + n
    <3>1. k \in Nat OBVIOUS
    <3>2. n <= c0
      <4> HIDE DEF n, c0, c1, f
      <4>1. QED BY <2>1
    <3>3. IsFiniteSet({i \in 1..k - 1 : q[i].id = id}) BY <1>2
    <3>4. QED BY <1>3, <1>5, <2>1, <3>1, <3>2, <3>3, DroppedCounts
  <2> HIDE DEF n, f, d0, d1, c0, c1
  <2>4. c0 + d0 = c1 + d1 + f BY <2>1, <2>2, <2>3
  <2>5. QED BY <2>4 DEF f, d0, d1, c0, c1
<1>6. QED BY <1>2, <1>3, <1>4, <1>5

\* No request is found: all of them are deleted.
LEMMA TakeAllFacts ==
  ASSUME IInv, NEW k, k = Len(awaitingResponse) + 1, Take(k)
  PROVE  /\ awaitingResponse' \in Seq(Requests)
         /\ dropped' \subseteq 1..MaxRequests + 1
         /\ ~broken => \A id \in Ids :
              Copies(awaitingResponse, id) + (IF id \in dropped THEN 1 ELSE 0)
                = Copies(awaitingResponse', id) + (IF id \in dropped' THEN 1 ELSE 0)
<1> DEFINE q == awaitingResponse
           l == Len(q)
<1>1. q \in Seq(Requests) /\ l \in Nat BY QueueTypes
<1>2. k = l + 1 /\ k \in Nat /\ k - 1 = l BY <1>1
<1>3. q' = <<>> /\ dropped' = dropped \cup {q[i].id : i \in 1..k - 1}
  <2>1. SubSeq(q, k + 1, Len(q)) = <<>> BY <1>1, <1>2
  <2>2. QED BY <2>1 DEF Take
<1>4. dropped' \subseteq 1..MaxRequests + 1
  <2>1. dropped \subseteq 1..MaxRequests + 1 BY DEF IInv, TypeOK
  <2>2. \A i \in 1..Len(q) : q[i].id \in 1..MaxRequests + 1
    <3>1. \A i \in 1..Len(q) : q[i] \in Requests BY <1>1
    <3>2. \A x \in Requests : x.id \in 1..MaxRequests + 1 BY RequestFacts
    <3> HIDE DEF q
    <3>3. QED BY <3>1, <3>2
  <2>3. QED BY <1>2, <1>3, <2>1, <2>2
<1>5. ASSUME ~broken, NEW id \in Ids
      PROVE  Copies(q, id) + (IF id \in dropped THEN 1 ELSE 0)
               = Copies(q', id) + (IF id \in dropped' THEN 1 ELSE 0)
  <2> DEFINE n == Copies(q, id)
             d0 == IF id \in dropped THEN 1 ELSE 0
             d1 == IF id \in dropped' THEN 1 ELSE 0
  <2>1. n \in Nat /\ IsFiniteSet({i \in 1..Len(q) : q[i].id = id}) BY <1>1, CopiesNat
  <2>2. Copies(q', id) = 0 BY <1>1, <1>3, CopiesNat
  <2>3. n = Before(k, id) BY <1>2 DEF Before, Copies
  <2>4. d1 = d0 + n
    <3>1. n <= n BY <2>1
    <3>2. IsFiniteSet({i \in 1..k - 1 : q[i].id = id}) BY <1>2, <2>1
    <3>3. QED BY <1>2, <1>3, <1>5, <2>1, <2>3, <3>1, <3>2, DroppedCounts
  <2>5. d0 \in Nat OBVIOUS
  <2> HIDE DEF n, d0, d1
  <2>6. n + d0 = 0 + d1 BY <2>1, <2>4, <2>5
  <2>7. QED BY <2>2, <2>6 DEF n, d0, d1
<1>6. QED BY <1>3, <1>4, <1>5

\* The headers of a response find a request, or none: the ones before it are deleted.
LEMMA PassFacts ==
  ASSUME IInv, NEW k \in 1..Len(awaitingResponse) + 1, Pass(k)
  PROVE  /\ awaitingResponse' \in Seq(Requests)
         /\ dropped' \subseteq 1..MaxRequests + 1
         /\ ~broken => \A id \in Ids :
              Copies(awaitingResponse, id) + (IF id \in dropped THEN 1 ELSE 0)
                = Copies(awaitingResponse', id) + (IF id \in dropped' THEN 1 ELSE 0)
<1> DEFINE q == awaitingResponse
<1>1. /\ dropped' = dropped \cup {q[i].id : i \in 1..k - 1}
      /\ awaitingResponse' = SubSeq(q, k, Len(q))
  BY DEF Pass
<1>3. q \in Seq(Requests) /\ Len(q) \in Nat BY QueueTypes
<1>4. k \in Nat /\ k - 1 \in 0..Len(q) /\ (k - 1) + 1 = k BY <1>3
<1>5. /\ SubSeq(q, k, Len(q)) \in Seq(Requests)
      /\ \A id : /\ Before(k, id) \in Nat
                 /\ IsFiniteSet({i \in 1..k - 1 : q[i].id = id})
                 /\ Copies(q, id) = Before(k, id) + Copies(SubSeq(q, k, Len(q)), id)
                 /\ Copies(SubSeq(q, k, Len(q)), id) \in Nat
  <2> DEFINE m == k - 1
  <2>1. m \in 0..Len(q) /\ m + 1 = k BY <1>4
  <2> HIDE DEF m
  <2>2. /\ SubSeq(q, m + 1, Len(q)) \in Seq(Requests)
        /\ \A id : /\ Cardinality({i \in 1..m : q[i].id = id}) \in Nat
                   /\ IsFiniteSet({i \in 1..m : q[i].id = id})
                   /\ Copies(q, id) = Cardinality({i \in 1..m : q[i].id = id})
                                        + Copies(SubSeq(q, m + 1, Len(q)), id)
    BY <1>3, <2>1, CopiesFrom
  <2>3. SubSeq(q, k, Len(q)) \in Seq(Requests) BY <2>1, <2>2
  <2>4. \A id : Copies(SubSeq(q, k, Len(q)), id) \in Nat BY <2>3, CopiesNat
  <2>5. \A id : Before(k, id) = Cardinality({i \in 1..m : q[i].id = id})
    BY DEF Before, m
  <2>6. m = k - 1 BY DEF m
  <2>7. QED BY <2>1, <2>2, <2>3, <2>4, <2>5, <2>6
<1>6. dropped' \subseteq 1..MaxRequests + 1
  <2>1. dropped \subseteq 1..MaxRequests + 1 BY DEF IInv, TypeOK
  <2>2. \A i \in 1..Len(q) : q[i].id \in 1..MaxRequests + 1
    <3>1. \A i \in 1..Len(q) : q[i] \in Requests BY <1>3
    <3>2. \A x \in Requests : x.id \in 1..MaxRequests + 1 BY RequestFacts
    <3> HIDE DEF q
    <3>3. QED BY <3>1, <3>2
  <2>3. 1..k - 1 \subseteq 1..Len(q) BY <1>3, <1>4
  <2>4. QED BY <1>1, <2>1, <2>2, <2>3
<1>7. ASSUME ~broken, NEW id \in Ids
      PROVE  Copies(q, id) + (IF id \in dropped THEN 1 ELSE 0)
               = Copies(awaitingResponse', id) + (IF id \in dropped' THEN 1 ELSE 0)
  <2> DEFINE n == Before(k, id)
             a0 == Copies(q, id)
             a1 == Copies(SubSeq(q, k, Len(q)), id)
             d0 == IF id \in dropped THEN 1 ELSE 0
             d1 == IF id \in dropped' THEN 1 ELSE 0
  <2>1. d0 \in Nat OBVIOUS
  <2>2. n \in Nat /\ a1 \in Nat /\ a0 = n + a1 BY <1>5
  <2>3. n <= a0
    <3> HIDE DEF n, a0, a1
    <3>1. QED BY <2>2
  <2>4. d1 = d0 + n BY <1>1, <1>4, <1>5, <1>7, <2>2, <2>3, DroppedCounts
  <2>5. Copies(awaitingResponse', id) = a1 BY <1>1
  <2> HIDE DEF n, a0, a1, d0, d1
  <2>6. a0 + d0 = a1 + d1 BY <2>1, <2>2, <2>4
  <2>7. QED BY <2>5, <2>6 DEF a0, d0, d1
<1>8. QED BY <1>1, <1>5, <1>6, <1>7

\* After the response found its request, with b left in the buffer: todo has it.
TakesOver(t, b, request) ==
  /\ t \in Seq(Steps) /\ ParseLast(t) /\ (Parses(t) => b # <<>>)
  /\ \A id \in Ids : Intends(t, id) = (IF request.id = id THEN 1 ELSE 0)

LEMMA MoreFacts ==
  ASSUME NEW b
  PROVE  /\ More(b) \in Seq(Steps) /\ ParseLast(More(b)) /\ (Parses(More(b)) => b # <<>>)
         /\ \A id : Intends(More(b), id) = 0
<1>1. CASE b = <<>>
  <2>1. More(b) = <<>> BY <1>1 DEF More
  <2>2. ParseLast(<<>>) /\ ~Parses(<<>>) BY DEF ParseLast, Parses
  <2>3. <<>> \in Seq(Steps) OBVIOUS
  <2>4. \A id : Intends(<<>>, id) = 0 BY <2>3, IntendsNat
  <2>5. QED BY <2>1, <2>2, <2>3, <2>4
<1>2. CASE b # <<>>
  <2>1. More(b) = <<ParseMore>> BY <1>2 DEF More
  <2>2. ParseLast(<<ParseMore>>) BY DEF ParseLast
  <2>3. <<ParseMore>> \in Seq(Steps) BY StepFacts
  <2>4. \A id : Intends(<<ParseMore>>, id) = 0 BY StepFacts, IntendsOne
  <2>5. QED BY <1>2, <2>1, <2>2, <2>3, <2>4
<1>3. QED BY <1>1, <1>2

LEMMA CallTakesOver ==
  ASSUME NEW request \in Requests, NEW from \in 0..MaxRequests + 1, NEW ok \in BOOLEAN,
         NEW b
  PROVE  /\ TakesOver(<<Call(request, from, ok)>>, b, request)
         /\ TakesOver(<<Call(request, from, ok)>> \o More(b), b, request)
<1> DEFINE c == Call(request, from, ok)
           s == <<c>>
<1>1. c \in Steps /\ c.do = "call" /\ \A id : Acts(c, id) <=> request.id = id
  BY CallFacts
<1> HIDE DEF c
<1>2. /\ s \in Seq(Steps) /\ ~Parses(s) /\ ParseLast(s)
      /\ \A id : Intends(s, id) = (IF request.id = id THEN 1 ELSE 0)
  <2>1. s \in Seq(Steps) BY <1>1
  <2>2. ~Parses(s) /\ ParseLast(s) BY <1>1 DEF Parses, ParseLast
  <2>3. \A id : Intends(s, id) = (IF request.id = id THEN 1 ELSE 0)
    BY <1>1, IntendsOne
  <2>4. QED BY <2>1, <2>2, <2>3
<1> HIDE DEF s
<1>3. TakesOver(s, b, request) BY <1>2 DEF TakesOver
<1>4. /\ s \o More(b) \in Seq(Steps)
      /\ \A id : Intends(s \o More(b), id) = Intends(s, id) + Intends(More(b), id)
  BY <1>2, MoreFacts, IntendsConcat
<1>5. ParseLast(s \o More(b)) /\ (Parses(s \o More(b)) => b # <<>>)
  BY <1>2, MoreFacts, ParsesConcat
<1>6. \A id \in Ids : Intends(s \o More(b), id) = (IF request.id = id THEN 1 ELSE 0)
  BY <1>2, <1>4, MoreFacts
<1>7. TakesOver(s \o More(b), b, request) BY <1>4, <1>5, <1>6 DEF TakesOver
<1>8. QED BY <1>3, <1>7 DEF s, c

LEMMA ResendTakesOver ==
  ASSUME IInv, NEW request \in Requests, NEW reset \in BOOLEAN, Resend(request, reset)
  PROVE  /\ TakesOver(todo', <<>>, request) /\ buffer' = <<>> /\ cseq' \in Nat \ {0}
         /\ input' \in {"none", "connecting", "open"}
         /\ output' \in {"same", "connecting", "own"} /\ unanswered' \in Seq(Requests)
<1> DEFINE r == IF request = GET THEN GET ELSE [request EXCEPT !.cseq = cseq + 1]
           e == Entry("resend", r)
<1>1. /\ cseq' = IF request = GET THEN cseq ELSE cseq + 1
      /\ buffer' = <<>> /\ todo' = <<e>>
      /\ IF reset THEN ResetTCPSockets ELSE UNCHANGED sockets
  BY DEF Resend
<1>2. cseq \in Nat \ {0} BY DEF IInv, TypeOK
<1>3. cseq' \in Nat \ {0} BY <1>1, <1>2
<1>4. r \in Requests /\ r.id = request.id
  <2>1. CASE request = GET BY <2>1
  <2>2. CASE request # GET
    <3>1. r = [request EXCEPT !.cseq = cseq + 1] BY <2>2
    <3>2. QED BY <1>2, <3>1 DEF Requests
  <2>3. QED BY <2>1, <2>2
<1> HIDE DEF r
<1>5. e \in Steps /\ e.do = "resend" /\ \A id : Acts(e, id) <=> request.id = id
  BY <1>4, EntryFacts
<1> HIDE DEF e
<1>6. TakesOver(<<e>>, <<>>, request)
  <2>1. <<e>> \in Seq(Steps) BY <1>5
  <2>2. ParseLast(<<e>>) /\ ~Parses(<<e>>) BY <1>5 DEF ParseLast, Parses
  <2>3. \A id \in Ids : Intends(<<e>>, id) = (IF request.id = id THEN 1 ELSE 0)
    BY <1>5, IntendsOne
  <2>4. QED BY <2>1, <2>2, <2>3 DEF TakesOver
<1>7. /\ input' \in {"none", "connecting", "open"}
      /\ output' \in {"same", "connecting", "own"} /\ unanswered' \in Seq(Requests)
  <2>1. CASE reset
    <3>1. input' = "none" /\ output' = "same" /\ unanswered' = <<>>
      BY <1>1, <2>1 DEF ResetTCPSockets
    <3>2. QED BY <3>1
  <2>2. CASE ~reset
    <3>1. input' = input /\ output' = output /\ unanswered' = unanswered
      BY <1>1, <2>2 DEF sockets
    <3>2. QED BY <3>1, QueueTypes
  <2>3. QED BY <2>1, <2>2
<1>8. QED BY <1>1, <1>3, <1>6, <1>7

\* What the handling of a response leaves of everything but the queues.
HandlesSoundly ==
  /\ buffer' \in Seq(Responses) /\ cseq' \in Nat \ {0} /\ redirects' \in 0..MaxRedirects
  /\ input' \in {"none", "connecting", "open"}
  /\ output' \in {"same", "connecting", "own"} /\ unanswered' \in Seq(Requests)

\* The rest of the response after the request was found, split over its outcomes.
LEMMA HandleSound ==
  ASSUME IInv, RedirectInv, buffer # <<>>, NEW request \in Requests,
         Handle(Head(buffer), Tail(buffer), request)
  PROVE  HandlesSoundly /\ unchallenged' \in BOOLEAN /\ TakesOver(todo', buffer', request)
<1> DEFINE r == Head(buffer)
           extra == Tail(buffer)
<1>1. /\ buffer \in Seq(Responses) /\ cseq \in Nat \ {0} /\ redirects \in 0..MaxRedirects
  BY DEF IInv, TypeOK
<1>2. /\ r \in Responses /\ extra \in Seq(Responses) /\ r = buffer[1]
      /\ 1 \in 1..Len(buffer)
  BY <1>1
<1>3. r.id \in 0..MaxRequests + 1 BY <1>2 DEF Responses
<1>4. Failure \in 0..MaxRequests + 1 BY StepFacts
<1>5. <<>> \in Seq(Responses) OBVIOUS
<1>6. r.code = "redirect" => redirects + 1 \in 0..MaxRedirects
  <2>1. r.code = "redirect" => redirects < MaxRedirects BY <1>2 DEF RedirectInv
  <2>2. MaxRedirects \in Nat BY RtspClientAssumption
  <2>3. QED BY <1>1, <2>1, <2>2
<1>7. \/ /\ r.code \in {"ok", "error", "unauthorized"} /\ buffer' = extra
         /\ todo' = <<Call(request, r.id, r.code = "ok")>> \o More(extra)
         /\ UNCHANGED <<cseq, sockets, unchallenged, redirects>>
      \/ /\ buffer' = extra
         /\ todo' = <<Call(request, Failure, FALSE)>>
         /\ UNCHANGED <<cseq, sockets, unchallenged, redirects>>
      \/ /\ unchallenged' = FALSE
         /\ Resend(request, request = GET)
         /\ UNCHANGED redirects
      \/ /\ r.code = "redirect" /\ redirects' = redirects + 1
         /\ Resend(request, TRUE)
         /\ UNCHANGED unchallenged
  BY DEF Handle
<1> HIDE DEF r, extra
<1>8. ASSUME cseq' = cseq, input' = input, output' = output, unanswered' = unanswered,
             redirects' = redirects, buffer' \in Seq(Responses)
      PROVE  HandlesSoundly
  BY <1>1, <1>8, QueueTypes DEF HandlesSoundly
<1>9. ASSUME NEW reset \in BOOLEAN, Resend(request, reset),
             redirects' \in 0..MaxRedirects
      PROVE  HandlesSoundly /\ TakesOver(todo', buffer', request)
  BY <1>5, <1>9, ResendTakesOver DEF HandlesSoundly
<1>10. unchallenged \in BOOLEAN BY DEF IInv, TypeOK
<1>11. CASE /\ r.code \in {"ok", "error", "unauthorized"} /\ buffer' = extra
            /\ todo' = <<Call(request, r.id, r.code = "ok")>> \o More(extra)
            /\ UNCHANGED <<cseq, sockets, unchallenged, redirects>>
  <2>1. HandlesSoundly BY <1>2, <1>8, <1>11 DEF sockets
  <2>2. unchallenged' \in BOOLEAN BY <1>10, <1>11
  <2>3. (r.code = "ok") \in BOOLEAN OBVIOUS
  <2>4. TakesOver(<<Call(request, r.id, r.code = "ok")>> \o More(extra), extra, request)
    BY <1>3, <2>3, CallTakesOver
  <2>5. QED BY <1>11, <2>1, <2>2, <2>4
<1>12. CASE /\ buffer' = extra
            /\ todo' = <<Call(request, Failure, FALSE)>>
            /\ UNCHANGED <<cseq, sockets, unchallenged, redirects>>
  <2>1. HandlesSoundly BY <1>2, <1>8, <1>12 DEF sockets
  <2>2. unchallenged' \in BOOLEAN BY <1>10, <1>12
  <2>3. TakesOver(<<Call(request, Failure, FALSE)>>, extra, request)
    BY <1>4, CallTakesOver
  <2>4. QED BY <1>12, <2>1, <2>2, <2>3
<1>14. CASE /\ unchallenged' = FALSE
            /\ Resend(request, request = GET)
            /\ UNCHANGED redirects
  <2>1. unchallenged' \in BOOLEAN BY <1>14
  <2>2. (request = GET) \in BOOLEAN OBVIOUS
  <2>3. redirects' \in 0..MaxRedirects BY <1>1, <1>14
  <2>4. HandlesSoundly /\ TakesOver(todo', buffer', request)
    BY <1>9, <1>14, <2>2, <2>3
  <2>5. QED BY <2>1, <2>4
<1>15. CASE /\ r.code = "redirect" /\ redirects' = redirects + 1
            /\ Resend(request, TRUE)
            /\ UNCHANGED unchallenged
  <2>1. unchallenged' \in BOOLEAN BY <1>10, <1>15
  <2>2. redirects' \in 0..MaxRedirects BY <1>6, <1>15
  <2>3. HandlesSoundly /\ TakesOver(todo', buffer', request)
    BY <1>9, <1>15, <2>2
  <2>4. QED BY <2>1, <2>3
<1>16. QED BY <1>7, <1>11, <1>12, <1>14, <1>15

\* The loop has one more response; it is the last thing todo holds.
LEMMA ParseFacts ==
  ASSUME IInv, Doing("parse")
  PROVE  /\ todo # <<>> /\ Tail(todo) = <<>> /\ buffer # <<>>
         /\ \A id \in Ids : Intends(todo, id) = 0
<1>1. todo # <<>> /\ Head(todo).do = "parse" BY DEF Doing
<1>2. todo \in Seq(Steps) /\ ParseLast(todo) /\ (Parses(todo) => buffer # <<>>)
  BY DEF IInv, TypeOK, ParseInv
<1>3. Tail(todo) = <<>> /\ Parses(todo) BY <1>1, <1>2, ParsesTail
<1>4. \A id : ~Acts(Head(todo), id) BY <1>1 DEF Acts
<1>5. \A id : Intends(todo, id)
                = (IF Acts(Head(todo), id) THEN 1 ELSE 0) + Intends(Tail(todo), id)
  BY <1>1, RestFacts
<1>6. \A id : Intends(<<>>, id) = 0 BY <1>2, IntendsNat
<1>7. ASSUME NEW id \in Ids PROVE Intends(todo, id) = 0
  <2>1. Intends(todo, id) = 0 + Intends(Tail(todo), id) BY <1>4, <1>5
  <2>2. Intends(Tail(todo), id) = 0 BY <1>3, <1>6
  <2>3. QED BY <2>1, <2>2
<1>8. QED BY <1>1, <1>2, <1>3, <1>7

LEMMA ParseResponseKeeps ==
  ASSUME IInv, RedirectInv, ParseResponse
  PROVE  IInv'
<1> DEFINE response == Head(buffer)
           extra == Tail(buffer)
           k == TakenFor(response.cseq)
<1>1. /\ Doing("parse")
      /\ tunnel' = tunnel /\ awaitingConnection' = awaitingConnection
      /\ awaitingTunneling' = awaitingTunneling /\ sent' = sent
      /\ tunnelPending' = tunnelPending /\ outcomes' = outcomes /\ broken' = broken
      /\ faults' = faults /\ repeats' = repeats
  BY DEF ParseResponse
<1>1a. kept' \in BOOLEAN
  BY DEF IInv, TypeOK, ParseResponse, BreakOff, BreakOffLate, ParseWhole
<1>2. todo # <<>> /\ buffer # <<>> /\ \A id \in Ids : Intends(todo, id) = 0
  BY <1>1, ParseFacts
<1>3. buffer \in Seq(Responses) /\ extra \in Seq(Responses) /\ <<>> \in Seq(Responses)
  BY <1>2 DEF IInv, TypeOK
<1>4. k \in 1..Len(awaitingResponse) + 1 BY TakenRange
<1>5. \/ /\ buffer' = Left /\ todo' = <<>>
         /\ UNCHANGED <<awaitingResponse, dropped, cseq, sockets, unchallenged,
                        redirects>>
      \/ /\ Pass(k) /\ buffer' = Left /\ todo' = <<>>
         /\ UNCHANGED <<cseq, sockets, unchallenged, redirects>>
      \/ /\ Take(k) /\ k <= Len(awaitingResponse)
         /\ buffer' = Left /\ todo' = <<Call(awaitingResponse[k], Failure, FALSE)>>
         /\ UNCHANGED <<cseq, sockets, unchallenged, redirects>>
      \/ /\ Take(k) /\ k <= Len(awaitingResponse)
         /\ Handle(response, extra, awaitingResponse[k])
      \/ /\ Take(k) /\ k > Len(awaitingResponse)
         /\ buffer' = extra /\ todo' = More(extra)
         /\ UNCHANGED <<cseq, sockets, unchallenged, redirects>>
  BY DEF ParseResponse, BreakOff, BreakOffLate, ParseWhole
<1>5a. Left \in Seq(Responses) BY <1>3 DEF Left
<1>6. SUFFICES /\ HandlesSoundly /\ unchallenged' \in BOOLEAN
               /\ todo' \in Seq(Steps) /\ ParseLast(todo')
               /\ (Parses(todo') => buffer' # <<>>)
               /\ awaitingResponse' \in Seq(Requests)
               /\ dropped' \subseteq 1..MaxRequests + 1
               /\ ~broken => \A id \in Ids :
                    Copies(awaitingResponse, id) + (IF id \in dropped THEN 1 ELSE 0)
                      = Copies(awaitingResponse', id)
                          + (IF id \in dropped' THEN 1 ELSE 0) + Intends(todo', id)
  <2>1. TypeOK' BY <1>1, <1>1a, <1>6 DEF IInv, TypeOK, HandlesSoundly
  <2>2. ParseInv' BY <1>6 DEF ParseInv
  <2>3. Accounted'
    <3> SUFFICES ASSUME ~broken', NEW id \in Ids
                 PROVE  Total(id)' = (IF id <= sent' THEN 1 ELSE 0)
      BY DEF Accounted
    <3>1. ~broken BY <1>1
    <3>2. Total(id) = (IF id <= sent THEN 1 ELSE 0) BY <3>1 DEF IInv, Accounted
    <3> DEFINE c == Copies(awaitingConnection, id) + Copies(awaitingTunneling, id)
               o == Len(outcomes[id])
               a0 == Copies(awaitingResponse, id)
               a1 == Copies(awaitingResponse', id)
               d0 == IF id \in dropped THEN 1 ELSE 0
               d1 == IF id \in dropped' THEN 1 ELSE 0
               i1 == Intends(todo', id)
    <3>3. c \in Nat /\ o \in Nat /\ a0 \in Nat BY QueueTypes
    <3>4. a1 \in Nat /\ i1 \in Nat BY <1>6, CopiesNat, IntendsNat
    <3>5. d0 \in Nat /\ d1 \in Nat OBVIOUS
    <3>6. a0 + d0 = a1 + d1 + i1 BY <1>6, <3>1
    <3>7. Total(id) = c + a0 + 0 + o + d0 BY <1>2 DEF Total
    <3>8. Total(id)' = c + a1 + i1 + o + d1 BY <1>1 DEF Total
    <3> HIDE DEF c, o, a0, a1, d0, d1, i1
    <3>9. c + a1 + i1 + o + d1 = c + a0 + 0 + o + d0 BY <3>3, <3>4, <3>5, <3>6
    <3>10. QED BY <1>1, <3>2, <3>7, <3>8, <3>9
  <2>4. QED BY <2>1, <2>2, <2>3 DEF IInv
<1>7. unchallenged \in BOOLEAN /\ dropped \subseteq 1..MaxRequests + 1
      /\ cseq \in Nat \ {0} /\ redirects \in 0..MaxRedirects
  BY DEF IInv, TypeOK
<1>8. CASE /\ buffer' = Left /\ todo' = <<>>
           /\ UNCHANGED <<awaitingResponse, dropped, cseq, sockets, unchallenged,
                          redirects>>
  <2>1. HandlesSoundly BY <1>5a, <1>7, <1>8, QueueTypes DEF HandlesSoundly, sockets
  <2>2. unchallenged' \in BOOLEAN BY <1>7, <1>8
  <2>3. todo' \in Seq(Steps) /\ ParseLast(todo') /\ ~Parses(todo')
    BY <1>8 DEF ParseLast, Parses
  <2>4. \A id \in Ids : Intends(todo', id) = 0
    <3>1. <<>> \in Seq(Steps) OBVIOUS
    <3>2. QED BY <1>8, <3>1, IntendsNat
  <2>5. ASSUME NEW id \in Ids
        PROVE  Copies(awaitingResponse, id) + (IF id \in dropped THEN 1 ELSE 0)
                 = Copies(awaitingResponse', id)
                     + (IF id \in dropped' THEN 1 ELSE 0) + Intends(todo', id)
    <3>1. awaitingResponse' = awaitingResponse /\ dropped' = dropped BY <1>8
    <3>2. Copies(awaitingResponse, id) \in Nat BY QueueTypes
    <3>3. QED BY <2>4, <3>1, <3>2
  <2>6. awaitingResponse' \in Seq(Requests) /\ dropped' \subseteq 1..MaxRequests + 1
    BY <1>7, <1>8, QueueTypes
  <2>7. QED BY <2>1, <2>2, <2>3, <2>5, <2>6
<1>8a. CASE /\ Pass(k) /\ buffer' = Left /\ todo' = <<>>
            /\ UNCHANGED <<cseq, sockets, unchallenged, redirects>>
  <2> HIDE DEF k
  <2>1. HandlesSoundly BY <1>5a, <1>7, <1>8a, QueueTypes DEF HandlesSoundly, sockets
  <2>2. unchallenged' \in BOOLEAN BY <1>7, <1>8a
  <2>3. todo' \in Seq(Steps) /\ ParseLast(todo') /\ ~Parses(todo')
    BY <1>8a DEF ParseLast, Parses
  <2>4. \A id \in Ids : Intends(todo', id) = 0
    <3>1. <<>> \in Seq(Steps) OBVIOUS
    <3>2. QED BY <1>8a, <3>1, IntendsNat
  <2>5. /\ awaitingResponse' \in Seq(Requests) /\ dropped' \subseteq 1..MaxRequests + 1
        /\ ~broken => \A id \in Ids :
             Copies(awaitingResponse, id) + (IF id \in dropped THEN 1 ELSE 0)
               = Copies(awaitingResponse', id) + (IF id \in dropped' THEN 1 ELSE 0)
    BY <1>4, <1>8a, PassFacts
  <2>6. ASSUME ~broken, NEW id \in Ids
        PROVE  Copies(awaitingResponse, id) + (IF id \in dropped THEN 1 ELSE 0)
                 = Copies(awaitingResponse', id)
                     + (IF id \in dropped' THEN 1 ELSE 0) + Intends(todo', id)
    <3>1. Copies(awaitingResponse', id) \in Nat BY <2>5, CopiesNat
    <3>2. QED BY <2>4, <2>5, <2>6, <3>1
  <2>7. QED BY <2>1, <2>2, <2>3, <2>5, <2>6
<1>8b. CASE /\ Take(k) /\ k <= Len(awaitingResponse)
            /\ buffer' = Left /\ todo' = <<Call(awaitingResponse[k], Failure, FALSE)>>
            /\ UNCHANGED <<cseq, sockets, unchallenged, redirects>>
  <2> HIDE DEF k
  <2>1. Len(awaitingResponse) \in Nat BY QueueTypes
  <2>2. k \in 1..Len(awaitingResponse) BY <1>4, <1>8b, <2>1
  <2>3. /\ awaitingResponse' \in Seq(Requests) /\ awaitingResponse[k] \in Requests
        /\ dropped' \subseteq 1..MaxRequests + 1
        /\ ~broken => \A id \in Ids :
             Copies(awaitingResponse, id) + (IF id \in dropped THEN 1 ELSE 0)
               = Copies(awaitingResponse', id) + (IF id \in dropped' THEN 1 ELSE 0)
                   + (IF awaitingResponse[k].id = id THEN 1 ELSE 0)
    BY <1>8b, <2>2, TakeFacts
  <2>4. HandlesSoundly /\ unchallenged' \in BOOLEAN
    BY <1>5a, <1>7, <1>8b, QueueTypes DEF HandlesSoundly, sockets
  <2>5. TakesOver(<<Call(awaitingResponse[k], Failure, FALSE)>>, Left,
                  awaitingResponse[k])
    BY <2>3, StepFacts, CallTakesOver
  <2>6. TakesOver(todo', buffer', awaitingResponse[k]) BY <1>8b, <2>5
  <2>7. QED BY <2>3, <2>4, <2>6 DEF TakesOver
<1>9. CASE /\ Take(k) /\ k <= Len(awaitingResponse)
           /\ Handle(response, extra, awaitingResponse[k])
  <2> HIDE DEF k, response, extra
  <2>1. Len(awaitingResponse) \in Nat BY QueueTypes
  <2>2. k \in 1..Len(awaitingResponse) BY <1>4, <1>9, <2>1
  <2>3. /\ awaitingResponse' \in Seq(Requests) /\ awaitingResponse[k] \in Requests
        /\ dropped' \subseteq 1..MaxRequests + 1
        /\ ~broken => \A id \in Ids :
             Copies(awaitingResponse, id) + (IF id \in dropped THEN 1 ELSE 0)
               = Copies(awaitingResponse', id) + (IF id \in dropped' THEN 1 ELSE 0)
                   + (IF awaitingResponse[k].id = id THEN 1 ELSE 0)
    BY <1>9, <2>2, TakeFacts
  <2>4. /\ HandlesSoundly /\ unchallenged' \in BOOLEAN
        /\ TakesOver(todo', buffer', awaitingResponse[k])
    BY <1>2, <1>9, <2>3, HandleSound DEF response, extra
  <2>5. QED BY <2>3, <2>4 DEF TakesOver
<1>10. CASE /\ Take(k) /\ k > Len(awaitingResponse)
            /\ buffer' = extra /\ todo' = More(extra)
            /\ UNCHANGED <<cseq, sockets, unchallenged, redirects>>
  <2> HIDE DEF k, response, extra
  <2>1. Len(awaitingResponse) \in Nat BY QueueTypes
  <2>2. k = Len(awaitingResponse) + 1 BY <1>4, <1>10, <2>1
  <2>3. /\ awaitingResponse' \in Seq(Requests)
        /\ dropped' \subseteq 1..MaxRequests + 1
        /\ ~broken => \A id \in Ids :
             Copies(awaitingResponse, id) + (IF id \in dropped THEN 1 ELSE 0)
               = Copies(awaitingResponse', id) + (IF id \in dropped' THEN 1 ELSE 0)
    BY <1>10, <2>2, TakeAllFacts
  <2>4. HandlesSoundly BY <1>3, <1>7, <1>10, QueueTypes DEF HandlesSoundly, sockets
  <2>5. unchallenged' \in BOOLEAN BY <1>7, <1>10
  <2>6. /\ todo' \in Seq(Steps) /\ ParseLast(todo') /\ (Parses(todo') => buffer' # <<>>)
        /\ \A id : Intends(todo', id) = 0
    BY <1>10, MoreFacts
  <2>7. ASSUME ~broken, NEW id \in Ids
        PROVE  Copies(awaitingResponse, id) + (IF id \in dropped THEN 1 ELSE 0)
                 = Copies(awaitingResponse', id)
                     + (IF id \in dropped' THEN 1 ELSE 0) + Intends(todo', id)
    <3>1. Copies(awaitingResponse', id) \in Nat BY <2>3, CopiesNat
    <3>2. QED BY <2>3, <2>6, <2>7, <3>1
  <2>8. QED BY <2>3, <2>4, <2>5, <2>6, <2>7
<1>11. QED BY <1>5, <1>8, <1>8a, <1>8b, <1>9, <1>10

Answers(n, codes) == [i \in 1..n |-> Response(unanswered[i], codes[i])]

\* One read brings these answers, with or without a request of the server's.
Reads(n, codes) ==
  /\ n <= Len(unanswered)
  /\ \/ buffer' = buffer \o Answers(n, codes)
     \/ buffer' = buffer \o <<ServerRequest>> \o Answers(n, codes)
  /\ \A i \in 1..n : MayAnswer(unanswered[i], codes[i])
  /\ unanswered' \in {unanswered, SubSeq(unanswered, n + 1, Len(unanswered))}
  /\ faults' = faults \/ Fault
  /\ \/ repeats' = repeats
     \/ repeats < MaxRepeats /\ repeats' = repeats + 1

LEMMA ReadResponsesKeeps ==
  ASSUME IInv, ReadResponses
  PROVE  IInv'
<1>1. /\ EventLoop /\ todo' = <<ParseFirst>>
      /\ awaitingConnection' = awaitingConnection
      /\ awaitingTunneling' = awaitingTunneling
      /\ awaitingResponse' = awaitingResponse
      /\ sent' = sent /\ outcomes' = outcomes /\ dropped' = dropped /\ broken' = broken
      /\ tunnel' = tunnel /\ cseq' = cseq /\ input' = input /\ output' = output
      /\ tunnelPending' = tunnelPending /\ unchallenged' = unchallenged
      /\ redirects' = redirects /\ kept' = kept
  BY DEF ReadResponses, queues, results
<1>2. \E n \in 1..2 : \E codes \in [1..n -> Codes] : Reads(n, codes)
  BY DEF ReadResponses, Reads, Answers
<1>2a. PICK n \in 1..2 : \E codes \in [1..n -> Codes] : Reads(n, codes) BY <1>2
<1>2b. PICK codes \in [1..n -> Codes] : Reads(n, codes) BY <1>2a
<1>2c. n <= Len(unanswered) BY <1>2b DEF Reads
<1> DEFINE answers == Answers(n, codes)
<1>3. answers \in Seq(Responses) /\ Len(answers) >= 1
  <2>1. unanswered \in Seq(Requests) BY QueueTypes
  <2>2. \A i \in 1..n : unanswered[i] \in Requests /\ codes[i] \in Codes
    BY <1>2c, <2>1
  <2>3. \A r \in Requests : \A c \in Codes : Response(r, c) \in Responses
    BY RtspClientAssumption, RequestFacts DEF Response, Responses
  <2>4. \A i \in 1..n : Response(unanswered[i], codes[i]) \in Responses BY <2>2, <2>3
  <2>5. answers \in [1..n -> Responses] BY <2>4 DEF Answers
  <2>6. Len(answers) = n /\ n \in Nat BY DEF Answers
  <2> HIDE DEF answers
  <2>7. QED BY <2>5, <2>6
<1>4. /\ n <= Len(unanswered)
      /\ \/ buffer' = buffer \o answers
         \/ buffer' = buffer \o <<ServerRequest>> \o answers
      /\ unanswered' \in {unanswered, SubSeq(unanswered, n + 1, Len(unanswered))}
      /\ faults' = faults \/ Fault
      /\ \/ repeats' = repeats
         \/ repeats < MaxRepeats /\ repeats' = repeats + 1
  BY <1>2b DEF Reads
<1> HIDE DEF answers
<1>5. buffer' \in Seq(Responses) /\ buffer' # <<>>
  <2>1. buffer \in Seq(Responses) BY DEF IInv, TypeOK
  <2>2. ServerRequest \in Responses
    BY RtspClientAssumption DEF ServerRequest, Responses, Failure
  <2> DEFINE s == <<ServerRequest>>
  <2>3. s \in Seq(Responses) BY <2>2
  <2> HIDE DEF s
  <2>4. buffer \o s \in Seq(Responses) BY <2>1, <2>3
  <2>5. /\ buffer \o answers \in Seq(Responses)
        /\ Len(buffer \o answers) = Len(buffer) + Len(answers)
        /\ buffer \o s \o answers \in Seq(Responses)
        /\ Len(buffer \o s \o answers) = Len(buffer \o s) + Len(answers)
    BY <1>3, <2>1, <2>4
  <2>6. Len(buffer) \in Nat /\ Len(buffer \o s) \in Nat /\ Len(answers) \in Nat
    BY <1>3, <2>1, <2>4
  <2>7. Len(buffer \o answers) > 0 /\ Len(buffer \o s \o answers) > 0
    BY <1>3, <2>5, <2>6
  <2>8. buffer' = buffer \o answers \/ buffer' = buffer \o s \o answers
    BY <1>4 DEF s
  <2>9. buffer' \in Seq(Responses) /\ Len(buffer') > 0 BY <2>5, <2>7, <2>8
  <2>10. QED BY <2>9
<1>6. unanswered' \in Seq(Requests)
  <2>1. unanswered \in Seq(Requests) BY QueueTypes
  <2>2. SubSeq(unanswered, n + 1, Len(unanswered)) \in Seq(Requests) BY <2>1
  <2>3. QED BY <1>4, <2>1, <2>2
<1>7. faults' \in 0..MaxFaults BY <1>4, FaultType, QueueTypes
<1>8. repeats' \in 0..MaxRepeats
  <2>1. repeats \in 0..MaxRepeats /\ MaxRepeats \in Nat
    BY RtspClientAssumption DEF IInv, TypeOK
  <2>2. QED BY <1>4, <2>1
<1>9. /\ <<ParseFirst>> \in Seq(Steps) /\ ParseLast(<<ParseFirst>>)
      /\ \A id : Intends(<<ParseFirst>>, id) = 0
  <2>1. <<ParseFirst>> \in Seq(Steps) BY StepFacts
  <2>2. ParseLast(<<ParseFirst>>) BY DEF ParseLast
  <2>3. \A id : Intends(<<ParseFirst>>, id) = 0 BY StepFacts, IntendsOne
  <2>4. QED BY <2>1, <2>2, <2>3
<1>10. TypeOK' BY <1>1, <1>5, <1>6, <1>7, <1>8, <1>9 DEF IInv, TypeOK
<1>11. ASSUME NEW id \in Ids PROVE Held(id)' = Held(id)
  <2>1. Intends(todo, id) = 0 BY <1>1, QueueTypes, IdleFacts
  <2>2. Intends(todo', id) = 0 BY <1>1, <1>9
  <2>3. QED BY <1>1, <2>1, <2>2 DEF Held
<1>12. Accounted' BY <1>1, <1>11, HeldAccounted DEF SameHeld
<1>13. ParseInv' BY <1>1, <1>5, <1>9 DEF ParseInv
<1>14. QED BY <1>10, <1>12, <1>13 DEF IInv

LEMMA ReadRestKeeps ==
  ASSUME IInv, ReadRest
  PROVE  IInv'
<1>1. /\ EventLoop /\ todo' = <<ParseFirst>> /\ buffer # <<>> /\ buffer' = buffer
      /\ sent' = sent /\ outcomes' = outcomes /\ dropped' = dropped /\ broken' = broken
      /\ UNCHANGED <<awaitingConnection, awaitingTunneling, awaitingResponse>>
  BY DEF ReadRest, queues, results
<1>2. <<ParseFirst>> \in Seq(Steps) /\ \A id : Intends(<<ParseFirst>>, id) = 0
  BY StepFacts, IntendsOne
<1>3. TypeOK'
  BY <1>1, <1>2 DEF IInv, TypeOK, ReadRest, queues, sockets, results, bounds
<1>4. ASSUME NEW id \in Ids PROVE Held(id)' = Held(id)
  <2>1. Intends(todo, id) = 0 BY <1>1, QueueTypes, IdleFacts
  <2>2. Intends(todo', id) = 0 BY <1>1, <1>2
  <2>3. QED BY <1>1, <2>1, <2>2 DEF Held
<1>5. Accounted' BY <1>1, <1>4, HeldAccounted DEF SameHeld
<1>6. ParseLast(todo') BY <1>1 DEF ParseLast
<1>7. ParseInv' BY <1>1, <1>6 DEF ParseInv
<1>8. QED BY <1>3, <1>5, <1>7 DEF IInv

LEMMA ReadHeadersKeeps ==
  ASSUME IInv, ReadHeaders
  PROVE  IInv'
<1> DEFINE k == TakenFor(Response(Head(unanswered), "ok").cseq)
           q == awaitingResponse
<1>1. /\ Pass(k)
      /\ todo' = todo /\ buffer' = buffer /\ sent' = sent /\ outcomes' = outcomes
      /\ broken' = broken /\ awaitingConnection' = awaitingConnection
      /\ awaitingTunneling' = awaitingTunneling
  BY DEF ReadHeaders
<1>2. k \in 1..Len(q) + 1 BY TakenRange
<1> HIDE DEF k
<1>3. /\ awaitingResponse' \in Seq(Requests) /\ dropped' \subseteq 1..MaxRequests + 1
      /\ ~broken => \A id \in Ids :
           Copies(q, id) + (IF id \in dropped THEN 1 ELSE 0)
             = Copies(awaitingResponse', id) + (IF id \in dropped' THEN 1 ELSE 0)
  BY <1>1, <1>2, PassFacts
<1>4. TypeOK' BY <1>1, <1>3 DEF IInv, TypeOK, ReadHeaders, sockets, bounds
<1>5. Accounted'
  <2> SUFFICES ASSUME ~broken', NEW id \in Ids
               PROVE  Total(id)' = (IF id <= sent' THEN 1 ELSE 0)
    BY DEF Accounted
  <2>1. ~broken BY <1>1
  <2>2. Total(id) = (IF id <= sent THEN 1 ELSE 0) BY <2>1 DEF IInv, Accounted
  <2> DEFINE c == Copies(awaitingConnection, id) + Copies(awaitingTunneling, id)
             j == Intends(todo, id)
             l == Len(outcomes[id])
             a0 == Copies(q, id)
             a1 == Copies(awaitingResponse', id)
             d0 == IF id \in dropped THEN 1 ELSE 0
             d1 == IF id \in dropped' THEN 1 ELSE 0
  <2>3. c \in Nat /\ j \in Nat /\ l \in Nat /\ a0 \in Nat BY QueueTypes
  <2>4. a1 \in Nat BY <1>3, CopiesNat
  <2>5. d0 \in Nat /\ d1 \in Nat OBVIOUS
  <2>6. a0 + d0 = a1 + d1 BY <1>3, <2>1
  <2>7. Total(id) = c + a0 + j + l + d0 BY DEF Total
  <2>8. Total(id)' = c + a1 + j + l + d1 BY <1>1 DEF Total
  <2> HIDE DEF c, j, l, a0, a1, d0, d1
  <2>9. c + a1 + j + l + d1 = c + a0 + j + l + d0 BY <2>3, <2>4, <2>5, <2>6
  <2>10. QED BY <1>1, <2>2, <2>7, <2>8, <2>9
<1>6. ParseInv' BY <1>1 DEF IInv, ParseInv
<1>7. QED BY <1>4, <1>5, <1>6 DEF IInv

LEMMA ResponseTruncatedKeeps ==
  ASSUME IInv, ResponseTruncated
  PROVE  IInv'
<1> DEFINE q == awaitingResponse
<1>1. /\ EventLoop /\ Take(1) /\ buffer' = <<>>
      /\ todo' = IF q = <<>> THEN <<>> ELSE Errors(<<Head(q)>>)
      /\ awaitingConnection' = awaitingConnection
      /\ awaitingTunneling' = awaitingTunneling /\ sent' = sent
      /\ outcomes' = outcomes /\ broken' = broken
      /\ unanswered # <<>> /\ unanswered' = Tail(unanswered)
  BY DEF ResponseTruncated
<1>2. q \in Seq(Requests) /\ Len(q) \in Nat /\ unanswered \in Seq(Requests)
  BY QueueTypes
<1>3. SUFFICES /\ todo' \in Seq(Steps) /\ ParseLast(todo') /\ ~Parses(todo')
               /\ awaitingResponse' \in Seq(Requests)
               /\ dropped' \subseteq 1..MaxRequests + 1
               /\ ~broken => \A id \in Ids :
                    Copies(q, id) + (IF id \in dropped THEN 1 ELSE 0)
                      = Copies(awaitingResponse', id)
                          + (IF id \in dropped' THEN 1 ELSE 0) + Intends(todo', id)
  <2>1. TypeOK'
    <3>1. unanswered' \in Seq(Requests) BY <1>1, <1>2
    <3>2. faults' \in 0..MaxFaults BY FaultType DEF ResponseTruncated
    <3>3. /\ tunnel' = tunnel /\ cseq' = cseq /\ input' = input /\ output' = output
          /\ tunnelPending' = tunnelPending /\ unchallenged' = unchallenged
          /\ redirects' = redirects /\ repeats' = repeats /\ kept' = kept
      BY DEF ResponseTruncated
    <3>4. QED BY <1>1, <1>3, <3>1, <3>2, <3>3 DEF IInv, TypeOK
  <2>2. ParseInv' BY <1>3 DEF ParseInv
  <2>3. Accounted'
    <3> SUFFICES ASSUME ~broken', NEW id \in Ids
                 PROVE  Total(id)' = (IF id <= sent' THEN 1 ELSE 0)
      BY DEF Accounted
    <3>1. ~broken BY <1>1
    <3>2. Total(id) = (IF id <= sent THEN 1 ELSE 0) BY <3>1 DEF IInv, Accounted
    <3> DEFINE c == Copies(awaitingConnection, id) + Copies(awaitingTunneling, id)
               o == Len(outcomes[id])
               a0 == Copies(awaitingResponse, id)
               a1 == Copies(awaitingResponse', id)
               d0 == IF id \in dropped THEN 1 ELSE 0
               d1 == IF id \in dropped' THEN 1 ELSE 0
               i1 == Intends(todo', id)
    <3>3. c \in Nat /\ o \in Nat /\ a0 \in Nat BY QueueTypes
    <3>4. a1 \in Nat /\ i1 \in Nat BY <1>3, CopiesNat, IntendsNat
    <3>5. d0 \in Nat /\ d1 \in Nat OBVIOUS
    <3>6. a0 + d0 = a1 + d1 + i1 BY <1>3, <3>1
    <3>7. Intends(todo, id) = 0 BY <1>1, <1>2, IdleFacts
    <3>8. Total(id) = c + a0 + 0 + o + d0 BY <3>7 DEF Total
    <3>9. Total(id)' = c + a1 + i1 + o + d1 BY <1>1 DEF Total
    <3> HIDE DEF c, o, a0, a1, d0, d1, i1
    <3>10. c + a1 + i1 + o + d1 = c + a0 + 0 + o + d0 BY <3>3, <3>4, <3>5, <3>6
    <3>11. QED BY <1>1, <3>2, <3>8, <3>9, <3>10
  <2>4. QED BY <2>1, <2>2, <2>3 DEF IInv
<1>4. CASE q = <<>>
  <2>1. todo' = <<>> BY <1>1, <1>4
  <2>2. 1 = Len(q) + 1 BY <1>2, <1>4
  <2>3. /\ awaitingResponse' \in Seq(Requests) /\ dropped' \subseteq 1..MaxRequests + 1
        /\ ~broken => \A id \in Ids :
             Copies(q, id) + (IF id \in dropped THEN 1 ELSE 0)
               = Copies(awaitingResponse', id) + (IF id \in dropped' THEN 1 ELSE 0)
    BY <1>1, <2>2, TakeAllFacts
  <2>4. todo' \in Seq(Steps) /\ ParseLast(todo') /\ ~Parses(todo')
    BY <2>1 DEF ParseLast, Parses
  <2>5. \A id \in Ids : Intends(todo', id) = 0 BY <2>1, <2>4, IntendsNat
  <2>6. ASSUME ~broken, NEW id \in Ids
        PROVE  Copies(q, id) + (IF id \in dropped THEN 1 ELSE 0)
                 = Copies(awaitingResponse', id)
                     + (IF id \in dropped' THEN 1 ELSE 0) + Intends(todo', id)
    <3>1. Copies(awaitingResponse', id) \in Nat BY <2>3, CopiesNat
    <3>2. QED BY <2>3, <2>5, <2>6, <3>1
  <2>7. QED BY <2>3, <2>4, <2>6
<1>5. CASE q # <<>>
  <2> DEFINE r == Head(q)
  <2>1. 1 \in 1..Len(q) /\ r = q[1] /\ r \in Requests BY <1>2, <1>5
  <2> HIDE DEF r
  <2>2. todo' = Errors(<<r>>) BY <1>1, <1>5 DEF r
  <2>3. /\ awaitingResponse' \in Seq(Requests) /\ dropped' \subseteq 1..MaxRequests + 1
        /\ ~broken => \A id \in Ids :
             Copies(q, id) + (IF id \in dropped THEN 1 ELSE 0)
               = Copies(awaitingResponse', id) + (IF id \in dropped' THEN 1 ELSE 0)
                   + (IF r.id = id THEN 1 ELSE 0)
    BY <1>1, <2>1, TakeFacts
  <2> DEFINE s == <<r>>
  <2>4. s \in Seq(Requests) BY <2>1
  <2>5. \A id \in Ids : Copies(s, id) = (IF r.id = id THEN 1 ELSE 0)
    BY <2>1, CopiesOne
  <2> HIDE DEF s
  <2>6. /\ GoodTodo(Errors(s)) /\ ~Parses(Errors(s))
        /\ \A id \in Ids : Intends(Errors(s), id) = Copies(s, id)
    BY <1>1, <2>4, IdleFacts
  <2>7. todo' = Errors(s) BY <2>2 DEF s
  <2>8. \A id \in Ids : Intends(todo', id) = (IF r.id = id THEN 1 ELSE 0)
    BY <2>5, <2>6, <2>7
  <2>9. QED BY <2>3, <2>6, <2>7, <2>8 DEF GoodTodo
<1>6. QED BY <1>4, <1>5

LEMMA ServerSkipsKeeps ==
  ASSUME IInv, ServerSkips
  PROVE  IInv'
<1>1. unanswered' \in Seq(Requests)
  <2>1. unanswered \in Seq(Requests) BY QueueTypes
  <2>2. QED BY <2>1 DEF ServerSkips
<1>2. faults' \in 0..MaxFaults BY FaultType DEF ServerSkips
<1>3. TypeOK' BY <1>1, <1>2 DEF IInv, TypeOK, ServerSkips, queues, results
<1>4. SameHeld BY DEF SameHeld, Held, ServerSkips, queues
<1>5. Accounted' BY <1>4, HeldAccounted DEF ServerSkips, results
<1>6. ParseInv' BY DEF IInv, ParseInv, ServerSkips
<1>7. QED BY <1>3, <1>5, <1>6 DEF IInv

-----------------------------------------------------------------------------
(* The theorems *)

\* A turn of the loop takes a response off the buffer, or empties it, or leaves it.
LEMMA ParseShortens ==
  ASSUME ParseResponse
  PROVE  \/ buffer' = <<>>
         \/ buffer' \in {buffer, Tail(buffer)} /\ redirects' = redirects
<1>1. ASSUME NEW r, NEW q, Handle(r, Tail(buffer), q)
      PROVE  \/ buffer' = <<>>
             \/ buffer' \in {buffer, Tail(buffer)} /\ redirects' = redirects
  BY <1>1 DEF Handle, Resend
<1>2. Left \in {<<>>, buffer} BY DEF Left
<1>3. QED BY <1>1, <1>2 DEF ParseResponse, BreakOff, BreakOffLate, ParseWhole

\* What a read appends respects the bound on redirections.
LEMMA ReadRespects ==
  ASSUME IInv, RedirectInv, ReadResponses
  PROVE  RedirectInv'
<1>1. PICK n \in 1..2 : \E codes \in [1..n -> Codes] : Reads(n, codes)
  BY DEF ReadResponses, Reads, Answers
<1>2. PICK codes \in [1..n -> Codes] : Reads(n, codes) BY <1>1
<1>3. redirects' = redirects BY DEF ReadResponses
<1> DEFINE a == Answers(n, codes)
           s == <<ServerRequest>>
           Respects(b) == \A i \in 1..Len(b) :
                            b[i].code = "redirect" => redirects < MaxRedirects
<1>4. a \in Seq(Responses) /\ Len(a) = n /\ n \in Nat
      /\ \A i \in 1..n : a[i] = Response(unanswered[i], codes[i])
  <2>1. unanswered \in Seq(Requests) BY QueueTypes
  <2>2. \A i \in 1..n : unanswered[i] \in Requests /\ codes[i] \in Codes
    BY <1>2, <2>1 DEF Reads
  <2>3. \A r \in Requests : \A c \in Codes : Response(r, c) \in Responses
    BY RtspClientAssumption, RequestFacts DEF Response, Responses
  <2>4. \A i \in 1..n : Response(unanswered[i], codes[i]) \in Responses BY <2>2, <2>3
  <2>5. a \in [1..n -> Responses] BY <2>4 DEF Answers
  <2>6. Len(a) = n /\ n \in Nat BY DEF Answers
  <2>7. \A i \in 1..n : a[i] = Response(unanswered[i], codes[i]) BY DEF Answers
  <2> HIDE DEF a
  <2>8. QED BY <2>5, <2>6, <2>7
<1>5. Respects(a)
  <2>1. \A i \in 1..n : codes[i] = "redirect" => redirects < MaxRedirects
    BY <1>2 DEF Reads, MayAnswer
  <2>2. \A i \in 1..n : a[i].code = codes[i] BY <1>4 DEF Response
  <2> HIDE DEF a
  <2>3. QED BY <1>4, <2>1, <2>2
<1>6. Respects(s) BY DEF ServerRequest
<1>7. Respects(buffer) BY DEF RedirectInv
<1>8. s \in Seq(Responses)
  <2>1. ServerRequest \in Responses
    BY RtspClientAssumption DEF ServerRequest, Responses, Failure
  <2>2. QED BY <2>1
<1>9. buffer \in Seq(Responses) BY DEF IInv, TypeOK
<1> HIDE DEF a, s
<1>10. ASSUME NEW b \in Seq(Responses), NEW c \in Seq(Responses), Respects(b), Respects(c)
       PROVE  b \o c \in Seq(Responses) /\ Respects(b \o c)
  <2>1. /\ b \o c \in Seq(Responses) /\ Len(b) \in Nat /\ Len(c) \in Nat
        /\ Len(b \o c) = Len(b) + Len(c)
        /\ \A i \in 1..Len(b) : (b \o c)[i] = b[i]
        /\ \A i \in 1..Len(b \o c) : i > Len(b) => (b \o c)[i] = c[i - Len(b)]
    OBVIOUS
  <2>2. \A i \in 1..Len(b \o c) :
          i <= Len(b) \/ (i > Len(b) /\ i - Len(b) \in 1..Len(c))
    BY <2>1
  <2>3. QED BY <1>10, <2>1, <2>2
<1>11. buffer \o a \in Seq(Responses) /\ Respects(buffer \o a)
  BY <1>4, <1>5, <1>7, <1>9, <1>10
<1>12. buffer \o s \in Seq(Responses) /\ Respects(buffer \o s)
  BY <1>6, <1>7, <1>8, <1>9, <1>10
<1>13. Respects(buffer \o s \o a) BY <1>4, <1>5, <1>10, <1>12
<1>14. buffer' = buffer \o a \/ buffer' = buffer \o s \o a BY <1>2 DEF Reads, a, s
<1>15. Respects(buffer') BY <1>11, <1>13, <1>14
<1>16. QED BY <1>3, <1>15 DEF RedirectInv

LEMMA RedirectStep ==
  ASSUME IInv, RedirectInv, Next
  PROVE  RedirectInv'
<1>1. ASSUME buffer' = buffer, redirects' = redirects PROVE RedirectInv'
  BY <1>1 DEF RedirectInv
<1>2. ASSUME buffer' = <<>> PROVE RedirectInv' BY <1>2 DEF RedirectInv
<1>3. CASE SendCommand BY <1>1, <1>3 DEF SendCommand, bounds
<1>4. CASE SendRequest BY <1>1, <1>4 DEF SendRequest
<1>5. CASE CallHandler BY <1>1, <1>5 DEF CallHandler, bounds
<1>6. CASE HandlerReturns BY <1>1, <1>6 DEF HandlerReturns, bounds
<1>7. CASE CallAgain BY <1>1, <1>7 DEF CallAgain, bounds
<1>8. CASE HandlerForGET BY <1>1, <1>8 DEF HandlerForGET
<1>9. CASE ParseResponse
  <2>1. CASE buffer' = <<>> BY <1>2, <2>1
  <2>2. CASE buffer' = Tail(buffer) /\ redirects' = redirects
    <3>1. Doing("parse") BY <1>9 DEF ParseResponse
    <3>2. buffer # <<>> /\ buffer \in Seq(Responses)
      BY <3>1, ParseFacts DEF IInv, TypeOK
    <3>3. /\ Len(buffer) \in Nat /\ Len(Tail(buffer)) = Len(buffer) - 1
          /\ \A i \in 1..Len(Tail(buffer)) : Tail(buffer)[i] = buffer[i + 1]
      BY <3>2
    <3>4. \A i \in 1..Len(Tail(buffer)) : i + 1 \in 1..Len(buffer) BY <3>3
    <3>5. QED BY <2>2, <3>3, <3>4 DEF RedirectInv
  <2>3. CASE buffer' = buffer /\ redirects' = redirects BY <1>1, <2>3
  <2>4. QED BY <1>9, <2>1, <2>2, <2>3, ParseShortens
<1>10. CASE ConnectionSucceeds BY <1>1, <1>10 DEF ConnectionSucceeds, bounds
<1>11. CASE ConnectionFails BY <1>1, <1>11 DEF ConnectionFails
<1>12. CASE ConnectionLost BY <1>2, <1>12 DEF ConnectionLost
<1>13. CASE ReadResponses BY <1>13, ReadRespects
<1>13a. CASE ReadRest BY <1>1, <1>13a DEF ReadRest, bounds
<1>14. CASE ReadHeaders BY <1>1, <1>14 DEF ReadHeaders, bounds
<1>15. CASE ResponseTruncated BY <1>2, <1>15 DEF ResponseTruncated
<1>16. CASE ServerSkips BY <1>1, <1>16 DEF ServerSkips
<1>17. QED
  BY <1>3, <1>4, <1>5, <1>6, <1>7, <1>8, <1>9, <1>10, <1>11, <1>12, <1>13, <1>13a,
     <1>14, <1>15, <1>16 DEF Next, Running, Connection

\* At the start no request was sent and nothing is queued.
LEMMA InitHolds ==
  ASSUME Init
  PROVE  IInv /\ RedirectInv
<1>1. TypeOK
  <2>1. outcomes \in [Ids -> Seq(0..MaxRequests + 1)]
    <3>1. <<>> \in Seq(0..MaxRequests + 1) OBVIOUS
    <3>2. QED BY <3>1 DEF Init
  <2>2. /\ sent \in 0..MaxRequests /\ cseq \in Nat \ {0} /\ faults \in 0..MaxFaults
        /\ redirects \in 0..MaxRedirects /\ repeats \in 0..MaxRepeats
    BY RtspClientAssumption DEF Init
  <2>3. /\ awaitingConnection \in Seq(Requests) /\ awaitingTunneling \in Seq(Requests)
        /\ awaitingResponse \in Seq(Requests) /\ unanswered \in Seq(Requests)
    BY DEF Init
  <2>4. buffer \in Seq(Responses) /\ todo \in Seq(Steps) BY DEF Init
  <2>5. /\ tunnel \in BOOLEAN /\ tunnelPending \in BOOLEAN /\ unchallenged \in BOOLEAN
        /\ broken \in BOOLEAN /\ kept \in BOOLEAN
    BY DEF Init
  <2>6. input = "none" /\ output = "same" /\ dropped = {} BY DEF Init
  <2>7. QED BY <2>1, <2>2, <2>3, <2>4, <2>5, <2>6 DEF TypeOK
<1>2. Accounted
  <2> SUFFICES ASSUME NEW id \in Ids PROVE Total(id) = (IF id <= sent THEN 1 ELSE 0)
    BY DEF Accounted
  <2>1. /\ Copies(awaitingConnection, id) = 0 /\ Copies(awaitingTunneling, id) = 0
        /\ Copies(awaitingResponse, id) = 0 /\ Intends(todo, id) = 0
    <3>1. <<>> \in Seq(Requests) /\ <<>> \in Seq(Steps) OBVIOUS
    <3>2. Copies(<<>>, id) = 0 /\ Intends(<<>>, id) = 0 BY <3>1, CopiesNat, IntendsNat
    <3>3. QED BY <3>2 DEF Init
  <2>2. Len(outcomes[id]) = 0 BY DEF Init
  <2>3. id \notin dropped BY DEF Init
  <2>4. ~(id <= sent) BY RtspClientAssumption DEF Init, Ids
  <2>5. QED BY <2>1, <2>2, <2>3, <2>4 DEF Total
<1>3. ParseInv BY DEF Init, ParseInv, ParseLast, Parses
<1>4. RedirectInv BY DEF Init, RedirectInv
<1>5. QED BY <1>1, <1>2, <1>3, <1>4 DEF IInv

LEMMA StepHolds ==
  ASSUME IInv, RedirectInv, [Next]_vars
  PROVE  (IInv /\ RedirectInv)'
<1>1. CASE Next
  <2>1. IInv'
    <3>1. CASE SendCommand BY <3>1, SendCommandKeeps
    <3>2. CASE Running
      BY <3>2, SendRequestKeeps, CallHandlerKeeps, HandlerReturnsKeeps, CallAgainKeeps,
         HandlerForGETKeeps, ParseResponseKeeps DEF Running
    <3>3. CASE Connection
      BY <3>3, ConnectionSucceedsKeeps, ConnectionFailsKeeps DEF Connection
    <3>4. CASE ConnectionLost BY <3>4, ConnectionLostKeeps
    <3>5. CASE ReadResponses BY <3>5, ReadResponsesKeeps
    <3>5a. CASE ReadRest BY <3>5a, ReadRestKeeps
    <3>6. CASE ReadHeaders BY <3>6, ReadHeadersKeeps
    <3>7. CASE ResponseTruncated BY <3>7, ResponseTruncatedKeeps
    <3>8. CASE ServerSkips BY <3>8, ServerSkipsKeeps
    <3>9. QED BY <1>1, <3>1, <3>2, <3>3, <3>4, <3>5, <3>5a, <3>6, <3>7, <3>8 DEF Next
  <2>2. RedirectInv' BY <1>1, RedirectStep
  <2>3. QED BY <2>1, <2>2
<1>2. CASE UNCHANGED vars
  <2>1. TypeOK'
    BY <1>2 DEF IInv, TypeOK, vars, queues, sockets, results, bounds
  <2>2. SameHeld BY <1>2 DEF SameHeld, Held, vars, queues
  <2>3. Accounted' BY <1>2, <2>2, HeldAccounted DEF vars, results
  <2>4. ParseInv' BY <1>2 DEF IInv, ParseInv, vars
  <2>5. RedirectInv' BY <1>2 DEF RedirectInv, vars, bounds
  <2>6. QED BY <2>1, <2>3, <2>4, <2>5 DEF IInv
<1>3. QED BY <1>1, <1>2

\* The four parts together are kept by every step, for every number of requests,
\* faults, redirections and repeated answers.
THEOREM Inductive == Spec => [](IInv /\ RedirectInv)
<1>1. Init => IInv /\ RedirectInv BY InitHolds
<1>2. IInv /\ RedirectInv /\ [Next]_vars => (IInv /\ RedirectInv)' BY StepHolds
<1>3. QED BY <1>1, <1>2, PTL DEF Spec

\* Every variable has the values its counterpart in RTSPClient can have.
THEOREM TypeCorrect == Spec => []TypeOK
<1>1. IInv /\ RedirectInv => TypeOK BY DEF IInv
<1>2. QED BY <1>1, Inductive, PTL

\* A request that was sent is in one queue, in the hands of the running handler,
\* answered, or deleted without a call: RTSPClient never loses it and never handles
\* it twice, until handleResponseBytes uses a request that was deleted.
THEOREM RequestsHaveOnePlace == Spec => []OnePlace
<1>1. IInv /\ RedirectInv => OnePlace
  <2> SUFFICES ASSUME IInv, ~broken, NEW id \in 1..sent
               PROVE  1 = Copies(awaitingConnection, id) + Copies(awaitingTunneling, id)
                            + Copies(awaitingResponse, id) + Intended(id)
                            + Len(outcomes[id]) + (IF id \in dropped THEN 1 ELSE 0)
    BY DEF OnePlace
  <2>1. sent \in 0..MaxRequests /\ MaxRequests \in Nat
    BY RtspClientAssumption DEF IInv, TypeOK
  <2>2. id \in Ids /\ id <= sent BY <2>1 DEF Ids
  <2>3. Total(id) = 1 BY <2>2 DEF IInv, Accounted
  <2>4. Intended(id) = Intends(todo, id) BY DEF Intended, Intends
  <2>5. QED BY <2>3, <2>4 DEF Total
<1>2. QED BY <1>1, Inductive, PTL
=============================================================================
