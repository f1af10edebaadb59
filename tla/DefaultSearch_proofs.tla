------------------------- MODULE DefaultSearch_proofs ------------------------
(***************************************************************************)
(* What holds of a search for any tables, any number of points and any k.  *)
(*                                                                         *)
(* Whatever the strategy asks for (EngineSpec): the neighbours are the     *)
(* best evaluated points, the snapshot is fresh, the ledgers match the     *)
(* cursors and the reason of a finish is honest.  Two invariants, proved   *)
(* apart: ResultsInv for the neighbours, EngineInv for the rest, which     *)
(* rests on ScanIsCorrect through what a scan in flight promises           *)
(* (ScanPromise).                                                          *)
(*                                                                         *)
(* With the default strategy (Spec): a search is a search of the engine;   *)
(* it implements TableScanSchedule, whose theorems are reused through      *)
(* INSTANCE (ScheduleInv); the collision counts are exact (CollisionInv);  *)
(* each call of next() is paid for (StepsInv); and with SameLedgers and    *)
(* StopInv these show that it implements Search.                           *)
(***************************************************************************)
EXTENDS DefaultSearch, CursorScan_proofs, FiniteSetTheorems, SequenceTheorems

-----------------------------------------------------------------------------
\* The order of neighbours, and the list of the k best, as facts about a
\* distance function rather than about the state.
Nearer(d, p, q) == d[p] < d[q] \/ (d[p] = d[q] /\ p < q)

\* NeighborsAreBestEvaluated without its counts; that a list that is not full
\* has every point is what makes it inductive.
IsBest(d, k, S, s) ==
    /\ s \in Seq(Point) /\ Len(s) <= k
    /\ \A i, j \in 1 .. Len(s) : i < j => Nearer(d, s[i], s[j])
    /\ \A i \in 1 .. Len(s) : s[i] \in S
    /\ Len(s) < k => \A p \in S : \E i \in 1 .. Len(s) : s[i] = p
    /\ \A p \in S : \/ \E i \in 1 .. Len(s) : s[i] = p
                    \/ \A i \in 1 .. Len(s) : Nearer(d, s[i], p)

LEMMA NearerIsTotalOrder ==
  ASSUME NEW d \in [Point -> Nat]
  PROVE  /\ \A p, q \in Point : p # q => Nearer(d, p, q) \/ Nearer(d, q, p)
         /\ \A p, q \in Point : ~(Nearer(d, p, q) /\ Nearer(d, q, p))
         /\ \A p, q, r \in Point : Nearer(d, p, q) /\ Nearer(d, q, r) => Nearer(d, p, r)
BY DEF Nearer, Point

\* A set of the first places of a list is an interval.
LEMMA PrefixIsInterval ==
  ASSUME NEW n \in Nat, NEW T \in SUBSET (1 .. n),
         \A i \in T : \A j \in 1 .. i : j \in T
  PROVE  Cardinality(T) \in 0 .. n /\ T = 1 .. Cardinality(T)
<1> DEFINE M == {m \in 1 .. n + 1 : m \notin T}
<1>1. n + 1 \in M /\ M \subseteq Nat
  OBVIOUS
<1>2. PICK m \in M : \A x \in M : m <= x
  <2> HIDE DEF M
  <2> QED  BY <1>1, LeastNatural
<1>3. T = 1 .. m - 1
  <2>1. ASSUME NEW i \in T PROVE i \in 1 .. m - 1
    <3>1. i \in 1 .. n
      OBVIOUS
    <3>2. ~(m <= i)
      OBVIOUS
    <3> QED  BY <3>1, <3>2
  <2>2. ASSUME NEW i \in 1 .. m - 1 PROVE i \in T
    <3>1. i \in 1 .. n + 1 /\ ~(m <= i)
      OBVIOUS
    <3> QED  BY <1>2, <3>1
  <2> QED  BY <2>1, <2>2
<1>4. Cardinality(1 .. m - 1) = m - 1
  BY FS_Interval
<1> QED  BY <1>3, <1>4

\* Inserted at its place, with nothing cut off yet.
LEMMA InsertedSequence ==
  ASSUME NEW s \in Seq(Point), NEW p \in Point, NEW c \in 0 .. Len(s)
  PROVE  LET u == SubSeq(s, 1, c) \o <<p>> \o SubSeq(s, c + 1, Len(s))
         IN  /\ u \in Seq(Point) /\ Len(u) = Len(s) + 1
             /\ \A i \in 1 .. Len(s) + 1 :
                  u[i] = IF i <= c THEN s[i] ELSE IF i = c + 1 THEN p ELSE s[i - 1]
<1> DEFINE a == SubSeq(s, 1, c)
           b == SubSeq(s, c + 1, Len(s))
           ap == a \o <<p>>
           u == ap \o b
<1>1. Len(s) \in Nat /\ \A i \in 1 .. Len(s) : s[i] \in Point
  BY LenProperties, ElementOfSeq
<1>2. a \in Seq(Point) /\ Len(a) = c /\ \A i \in 1 .. c : a[i] = s[i]
  <2>1. \A i \in 1 .. c : s[i] \in Point
    BY <1>1
  <2> HIDE DEF a
  <2>2. a \in Seq(Point) /\ Len(a) = (IF 1 <= c THEN c - 1 + 1 ELSE 0)
        /\ \A i \in 1 .. c - 1 + 1 : a[i] = s[1 + i - 1]
    BY <2>1, SubSeqProperties DEF a
  <2> QED  BY <1>1, <2>2
<1>3. b \in Seq(Point) /\ Len(b) = Len(s) - c /\ \A i \in 1 .. Len(s) - c : b[i] = s[c + i]
  <2>1. \A i \in c + 1 .. Len(s) : s[i] \in Point
    BY <1>1
  <2> HIDE DEF b
  <2>2. b \in Seq(Point) /\ Len(b) = (IF c + 1 <= Len(s) THEN Len(s) - (c + 1) + 1 ELSE 0)
        /\ \A i \in 1 .. Len(s) - (c + 1) + 1 : b[i] = s[c + 1 + i - 1]
    BY <1>1, <2>1, SubSeqProperties DEF b
  <2> QED  BY <1>1, <2>2
<1>4. <<p>> \in Seq(Point) /\ Len(<<p>>) = 1 /\ <<p>>[1] = p
  OBVIOUS
<1> HIDE DEF a, b
<1>5. /\ ap \in Seq(Point) /\ Len(ap) = c + 1
      /\ \A i \in 1 .. c + 1 : ap[i] = IF i <= c THEN s[i] ELSE p
  <2> DEFINE x == <<p>>
  <2> HIDE DEF x
  <2>1. /\ a \o x \in Seq(Point) /\ Len(a \o x) = c + 1
        /\ \A i \in 1 .. c + 1 : (a \o x)[i] = IF i <= c THEN a[i] ELSE x[i - c]
    BY <1>2, <1>4, ConcatProperties DEF x
  <2>2. \A i \in 1 .. c + 1 : i <= c \/ i - c = 1
    BY <1>1
  <2> QED  BY <1>1, <1>2, <1>4, <2>1, <2>2 DEF x
<1> HIDE DEF ap
<1>6. /\ u \in Seq(Point) /\ Len(u) = Len(s) + 1
      /\ \A i \in 1 .. Len(s) + 1 : u[i] = IF i <= c + 1 THEN ap[i] ELSE b[i - (c + 1)]
  <2>1. /\ u \in Seq(Point) /\ Len(u) = Len(ap) + Len(b)
        /\ \A i \in 1 .. Len(ap) + Len(b) :
             u[i] = IF i <= Len(ap) THEN ap[i] ELSE b[i - Len(ap)]
    BY <1>3, <1>5, ConcatProperties
  <2> QED  BY <1>1, <1>3, <1>5, <2>1
<1> HIDE DEF u
<1>7. ASSUME NEW i \in 1 .. Len(s) + 1
      PROVE  u[i] = IF i <= c THEN s[i] ELSE IF i = c + 1 THEN p ELSE s[i - 1]
  <2>1. CASE i <= c + 1
    BY <1>1, <1>5, <1>6, <2>1
  <2>2. CASE ~(i <= c + 1)
    <3>1. i - (c + 1) \in 1 .. Len(s) - c /\ c + (i - (c + 1)) = i - 1
      BY <1>1, <2>2
    <3> QED  BY <1>1, <1>3, <1>6, <2>2, <3>1
  <2> QED  BY <2>1, <2>2
<1> QED  BY <1>6, <1>7 DEF u, ap, a, b

\* InsertNeighbor with the distances and the length as parameters.
Inserted(d, k, s, p) ==
    LET c == Cardinality({i \in 1 .. Len(s) : Nearer(d, s[i], p)})
        u == SubSeq(s, 1, c) \o <<p>> \o SubSeq(s, c + 1, Len(s))
    IN  SubSeq(u, 1, SmallerOf(k, Len(u)))

\* Inserted and cut to k: the best of one point more.
LEMMA InsertKeepsBest ==
  ASSUME NEW d \in [Point -> Nat], NEW k \in Nat \ {0}, NEW S \in SUBSET Point, NEW s,
         IsBest(d, k, S, s), NEW p \in Point, p \notin S
  PROVE  /\ IsBest(d, k, S \cup {p}, Inserted(d, k, s, p))
         /\ Len(Inserted(d, k, s, p)) = SmallerOf(k, Len(s) + 1)
<1> DEFINE n == Len(s)
           T == {i \in 1 .. n : Nearer(d, s[i], p)}
           c == Cardinality(T)
           u == SubSeq(s, 1, c) \o <<p>> \o SubSeq(s, c + 1, n)
           m == SmallerOf(k, n + 1)
           v == SubSeq(u, 1, m)
<1>1. /\ s \in Seq(Point) /\ n \in Nat /\ n <= k
      /\ \A i \in 1 .. n : s[i] \in Point /\ s[i] \in S
      /\ \A i, j \in 1 .. n : i < j => Nearer(d, s[i], s[j])
  BY LenProperties, ElementOfSeq DEF IsBest
<1>2. c \in 0 .. n /\ T = 1 .. c
  <2>1. \A i \in T : \A j \in 1 .. i : j \in T
    <3> SUFFICES ASSUME NEW i \in T, NEW j \in 1 .. i PROVE j \in T
      OBVIOUS
    <3>1. i \in 1 .. n /\ j \in 1 .. n /\ (j = i \/ j < i) /\ Nearer(d, s[i], p)
      BY <1>1
    <3>2. Nearer(d, s[j], p)
      BY <1>1, <3>1, NearerIsTotalOrder
    <3> QED  BY <3>1, <3>2
  <2> HIDE DEF T
  <2>2. T \in SUBSET (1 .. n)
    BY DEF T
  <2> QED  BY <1>1, <2>1, <2>2, PrefixIsInterval
<1>3. /\ \A i \in 1 .. c : Nearer(d, s[i], p)
      /\ \A i \in c + 1 .. n : Nearer(d, p, s[i])
  <2>1. \A i \in 1 .. n : i <= c <=> Nearer(d, s[i], p)
    <3> HIDE DEF c
    <3> QED  BY <1>1, <1>2 DEF T
  <2> HIDE DEF T, c
  <2>2. \A i \in 1 .. n : s[i] # p
    BY <1>1
  <2>3. \A i \in c + 1 .. n : i \in 1 .. n /\ ~(i <= c)
    BY <1>1, <1>2
  <2>4. \A i \in 1 .. c : i \in 1 .. n /\ i <= c
    BY <1>1, <1>2
  <2> QED  BY <1>1, <2>1, <2>2, <2>3, <2>4, NearerIsTotalOrder
<1> HIDE DEF T, c
<1>4. /\ u \in Seq(Point) /\ Len(u) = n + 1
      /\ \A i \in 1 .. n + 1 :
           u[i] = IF i <= c THEN s[i] ELSE IF i = c + 1 THEN p ELSE s[i - 1]
  BY <1>1, <1>2, InsertedSequence
<1> HIDE DEF u
<1>5. m \in 1 .. n + 1 /\ m <= k /\ (m = k \/ m = n + 1)
  BY <1>1 DEF SmallerOf
<1>6. v \in Seq(Point) /\ Len(v) = m /\ \A i \in 1 .. m : v[i] = u[i]
  <2>1. \A i \in 1 .. m : u[i] \in Point
    BY <1>1, <1>4, <1>5, ElementOfSeq
  <2> HIDE DEF m
  <2>2. /\ SubSeq(u, 1, m) \in Seq(Point)
        /\ Len(SubSeq(u, 1, m)) = IF 1 <= m THEN m - 1 + 1 ELSE 0
        /\ \A i \in 1 .. m - 1 + 1 : SubSeq(u, 1, m)[i] = u[1 + i - 1]
    BY <1>1, <1>5, <2>1, SubSeqProperties
  <2> QED  BY <1>1, <1>5, <2>2
<1> HIDE DEF m, v
<1> DEFINE at(i) == IF i <= c THEN s[i] ELSE IF i = c + 1 THEN p ELSE s[i - 1]
<1>7. \A i \in 1 .. m : v[i] = at(i) /\ i \in 1 .. n + 1
  BY <1>1, <1>4, <1>5, <1>6
<1>8. \A i, j \in 1 .. n + 1 : i < j => Nearer(d, at(i), at(j))
  <2> SUFFICES ASSUME NEW i \in 1 .. n + 1, NEW j \in 1 .. n + 1, i < j
               PROVE  Nearer(d, at(i), at(j))
    OBVIOUS
  <2>1. CASE j <= c
    BY <1>1, <1>2, <2>1
  <2>2. CASE j = c + 1
    BY <1>1, <1>2, <1>3, <2>2
  <2>3. CASE j > c + 1
    <3>1. j - 1 \in c + 1 .. n /\ j - 1 \in 1 .. n /\ at(j) = s[j - 1]
      BY <1>1, <1>2, <2>3
    <3>2. CASE i <= c
      BY <1>1, <1>2, <3>1, <3>2
    <3>3. CASE i = c + 1
      BY <1>1, <1>2, <1>3, <3>1, <3>3
    <3>4. CASE i > c + 1
      BY <1>1, <1>2, <3>1, <3>4
    <3> QED  BY <1>1, <1>2, <3>2, <3>3, <3>4
  <2> QED  BY <1>1, <1>2, <2>1, <2>2, <2>3
<1>9. \A i \in 1 .. n + 1 : at(i) \in S \cup {p} /\ at(i) \in Point
  <2> SUFFICES ASSUME NEW i \in 1 .. n + 1
               PROVE  at(i) \in S \cup {p} /\ at(i) \in Point
    OBVIOUS
  <2>1. (i <= c => i \in 1 .. n) /\ (i > c + 1 => i - 1 \in 1 .. n)
    BY <1>1, <1>2
  <2> QED  BY <1>1, <1>2, <2>1
\* Every point of the list has a place in the longer one.
<1>10. /\ at(c + 1) = p /\ c + 1 \in 1 .. n + 1
       /\ \A i \in 1 .. n : \E j \in 1 .. n + 1 : at(j) = s[i]
  <2>1. ASSUME NEW i \in 1 .. n PROVE \E j \in 1 .. n + 1 : at(j) = s[i]
    <3>1. CASE i <= c
      BY <1>1, <1>2, <3>1
    <3>2. CASE ~(i <= c)
      <4>1. i + 1 \in 1 .. n + 1 /\ ~(i + 1 <= c) /\ i + 1 # c + 1 /\ (i + 1) - 1 = i
        BY <1>1, <1>2, <3>2
      <4>2. at(i + 1) = s[i]
        BY <4>1
      <4> QED  BY <4>1, <4>2
    <3> QED  BY <3>1, <3>2
  <2> QED  BY <1>1, <1>2, <2>1
\* A point with a place in the longer list is in the list or behind all of it.
<1>11. ASSUME NEW q \in Point, NEW j \in 1 .. n + 1, at(j) = q
       PROVE  \/ \E i \in 1 .. m : v[i] = q
              \/ \A i \in 1 .. m : Nearer(d, v[i], q)
  <2>1. CASE j <= m
    BY <1>1, <1>5, <1>7, <1>11, <2>1
  <2>2. CASE j > m
    <3>1. \A i \in 1 .. m : v[i] = at(i) /\ i \in 1 .. n + 1 /\ i < j
      BY <1>1, <1>5, <1>7, <2>2
    <3> HIDE DEF at
    <3> QED  BY <1>8, <1>11, <3>1
  <2> QED  BY <1>1, <1>5, <2>1, <2>2
<1>12. ASSUME NEW q \in S \cup {p}
       PROVE  \/ \E i \in 1 .. m : v[i] = q
              \/ \A i \in 1 .. m : Nearer(d, v[i], q)
  <2>0. q \in Point
    OBVIOUS
  <2>1. CASE q = p
    <3> HIDE DEF at
    <3> QED  BY <1>10, <1>11, <2>0, <2>1
  <2>2. CASE q \in S /\ \E i \in 1 .. n : s[i] = q
    <3> HIDE DEF at
    <3>1. PICK i \in 1 .. n : s[i] = q
      BY <2>2
    <3>2. PICK j \in 1 .. n + 1 : at(j) = q
      BY <1>10, <3>1
    <3> QED  BY <1>11, <2>0, <3>2
  <2>3. CASE q \in S /\ ~\E i \in 1 .. n : s[i] = q
    <3>1. /\ \A i \in 1 .. n : Nearer(d, s[i], q)
          /\ n = k
      BY <1>1, <2>3 DEF IsBest
    <3>2. m = n
      BY <1>1, <1>5, <3>1
    <3>3. ASSUME NEW i \in 1 .. m PROVE Nearer(d, v[i], q)
      <4>1. v[i] = at(i)
        BY <1>7
      <4>2. CASE i = c + 1
        <5>1. n \in c + 1 .. n /\ n \in 1 .. n /\ at(i) = p
          BY <1>1, <1>2, <3>1, <3>2, <4>2
        <5>2. Nearer(d, p, s[n]) /\ Nearer(d, s[n], q) /\ s[n] \in Point
          BY <1>1, <1>3, <3>1, <5>1
        <5> HIDE DEF at
        <5> QED  BY <2>0, <4>1, <5>1, <5>2, NearerIsTotalOrder
      <4>3. CASE i # c + 1
        <5>1. at(i) = s[i] \/ (at(i) = s[i - 1] /\ i - 1 \in 1 .. n)
          BY <1>1, <1>2, <3>2, <4>3
        <5> HIDE DEF at
        <5> QED  BY <3>1, <3>2, <4>1, <5>1
      <4> QED  BY <4>2, <4>3
    <3> QED  BY <3>3
  <2> QED  BY <2>1, <2>2, <2>3
\* A list that is not full has lost nothing.
<1>13. ASSUME m < k, NEW q \in S \cup {p} PROVE \E i \in 1 .. m : v[i] = q
  <2>1. m = n + 1 /\ n < k
    BY <1>1, <1>5, <1>13
  <2>2. q = p \/ \E i \in 1 .. n : s[i] = q
    BY <2>1 DEF IsBest
  <2> HIDE DEF at
  <2>3. \E j \in 1 .. n + 1 : at(j) = q
    BY <1>10, <2>2
  <2> QED  BY <1>7, <2>1, <2>3
<1>14. /\ \A i, j \in 1 .. m : i < j => Nearer(d, v[i], v[j])
       /\ \A i \in 1 .. m : v[i] \in S \cup {p}
  <2> HIDE DEF at
  <2> QED  BY <1>7, <1>8, <1>9
<1>15. IsBest(d, k, S \cup {p}, v) /\ Len(v) = m
  BY <1>5, <1>6, <1>12, <1>13, <1>14 DEF IsBest
<1>16. Inserted(d, k, s, p) = v
  BY <1>4 DEF Inserted, m, v, u, c, T
<1> QED  BY <1>15, <1>16 DEF m

\* A pruned point is behind a full list.
LEMMA PruningKeepsBest ==
  ASSUME NEW d \in [Point -> Nat], NEW k \in Nat \ {0}, NEW S \in SUBSET Point, NEW s,
         IsBest(d, k, S, s), NEW p \in Point, Len(s) = k, d[p] > d[s[k]]
  PROVE  IsBest(d, k, S \cup {p}, s)
<1>1. \A i \in 1 .. k : s[i] \in Point /\ d[s[i]] \in Nat /\ d[p] \in Nat
  BY LenProperties, ElementOfSeq DEF IsBest
<1>2. ASSUME NEW i \in 1 .. k PROVE Nearer(d, s[i], p)
  <2>1. i = k \/ (i < k /\ Nearer(d, s[i], s[k]))
    BY DEF IsBest
  <2>2. d[s[i]] <= d[s[k]]
    BY <1>1, <2>1 DEF Nearer
  <2> QED  BY <1>1, <2>2 DEF Nearer
<1>3. /\ s \in Seq(Point) /\ ~(Len(s) < k) /\ Len(s) <= k
      /\ \A i, j \in 1 .. Len(s) : i < j => Nearer(d, s[i], s[j])
      /\ \A i \in 1 .. Len(s) : s[i] \in S \cup {p}
  BY DEF IsBest
<1>4. \A q \in S \cup {p} : \/ \E i \in 1 .. Len(s) : s[i] = q
                            \/ \A i \in 1 .. Len(s) : Nearer(d, s[i], q)
  BY <1>2 DEF IsBest
<1> QED  BY <1>3, <1>4 DEF IsBest

-----------------------------------------------------------------------------
LEMMA ProblemFacts ==
  ASSUME problem \in Problems
  PROVE  /\ \A t \in Table : IsSortedTable(problem.values[t]) /\ problem.query[t] \in Int
         /\ problem.distance \in [Point -> Nat]
         /\ problem.k \in Nat \ {0} /\ problem.quantum \in Nat \ {0}
<1>1. IsProblem(problem)
  BY ProblemsAssumption
<1> QED  BY <1>1, CursorScanAssumption DEF IsProblem

\* Every step leaves the problem alone, and evaluates one point or none.
LEMMA StepEvaluates ==
  ASSUME NextEngine \/ UNCHANGED engineVars
  PROVE  /\ problem' = problem
         /\ UNCHANGED results \/ \E p \in Point : EvaluateCandidate(p)
<1>1. CASE UNCHANGED engineVars
  BY <1>1 DEF engineVars, results
<1>2. CASE \E t \in Table, scope \in Scopes : BeginScan(t, scope)
  BY <1>2 DEF BeginScan
<1>3. CASE \E candidate \in Point \cup {NoCandidate} : DeliverHit(candidate)
  BY <1>3 DEF DeliverHit
<1>4. CASE EndScan
  BY <1>4 DEF EndScan
<1>5. CASE \E p \in Point : EvaluateAction(p)
  BY <1>5 DEF EvaluateAction
<1>6. CASE AdvanceRadius \/ AdvanceRadiusThrows
  BY <1>6 DEF AdvanceRadius, AdvanceRadiusThrows
<1>7. CASE Finish \/ InvalidAction \/ StepLimit \/ CallbackThrows
  BY <1>7 DEF Finish, InvalidAction, StepLimit, CallbackThrows
<1> QED  BY <1>1, <1>2, <1>3, <1>4, <1>5, <1>6, <1>7 DEF NextEngine

\* The results of a search so far.
ResultsInv ==
    /\ problem \in Problems
    /\ seen \in SUBSET Point
    /\ evaluated = Cardinality(seen)
    /\ IsBest(problem.distance, problem.k, seen, neighbors)
    /\ Len(neighbors) = SmallerOf(problem.k, Cardinality(seen))

LEMMA SeenIsFinite ==
  ASSUME NEW S \in SUBSET Point
  PROVE  IsFiniteSet(S) /\ Cardinality(S) \in Nat
<1>1. 0 \in Int /\ EntryCount - 1 \in Int
  BY CursorScanAssumption
<1>2. IsFiniteSet(0 .. EntryCount - 1)
  BY <1>1, FS_Interval
<1>3. IsFiniteSet(S)
  BY <1>2, FS_Subset DEF Point
<1> QED  BY <1>3, FS_CardinalityType

LEMMA InitResults == InitEngine => ResultsInv
<1> SUFFICES ASSUME InitEngine PROVE ResultsInv
  OBVIOUS
<1>1. problem \in Problems /\ seen = {} /\ neighbors = <<>> /\ evaluated = 0
  BY DEF InitEngine
<1>2. Cardinality(seen) = 0 /\ problem.k \in Nat \ {0}
  BY <1>1, FS_EmptySet, ProblemFacts
<1>3. IsBest(problem.distance, problem.k, seen, neighbors)
  BY <1>1, <1>2 DEF IsBest
<1> QED  BY <1>1, <1>2, <1>3 DEF ResultsInv, SmallerOf

LEMMA NextResults ==
  ASSUME ResultsInv, NextEngine \/ UNCHANGED engineVars
  PROVE  ResultsInv'
<1>1. problem' = problem /\ problem \in Problems
  BY StepEvaluates DEF ResultsInv
<1>2. CASE UNCHANGED results
  BY <1>1, <1>2 DEF ResultsInv, results
<1>3. ASSUME NEW p \in Point, EvaluateCandidate(p) PROVE ResultsInv'
  <2>1. CASE p \in seen
    BY <1>1, <1>3, <2>1 DEF ResultsInv, EvaluateCandidate, results
  <2>2. CASE p \notin seen
    <3> DEFINE d == problem.distance
               k == problem.k
    <3>1. /\ seen' = seen \cup {p} /\ evaluated' = evaluated + 1
          /\ neighbors' = IF Pruned(p) THEN neighbors ELSE InsertNeighbor(neighbors, p)
      BY <1>3, <2>2 DEF EvaluateCandidate
    <3>2. d \in [Point -> Nat] /\ k \in Nat \ {0}
      BY <1>1, ProblemFacts
    <3>3. /\ seen' \in SUBSET Point
          /\ Cardinality(seen) \in Nat /\ Cardinality(seen') = Cardinality(seen) + 1
          /\ evaluated' = Cardinality(seen')
      BY <2>2, <3>1, SeenIsFinite, FS_AddElement DEF ResultsInv
    <3>4. IsBest(d, k, seen, neighbors) /\ Len(neighbors) = SmallerOf(k, Cardinality(seen))
      BY DEF ResultsInv
    <3>5. CASE Pruned(p)
      <4>1. Len(neighbors) = k /\ d[p] > d[neighbors[k]] /\ neighbors' = neighbors
        BY <3>1, <3>5 DEF Pruned
      <4> HIDE DEF d, k
      <4>2. IsBest(d, k, seen \cup {p}, neighbors)
        BY <3>2, <3>4, <4>1, PruningKeepsBest DEF ResultsInv
      <4>3. k = SmallerOf(k, Cardinality(seen) + 1)
        BY <3>2, <3>3, <3>4, <4>1 DEF SmallerOf
      <4> QED  BY <1>1, <3>1, <3>3, <4>1, <4>2, <4>3 DEF ResultsInv, d, k
    <3>6. CASE ~Pruned(p)
      <4> DEFINE v == Inserted(d, k, neighbors, p)
      <4>1. neighbors' = v
        <5>1. DOMAIN neighbors = 1 .. Len(neighbors)
          BY <3>4, LenProperties DEF IsBest
        <5> QED  BY <3>1, <3>6, <5>1 DEF InsertNeighbor, FirstOf, Inserted, Better, Nearer
      <4>2. IsBest(d, k, seen \cup {p}, v) /\ Len(v) = SmallerOf(k, Len(neighbors) + 1)
        <5>1. seen \in SUBSET Point /\ p \in Point /\ p \notin seen
          BY <2>2 DEF ResultsInv
        <5>2. IsBest(d, k, seen, neighbors)
          BY <3>4
        <5> HIDE DEF d, k
        <5> QED  BY <3>2, <5>1, <5>2, InsertKeepsBest
      <4>3. SmallerOf(k, Len(neighbors) + 1) = SmallerOf(k, Cardinality(seen) + 1)
        BY <3>2, <3>3, <3>4 DEF SmallerOf
      <4> HIDE DEF v
      <4> QED  BY <1>1, <3>1, <3>3, <4>1, <4>2, <4>3 DEF ResultsInv
    <3> QED  BY <3>5, <3>6
  <2> QED  BY <2>1, <2>2
<1> QED  BY <1>2, <1>3, StepEvaluates

LEMMA ResultsAreBest == ResultsInv => NeighborsAreBestEvaluated
<1> SUFFICES ASSUME ResultsInv PROVE NeighborsAreBestEvaluated
  OBVIOUS
<1>1. DOMAIN neighbors = 1 .. Len(neighbors)
  BY LenProperties DEF ResultsInv, IsBest
<1> QED  BY <1>1 DEF ResultsInv, IsBest, NeighborsAreBestEvaluated, Better, Nearer

\* Whatever the strategy submits, the neighbours are the k best evaluated points
\* in their public order (EvaluateCandidate, InsertNeighbor and the bounded
\* distance, src/qalsh.cc).
THEOREM NeighborsAreAlwaysBest == EngineSpec => []NeighborsAreBestEvaluated
<1>1. InitEngine => ResultsInv
  BY InitResults
<1>2. ResultsInv /\ [NextEngine]_engineVars => ResultsInv'
  BY NextResults
<1>3. ResultsInv => NeighborsAreBestEvaluated
  BY ResultsAreBest
<1> QED  BY <1>1, <1>2, <1>3, PTL DEF EngineSpec

-----------------------------------------------------------------------------
\* The entries the cursors have delivered, and how a scan adds to them.
Covered(cs) == {x \in Table \X Position : x[2] \in cs[x[1]].left + 1 .. cs[x[1]].right - 1}

LEMMA TablesAreFinite ==
  ASSUME NEW S \in SUBSET Table
  PROVE  IsFiniteSet(S) /\ Cardinality(S) \in 0 .. TableCount
         /\ (Cardinality(S) = TableCount <=> S = Table)
<1>1. 0 \in Int /\ TableCount - 1 \in Int /\ TableCount > 0
  BY SearchEngineAssumption
<1>2. IsFiniteSet(Table) /\ Cardinality(Table) = TableCount
  <2>1. /\ IsFiniteSet(0 .. TableCount - 1)
        /\ Cardinality(0 .. TableCount - 1) =
             IF 0 > TableCount - 1 THEN 0 ELSE (TableCount - 1) - 0 + 1
    BY <1>1, FS_Interval
  <2>2. (IF 0 > TableCount - 1 THEN 0 ELSE (TableCount - 1) - 0 + 1) = TableCount
    BY SearchEngineAssumption
  <2>3. Cardinality(0 .. TableCount - 1) = TableCount
    BY ONLY <2>1, <2>2
  <2> QED  BY <2>1, <2>3 DEF Table
<1> QED  BY <1>1, <1>2, FS_Subset, FS_CardinalityType

LEMMA CoveredIsFinite ==
  ASSUME NEW S \in SUBSET (Table \X Position)
  PROVE  IsFiniteSet(S) /\ Cardinality(S) \in Nat
<1>1. 1 \in Int /\ EntryCount \in Int
  BY CursorScanAssumption
<1>2. IsFiniteSet(Position)
  BY <1>1, FS_Interval DEF Position
<1>3. IsFiniteSet(Table)
  BY TablesAreFinite
<1>4. IsFiniteSet(Table \X Position)
  BY <1>2, <1>3, FS_Product
<1>5. IsFiniteSet(S)
  BY <1>4, FS_Subset
<1> QED  BY <1>5, FS_CardinalityType

\* The entries of one table between two positions.
LEMMA EntriesOfOneTable ==
  ASSUME NEW t, NEW a \in Int, NEW b \in Int, a <= b
  PROVE  IsFiniteSet({t} \X (a + 1 .. b)) /\ Cardinality({t} \X (a + 1 .. b)) = b - a
<1>1. a + 1 \in Int
  OBVIOUS
<1>2. IsFiniteSet(a + 1 .. b) /\ Cardinality(a + 1 .. b) = b - a
  <2>1. /\ IsFiniteSet(a + 1 .. b)
        /\ Cardinality(a + 1 .. b) = IF a + 1 > b THEN 0 ELSE b - (a + 1) + 1
    BY <1>1, FS_Interval
  <2> QED  BY <2>1
<1>3. IsFiniteSet({t}) /\ Cardinality({t}) = 1
  BY FS_Singleton
<1>4. /\ IsFiniteSet({t} \X (a + 1 .. b))
      /\ Cardinality({t} \X (a + 1 .. b)) = 1 * (b - a)
  BY <1>2, <1>3, FS_Product
<1> QED  BY <1>4

\* A cursor that moves outward adds the entries it passed, each of them once.
LEMMA CoveredGrows ==
  ASSUME NEW cs \in [Table -> CursorRecord], NEW t \in Table, NEW e \in CursorRecord,
         cs[t].left < cs[t].right, e.left <= cs[t].left, e.right >= cs[t].right
  PROVE  Cardinality(Covered([cs EXCEPT ![t] = e])) =
             Cardinality(Covered(cs)) + ((cs[t].left - e.left) + (e.right - cs[t].right))
<1> DEFINE c == cs[t]
           es == [cs EXCEPT ![t] = e]
           low == {t} \X (e.left + 1 .. c.left)
           high == {t} \X ((c.right - 1) + 1 .. e.right - 1)
<1>1. /\ c.left \in 0 .. EntryCount /\ c.right \in 1 .. EntryCount + 1
      /\ e.left \in 0 .. EntryCount /\ e.right \in 1 .. EntryCount + 1
  BY DEF CursorRecord
<1>2. IsFiniteSet(low) /\ Cardinality(low) = c.left - e.left
  <2>1. e.left \in Int /\ c.left \in Int /\ e.left <= c.left
    BY <1>1
  <2> HIDE DEF c
  <2> QED  BY <2>1, EntriesOfOneTable
<1>3. IsFiniteSet(high) /\ Cardinality(high) = e.right - c.right
  <2>1. c.right - 1 \in Int /\ e.right - 1 \in Int /\ c.right - 1 <= e.right - 1
    BY <1>1
  <2>2. IsFiniteSet(high) /\ Cardinality(high) = (e.right - 1) - (c.right - 1)
    BY <2>1, EntriesOfOneTable
  <2> QED  BY <1>1, <2>2
<1>4. IsFiniteSet(Covered(cs)) /\ Cardinality(Covered(cs)) \in Nat
  BY CoveredIsFinite DEF Covered
<1>5. Covered(es) = (Covered(cs) \cup low) \cup high
  <2>1. ASSUME NEW x PROVE x \in Covered(es) <=> x \in (Covered(cs) \cup low) \cup high
    <3>1. CASE x \in Table \X Position /\ x[1] = t
      <4>1. x = <<t, x[2]>> /\ x[2] \in Position /\ es[x[1]] = e /\ cs[x[1]] = c
        BY <3>1
      <4>2. x \in low <=> x[2] \in e.left + 1 .. c.left
        BY <4>1
      <4>3. x \in high <=> x[2] \in (c.right - 1) + 1 .. e.right - 1
        BY <4>1
      <4>4. x \in Covered(es) <=> x[2] \in e.left + 1 .. e.right - 1
        BY <3>1, <4>1 DEF Covered
      <4>5. x \in Covered(cs) <=> x[2] \in c.left + 1 .. c.right - 1
        BY <3>1, <4>1 DEF Covered
      <4> HIDE DEF es, low, high, c
      <4>6. x[2] \in Int /\ c.left \in Int /\ c.right \in Int /\ e.left \in Int /\ e.right \in Int
        BY <1>1, <4>1 DEF Position
      <4>7. c.left < c.right /\ e.left <= c.left /\ e.right >= c.right
        BY DEF c
      <4> QED  BY <4>2, <4>3, <4>4, <4>5, <4>6, <4>7
    <3>2. CASE x \in Table \X Position /\ x[1] # t
      <4>1. es[x[1]] = cs[x[1]]
        BY <3>2
      <4>2. x \notin low /\ x \notin high
        BY <3>2
      <4> HIDE DEF es, low, high
      <4> QED  BY <3>2, <4>1, <4>2 DEF Covered
    <3>3. CASE x \notin Table \X Position
      <4>0. /\ \A i \in e.left + 1 .. c.left : i \in Position
            /\ \A i \in (c.right - 1) + 1 .. e.right - 1 : i \in Position
        <5>1. \A a, b \in Int : a >= 0 /\ b <= EntryCount => \A i \in a + 1 .. b : i \in Position
          BY CursorScanAssumption DEF Position
        <5>2. e.left \in Int /\ c.left \in Int /\ e.left >= 0 /\ c.left <= EntryCount
          BY <1>1
        <5>3. /\ c.right - 1 \in Int /\ e.right - 1 \in Int
              /\ c.right - 1 >= 0 /\ e.right - 1 <= EntryCount
          <6>1. \A n \in 1 .. EntryCount + 1 : n - 1 \in Int /\ n - 1 >= 0 /\ n - 1 <= EntryCount
            BY CursorScanAssumption
          <6> HIDE DEF c
          <6> QED  BY ONLY <1>1, <6>1
        <5> HIDE DEF c
        <5> QED  BY <5>1, <5>2, <5>3
      <4>1. x \notin low
        <5> SUFFICES ASSUME x \in low PROVE x \in Table \X Position
          BY <3>3
        <5>1. PICK i \in e.left + 1 .. c.left : x = <<t, i>>
          OBVIOUS
        <5>2. i \in Position
          BY <4>0
        <5> QED  BY <5>1, <5>2
      <4>2. x \notin high
        <5> SUFFICES ASSUME x \in high PROVE x \in Table \X Position
          BY <3>3
        <5>1. PICK i \in (c.right - 1) + 1 .. e.right - 1 : x = <<t, i>>
          OBVIOUS
        <5>2. i \in Position
          BY <4>0
        <5> QED  BY <5>1, <5>2
      <4> HIDE DEF es, low, high
      <4> QED  BY <3>3, <4>1, <4>2 DEF Covered
    <3> QED  BY <3>1, <3>2, <3>3
  <2> HIDE DEF es, low, high
  <2> QED  BY <2>1
<1>6. Covered(cs) \cap low = {}
  <2> SUFFICES ASSUME NEW x \in Covered(cs), x \in low PROVE FALSE
    OBVIOUS
  <2>1. PICK i \in e.left + 1 .. c.left : x = <<t, i>>
    OBVIOUS
  <2>2. i \in c.left + 1 .. c.right - 1
    BY <2>1 DEF Covered
  <2> QED  BY <1>1, <2>1, <2>2
<1>7. (Covered(cs) \cup low) \cap high = {}
  <2> SUFFICES ASSUME NEW x \in Covered(cs) \cup low, x \in high PROVE FALSE
    OBVIOUS
  <2>1. PICK i \in (c.right - 1) + 1 .. e.right - 1 : x = <<t, i>>
    OBVIOUS
  <2>2. CASE x \in Covered(cs)
    <3>1. i \in c.left + 1 .. c.right - 1
      BY <2>1, <2>2 DEF Covered
    <3> QED  BY <1>1, <2>1, <3>1
  <2>3. CASE x \in low
    <3>1. i \in e.left + 1 .. c.left
      BY <2>1, <2>3
    <3> QED  BY <1>1, <2>1, <3>1
  <2> QED  BY <2>2, <2>3
<1> HIDE DEF c, es, low, high
<1>8. /\ IsFiniteSet(Covered(cs) \cup low)
      /\ Cardinality(Covered(cs) \cup low) = Cardinality(Covered(cs)) + (c.left - e.left)
  <2>1. Cardinality(Covered(cs) \cup low) =
          Cardinality(Covered(cs)) + Cardinality(low) - Cardinality({})
    BY <1>2, <1>4, <1>6, FS_Union
  <2>2. IsFiniteSet(Covered(cs) \cup low)
    BY <1>2, <1>4, FS_Union
  <2> QED  BY <1>1, <1>2, <1>4, <2>1, <2>2, FS_EmptySet
<1>9. Cardinality(Covered(es)) =
        Cardinality(Covered(cs)) + (c.left - e.left) + (e.right - c.right)
  <2>1. Cardinality(Covered(es)) =
          Cardinality(Covered(cs) \cup low) + Cardinality(high) - Cardinality({})
    BY <1>3, <1>5, <1>7, <1>8, FS_Union
  <2> QED  BY <1>1, <1>3, <1>4, <1>8, <2>1, FS_EmptySet
<1> QED  BY <1>1, <1>4, <1>9 DEF c, es

LEMMA WindowBoundGrows ==
  ASSUME NEW a \in Nat \ {0}, NEW b \in Nat \ {0}, a <= b
  PROVE  WindowBound(a) \in Nat /\ WindowBound(a) <= WindowBound(b)
<1>1. BucketWidth \in Nat /\ b - a \in Nat
  BY SearchEngineAssumption
<1>2. BucketWidth * b = BucketWidth * a + BucketWidth * (b - a)
  BY <1>1
<1>3. BucketWidth * a \in Nat /\ BucketWidth * (b - a) \in Nat
  BY <1>1
<1>4. \A x, y \in Nat : x \div 2 \in Nat /\ x \div 2 <= (x + y) \div 2
  OBVIOUS
<1> QED  BY <1>2, <1>3, <1>4 DEF WindowBound

LEMMA InsideIsMonotone ==
  ASSUME NEW table, IsSortedTable(table), NEW query \in Int, NEW i \in Position,
         NEW a \in Int, NEW b \in Int, a <= b, Inside(table, query, i, a)
  PROVE  Inside(table, query, i, b)
<1>1. table[i] \in Int
  BY DEF IsSortedTable
<1> QED  BY <1>1 DEF Inside, Difference

LEMMA ExhaustedMeansDelivered ==
  ASSUME NEW c \in CursorRecord, c.left < c.right
  PROVE  TableExhausted(c) <=> c.left + 1 .. c.right - 1 = Position
<1>1. c.left \in 0 .. EntryCount /\ c.right \in 1 .. EntryCount + 1
  BY DEF CursorRecord
<1>2. ASSUME TableExhausted(c) PROVE c.left + 1 .. c.right - 1 = Position
  BY <1>2, CursorScanAssumption DEF TableExhausted, Position
<1>3. ASSUME c.left + 1 .. c.right - 1 = Position PROVE TableExhausted(c)
  <2>1. 1 \in Position /\ EntryCount \in Position
    BY CursorScanAssumption DEF Position
  <2>2. c.left + 1 <= 1 /\ EntryCount <= c.right - 1
    BY <1>1, <1>3, <2>1
  <2> QED  BY <1>1, <2>2, CursorScanAssumption DEF TableExhausted
<1> QED  BY <1>2, <1>3

\* A count of flags follows the one flag that is set.
LEMMA OneFlagMore ==
  ASSUME NEW f \in [Table -> BOOLEAN], NEW g \in [Table -> BOOLEAN], NEW t \in Table,
         \A x \in Table \ {t} : g[x] = f[x], f[t] => g[t]
  PROVE  Cardinality({x \in Table : g[x]}) =
             IF g[t] /\ ~f[t] THEN Cardinality({x \in Table : f[x]}) + 1
             ELSE Cardinality({x \in Table : f[x]})
<1> DEFINE F == {x \in Table : f[x]}
<1>1. IsFiniteSet(F)
  BY TablesAreFinite
<1>2. CASE g[t] /\ ~f[t]
  <2>1. {x \in Table : g[x]} = F \cup {t} /\ t \notin F
    BY <1>2
  <2> HIDE DEF F
  <2>2. Cardinality(F \cup {t}) = Cardinality(F) + 1
    BY <1>1, <2>1, FS_AddElement
  <2> QED  BY <1>2, <2>1, <2>2 DEF F
<1>3. CASE ~(g[t] /\ ~f[t])
  <2>1. {x \in Table : g[x]} = F
    BY <1>3
  <2> QED  BY <1>3, <2>1
<1> QED  BY <1>2, <1>3

-----------------------------------------------------------------------------
\* The positions between a cursor and a later one.
Passed(c, e, i) == (e.left < i /\ i <= c.left) \/ (c.right <= i /\ i < e.right)

\* What a scan that has begun will have done at its end.
ScanPromise(t, s) ==
    LET c == cursors[t]
        e == s.cursor
    IN  /\ WellPlaced(problem.values[t], e)
        /\ e.query = c.query /\ e.lastBound = Bound
        /\ e.left <= c.left /\ e.right >= c.right
        /\ Len(s.hits) = (c.left - e.left) + (e.right - c.right)
        /\ \A i, j \in 1 .. Len(s.hits) : s.hits[i] = s.hits[j] => i = j
        /\ \A i \in Position : (\E j \in 1 .. Len(s.hits) : s.hits[j] = i) <=> Passed(c, e, i)
        /\ Len(s.hits) = 0 => s.windowExhausted
        /\ s.windowExhausted = WindowExhausted(e)
        /\ s.tableExhausted = TableExhausted(e)

CursorIsSound(t) ==
    /\ WellPlaced(problem.values[t], cursors[t])
    /\ cursors[t].query = problem.query[t]
    /\ cursors[t].lastBound <= Bound

ScanIsSound ==
    scan # NoScan =>
        /\ scan \in ScanRecord
        /\ ScanPromise(scan.table, scan.result)
        /\ scan.delivered <= Len(scan.result.hits)
        /\ scan.hits = Cardinality(DeliveredEntries) + scan.delivered

\* The cursors, the window and the scan in flight.
CursorsInv ==
    /\ problem \in Problems
    /\ radius \in Nat \ {0}
    /\ cursors \in [Table -> CursorRecord]
    /\ \A t \in Table : CursorIsSound(t)
    /\ exhausted \in [Table -> BOOLEAN] /\ roundComplete \in [Table -> BOOLEAN]
    /\ ScanIsSound

EngineInv == CursorsInv /\ LedgersMatchCursors /\ SnapshotIsFresh /\ ReasonIsHonest

LEMMA DeliveredAreCovered == DeliveredEntries = Covered(cursors)
BY DEF DeliveredEntries, Delivered, Covered

LEMMA InitCursors ==
  ASSUME InitEngine
  PROVE  EngineInv /\ \A t \in Table : Delivered(t) = {}
<1>1. /\ problem \in Problems /\ radius = InitialRadius /\ hits = 0 /\ scan = NoScan
      /\ cursors = [t \in Table |-> ResetCursor(problem.values[t], problem.query[t])]
      /\ exhausted = [t \in Table |-> FALSE] /\ roundComplete = [t \in Table |-> FALSE]
      /\ exhaustedCount = 0 /\ completedCount = 0
      /\ snapshot = LiveSnapshot /\ outcome = Running
  BY DEF InitEngine
<1>2. radius \in Nat \ {0} /\ Bound \in Nat
  <2>1. radius \in Nat \ {0}
    BY <1>1, SearchEngineAssumption
  <2>2. WindowBound(radius) \in Nat
    BY <2>1, WindowBoundGrows
  <2> QED  BY <2>1, <2>2 DEF Bound
<1>3. ASSUME NEW t \in Table
      PROVE  CursorIsSound(t) /\ cursors[t] \in CursorRecord /\ Delivered(t) = {}
  <2>1. IsSortedTable(problem.values[t]) /\ problem.query[t] \in Int
    BY <1>1, ProblemFacts
  <2>2. cursors[t] = ResetCursor(problem.values[t], problem.query[t])
    BY <1>1
  <2>3. /\ WellPlaced(problem.values[t], cursors[t])
        /\ cursors[t].right = cursors[t].left + 1 /\ cursors[t].lastBound = Unbounded
    BY <2>1, <2>2, ResetIsWellPlaced
  <2>4. cursors[t].query = problem.query[t]
    BY <2>2 DEF ResetCursor
  <2>5. cursors[t] \in CursorRecord
    BY <2>3 DEF WellPlaced
  <2>6. cursors[t].left \in Int
    BY <2>5 DEF CursorRecord
  <2>7. Delivered(t) = {}
    BY <2>3, <2>6 DEF Delivered
  <2> QED  BY <1>2, <2>3, <2>4, <2>5, <2>7 DEF CursorIsSound, Unbounded
<1>4. CursorsInv
  <2>1. cursors \in [Table -> CursorRecord]
    BY <1>1, <1>3
  <2> QED  BY <1>1, <1>2, <1>3, <2>1 DEF CursorsInv, ScanIsSound
<1>5. DeliveredEntries = {}
  BY <1>3 DEF DeliveredEntries
<1>6. LedgersMatchCursors
  <2>1. {t \in Table : exhausted[t]} = {} /\ {t \in Table : roundComplete[t]} = {}
    BY <1>1
  <2>2. EntryCount \in Position
    BY CursorScanAssumption DEF Position
  <2>3. \A t \in Table : ~exhausted[t] /\ ~roundComplete[t] /\ Delivered(t) # Position
    BY <1>1, <1>3, <2>2
  <2> QED  BY <1>1, <1>5, <2>1, <2>3, FS_EmptySet DEF LedgersMatchCursors
<1>7. SnapshotIsFresh /\ ReasonIsHonest
  BY <1>1 DEF SnapshotIsFresh, ReasonIsHonest, Results, Running
<1> QED  BY <1>3, <1>4, <1>6, <1>7 DEF EngineInv

\* Every step that changes the results, the hits, the radius or a count makes the
\* snapshot anew or patches it.
LEMMA NextSnapshot ==
  ASSUME SnapshotIsFresh, NextEngine \/ UNCHANGED engineVars
  PROVE  SnapshotIsFresh'
<1>1. CASE UNCHANGED engineVars
  BY <1>1 DEF SnapshotIsFresh, LiveSnapshot, engineVars, results, ledgers
<1>2. ASSUME NEW p \in Point, EvaluateCandidate(p),
             UNCHANGED <<radius, completedCount, exhaustedCount>>
      PROVE  SnapshotIsFresh'
  BY <1>2 DEF EvaluateCandidate, SnapshotIsFresh, LiveSnapshot, SnapshotWithHits, results
<1>3. CASE \E t \in Table, scope \in Scopes : BeginScan(t, scope)
  BY <1>3 DEF BeginScan, SnapshotIsFresh, LiveSnapshot, results, ledgers
<1>4. CASE \E candidate \in Point \cup {NoCandidate} : DeliverHit(candidate)
  <2>1. PICK candidate \in Point \cup {NoCandidate} : DeliverHit(candidate)
    BY <1>4
  <2>2. CASE candidate = NoCandidate
    BY <2>1, <2>2 DEF DeliverHit, SnapshotIsFresh, LiveSnapshot, results, ledgers
  <2>3. CASE candidate # NoCandidate
    BY <1>2, <2>1, <2>3 DEF DeliverHit, ledgers
  <2> QED  BY <2>2, <2>3
<1>5. CASE EndScan
  BY <1>5 DEF EndScan, SnapshotIsFresh
<1>6. CASE \E p \in Point : EvaluateAction(p)
  BY <1>2, <1>6 DEF EvaluateAction, ledgers
<1>7. CASE AdvanceRadius
  BY <1>7 DEF AdvanceRadius, SnapshotIsFresh
<1>8. CASE AdvanceRadiusThrows \/ Finish \/ InvalidAction \/ StepLimit \/ CallbackThrows
  BY <1>8 DEF AdvanceRadiusThrows, Finish, InvalidAction, StepLimit, CallbackThrows,
              SnapshotIsFresh, LiveSnapshot, results, ledgers
<1> QED  BY <1>1, <1>3, <1>4, <1>5, <1>6, <1>7, <1>8 DEF NextEngine

CursorVars == <<problem, radius, cursors, ledgers>>

LEMMA SameCursors ==
  ASSUME CursorsInv, UNCHANGED CursorVars, ScanIsSound'
  PROVE  CursorsInv'
<1>1. /\ problem' = problem /\ radius' = radius /\ cursors' = cursors
      /\ exhausted' = exhausted /\ roundComplete' = roundComplete
  BY DEF CursorVars, ledgers
<1>2. \A t \in Table : CursorIsSound(t)'
  BY <1>1 DEF CursorsInv, CursorIsSound, Bound
<1> QED  BY <1>1, <1>2 DEF CursorsInv

\* A scan begins: ScanIsCorrect is what it promises.
LEMMA BeginScanCursors ==
  ASSUME CursorsInv, LedgersMatchCursors,
         NEW t \in Table, NEW scope \in Scopes, BeginScan(t, scope)
  PROVE  CursorsInv' /\ scan' \in ScanRecord
<1> DEFINE maxEntries == IF scope = "range" THEN EntryCount ELSE problem.quantum
           s == ScanCursor(problem.values[t], cursors[t], Bound, maxEntries, scope)
           c == cursors[t]
           e == s.cursor
<1>1. /\ scan' = [table |-> t, delivered |-> 0, hits |-> hits, result |-> s]
      /\ UNCHANGED CursorVars /\ scan = NoScan
  BY DEF BeginScan, NextIsCalled, CursorVars
<1>2. /\ IsSortedTable(problem.values[t]) /\ WellPlaced(problem.values[t], c)
      /\ c.lastBound <= Bound /\ maxEntries \in Nat \ {0}
  BY ProblemFacts, CursorScanAssumption DEF CursorsInv, CursorIsSound
<1>3. Bound \in Nat
  BY WindowBoundGrows DEF CursorsInv, Bound
<1>4. /\ WellPlaced(problem.values[t], e) /\ e.lastBound = Bound /\ e.query = c.query
      /\ e.left <= c.left /\ e.right >= c.right
      /\ s.hits \in Seq(Position) /\ Len(s.hits) = (c.left - e.left) + (e.right - c.right)
      /\ \A i, j \in DOMAIN s.hits : s.hits[i] = s.hits[j] => i = j
      /\ \A i \in Position : (\E j \in DOMAIN s.hits : s.hits[j] = i) <=>
           (e.left < i /\ i <= c.left) \/ (c.right <= i /\ i < e.right)
      /\ Len(s.hits) = 0 => WindowExhausted(e)
      /\ s.windowExhausted = WindowExhausted(e)
      /\ s.tableExhausted = TableExhausted(e)
  <2>1. Bound >= c.lastBound
    <3>1. c.lastBound \in Int
      BY <1>2 DEF WellPlaced, CursorRecord, Unbounded
    <3> QED  BY <1>2, <1>3, <3>1
  <2> HIDE DEF maxEntries
  <2> QED  BY <1>2, <1>3, <2>1, ScanIsCorrect
<1>5. s \in [cursor : CursorRecord, hits : Seq(Position),
             windowExhausted : BOOLEAN, tableExhausted : BOOLEAN]
  <2>1. e \in CursorRecord
    BY <1>4 DEF WellPlaced
  <2>2. WindowExhausted(e) \in BOOLEAN /\ TableExhausted(e) \in BOOLEAN
    BY DEF WindowExhausted, TableExhausted
  <2>3. s = [cursor |-> s.cursor, hits |-> s.hits,
             windowExhausted |-> s.windowExhausted, tableExhausted |-> s.tableExhausted]
    BY DEF ScanCursor
  <2> HIDE DEF s
  <2> QED  BY <1>4, <2>1, <2>2, <2>3
<1>6. hits = Cardinality(DeliveredEntries) /\ hits \in Nat
  <2>1. Cardinality(DeliveredEntries) \in Nat
    BY CoveredIsFinite DEF DeliveredEntries
  <2> QED  BY <1>1, <2>1 DEF LedgersMatchCursors
<1> HIDE DEF s, maxEntries
<1>7. /\ cursors' = cursors /\ problem' = problem /\ Bound' = Bound
      /\ DeliveredEntries' = DeliveredEntries
  BY <1>1 DEF CursorVars, Bound, DeliveredEntries, Delivered
<1>8. /\ scan'.table = t /\ scan'.delivered = 0 /\ scan'.hits = hits /\ scan'.result = s
  BY <1>1
<1>9. scan' \in ScanRecord
  BY <1>1, <1>5, <1>6 DEF ScanRecord
<1>10. ScanIsSound'
  <2>1. DOMAIN s.hits = 1 .. Len(s.hits) /\ Len(s.hits) >= 0
    BY <1>4, LenProperties
  <2>2. ScanPromise(scan.table, scan.result)'
    BY <1>4, <1>7, <1>8, <2>1 DEF ScanPromise, Passed
  <2> QED  BY <1>6, <1>7, <1>8, <1>9, <2>1, <2>2 DEF ScanIsSound
<1> QED  BY <1>1, <1>9, <1>10, SameCursors

\* A hit is handed over: one more of what the scan promised.
LEMMA DeliverHitCursors ==
  ASSUME CursorsInv, NEW candidate \in Point \cup {NoCandidate}, DeliverHit(candidate)
  PROVE  CursorsInv' /\ scan' # NoScan
<1>1. /\ scan' = [scan EXCEPT !.delivered = @ + 1, !.hits = @ + 1]
      /\ UNCHANGED CursorVars
      /\ scan # NoScan /\ scan.delivered < Len(scan.result.hits)
  BY DEF DeliverHit, HitsToCome, CursorVars
<1>2. /\ scan \in ScanRecord
      /\ ScanPromise(scan.table, scan.result)
      /\ scan.hits = Cardinality(DeliveredEntries) + scan.delivered
  BY <1>1 DEF CursorsInv, ScanIsSound
<1>3. /\ scan.delivered \in Nat /\ scan.hits \in Nat /\ scan.table \in Table
      /\ Len(scan.result.hits) \in Nat
  BY <1>2, LenProperties DEF ScanRecord
<1>4. /\ scan'.table = scan.table /\ scan'.result = scan.result
      /\ scan'.delivered = scan.delivered + 1 /\ scan'.hits = scan.hits + 1
      /\ scan' \in ScanRecord
  <2>1. scan = [table |-> scan.table, delivered |-> scan.delivered, hits |-> scan.hits,
                result |-> scan.result]
    BY <1>2 DEF ScanRecord
  <2> DEFINE next == [table |-> scan.table, delivered |-> scan.delivered + 1,
                      hits |-> scan.hits + 1, result |-> scan.result]
  <2>2. scan' = next
    BY <1>1, <2>1, Zenon
  <2>3. /\ next.table = scan.table /\ next.result = scan.result
        /\ next.delivered = scan.delivered + 1 /\ next.hits = scan.hits + 1
    OBVIOUS
  <2>4. next \in ScanRecord
    BY <1>2 DEF ScanRecord
  <2> HIDE DEF next
  <2> QED  BY <2>2, <2>3, <2>4
<1>5. /\ cursors' = cursors /\ problem' = problem /\ Bound' = Bound
      /\ DeliveredEntries' = DeliveredEntries
  BY <1>1 DEF CursorVars, Bound, DeliveredEntries, Delivered
<1>6. ScanIsSound'
  <2>1. ScanPromise(scan.table, scan.result)'
    BY <1>2, <1>4, <1>5 DEF ScanPromise, Passed
  <2>2. Cardinality(DeliveredEntries) \in Nat
    BY CoveredIsFinite DEF DeliveredEntries
  <2> QED  BY <1>1, <1>2, <1>3, <1>4, <1>5, <2>1, <2>2 DEF ScanIsSound
<1> QED  BY <1>1, <1>4, <1>6, SameCursors, SearchEngineAssumption

\* A scan ends: the cursor is where the scan promised, the ledgers follow its
\* report, and the hits have caught up with the entries delivered.
LEMMA EndScanKeepsTruth ==
  ASSUME CursorsInv, LedgersMatchCursors, EndScan, NEW t, t = scan.table
  PROVE  CursorsInv' /\ LedgersMatchCursors'
<1> DEFINE s == scan.result
           c == cursors[t]
           e == s.cursor
           complete == s.windowExhausted \/ s.tableExhausted
<1>1. /\ scan # NoScan /\ scan' = NoScan
      /\ problem' = problem /\ radius' = radius /\ Bound' = Bound
      /\ cursors' = [cursors EXCEPT ![t] = e]
      /\ exhausted' = [exhausted EXCEPT ![t] = exhausted[t] \/ s.tableExhausted]
      /\ roundComplete' = [roundComplete EXCEPT
                             ![t] = roundComplete[t] \/ s.windowExhausted \/ s.tableExhausted]
      /\ exhaustedCount' = IF s.tableExhausted /\ ~exhausted[t]
                             THEN exhaustedCount + 1 ELSE exhaustedCount
      /\ completedCount' = IF complete /\ ~roundComplete[t]
                             THEN completedCount + 1 ELSE completedCount
      /\ hits' = scan.hits
      /\ ~(scan.delivered < Len(s.hits))
  BY DEF EndScan, HitsToCome, CompletedAfter, Bound
<1>2. /\ scan \in ScanRecord /\ ScanPromise(t, s)
      /\ scan.delivered <= Len(s.hits)
      /\ scan.hits = Cardinality(DeliveredEntries) + scan.delivered
  BY <1>1 DEF CursorsInv, ScanIsSound
<1>3. /\ t \in Table /\ e \in CursorRecord /\ scan.delivered \in Nat
      /\ s.windowExhausted \in BOOLEAN /\ s.tableExhausted \in BOOLEAN
  BY <1>2 DEF ScanRecord
<1>4. /\ cursors \in [Table -> CursorRecord]
      /\ exhausted \in [Table -> BOOLEAN] /\ roundComplete \in [Table -> BOOLEAN]
      /\ \A x \in Table : CursorIsSound(x)
      /\ problem \in Problems /\ radius \in Nat \ {0}
  BY DEF CursorsInv
<1>5. /\ WellPlaced(problem.values[t], c) /\ c.query = problem.query[t]
      /\ WellPlaced(problem.values[t], e) /\ e.query = c.query /\ e.lastBound = Bound
      /\ e.left <= c.left /\ e.right >= c.right
      /\ Len(s.hits) = (c.left - e.left) + (e.right - c.right)
      /\ s.windowExhausted = WindowExhausted(e)
      /\ s.tableExhausted = TableExhausted(e)
  BY <1>2, <1>3, <1>4 DEF ScanPromise, CursorIsSound
<1>6. c \in CursorRecord /\ c.left < c.right /\ e.left < e.right
  BY <1>5 DEF WellPlaced
<1>7. /\ c.left \in 0 .. EntryCount /\ c.right \in 1 .. EntryCount + 1
      /\ e.left \in 0 .. EntryCount /\ e.right \in 1 .. EntryCount + 1
  BY <1>3, <1>6 DEF CursorRecord
<1>8. /\ cursors'[t] = e
      /\ \A x \in Table \ {t} : cursors'[x] = cursors[x]
      /\ cursors' \in [Table -> CursorRecord]
  BY <1>1, <1>3, <1>4
<1>9. /\ Delivered(t)' = e.left + 1 .. e.right - 1
      /\ Delivered(t) = c.left + 1 .. c.right - 1
      /\ \A x \in Table \ {t} : Delivered(x)' = Delivered(x)
  BY <1>8 DEF Delivered
<1>10. /\ exhausted' \in [Table -> BOOLEAN] /\ roundComplete' \in [Table -> BOOLEAN]
       /\ exhausted'[t] = (exhausted[t] \/ s.tableExhausted)
       /\ roundComplete'[t] = (roundComplete[t] \/ complete)
       /\ \A x \in Table \ {t} : exhausted'[x] = exhausted[x] /\ roundComplete'[x] = roundComplete[x]
  BY <1>1, <1>3, <1>4
<1>11. CursorsInv'
  <2>1. ASSUME NEW x \in Table PROVE CursorIsSound(x)'
    <3>1. CASE x = t
      <4>1. Bound <= Bound
        BY <1>4, WindowBoundGrows DEF Bound
      <4> HIDE DEF e, c, s
      <4> QED  BY <1>1, <1>5, <1>8, <3>1, <4>1 DEF CursorIsSound
    <3>2. CASE x # t
      BY <1>1, <1>4, <1>8, <3>2 DEF CursorIsSound
    <3> QED  BY <3>1, <3>2
  <2> QED  BY <1>1, <1>4, <1>8, <1>10, <2>1 DEF CursorsInv, ScanIsSound
<1>12. hits' = Cardinality(DeliveredEntries)'
  <2>1. Cardinality(Covered([cursors EXCEPT ![t] = e])) =
          Cardinality(Covered(cursors)) + ((c.left - e.left) + (e.right - c.right))
    BY <1>3, <1>4, <1>5, <1>6, CoveredGrows
  <2>2. DeliveredEntries' = Covered(cursors')
    BY DEF DeliveredEntries, Delivered, Covered
  <2>3. scan.delivered = Len(s.hits)
    BY <1>1, <1>2, <1>3, <1>5, <1>7
  <2> QED  BY <1>1, <1>2, <1>5, <2>1, <2>2, <2>3, DeliveredAreCovered
<1>13. \A x \in Table : /\ exhausted[x] <=> Delivered(x) = Position
                        /\ roundComplete[x] =>
                             \A i \in Position :
                               Inside(problem.values[x], problem.query[x], i, Bound) => i \in Delivered(x)
  BY DEF LedgersMatchCursors
<1>14. /\ TableExhausted(c) <=> Delivered(t) = Position
       /\ TableExhausted(e) <=> Delivered(t)' = Position
       /\ TableExhausted(c) => TableExhausted(e)
  <2>1. TableExhausted(c) => TableExhausted(e)
    BY <1>5, <1>7 DEF TableExhausted
  <2> HIDE DEF e, c
  <2> QED  BY <1>3, <1>6, <1>9, <2>1, ExhaustedMeansDelivered
<1> HIDE DEF s, c, e
<1>15. ASSUME NEW x \in Table
       PROVE  /\ (exhausted[x] <=> Delivered(x) = Position)'
              /\ (roundComplete[x] =>
                   \A i \in Position :
                     Inside(problem.values[x], problem.query[x], i, Bound) => i \in Delivered(x))'
  <2>1. CASE x # t
    BY <1>1, <1>9, <1>10, <1>13, <2>1
  <2>2. CASE x = t
    <3>1. exhausted'[t] <=> Delivered(t)' = Position
      BY <1>3, <1>5, <1>10, <1>13, <1>14
    <3>2. ASSUME roundComplete'[t], NEW i \in Position,
                 Inside(problem.values[t], problem.query[t], i, Bound)
          PROVE  i \in Delivered(t)'
      <4>1. CASE roundComplete[t]
        <5>1. i \in Delivered(t)
          BY <1>3, <1>13, <3>2, <4>1
        <5> QED  BY <1>5, <1>7, <1>9, <5>1
      <4>2. CASE s.windowExhausted
        <5>1. IsSortedTable(problem.values[t])
          BY <1>3, <1>4, ProblemFacts
        <5>2. e.left < i /\ i < e.right
          BY <1>5, <3>2, <4>2, <5>1, ClosedWindowIsComplete
        <5> QED  BY <1>7, <1>9, <5>2 DEF Position
      <4>3. CASE s.tableExhausted
        BY <1>5, <1>14, <4>3
      <4> QED  BY <1>10, <3>2, <4>1, <4>2, <4>3
    <3> QED  BY <1>1, <2>2, <3>1, <3>2
  <2> QED  BY <2>1, <2>2
<1>16. exhaustedCount' = Cardinality({x \in Table : exhausted'[x]})
  <2>1. exhaustedCount = Cardinality({x \in Table : exhausted[x]})
    BY DEF LedgersMatchCursors
  <2>2. Cardinality({x \in Table : exhausted'[x]}) =
          IF exhausted'[t] /\ ~exhausted[t] THEN Cardinality({x \in Table : exhausted[x]}) + 1
          ELSE Cardinality({x \in Table : exhausted[x]})
    BY <1>3, <1>4, <1>10, OneFlagMore
  <2> QED  BY <1>1, <1>10, <2>1, <2>2
<1>17. completedCount' = Cardinality({x \in Table : roundComplete'[x]})
  <2>1. completedCount = Cardinality({x \in Table : roundComplete[x]})
    BY DEF LedgersMatchCursors
  <2>2. Cardinality({x \in Table : roundComplete'[x]}) =
          IF roundComplete'[t] /\ ~roundComplete[t]
            THEN Cardinality({x \in Table : roundComplete[x]}) + 1
            ELSE Cardinality({x \in Table : roundComplete[x]})
    BY <1>3, <1>4, <1>10, OneFlagMore
  <2> QED  BY <1>1, <1>10, <2>1, <2>2
<1> QED  BY <1>11, <1>12, <1>15, <1>16, <1>17 DEF LedgersMatchCursors

\* The window grows: only tables delivered whole stay complete.
LEMMA AdvanceKeepsTruth ==
  ASSUME CursorsInv, LedgersMatchCursors, AdvanceRadius
  PROVE  CursorsInv' /\ LedgersMatchCursors'
<1>1. /\ scan = NoScan /\ scan' = scan /\ problem' = problem /\ cursors' = cursors
      /\ hits' = hits /\ exhausted' = exhausted /\ exhaustedCount' = exhaustedCount
      /\ radius' = radius * RadiusGrowth /\ radius * RadiusGrowth > radius
      /\ completedCount' = exhaustedCount /\ roundComplete' = exhausted
  BY DEF AdvanceRadius, NextIsCalled, RadiusCanGrow, NextRadius, RoundCompleteAfterAdvance
<1>2. radius \in Nat \ {0} /\ radius' \in Nat \ {0} /\ radius <= radius'
  <2>1. radius \in Nat \ {0} /\ RadiusGrowth \in Nat
    BY SearchEngineAssumption DEF CursorsInv
  <2>2. radius * RadiusGrowth \in Nat
    BY <2>1
  <2> QED  BY <1>1, <2>1, <2>2
<1>3. Bound \in Nat /\ Bound' \in Nat /\ Bound <= Bound'
  BY <1>2, WindowBoundGrows DEF Bound
<1>4. ASSUME NEW t \in Table PROVE CursorIsSound(t)'
  <2>1. CursorIsSound(t) /\ cursors[t].lastBound \in Int
    BY DEF CursorsInv, CursorRecord, Unbounded
  <2> QED  BY <1>1, <1>3, <2>1 DEF CursorIsSound
<1>5. CursorsInv'
  BY <1>1, <1>2, <1>4 DEF CursorsInv, ScanIsSound
<1>6. /\ \A t \in Table : Delivered(t)' = Delivered(t)
      /\ DeliveredEntries' = DeliveredEntries
  BY <1>1 DEF DeliveredEntries, Delivered
<1> QED  BY <1>1, <1>5, <1>6 DEF LedgersMatchCursors

\* Every other step leaves the cursors, the ledgers and, between scans, the hits.
LEMMA QuietStepKeepsTruth ==
  ASSUME CursorsInv, LedgersMatchCursors,
         UNCHANGED CursorVars, UNCHANGED scan, scan = NoScan => hits' = hits
  PROVE  CursorsInv' /\ LedgersMatchCursors'
<1>1. /\ problem' = problem /\ radius' = radius /\ cursors' = cursors /\ scan' = scan
      /\ exhausted' = exhausted /\ roundComplete' = roundComplete
      /\ exhaustedCount' = exhaustedCount /\ completedCount' = completedCount
      /\ Bound' = Bound
  BY DEF CursorVars, ledgers, Bound
<1>2. DeliveredEntries' = DeliveredEntries /\ \A t \in Table : Delivered(t)' = Delivered(t)
  BY <1>1 DEF DeliveredEntries, Delivered
<1>3. ScanIsSound'
  BY <1>1, <1>2 DEF CursorsInv, ScanIsSound, ScanPromise
<1> QED  BY <1>1, <1>2, <1>3, SameCursors DEF LedgersMatchCursors

LEMMA NextKeepsTruth ==
  ASSUME CursorsInv, LedgersMatchCursors, NextEngine \/ UNCHANGED engineVars
  PROVE  CursorsInv' /\ LedgersMatchCursors'
<1>1. CASE UNCHANGED engineVars
  BY <1>1, QuietStepKeepsTruth DEF engineVars, CursorVars
<1>2. ASSUME NEW t \in Table, NEW scope \in Scopes, BeginScan(t, scope)
      PROVE  CursorsInv' /\ LedgersMatchCursors'
  <2>1. CursorsInv'
    BY <1>2, BeginScanCursors
  <2>2. /\ problem' = problem /\ radius' = radius /\ cursors' = cursors /\ hits' = hits
        /\ scan = NoScan
        /\ exhausted' = exhausted /\ roundComplete' = roundComplete
        /\ exhaustedCount' = exhaustedCount /\ completedCount' = completedCount
        /\ Bound' = Bound
    BY <1>2 DEF BeginScan, NextIsCalled, ledgers, Bound
  <2>3. DeliveredEntries' = DeliveredEntries /\ \A x \in Table : Delivered(x)' = Delivered(x)
    BY <2>2 DEF DeliveredEntries, Delivered
  <2> QED  BY <2>1, <2>2, <2>3 DEF LedgersMatchCursors
<1>3. ASSUME NEW candidate \in Point \cup {NoCandidate}, DeliverHit(candidate)
      PROVE  CursorsInv' /\ LedgersMatchCursors'
  <2>1. CursorsInv' /\ scan' # NoScan
    BY <1>3, DeliverHitCursors
  <2>2. /\ problem' = problem /\ radius' = radius /\ cursors' = cursors
        /\ exhausted' = exhausted /\ roundComplete' = roundComplete
        /\ exhaustedCount' = exhaustedCount /\ completedCount' = completedCount
        /\ Bound' = Bound
    BY <1>3 DEF DeliverHit, ledgers, Bound
  <2>3. \A x \in Table : Delivered(x)' = Delivered(x)
    BY <2>2 DEF Delivered
  <2> QED  BY <2>1, <2>2, <2>3 DEF LedgersMatchCursors
<1>4. CASE EndScan
  BY <1>4, EndScanKeepsTruth
<1>5. CASE AdvanceRadius
  BY <1>5, AdvanceKeepsTruth
<1>6. CASE \/ \E p \in Point : EvaluateAction(p)
           \/ AdvanceRadiusThrows \/ Finish \/ InvalidAction \/ StepLimit \/ CallbackThrows
  <2>1. UNCHANGED <<problem, cursors, radius, hits, ledgers, scan>>
    BY <1>6 DEF EvaluateAction, AdvanceRadiusThrows, Finish, InvalidAction, StepLimit, CallbackThrows
  <2> QED  BY <2>1, QuietStepKeepsTruth DEF CursorVars
<1> QED  BY <1>1, <1>2, <1>3, <1>4, <1>5, <1>6 DEF NextEngine

-----------------------------------------------------------------------------
LEMMA AllExhausted ==
  ASSUME CursorsInv, LedgersMatchCursors
  PROVE  exhaustedCount = TableCount <=> DeliveredEntries = Table \X Position
<1> DEFINE F == {t \in Table : exhausted[t]}
<1>1. exhaustedCount = TableCount <=> F = Table
  <2>1. F \in SUBSET Table /\ exhaustedCount = Cardinality(F)
    BY DEF LedgersMatchCursors
  <2> HIDE DEF F
  <2> QED  BY <2>1, TablesAreFinite
<1>2. F = Table <=> \A t \in Table : Delivered(t) = Position
  BY DEF LedgersMatchCursors
<1>3. ASSUME \A t \in Table : Delivered(t) = Position
      PROVE  DeliveredEntries = Table \X Position
  BY <1>3 DEF DeliveredEntries
<1>4. ASSUME DeliveredEntries = Table \X Position, NEW t \in Table
      PROVE  Delivered(t) = Position
  <2>1. ASSUME NEW i \in Position PROVE i \in Delivered(t)
    <3>1. <<t, i>> \in DeliveredEntries
      BY <1>4
    <3> QED  BY <3>1 DEF DeliveredEntries
  <2>2. ASSUME NEW i \in Delivered(t) PROVE i \in Position
    <3>1. cursors[t].left \in 0 .. EntryCount /\ cursors[t].right \in 1 .. EntryCount + 1
      BY <1>4 DEF CursorsInv, CursorRecord
    <3>2. \A a \in 0 .. EntryCount, b \in 1 .. EntryCount + 1 :
             \A j \in a + 1 .. b - 1 : j \in Position
      BY CursorScanAssumption DEF Position
    <3> QED  BY <2>2, <3>1, <3>2 DEF Delivered
  <2> QED  BY <2>1, <2>2
<1> HIDE DEF F
<1> QED  BY <1>1, <1>2, <1>3, <1>4

\* Nothing happens after the search has returned, and only a finish reports the
\* reasons in question.
LEMMA NextReason ==
  ASSUME EngineInv, NextEngine \/ UNCHANGED engineVars
  PROVE  ReasonIsHonest'
<1>1. CASE UNCHANGED engineVars
  BY <1>1 DEF EngineInv, ReasonIsHonest, DeliveredEntries, Delivered, Results, engineVars
<1>2. CASE outcome' \notin Results
  BY <1>2 DEF ReasonIsHonest, Results
<1>3. Running \notin Results /\ Thrown \notin Results
  BY DEF Running, Thrown, Results
<1>4. CASE Finish
  <2>1. /\ outcome'.reason = IF snapshot.allTablesExhausted THEN "scan_exhausted" ELSE "strategy"
        /\ DeliveredEntries' = DeliveredEntries
    BY <1>4 DEF Finish, Return, ScansExhausted, DeliveredEntries, Delivered
  <2>2. snapshot.allTablesExhausted <=> exhaustedCount = TableCount
    BY DEF EngineInv, SnapshotIsFresh, LiveSnapshot
  <2>3. snapshot.allTablesExhausted <=> DeliveredEntries = Table \X Position
    BY <2>2, AllExhausted DEF EngineInv
  <2> QED  BY <2>1, <2>3 DEF ReasonIsHonest
<1>5. CASE InvalidAction \/ StepLimit
  BY <1>5 DEF InvalidAction, StepLimit, Return, ReasonIsHonest
<1>6. CASE AdvanceRadiusThrows \/ CallbackThrows
  BY <1>2, <1>3, <1>6 DEF AdvanceRadiusThrows, CallbackThrows
<1>7. CASE \/ \E t \in Table, scope \in Scopes : BeginScan(t, scope)
           \/ \E candidate \in Point \cup {NoCandidate} : DeliverHit(candidate)
           \/ EndScan \/ AdvanceRadius
           \/ \E p \in Point : EvaluateAction(p)
  <2>1. outcome = Running /\ outcome' = outcome
    BY <1>7 DEF BeginScan, DeliverHit, EndScan, AdvanceRadius, EvaluateAction, NextIsCalled
  <2> QED  BY <1>2, <1>3, <2>1
<1> QED  BY <1>1, <1>4, <1>5, <1>6, <1>7 DEF NextEngine

LEMMA EngineInvIsInvariant == EngineSpec => []EngineInv
<1>1. InitEngine => EngineInv
  BY InitCursors
<1>2. EngineInv /\ [NextEngine]_engineVars => EngineInv'
  BY NextKeepsTruth, NextSnapshot, NextReason DEF EngineInv
<1> QED  BY <1>1, <1>2, PTL DEF EngineSpec

\* No callback is given a snapshot of an earlier state: what the engine rebuilds
\* lazily or patches in place is always up to date (QuerySnapshot in
\* search_impl_typed, src/qalsh.cc).
THEOREM SnapshotIsAlwaysFresh == EngineSpec => []SnapshotIsFresh
<1>1. EngineInv => SnapshotIsFresh
  BY DEF EngineInv
<1> QED  BY <1>1, EngineInvIsInvariant, PTL

\* Whatever order the strategy scans and advances in, the ledgers of exhausted
\* and completed tables and projection_hits agree with what the cursors have
\* delivered (the scan and advance_radius actions of search_impl_typed).
THEOREM LedgersAlwaysMatch == EngineSpec => []LedgersMatchCursors
<1>1. EngineInv => LedgersMatchCursors
  BY DEF EngineInv
<1> QED  BY <1>1, EngineInvIsInvariant, PTL

\* A finish is reported as scan_exhausted exactly when every entry of every table
\* has been delivered (StrategyActionKind::finish in search_impl_typed).
THEOREM ReasonIsAlwaysHonest == EngineSpec => []ReasonIsHonest
<1>1. EngineInv => ReasonIsHonest
  BY DEF EngineInv
<1> QED  BY <1>1, EngineInvIsInvariant, PTL

-----------------------------------------------------------------------------
\* From here on the strategy is DefaultQalshStrategy.

QueueInv == pendingTables \in Seq(Table)

\* The next hit is an entry the cursor has not passed and the scan has not handed
\* over, and its point is one of the index.
LEMMA HitIsPoint ==
  ASSUME CursorsInv, HitsToCome, NEW x, x = scan.result.hits[scan.delivered + 1]
  PROVE  /\ scan \in ScanRecord /\ x \in Position /\ HitPoint \in Point
         /\ scan.delivered + 1 \in 1 .. Len(scan.result.hits)
<1>1. /\ scan \in ScanRecord /\ scan # NoScan /\ scan.delivered < Len(scan.result.hits)
      /\ problem \in Problems
  BY DEF CursorsInv, ScanIsSound, HitsToCome
<1>2. /\ scan.delivered \in Nat /\ scan.table \in Table /\ scan.result.hits \in Seq(Position)
  BY <1>1 DEF ScanRecord
<1>3. scan.delivered + 1 \in 1 .. Len(scan.result.hits)
  BY <1>1, <1>2, LenProperties
<1>4. x \in Position
  BY <1>2, <1>3, ElementOfSeq
<1>5. problem.points \in [Table -> [Position -> Point]]
  BY <1>1, ProblemsAssumption DEF IsProblem
<1> QED  BY <1>1, <1>2, <1>3, <1>4, <1>5 DEF HitPoint

\* Every step of the default strategy is a step of the engine.
LEMMA StepIsEngineStep ==
  ASSUME CursorsInv, QueueInv, Next \/ UNCHANGED vars
  PROVE  NextEngine \/ UNCHANGED engineVars
<1>1. CASE UNCHANGED vars
  BY <1>1 DEF vars
<1>2. CASE Hit
  <2>1. PICK candidate \in IF HitsToCome THEN HitDecisions ELSE {} : DeliverHit(candidate)
    BY <1>2 DEF Hit
  <2>2. candidate \in Point \cup {NoCandidate}
    BY <2>1, HitIsPoint DEF HitDecisions
  <2> QED  BY <2>1, <2>2 DEF NextEngine
<1>3. CASE Boundary
  BY <1>3 DEF Boundary, NextEngine
<1>4. CASE ServeTable
  <2>1. Head(pendingTables) \in Table
    BY <1>4 DEF ServeTable, Schedule!HasPending, QueueInv
  <2>2. "quantum" \in Scopes
    BY DEF Scopes
  <2> QED  BY <1>4, <2>1, <2>2 DEF ServeTable, NextEngine
<1>5. CASE Widen \/ WidenThrows \/ Stop \/ RunsOut \/ Aborts
  BY <1>5 DEF Widen, WidenThrows, Stop, RunsOut, Aborts, NextEngine
<1> QED  BY <1>1, <1>2, <1>3, <1>4, <1>5 DEF Next, Progress

\* A table holds each point once: it has as many positions as there are points.
LEMMA PointsAreDistinct ==
  ASSUME problem \in Problems, NEW t \in Table, NEW i \in Position, NEW j \in Position,
         problem.points[t][i] = problem.points[t][j]
  PROVE  i = j
<1> DEFINE f == problem.points[t]
<1>1. IsProblem(problem)
  BY ProblemsAssumption
<1>2. f \in [Position -> Point] /\ \A p \in Point : \E x \in Position : f[x] = p
  BY <1>1 DEF IsProblem
<1>3. f \in Surjection(Position, Point)
  BY <1>2 DEF Surjection
<1>4. IsFiniteSet(Position) /\ Cardinality(Position) = EntryCount
  BY CursorScanAssumption, FS_Interval DEF Position
<1>5. Cardinality(Point) = EntryCount
  BY CursorScanAssumption, FS_Interval DEF Point
<1> HIDE DEF f
<1>6. f \in Injection(Position, Point)
  BY <1>3, <1>4, <1>5, FS_SurjSameCardinalityImpliesInj
<1>7. f[i] = f[j] => i = j
  BY <1>6 DEF Injection, IsInjective
<1> QED  BY <1>7 DEF f

\* The schedule counts as the search does, over the same tables.
LEMMA SameCounting ==
  /\ Schedule!Table = Table
  /\ \A S : Schedule!Cardinality(S) = Cardinality(S)
BY DEF Schedule!Table, Table, Schedule!Cardinality, Cardinality

LEMMA QueueKept ==
  ASSUME CursorsInv, QueueInv, Next \/ UNCHANGED vars
  PROVE  QueueInv'
<1>1. CASE Boundary
  <2>1. scan.table \in Table
    BY <1>1 DEF Boundary, EndScan, CursorsInv, ScanIsSound, ScanRecord
  <2>2. pendingTables' = pendingTables \/ pendingTables' = Append(pendingTables, scan.table)
    BY <1>1 DEF Boundary, Schedule!OnScanBoundary, Schedule!Requeue
  <2> QED  BY <2>1, <2>2, AppendProperties DEF QueueInv
<1>2. CASE ServeTable
  BY <1>2 DEF ServeTable, Schedule!HasPending, QueueInv
<1>3. CASE Widen
  <2> DEFINE live == {t \in Schedule!Table : ~tableExhausted[t]}
  <2>1. PICK q \in [1 .. Cardinality(live) -> live] : pendingTables' = q
    BY <1>3, SameCounting DEF Widen, Schedule!OnRadiusAdvanced
  <2>2. live \in SUBSET Table
    BY DEF Schedule!Table, Table
  <2> HIDE DEF live
  <2>3. Cardinality(live) \in Nat
    BY <2>2, TablesAreFinite
  <2> QED  BY <2>1, <2>2, <2>3 DEF QueueInv
<1>4. CASE UNCHANGED pendingTables
  BY <1>4 DEF QueueInv
<1> QED  BY <1>1, <1>2, <1>3, <1>4
         DEF Next, Progress, Hit, WidenThrows, Stop, RunsOut, Aborts, vars, strategyVars, scheduleVars

\* The invariants of the engine hold of a search with the default strategy.
SearchInv == EngineInv /\ ResultsInv /\ QueueInv

LEMMA InitSearch == Init => SearchInv
<1> SUFFICES ASSUME Init PROVE SearchInv
  OBVIOUS
<1>1. EngineInv /\ ResultsInv
  BY InitCursors, InitResults DEF Init
<1>2. QueueInv
  BY SearchEngineAssumption DEF Init, Schedule!Init, QueueInv, Table
<1> QED  BY <1>1, <1>2 DEF SearchInv

LEMMA SearchKept ==
  ASSUME SearchInv, Next \/ UNCHANGED vars
  PROVE  SearchInv'
<1>1. NextEngine \/ UNCHANGED engineVars
  BY StepIsEngineStep DEF SearchInv, EngineInv
<1>2. EngineInv'
  BY <1>1, NextKeepsTruth, NextSnapshot, NextReason DEF SearchInv, EngineInv
<1>3. ResultsInv'
  BY <1>1, NextResults DEF SearchInv
<1>4. QueueInv'
  BY QueueKept DEF SearchInv, EngineInv
<1> QED  BY <1>2, <1>3, <1>4 DEF SearchInv

LEMMA SearchInvariance == Spec => []SearchInv
<1>1. SearchInv /\ [Next]_vars => SearchInv'
  BY SearchKept
<1> QED  BY <1>1, InitSearch, PTL DEF Spec

\* A search by DefaultQalshStrategy is a search of the engine, so the theorems
\* above hold of it (the callbacks of DefaultQalshStrategy in search_impl_typed).
THEOREM SearchIsEngineSearch == Spec => EngineSpec
<1>1. Init => InitEngine
  BY DEF Init
<1>2. SearchInv /\ [Next]_vars => [NextEngine]_engineVars
  BY StepIsEngineStep DEF SearchInv, EngineInv
<1> QED  BY <1>1, <1>2, SearchInvariance, PTL DEF Spec, EngineSpec

-----------------------------------------------------------------------------
\* The entry at position i of table t has been delivered, a scan in flight
\* included.
MetAt(t, i) == i \in Delivered(t) \/ (Scanning = t /\ i \in DeliveredInFlight)

\* A hit moves the scan on to its next entry.
LEMMA HitMovesScan ==
  ASSUME CursorsInv, HitsToCome,
         scan' = [scan EXCEPT !.delivered = @ + 1, !.hits = @ + 1]
  PROVE  /\ scan' # NoScan /\ scan'.table = scan.table
         /\ scan'.delivered = scan.delivered + 1 /\ scan'.result = scan.result
<1> DEFINE next == [table |-> scan.table, delivered |-> scan.delivered + 1,
                    hits |-> scan.hits + 1, result |-> scan.result]
<1>1. scan \in ScanRecord
  BY DEF HitsToCome, CursorsInv, ScanIsSound
<1>2. scan = [table |-> scan.table, delivered |-> scan.delivered,
              hits |-> scan.hits, result |-> scan.result]
  BY <1>1 DEF ScanRecord
<1>3. scan' = next
  BY <1>2, Zenon
<1>4. /\ next.table = scan.table /\ next.delivered = scan.delivered + 1
      /\ next.result = scan.result
  OBVIOUS
<1>5. next \in ScanRecord
  BY <1>1 DEF ScanRecord
<1> HIDE DEF next
<1> QED  BY <1>3, <1>4, <1>5, SearchEngineAssumption

\* A hit meets its entry and no other.
LEMMA HitMeetsItsEntry ==
  ASSUME CursorsInv, HitsToCome, NEW candidate, DeliverHit(candidate),
         NEW x, x = scan.result.hits[scan.delivered + 1], NEW u, u = scan.table
  PROVE  /\ ~MetAt(u, x)
         /\ \A t \in Table, i \in Position : MetAt(t, i)' <=> MetAt(t, i) \/ (t = u /\ i = x)
<1> DEFINE d == scan.delivered
           hs == scan.result.hits
<1>1. /\ scan # NoScan /\ scan \in ScanRecord /\ x \in Position /\ d + 1 \in 1 .. Len(hs)
      /\ ScanPromise(u, scan.result) /\ d \in Nat /\ u \in Table
  BY HitIsPoint DEF HitsToCome, CursorsInv, ScanIsSound, ScanRecord
<1>2. /\ \A i, j \in 1 .. Len(hs) : hs[i] = hs[j] => i = j
      /\ Passed(cursors[u], scan.result.cursor, x)
  BY <1>1 DEF ScanPromise
<1>3. /\ cursors' = cursors /\ scan' = [scan EXCEPT !.delivered = @ + 1, !.hits = @ + 1]
  BY DEF DeliverHit
<1>4. scan' # NoScan /\ scan'.table = u /\ scan'.delivered = d + 1 /\ scan'.result.hits = hs
  BY <1>3, HitMovesScan
<1>5. x \notin Delivered(u)
  <2>1. cursors[u] \in CursorRecord /\ cursors[u].left < cursors[u].right
    BY <1>1 DEF CursorsInv, CursorIsSound, WellPlaced
  <2>2. cursors[u].left \in Int /\ cursors[u].right \in Int /\ x \in Int
    BY <1>1, <2>1 DEF CursorRecord, Position
  <2> QED  BY <1>2, <2>1, <2>2 DEF Passed, Delivered
<1> HIDE DEF hs
<1>6. x \notin {hs[j] : j \in 1 .. d}
  <2> SUFFICES ASSUME NEW j \in 1 .. d, x = hs[j] PROVE FALSE
    OBVIOUS
  <2>1. x = hs[d + 1] /\ d \in Nat /\ Len(hs) \in Nat /\ d + 1 \in 1 .. Len(hs)
    <3>1. hs \in Seq(Position)
      BY <1>1 DEF hs, ScanRecord
    <3> QED  BY <1>1, <3>1, LenProperties DEF hs
  <2> HIDE DEF d
  <2>2. j \in 1 .. Len(hs) /\ j # d + 1
    BY <2>1
  <2> QED  BY <1>2, <2>1, <2>2
<1>7. {hs[j] : j \in 1 .. d + 1} = {hs[j] : j \in 1 .. d} \cup {x}
  <2>1. 1 .. d + 1 = (1 .. d) \cup {d + 1} /\ x = hs[d + 1]
    BY <1>1 DEF hs
  <2> QED  BY <2>1
<1>8. DeliveredInFlight = {hs[j] : j \in 1 .. d} /\ DeliveredInFlight' = {hs[j] : j \in 1 .. d + 1}
  BY <1>1, <1>4 DEF DeliveredInFlight, hs
<1>9. Scanning = u /\ Scanning' = u
  BY <1>1, <1>4 DEF Scanning
<1>10. \A t \in Table : Delivered(t)' = Delivered(t)
  BY <1>3 DEF Delivered
<1> QED  BY <1>5, <1>6, <1>7, <1>8, <1>9, <1>10 DEF MetAt

\* The end of a scan meets nothing new: all it delivered is behind the cursor.
LEMMA BoundaryMeetsNothing ==
  ASSUME CursorsInv, EndScan, NEW t \in Table, NEW i \in Position
  PROVE  MetAt(t, i)' <=> MetAt(t, i)
<1> DEFINE u == scan.table
           hs == scan.result.hits
           c == cursors[u]
           e == scan.result.cursor
<1>1. /\ scan # NoScan /\ scan' = NoScan /\ cursors' = [cursors EXCEPT ![u] = e]
      /\ ~(scan.delivered < Len(hs))
  BY DEF EndScan, HitsToCome
<1>2. /\ scan \in ScanRecord /\ ScanPromise(u, scan.result) /\ scan.delivered <= Len(hs)
      /\ u \in Table /\ scan.delivered \in Nat /\ hs \in Seq(Position) /\ e \in CursorRecord
  BY <1>1 DEF CursorsInv, ScanIsSound, ScanRecord
<1>3. scan.delivered = Len(hs)
  BY <1>1, <1>2, LenProperties
<1>4. i \in DeliveredInFlight <=> Passed(c, e, i)
  BY <1>1, <1>2, <1>3 DEF DeliveredInFlight, ScanPromise
<1>5. Scanning = u /\ Scanning' = NoScan
  BY <1>1 DEF Scanning
<1>6. DeliveredInFlight' = {}
  BY <1>1 DEF DeliveredInFlight
<1>7. CASE t # u
  <2>1. Delivered(t)' = Delivered(t)
    BY <1>1, <1>2, <1>7 DEF Delivered, CursorsInv
  <2> QED  BY <1>5, <1>6, <1>7, <2>1 DEF MetAt
<1>8. CASE t = u
  <2>1. Delivered(t)' = e.left + 1 .. e.right - 1 /\ Delivered(t) = c.left + 1 .. c.right - 1
    BY <1>1, <1>2, <1>8 DEF Delivered, CursorsInv
  <2>2. /\ c \in CursorRecord /\ c.left < c.right /\ e.left <= c.left /\ e.right >= c.right
    BY <1>2 DEF CursorsInv, CursorIsSound, WellPlaced, ScanPromise
  <2>3. /\ c.left \in Int /\ c.right \in Int /\ e.left \in Int /\ e.right \in Int /\ i \in Int
    BY <1>2, <2>2 DEF CursorRecord, Position
  <2> HIDE DEF c, e
  <2>4. i \in e.left + 1 .. e.right - 1 <=> i \in c.left + 1 .. c.right - 1 \/ Passed(c, e, i)
    BY <2>2, <2>3 DEF Passed
  <2> HIDE DEF u
  <2> QED  BY <1>4, <1>5, <1>6, <1>8, <2>1, <2>4 DEF MetAt
<1> QED  BY <1>7, <1>8

LEMMA DefaultProblemFacts ==
  ASSUME problem \in Problems
  PROVE  /\ problem.threshold \in 1 .. TableCount
         /\ problem.customCandidates \in BOOLEAN /\ problem.customTermination \in BOOLEAN
BY DefaultProblemsAssumption DEF IsDefaultProblem

\* A new entry adds its table to the tables its point was met in; other points
\* are not concerned.
LEMMA MetFollowsEntry ==
  ASSUME CursorsInv, problem' = problem, NEW u \in Table, NEW x \in Position, ~MetAt(u, x),
         \A t \in Table, i \in Position : MetAt(t, i)' <=> MetAt(t, i) \/ (t = u /\ i = x),
         NEW p \in Point
  PROVE  /\ Cardinality(Met(p)) \in Nat
         /\ Cardinality(Met(p)') = IF p = problem.points[u][x] THEN Cardinality(Met(p)) + 1
                                  ELSE Cardinality(Met(p))
<1>1. IsFiniteSet(Met(p)) /\ Cardinality(Met(p)) \in Nat
  BY TablesAreFinite DEF Met
<1>2. CASE p = problem.points[u][x]
  <2>1. u \notin Met(p)
    BY <1>2, PointsAreDistinct DEF Met, MetAt, CursorsInv
  <2>2. Met(p)' = Met(p) \cup {u}
    BY <1>2 DEF Met, MetAt
  <2> QED  BY <1>1, <1>2, <2>1, <2>2, FS_AddElement
<1>3. CASE p # problem.points[u][x]
  <2>1. Met(p)' = Met(p)
    BY <1>3 DEF Met, MetAt
  <2> QED  BY <1>1, <1>3, <2>1
<1> QED  BY <1>2, <1>3, <1>1

LEMMA MetStays ==
  ASSUME problem' = problem, \A t \in Table, i \in Position : MetAt(t, i)' <=> MetAt(t, i),
         NEW p \in Point
  PROVE  Met(p)' = Met(p)
BY DEF Met, MetAt

\* The countdown of a point and its evaluation follow the tables it was met in,
\* until the search is stopped; a stopped search evaluates nothing.
CollisionInv ==
    ~problem.customCandidates =>
        /\ remaining \in [Point -> Nat]
        /\ \A p \in seen : Cardinality(Met(p)) >= problem.threshold
        /\ ~finishRequested =>
              \A p \in Point :
                 /\ p \in seen <=> Cardinality(Met(p)) >= problem.threshold
                 /\ remaining[p] = IF Cardinality(Met(p)) >= problem.threshold THEN 0
                                   ELSE problem.threshold - Cardinality(Met(p))

LEMMA HitCounts ==
  ASSUME SearchInv, CollisionInv, Hit
  PROVE  CollisionInv'
<1> DEFINE u == scan.table
           x == scan.result.hits[scan.delivered + 1]
           h == HitPoint
           m == problem.threshold
           n(p) == Cardinality(Met(p))
<1> SUFFICES ASSUME ~problem.customCandidates, problem' = problem
             PROVE  CollisionInv'
  BY DEF Hit, DeliverHit, CollisionInv
<1>1. PICK candidate \in HitDecisions :
         /\ HitsToCome /\ DeliverHit(candidate)
         /\ remaining' =
              IF ~StillAccepting \/ remaining[h] = 0 THEN remaining
              ELSE IF candidate # NoCandidate THEN [remaining EXCEPT ![h] = 0]
              ELSE [remaining EXCEPT ![h] = @ - 1]
         /\ candidate = NoCandidate => UNCHANGED finishRequested
         /\ finishRequested => finishRequested'
  BY DEF Hit
<1>2. /\ u \in Table /\ x \in Position /\ h \in Point /\ h = problem.points[u][x]
      /\ CursorsInv
  BY <1>1, HitIsPoint DEF SearchInv, EngineInv, ScanRecord, HitPoint
<1>3. \A p \in Point : n(p) \in Nat /\ Cardinality(Met(p)') = IF p = h THEN n(p) + 1 ELSE n(p)
  <2>1. /\ ~MetAt(u, x)
        /\ \A t \in Table, i \in Position : MetAt(t, i)' <=> MetAt(t, i) \/ (t = u /\ i = x)
    BY <1>1, <1>2, HitMeetsItsEntry
  <2> HIDE DEF u, x, h
  <2> QED  BY <1>2, <2>1, MetFollowsEntry
<1>4. /\ m \in Nat /\ m >= 1 /\ seen \in SUBSET Point /\ NoCandidate \notin Point
      /\ remaining \in [Point -> Nat]
      /\ \A p \in seen : n(p) >= m
      /\ ~finishRequested =>
           \A p \in Point : /\ p \in seen <=> n(p) >= m
                            /\ remaining[p] = IF n(p) >= m THEN 0 ELSE m - n(p)
  BY <1>2, DefaultProblemFacts, SearchEngineAssumption DEF CollisionInv, SearchInv, ResultsInv, CursorsInv
<1> DEFINE w(p) == Cardinality(Met(p)')
<1>5. /\ n(h) \in Nat /\ w(h) = n(h) + 1 /\ remaining[h] \in Nat
      /\ \A p \in Point : n(p) \in Nat /\ (p # h => w(p) = n(p))
      /\ ~finishRequested =>
           /\ h \in seen <=> n(h) >= m
           /\ remaining[h] = IF n(h) >= m THEN 0 ELSE m - n(h)
  <2>2. \A p \in Point : n(p) \in Nat /\ w(p) = IF p = h THEN n(p) + 1 ELSE n(p)
    BY <1>3
  <2> HIDE DEF n, w, m, h, u, x
  <2>1. n(h) \in Nat /\ w(h) = n(h) + 1
    BY <1>2, <2>2
  <2>3. remaining[h] \in Nat
    BY <1>2, <1>4
  <2>4. ~finishRequested =>
           /\ h \in seen <=> n(h) >= m
           /\ remaining[h] = IF n(h) >= m THEN 0 ELSE m - n(h)
    BY <1>2, <1>4
  <2> QED  BY <2>1, <2>2, <2>3, <2>4
<1>6. SUFFICES /\ remaining' \in [Point -> Nat]
               /\ \A p \in seen' : w(p) >= m
               /\ ~finishRequested' =>
                     \A p \in Point : /\ p \in seen' <=> w(p) >= m
                                      /\ remaining'[p] = IF w(p) >= m THEN 0 ELSE m - w(p)
  BY DEF CollisionInv
<1> HIDE DEF n, w, m, h, u, x
<1>7. CASE finishRequested \/ remaining[h] = 0
  <2>1. candidate = NoCandidate /\ remaining' = remaining
    BY <1>1, <1>7 DEF HitDecisions, StillAccepting, h
  <2>2. seen' = seen /\ finishRequested' = finishRequested
    BY <1>1, <2>1 DEF DeliverHit, results
  <2>3. ~finishRequested => n(h) >= m
    BY <1>4, <1>5, <1>7
  <2>4. \A p \in Point : w(p) >= n(p)
    BY <1>5
  <2>5. \A p \in seen : w(p) >= m
    <3> TAKE p \in seen
    <3>1. p \in Point /\ n(p) \in Nat /\ w(p) \in Nat
      BY <1>4, <1>5
    <3> QED  BY <1>4, <3>1, <2>4
  <2>6. ASSUME ~finishRequested, NEW p \in Point
        PROVE  /\ p \in seen <=> w(p) >= m
               /\ remaining[p] = IF w(p) >= m THEN 0 ELSE m - w(p)
    <3>1. CASE p = h
      BY <1>4, <1>5, <2>3, <2>6, <3>1
    <3>2. CASE p # h
      BY <1>4, <1>5, <2>6, <3>2
    <3> QED  BY <3>1, <3>2
  <2> QED  BY <1>4, <2>1, <2>2, <2>5, <2>6
<1>8. CASE ~finishRequested /\ remaining[h] = 1
  <2>1. candidate = h /\ remaining' = [remaining EXCEPT ![h] = 0]
    BY <1>1, <1>2, <1>4, <1>8 DEF HitDecisions, StillAccepting, ReachesThreshold, h
  <2>2. h \notin seen /\ n(h) = m - 1
    BY <1>4, <1>5, <1>8
  <2>3. seen' = seen \cup {h}
    BY <1>1, <1>2, <1>4, <2>1, <2>2 DEF DeliverHit, EvaluateCandidate
  <2>4. ASSUME NEW p \in Point
        PROVE  /\ p \in seen' <=> w(p) >= m
               /\ remaining'[p] = IF w(p) >= m THEN 0 ELSE m - w(p)
    <3>1. CASE p = h
      BY <1>2, <1>4, <1>5, <2>1, <2>2, <2>3, <3>1
    <3>2. CASE p # h
      BY <1>2, <1>4, <1>5, <1>8, <2>1, <2>3, <3>2
    <3> QED  BY <3>1, <3>2
  <2>5. remaining' \in [Point -> Nat]
    BY <1>4, <2>1
  <2>6. seen' \subseteq Point
    BY <1>2, <1>4, <2>3
  <2> QED  BY <2>4, <2>5, <2>6
<1>9. CASE ~finishRequested /\ remaining[h] # 0 /\ remaining[h] # 1
  <2>1. candidate = NoCandidate /\ remaining' = [remaining EXCEPT ![h] = @ - 1]
    BY <1>1, <1>9 DEF HitDecisions, StillAccepting, ReachesThreshold, h
  <2>2. n(h) < m - 1 /\ remaining[h] = m - n(h) /\ remaining[h] - 1 \in Nat
    BY <1>4, <1>5, <1>9
  <2>3. seen' = seen
    BY <1>1, <2>1 DEF DeliverHit, results
  <2>4. ASSUME NEW p \in Point
        PROVE  /\ p \in seen' <=> w(p) >= m
               /\ remaining'[p] = IF w(p) >= m THEN 0 ELSE m - w(p)
    <3>1. CASE p = h
      BY <1>2, <1>4, <1>5, <1>9, <2>1, <2>2, <2>3, <3>1
    <3>2. CASE p # h
      BY <1>2, <1>4, <1>5, <1>9, <2>1, <2>3, <3>2
    <3> QED  BY <3>1, <3>2
  <2>5. remaining' \in [Point -> Nat]
    BY <1>2, <1>4, <2>1, <2>2
  <2>6. seen' \subseteq Point
    BY <1>4, <2>3
  <2> QED  BY <2>4, <2>5, <2>6
<1> QED  BY <1>7, <1>8, <1>9

\* The steps that meet no entry: they neither evaluate nor count down, and once
\* the search is stopped it stays stopped.
LEMMA CollisionsKept ==
  ASSUME SearchInv, CollisionInv, Next \/ UNCHANGED vars
  PROVE  CollisionInv'
<1>1. CASE Hit
  BY <1>1, HitCounts
<1>2. SUFFICES ASSUME /\ problem' = problem /\ remaining' = remaining /\ seen' = seen
                      /\ finishRequested => finishRequested'
                      /\ \A t \in Table, i \in Position : MetAt(t, i)' <=> MetAt(t, i)
               PROVE  CollisionInv'
  <2>1. CASE Boundary
    <3>1. \A t \in Table, i \in Position : MetAt(t, i)' <=> MetAt(t, i)
      BY <2>1, BoundaryMeetsNothing DEF Boundary, SearchInv, EngineInv
    <3> QED  BY <1>2, <2>1, <3>1 DEF Boundary, EndScan, results
  <2>2. CASE ServeTable
    <3> DEFINE t0 == Head(pendingTables)
    <3>1. /\ scan = NoScan /\ cursors' = cursors /\ problem' = problem
          /\ scan'.delivered = 0
      BY <2>2 DEF ServeTable, BeginScan, NextIsCalled
    <3>2. DeliveredInFlight' = {} /\ DeliveredInFlight = {}
      BY <3>1 DEF DeliveredInFlight
    <3>3. \A t \in Table, i \in Position : MetAt(t, i)' <=> MetAt(t, i)
      BY <3>1, <3>2 DEF MetAt, Delivered
    <3> QED  BY <1>2, <2>2, <3>3 DEF ServeTable, BeginScan, results
  <2>3. CASE Widen \/ WidenThrows \/ Stop \/ RunsOut \/ Aborts \/ UNCHANGED vars
    <3>1. /\ scan' = scan /\ cursors' = cursors /\ problem' = problem
          /\ remaining' = remaining /\ seen' = seen
          /\ finishRequested => finishRequested'
      <4>1. CASE Widen \/ WidenThrows
        <5>1. /\ AdvanceRadius \/ AdvanceRadiusThrows
              /\ remaining' = remaining /\ finishRequested' = finishRequested
          BY <4>1 DEF Widen, WidenThrows
        <5> QED  BY <5>1 DEF AdvanceRadius, AdvanceRadiusThrows, results
      <4>2. CASE Stop
        <5>1. Finish /\ finishRequested' = TRUE /\ remaining' = remaining
          BY <4>2 DEF Stop
        <5> QED  BY <5>1 DEF Finish, results
      <4>3. CASE RunsOut \/ Aborts
        BY <4>3 DEF RunsOut, Aborts, StepLimit, CallbackThrows, results, strategyVars
      <4>4. CASE UNCHANGED vars
        BY <4>4 DEF vars, engineVars, strategyVars, results
      <4> QED  BY <2>3, <4>1, <4>2, <4>3, <4>4
    <3>2. \A t \in Table, i \in Position : MetAt(t, i)' <=> MetAt(t, i)
      BY <3>1 DEF MetAt, Delivered, DeliveredInFlight, Scanning
    <3> QED  BY <1>2, <3>1, <3>2
  <2> QED  BY <1>1, <2>1, <2>2, <2>3 DEF Next, Progress
<1>3. \A p \in Point : Met(p)' = Met(p)
  BY <1>2, MetStays
<1>4. \A p \in Point : Cardinality(Met(p)') = Cardinality(Met(p))
  BY <1>3
<1>5. seen \subseteq Point
  BY DEF SearchInv, ResultsInv
<1> QED  BY <1>2, <1>4, <1>5 DEF CollisionInv

LEMMA InitCollisions == Init => CollisionInv
<1> SUFFICES ASSUME Init PROVE CollisionInv
  OBVIOUS
<1>1. /\ scan = NoScan /\ seen = {} /\ remaining = [p \in Point |-> problem.threshold]
      /\ problem \in Problems /\ \A t \in Table : Delivered(t) = {}
  BY InitCursors DEF Init, InitEngine
<1>2. \A p \in Point : Met(p) = {}
  BY <1>1, SearchEngineAssumption DEF Met, DeliveredInFlight
<1>3. \A p \in Point : Cardinality(Met(p)) = 0
  BY <1>2, FS_EmptySet
<1>4. problem.threshold \in Nat /\ problem.threshold >= 1
  BY <1>1, DefaultProblemFacts, SearchEngineAssumption
<1> QED  BY <1>1, <1>3, <1>4 DEF CollisionInv

LEMMA CollisionInvariance == Spec => []CollisionInv
<1>1. SearchInv /\ CollisionInv /\ [Next]_vars => CollisionInv'
  BY CollisionsKept
<1> QED  BY <1>1, InitCollisions, SearchInvariance, PTL DEF Spec

\* For every index, threshold and budget: until the search is stopped, exactly
\* the points met in threshold tables have been evaluated, each the moment its
\* countdown ended, however the tables' scans are cut and interleaved
\* (accept_builtin_id, on_projection_hit, EvaluateCandidate).
THEOREM CollisionsAreAlwaysExact == Spec => []CollisionsAreExact
<1>1. SearchInv /\ CollisionInv => CollisionsAreExact
  <2> SUFFICES ASSUME SearchInv, CollisionInv, ~problem.customCandidates
               PROVE  CollisionsAreExact
    BY DEF CollisionsAreExact
  <2>1. seen \subseteq Point
    BY DEF SearchInv, ResultsInv
  <2> DEFINE accepted == {p \in Point : Cardinality(Met(p)) >= problem.threshold}
  <2>2. seen \subseteq accepted
    BY <2>1 DEF CollisionInv
  <2>3. ~finishRequested => seen = accepted
    BY <2>1, <2>2 DEF CollisionInv
  <2>4. ~finishRequested =>
           \A p \in Point : remaining[p] = IF p \in accepted THEN 0
                                           ELSE problem.threshold - Cardinality(Met(p))
    BY DEF CollisionInv
  <2> QED  BY <2>2, <2>3, <2>4 DEF CollisionsAreExact
<1> QED  BY <1>1, SearchInvariance, CollisionInvariance, PTL

-----------------------------------------------------------------------------
\* A scan boundary is a Scan of the schedule: it consumes what was delivered,
\* and stops inside the window only when that was something.
LEMMA BoundaryIsScan ==
  ASSUME CursorsInv, Boundary
  PROVE  Schedule!Scan
<1> DEFINE u == scan.table
           c == cursors[u]
           e == scan.result.cursor
           visited == Len(scan.result.hits)
           left == Unread[u] - visited
<1>1. /\ scan # NoScan /\ scan' = NoScan /\ cursors' = [cursors EXCEPT ![u] = e]
      /\ Schedule!OnScanBoundary(u, scan.result.windowExhausted, scan.result.tableExhausted)
      /\ advances' = advances
  BY DEF Boundary, EndScan
<1>2. /\ u \in Table /\ ScanPromise(u, scan.result) /\ scan.result.hits \in Seq(Position)
      /\ scan.result.windowExhausted \in BOOLEAN
  BY <1>1 DEF CursorsInv, ScanIsSound, ScanRecord
<1>3. /\ c \in CursorRecord /\ e \in CursorRecord /\ c.left < c.right /\ e.left < e.right
      /\ e.left <= c.left /\ e.right >= c.right
      /\ visited = (c.left - e.left) + (e.right - c.right)
      /\ visited = 0 => scan.result.windowExhausted
      /\ scan.result.windowExhausted = WindowExhausted(e)
      /\ scan.result.tableExhausted = TableExhausted(e)
  BY <1>2 DEF ScanPromise, CursorsInv, CursorIsSound, WellPlaced
<1>4. /\ c.left \in 0 .. EntryCount /\ c.right \in 1 .. EntryCount + 1
      /\ e.left \in 0 .. EntryCount /\ e.right \in 1 .. EntryCount + 1
      /\ EntryCount \in Nat
  BY <1>3, CursorScanAssumption DEF CursorRecord
<1>5. Unread[u] = c.left + EntryCount - c.right + 1
  BY <1>2 DEF Unread
<1>6. Unread' = [Unread EXCEPT ![u] = e.left + EntryCount - e.right + 1]
  <2>1. cursors \in [Table -> CursorRecord]
    BY DEF CursorsInv
  <2> HIDE DEF u, e
  <2>2. \A t \in Table : cursors'[t] = IF t = u THEN e ELSE cursors[t]
    BY <1>1, <1>2, <2>1
  <2> QED  BY <1>2, <2>2 DEF Unread
<1>7. Scanning = u /\ Scanning' = NoScan /\ Scanning # NoScan
  <2>1. u # NoScan
    BY <1>2, ScheduleAssumption
  <2> QED  BY <1>1, <2>1 DEF Scanning
<1> HIDE DEF c, e, visited, u
<1>8. /\ left = e.left + EntryCount - e.right + 1 /\ visited \in 0 .. Unread[u]
      /\ visited > 0 \/ visited = 0
      /\ left = 0 <=> e.left = 0 /\ e.right = EntryCount + 1
  <2> DEFINE cl == c.left
             cr == c.right
             el == e.left
             er == e.right
             n == Unread[u]
  <2>1. /\ cl \in 0 .. EntryCount /\ cr \in 1 .. EntryCount + 1 /\ cl < cr
        /\ el \in 0 .. EntryCount /\ er \in 1 .. EntryCount + 1 /\ el < er
        /\ el <= cl /\ er >= cr /\ EntryCount \in Nat
        /\ visited = (cl - el) + (er - cr) /\ n = cl + EntryCount - cr + 1
    BY <1>3, <1>4, <1>5
  <2> HIDE DEF cl, cr, el, er, n
  <2>2. /\ n - visited = el + EntryCount - er + 1 /\ visited \in 0 .. n
        /\ visited > 0 \/ visited = 0
        /\ n - visited = 0 <=> el = 0 /\ er = EntryCount + 1
    BY <2>1
  <2> QED  BY <2>2 DEF cl, cr, el, er, n
<1>9. scan.result.tableExhausted = (left = 0)
  BY <1>3, <1>8 DEF TableExhausted
<1>10. left = 0 => scan.result.windowExhausted
  BY <1>3, <1>8 DEF WindowExhausted
<1> QED
  BY <1>1, <1>2, <1>3, <1>6, <1>7, <1>8, <1>9, <1>10 DEF Schedule!Scan

\* Every step of the search is a step of the schedule, or none of its business.
LEMMA StepIsScheduleStep ==
  ASSUME EngineInv, QueueInv, Next \/ UNCHANGED vars
  PROVE  Schedule!Next \/ UNCHANGED Schedule!vars
<1>1. CASE Boundary
  BY <1>1, BoundaryIsScan DEF Schedule!Next, EngineInv
<1>2. CASE ServeTable
  <2> DEFINE t == Head(pendingTables)
  <2>1. /\ Schedule!HasPending /\ scan = NoScan /\ scan'.table = t
        /\ cursors' = cursors /\ pendingTables' = Tail(pendingTables)
        /\ UNCHANGED <<tableExhausted, tableCompleted, exhaustedTables, completedTables, advances>>
    BY <1>2 DEF ServeTable, BeginScan, NextIsCalled
  <2>2. t \in Table
    BY <2>1 DEF Schedule!HasPending, QueueInv
  <2>3. Scanning = NoScan /\ Scanning' = t
    <3>1. scan' # NoScan
      <4>1. "quantum" \in Scopes
        BY DEF Scopes
      <4>2. scan' \in ScanRecord
        BY <1>2, <2>2, <4>1, BeginScanCursors DEF ServeTable, EngineInv
      <4> QED  BY <4>2, SearchEngineAssumption
    <3> QED  BY <2>1, <3>1 DEF Scanning
  <2>4. Unread' = Unread
    BY <2>1 DEF Unread
  <2> QED  BY <2>1, <2>3, <2>4 DEF Schedule!Next, Schedule!NextTable, Schedule!ledger
<1>3. CASE Widen
  <2>1. Schedule!OnRadiusAdvanced
    BY <1>3 DEF Widen
  <2> QED  BY <2>1 DEF Schedule!Next
<1>4. CASE Hit
  <2>1. /\ HitsToCome /\ cursors' = cursors /\ scan' = [scan EXCEPT !.delivered = @ + 1, !.hits = @ + 1]
        /\ UNCHANGED <<scheduleVars, advances>>
    BY <1>4 DEF Hit, DeliverHit
  <2>2. Unread' = Unread
    BY <2>1 DEF Unread
  <2>3. Scanning' = Scanning
    BY <2>1, HitMovesScan DEF Scanning, HitsToCome, EngineInv
  <2> QED  BY <2>1, <2>2, <2>3 DEF Schedule!vars, Schedule!ledger, scheduleVars
<1>5. CASE WidenThrows \/ Stop \/ RunsOut \/ Aborts \/ UNCHANGED vars
  <2>1. scan' = scan /\ cursors' = cursors /\ UNCHANGED <<scheduleVars, advances>>
    <3>1. CASE WidenThrows
      BY <3>1 DEF WidenThrows, AdvanceRadiusThrows
    <3>2. CASE Stop
      BY <3>2 DEF Stop, Finish
    <3>3. CASE RunsOut \/ Aborts
      BY <3>3 DEF RunsOut, Aborts, StepLimit, CallbackThrows, strategyVars
    <3>4. CASE UNCHANGED vars
      BY <3>4 DEF vars, engineVars, strategyVars
    <3> QED  BY <1>5, <3>1, <3>2, <3>3, <3>4
  <2>2. Unread' = Unread /\ Scanning' = Scanning
    BY <2>1 DEF Unread, Scanning
  <2> QED  BY <2>1, <2>2 DEF Schedule!vars, Schedule!ledger, scheduleVars
<1> QED  BY <1>1, <1>2, <1>3, <1>4, <1>5 DEF Next, Progress

\* The strategy uses its queue as the scheduler requires: a table is taken only
\* between scans, and every boundary it reports obeys the cursor contract that
\* the schedule's own theorems assume (next, on_scan_boundary,
\* on_radius_advanced of DefaultQalshStrategy).
THEOREM SearchImplementsSchedule == Spec => ImplementsSchedule
<1>1. Init => Schedule!Init
  BY DEF Init
<1>2. SearchInv /\ [Next]_vars => [Schedule!Next]_(Schedule!vars)
  BY StepIsScheduleStep DEF SearchInv
<1> QED  BY <1>1, <1>2, SearchInvariance, PTL DEF Spec, ImplementsSchedule, Schedule!Spec

-----------------------------------------------------------------------------
\* The theorems about the schedule, on the schedule of a search.
ScheduleProofs == INSTANCE TableScanSchedule_proofs
    WITH Entries <- EntryCount, NoTable <- NoScan, scanning <- Scanning, unread <- Unread

LEMMA SameSchedule ==
  /\ Schedule!Init => ScheduleProofs!Init
  /\ Schedule!Next => ScheduleProofs!Next
  /\ UNCHANGED Schedule!vars => UNCHANGED ScheduleProofs!vars
<1>1. /\ ScheduleProofs!Table = Schedule!Table
      /\ \A S : ScheduleProofs!Cardinality(S) = Schedule!Cardinality(S)
  BY DEF ScheduleProofs!Table, Schedule!Table, ScheduleProofs!Cardinality, Schedule!Cardinality
<1>2. Schedule!Init => ScheduleProofs!Init
  BY <1>1 DEF Schedule!Init, ScheduleProofs!Init
<1>3. UNCHANGED Schedule!vars => UNCHANGED ScheduleProofs!vars
  BY DEF Schedule!vars, ScheduleProofs!vars, Schedule!ledger, ScheduleProofs!ledger
<1>4. Schedule!NextTable => ScheduleProofs!NextTable
  BY DEF Schedule!NextTable, ScheduleProofs!NextTable, Schedule!HasPending,
         ScheduleProofs!HasPending, Schedule!ledger, ScheduleProofs!ledger
<1>5. Schedule!Scan => ScheduleProofs!Scan
  BY DEF Schedule!Scan, ScheduleProofs!Scan, Schedule!OnScanBoundary,
         ScheduleProofs!OnScanBoundary, Schedule!Requeue, ScheduleProofs!Requeue
<1>6. Schedule!OnRadiusAdvanced => ScheduleProofs!OnRadiusAdvanced
  BY <1>1
     DEF Schedule!OnRadiusAdvanced, ScheduleProofs!OnRadiusAdvanced,
         Schedule!IsAscendingQueue, ScheduleProofs!IsAscendingQueue,
         Schedule!Range, ScheduleProofs!Range,
         Schedule!CompletedAfterAdvance, ScheduleProofs!CompletedAfterAdvance
<1> QED  BY <1>2, <1>3, <1>4, <1>5, <1>6 DEF Schedule!Next, ScheduleProofs!Next

\* The schedule's invariants hold of the search's ledgers and queue.
ScheduleInv == ScheduleProofs!IInv

LEMMA ScheduleInvariance == Spec => []ScheduleInv
<1>1. ScheduleProofs!TableScheduleAssumption
  BY CursorScanAssumption, SearchEngineAssumption, ScheduleAssumption
     DEF ScheduleProofs!Table, Table
<1>2. Init => ScheduleInv
  BY <1>1, SameSchedule, ScheduleProofs!InitIInv DEF Init, ScheduleInv
<1>3. SearchInv /\ ScheduleInv /\ [Next]_vars => ScheduleInv'
  <2> SUFFICES ASSUME SearchInv, ScheduleInv, [Next]_vars PROVE ScheduleInv'
    OBVIOUS
  <2>1. ScheduleProofs!Next \/ UNCHANGED ScheduleProofs!vars
    BY StepIsScheduleStep, SameSchedule DEF SearchInv
  <2> QED  BY <1>1, <2>1, ScheduleProofs!StepKeepsIInv DEF ScheduleInv
<1> QED  BY <1>2, <1>3, SearchInvariance, PTL DEF Spec

LEMMA ScheduleFacts ==
  ASSUME ScheduleInv
  PROVE  /\ completedTables \in 0 .. TableCount /\ exhaustedTables \in 0 .. TableCount
         /\ advances \in Nat
         /\ tableExhausted \in [Table -> BOOLEAN] /\ tableCompleted \in [Table -> BOOLEAN]
         /\ Scanning # NoScan => Scanning \in Table /\ ~tableCompleted[Scanning]
<1>1. ScheduleProofs!Table = Table
  BY DEF ScheduleProofs!Table, Table
<1>2. ScheduleProofs!TypeOK /\ ScheduleProofs!QueueIsIncompleteTables
  BY DEF ScheduleInv, ScheduleProofs!IInv
<1>3. advances \in Nat
  BY <1>2, ScheduleAssumption DEF ScheduleProofs!TypeOK
<1> QED  BY <1>1, <1>2, <1>3 DEF ScheduleProofs!TypeOK, ScheduleProofs!QueueIsIncompleteTables

\* What a scan delivers is what the ledger of hits gains at its end.
LEMMA BoundaryDelivers ==
  ASSUME EngineInv, EngineInv', EndScan
  PROVE  Cardinality(DeliveredEntries)' =
            Cardinality(DeliveredEntries) + Len(scan.result.hits)
<1>1. /\ scan # NoScan /\ scan' = NoScan /\ hits' = scan.hits
      /\ ~(scan.delivered < Len(scan.result.hits))
  BY DEF EndScan, HitsToCome
<1>2. /\ scan \in ScanRecord /\ scan.delivered <= Len(scan.result.hits)
      /\ scan.hits = Cardinality(DeliveredEntries) + scan.delivered
  BY <1>1 DEF EngineInv, CursorsInv, ScanIsSound
<1>3. scan.delivered = Len(scan.result.hits)
  <2>1. scan.delivered \in Nat /\ Len(scan.result.hits) \in Nat
    BY <1>2, LenProperties DEF ScanRecord
  <2> QED  BY <1>1, <1>2, <2>1
<1>4. hits' = Cardinality(DeliveredEntries)'
  BY <1>1 DEF EngineInv, LedgersMatchCursors
<1> QED  BY <1>1, <1>2, <1>3, <1>4

\* The steps so far are paid for by entries delivered, tables completed in this
\* window and windows widened; the step being taken may still owe its share.
StepsInv ==
    /\ steps \in Nat
    /\ steps <= Cardinality(DeliveredEntries) + advances * (TableCount + 1) + completedTables
                  + (IF scan # NoScan \/ outcome # Running THEN 1 ELSE 0)

LEMMA OneWindowMore ==
  ASSUME NEW a \in Nat, NEW b \in Nat
  PROVE  /\ a * (b + 1) \in Nat /\ (a + 1) * (b + 1) = a * (b + 1) + (b + 1)
OBVIOUS

LEMMA StepsPaidFor ==
  ASSUME SearchInv, SearchInv', ScheduleInv, ScheduleInv', StepsInv, Next \/ UNCHANGED vars
  PROVE  StepsInv'
<1> DEFINE d == Cardinality(DeliveredEntries)
           w == advances * (TableCount + 1)
<1>1. /\ d \in Nat /\ w \in Nat /\ TableCount \in Nat
      /\ completedTables \in 0 .. TableCount /\ completedTables' \in 0 .. TableCount
  <2>1. completedTables \in 0 .. TableCount /\ advances \in Nat
    BY ScheduleFacts
  <2>5. completedTables' \in 0 .. TableCount
    BY DEF ScheduleInv, ScheduleProofs!IInv, ScheduleProofs!TypeOK
  <2>2. TableCount \in Nat
    BY SearchEngineAssumption
  <2>3. d \in Nat
    BY CoveredIsFinite DEF DeliveredEntries
  <2> QED  BY <2>1, <2>2, <2>3, <2>5, OneWindowMore
<1>2. /\ steps \in Nat
      /\ steps <= d + w + completedTables + (IF scan # NoScan \/ outcome # Running THEN 1 ELSE 0)
  BY DEF StepsInv
<1>3. CASE Boundary
  <2> DEFINE u == scan.table
  <2>1. /\ EndScan /\ scan # NoScan /\ scan' = NoScan /\ outcome' = outcome /\ outcome = Running
        /\ steps' = steps /\ advances' = advances
        /\ Schedule!OnScanBoundary(u, scan.result.windowExhausted, scan.result.tableExhausted)
    BY <1>3 DEF Boundary, EndScan
  <2>2. d' = d + Len(scan.result.hits)
    BY <2>1, BoundaryDelivers DEF SearchInv
  <2>3. /\ u \in Table /\ ~tableCompleted[u]
        /\ Len(scan.result.hits) \in Nat
        /\ Len(scan.result.hits) = 0 => scan.result.windowExhausted
    <3>1. /\ u \in Table /\ scan.result.hits \in Seq(Position)
          /\ Len(scan.result.hits) = 0 => scan.result.windowExhausted
      BY <2>1 DEF SearchInv, EngineInv, CursorsInv, ScanIsSound, ScanRecord, ScanPromise
    <3>2. Scanning = u /\ Scanning # NoScan
      BY <2>1, <3>1, ScheduleAssumption DEF Scanning
    <3> QED  BY <3>1, <3>2, ScheduleFacts, LenProperties
  <2>4. /\ completedTables' = completedTables \/ completedTables' = completedTables + 1
        /\ scan.result.windowExhausted => completedTables' = completedTables + 1
    BY <2>1, <2>3 DEF Schedule!OnScanBoundary
  <2> DEFINE n == Len(scan.result.hits)
             w2 == (advances * (TableCount + 1))'
  <2>5. w2 = w
    BY <2>1
  <2> HIDE DEF d, w, n, w2
  <2>6. steps' <= d' + w2 + completedTables' + 0
    <3>1. n \in Nat /\ d' = d + n /\ (n = 0 => completedTables' = completedTables + 1)
      BY <2>2, <2>3, <2>4 DEF n
    <3>2. /\ steps \in Nat /\ steps <= d + w + completedTables + 1 /\ steps' = steps
          /\ completedTables \in Nat /\ d \in Nat /\ w \in Nat
      BY <1>1, <1>2, <2>1
    <3> QED  BY <2>4, <2>5, <3>1, <3>2
  <2> QED  BY <1>2, <2>1, <2>6 DEF StepsInv, d, w2
<1>4. CASE ServeTable
  <2>1. /\ scan = NoScan /\ outcome = Running /\ outcome' = outcome /\ steps' = steps + 1
        /\ cursors' = cursors /\ advances' = advances /\ completedTables' = completedTables
        /\ Head(pendingTables) \in Table
    BY <1>4 DEF ServeTable, BeginScan, NextIsCalled, SearchInv, QueueInv, Schedule!HasPending
  <2>2. scan' # NoScan
    <3>1. "quantum" \in Scopes
      BY DEF Scopes
    <3>2. scan' \in ScanRecord
      BY <1>4, <2>1, <3>1, BeginScanCursors DEF ServeTable, SearchInv, EngineInv
    <3> QED  BY <3>2, SearchEngineAssumption
  <2>3. d' = d /\ w' = w
    BY <2>1 DEF DeliveredEntries, Delivered
  <2> HIDE DEF d, w
  <2>4. steps' \in Nat /\ steps' <= d' + w' + completedTables' + 1
    BY <1>1, <1>2, <2>1, <2>3
  <2> QED  BY <2>2, <2>4 DEF StepsInv, d, w
<1>5. CASE Widen
  <2>1. /\ scan = NoScan /\ outcome = Running /\ steps' = steps + 1
        /\ scan' = NoScan /\ outcome' = Running
        /\ cursors' = cursors /\ advances' = advances + 1
    BY <1>5 DEF Widen, AdvanceRadius, NextIsCalled, Schedule!OnRadiusAdvanced
  <2>2. d' = d /\ w' = w + (TableCount + 1)
    <3>1. (advances + 1) * (TableCount + 1) = w + (TableCount + 1)
      BY SearchEngineAssumption, ScheduleFacts, OneWindowMore
    <3>2. w' = w + (TableCount + 1)
      BY <2>1, <3>1
    <3> QED  BY <2>1, <3>2 DEF DeliveredEntries, Delivered
  <2> HIDE DEF d, w
  <2>3. steps' \in Nat /\ steps' <= d' + w' + completedTables' + 0
    <3>1. /\ steps \in Nat /\ steps <= d + w + completedTables
          /\ completedTables \in Nat /\ completedTables <= TableCount
      BY <1>1, <1>2, <2>1
    <3>2. PICK x \in Nat, y \in Nat, s \in Nat, n \in Nat, c \in Nat, e \in Nat :
             /\ x = d /\ y = w /\ s = steps /\ n = TableCount
             /\ c = completedTables /\ e = completedTables'
             /\ c <= n /\ s <= x + y + c
      BY <1>1, <3>1
    <3>3. s + 1 <= x + (y + (n + 1)) + e + 0
      <4>1. c <= n /\ s <= x + y + c
        BY <3>2
      <4> QED  BY ONLY <4>1, x \in Nat, y \in Nat, s \in Nat, n \in Nat, c \in Nat, e \in Nat
    <3>4. /\ steps' = s + 1 /\ d' = x /\ w' = y + (n + 1) /\ completedTables' = e
      BY <2>1, <2>2, <3>2
    <3>5. s + 1 \in Nat
      OBVIOUS
    <3> QED  BY <3>3, <3>4, <3>5
  <2> QED  BY <2>1, <2>3 DEF StepsInv, d, w
<1>6. CASE WidenThrows \/ Stop \/ RunsOut \/ Aborts
  <2>1. /\ outcome = Running /\ outcome' # Running /\ cursors' = cursors
        /\ advances' = advances /\ completedTables' = completedTables
        /\ steps' = steps \/ (scan = NoScan /\ steps' = steps + 1)
    <3>1. CASE WidenThrows
      BY <3>1 DEF WidenThrows, AdvanceRadiusThrows, NextIsCalled, scheduleVars, Running, Thrown
    <3>2. CASE Stop
      BY <3>2 DEF Stop, Finish, NextIsCalled, scheduleVars, Running, Return
    <3>3. CASE RunsOut
      BY <3>3 DEF RunsOut, StepLimit, scheduleVars, strategyVars, Running, Return
    <3>4. CASE Aborts
      BY <3>4 DEF Aborts, CallbackThrows, scheduleVars, strategyVars, Running, Thrown
    <3> QED  BY <1>6, <3>1, <3>2, <3>3, <3>4
  <2>2. d' = d /\ w' = w
    BY <2>1 DEF DeliveredEntries, Delivered
  <2> HIDE DEF d, w
  <2>3. steps' \in Nat /\ steps' <= d' + w' + completedTables' + 1
    BY <1>1, <1>2, <2>1, <2>2
  <2> QED  BY <2>1, <2>3 DEF StepsInv, d, w
<1>7. CASE Hit \/ UNCHANGED vars
  <2>1. /\ cursors' = cursors /\ steps' = steps /\ outcome' = outcome
        /\ advances' = advances /\ completedTables' = completedTables
        /\ scan # NoScan => scan' # NoScan
    <3>1. CASE Hit
      <4>1. PICK candidate : HitsToCome /\ DeliverHit(candidate)
        BY <3>1 DEF Hit
      <4>2. scan' # NoScan
        BY <4>1, HitMovesScan DEF DeliverHit, SearchInv, EngineInv
      <4> QED  BY <3>1, <4>1, <4>2 DEF DeliverHit, Hit, scheduleVars
    <3>2. CASE UNCHANGED vars
      BY <3>2 DEF vars, engineVars, strategyVars, scheduleVars
    <3> QED  BY <1>7, <3>1, <3>2
  <2>2. d' = d /\ w' = w
    BY <2>1 DEF DeliveredEntries, Delivered
  <2> HIDE DEF d, w
  <2>3. steps' \in Nat
        /\ steps' <= d' + w' + completedTables'
                      + (IF scan' # NoScan \/ outcome' # Running THEN 1 ELSE 0)
    BY <1>1, <1>2, <2>1, <2>2
  <2> QED  BY <2>3 DEF StepsInv, d, w
<1> QED  BY <1>3, <1>4, <1>5, <1>6, <1>7 DEF Next, Progress

LEMMA InitSteps == Init => StepsInv
<1> SUFFICES ASSUME Init PROVE StepsInv
  OBVIOUS
<1>1. /\ steps = 0 /\ advances = 0 /\ completedTables = 0 /\ scan = NoScan /\ outcome = Running
      /\ \A t \in Table : Delivered(t) = {}
  BY InitCursors DEF Init, InitEngine, Schedule!Init
<1>2. DeliveredEntries = {}
  BY <1>1 DEF DeliveredEntries
<1>3. Cardinality(DeliveredEntries) = 0
  BY <1>2, FS_EmptySet
<1>4. advances * (TableCount + 1) = 0
  BY <1>1, SearchEngineAssumption
<1> QED  BY <1>1, <1>3, <1>4 DEF StepsInv

LEMMA EntriesAreBounded ==
  Cardinality(DeliveredEntries) \in Nat /\ Cardinality(DeliveredEntries) <= EntryCount * TableCount
<1>1. DeliveredEntries \subseteq Table \X Position
  BY DEF DeliveredEntries
<1>2. IsFiniteSet(Position) /\ Cardinality(Position) = EntryCount
  BY CursorScanAssumption, FS_Interval DEF Position
<1>3. IsFiniteSet(Table) /\ Cardinality(Table) = TableCount
  BY TablesAreFinite
<1>4. /\ IsFiniteSet(Table \X Position)
      /\ Cardinality(Table \X Position) = TableCount * EntryCount
  BY <1>2, <1>3, FS_Product
<1>5. TableCount * EntryCount = EntryCount * TableCount
  BY CursorScanAssumption, SearchEngineAssumption
<1> QED  BY <1>1, <1>4, <1>5, FS_Subset, CoveredIsFinite

LEMMA StepsAreBounded ==
  ASSUME ScheduleInv, StepsInv
  PROVE  StepsAreProductive
<1> DEFINE d == Cardinality(DeliveredEntries)
           m == EntryCount * TableCount
           w == advances * (TableCount + 1)
<1>1. /\ d \in Nat /\ d <= m /\ m \in Nat
  BY EntriesAreBounded, CursorScanAssumption, SearchEngineAssumption
<1>2. TableCount \in Nat /\ completedTables \in 0 .. TableCount /\ advances \in Nat
  BY ScheduleFacts, SearchEngineAssumption
<1>3. w \in Nat /\ (advances + 1) * (TableCount + 1) = w + (TableCount + 1)
  BY <1>2, OneWindowMore
<1>4. steps \in Nat /\ steps <= d + w + completedTables + 1
  <2>1. /\ steps \in Nat
        /\ steps <= d + w + completedTables + (IF scan # NoScan \/ outcome # Running THEN 1 ELSE 0)
    BY DEF StepsInv
  <2> HIDE DEF d, w
  <2> QED  BY <1>1, <1>2, <1>3, <2>1
<1> HIDE DEF d, w, m
<1>5. steps <= m + (w + (TableCount + 1))
  BY <1>1, <1>2, <1>3, <1>4
<1> QED  BY <1>3, <1>5 DEF StepsAreProductive, StepsNeeded, m

\* Every call of next() delivers an entry, completes a table's window or widens
\* it, whatever the indexes and the settings: no sequence of empty scans can eat
\* the step limit (the loop of search_impl_typed and DefaultQalshStrategy::next).
THEOREM StepsAreAlwaysProductive == Spec => []StepsAreProductive
<1>1. SearchInv /\ SearchInv' /\ ScheduleInv /\ ScheduleInv' /\ StepsInv /\ [Next]_vars => StepsInv'
  BY StepsPaidFor
<1>2. ScheduleInv /\ StepsInv => StepsAreProductive
  BY StepsAreBounded
<1> QED  BY <1>1, <1>2, InitSteps, SearchInvariance, ScheduleInvariance, PTL DEF Spec

-----------------------------------------------------------------------------
\* The list of the best as a ranking: a place is one more than the number of
\* better points, so the list is told by the set alone.
Rank(d, S, p) == 1 + Cardinality({q \in S : Nearer(d, q, p)})

LEMMA StartOfList ==
  ASSUME NEW d \in [Point -> Nat], NEW s \in Seq(Point), NEW m \in 0 .. Len(s),
         \A i, j \in 1 .. Len(s) : i < j => Nearer(d, s[i], s[j])
  PROVE  IsFiniteSet({s[j] : j \in 1 .. m}) /\ Cardinality({s[j] : j \in 1 .. m}) = m
<1> DEFINE f == [j \in 1 .. m |-> s[j]]
           T == {s[j] : j \in 1 .. m}
<1>1. Len(s) \in Nat /\ m \in Nat /\ m <= Len(s)
  BY LenProperties
<1>2. \A i \in 1 .. m : s[i] \in Point /\ i \in 1 .. Len(s)
  BY <1>1, ElementOfSeq
<1>3. \A i, j \in 1 .. m : s[i] = s[j] => i = j
  <2> SUFFICES ASSUME NEW i \in 1 .. m, NEW j \in 1 .. m, s[i] = s[j], i < j PROVE FALSE
    OBVIOUS
  <2>1. Nearer(d, s[i], s[j]) /\ s[i] \in Point
    BY <1>2
  <2> QED  BY <2>1, NearerIsTotalOrder
<1>4. f \in Bijection(1 .. m, T)
  <2>1. f \in [1 .. m -> T] /\ \A t \in T : \E j \in 1 .. m : f[j] = t
    OBVIOUS
  <2>2. \A i, j \in 1 .. m : f[i] = f[j] => i = j
    BY <1>3
  <2> HIDE DEF f, T
  <2> QED  BY <2>1, <2>2 DEF Bijection, Injection, Surjection, IsInjective
<1>5. IsFiniteSet(1 .. m) /\ Cardinality(1 .. m) = m
  BY <1>1, FS_Interval
<1> HIDE DEF f, T
<1>6. IsFiniteSet(T) /\ Cardinality(T) = m
  BY <1>4, <1>5, FS_Bijection DEF ExistsBijection
<1> QED  BY <1>6 DEF T

LEMMA RankIsPlace ==
  ASSUME NEW d \in [Point -> Nat], NEW k \in Nat, NEW S \in SUBSET Point, NEW s, IsBest(d, k, S, s)
  PROVE  \A i \in 1 .. Len(s) : s[i] \in S /\ Rank(d, S, s[i]) = i
<1> TAKE i \in 1 .. Len(s)
<1>1. /\ s \in Seq(Point) /\ Len(s) \in Nat
      /\ \A a, b \in 1 .. Len(s) : a < b => Nearer(d, s[a], s[b])
      /\ \A a \in 1 .. Len(s) : s[a] \in S /\ s[a] \in Point
  BY LenProperties, ElementOfSeq DEF IsBest
<1>2. {q \in S : Nearer(d, q, s[i])} = {s[j] : j \in 1 .. i - 1}
  <2>1. ASSUME NEW q \in S, Nearer(d, q, s[i]) PROVE \E j \in 1 .. i - 1 : s[j] = q
    <3>1. q \in Point /\ s[i] \in Point
      BY <1>1
    <3>2. ~Nearer(d, s[i], q)
      BY <2>1, <3>1, NearerIsTotalOrder
    <3>3. PICK j \in 1 .. Len(s) : s[j] = q
      BY <3>2 DEF IsBest
    <3>4. ~(i < j) /\ i # j
      BY <1>1, <2>1, <3>1, <3>2, <3>3, NearerIsTotalOrder
    <3> QED  BY <3>3, <3>4
  <2>2. ASSUME NEW j \in 1 .. i - 1 PROVE s[j] \in S /\ Nearer(d, s[j], s[i])
    <3>1. j \in 1 .. Len(s) /\ j < i
      BY <1>1
    <3> QED  BY <1>1, <3>1
  <2> QED  BY <2>1, <2>2
<1>3. Cardinality({s[j] : j \in 1 .. i - 1}) = i - 1
  <2>1. i - 1 \in 0 .. Len(s)
    BY <1>1
  <2> QED  BY <1>1, <2>1, StartOfList
<1>4. 1 + Cardinality({q \in S : Nearer(d, q, s[i])}) = i
  <2>1. i \in Int
    BY <1>1
  <2>2. Cardinality({q \in S : Nearer(d, q, s[i])}) = i - 1
    BY <1>2, <1>3
  <2> QED  BY <2>1, <2>2
<1> QED  BY <1>1, <1>4 DEF Rank

LEMMA RanksDiffer ==
  ASSUME NEW d \in [Point -> Nat], NEW S \in SUBSET Point, NEW p \in S, NEW q \in S,
         Rank(d, S, p) = Rank(d, S, q)
  PROVE  p = q
<1>1. ASSUME NEW x \in S, NEW y \in S, Nearer(d, x, y)
      PROVE  Rank(d, S, x) < Rank(d, S, y)
  <2> DEFINE X == {z \in S : Nearer(d, z, x)}
             Y == {z \in S : Nearer(d, z, y)}
  <2>1. IsFiniteSet(X) /\ IsFiniteSet(Y) /\ Cardinality(X) \in Nat /\ Cardinality(Y) \in Nat
    BY SeenIsFinite
  <2>2. x \notin X /\ X \cup {x} \subseteq Y
    <3>1. x \notin X
      BY NearerIsTotalOrder
    <3>2. \A z \in X : Nearer(d, z, y)
      BY <1>1, NearerIsTotalOrder
    <3> QED  BY <1>1, <3>1, <3>2
  <2> HIDE DEF X, Y
  <2>3. Cardinality(X \cup {x}) = Cardinality(X) + 1
    BY <2>1, <2>2, FS_AddElement
  <2>4. Cardinality(X \cup {x}) <= Cardinality(Y)
    BY <2>1, <2>2, FS_Subset
  <2>5. 1 + Cardinality(X) < 1 + Cardinality(Y)
    BY <2>1, <2>3, <2>4
  <2> QED  BY <2>5 DEF Rank, X, Y
<1>2. Rank(d, S, p) \in Nat
  <2>1. {z \in S : Nearer(d, z, p)} \in SUBSET Point
    OBVIOUS
  <2> QED  BY <2>1, SeenIsFinite DEF Rank
<1>3. p # q => Nearer(d, p, q) \/ Nearer(d, q, p)
  BY NearerIsTotalOrder
<1> QED  BY <1>1, <1>2, <1>3

LEMMA ListIsRanking ==
  ASSUME NEW d \in [Point -> Nat], NEW k \in Nat, NEW S \in SUBSET Point, NEW s, IsBest(d, k, S, s)
  PROVE  s = [i \in 1 .. Len(s) |-> CHOOSE p \in S : Rank(d, S, p) = i]
<1>1. \A i \in 1 .. Len(s) : s[i] \in S /\ Rank(d, S, s[i]) = i
  BY RankIsPlace
<1>2. s = [i \in 1 .. Len(s) |-> s[i]]
  BY LenProperties DEF IsBest
<1>3. ASSUME NEW i \in 1 .. Len(s)
      PROVE  s[i] = CHOOSE p \in S : Rank(d, S, p) = i
  <2>1. s[i] \in S /\ Rank(d, S, s[i]) = i
    BY <1>1
  <2>2. \A p \in S : Rank(d, S, p) = i => p = s[i]
    BY <2>1, RanksDiffer
  <2> QED  BY <2>1, <2>2
<1> QED  BY <1>2, <1>3

\* The k-th neighbour lies within a bound iff k evaluated points do.
LEMMA KthIsWithin ==
  ASSUME NEW d \in [Point -> Nat], NEW k \in Nat \ {0}, NEW S \in SUBSET Point, NEW s,
         IsBest(d, k, S, s), NEW r \in Nat
  PROVE  (Len(s) >= k /\ d[s[Len(s)]] <= r) <=> Cardinality({p \in S : d[p] <= r}) >= k
<1> DEFINE near == {p \in S : d[p] <= r}
<1>1. /\ s \in Seq(Point) /\ Len(s) \in Nat /\ Len(s) <= k
      /\ \A a, b \in 1 .. Len(s) : a < b => Nearer(d, s[a], s[b])
      /\ \A a \in 1 .. Len(s) : s[a] \in S /\ s[a] \in Point
  BY LenProperties, ElementOfSeq DEF IsBest
<1>2. IsFiniteSet(near) /\ Cardinality(near) \in Nat
  BY SeenIsFinite
<1>3. ASSUME Len(s) >= k, d[s[Len(s)]] <= r
      PROVE  Cardinality(near) >= k
  <2>1. Len(s) = k /\ k \in 1 .. Len(s) /\ s[k] \in Point
    BY <1>1, <1>3
  <2>2. \A j \in 1 .. k : s[j] \in near
    <3> TAKE j \in 1 .. k
    <3>1. j = k \/ Nearer(d, s[j], s[k])
      BY <1>1, <2>1
    <3>2. s[j] \in S /\ s[j] \in Point /\ d[s[j]] \in Nat /\ d[s[k]] \in Nat
      BY <1>1, <2>1
    <3>3. d[s[j]] <= d[s[k]]
      BY <3>1, <3>2 DEF Nearer
    <3> QED  BY <1>3, <2>1, <3>2, <3>3
  <2>3. {s[j] : j \in 1 .. k} \subseteq near
    BY <2>2
  <2>4. Cardinality({s[j] : j \in 1 .. k}) = k
    <3>1. k \in 0 .. Len(s)
      BY <1>1, <2>1
    <3> QED  BY <1>1, <3>1, StartOfList
  <2> HIDE DEF near
  <2> QED  BY <1>2, <2>3, <2>4, FS_Subset
<1>4. ASSUME ~(Len(s) >= k /\ d[s[Len(s)]] <= r)
      PROVE  Cardinality(near) < k
  <2> DEFINE m == IF Len(s) < k THEN Len(s) ELSE k - 1
             T == {s[j] : j \in 1 .. m}
  <2>1. m \in 0 .. Len(s) /\ m < k
    BY <1>1
  <2>2. near \subseteq T
    <3> SUFFICES ASSUME NEW p \in S, d[p] <= r PROVE \E j \in 1 .. m : s[j] = p
      OBVIOUS
    <3>1. CASE Len(s) < k
      BY <3>1 DEF IsBest
    <3>2. CASE Len(s) >= k
      <4>1. Len(s) = k /\ d[s[k]] > r /\ s[k] \in Point /\ k \in 1 .. Len(s) /\ m = k - 1
        BY <1>1, <1>4, <3>2
      <4>2. ~Nearer(d, s[k], p)
        <5>1. d[s[k]] \in Nat /\ d[p] \in Nat
          BY <4>1
        <5> QED  BY <4>1, <5>1 DEF Nearer
      <4>3. PICK j \in 1 .. Len(s) : s[j] = p
        BY <4>1, <4>2 DEF IsBest
      <4>4. j # k
        BY <4>1, <4>3
      <4> QED  BY <4>1, <4>3, <4>4
    <3> QED  BY <1>1, <3>1, <3>2
  <2>3. IsFiniteSet(T) /\ Cardinality(T) = m
    <3> HIDE DEF m
    <3> QED  BY <1>1, <2>1, StartOfList
  <2> HIDE DEF near, T, m
  <2> QED  BY <1>1, <1>2, <2>1, <2>2, <2>3, FS_Subset
<1> QED  BY <1>2, <1>3, <1>4

-----------------------------------------------------------------------------
\* The promise in the words of the search.
LEMMA SameNotions ==
  /\ Promise!Table = Table /\ Promise!Point = Point /\ Promise!Position = Position
  /\ Promise!Running = Running /\ Promise!Thrown = Thrown
  /\ \A S : Promise!Cardinality(S) = Cardinality(S)
  /\ \A a, b : Promise!SmallerOf(a, b) = SmallerOf(a, b)
  /\ \A table, query, i, b : Promise!Inside(table, query, i, b) <=> Inside(table, query, i, b)
  /\ \A p, q : Promise!Better(p, q) <=> Nearer(problem.distance, p, q)
<1>1. Promise!Table = Table /\ Promise!Point = Point /\ Promise!Position = Position
  BY DEF Promise!Table, Table, Promise!Point, Point, Promise!Position, Position
<1>2. Promise!Running = Running /\ Promise!Thrown = Thrown
  BY DEF Promise!Running, Running, Promise!Thrown, Thrown
<1>3. \A S : Promise!Cardinality(S) = Cardinality(S)
  BY DEF Promise!Cardinality, Cardinality
<1>4. \A a, b : Promise!SmallerOf(a, b) = SmallerOf(a, b)
  BY DEF Promise!SmallerOf, SmallerOf
<1>5. \A table, query, i, b : Promise!Inside(table, query, i, b) <=> Inside(table, query, i, b)
  BY DEF Promise!Inside, Inside, Promise!Difference, Difference
<1>6. \A p, q : Promise!Better(p, q) <=> Nearer(problem.distance, p, q)
  BY DEF Promise!Better, Nearer
<1> QED  BY <1>1, <1>2, <1>3, <1>4, <1>5, <1>6

CollidesIn(p, t) ==
    \E i \in Position :
        problem.points[t][i] = p /\ Inside(problem.values[t], problem.query[t], i, Bound)

LEMMA CollidingPoints ==
  Promise!Colliding =
    {p \in Point : Cardinality({t \in Table : CollidesIn(p, t)}) >= problem.threshold}
<1>1. \A p, t : Promise!CollidesIn(p, t) <=> CollidesIn(p, t)
  BY SameNotions DEF Promise!CollidesIn, CollidesIn, Bound, WindowBound
<1>2. \A p : {t \in Table : Promise!CollidesIn(p, t)} = {t \in Table : CollidesIn(p, t)}
  BY <1>1
<1> QED  BY <1>2, SameNotions DEF Promise!Colliding

LEMMA BudgetIsPromised ==
  SearchInv /\ ~problem.customTermination => (Promise!BudgetSpent <=> BudgetSpent(snapshot))
<1> SUFFICES ASSUME SearchInv, ~problem.customTermination
             PROVE  Promise!BudgetSpent <=> BudgetSpent(snapshot)
  OBVIOUS
<1>1. snapshot.evaluated = Cardinality(seen)
  BY DEF SearchInv, EngineInv, SnapshotIsFresh, LiveSnapshot, ResultsInv
<1>2. Promise!Budget = Budget
  BY SameNotions DEF Promise!Budget, Budget, StandardBudget
<1> QED  BY <1>1, <1>2, SameNotions DEF Promise!BudgetSpent, BudgetSpent

LEMMA GoodIsPromised ==
  SearchInv => (Promise!GoodEnough <=> GoodEnough(snapshot))
<1> SUFFICES ASSUME SearchInv PROVE Promise!GoodEnough <=> GoodEnough(snapshot)
  OBVIOUS
<1>1. snapshot.neighbors = neighbors /\ snapshot.radius = radius /\ radius \in Nat
  BY DEF SearchInv, EngineInv, CursorsInv, SnapshotIsFresh, LiveSnapshot
<1>2. /\ problem.distance \in [Point -> Nat] /\ problem.k \in Nat \ {0}
      /\ seen \in SUBSET Point /\ IsBest(problem.distance, problem.k, seen, neighbors)
      /\ problem.ratio \in Nat
  BY ProblemFacts, DefaultProblemsAssumption DEF SearchInv, ResultsInv, IsDefaultProblem
<1> DEFINE r == problem.ratio * radius
<1>3. r \in Nat
  BY <1>1, <1>2
<1> HIDE DEF r
<1>4. (Len(neighbors) >= problem.k /\ problem.distance[neighbors[Len(neighbors)]] <= r)
        <=> Cardinality({p \in seen : problem.distance[p] <= r}) >= problem.k
  BY <1>2, <1>3, KthIsWithin
<1> QED  BY <1>1, <1>4, SameNotions DEF Promise!GoodEnough, GoodEnough, r

\* The answers of should_terminate are the promise's.
AnswersArePromised ==
    /\ TRUE \in TerminationAnswers(snapshot) => problem.customTermination \/ Promise!Satisfied
    /\ FALSE \in TerminationAnswers(snapshot) => problem.customTermination \/ ~Promise!Satisfied

LEMMA PromisedAnswers == SearchInv => AnswersArePromised
BY BudgetIsPromised, GoodIsPromised
   DEF AnswersArePromised, TerminationAnswers, Promise!Satisfied

LEMMA PromisedAnswersNext == SearchInv' => AnswersArePromised'
BY PromisedAnswers, PTL

LEMMA NothingEvaluated ==
  ASSUME problem \in Problems, seen = {}
  PROVE  ~Promise!BudgetSpent /\ ~Promise!GoodEnough
<1>1. Promise!Cardinality(seen) = 0
  BY SameNotions, FS_EmptySet
<1>2. /\ problem.candidateBudget \in Nat \ {0} /\ problem.k \in Nat \ {0}
      /\ problem.budgetOverride \in (Nat \ {0}) \cup {NoBudget, Unset}
  BY ProblemFacts, DefaultProblemsAssumption DEF IsDefaultProblem
<1>3. Promise!Budget # NoBudget => Promise!Budget \in Nat \ {0}
  <2>1. SmallerOf(EntryCount, problem.candidateBudget + problem.k - 1) \in Nat \ {0}
    BY <1>2, CursorScanAssumption DEF SmallerOf
  <2> QED  BY <1>2, <2>1, SameNotions DEF Promise!Budget
<1>4. ~Promise!BudgetSpent
  BY <1>1, <1>3 DEF Promise!BudgetSpent
<1>5. {p \in seen : problem.distance[p] <= problem.ratio * radius} = {}
  OBVIOUS
<1>6. Promise!Cardinality({p \in seen : problem.distance[p] <= problem.ratio * radius}) = 0
  BY <1>5, SameNotions, FS_EmptySet
<1>7. ~Promise!GoodEnough
  BY <1>2, <1>6 DEF Promise!GoodEnough
<1> QED  BY <1>4, <1>7

\* The schedule and the engine keep the same ledger of the same boundaries.
SameLedgers == tableExhausted = exhausted /\ tableCompleted = roundComplete

LEMMA LedgersStaySame ==
  ASSUME CursorsInv, SameLedgers, Next \/ UNCHANGED vars
  PROVE  SameLedgers'
<1>1. CASE Boundary
  <2> DEFINE u == scan.table
             s == scan.result
  <2>1. /\ EndScan /\ Schedule!OnScanBoundary(u, s.windowExhausted, s.tableExhausted)
    BY <1>1 DEF Boundary
  <2>2. /\ tableExhausted' = [tableExhausted EXCEPT ![u] = @ \/ s.tableExhausted]
        /\ tableCompleted' = [tableCompleted EXCEPT ![u] = @ \/ (s.windowExhausted \/ s.tableExhausted)]
    BY <2>1 DEF Schedule!OnScanBoundary
  <2>3. /\ exhausted' = [exhausted EXCEPT ![u] = @ \/ s.tableExhausted]
        /\ roundComplete' = [roundComplete EXCEPT ![u] = @ \/ s.windowExhausted \/ s.tableExhausted]
    BY <2>1 DEF EndScan
  <2> HIDE DEF u, s
  <2> QED  BY <2>2, <2>3 DEF SameLedgers
<1>2. CASE Widen
  <2>1. AdvanceRadius /\ Schedule!OnRadiusAdvanced
    BY <1>2 DEF Widen
  <2> QED  BY <2>1 DEF AdvanceRadius, RoundCompleteAfterAdvance, Schedule!OnRadiusAdvanced, SameLedgers
<1>3. CASE Hit
  BY <1>3 DEF Hit, DeliverHit, ledgers, scheduleVars, SameLedgers
<1>4. CASE ServeTable
  BY <1>4 DEF ServeTable, BeginScan, ledgers, SameLedgers
<1>5. CASE WidenThrows \/ Stop
  <2>1. (AdvanceRadiusThrows \/ Finish) /\ UNCHANGED scheduleVars
    BY <1>5 DEF WidenThrows, Stop
  <2> QED  BY <2>1 DEF AdvanceRadiusThrows, Finish, ledgers, scheduleVars, SameLedgers
<1>6. CASE RunsOut \/ Aborts \/ UNCHANGED vars
  BY <1>6 DEF RunsOut, Aborts, StepLimit, CallbackThrows, vars, engineVars, strategyVars,
              scheduleVars, ledgers, SameLedgers
<1> QED  BY <1>1, <1>2, <1>3, <1>4, <1>5, <1>6 DEF Next, Progress

\* A search is stopped for a reason, and one that is checked after every
\* evaluation goes on for want of one, unless the window has just been widened.
StopInv ==
    outcome = Running =>
        /\ scan # NoScan => ~radiusAdvanced
        /\ finishRequested => problem.customTermination \/ Promise!Satisfied
        /\ ~finishRequested /\ Promise!Asked(problem.checkAfterEvaluation) =>
              /\ ~Promise!BudgetSpent
              /\ problem.checkAtRoundBoundary /\ ~radiusAdvanced => ~Promise!GoodEnough

LEMMA PromiseStays ==
  /\ problem' = problem /\ seen' = seen => (Promise!BudgetSpent' <=> Promise!BudgetSpent)
  /\ problem' = problem /\ seen' = seen /\ radius' = radius =>
        (Promise!GoodEnough' <=> Promise!GoodEnough)
BY DEF Promise!BudgetSpent, Promise!Budget, Promise!GoodEnough

\* What the answer to should_terminate, taken after a step, tells of the promise.
LEMMA AnswerNext ==
  ASSUME SearchInv', problem' = problem, NEW stop \in TerminationAnswers(snapshot')
  PROVE  /\ stop \in BOOLEAN
         /\ stop => problem.customTermination \/ Promise!Satisfied'
         /\ ~stop => problem.customTermination \/ ~Promise!Satisfied'
<1>1. AnswersArePromised'
  BY PromisedAnswersNext
<1>2. TerminationAnswers(snapshot)' = TerminationAnswers(snapshot')
  BY DEF TerminationAnswers, BudgetSpent, GoodEnough, Budget, StandardBudget
<1>3. stop \in BOOLEAN
  BY DEF TerminationAnswers, BudgetSpent, GoodEnough
<1> QED  BY <1>1, <1>2, <1>3 DEF AnswersArePromised

LEMMA StopKept ==
  ASSUME SearchInv, SearchInv', StopInv, Next \/ UNCHANGED vars
  PROVE  StopInv'
<1> SUFFICES ASSUME outcome' = Running PROVE StopInv'
  BY DEF StopInv
<1>1. CASE Hit
  <2>1. PICK candidate \in HitDecisions :
           /\ HitsToCome /\ DeliverHit(candidate) /\ radiusAdvanced' = radiusAdvanced
           /\ IF candidate # NoCandidate /\ problem.checkAfterEvaluation
                THEN \E stop \in TerminationAnswers(snapshot') :
                       finishRequested' = (finishRequested \/ stop)
                ELSE finishRequested' = finishRequested
    BY <1>1 DEF Hit
  <2>2. /\ problem' = problem /\ radius' = radius /\ outcome = Running /\ scan # NoScan
    BY <2>1, <1>1 DEF DeliverHit, HitsToCome
  <2>3. ~radiusAdvanced'
    BY <2>1, <2>2 DEF StopInv
  <2>4. CASE candidate = NoCandidate
    <3>1. seen' = seen /\ finishRequested' = finishRequested
      BY <2>1, <2>4 DEF DeliverHit, results
    <3> QED  BY <2>1, <2>2, <2>3, <3>1, PromiseStays DEF StopInv, Promise!Satisfied, Promise!Asked
  <2>5. CASE candidate # NoCandidate
    <3>1. ~finishRequested
      BY <2>1, <2>5 DEF HitDecisions, StillAccepting
    <3>2. CASE problem.checkAfterEvaluation
      <4>1. PICK stop \in TerminationAnswers(snapshot') : finishRequested' = (finishRequested \/ stop)
        BY <2>1, <2>5, <3>2
      <4>2. /\ stop \in BOOLEAN
            /\ stop => problem.customTermination \/ Promise!Satisfied'
            /\ ~stop => problem.customTermination \/ ~Promise!Satisfied'
        BY <2>2, AnswerNext
      <4> QED  BY <2>2, <2>3, <3>1, <4>1, <4>2 DEF StopInv, Promise!Satisfied, Promise!Asked
    <3>3. CASE ~problem.checkAfterEvaluation
      BY <2>1, <2>2, <2>3, <3>1, <3>3 DEF StopInv, Promise!Asked
    <3> QED  BY <3>2, <3>3
  <2> QED  BY <2>4, <2>5
<1>2. CASE Boundary
  <2>1. /\ problem' = problem /\ radius' = radius /\ seen' = seen /\ outcome = Running
        /\ scan # NoScan /\ scan' = NoScan /\ radiusAdvanced' = radiusAdvanced
    BY <1>2 DEF Boundary, EndScan, results
  <2>2. \/ finishRequested' = finishRequested
        \/ ~finishRequested /\ \E stop \in TerminationAnswers(snapshot') : finishRequested' = stop
    BY <1>2 DEF Boundary
  <2>3. CASE finishRequested' = finishRequested
    BY <2>1, <2>3, PromiseStays DEF StopInv, Promise!Satisfied, Promise!Asked
  <2>4. CASE ~finishRequested /\ \E stop \in TerminationAnswers(snapshot') : finishRequested' = stop
    <3>1. finishRequested' => problem.customTermination \/ Promise!Satisfied'
      BY <2>1, <2>4, AnswerNext
    <3> QED  BY <2>1, <2>4, <3>1, PromiseStays DEF StopInv, Promise!Satisfied, Promise!Asked
  <2> QED  BY <2>2, <2>3, <2>4
<1>3. CASE ServeTable
  <2>1. /\ problem' = problem /\ radius' = radius /\ seen' = seen /\ outcome = Running
        /\ radiusAdvanced' = FALSE /\ finishRequested' = finishRequested
        /\ FALSE \in StopNow
    BY <1>3 DEF ServeTable, BeginScan, NextIsCalled, results
  <2>2. ~finishRequested
    BY <2>1 DEF StopNow
  <2>3. radiusAdvanced /\ problem.checkAtRoundBoundary =>
           problem.customTermination \/ ~Promise!Satisfied
    BY <2>1, <2>2, PromisedAnswers DEF StopNow, AnswersArePromised
  <2> QED  BY <2>1, <2>2, <2>3, PromiseStays DEF StopInv, Promise!Satisfied, Promise!Asked
<1>4. CASE Widen
  <2>1. AdvanceRadius /\ radiusAdvanced' = TRUE /\ finishRequested' = finishRequested
        /\ FALSE \in StopNow
    BY <1>4 DEF Widen
  <2>2. /\ problem' = problem /\ seen' = seen /\ outcome = Running /\ scan' = NoScan
    BY <2>1 DEF AdvanceRadius, NextIsCalled, results
  <2>3. ~finishRequested
    BY <2>1 DEF StopNow
  <2> QED  BY <2>1, <2>2, <2>3, PromiseStays DEF StopInv, Promise!Asked
<1>5. CASE WidenThrows \/ Stop \/ RunsOut \/ Aborts
  <2>1. outcome' # Running
    <3>1. CASE WidenThrows
      BY <3>1 DEF WidenThrows, AdvanceRadiusThrows, Running, Thrown
    <3>2. CASE Stop
      BY <3>2 DEF Stop, Finish, Running, Return
    <3>3. CASE RunsOut \/ Aborts
      BY <3>3 DEF RunsOut, StepLimit, Running, Return, Aborts, CallbackThrows, Running, Thrown
    <3> QED  BY <1>5, <3>1, <3>2, <3>3
  <2> QED  BY <2>1
<1>6. CASE UNCHANGED vars
  <2>1. /\ UNCHANGED <<problem, radius, seen, outcome, scan, radiusAdvanced, finishRequested>>
    BY <1>6 DEF vars, engineVars, strategyVars, results
  <2> QED  BY <2>1, PromiseStays DEF StopInv, Promise!Satisfied, Promise!Asked
<1> QED  BY <1>1, <1>2, <1>3, <1>4, <1>5, <1>6 DEF Next, Progress

\* What a scan delivers lies inside the window.
LEMMA PassedIsInside ==
  ASSUME CursorsInv, scan # NoScan, NEW i \in Position,
         \E j \in 1 .. Len(scan.result.hits) : scan.result.hits[j] = i
  PROVE  /\ scan.table \in Table
         /\ Inside(problem.values[scan.table], problem.query[scan.table], i, Bound)
<1> DEFINE u == scan.table
           c == cursors[u]
           e == scan.result.cursor
<1>1. /\ u \in Table /\ ScanPromise(u, scan.result)
  BY DEF CursorsInv, ScanIsSound, ScanRecord
<1>2. /\ WellPlaced(problem.values[u], e) /\ e.query = c.query /\ e.lastBound = Bound
      /\ e.left <= c.left /\ e.right >= c.right /\ Passed(c, e, i)
  BY <1>1 DEF ScanPromise
<1>3. c.query = problem.query[u] /\ c.left < c.right /\ c \in CursorRecord /\ e \in CursorRecord
  BY <1>1, <1>2 DEF CursorsInv, CursorIsSound, WellPlaced
<1>4. /\ c.left \in Int /\ c.right \in Int /\ e.left \in Int /\ e.right \in Int /\ i \in Int
  BY <1>3 DEF CursorRecord, Position
<1> HIDE DEF c, e
<1>5. i \in e.left + 1 .. e.right - 1
  BY <1>2, <1>3, <1>4 DEF Passed
<1> QED  BY <1>1, <1>2, <1>3, <1>5 DEF WellPlaced

LEMMA MetIsInside ==
  ASSUME CursorsInv, NEW t \in Table, NEW i \in Position, MetAt(t, i)
  PROVE  Inside(problem.values[t], problem.query[t], i, Bound)
<1>1. CASE i \in Delivered(t)
  <2> DEFINE c == cursors[t]
  <2>1. /\ WellPlaced(problem.values[t], c) /\ c.query = problem.query[t] /\ c.lastBound <= Bound
        /\ c \in CursorRecord /\ IsSortedTable(problem.values[t]) /\ problem.query[t] \in Int
    BY ProblemFacts DEF CursorsInv, CursorIsSound, WellPlaced
  <2>2. Inside(problem.values[t], problem.query[t], i, c.lastBound)
    BY <1>1, <2>1 DEF WellPlaced, Delivered
  <2>3. c.lastBound \in Int /\ Bound \in Int
    BY <2>1, WindowBoundGrows DEF CursorRecord, Unbounded, CursorsInv, Bound
  <2> HIDE DEF c
  <2> QED  BY <2>1, <2>2, <2>3, InsideIsMonotone
<1>2. CASE Scanning = t /\ i \in DeliveredInFlight
  <2>1. scan # NoScan /\ \E j \in 1 .. scan.delivered : scan.result.hits[j] = i
    BY <1>2 DEF DeliveredInFlight
  <2>2. scan.table = t
    BY <1>2, <2>1 DEF Scanning
  <2>3. \E j \in 1 .. Len(scan.result.hits) : scan.result.hits[j] = i
    <3>1. /\ scan.delivered \in Nat /\ scan.delivered <= Len(scan.result.hits)
          /\ Len(scan.result.hits) \in Nat
      BY <2>1, LenProperties DEF CursorsInv, ScanIsSound, ScanRecord
    <3> QED  BY <2>1, <3>1
  <2> QED  BY <2>1, <2>2, <2>3, PassedIsInside
<1> QED  BY <1>1, <1>2 DEF MetAt

\* The list of neighbours is the promised answer.
LEMMA AnswerIsBest ==
  ASSUME ResultsInv
  PROVE  Promise!BestOf(seen) = neighbors
<1> DEFINE rank(p) == 1 + Promise!Cardinality({q \in seen : Promise!Better(q, p)})
<1>1. /\ problem.distance \in [Point -> Nat] /\ problem.k \in Nat /\ seen \in SUBSET Point
      /\ IsBest(problem.distance, problem.k, seen, neighbors)
  BY ProblemFacts DEF ResultsInv
<1>2. \A p : rank(p) = Rank(problem.distance, seen, p)
  <2> TAKE p
  <2>1. {q \in seen : Promise!Better(q, p)} = {q \in seen : Nearer(problem.distance, q, p)}
    BY SameNotions
  <2> QED  BY <2>1, SameNotions DEF Rank
<1>3. neighbors =
        [i \in 1 .. Len(neighbors) |-> CHOOSE p \in seen : Rank(problem.distance, seen, p) = i]
  BY <1>1, ListIsRanking
<1>4. Promise!BestOf(seen) = [i \in 1 .. Len(neighbors) |-> CHOOSE p \in seen : rank(p) = i]
  <2>1. Len(neighbors) = Promise!SmallerOf(problem.k, Promise!Cardinality(seen))
    BY SameNotions DEF ResultsInv
  <2> QED  BY <2>1 DEF Promise!BestOf
<1> DEFINE promised(i) == CHOOSE p \in seen : rank(p) = i
           found(i) == CHOOSE p \in seen : Rank(problem.distance, seen, p) = i
<1>5. \A i : promised(i) = found(i)
  BY <1>2
<1>6. /\ neighbors = [i \in 1 .. Len(neighbors) |-> found(i)]
      /\ Promise!BestOf(seen) = [i \in 1 .. Len(neighbors) |-> promised(i)]
  BY <1>3, <1>4
<1> HIDE DEF promised, found
<1> QED  BY <1>5, <1>6

LEMMA MetOfNext ==
  ASSUME problem' = problem, NEW p
  PROVE  Met(p)' = {t \in Table : \E i \in Position : problem.points[t][i] = p /\ MetAt(t, i)'}
BY DEF Met, MetAt

\* An accepted hit is an evaluation the promise allows; any other step of a scan
\* is none of its business.
LEMMA HitIsPromised ==
  ASSUME SearchInv, CollisionInv', StopInv, Hit
  PROVE  Promise!Next \/ UNCHANGED Promise!vars
<1> DEFINE u == scan.table
           x == scan.result.hits[scan.delivered + 1]
<1>1. PICK candidate \in HitDecisions : HitsToCome /\ DeliverHit(candidate)
  BY DEF Hit
<1>2. /\ problem' = problem /\ radius' = radius /\ outcome' = outcome /\ outcome = Running
      /\ scan # NoScan
  BY <1>1 DEF DeliverHit, HitsToCome
<1>3. CursorsInv
  BY DEF SearchInv, EngineInv
<1>4. CASE candidate = NoCandidate \/ candidate \in seen
  <2>1. seen' = seen
    BY <1>1, <1>4 DEF DeliverHit, EvaluateCandidate, results
  <2> QED  BY <1>2, <2>1 DEF Promise!vars
<1>5. CASE candidate # NoCandidate /\ candidate \notin seen
  <2> DEFINE h == candidate
  <2>1. h = HitPoint /\ ~finishRequested
    BY <1>1, <1>5 DEF HitDecisions, StillAccepting
  <2>2. seen' = seen \cup {h} /\ h \notin seen
    BY <1>1, <1>5 DEF DeliverHit, EvaluateCandidate
  <2>3. h \in Point /\ u \in Table /\ x \in Position /\ h = problem.points[u][x]
        /\ scan.delivered + 1 \in 1 .. Len(scan.result.hits)
    BY <1>1, <1>2, <1>3, <2>1, HitIsPoint DEF ScanRecord, HitPoint
  <2>4. Promise!Asked(problem.checkAfterEvaluation) => ~Promise!BudgetSpent
    BY <1>2, <2>1 DEF StopInv
  <2>5. Promise!Asked(problem.checkAfterEvaluation /\ problem.checkAtRoundBoundary) =>
           ~Promise!Satisfied
    BY <1>2, <2>1 DEF StopInv, Promise!Asked, Promise!Satisfied
  <2>6. problem.customCandidates \/ h \in Promise!Colliding
    <3> SUFFICES ASSUME ~problem.customCandidates
                 PROVE  Cardinality({t \in Table : CollidesIn(h, t)}) >= problem.threshold
      BY <2>3, CollidingPoints
    <3> DEFINE T == {t \in Table : CollidesIn(h, t)}
    <3>1. \A t \in Table, i \in Position : MetAt(t, i)' <=> MetAt(t, i) \/ (t = u /\ i = x)
      BY <1>1, <1>3, HitMeetsItsEntry
    <3>2. Inside(problem.values[u], problem.query[u], x, Bound)
      BY <1>2, <1>3, <2>3, PassedIsInside
    <3>3. ASSUME NEW t \in Table, NEW i \in Position, MetAt(t, i)'
          PROVE  Inside(problem.values[t], problem.query[t], i, Bound)
      BY <1>3, <3>1, <3>2, <3>3, MetIsInside
    <3> HIDE DEF h, u, x
    <3>4. Met(h)' \subseteq T
      <4> SUFFICES ASSUME NEW t \in Table, NEW i \in Position, problem.points[t][i] = h, MetAt(t, i)'
                   PROVE  t \in T
        BY <1>2, MetOfNext
      <4> QED  BY <3>3 DEF CollidesIn
    <3>5. Cardinality(Met(h)') >= problem.threshold
      BY <1>2, <2>2 DEF CollisionInv
    <3>6. IsFiniteSet(T) /\ Cardinality(T) \in Nat /\ Cardinality(Met(h)') \in Nat
          /\ problem.threshold \in Nat
      BY <1>3, <3>4, TablesAreFinite, DefaultProblemFacts DEF CursorsInv
    <3> HIDE DEF T
    <3>7. Cardinality(Met(h)') <= Cardinality(T)
      BY <3>4, <3>6, FS_Subset
    <3>8. Cardinality(T) >= problem.threshold
      BY <3>5, <3>6, <3>7
    <3> QED  BY <3>8 DEF T
  <2>7. Promise!Evaluate(h)
    BY <1>2, <2>2, <2>4, <2>5, <2>6, SameNotions DEF Promise!Evaluate
  <2> QED  BY <2>3, <2>7, SameNotions DEF Promise!Next
<1> QED  BY <1>4, <1>5

\* An empty queue ends the round: everything inside the window is delivered.
LEMMA EmptyQueueEndsRound ==
  ASSUME SearchInv, SameLedgers, ScheduleInv, scan = NoScan, pendingTables = <<>>
  PROVE  /\ \A t \in Table : roundComplete[t]
         /\ snapshot.roundComplete
<1>1. ScheduleProofs!Table = Table
  BY DEF ScheduleProofs!Table, Table
<1>2. \A t \in Table : ~tableCompleted[t] => t = Scanning \/ \E i \in DOMAIN pendingTables : pendingTables[i] = t
  BY <1>1 DEF ScheduleInv, ScheduleProofs!IInv, ScheduleProofs!QueueIsIncompleteTables
<1>3. \A t \in Table : roundComplete[t]
  BY <1>2, ScheduleAssumption DEF Scanning, SameLedgers
<1>4. {t \in Table : roundComplete[t]} = Table
  BY <1>3
<1>5. completedCount = TableCount
  BY <1>4, TablesAreFinite DEF SearchInv, EngineInv, LedgersMatchCursors
<1> QED  BY <1>3, <1>5 DEF SearchInv, EngineInv, SnapshotIsFresh, LiveSnapshot

LEMMA CollidingAreEvaluated ==
  ASSUME SearchInv, SameLedgers, ScheduleInv, CollisionInv, scan = NoScan, pendingTables = <<>>,
         ~finishRequested, ~problem.customCandidates
  PROVE  Promise!Colliding \subseteq seen
<1> SUFFICES ASSUME NEW p \in Point, Cardinality({t \in Table : CollidesIn(p, t)}) >= problem.threshold
             PROVE  p \in seen
  BY CollidingPoints
<1> DEFINE T == {t \in Table : CollidesIn(p, t)}
<1>1. T \subseteq Met(p)
  <2> SUFFICES ASSUME NEW t \in Table, CollidesIn(p, t) PROVE t \in Met(p)
    OBVIOUS
  <2>1. PICK i \in Position : /\ problem.points[t][i] = p
                              /\ Inside(problem.values[t], problem.query[t], i, Bound)
    BY DEF CollidesIn
  <2>2. i \in Delivered(t)
    BY <2>1, EmptyQueueEndsRound DEF SearchInv, EngineInv, LedgersMatchCursors
  <2> QED  BY <2>1, <2>2 DEF Met
<1>2. /\ IsFiniteSet(Met(p)) /\ Cardinality(Met(p)) \in Nat /\ Cardinality(T) \in Nat
      /\ problem.threshold \in Nat
  BY TablesAreFinite, DefaultProblemFacts DEF Met, SearchInv, EngineInv, CursorsInv
<1>3. Cardinality(T) >= problem.threshold
  OBVIOUS
<1> HIDE DEF T
<1>4. Cardinality(T) <= Cardinality(Met(p))
  BY <1>1, <1>2, FS_Subset
<1>5. Cardinality(Met(p)) >= problem.threshold
  BY <1>2, <1>3, <1>4
<1> QED  BY <1>5 DEF CollisionInv

\* The window is widened only when the promise allows it.
LEMMA WidenIsPromised ==
  ASSUME SearchInv, SameLedgers, ScheduleInv, CollisionInv, Widen
  PROVE  Promise!Widen
<1>1. /\ AdvanceRadius /\ FALSE \in StopNow /\ FALSE \in StopAtRoundEnd /\ pendingTables = <<>>
  BY DEF Widen, Schedule!HasPending
<1>2. /\ outcome = Running /\ scan = NoScan
      /\ problem' = problem /\ seen' = seen /\ outcome' = outcome
      /\ radius' = radius * RadiusGrowth /\ radius' <= MaxFloat
  BY <1>1 DEF AdvanceRadius, NextIsCalled, RadiusCanGrow, NextRadius, results
<1>3. ~finishRequested
  BY <1>1 DEF StopNow
<1>4. problem.customCandidates \/ Promise!Colliding \subseteq seen
  BY <1>1, <1>2, <1>3, CollidingAreEvaluated
<1>5. Promise!Asked(problem.checkAtRoundBoundary) => ~Promise!Satisfied
  <2>1. problem.checkAtRoundBoundary => FALSE \in TerminationAnswers(snapshot)
    BY <1>1, <1>2, EmptyQueueEndsRound DEF StopAtRoundEnd
  <2> QED  BY <2>1, PromisedAnswers DEF AnswersArePromised, Promise!Asked
<1> QED  BY <1>2, <1>4, <1>5, SameNotions DEF Promise!Widen

\* When nothing is left to scan, every point has been met in every table.
LEMMA NothingLeftMeansAllSeen ==
  ASSUME SearchInv, CollisionInv, exhaustedCount = TableCount, ~finishRequested,
         ~problem.customCandidates
  PROVE  seen = Point
<1>1. DeliveredEntries = Table \X Position
  BY AllExhausted DEF SearchInv, EngineInv
<1>2. problem \in Problems /\ seen \subseteq Point
  BY DEF SearchInv, ResultsInv
<1>3. ASSUME NEW p \in Point PROVE p \in seen
  <2>1. ASSUME NEW t \in Table PROVE t \in Met(p)
    <3>1. PICK i \in Position : problem.points[t][i] = p
      BY <1>2, ProblemsAssumption DEF IsProblem
    <3>2. <<t, i>> \in DeliveredEntries
      BY <1>1
    <3> QED  BY <3>1, <3>2 DEF Met, DeliveredEntries
  <2>2. Met(p) = Table
    BY <2>1 DEF Met
  <2>3. Cardinality(Met(p)) = TableCount
    BY <2>2, TablesAreFinite
  <2>4. TableCount >= problem.threshold
    BY <1>2, DefaultProblemFacts, SearchEngineAssumption
  <2> QED  BY <2>3, <2>4 DEF CollisionInv
<1> QED  BY <1>2, <1>3

LEMMA StopIsJustified ==
  ASSUME SearchInv, SameLedgers, ScheduleInv, CollisionInv, StopInv, Stop
  PROVE  Promise!Justified
<1>1. outcome = Running
  BY DEF Stop, Finish, NextIsCalled
<1>2. CASE finishRequested
  BY <1>1, <1>2 DEF StopInv, Promise!Justified
<1>3. CASE ~finishRequested /\ TRUE \in TerminationAnswers(snapshot)
  BY <1>3, PromisedAnswers DEF AnswersArePromised, Promise!Justified
<1>4. CASE /\ ~finishRequested
           /\ exhaustedTables = TableCount \/ snapshot.allTablesExhausted
  <2>1. exhaustedTables = exhaustedCount
    <3>1. ScheduleProofs!Table = Table /\ \A S : ScheduleProofs!Cardinality(S) = Cardinality(S)
      BY DEF ScheduleProofs!Table, Table, ScheduleProofs!Cardinality, Cardinality
    <3>2. exhaustedTables = Cardinality({t \in Table : tableExhausted[t]})
      BY <3>1 DEF ScheduleInv, ScheduleProofs!IInv, ScheduleProofs!LedgerAgrees
    <3> QED  BY <3>2 DEF SearchInv, EngineInv, LedgersMatchCursors, SameLedgers
  <2>2. exhaustedCount = TableCount
    BY <1>4, <2>1 DEF SearchInv, EngineInv, SnapshotIsFresh, LiveSnapshot
  <2>3. problem.customCandidates \/ seen = Point
    BY <1>4, <2>2, NothingLeftMeansAllSeen
  <2> QED  BY <2>3, SameNotions DEF Promise!Justified
<1>5. finishRequested \/ TRUE \in TerminationAnswers(snapshot)
        \/ exhaustedTables = TableCount \/ snapshot.allTablesExhausted
  BY DEF Stop, StopNow, StopAtRoundEnd, Schedule!AllTablesExhausted
<1> QED  BY <1>2, <1>3, <1>4, <1>5

\* What a search that is not thrown out returns.
LEMMA ReturnIsPromised ==
  ASSUME SearchInv, outcome = Running, scan = NoScan,
         NEW reason \in {"strategy", "scan_exhausted", "step_limit"},
         reason # "step_limit" => Promise!Justified,
         Return(reason), UNCHANGED <<problem, radius, seen>>
  PROVE  Promise!Return
<1>1. /\ evaluated = Promise!Cardinality(seen) /\ evaluated \in Nat
      /\ Len(neighbors) = SmallerOf(problem.k, evaluated)
  BY SameNotions, SeenIsFinite DEF SearchInv, ResultsInv
<1>2. problem.k \in Nat
  BY ProblemFacts DEF SearchInv, ResultsInv
<1>3. Promise!BestOf(seen) = neighbors
  BY AnswerIsBest DEF SearchInv
<1>4. hits \in 0 .. TableCount * EntryCount
  <2>1. hits = Cardinality(DeliveredEntries)
    BY DEF SearchInv, EngineInv, LedgersMatchCursors
  <2> HIDE DEF DeliveredEntries
  <2>2. EntryCount * TableCount = TableCount * EntryCount /\ TableCount * EntryCount \in Int
    BY CursorScanAssumption, SearchEngineAssumption
  <2> QED  BY <2>1, <2>2, EntriesAreBounded
<1>5. (Len(neighbors) = problem.k /\ reason \in {"strategy", "scan_exhausted"})
         = (reason # "step_limit" /\ Promise!Cardinality(seen) >= problem.k)
  <2>1. Len(neighbors) = problem.k <=> evaluated >= problem.k
    BY <1>1, <1>2 DEF SmallerOf
  <2> QED  BY <1>1, <2>1
<1>6. outcome' = [reason |-> reason, neighbors |-> Promise!BestOf(seen),
                  evaluated |-> Promise!Cardinality(seen), hits |-> hits,
                  complete |-> /\ reason # "step_limit"
                               /\ Promise!Cardinality(seen) >= problem.k]
  BY <1>1, <1>3, <1>5 DEF Return
<1> HIDE DEF Return
<1> QED  BY <1>4, <1>6, SameNotions DEF Promise!Return

\* Every step is a step of the promise or none of its business.
LEMMA StepIsPromised ==
  ASSUME SearchInv, CollisionInv, CollisionInv', StopInv, SameLedgers, ScheduleInv,
         Next \/ UNCHANGED vars
  PROVE  Promise!Next \/ UNCHANGED Promise!vars
<1>1. CASE Hit
  BY <1>1, HitIsPromised
<1>2. CASE Boundary \/ ServeTable
  <2>1. EndScan \/ \E t : BeginScan(t, "quantum")
    BY <1>2 DEF Boundary, ServeTable
  <2> QED  BY <2>1 DEF EndScan, BeginScan, results, Promise!vars
<1>3. CASE Widen
  BY <1>3, WidenIsPromised DEF Promise!Next
<1>4. CASE WidenThrows \/ Aborts
  <2>1. AdvanceRadiusThrows \/ CallbackThrows
    BY <1>4 DEF WidenThrows, Aborts
  <2>2. /\ outcome = Running /\ outcome' = Thrown
        /\ UNCHANGED <<problem, radius, seen>>
    BY <2>1 DEF AdvanceRadiusThrows, CallbackThrows, NextIsCalled, results
  <2> QED  BY <2>2, SameNotions DEF Promise!Throw, Promise!Next
<1>5. CASE Stop
  <2> DEFINE reason == IF ScansExhausted THEN "scan_exhausted" ELSE "strategy"
  <2>1. /\ outcome = Running /\ scan = NoScan /\ Return(reason)
        /\ UNCHANGED <<problem, radius, seen>>
    BY <1>5 DEF Stop, Finish, NextIsCalled, results
  <2>2. reason \in {"strategy", "scan_exhausted", "step_limit"}
    OBVIOUS
  <2>3. Promise!Justified
    BY <1>5, StopIsJustified
  <2> HIDE DEF reason
  <2> QED  BY <2>1, <2>2, <2>3, ReturnIsPromised DEF Promise!Next
<1>6. CASE RunsOut
  <2>1. /\ outcome = Running /\ scan = NoScan /\ Return("step_limit")
        /\ UNCHANGED <<problem, radius, seen>>
    BY <1>6 DEF RunsOut, StepLimit, results
  <2> QED  BY <2>1, ReturnIsPromised DEF Promise!Next
<1>7. CASE UNCHANGED vars
  BY <1>7 DEF vars, engineVars, results, Promise!vars
<1> QED  BY <1>1, <1>2, <1>3, <1>4, <1>5, <1>6, <1>7 DEF Next, Progress

LEMMA InitPromise == Init => StopInv /\ SameLedgers /\ Promise!Init
<1> SUFFICES ASSUME Init PROVE StopInv /\ SameLedgers /\ Promise!Init
  OBVIOUS
<1>1. /\ problem \in Problems /\ radius = InitialRadius /\ seen = {} /\ outcome = Running
      /\ scan = NoScan /\ ~finishRequested /\ ~radiusAdvanced
      /\ exhausted = [t \in Table |-> FALSE] /\ roundComplete = [t \in Table |-> FALSE]
  BY DEF Init, InitEngine
<1>2. StopInv
  BY <1>1, NothingEvaluated DEF StopInv
<1>3. SameLedgers
  BY <1>1, SameCounting DEF Init, Schedule!Init, SameLedgers
<1>4. Promise!Init
  BY <1>1, SameNotions DEF Promise!Init
<1> QED  BY <1>2, <1>3, <1>4

\* A search by the default strategy keeps the promise of Search.tla at every
\* step, for every index, query and setting: it evaluates only points that
\* collide in enough tables, widens only when all of them are evaluated, stops
\* only for a reason, and answers with the k best points evaluated (next and the
\* callbacks of DefaultQalshStrategy in search_impl_typed).
THEOREM SearchImplementsPromise == Spec => ImplementsSearch
<1>1. SearchInv /\ SearchInv' /\ StopInv /\ [Next]_vars => StopInv'
  BY StopKept
<1>2. SearchInv /\ SameLedgers /\ [Next]_vars => SameLedgers'
  BY LedgersStaySame DEF SearchInv, EngineInv
<1>3. Spec => []SameLedgers
  BY <1>2, InitPromise, SearchInvariance, PTL DEF Spec
<1>4. Spec => []StopInv
  BY <1>1, InitPromise, SearchInvariance, PTL DEF Spec
<1>5. /\ SearchInv /\ CollisionInv /\ CollisionInv' /\ StopInv /\ SameLedgers /\ ScheduleInv
      /\ [Next]_vars
      => [Promise!Next]_(Promise!vars)
  BY StepIsPromised
<1> QED  BY <1>3, <1>4, <1>5, InitPromise, SearchInvariance, CollisionInvariance,
            ScheduleInvariance, PTL
         DEF Spec, ImplementsSearch, Promise!Spec
=============================================================================
