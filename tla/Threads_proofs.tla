--------------------------- MODULE Threads_proofs ---------------------------
(***************************************************************************)
(* What threads of the library share, and what each has of its own.        *)
(*                                                                         *)
(* SortTables leaves the tables sorted and untouched, for every number of  *)
(* tables and of requested threads, whichever thread cannot be started.    *)
(* Neither property is inductive: that a new claim is free follows from    *)
(* all claimed and sorted tables lying below the counter, and that nothing *)
(* is unsorted at the end from no table below it being forgotten.          *)
(*                                                                         *)
(* QueryScratch: what a thread keeps between its searches never shows, for *)
(* every epoch width, any nesting and any life and death of indexes.  The  *)
(* inductive invariant adds what holds of a scratch while nobody uses it:  *)
(* no mark is above its epoch, and its cursors were made by the object its *)
(* weak pointer remembers.                                                 *)
(***************************************************************************)
EXTENDS QueryScratch, SortTables, WellFoundedInduction, TLAPS

-----------------------------------------------------------------------------
(* Reused scratch.                                                          *)

\* A nonempty set of naturals has a least element; the library's principle is
\* about an operator, this one is about a set and can be cited.
LEMMA LeastNatural ==
  ASSUME NEW T \in SUBSET Nat, T # {}
  PROVE  \E x \in T : \A y \in T : x <= y
<1> DEFINE below == {p \in Nat \X Nat : p[1] < p[2]}
<1>1. IsWellFoundedOn(below, Nat)
  <2>1. OpToRel(<, Nat) = below
    BY DEF OpToRel
  <2> QED  BY <2>1, NatLessThanWellFounded
<1>2. PICK x \in T : \A y \in T : ~ (<<y, x>> \in below)
  <2> HIDE DEF below
  <2> QED  BY <1>1, WFMin
<1>3. \A y \in T : ~(y < x)
  BY <1>2
<1> QED  BY <1>3

\* A counter of k values wraps around to zero after k - 1.
LEMMA CounterWraps ==
  ASSUME NEW k \in Nat \ {0}, NEW x \in 0 .. k - 1
  PROVE  (x + 1) % k = IF x + 1 = k THEN 0 ELSE x + 1
<1> DEFINE d == (x + 1) \div k
           r == (x + 1) % k
<1>1. d \in Nat /\ r \in 0 .. k - 1
  OBVIOUS
<1>2. x + 1 = (d * k) + r
  OBVIOUS
<1> HIDE DEF d, r
<1>3. CASE x + 1 = k
  <2>1. d # 0
    BY <1>1, <1>2, <1>3
  <2>2. d >= 1 => d * k >= k
    BY <1>1
  <2> QED  BY <1>1, <1>2, <1>3, <2>1, <2>2 DEF r
<1>4. CASE x + 1 # k
  <2>1. d >= 1 => d * k >= k
    BY <1>1
  <2>2. d = 0
    BY <1>1, <1>2, <1>4, <2>1
  <2> QED  BY <1>1, <1>2, <1>4, <2>2 DEF r
<1> QED  BY <1>3, <1>4

USE QueryScratchAssumption

ScratchOK(s) ==
    /\ \A p \in DOMAIN s.seen : s.seen[p] <= s.epoch
    /\ \A t \in DOMAIN s.cursors : s.cursors[t] # NoCursor => s.cursors[t].index = s.identity.id

Attached ==
    \A j \in DOMAIN searches :
        /\ searches[j].scratch \in DOMAIN pool
        /\ searches[j].epoch = pool[searches[j].scratch].epoch

IInv ==
    /\ TypeOK
    /\ \A i \in DOMAIN pool : ScratchOK(pool[i])
    /\ Attached
    /\ ScratchIsExclusive /\ SeenIsOwnWork /\ CursorsBelongToSearch

\* The place taken is the next one, or one that no search uses.
LEMMA TakenIsFree ==
  ASSUME IInv
  PROVE  /\ Taken \in 1 .. Len(pool) + 1
         /\ \A j \in DOMAIN searches : searches[j].scratch # Taken
         /\ ScratchAt(Taken) \in Scratches /\ ScratchOK(ScratchAt(Taken))
<1>1. pool \in Seq(Scratches) /\ Len(pool) \in Nat /\ DOMAIN pool = 1 .. Len(pool)
  BY DEF IInv, TypeOK
<1>2. CASE \E i \in DOMAIN pool : IsFree(pool[i])
  <2> DEFINE T == {i \in DOMAIN pool : IsFree(pool[i])}
  <2>1. T # {} /\ T \in SUBSET Nat
    BY <1>1, <1>2
  <2>2. PICK x \in T : \A y \in T : x <= y
    <3> HIDE DEF T
    <3> QED  BY <2>1, LeastNatural
  <2>3. \A j \in 1 .. x - 1 : ~IsFree(pool[j])
    <3> SUFFICES ASSUME NEW j \in 1 .. x - 1, IsFree(pool[j]) PROVE FALSE
      OBVIOUS
    <3>1. j \in T /\ j < x
      BY <1>1, <2>2
    <3> QED  BY <1>1, <2>2, <3>1
  <2>4. Taken \in DOMAIN pool /\ IsFree(pool[Taken])
    BY <1>2, <2>2, <2>3 DEF Taken
  <2>5. \A j \in DOMAIN searches : searches[j].scratch # Taken
    BY <2>4 DEF IInv, ScratchIsExclusive, IsFree
  <2> QED  BY <1>1, <2>4, <2>5 DEF IInv, ScratchAt
<1>3. CASE ~ \E i \in DOMAIN pool : IsFree(pool[i])
  <2>1. Taken = Len(pool) + 1 /\ Taken \notin DOMAIN pool
    BY <1>1, <1>3 DEF Taken
  <2>2. \A j \in DOMAIN searches : searches[j].scratch # Taken
    BY <2>1 DEF IInv, Attached
  <2>3. ScratchAt(Taken) = NewScratch
    BY <2>1 DEF ScratchAt
  <2>4. NewScratch \in Scratches /\ ScratchOK(NewScratch)
    BY DEF NewScratch, NoIdentity, Scratches, ScratchOK
  <2> QED  BY <1>1, <2>1, <2>2, <2>3, <2>4
<1> QED  BY <1>2, <1>3

LEMMA NextEpochIs ==
  ASSUME NEW s \in Scratches
  PROVE  NextEpoch(s) = IF s.epoch = MaxEpoch THEN 0 ELSE s.epoch + 1
<1>1. s.epoch \in 0 .. MaxEpoch
  BY DEF Scratches
<1>2. MaxEpoch + 1 \in Nat \ {0} /\ s.epoch \in 0 .. (MaxEpoch + 1) - 1
  BY <1>1
<1>3. (s.epoch + 1) % (MaxEpoch + 1) = IF s.epoch + 1 = MaxEpoch + 1 THEN 0 ELSE s.epoch + 1
  BY <1>2, CounterWraps
<1> QED  BY <1>1, <1>3 DEF NextEpoch

\* The cursors of a prepared scratch all belong to the index; when none of them
\* is left out, they are as if they had just been made.
LEMMA CursorsForIndex ==
  ASSUME NEW s \in Scratches, ScratchOK(s),
         NEW a \in Address, indexAt[a].id \in Object,
         NEW tables \in 1 .. MaxTables, NEW q \in Queries, NEW prepared \in 0 .. tables
  PROVE  LET c == CursorsFor(s, a, tables, q, prepared)
         IN  /\ c \in Seq(Cursors)
             /\ \A t \in DOMAIN c : c[t] # NoCursor => c[t].index = indexAt[a].id
             /\ prepared = tables =>
                  c = [t \in 1 .. tables |-> [index |-> indexAt[a].id, query |-> q]]
<1> DEFINE old == IF IsIndexOf(s, a) THEN s.cursors ELSE <<>>
           kept == Resize(old, tables, NoCursor)
           fresh == [index |-> indexAt[a].id, query |-> q]
           c == CursorsFor(s, a, tables, q, prepared)
<1>1. old \in Seq(Cursors)
  BY DEF Scratches
<1>2. \A t \in DOMAIN old : old[t] # NoCursor => old[t].index = indexAt[a].id
  BY DEF ScratchOK, IsIndexOf, Identity
<1> HIDE DEF old
<1>3. ASSUME NEW t \in 1 .. tables
      PROVE  kept[t] = NoCursor \/ (kept[t] \in Cursors /\ kept[t].index = indexAt[a].id)
  BY <1>1, <1>2, <1>3 DEF Resize, Cursors
<1>4. fresh \in Cursors /\ fresh.index = indexAt[a].id /\ fresh # NoCursor
  BY DEF Cursors, NoCursor
<1>5. ASSUME NEW t \in 1 .. tables, kept[t] # NoCursor
      PROVE  [kept[t] EXCEPT !.query = q] = fresh
  <2>1. kept[t] \in [index : Object, query : Queries] /\ kept[t].index = indexAt[a].id
    BY <1>3, <1>5 DEF Cursors
  <2> QED  BY <2>1
<1> HIDE DEF kept, fresh
<1>6. c = [t \in 1 .. tables |-> IF t > prepared THEN kept[t] ELSE fresh]
  BY <1>5 DEF CursorsFor, kept, old, fresh
<1>7. c \in [1 .. tables -> Cursors]
  BY <1>3, <1>4, <1>6 DEF Cursors
<1>8. \A t \in 1 .. tables : c[t] # NoCursor => c[t].index = indexAt[a].id
  BY <1>3, <1>4, <1>6
<1>9. prepared = tables => c = [t \in 1 .. tables |-> fresh]
  BY <1>6
<1> HIDE DEF c
<1>10. c \in Seq(Cursors) /\ DOMAIN c = 1 .. tables
  BY <1>7
<1> QED  BY <1>8, <1>9, <1>10 DEF c, fresh

\* A prepared scratch has room for the points of the index, and none of them
\* carries the mark of the new epoch.
LEMMA PrepareIsClean ==
  ASSUME NEW s \in Scratches, ScratchOK(s),
         NEW a \in Address, indexAt[a].id \in Object, indexAt[a].points \in PointCounts,
         NEW tables \in 1 .. MaxTables, NEW q \in Queries, NEW prepared \in 0 .. tables
  PROVE  LET r == Prepare(s, a, tables, q, prepared)
         IN  /\ r \in Scratches /\ ScratchOK(r)
             /\ r.inUse = TRUE
             /\ r.epoch \in 1 .. MaxEpoch
             /\ indexAt[a].points <= Len(r.seen)
             /\ \A p \in DOMAIN r.seen : r.seen[p] # r.epoch
             /\ r.cursors = CursorsFor(s, a, tables, q, prepared)
<1> DEFINE n == indexAt[a].points
           seen == SeenFor(s, n)
           wraps == NextEpoch(s) = 0
           r == Prepare(s, a, tables, q, prepared)
           e == IF wraps THEN FirstEpoch ELSE NextEpoch(s)
           marks == IF wraps THEN Cleared(seen) ELSE seen
           c == CursorsFor(s, a, tables, q, prepared)
<1>1. r = [inUse |-> TRUE, identity |-> Identity(a), cursors |-> c, seen |-> marks, epoch |-> e]
  BY DEF Prepare
<1>2. n \in Nat /\ s.epoch \in 0 .. MaxEpoch /\ s.seen \in Seq(0 .. MaxEpoch)
  BY DEF Scratches
<1>3. /\ seen \in Seq(0 .. MaxEpoch) /\ n <= Len(seen)
      /\ \A p \in DOMAIN seen : seen[p] <= s.epoch
  <2>1. CASE Len(s.seen) < n
    <3>1. seen = [i \in 1 .. n |-> IF i \in DOMAIN s.seen THEN s.seen[i] ELSE 0]
      BY <2>1 DEF SeenFor, Resize
    <3> HIDE DEF seen
    <3>2. seen \in [1 .. n -> 0 .. MaxEpoch]
      BY <1>2, <3>1
    <3>3. seen \in Seq(0 .. MaxEpoch) /\ Len(seen) = n /\ DOMAIN seen = 1 .. n
      BY <1>2, <3>2
    <3>4. \A p \in 1 .. n : seen[p] <= s.epoch
      BY <1>2, <3>1 DEF ScratchOK
    <3> QED  BY <1>2, <3>3, <3>4
  <2>2. CASE ~(Len(s.seen) < n)
    BY <1>2, <2>2 DEF SeenFor, ScratchOK
  <2> QED  BY <2>1, <2>2
<1>4. (wraps /\ e = 1) \/ (~wraps /\ e = s.epoch + 1 /\ e <= MaxEpoch)
  BY <1>2, NextEpochIs DEF FirstEpoch
<1>5. e \in 1 .. MaxEpoch
  BY <1>2, <1>4
<1> HIDE DEF seen, wraps, e
<1>6. /\ marks \in Seq(0 .. MaxEpoch) /\ Len(marks) = Len(seen)
      /\ \A p \in DOMAIN marks : marks[p] < e
  <2>1. CASE wraps
    <3>1. marks = [p \in 1 .. Len(seen) |-> 0]
      BY <1>3, <2>1 DEF Cleared
    <3> HIDE DEF marks
    <3>2. marks \in [1 .. Len(seen) -> 0 .. MaxEpoch]
      BY <3>1
    <3>3. marks \in Seq(0 .. MaxEpoch) /\ Len(marks) = Len(seen) /\ DOMAIN marks = 1 .. Len(seen)
      BY <1>3, <3>2
    <3> QED  BY <1>5, <3>1, <3>3
  <2>2. CASE ~wraps
    <3>1. marks = seen /\ e = s.epoch + 1
      BY <1>4, <2>2
    <3> HIDE DEF marks
    <3>2. \A p \in DOMAIN seen : seen[p] \in Int
      BY <1>3
    <3> QED  BY <1>2, <1>3, <3>1, <3>2
  <2> QED  BY <2>1, <2>2
<1> HIDE DEF marks
<1>7. /\ c \in Seq(Cursors)
      /\ \A t \in DOMAIN c : c[t] # NoCursor => c[t].index = indexAt[a].id
  BY CursorsForIndex
<1> HIDE DEF c
<1>8. Identity(a) \in [address : Address \cup {NoAddress}, id : Nat]
      /\ Identity(a).id = indexAt[a].id
  BY DEF Identity
<1> HIDE DEF r
<1>9. r \in Scratches
  BY <1>1, <1>5, <1>6, <1>7, <1>8 DEF Scratches
<1>10. \A p \in DOMAIN marks : marks[p] \in Int
  BY <1>6
<1>11. ScratchOK(r)
  BY <1>1, <1>5, <1>6, <1>7, <1>8, <1>10 DEF ScratchOK
<1>12. \A p \in DOMAIN r.seen : r.seen[p] # r.epoch
  BY <1>1, <1>5, <1>6, <1>10
<1> QED  BY <1>1, <1>2, <1>3, <1>5, <1>6, <1>9, <1>11, <1>12 DEF r, c

\* Putting a good scratch at the place taken leaves the others alone.
LEMMA PoolWithScratch ==
  ASSUME IInv, NEW r \in Scratches, ScratchOK(r), pool' = WithScratch(Taken, r)
  PROVE  /\ pool' \in Seq(Scratches)
         /\ DOMAIN pool' = DOMAIN pool \cup {Taken}
         /\ pool'[Taken] = r
         /\ \A i \in DOMAIN pool : i # Taken => pool'[i] = pool[i]
         /\ \A i \in DOMAIN pool' : ScratchOK(pool'[i])
<1> DEFINE k == Taken
           n == IF k > Len(pool) THEN k ELSE Len(pool)
<1>1. /\ pool \in Seq(Scratches) /\ Len(pool) \in Nat /\ DOMAIN pool = 1 .. Len(pool)
      /\ \A i \in DOMAIN pool : pool[i] \in Scratches /\ ScratchOK(pool[i])
  BY DEF IInv, TypeOK
<1>2. k \in 1 .. Len(pool) + 1
  BY TakenIsFree
<1>3. pool' = [j \in 1 .. n |-> IF j = k THEN r ELSE pool[j]]
  BY DEF WithScratch
<1> HIDE DEF k
<1>4. n \in Nat /\ 1 .. n = DOMAIN pool \cup {k}
  BY <1>1, <1>2
<1> HIDE DEF n
<1>5. pool' \in [1 .. n -> Scratches]
  BY <1>1, <1>3, <1>4
<1>6. pool' \in Seq(Scratches) /\ DOMAIN pool' = 1 .. n
  BY <1>4, <1>5
<1>7. \A i \in 1 .. n : pool'[i] = IF i = k THEN r ELSE pool[i]
  BY <1>3
<1> QED  BY <1>1, <1>4, <1>6, <1>7 DEF k

\* The searches in progress are untouched by a change of the pool that keeps
\* their scratches.
LEMMA OthersKeepTheirScratch ==
  ASSUME IInv, NEW r \in Scratches, ScratchOK(r), pool' = WithScratch(Taken, r),
         NEW j \in DOMAIN searches
  PROVE  /\ searches[j].scratch \in DOMAIN pool /\ searches[j].scratch \in DOMAIN pool'
         /\ pool'[searches[j].scratch] = pool[searches[j].scratch]
<1>1. searches[j].scratch \in DOMAIN pool
  BY DEF IInv, Attached
<1>2. searches[j].scratch # Taken
  BY TakenIsFree
<1> QED  BY <1>1, <1>2, PoolWithScratch

LEMMA LiveIndex ==
  ASSUME IInv, NEW a \in Address, indexAt[a] # NoIndex
  PROVE  indexAt[a].id \in Object /\ indexAt[a].points \in PointCounts
BY DEF IInv, TypeOK

LEMMA InitIInv == Init => IInv
<1> SUFFICES ASSUME Init PROVE IInv
  OBVIOUS
<1>1. DOMAIN pool = {} /\ DOMAIN searches = {} /\ TypeOK
  BY DEF Init, TypeOK
<1> QED  BY <1>1 DEF IInv, Attached, ScratchIsExclusive, SeenIsOwnWork, CursorsBelongToSearch

\* Indexes come and go without touching a scratch.
LEMMA IndexStepIInv ==
  ASSUME IInv, NEW a \in Address,
         \/ \E id \in Object, n \in PointCounts : CreateIndex(a, id, n)
         \/ DropIndex(a)
  PROVE  IInv'
<1>1. UNCHANGED <<pool, searches>>
  BY DEF CreateIndex, DropIndex
<1>2. TypeOK'
  <2>1. ASSUME NEW id \in Object, NEW n \in PointCounts, CreateIndex(a, id, n)
        PROVE  TypeOK'
    BY <1>1, <2>1 DEF IInv, TypeOK, CreateIndex
  <2>2. ASSUME DropIndex(a) PROVE TypeOK'
    BY <1>1, <2>2 DEF IInv, TypeOK, DropIndex
  <2> QED  BY <2>1, <2>2
<1>3. Attached' /\ ScratchIsExclusive' /\ SeenIsOwnWork' /\ CursorsBelongToSearch'
  BY <1>1 DEF IInv, Attached, ScratchIsExclusive, SeenIsOwnWork, CursorsBelongToSearch
<1>4. \A i \in DOMAIN pool' : ScratchOK(pool'[i])
  BY <1>1 DEF IInv
<1> QED  BY <1>2, <1>3, <1>4 DEF IInv

LEMMA StartSearchIInv ==
  ASSUME IInv, NEW a \in Address, NEW tables \in 1 .. MaxTables, NEW q \in Queries,
         StartSearch(a, tables, q)
  PROVE  IInv'
<1> DEFINE k == Taken
           id == indexAt[a].id
           n == indexAt[a].points
           r == Prepare(ScratchAt(k), a, tables, q, tables)
           new == [scratch |-> k, index |-> id, points |-> n, tables |-> tables, query |-> q,
                   epoch |-> r.epoch, marked |-> {}]
<1>1. /\ pool' = WithScratch(k, r) /\ searches' = Append(searches, new)
      /\ UNCHANGED indexAt
  BY DEF StartSearch
<1>2. id \in Object /\ n \in PointCounts
  BY LiveIndex DEF StartSearch
<1>3. /\ r \in Scratches /\ ScratchOK(r) /\ r.inUse = TRUE /\ r.epoch \in 1 .. MaxEpoch
      /\ n <= Len(r.seen)
      /\ \A p \in DOMAIN r.seen : r.seen[p] # r.epoch
      /\ r.cursors = CursorsFor(ScratchAt(k), a, tables, q, tables)
  <2>1. ScratchAt(k) \in Scratches /\ ScratchOK(ScratchAt(k)) /\ tables \in 0 .. tables
    BY TakenIsFree
  <2> DEFINE old == ScratchAt(k)
  <2>2. old \in Scratches /\ ScratchOK(old) /\ tables \in 0 .. tables
    BY <2>1
  <2> HIDE DEF old
  <2>3. LET p == Prepare(old, a, tables, q, tables)
        IN  /\ p \in Scratches /\ ScratchOK(p)
            /\ p.inUse = TRUE
            /\ p.epoch \in 1 .. MaxEpoch
            /\ indexAt[a].points <= Len(p.seen)
            /\ \A x \in DOMAIN p.seen : p.seen[x] # p.epoch
            /\ p.cursors = CursorsFor(old, a, tables, q, tables)
    BY <1>2, <2>2, PrepareIsClean, ZenonT(60)
  <2> QED  BY <2>3 DEF old
<1>4. r.cursors = [t \in 1 .. tables |-> [index |-> id, query |-> q]]
  <2>1. ScratchAt(k) \in Scratches /\ ScratchOK(ScratchAt(k)) /\ tables \in 0 .. tables
    BY TakenIsFree
  <2> HIDE DEF k
  <2>2. CursorsFor(ScratchAt(k), a, tables, q, tables) =
           [t \in 1 .. tables |-> [index |-> id, query |-> q]]
    BY <1>2, <2>1, CursorsForIndex
  <2> QED  BY <1>3, <2>2
<1> HIDE DEF r
<1>5. /\ pool' \in Seq(Scratches) /\ DOMAIN pool' = DOMAIN pool \cup {k}
      /\ pool'[k] = r
      /\ \A i \in DOMAIN pool : i # k => pool'[i] = pool[i]
      /\ \A i \in DOMAIN pool' : ScratchOK(pool'[i])
  BY <1>1, <1>3, PoolWithScratch
<1>6. /\ k \in Nat \ {0}
      /\ \A j \in DOMAIN searches :
            /\ searches[j].scratch # k
            /\ searches[j].scratch \in DOMAIN pool /\ searches[j].scratch \in DOMAIN pool'
            /\ pool'[searches[j].scratch] = pool[searches[j].scratch]
  BY <1>1, <1>3, TakenIsFree, OthersKeepTheirScratch DEF IInv, TypeOK
<1> HIDE DEF k, id, n
<1>7. new \in SearchRecords
  BY <1>2, <1>3, <1>6 DEF SearchRecords
<1>8. searches \in Seq(SearchRecords) /\ DOMAIN searches = 1 .. Len(searches) /\ Len(searches) \in Nat
  BY DEF IInv, TypeOK
<1> DEFINE last == Len(searches) + 1
<1>9. /\ searches' \in Seq(SearchRecords)
      /\ DOMAIN searches' = DOMAIN searches \cup {last} /\ last \notin DOMAIN searches
      /\ searches'[last] = new
      /\ \A j \in DOMAIN searches : searches'[j] = searches[j]
  <2> HIDE DEF new
  <2> QED  BY <1>1, <1>7, <1>8
<1>10. /\ new.scratch = k /\ new.index = id /\ new.points = n /\ new.tables = tables
       /\ new.query = q /\ new.epoch = r.epoch /\ new.marked = {}
  OBVIOUS
<1> HIDE DEF new, last
<1>11. TypeOK'
  BY <1>1, <1>5, <1>9 DEF IInv, TypeOK
<1>12. Attached'
  BY <1>5, <1>6, <1>9, <1>10 DEF IInv, Attached
<1>13. ScratchIsExclusive'
  <2>1. \A i, j \in DOMAIN searches' : i # j => searches'[i].scratch # searches'[j].scratch
    BY <1>6, <1>9, <1>10 DEF IInv, ScratchIsExclusive
  <2>2. ASSUME NEW i \in DOMAIN pool'
        PROVE  pool'[i].inUse <=> \E j \in DOMAIN searches' : searches'[j].scratch = i
    <3>1. CASE i = k
      BY <1>3, <1>5, <1>9, <1>10, <3>1
    <3>2. CASE i # k
      <4>1. pool'[i].inUse <=> \E j \in DOMAIN searches : searches[j].scratch = i
        BY <1>5, <2>2, <3>2 DEF IInv, ScratchIsExclusive
      <4> QED  BY <1>9, <1>10, <3>2, <4>1
    <3> QED  BY <3>1, <3>2
  <2> QED  BY <2>1, <2>2 DEF ScratchIsExclusive
<1>14. SeenIsOwnWork'
  <2> SUFFICES ASSUME NEW j \in DOMAIN searches'
               PROVE  LET search == searches'[j]
                          seen == pool'[search.scratch].seen
                      IN  /\ search.points <= Len(seen)
                          /\ {p \in 1 .. search.points : seen[p] = search.epoch} = search.marked
    BY DEF SeenIsOwnWork
  <2>1. CASE j = last
    <3>1. n \in Nat /\ r.seen \in Seq(0 .. MaxEpoch)
      BY <1>2, <1>3 DEF Scratches
    <3>2. {p \in 1 .. n : r.seen[p] = r.epoch} = {}
      BY <1>3, <3>1
    <3> QED  BY <1>3, <1>5, <1>9, <1>10, <2>1, <3>2
  <2>2. CASE j \in DOMAIN searches
    BY <1>6, <1>9, <2>2 DEF IInv, SeenIsOwnWork
  <2> QED  BY <1>9, <2>1, <2>2
<1>15. CursorsBelongToSearch'
  <2> SUFFICES ASSUME NEW j \in DOMAIN searches'
               PROVE  pool'[searches'[j].scratch].cursors =
                        [t \in 1 .. searches'[j].tables |->
                           [index |-> searches'[j].index, query |-> searches'[j].query]]
    BY DEF CursorsBelongToSearch
  <2>1. CASE j = last
    BY <1>4, <1>5, <1>9, <1>10, <2>1
  <2>2. CASE j \in DOMAIN searches
    BY <1>6, <1>9, <2>2 DEF IInv, CursorsBelongToSearch
  <2> QED  BY <1>9, <2>1, <2>2
<1> QED  BY <1>5, <1>11, <1>12, <1>13, <1>14, <1>15 DEF IInv

\* A start that throws gives its scratch back.
LEMMA StartThrowsIInv ==
  ASSUME IInv, NEW a \in Address, NEW tables \in 1 .. MaxTables, NEW q \in Queries,
         NEW prepared \in 0 .. MaxTables - 1, StartThrows(a, tables, q, prepared)
  PROVE  IInv'
<1> DEFINE k == Taken
           old == ScratchAt(k)
           p == Prepare(old, a, tables, q, prepared)
           r == [p EXCEPT !.inUse = FALSE]
<1>1. pool' = WithScratch(k, r) /\ UNCHANGED <<indexAt, searches>> /\ prepared \in 0 .. tables
  BY DEF StartThrows
<1>2. p \in Scratches /\ ScratchOK(p)
  <2>1. indexAt[a].id \in Object /\ indexAt[a].points \in PointCounts
    BY LiveIndex DEF StartThrows
  <2>2. old \in Scratches /\ ScratchOK(old)
    BY TakenIsFree
  <2> HIDE DEF old
  <2>3. LET x == Prepare(old, a, tables, q, prepared)
        IN  /\ x \in Scratches /\ ScratchOK(x)
            /\ x.inUse = TRUE
            /\ x.epoch \in 1 .. MaxEpoch
            /\ indexAt[a].points <= Len(x.seen)
            /\ \A y \in DOMAIN x.seen : x.seen[y] # x.epoch
            /\ x.cursors = CursorsFor(old, a, tables, q, prepared)
    BY <1>1, <2>1, <2>2, PrepareIsClean, ZenonT(60)
  <2> QED  BY <2>3
<1> HIDE DEF p
<1>3. r \in Scratches /\ ScratchOK(r) /\ r.inUse = FALSE
  BY <1>2 DEF Scratches, ScratchOK
<1> HIDE DEF r
<1>4. /\ pool' \in Seq(Scratches) /\ DOMAIN pool' = DOMAIN pool \cup {k}
      /\ pool'[k] = r
      /\ \A i \in DOMAIN pool : i # k => pool'[i] = pool[i]
      /\ \A i \in DOMAIN pool' : ScratchOK(pool'[i])
  BY <1>1, <1>3, PoolWithScratch
<1>5. \A j \in DOMAIN searches :
         /\ searches[j].scratch # k
         /\ searches[j].scratch \in DOMAIN pool /\ searches[j].scratch \in DOMAIN pool'
         /\ pool'[searches[j].scratch] = pool[searches[j].scratch]
  BY <1>1, <1>3, TakenIsFree, OthersKeepTheirScratch
<1> HIDE DEF k
<1>6. TypeOK'
  BY <1>1, <1>4 DEF IInv, TypeOK
<1>7. Attached'
  BY <1>1, <1>5 DEF IInv, Attached
<1>8. ScratchIsExclusive'
  <2>1. ASSUME NEW i \in DOMAIN pool'
        PROVE  pool'[i].inUse <=> \E j \in DOMAIN searches : searches[j].scratch = i
    <3>1. CASE i = k
      BY <1>3, <1>4, <1>5, <3>1
    <3>2. CASE i # k
      BY <1>4, <2>1, <3>2 DEF IInv, ScratchIsExclusive
    <3> QED  BY <3>1, <3>2
  <2> QED  BY <1>1, <2>1 DEF IInv, ScratchIsExclusive
<1>9. SeenIsOwnWork'
  BY <1>1, <1>5 DEF IInv, SeenIsOwnWork
<1>10. CursorsBelongToSearch'
  BY <1>1, <1>5 DEF IInv, CursorsBelongToSearch
<1> QED  BY <1>4, <1>6, <1>7, <1>8, <1>9, <1>10 DEF IInv

LEMMA EvaluateIInv ==
  ASSUME IInv, NEW n \in PointCounts, NEW p \in 1 .. n, Evaluate(p)
  PROVE  IInv'
<1> DEFINE last == Len(searches)
           top == searches[last]
           k == top.scratch
           s == pool[k]
           t == [s EXCEPT !.seen = [s.seen EXCEPT ![p] = top.epoch]]
           new == [top EXCEPT !.marked = top.marked \cup {p}]
<1>1. /\ searches \in Seq(SearchRecords) /\ last \in DOMAIN searches
      /\ top \in SearchRecords
      /\ \A j \in DOMAIN searches : searches[j] \in SearchRecords
  BY DEF IInv, TypeOK, Evaluate
<1>2. /\ k \in DOMAIN pool /\ s \in Scratches /\ ScratchOK(s) /\ top.epoch = s.epoch
      /\ \A j \in DOMAIN searches : j # last => searches[j].scratch # k
      /\ \A j \in DOMAIN searches : searches[j].scratch \in DOMAIN pool
  BY <1>1 DEF IInv, TypeOK, Attached, ScratchIsExclusive
<1>3. /\ p \in Nat \ {0} /\ p <= top.points /\ top.points <= Len(s.seen)
      /\ top.points \in Nat /\ s.seen \in Seq(0 .. MaxEpoch)
      /\ {x \in 1 .. top.points : s.seen[x] = top.epoch} = top.marked
      /\ s.cursors = [c \in 1 .. top.tables |-> [index |-> top.index, query |-> top.query]]
  <2>1. p \in Nat \ {0} /\ p <= top.points
    BY DEF Evaluate, Innermost
  <2>2. top.points \in Nat /\ s.seen \in Seq(0 .. MaxEpoch)
    BY <1>1, <1>2 DEF SearchRecords, Scratches
  <2> QED  BY <1>1, <2>1, <2>2 DEF IInv, SeenIsOwnWork, CursorsBelongToSearch
<1>4. /\ pool' = [pool EXCEPT ![k] = t]
      /\ searches' = [searches EXCEPT ![last] = new]
      /\ UNCHANGED indexAt
  BY <1>1, <1>2 DEF Evaluate, Innermost
<1>5. /\ t.seen = [s.seen EXCEPT ![p] = top.epoch] /\ t.epoch = s.epoch /\ t.inUse = s.inUse
      /\ t.cursors = s.cursors /\ t.identity = s.identity
      /\ t \in Scratches /\ ScratchOK(t)
      /\ Len(t.seen) = Len(s.seen)
  <2>1. p \in DOMAIN s.seen /\ top.epoch \in 0 .. MaxEpoch
    BY <1>2, <1>3 DEF Scratches
  <2>2. [s.seen EXCEPT ![p] = top.epoch] \in Seq(0 .. MaxEpoch)
        /\ Len([s.seen EXCEPT ![p] = top.epoch]) = Len(s.seen)
    BY <1>3, <2>1
  <2>3. t \in Scratches
    BY <1>2, <2>2 DEF Scratches
  <2>4. s.epoch \in Int
    BY <1>2 DEF Scratches
  <2> DEFINE marks == [s.seen EXCEPT ![p] = top.epoch]
  <2>5. \A x \in DOMAIN marks : marks[x] <= s.epoch
    BY <1>2, <1>3, <2>1, <2>4 DEF ScratchOK
  <2>6. t.seen = marks /\ t.epoch = s.epoch /\ t.cursors = s.cursors /\ t.identity = s.identity
    BY <1>2 DEF Scratches
  <2> HIDE DEF t, marks
  <2>7. ScratchOK(t)
    BY <1>2, <2>5, <2>6 DEF ScratchOK
  <2> QED  BY <1>2, <2>2, <2>3, <2>6, <2>7 DEF Scratches, t, marks
<1>6. /\ new.scratch = k /\ new.index = top.index /\ new.points = top.points
      /\ new.tables = top.tables /\ new.query = top.query /\ new.epoch = top.epoch
      /\ new.marked = top.marked \cup {p}
      /\ new \in SearchRecords
  BY <1>1, <1>3 DEF SearchRecords
<1>7. {x \in 1 .. top.points : t.seen[x] = top.epoch} = top.marked \cup {p}
  <2> DEFINE before == s.seen
             after == t.seen
             e == top.epoch
  <2>1. \A x \in 1 .. top.points : after[x] = IF x = p THEN e ELSE before[x]
    <3>1. 1 .. top.points \subseteq DOMAIN before /\ after = [before EXCEPT ![p] = e]
      BY <1>3, <1>5
    <3> HIDE DEF before, after, e
    <3> QED  BY <3>1
  <2>2. {x \in 1 .. top.points : before[x] = e} = top.marked /\ p \in 1 .. top.points
    BY <1>3
  <2> HIDE DEF before, after, e
  <2>3. {x \in 1 .. top.points : after[x] = e} = top.marked \cup {p}
    BY <2>1, <2>2
  <2> QED  BY <2>3 DEF after, e
<1> HIDE DEF t, new
<1>8. /\ pool' \in Seq(Scratches) /\ DOMAIN pool' = DOMAIN pool /\ pool'[k] = t
      /\ \A i \in DOMAIN pool : i # k => pool'[i] = pool[i]
  BY <1>2, <1>4, <1>5 DEF IInv, TypeOK
<1>9. /\ searches' \in Seq(SearchRecords) /\ DOMAIN searches' = DOMAIN searches
      /\ searches'[last] = new
      /\ \A j \in DOMAIN searches : j # last => searches'[j] = searches[j]
  BY <1>1, <1>4, <1>6
<1>10. \A j \in DOMAIN searches : searches'[j].scratch = searches[j].scratch
  BY <1>6, <1>9
<1>11. \A i \in DOMAIN pool : pool'[i].inUse = pool[i].inUse
  BY <1>5, <1>8
<1>12. TypeOK' /\ \A i \in DOMAIN pool' : ScratchOK(pool'[i])
  BY <1>4, <1>5, <1>8, <1>9 DEF IInv, TypeOK
<1>13. Attached'
  BY <1>2, <1>5, <1>6, <1>8, <1>9 DEF IInv, Attached
<1>14. ScratchIsExclusive'
  BY <1>8, <1>9, <1>10, <1>11 DEF IInv, ScratchIsExclusive
<1>15. SeenIsOwnWork'
  <2> SUFFICES ASSUME NEW j \in DOMAIN searches'
               PROVE  LET search == searches'[j]
                          seen == pool'[search.scratch].seen
                      IN  /\ search.points <= Len(seen)
                          /\ {x \in 1 .. search.points : seen[x] = search.epoch} = search.marked
    BY DEF SeenIsOwnWork
  <2>1. CASE j = last
    <3>1. /\ searches'[j] = new /\ new.scratch = k /\ pool'[k] = t
          /\ new.points = top.points /\ new.epoch = top.epoch
          /\ new.marked = top.marked \cup {p}
      BY <1>6, <1>8, <1>9, <2>1
    <3>2. top.points <= Len(t.seen)
      BY <1>3, <1>5
    <3> HIDE DEF top, k, last, s
    <3> QED  BY <1>7, <3>1, <3>2
  <2>2. CASE j # last
    BY <1>2, <1>8, <1>9, <2>2 DEF IInv, SeenIsOwnWork
  <2> QED  BY <2>1, <2>2
<1>16. CursorsBelongToSearch'
  <2> SUFFICES ASSUME NEW j \in DOMAIN searches'
               PROVE  pool'[searches'[j].scratch].cursors =
                        [c \in 1 .. searches'[j].tables |->
                           [index |-> searches'[j].index, query |-> searches'[j].query]]
    BY DEF CursorsBelongToSearch
  <2>1. CASE j = last
    BY <1>3, <1>5, <1>6, <1>8, <1>9, <2>1
  <2>2. CASE j # last
    BY <1>2, <1>8, <1>9, <2>2 DEF IInv, CursorsBelongToSearch
  <2> QED  BY <2>1, <2>2
<1> QED  BY <1>12, <1>13, <1>14, <1>15, <1>16 DEF IInv

LEMMA LeaveSearchIInv == IInv /\ LeaveSearch => IInv'
<1> SUFFICES ASSUME IInv, LeaveSearch PROVE IInv'
  OBVIOUS
<1> DEFINE last == Len(searches)
           k == searches[last].scratch
           t == [pool[k] EXCEPT !.inUse = FALSE]
<1>1. /\ searches \in Seq(SearchRecords) /\ last \in Nat \ {0} /\ DOMAIN searches = 1 .. last
      /\ k \in DOMAIN pool /\ pool[k] \in Scratches /\ ScratchOK(pool[k])
      /\ \A j \in DOMAIN searches : j # last => searches[j].scratch # k
      /\ \A j \in DOMAIN searches : searches[j].scratch \in DOMAIN pool
  BY DEF IInv, TypeOK, Attached, ScratchIsExclusive, LeaveSearch
<1>2. /\ pool' = [pool EXCEPT ![k] = t]
      /\ searches' = SubSeq(searches, 1, last - 1)
      /\ UNCHANGED indexAt
  BY DEF LeaveSearch, Innermost
<1>3. /\ t \in Scratches /\ ScratchOK(t) /\ t.inUse = FALSE
      /\ t.seen = pool[k].seen /\ t.epoch = pool[k].epoch /\ t.cursors = pool[k].cursors
  BY <1>1 DEF Scratches, ScratchOK
<1> HIDE DEF t
<1>4. /\ pool' \in Seq(Scratches) /\ DOMAIN pool' = DOMAIN pool /\ pool'[k] = t
      /\ \A i \in DOMAIN pool : i # k => pool'[i] = pool[i]
  BY <1>1, <1>2, <1>3 DEF IInv, TypeOK
<1>5. /\ searches' \in Seq(SearchRecords) /\ DOMAIN searches' = 1 .. last - 1
      /\ \A j \in 1 .. last - 1 : searches'[j] = searches[j]
  BY <1>1, <1>2
<1>6. \A j \in DOMAIN searches' : j \in DOMAIN searches /\ j # last /\ searches'[j] = searches[j]
  BY <1>1, <1>5
<1>7. \A j \in DOMAIN searches : j # last => j \in DOMAIN searches'
  BY <1>1, <1>5
<1> HIDE DEF k, last
<1>8. TypeOK' /\ \A i \in DOMAIN pool' : ScratchOK(pool'[i])
  BY <1>2, <1>3, <1>4, <1>5 DEF IInv, TypeOK
<1>9. Attached'
  BY <1>1, <1>4, <1>6 DEF IInv, Attached
<1>10. ScratchIsExclusive'
  <2>1. ASSUME NEW i \in DOMAIN pool'
        PROVE  pool'[i].inUse <=> \E j \in DOMAIN searches' : searches'[j].scratch = i
    <3>1. CASE i = k
      BY <1>1, <1>3, <1>4, <1>6, <3>1
    <3>2. CASE i # k
      <4>1. pool'[i].inUse <=> \E j \in DOMAIN searches : searches[j].scratch = i
        BY <1>4, <2>1, <3>2 DEF IInv, ScratchIsExclusive
      <4>2. searches[last].scratch = k
        BY DEF k
      <4> QED  BY <1>6, <1>7, <3>2, <4>1, <4>2
    <3> QED  BY <3>1, <3>2
  <2>2. \A i, j \in DOMAIN searches' : i # j => searches'[i].scratch # searches'[j].scratch
    BY <1>6 DEF IInv, ScratchIsExclusive
  <2> QED  BY <2>1, <2>2 DEF ScratchIsExclusive
<1>11. SeenIsOwnWork'
  BY <1>1, <1>4, <1>6 DEF IInv, SeenIsOwnWork
<1>12. CursorsBelongToSearch'
  BY <1>1, <1>4, <1>6 DEF IInv, CursorsBelongToSearch
<1> QED  BY <1>8, <1>9, <1>10, <1>11, <1>12 DEF IInv

LEMMA Invariance == Spec => []IInv
<1>1. IInv /\ [Next]_vars => IInv'
  <2> SUFFICES ASSUME IInv, [Next]_vars PROVE IInv'
    OBVIOUS
  <2>1. ASSUME NEW a \in Address, NEW id \in Object, NEW n \in PointCounts, CreateIndex(a, id, n)
        PROVE  IInv'
    BY <2>1, IndexStepIInv
  <2>2. ASSUME NEW a \in Address, DropIndex(a) PROVE IInv'
    BY <2>2, IndexStepIInv
  <2>3. ASSUME NEW a \in Address, NEW tables \in 1 .. MaxTables, NEW q \in Queries,
               StartSearch(a, tables, q)
        PROVE  IInv'
    BY <2>3, StartSearchIInv
  <2>4. ASSUME NEW a \in Address, NEW tables \in 1 .. MaxTables, NEW q \in Queries,
               NEW prepared \in 0 .. MaxTables - 1, StartThrows(a, tables, q, prepared)
        PROVE  IInv'
    BY <2>4, StartThrowsIInv
  <2>5. ASSUME NEW n \in PointCounts, NEW p \in 1 .. n, Evaluate(p) PROVE IInv'
    BY <2>5, EvaluateIInv
  <2>6. CASE LeaveSearch
    BY <2>6, LeaveSearchIInv
  <2>7. CASE UNCHANGED vars
    BY <2>7 DEF vars, IInv, TypeOK, Attached, ScratchIsExclusive, SeenIsOwnWork,
                CursorsBelongToSearch
  <2> QED  BY <2>1, <2>2, <2>3, <2>4, <2>5, <2>6, <2>7 DEF Next
<1> QED  BY <1>1, InitIInv, PTL DEF Spec

\* The pool and the searches in progress keep their types, epochs included,
\* for every epoch width (QueryScratch).
THEOREM TypeCorrect == Spec => []TypeOK
<1>1. IInv => TypeOK
  BY DEF IInv
<1> QED  BY <1>1, Invariance, PTL

\* Nested searches on a thread never share a scratch and none is leaked
\* (QueryScratchLease).
THEOREM LeasesAreExclusive == Spec => []ScratchIsExclusive
<1>1. IInv => ScratchIsExclusive
  BY DEF IInv
<1> QED  BY <1>1, Invariance, PTL

\* No search takes a point for evaluated that an earlier search has marked, for
\* any number of searches between two wraps of the epoch.
THEOREM MarksAreOwn == Spec => []SeenIsOwnWork
<1>1. IInv => SeenIsOwnWork
  BY DEF IInv
<1> QED  BY <1>1, Invariance, PTL

\* No search scans with a cursor of an index that is gone, whatever was
\* allocated at its address since.
THEOREM CursorsAreOwn == Spec => []CursorsBelongToSearch
<1>1. IInv => CursorsBelongToSearch
  BY DEF IInv
<1> QED  BY <1>1, Invariance, PTL

-----------------------------------------------------------------------------
(* Sorting with several threads.                                            *)

USE SortTablesAssumption

Failed == pc[Builder] \in {"unwinding", "thrown"}

PlacesMakeSense ==
    /\ \A w \in Thread : /\ pc[w] \in {"absent", "claiming", "sorting", "done"}
                         /\ pc[w] = "absent" <=> w > started
    /\ pc[Builder] \in {"starting", "claiming", "sorting", "joining",
                        "unwinding", "returned", "thrown"}
    /\ pc[Builder] \in {"returned", "thrown"} => AllJoined

ClaimsAreExclusive ==
    /\ \A w \in Worker : pc[w] = "sorting" <=> claimed[w] # NoTable
    /\ \A w \in Worker : claimed[w] # NoTable => claimed[w] < next /\ claimed[w] \notin sorted
    /\ \A v, w \in Worker : v # w /\ claimed[v] # NoTable => claimed[v] # claimed[w]
    /\ \A t \in sorted : t < next

NothingForgotten ==
    /\ ~Failed => \A t \in Table : t < next =>
                     t \in sorted \/ \E w \in Worker : claimed[w] = t
    /\ pc[Builder] \in {"joining", "returned"} => next >= TableCount

SortInv == SortTypeOK /\ PlacesMakeSense /\ ClaimsAreExclusive /\ NothingForgotten

LEMMA WorkerFacts ==
  /\ WorkerCount \in Nat \ {0}
  /\ Builder \in Worker /\ Builder \notin Thread
  /\ Thread \subseteq Nat /\ Worker \subseteq Nat
BY DEF WorkerCount, Builder, Thread, Worker

LEMMA InitSortInv == InitSort => SortInv
<1> SUFFICES ASSUME InitSort PROVE SortInv
  OBVIOUS
<1>1. SortTypeOK
  BY WorkerFacts DEF InitSort, SortTypeOK
<1>2. PlacesMakeSense
  <2>1. pc[Builder] = "starting" /\ started = 0
    BY WorkerFacts DEF InitSort
  <2>2. \A w \in Thread : pc[w] = "absent" /\ w > started
    BY WorkerFacts DEF InitSort, Thread, Worker
  <2> QED  BY <2>1, <2>2 DEF PlacesMakeSense
<1>3. ClaimsAreExclusive
  BY DEF InitSort, ClaimsAreExclusive
<1>4. NothingForgotten
  BY WorkerFacts DEF InitSort, NothingForgotten, Table
<1> QED  BY <1>1, <1>2, <1>3, <1>4 DEF SortInv

LEMMA StartThreadSortInv == SortInv /\ StartThread => SortInv'
<1> SUFFICES ASSUME SortInv, StartThread PROVE SortInv'
  OBVIOUS
<1> DEFINE new == started + 1
<1>1. new \in Thread /\ new \in Worker /\ new # Builder
  BY WorkerFacts DEF SortInv, SortTypeOK, StartThread, Thread, Worker, Builder
<1>2. /\ pc' = [pc EXCEPT ![new] = "claiming"]
      /\ pc[new] = "absent"
      /\ pc[Builder] = "starting" /\ pc'[Builder] = "starting"
      /\ started' = new
      /\ UNCHANGED <<next, claimed, sorted>>
  BY <1>1, WorkerFacts DEF SortInv, SortTypeOK, PlacesMakeSense, StartThread
<1>3. SortTypeOK'
  BY <1>1, <1>2, WorkerFacts DEF SortInv, SortTypeOK, StartThread
<1>4. PlacesMakeSense'
  BY <1>1, <1>2, WorkerFacts DEF SortInv, SortTypeOK, PlacesMakeSense, Thread
<1>5. ClaimsAreExclusive'
  BY <1>1, <1>2 DEF SortInv, SortTypeOK, ClaimsAreExclusive
<1>6. NothingForgotten'
  BY <1>2 DEF SortInv, NothingForgotten, Failed
<1> QED  BY <1>3, <1>4, <1>5, <1>6 DEF SortInv

LEMMA StartFailsSortInv == SortInv /\ StartFails => SortInv'
<1> SUFFICES ASSUME SortInv, StartFails PROVE SortInv'
  OBVIOUS
<1>1. SortTypeOK'
  BY WorkerFacts DEF SortInv, SortTypeOK, StartFails
<1>2. PlacesMakeSense'
  BY WorkerFacts DEF SortInv, SortTypeOK, PlacesMakeSense, StartFails
<1>3. ClaimsAreExclusive'
  <2>1. \A t \in Table : t < TableCount
    BY DEF Table
  <2> QED  BY <2>1, WorkerFacts DEF SortInv, SortTypeOK, ClaimsAreExclusive, StartFails
<1>4. NothingForgotten'
  BY WorkerFacts DEF SortInv, SortTypeOK, NothingForgotten, Failed, StartFails
<1> QED  BY <1>1, <1>2, <1>3, <1>4 DEF SortInv

LEMMA JoinTheWorkSortInv == SortInv /\ JoinTheWork => SortInv'
<1> SUFFICES ASSUME SortInv, JoinTheWork PROVE SortInv'
  OBVIOUS
<1>1. SortTypeOK'
  BY WorkerFacts DEF SortInv, SortTypeOK, JoinTheWork
<1>2. PlacesMakeSense'
  BY WorkerFacts DEF SortInv, SortTypeOK, PlacesMakeSense, JoinTheWork
<1>3. ClaimsAreExclusive'
  BY WorkerFacts DEF SortInv, SortTypeOK, ClaimsAreExclusive, JoinTheWork
<1>4. NothingForgotten'
  BY WorkerFacts DEF SortInv, SortTypeOK, NothingForgotten, Failed, JoinTheWork
<1> QED  BY <1>1, <1>2, <1>3, <1>4 DEF SortInv

\* A claim takes the table at the counter, which lies above all others.
LEMMA ClaimSortInv ==
  ASSUME SortInv, NEW w \in Worker, Claim(w)
  PROVE  SortInv'
<1>1. /\ pc[w] = "claiming" /\ claimed[w] = NoTable
      /\ next \in Nat /\ next' = next + 1
      /\ UNCHANGED <<started, sorted>>
  BY DEF SortInv, SortTypeOK, ClaimsAreExclusive, Claim, FetchAdd
<1>2. CASE next < TableCount
  <2>1. /\ pc' = [pc EXCEPT ![w] = "sorting"]
        /\ claimed' = [claimed EXCEPT ![w] = next]
        /\ next \in Table
    BY <1>1, <1>2 DEF Claim, IsTable, Table
  <2>2. SortTypeOK'
    BY <1>1, <2>1 DEF SortInv, SortTypeOK
  <2>3. PlacesMakeSense'
    BY <1>1, <2>1, WorkerFacts DEF SortInv, SortTypeOK, PlacesMakeSense, AllJoined
  <2>4. ClaimsAreExclusive'
    <3>1. \A t \in Table : t < next => t < next + 1
      BY <1>1 DEF Table
    <3>2. next # NoTable /\ next \notin sorted /\ \A v \in Worker : claimed[v] # next
      BY <1>1, <2>1 DEF SortInv, SortTypeOK, ClaimsAreExclusive
    <3>3. /\ claimed'[w] = next /\ pc'[w] = "sorting"
          /\ \A v \in Worker : v # w => claimed'[v] = claimed[v] /\ pc'[v] = pc[v]
      BY <2>1 DEF SortInv, SortTypeOK
    <3>4. \A v \in Worker : pc'[v] = "sorting" <=> claimed'[v] # NoTable
      BY <3>2, <3>3 DEF SortInv, ClaimsAreExclusive
    <3>5. \A v \in Worker :
             claimed'[v] # NoTable => claimed'[v] < next' /\ claimed'[v] \notin sorted'
      <4>1. \A v \in Worker : claimed[v] # NoTable => claimed[v] \in Table
        BY DEF SortInv, SortTypeOK
      <4> QED  BY <1>1, <3>1, <3>2, <3>3, <4>1 DEF SortInv, ClaimsAreExclusive
    <3>6. \A u, v \in Worker : u # v /\ claimed'[u] # NoTable => claimed'[u] # claimed'[v]
      BY <3>2, <3>3 DEF SortInv, ClaimsAreExclusive
    <3>7. \A t \in sorted' : t < next'
      BY <1>1, <3>1 DEF SortInv, SortTypeOK, ClaimsAreExclusive
    <3> QED  BY <3>4, <3>5, <3>6, <3>7 DEF ClaimsAreExclusive
  <2>5. NothingForgotten'
    <3>1. claimed'[w] = next /\ \A v \in Worker : v # w => claimed'[v] = claimed[v]
      BY <2>1 DEF SortInv, SortTypeOK
    <3>2. pc'[Builder] \notin {"joining", "returned"} /\ (Failed' <=> Failed)
      BY <1>1, <1>2, <2>1, WorkerFacts DEF SortInv, SortTypeOK, NothingForgotten, Failed
    <3>3. ASSUME ~Failed, NEW t \in Table, t < next'
          PROVE  t \in sorted' \/ \E v \in Worker : claimed'[v] = t
      <4>1. CASE t = next
        BY <3>1, <4>1
      <4>2. CASE t < next
        <5>1. t \in sorted \/ \E v \in Worker : claimed[v] = t
          BY <3>3, <4>2 DEF SortInv, NothingForgotten
        <5> QED  BY <1>1, <3>1, <5>1
      <4> QED  BY <1>1, <3>3, <4>1, <4>2 DEF Table
    <3> QED  BY <3>2, <3>3 DEF NothingForgotten
  <2> QED  BY <2>2, <2>3, <2>4, <2>5 DEF SortInv
<1>3. CASE ~(next < TableCount)
  <2>1. /\ pc' = [pc EXCEPT ![w] = IF w = Builder THEN "joining" ELSE "done"]
        /\ claimed' = claimed
    BY <1>1, <1>3 DEF Claim, IsTable
  <2>2. SortTypeOK'
    BY <1>1, <2>1 DEF SortInv, SortTypeOK
  <2>3. PlacesMakeSense'
    BY <1>1, <2>1, WorkerFacts DEF SortInv, SortTypeOK, PlacesMakeSense, AllJoined, Worker
  <2>4. ClaimsAreExclusive'
    <3>1. \A t \in Table : t < next + 1
      BY <1>1, <1>3 DEF Table
    <3> QED  BY <1>1, <2>1, <3>1 DEF SortInv, SortTypeOK, ClaimsAreExclusive
  <2>5. NothingForgotten'
    <3>1. Failed' <=> Failed
      BY <1>1, <2>1, WorkerFacts DEF SortInv, SortTypeOK, Failed
    <3>2. \A t \in Table : t < next
      BY <1>1, <1>3 DEF Table
    <3>3. ~Failed => \A t \in Table : t \in sorted \/ \E v \in Worker : claimed[v] = t
      BY <3>2 DEF SortInv, NothingForgotten
    <3>4. next' >= TableCount
      BY <1>1, <1>3
    <3> QED  BY <1>1, <2>1, <3>1, <3>3, <3>4 DEF NothingForgotten
  <2> QED  BY <2>2, <2>3, <2>4, <2>5 DEF SortInv
<1> QED  BY <1>2, <1>3

LEMMA SortTableSortInv ==
  ASSUME SortInv, NEW w \in Worker, Sort(w)
  PROVE  SortInv'
<1>1. /\ pc[w] = "sorting" /\ claimed[w] \in Table /\ claimed[w] < next
      /\ pc' = [pc EXCEPT ![w] = "claiming"]
      /\ claimed' = [claimed EXCEPT ![w] = NoTable]
      /\ sorted' = sorted \cup {claimed[w]}
      /\ UNCHANGED <<next, started>>
  BY DEF SortInv, SortTypeOK, ClaimsAreExclusive, Sort
<1>2. SortTypeOK'
  BY <1>1 DEF SortInv, SortTypeOK
<1>3. PlacesMakeSense'
  BY <1>1, WorkerFacts DEF SortInv, SortTypeOK, PlacesMakeSense, AllJoined
<1>4. ClaimsAreExclusive'
  BY <1>1 DEF SortInv, SortTypeOK, ClaimsAreExclusive
<1>5. NothingForgotten'
  <2>1. claimed'[w] = NoTable /\ \A v \in Worker : v # w => claimed'[v] = claimed[v]
    BY <1>1 DEF SortInv, SortTypeOK
  <2>2. /\ Failed' <=> Failed
        /\ pc'[Builder] \notin {"joining", "returned"} \/ pc'[Builder] = pc[Builder]
    BY <1>1, WorkerFacts DEF SortInv, SortTypeOK, Failed
  <2>3. ASSUME ~Failed, NEW t \in Table, t < next
        PROVE  t \in sorted' \/ \E v \in Worker : claimed'[v] = t
    <3>1. t \in sorted \/ \E v \in Worker : claimed[v] = t
      BY <2>3 DEF SortInv, NothingForgotten
    <3> QED  BY <1>1, <2>1, <3>1
  <2> QED  BY <1>1, <2>2, <2>3 DEF SortInv, NothingForgotten, Failed
<1> QED  BY <1>2, <1>3, <1>4, <1>5 DEF SortInv

LEMMA LeaveSortInv == SortInv /\ Leave => SortInv'
<1> SUFFICES ASSUME SortInv, Leave PROVE SortInv'
  OBVIOUS
<1>1. /\ pc[Builder] \in {"joining", "unwinding"}
      /\ pc'[Builder] = IF pc[Builder] = "joining" THEN "returned" ELSE "thrown"
      /\ \A w \in Thread : pc'[w] = pc[w] /\ pc[w] \in {"absent", "done"}
      /\ UNCHANGED <<next, started, claimed, sorted>>
  BY WorkerFacts DEF SortInv, SortTypeOK, Leave, AllJoined, Worker
<1>2. SortTypeOK'
  BY WorkerFacts DEF SortInv, SortTypeOK, Leave
<1>3. PlacesMakeSense'
  BY <1>1 DEF SortInv, PlacesMakeSense, AllJoined
<1>4. ClaimsAreExclusive'
  BY <1>1 DEF SortInv, ClaimsAreExclusive, Worker
<1>5. NothingForgotten'
  BY <1>1 DEF SortInv, NothingForgotten, Failed
<1> QED  BY <1>2, <1>3, <1>4, <1>5 DEF SortInv

LEMMA NextSortInv == SortInv /\ [NextSort]_sortVars => SortInv'
<1> SUFFICES ASSUME SortInv, [NextSort]_sortVars PROVE SortInv'
  OBVIOUS
<1>1. CASE BuilderStep
  BY <1>1, StartThreadSortInv, StartFailsSortInv, JoinTheWorkSortInv, LeaveSortInv DEF BuilderStep
<1>2. ASSUME NEW w \in Worker, WorkerStep(w) PROVE SortInv'
  BY <1>2, ClaimSortInv, SortTableSortInv DEF WorkerStep
<1>3. CASE UNCHANGED sortVars
  BY <1>3 DEF sortVars, SortInv, SortTypeOK, PlacesMakeSense, ClaimsAreExclusive, NothingForgotten,
              Failed, AllJoined
<1> QED  BY <1>1, <1>2, <1>3 DEF NextSort

LEMMA SortInvariance == SortSpec => []SortInv
BY InitSortInv, NextSortInv, PTL DEF SortSpec

\* The counter, the claims and the places of the workers keep their type,
\* whatever the number of tables and threads (SortTables).
THEOREM SortTypeCorrect == SortSpec => []SortTypeOK
<1>1. SortInv => SortTypeOK
  BY DEF SortInv
<1> QED  BY <1>1, SortInvariance, PTL

\* The atomic counter gives every table to one worker only.
THEOREM SortingIsExclusive == SortSpec => []SortedByOneWorker
<1>1. SortInv => SortedByOneWorker
  BY DEF SortInv, SortTypeOK, ClaimsAreExclusive, SortedByOneWorker
<1> QED  BY <1>1, SortInvariance, PTL

\* A builder that goes on after SortTables finds every table sorted, and
\* neither a return nor an exception leaves a thread at work on them.
THEOREM TablesAreReady == SortSpec => []ConsumedOnlyWhenSorted
<1>1. SortInv => ConsumedOnlyWhenSorted
  <2> SUFFICES ASSUME SortInv, pc[Builder] \in {"returned", "thrown"}
               PROVE  /\ \A w \in Worker : claimed[w] = NoTable
                                           /\ pc[w] \notin {"claiming", "sorting"}
                      /\ pc[Builder] = "returned" => sorted = Table
    BY DEF ConsumedOnlyWhenSorted
  <2>1. \A w \in Worker : pc[w] \notin {"claiming", "sorting"}
    BY DEF SortInv, PlacesMakeSense, AllJoined, Worker
  <2>2. \A w \in Worker : claimed[w] = NoTable
    BY <2>1 DEF SortInv, ClaimsAreExclusive
  <2>3. ASSUME pc[Builder] = "returned" PROVE sorted = Table
    <3>1. next >= TableCount /\ next \in Nat /\ sorted \subseteq Table
      BY <2>3 DEF SortInv, SortTypeOK, NothingForgotten
    <3>2. \A t \in Table : t < next /\ t # NoTable
      BY <3>1 DEF Table
    <3> QED  BY <2>2, <2>3, <3>1, <3>2 DEF SortInv, NothingForgotten, Failed
  <2> QED  BY <2>1, <2>2, <2>3
<1> QED  BY <1>1, SortInvariance, PTL
=============================================================================
