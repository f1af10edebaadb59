---------------------- MODULE TableScanSchedule_proofs ----------------------
(***************************************************************************)
(* The scheduler's ledger and queue invariants, for every number of tables *)
(* and of entries.                                                         *)
(***************************************************************************)
EXTENDS TableScanSchedule, FiniteSetTheorems, TLAPS

USE TableScheduleAssumption

\* Sets of tables are finite, and counting them stays within table_count_.
LEMMA TableSets ==
  ASSUME NEW S \in SUBSET Table
  PROVE  /\ IsFiniteSet(S)
         /\ Cardinality(S) \in 0 .. TableCount
         /\ Cardinality(S) = TableCount => S = Table
<1>1. IsFiniteSet(Table) /\ Cardinality(Table) = TableCount
  BY FS_Interval DEF Table
<1>2. IsFiniteSet(S) /\ Cardinality(S) <= Cardinality(Table)
      /\ (Cardinality(Table) = Cardinality(S) => Table = S)
  BY <1>1, FS_Subset
<1>3. Cardinality(S) \in Nat
  BY <1>2, FS_CardinalityType
<1> QED  BY <1>1, <1>2, <1>3

\* Setting one flag adds one to the number of set flags iff it was clear.
LEMMA CountAfterSetting ==
  ASSUME NEW f \in [Table -> BOOLEAN], NEW t \in Table, NEW b \in BOOLEAN
  PROVE  LET g == [f EXCEPT ![t] = @ \/ b]
         IN  Cardinality({u \in Table : g[u]}) =
               IF b /\ ~f[t] THEN Cardinality({u \in Table : f[u]}) + 1
                             ELSE Cardinality({u \in Table : f[u]})
<1> DEFINE F == {u \in Table : f[u]}
           g == [f EXCEPT ![t] = @ \/ b]
           G == {u \in Table : g[u]}
<1>1. IsFiniteSet(F)
  BY TableSets
<1>2. CASE b /\ ~f[t]
  <2>1. G = F \cup {t} /\ t \notin F
    BY <1>2
  <2> QED  BY <1>1, <1>2, <2>1, FS_AddElement
<1>3. CASE ~(b /\ ~f[t])
  <2>1. G = F
    BY <1>3
  <2> QED  BY <1>3, <2>1
<1> QED  BY <1>2, <1>3

-----------------------------------------------------------------------------
\* The inductive invariant: the types of the counters need the counters to be
\* the sizes of the ledgers, and the queue needs both.
IInv == TypeOK /\ LedgerAgrees /\ QueueIsIncompleteTables

LEMMA InitIInv == Init => IInv
<1> SUFFICES ASSUME Init PROVE IInv
  OBVIOUS
<1>1. TypeOK
  BY DEF Init, TypeOK, Table
<1>2. LedgerAgrees
  <2>1. {t \in Table : tableExhausted[t]} = {} /\ {t \in Table : tableCompleted[t]} = {}
    BY DEF Init
  <2> QED  BY <2>1, FS_EmptySet DEF Init, LedgerAgrees
<1>3. QueueIsIncompleteTables
  BY DEF Init, QueueIsIncompleteTables, Table
<1> QED  BY <1>1, <1>2, <1>3 DEF IInv

LEMMA NextTableIInv == IInv /\ NextTable => IInv'
<1> SUFFICES ASSUME IInv, NextTable PROVE IInv'
  OBVIOUS
<1> USE DEF IInv
<1> DEFINE q == pendingTables
<1>1. /\ q \in Seq(Table) /\ q # <<>> /\ Len(q) \in Nat \ {0}
      /\ Head(q) = q[1] /\ q[1] \in Table
      /\ Tail(q) \in Seq(Table) /\ Len(Tail(q)) = Len(q) - 1
      /\ \A i \in 1 .. Len(q) - 1 : Tail(q)[i] = q[i + 1]
  BY DEF NextTable, HasPending, TypeOK
<1>2. TypeOK'
  BY <1>1 DEF NextTable, TypeOK, ledger
<1>3. LedgerAgrees'
  BY DEF NextTable, LedgerAgrees, ledger
<1>4. QueueIsIncompleteTables'
  <2> USE DEF QueueIsIncompleteTables, NextTable, ledger
  <2>1. \A i, j \in DOMAIN pendingTables' : pendingTables'[i] = pendingTables'[j] => i = j
    BY <1>1
  <2>2. \A i \in DOMAIN pendingTables' :
           ~tableCompleted'[pendingTables'[i]] /\ pendingTables'[i] # scanning'
    BY <1>1
  <2>3. ASSUME NEW t \in Table, ~tableCompleted'[t], t # scanning'
        PROVE  \E i \in DOMAIN pendingTables' : pendingTables'[i] = t
    <3>1. PICK i \in DOMAIN q : q[i] = t
      BY <2>3 DEF TypeOK, Table
    <3>2. i \in 1 .. Len(q) /\ i # 1
      BY <1>1, <2>3, <3>1
    <3>3. i - 1 \in DOMAIN pendingTables' /\ pendingTables'[i - 1] = t
      BY <1>1, <3>1, <3>2
    <3> QED  BY <3>3
  <2>4. ~tableCompleted'[scanning']
    BY <1>1
  <2> QED  BY <2>1, <2>2, <2>3, <2>4
<1> QED  BY <1>2, <1>3, <1>4

LEMMA ScanIInv == IInv /\ Scan => IInv'
<1> SUFFICES ASSUME IInv, Scan PROVE IInv'
  OBVIOUS
<1> USE DEF IInv
<1> DEFINE t == scanning
           q == pendingTables
<1>1. t \in Table /\ ~tableCompleted[t] /\ ~tableExhausted[t] /\ scanning' = NoTable
  BY DEF Scan, TypeOK, QueueIsIncompleteTables, LedgerAgrees
<1>2. PICK visited \in 0 .. unread[t], w \in BOOLEAN :
         LET left == unread[t] - visited
         IN  /\ visited > 0 \/ w \/ left = 0
             /\ left = 0 => w
             /\ unread' = [unread EXCEPT ![t] = left]
             /\ OnScanBoundary(t, w, left = 0)
  BY DEF Scan
<1> DEFINE left == unread[t] - visited
           done == left = 0
<1>3. /\ left \in 0 .. Entries
      /\ done => w
      /\ unread' = [unread EXCEPT ![t] = left]
  BY <1>1, <1>2 DEF TypeOK
<1>4. /\ tableExhausted' = [tableExhausted EXCEPT ![t] = @ \/ done]
      /\ exhaustedTables' = IF done /\ ~tableExhausted[t] THEN exhaustedTables + 1 ELSE exhaustedTables
      /\ tableCompleted' = [tableCompleted EXCEPT ![t] = @ \/ (w \/ done)]
      /\ completedTables' = IF (w \/ done) /\ ~tableCompleted[t] THEN completedTables + 1 ELSE completedTables
      /\ IF (w \/ done) \/ tableExhausted'[t] THEN q' = q ELSE q' = Append(q, t)
  BY <1>2 DEF OnScanBoundary, Requeue
<1>5. tableExhausted' \in [Table -> BOOLEAN] /\ tableCompleted' \in [Table -> BOOLEAN]
  BY <1>1, <1>3, <1>4 DEF TypeOK
<1>6. /\ exhaustedTables' = Cardinality({u \in Table : tableExhausted'[u]})
      /\ completedTables' = Cardinality({u \in Table : tableCompleted'[u]})
  <2> DEFINE full == w \/ done
  <2>1. exhaustedTables' = Cardinality({u \in Table : tableExhausted'[u]})
    <3>1. Cardinality({u \in Table : [tableExhausted EXCEPT ![t] = @ \/ done][u]}) =
             IF done /\ ~tableExhausted[t] THEN Cardinality({u \in Table : tableExhausted[u]}) + 1
                                           ELSE Cardinality({u \in Table : tableExhausted[u]})
      <4> HIDE DEF done
      <4>1. done \in BOOLEAN
        BY DEF done
      <4> QED  BY <1>1, <4>1, CountAfterSetting DEF TypeOK
    <3> QED  BY <1>4, <3>1 DEF LedgerAgrees
  <2>2. completedTables' = Cardinality({u \in Table : tableCompleted'[u]})
    <3>1. Cardinality({u \in Table : [tableCompleted EXCEPT ![t] = @ \/ full][u]}) =
             IF full /\ ~tableCompleted[t] THEN Cardinality({u \in Table : tableCompleted[u]}) + 1
                                           ELSE Cardinality({u \in Table : tableCompleted[u]})
      <4> HIDE DEF full
      <4>1. full \in BOOLEAN
        BY DEF full
      <4> QED  BY <1>1, <4>1, CountAfterSetting DEF TypeOK
    <3> QED  BY <1>4, <3>1 DEF LedgerAgrees
  <2> QED  BY <2>1, <2>2
<1>7. q' \in Seq(Table)
  <2>1. q' = q \/ q' = Append(q, t)
    BY <1>4
  <2> QED  BY <1>1, <2>1 DEF TypeOK
<1>8. TypeOK'
  <2>1. exhaustedTables' \in 0 .. TableCount /\ completedTables' \in 0 .. TableCount
    BY <1>6, TableSets
  <2>2. unread' \in [Table -> 0 .. Entries]
    BY <1>1, <1>3 DEF TypeOK
  <2> QED  BY <1>1, <1>5, <1>7, <2>1, <2>2 DEF TypeOK, Scan
<1>9. LedgerAgrees'
  <2>1. \A u \in Table : tableExhausted'[u] => tableCompleted'[u]
    BY <1>1, <1>4 DEF TypeOK, LedgerAgrees
  <2>2. \A u \in Table : tableExhausted'[u] <=> unread'[u] = 0
    BY <1>1, <1>3, <1>4 DEF TypeOK, LedgerAgrees
  <2> QED  BY <1>6, <2>1, <2>2 DEF LedgerAgrees
<1>10. QueueIsIncompleteTables'
  <2> USE DEF QueueIsIncompleteTables
  <2>0. t # NoTable /\ Len(q) \in Nat /\ DOMAIN q = 1 .. Len(q)
        /\ \A i \in DOMAIN q : q[i] \in Table /\ q[i] # t
    BY <1>1 DEF TypeOK
  <2>1. CASE w \/ done
    <3>1. q' = q /\ tableCompleted'[t]
          /\ \A u \in Table \ {t} : tableCompleted'[u] = tableCompleted[u]
      BY <1>1, <1>4, <2>1 DEF TypeOK
    <3> QED  BY <1>1, <2>0, <3>1
  <2>2. CASE ~(w \/ done)
    <3>1. tableCompleted' = tableCompleted /\ tableExhausted' = tableExhausted
      BY <1>1, <1>4, <2>2 DEF TypeOK
    <3>2. q' = Append(q, t)
      BY <1>1, <1>4, <2>2, <3>1
    <3>3. /\ DOMAIN q' = 1 .. Len(q) + 1
          /\ q'[Len(q) + 1] = t
          /\ \A i \in 1 .. Len(q) : q'[i] = q[i]
      BY <1>1, <2>0, <3>2 DEF TypeOK
    <3>4. \A i, j \in DOMAIN q' : q'[i] = q'[j] => i = j
      BY <2>0, <3>3
    <3>5. \A i \in DOMAIN q' : ~tableCompleted'[q'[i]] /\ q'[i] # scanning'
      BY <1>1, <2>0, <3>1, <3>3
    <3>6. ASSUME NEW u \in Table, ~tableCompleted'[u]
          PROVE  \E i \in DOMAIN q' : q'[i] = u
      BY <1>1, <2>0, <3>1, <3>3, <3>6
    <3> QED  BY <1>1, <3>4, <3>5, <3>6
  <2> QED  BY <2>1, <2>2
<1> QED  BY <1>8, <1>9, <1>10

LEMMA OnRadiusAdvancedIInv == IInv /\ OnRadiusAdvanced => IInv'
<1> SUFFICES ASSUME IInv, OnRadiusAdvanced PROVE IInv'
  OBVIOUS
<1> USE DEF IInv
<1> DEFINE live == {t \in Table : ~tableExhausted[t]}
<1>1. PICK q \in [1 .. Cardinality(live) -> live] :
         IsAscendingQueue(q, live) /\ pendingTables' = q
  BY DEF OnRadiusAdvanced
<1>2. /\ completedTables' = exhaustedTables /\ tableCompleted' = tableExhausted
      /\ tableExhausted' = tableExhausted /\ exhaustedTables' = exhaustedTables
      /\ scanning = NoTable /\ scanning' = NoTable /\ unread' = unread
      /\ advances' \in 0 .. MaxAdvances
  BY DEF OnRadiusAdvanced, CompletedAfterAdvance, TypeOK
<1>3. Cardinality(live) \in Nat
  BY TableSets
<1>4. q \in Seq(Table) /\ Len(q) = Cardinality(live) /\ DOMAIN q = 1 .. Cardinality(live)
  <2>1. live \subseteq Table
    OBVIOUS
  <2>2. q \in [1 .. Cardinality(live) -> live]
    BY <1>1
  <2> HIDE DEF live
  <2> QED  BY <1>3, <2>1, <2>2
<1>5. TypeOK'
  BY <1>1, <1>2, <1>4 DEF TypeOK
<1>6. LedgerAgrees'
  BY <1>2 DEF LedgerAgrees
<1>7. QueueIsIncompleteTables'
  <2>1. \A i, j \in DOMAIN q : q[i] = q[j] => i = j
    <3>1. \A i, j \in 1 .. Len(q) : i < j => q[i] < q[j]
      BY <1>1 DEF IsAscendingQueue
    <3>2. \A i \in 1 .. Len(q) : q[i] \in Int
      BY <1>1, <1>4 DEF Table
    <3> QED  BY <1>3, <1>4, <3>1, <3>2
  <2>2. \A i \in DOMAIN q : ~tableExhausted[q[i]] /\ q[i] # NoTable
    BY <1>1, <1>4
  <2>3. \A t \in Table : ~tableExhausted[t] => \E i \in DOMAIN q : q[i] = t
    BY <1>1 DEF IsAscendingQueue, Range
  <2> QED  BY <1>1, <1>2, <2>1, <2>2, <2>3 DEF QueueIsIncompleteTables
<1> QED  BY <1>5, <1>6, <1>7

LEMMA StepKeepsIInv == IInv /\ [Next]_vars => IInv'
<1> SUFFICES ASSUME IInv, [Next]_vars PROVE IInv'
  OBVIOUS
<1>1. CASE NextTable
  BY <1>1, NextTableIInv
<1>2. CASE Scan
  BY <1>2, ScanIInv
<1>3. CASE OnRadiusAdvanced
  BY <1>3, OnRadiusAdvancedIInv
<1>4. CASE UNCHANGED vars
  BY <1>4 DEF IInv, TypeOK, LedgerAgrees, QueueIsIncompleteTables, vars, ledger
<1> QED  BY <1>1, <1>2, <1>3, <1>4 DEF Next

\* The invariant holds in every reachable state: the counters are the sizes of
\* the ledgers, and the queue and the scan hold the incomplete tables (start,
\* next_table, on_scan_boundary, on_radius_advanced of TableScanSchedule).
THEOREM Invariance == Spec => []IInv
BY StepKeepsIInv, InitIInv, PTL DEF Spec

\* The scheduler's state keeps its types: counters never pass table_count_,
\* the queue holds only valid table ids.
THEOREM TypeCorrect == Spec => []TypeOK
<1>1. IInv => TypeOK
  BY DEF IInv
<1> QED  BY <1>1, Invariance, PTL

\* The two counters are the sizes of the two flag ledgers at every step, so
\* round_complete() and all_tables_exhausted() tell the truth.
THEOREM LedgerAgreesAlways == Spec => []LedgerAgrees
<1>1. IInv => LedgerAgrees
  BY DEF IInv
<1> QED  BY <1>1, Invariance, PTL

\* No table is dropped from a round and none is queued twice.
THEOREM QueueAlwaysExact == Spec => []QueueIsIncompleteTables
<1>1. IInv => QueueIsIncompleteTables
  BY DEF IInv
<1> QED  BY <1>1, Invariance, PTL

\* When next_table returns nothing and no scan is in flight, the round is
\* complete: DefaultQalshStrategy::next never skips part of a window.
THEOREM EmptyQueueMeansRoundComplete ==
  Spec => [](scanning = NoTable /\ ~HasPending => RoundComplete)
<1>1. IInv => (scanning = NoTable /\ ~HasPending => RoundComplete)
  <2> SUFFICES ASSUME IInv, scanning = NoTable, pendingTables = <<>>
               PROVE  completedTables = TableCount
    BY DEF HasPending, RoundComplete
  <2>1. {t \in Table : tableCompleted[t]} = Table
    BY DEF IInv, QueueIsIncompleteTables
  <2>2. Cardinality(Table) = TableCount
    BY FS_Interval DEF Table
  <2> QED  BY <2>1, <2>2 DEF IInv, LedgerAgrees
<1> QED  BY <1>1, Invariance, PTL

\* A queue that loses its first table, or gains one at its end that it does not
\* hold, keeps the order of the tables it keeps.
LEMMA TailKeepsOrder ==
  ASSUME NEW q \in Seq(Table), q # <<>>, NEW i \in DOMAIN Tail(q), NEW j \in DOMAIN Tail(q), i < j
  PROVE  /\ i + 1 \in DOMAIN q /\ j + 1 \in DOMAIN q /\ i + 1 < j + 1
         /\ Tail(q)[i] = q[i + 1] /\ Tail(q)[j] = q[j + 1]
OBVIOUS

LEMMA AppendKeepsOrder ==
  ASSUME NEW q \in Seq(Table), NEW x \in Table,
         NEW i \in DOMAIN Append(q, x), NEW j \in DOMAIN Append(q, x), i < j
  PROVE  /\ i \in DOMAIN q /\ Append(q, x)[i] = q[i]
         /\ \/ j \in DOMAIN q /\ Append(q, x)[j] = q[j]
            \/ Append(q, x)[j] = x
OBVIOUS

\* Round robin, for any number of tables: no step within a window lets a table
\* overtake one that stays queued (next_table takes from the front,
\* on_scan_boundary puts back at the end).
THEOREM NothingOvertakes == Spec => NoOvertaking
<1>1. ASSUME IInv, [Next]_vars, advances' = advances, NEW t \in Table, NEW u \in Table,
             t \in Range(pendingTables), Before(u, t)'
      PROVE  Before(u, t)
  <2>1. pendingTables \in Seq(Table) /\ advances \in Nat
    BY <1>1, TableScheduleAssumption DEF IInv, TypeOK
  <2>2. PICK i \in DOMAIN pendingTables', j \in DOMAIN pendingTables' :
           i < j /\ pendingTables'[i] = u /\ pendingTables'[j] = t
    BY <1>1 DEF Before
  <2>3. CASE NextTable
    <3>1. pendingTables' = Tail(pendingTables) /\ pendingTables # <<>>
      BY <2>3 DEF NextTable, HasPending
    <3> QED  BY <2>1, <2>2, <3>1, TailKeepsOrder DEF Before
  <2>4. CASE Scan
    <3>1. /\ scanning \in Table
          /\ pendingTables' = pendingTables \/ pendingTables' = Append(pendingTables, scanning)
      BY <1>1, <2>4 DEF Scan, OnScanBoundary, Requeue, IInv, TypeOK
    <3>2. t # scanning
      BY <1>1 DEF IInv, QueueIsIncompleteTables, Range
    <3>3. CASE pendingTables' = pendingTables
      BY <2>2, <3>3 DEF Before
    <3>4. CASE pendingTables' = Append(pendingTables, scanning)
      BY <2>1, <2>2, <3>1, <3>2, <3>4, AppendKeepsOrder DEF Before
    <3> QED  BY <3>1, <3>3, <3>4
  <2>5. CASE OnRadiusAdvanced
    BY <1>1, <2>1, <2>5 DEF OnRadiusAdvanced
  <2>6. CASE UNCHANGED vars
    BY <2>2, <2>6 DEF vars, Before
  <2> QED  BY <1>1, <2>3, <2>4, <2>5, <2>6 DEF Next
<1>2. IInv /\ [Next]_vars =>
        [advances' = advances =>
           \A t, u \in Table :
              /\ t \in Range(pendingTables) /\ t \in Range(pendingTables')
              /\ u \in Range(pendingTables') /\ ~Before(u, t)
              => ~Before(u, t)']_vars
  BY <1>1
<1> QED  BY <1>2, Invariance, PTL DEF Spec, NoOvertaking
=============================================================================
