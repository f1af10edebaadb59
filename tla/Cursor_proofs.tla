---------------------------- MODULE Cursor_proofs ----------------------------
(***************************************************************************)
(* Every interleaving of resets and scans keeps the cursor contract, for   *)
(* every sorted table, region capacity, bound sequence and quantum.  The   *)
(* inductive invariant adds to the checked properties that the cursor is   *)
(* well placed: a blocked side alone does not say that nothing was missed. *)
(*                                                                         *)
(* ClampToWindow returns the longest inside prefix and reads nothing but   *)
(* the range, for ranges of every length.  The inductive invariant is the  *)
(* one of a binary search, lo <= prefix <= hi, with the two facts the      *)
(* endpoint checks establish: the prefix is neither empty nor everything.  *)
(* A scan calls it on ranges of that kind, and takes what it returns.      *)
(***************************************************************************)
EXTENDS ProjectionCursor, CursorScan_proofs, WindowClamp

USE CursorScanAssumption, ProjectionCursorAssumption

DeliveredIsInterval ==
    delivered = [i \in Position |-> IF cursor.left < i /\ i < cursor.right THEN 1 ELSE 0]

ReportIsCurrent ==
    report.kind = "scan" =>
        /\ report.windowExhausted = WindowExhausted(cursor)
        /\ report.tableExhausted = TableExhausted(cursor)

IInv ==
    /\ IsSortedTable(table)
    /\ WellPlaced(table, cursor)
    /\ DeliveredIsInterval
    /\ report \in Reports
    /\ ReportIsCurrent
    /\ ScanStaysInQuantum

\* Nothing is delivered by a reset.
LEMMA ResetEstablishes ==
  ASSUME NEW q \in ValueRange, IsSortedTable(table)
  PROVE  LET c == ResetCursor(table, q)
         IN  /\ WellPlaced(table, c)
             /\ [i \in Position |-> 0] =
                  [i \in Position |-> IF c.left < i /\ i < c.right THEN 1 ELSE 0]
<1> DEFINE c == ResetCursor(table, q)
<1>1. WellPlaced(table, c) /\ c.right = c.left + 1
  BY ResetIsWellPlaced
<1> HIDE DEF c
<1>2. c.left \in Int
  BY <1>1 DEF WellPlaced, CursorRecord
<1>3. \A i \in Position : ~(c.left < i /\ i < c.right)
  BY <1>1, <1>2 DEF Position
<1> QED  BY <1>1, <1>3 DEF c

LEMMA NoScanReport ==
  /\ NoReport \in Reports /\ NoReport.kind # "scan"
  /\ Rejected \in Reports /\ Rejected.kind # "scan"
BY DEF Reports, NoReport, Rejected

LEMMA InitIInv == Init => IInv
<1> SUFFICES ASSUME Init PROVE IInv
  OBVIOUS
<1>1. IsSortedTable(table)
  BY DEF Init
<1>2. PICK q \in ValueRange : cursor = ResetCursor(table, q)
  BY DEF Init
<1>3. WellPlaced(table, cursor) /\ DeliveredIsInterval
  BY <1>1, <1>2, ResetEstablishes DEF Init, DeliveredIsInterval
<1>4. report \in Reports /\ report.kind # "scan"
  BY NoScanReport DEF Init
<1> QED  BY <1>1, <1>3, <1>4 DEF IInv, ReportIsCurrent, ScanStaysInQuantum

LEMMA ResetIInv == ASSUME IInv, NEW q \in ValueRange, Reset(q) PROVE IInv'
<1>1. IsSortedTable(table) /\ table' = table
  BY DEF IInv, Reset
<1>2. WellPlaced(table, cursor)' /\ DeliveredIsInterval'
  <2>1. cursor' = ResetCursor(table, q) /\ delivered' = [i \in Position |-> 0]
    BY DEF Reset
  <2> QED  BY <1>1, <2>1, ResetEstablishes DEF DeliveredIsInterval
<1>3. report' \in Reports /\ report'.kind # "scan"
  BY NoScanReport DEF Reset
<1> QED  BY <1>1, <1>2, <1>3 DEF IInv, ReportIsCurrent, ScanStaysInQuantum

LEMMA ScanRejectedIInv ==
  ASSUME IInv, NEW bound \in Bounds, ScanRejected(bound) PROVE IInv'
<1>1. report' \in Reports /\ report'.kind # "scan"
  BY NoScanReport DEF ScanRejected
<1>2. UNCHANGED <<table, cursor, delivered>>
  BY DEF ScanRejected
<1> QED
  BY <1>1, <1>2 DEF IInv, ReportIsCurrent, ScanStaysInQuantum, DeliveredIsInterval

LEMMA ScanIInv ==
  ASSUME IInv, NEW bound \in Bounds, NEW maxEntries \in Quanta, NEW scope \in Scopes,
         Scan(bound, maxEntries, scope)
  PROVE  IInv'
<1> DEFINE s == ScanCursor(table, cursor, bound, maxEntries, scope)
           e == s.cursor
<1>1. /\ IsSortedTable(table) /\ WellPlaced(table, cursor) /\ bound >= cursor.lastBound
      /\ table' = table /\ cursor' = e
      /\ bound \in Nat /\ maxEntries \in Nat \ {0}
  BY DEF IInv, Scan
<1>2. /\ WellPlaced(table, e) /\ e.lastBound = bound /\ e.query = cursor.query
      /\ e.left <= cursor.left /\ e.right >= cursor.right
      /\ s.hits \in Seq(Position)
      /\ \A i \in Position :
           (\E j \in DOMAIN s.hits : s.hits[j] = i) <=>
              (e.left < i /\ i <= cursor.left) \/ (cursor.right <= i /\ i < e.right)
      /\ scope = "quantum" => Len(s.hits) <= maxEntries
      /\ Len(s.hits) = 0 => WindowExhausted(e)
      /\ s.windowExhausted = WindowExhausted(e)
      /\ s.tableExhausted = TableExhausted(e)
  <2>1. /\ WellPlaced(table, e) /\ e.lastBound = bound /\ e.query = cursor.query
        /\ e.left <= cursor.left /\ e.right >= cursor.right
        /\ s.hits \in Seq(Position)
        /\ Len(s.hits) = (cursor.left - e.left) + (e.right - cursor.right)
        /\ \A j, k \in DOMAIN s.hits : s.hits[j] = s.hits[k] => j = k
        /\ \A i \in Position :
             (\E j \in DOMAIN s.hits : s.hits[j] = i) <=>
                (e.left < i /\ i <= cursor.left) \/ (cursor.right <= i /\ i < e.right)
        /\ scope = "quantum" => Len(s.hits) <= maxEntries
        /\ Len(s.hits) = 0 => WindowExhausted(e)
        /\ s.windowExhausted = WindowExhausted(e)
        /\ s.tableExhausted = TableExhausted(e)
    BY <1>1, ScanIsCorrect
  <2> QED  BY <2>1
<1>3. report' = [kind |-> "scan", maxEntries |-> maxEntries, scope |-> scope,
                 visited |-> Len(s.hits), windowExhausted |-> s.windowExhausted,
                 tableExhausted |-> s.tableExhausted]
  BY DEF Scan
<1>4. delivered' = [i \in Position |->
                      delivered[i] + IF \E j \in DOMAIN s.hits : s.hits[j] = i THEN 1 ELSE 0]
  BY DEF Scan
<1>5. /\ cursor.left \in Int /\ cursor.right \in Int /\ cursor.left < cursor.right
      /\ e.left \in Int /\ e.right \in Int
  BY <1>1, <1>2 DEF WellPlaced, CursorRecord
<1> HIDE DEF s
<1>6. DeliveredIsInterval'
  <2> SUFFICES delivered' = [i \in Position |-> IF e.left < i /\ i < e.right THEN 1 ELSE 0]
    BY <1>1 DEF DeliveredIsInterval
  <2> SUFFICES ASSUME NEW i \in Position
               PROVE  delivered[i] + (IF \E j \in DOMAIN s.hits : s.hits[j] = i THEN 1 ELSE 0)
                      = IF e.left < i /\ i < e.right THEN 1 ELSE 0
    BY <1>4
  <2> DEFINE hit == \E j \in DOMAIN s.hits : s.hits[j] = i
             x == cursor.left
             y == cursor.right
  <2>1. delivered[i] = IF x < i /\ i < y THEN 1 ELSE 0
    BY DEF IInv, DeliveredIsInterval
  <2>2. hit <=> (e.left < i /\ i <= x) \/ (y <= i /\ i < e.right)
    BY <1>2
  <2>3. x \in Int /\ y \in Int /\ x < y /\ e.left <= x /\ e.right >= y /\ i \in Int
    BY <1>2, <1>5 DEF Position
  <2> HIDE DEF hit, x, y
  <2>4. delivered[i] + (IF hit THEN 1 ELSE 0) = IF e.left < i /\ i < e.right THEN 1 ELSE 0
    BY <1>5, <2>1, <2>2, <2>3
  <2> QED  BY <2>4 DEF hit
<1>7. report' \in Reports
  <2>1. Len(s.hits) \in Nat /\ WindowExhausted(e) \in BOOLEAN /\ TableExhausted(e) \in BOOLEAN
    BY <1>2 DEF WindowExhausted, TableExhausted
  <2> QED  BY <1>1, <1>2, <1>3, <2>1 DEF Reports
<1>8. ReportIsCurrent' /\ ScanStaysInQuantum'
  BY <1>1, <1>2, <1>3 DEF ReportIsCurrent, ScanStaysInQuantum
<1> QED  BY <1>1, <1>2, <1>6, <1>7, <1>8 DEF IInv

LEMMA StepIInv == IInv /\ [Next]_vars => IInv'
<1> SUFFICES ASSUME IInv, [Next]_vars PROVE IInv'
  OBVIOUS
<1>1. CASE \E q \in ValueRange : Reset(q)
  BY <1>1, ResetIInv
<1>2. CASE \E bound \in Bounds, maxEntries \in Quanta, scope \in Scopes :
             Scan(bound, maxEntries, scope)
  BY <1>2, ScanIInv
<1>3. CASE \E bound \in Bounds : ScanRejected(bound)
  BY <1>3, ScanRejectedIInv
<1>4. CASE UNCHANGED vars
  BY <1>4 DEF vars, IInv, ReportIsCurrent, ScanStaysInQuantum, DeliveredIsInterval
<1> QED  BY <1>1, <1>2, <1>3, <1>4 DEF Next

\* The inductive invariant holds in every reachable state.
LEMMA Invariance == Spec => []IInv
BY InitIInv, StepIInv, PTL DEF Spec

\* make_cursor, reset_cursor and scan keep the cursor's fields in their ranges.
THEOREM TypeCorrect == Spec => []TypeOK
<1>1. IInv => TypeOK
  <2> SUFFICES ASSUME IInv PROVE TypeOK
    OBVIOUS
  <2>1. delivered \in [Position -> Nat]
    BY DEF IInv, DeliveredIsInterval
  <2> QED  BY <2>1 DEF IInv, TypeOK, WellPlaced
<1> QED  BY <1>1, Invariance, PTL

\* scan never delivers an entry twice for one query, nor one outside the window.
THEOREM DeliveryIsExactlyOnce == Spec => []DeliveredOnceInWindow
<1>1. IInv => DeliveredOnceInWindow
  <2> SUFFICES ASSUME IInv, NEW i \in Position
               PROVE  /\ delivered[i] = IF cursor.left < i /\ i < cursor.right THEN 1 ELSE 0
                      /\ delivered[i] = 1 => Inside(table, cursor.query, i, cursor.lastBound)
    BY DEF DeliveredOnceInWindow
  <2>1. delivered[i] = IF cursor.left < i /\ i < cursor.right THEN 1 ELSE 0
    BY DEF IInv, DeliveredIsInterval
  <2>2. cursor.left \in Int /\ cursor.right \in Int
    BY DEF IInv, WellPlaced, CursorRecord
  <2>3. ASSUME cursor.left < i /\ i < cursor.right
        PROVE  Inside(table, cursor.query, i, cursor.lastBound)
    BY <2>2, <2>3 DEF IInv, WellPlaced, Position
  <2> QED  BY <2>1, <2>3
<1> QED  BY <1>1, Invariance, PTL

\* A scan that reports a closed window has left no entry of it undelivered.
THEOREM ClosedReportsAreExact == Spec => []WindowReportIsExact
<1>1. IInv => WindowReportIsExact
  <2> SUFFICES ASSUME IInv, report.kind = "scan"
               PROVE  /\ report.windowExhausted =>
                           \A i \in Position :
                              Inside(table, cursor.query, i, cursor.lastBound)
                                 <=> delivered[i] = 1
                      /\ report.tableExhausted <=> \A i \in Position : delivered[i] = 1
    BY DEF WindowReportIsExact
  <2>1. \A i \in Position : delivered[i] = 1 <=> cursor.left < i /\ i < cursor.right
    BY DEF IInv, DeliveredIsInterval
  <2>2. ASSUME report.windowExhausted, NEW i \in Position
        PROVE  Inside(table, cursor.query, i, cursor.lastBound) <=> delivered[i] = 1
    <3>1. WindowExhausted(cursor) /\ IsSortedTable(table) /\ WellPlaced(table, cursor)
      BY <2>2 DEF IInv, ReportIsCurrent
    <3> QED  BY <2>1, <3>1, ClosedWindowIsComplete
  <2>3. report.tableExhausted = TableExhausted(cursor)
    BY DEF IInv, ReportIsCurrent
  <2>4. /\ cursor.left \in 0 .. EntryCount /\ cursor.right \in 1 .. EntryCount + 1
        /\ cursor.left < cursor.right
    BY DEF IInv, WellPlaced, CursorRecord
  <2>5. TableExhausted(cursor) <=> \A i \in Position : cursor.left < i /\ i < cursor.right
    <3>1. ASSUME TableExhausted(cursor), NEW i \in Position
          PROVE  cursor.left < i /\ i < cursor.right
      BY <3>1 DEF TableExhausted, Position
    <3>2. ASSUME \A i \in Position : cursor.left < i /\ i < cursor.right
          PROVE  TableExhausted(cursor)
      <4>1. 1 \in Position /\ EntryCount \in Position
        BY DEF Position
      <4> QED  BY <2>4, <3>2, <4>1 DEF TableExhausted
    <3> QED  BY <3>1, <3>2
  <2> QED  BY <2>1, <2>2, <2>3, <2>5
<1> QED  BY <1>1, Invariance, PTL

\* A quantum is never exceeded and an open window always made progress.
THEOREM QuantumIsKept == Spec => []ScanStaysInQuantum
<1>1. IInv => ScanStaysInQuantum
  BY DEF IInv
<1> QED  BY <1>1, Invariance, PTL

-----------------------------------------------------------------------------
(* How ClampToWindow finds what a scan takes. *)

USE WindowClampAssumption

Bracket ==
    /\ pc = "farEnd" => lo = 0 /\ hi = 0
    /\ pc = "firstEntry" => count > 0 /\ prefix < count
    /\ pc \in {"blocks", "halving"} =>
          1 <= lo /\ lo <= prefix /\ prefix <= hi /\ prefix < count
    /\ pc = "done" => lo = prefix

ClampInv == ClampTypeOK /\ Bracket /\ ReadsWithinRange

LEMMA InsideIsPrefix ==
  ASSUME ClampTypeOK, NEW p \in Int
  PROVE  /\ Place(p) \in Int
         /\ InsideAt(Place(p)) <=> p < prefix
         /\ Place(p) \in 1 .. count <=> p \in 0 .. count - 1
<1>1. count \in Nat /\ prefix \in Nat
  BY DEF ClampTypeOK
<1>2. CASE reverse
  BY <1>1, <1>2 DEF Place, InsideAt
<1>3. CASE ~reverse
  BY <1>1, <1>3 DEF Place, InsideAt
<1> QED  BY <1>2, <1>3

\* The four lanes hold the values of four consecutive logical positions.
LEMMA LanesInOrder ==
  ASSUME ClampTypeOK, NEW p \in Int
  PROVE  LoadFour(p) = <<Place(p), Place(p + 1), Place(p + 2), Place(p + 3)>>
<1>1. count \in Nat
  BY DEF ClampTypeOK
<1>2. CASE ~reverse
  <2>1. Place(p) = p + 1 /\ Place(p + 1) = p + 2 /\ Place(p + 2) = p + 3 /\ Place(p + 3) = p + 4
    BY <1>2 DEF Place
  <2>2. LoadFour(p) = LoadFourForward(p + 1)
    BY <1>2, <2>1 DEF LoadFour
  <2>3. \A m \in Int : LoadFourForward(m) = <<m, m + 1, m + 2, m + 2 + 1>>
    BY DEF LoadFourForward, LoadPair, Shuffle, UnpackLow
  <2> QED  BY <2>1, <2>2, <2>3
<1>3. CASE reverse
  <2>1. /\ Place(p) = count - p /\ Place(p + 1) = count - p - 1
        /\ Place(p + 2) = count - p - 2 /\ Place(p + 3) = count - p - 3
    BY <1>1, <1>3 DEF Place
  <2>2. LoadFour(p) = LoadFourReverse(count - p)
    BY <1>3, <2>1 DEF LoadFour
  <2>3. \A m \in Int : LoadFourReverse(m) = <<m - 1 + 1, m - 1, m - 3 + 1, m - 3>>
    BY DEF LoadFourReverse, LoadPair, Shuffle, UnpackLow
  <2> QED  BY <1>1, <2>1, <2>2, <2>3
<1> QED  BY <1>2, <1>3

\* What a block probe finds: the lanes before the end of the prefix.
LEMMA BlockProbe ==
  ASSUME ClampTypeOK, NEW p \in Nat
  PROVE  /\ InsideMask(p) = {l \in 0 .. 3 : p + l < prefix}
         /\ InsideMask(p) = 0 .. 3 => p + 4 <= prefix
         /\ InsideMask(p) = {} => prefix <= p
         /\ InsideMask(p) \notin {{}, 0 .. 3} => p + FirstZero(InsideMask(p)) = prefix
         /\ p + 4 <= count => {LoadFour(p)[l] : l \in 1 .. 4} \subseteq 1 .. count
<1>1. prefix \in Nat /\ count \in Nat
  BY DEF ClampTypeOK
<1>2. \A l \in 0 .. 3 : LoadFour(p)[l + 1] = Place(p + l)
  <2>1. LoadFour(p) = <<Place(p), Place(p + 1), Place(p + 2), Place(p + 3)>>
    BY LanesInOrder
  <2>2. /\ LoadFour(p)[0 + 1] = Place(p + 0) /\ LoadFour(p)[1 + 1] = Place(p + 1)
        /\ LoadFour(p)[2 + 1] = Place(p + 2) /\ LoadFour(p)[3 + 1] = Place(p + 3)
    BY <2>1
  <2>3. \A l \in 0 .. 3 : l = 0 \/ l = 1 \/ l = 2 \/ l = 3
    OBVIOUS
  <2> QED  BY <2>2, <2>3
<1>3. InsideMask(p) = {l \in 0 .. 3 : p + l < prefix}
  <2>1. \A l \in 0 .. 3 : InsideAt(LoadFour(p)[l + 1]) <=> p + l < prefix
    BY <1>2, InsideIsPrefix
  <2> QED  BY <2>1 DEF InsideMask, Lanes
<1> DEFINE mask == InsideMask(p)
<1>4. mask = {l \in 0 .. 3 : p + l < prefix}
  BY <1>3
<1> HIDE DEF mask
<1>5. mask = 0 .. 3 => p + 4 <= prefix
  <2>1. mask = 0 .. 3 => 3 \in mask
    OBVIOUS
  <2> QED  BY <1>1, <1>4, <2>1
<1>6. mask = {} => prefix <= p
  <2>1. mask = {} => 0 \notin mask
    OBVIOUS
  <2> QED  BY <1>1, <1>4, <2>1
<1>7. mask \notin {{}, 0 .. 3} => p + FirstZero(mask) = prefix
  <2> SUFFICES ASSUME mask # {}, mask # 0 .. 3 PROVE p + FirstZero(mask) = prefix
    OBVIOUS
  <2> DEFINE z == prefix - p
  <2>1. z \in 1 .. 3 /\ \A l \in 0 .. 3 : l \in mask <=> l < z
    <3>1. PICK x \in mask : TRUE
      OBVIOUS
    <3>2. PICK y \in 0 .. 3 : y \notin mask
      BY <1>4
    <3>3. p + x < prefix /\ ~(p + y < prefix) /\ x \in 0 .. 3
      BY <1>4, <3>1, <3>2
    <3> QED  BY <1>1, <1>4, <3>3
  <2> HIDE DEF z
  <2> DEFINE f == FirstZero(mask)
  <2>2. f \in 0 .. 3 /\ f \notin mask /\ \A j \in 0 .. f - 1 : j \in mask
    <3>1. z \in 0 .. 3 /\ z \notin mask /\ \A j \in 0 .. z - 1 : j \in mask
      BY <2>1
    <3> QED  BY <3>1 DEF FirstZero, Lanes
  <2> HIDE DEF f
  <2>3. f = z
    BY <2>1, <2>2
  <2> QED  BY <1>1, <2>3 DEF f, z
<1>8. ASSUME p + 4 <= count PROVE {LoadFour(p)[l] : l \in 1 .. 4} \subseteq 1 .. count
  <2>1. \A l \in 1 .. 4 : LoadFour(p)[l] = Place(p + (l - 1))
    BY <1>2
  <2>2. \A l \in 1 .. 4 : p + (l - 1) \in 0 .. count - 1
    BY <1>1, <1>8
  <2>3. \A l \in 1 .. 4 : Place(p + (l - 1)) \in 1 .. count
    BY <2>2, InsideIsPrefix
  <2> QED  BY <2>1, <2>3
<1> QED  BY <1>3, <1>5, <1>6, <1>7, <1>8 DEF mask

LEMMA InitClampInv == InitClamp => ClampInv
BY DEF InitClamp, ClampInv, ClampTypeOK, Bracket, ReadsWithinRange

LEMMA FarEndClampInv == ClampInv /\ FarEnd => ClampInv'
<1> SUFFICES ASSUME ClampInv, FarEnd PROVE ClampInv'
  OBVIOUS
<1>1. ClampTypeOK /\ count \in Nat /\ prefix \in 0 .. count
  BY DEF ClampInv, ClampTypeOK
<1>2. CASE count = 0
  BY <1>1, <1>2 DEF ClampInv, ClampTypeOK, Bracket, ReadsWithinRange, FarEnd, Return, input
<1>3. CASE count # 0
  <2>1. /\ InsideAt(Place(count - 1)) <=> count - 1 < prefix
        /\ Place(count - 1) \in 1 .. count
    BY <1>1, <1>3, InsideIsPrefix
  <2> QED  BY <1>1, <1>3, <2>1
           DEF ClampInv, ClampTypeOK, Bracket, ReadsWithinRange, FarEnd, Return, input
<1> QED  BY <1>2, <1>3

LEMMA FirstEntryClampInv == ClampInv /\ FirstEntry => ClampInv'
<1> SUFFICES ASSUME ClampInv, FirstEntry PROVE ClampInv'
  OBVIOUS
<1>1. /\ ClampTypeOK /\ count \in Nat \ {0} /\ prefix \in 0 .. count /\ prefix < count
  BY DEF ClampInv, ClampTypeOK, Bracket, FirstEntry
<1>2. (InsideAt(Place(0)) <=> 0 < prefix) /\ Place(0) \in 1 .. count
  BY <1>1, InsideIsPrefix
<1> QED  BY <1>1, <1>2 DEF ClampInv, ClampTypeOK, Bracket, ReadsWithinRange, FirstEntry, Return, input

LEMMA ProbeBlockClampInv == ClampInv /\ ProbeBlock => ClampInv'
<1> SUFFICES ASSUME ClampInv, ProbeBlock PROVE ClampInv'
  OBVIOUS
<1> DEFINE start == BlockStart
           mask == InsideMask(start)
<1>1. /\ ClampTypeOK /\ count \in Nat /\ prefix \in Nat /\ lo \in Nat /\ hi \in Nat
      /\ 1 <= lo /\ lo <= prefix /\ prefix <= hi /\ prefix < count /\ hi <= count
      /\ hi - lo > 4 /\ pc = "blocks"
  BY DEF ClampInv, ClampTypeOK, Bracket, ProbeBlock, Lanes
<1>2. start \in Nat /\ lo <= start /\ start + 4 <= hi
  BY <1>1 DEF BlockStart, Middle, Lanes
<1>3. /\ mask = 0 .. 3 => start + 4 <= prefix
      /\ mask = {} => prefix <= start
      /\ mask \notin {{}, 0 .. 3} => start + FirstZero(mask) = prefix
      /\ {LoadFour(start)[l] : l \in 1 .. 4} \subseteq 1 .. count
  <2> HIDE DEF start
  <2> QED  BY <1>1, <1>2, BlockProbe
<1>4. /\ UNCHANGED <<count, prefix, reverse, sse2>>
      /\ read' = {LoadFour(start)[l] : l \in 1 .. 4}
      /\ \/ mask = 0 .. 3 /\ lo' = start + 4 /\ UNCHANGED <<pc, hi>>
         \/ mask = {} /\ hi' = start /\ UNCHANGED <<pc, lo>>
         \/ mask \notin {{}, 0 .. 3} /\ Return(start + FirstZero(mask))
  BY DEF ProbeBlock, input, Lanes
<1> HIDE DEF start, mask
<1>5. ReadsWithinRange'
  BY <1>3, <1>4 DEF ReadsWithinRange
<1>6. CASE mask = 0 .. 3
  <2>1. lo' = start + 4 /\ UNCHANGED <<pc, hi, count, prefix, reverse, sse2>>
    BY <1>4, <1>6
  <2> QED  BY <1>1, <1>2, <1>3, <1>5, <1>6, <2>1 DEF ClampInv, ClampTypeOK, Bracket, ReadsWithinRange
<1>7. CASE mask = {}
  <2>1. hi' = start /\ UNCHANGED <<pc, lo, count, prefix, reverse, sse2>>
    BY <1>4, <1>7
  <2> QED  BY <1>1, <1>2, <1>3, <1>5, <1>7, <2>1 DEF ClampInv, ClampTypeOK, Bracket, ReadsWithinRange
<1>8. CASE mask \notin {{}, 0 .. 3}
  <2>1. pc' = "done" /\ lo' = prefix /\ hi' = prefix /\ UNCHANGED <<count, prefix, reverse, sse2>>
    BY <1>3, <1>4, <1>8 DEF Return
  <2> QED  BY <1>1, <1>5, <2>1 DEF ClampInv, ClampTypeOK, Bracket, ReadsWithinRange
<1> QED  BY <1>6, <1>7, <1>8

LEMMA ProbeEntryClampInv == ClampInv /\ ProbeEntry => ClampInv'
<1> SUFFICES ASSUME ClampInv, ProbeEntry PROVE ClampInv'
  OBVIOUS
<1> DEFINE m == Middle
<1>1. /\ ClampTypeOK /\ count \in Nat /\ prefix \in Nat /\ lo \in Nat /\ hi \in Nat
      /\ 1 <= lo /\ lo <= prefix /\ prefix <= hi /\ prefix < count /\ hi <= count
      /\ lo < hi /\ pc = "halving"
  BY DEF ClampInv, ClampTypeOK, Bracket, ProbeEntry
<1>2. m \in Nat /\ lo <= m /\ m < hi
  BY <1>1 DEF Middle
<1>3. /\ read' = {Place(m)} /\ UNCHANGED <<pc, count, prefix, reverse, sse2>>
      /\ IF InsideAt(Place(m)) THEN lo' = m + 1 /\ hi' = hi ELSE hi' = m /\ lo' = lo
  BY DEF ProbeEntry, input, AfterInside
<1> HIDE DEF m
<1>4. (InsideAt(Place(m)) <=> m < prefix) /\ Place(m) \in 1 .. count
  BY <1>1, <1>2, InsideIsPrefix
<1> QED  BY <1>1, <1>2, <1>3, <1>4 DEF ClampInv, ClampTypeOK, Bracket, ReadsWithinRange

LEMMA ClampInvariance == ClampSpec => []ClampInv
<1>1. ClampInv /\ [NextClamp]_clampVars => ClampInv'
  <2> SUFFICES ASSUME ClampInv, [NextClamp]_clampVars PROVE ClampInv'
    OBVIOUS
  <2>1. CASE LeaveBlocks
    BY <2>1 DEF LeaveBlocks, input, ClampInv, ClampTypeOK, Bracket, ReadsWithinRange
  <2>2. CASE LeaveHalving
    BY <2>2 DEF LeaveHalving, Return, input, ClampInv, ClampTypeOK, Bracket, ReadsWithinRange
  <2>3. CASE UNCHANGED clampVars
    BY <2>3 DEF clampVars, input, ClampInv, ClampTypeOK, Bracket, ReadsWithinRange
  <2> QED  BY <2>1, <2>2, <2>3, FarEndClampInv, FirstEntryClampInv, ProbeBlockClampInv, ProbeEntryClampInv DEF NextClamp
<1> QED  BY <1>1, InitClampInv, PTL DEF ClampSpec

\* The bounds of the search stay within the range and in order
\* (window_detail::ClampToWindow).
THEOREM ClampTypeCorrect == ClampSpec => []ClampTypeOK
<1>1. ClampInv => ClampTypeOK
  BY DEF ClampInv
<1> QED  BY <1>1, ClampInvariance, PTL

\* Both builds return the longest inside prefix of any range, forward or
\* reverse.
THEOREM ClampIsExact == ClampSpec => []FindsLongestPrefix
<1>1. ClampInv => FindsLongestPrefix
  BY DEF ClampInv, Bracket, FindsLongestPrefix
<1> QED  BY <1>1, ClampInvariance, PTL

\* No probe, of one entry or of four, reads beyond the range.
THEOREM ReadsStayInRange == ClampSpec => []ReadsWithinRange
<1>1. ClampInv => ReadsWithinRange
  BY DEF ClampInv
<1> QED  BY <1>1, ClampInvariance, PTL

\* The entries that one side of a scan walks over: n of them from the cursor's
\* position outward.
IsSide(c, first, step, n) ==
    \/ first = c.left /\ step = -1 /\ n \in 0 .. c.left
    \/ first = c.right /\ step = 1 /\ n \in 0 .. EntryCount - c.right + 1

\* What WindowClamp takes for granted of the range that ClampToWindow is called
\* with: walking outward from the query, the entries inside the window come
\* first, whatever the bound.
THEOREM SidesBeginInside ==
  ASSUME NEW values, IsSortedTable(values), NEW c, WellPlaced(values, c),
         NEW first, NEW step, NEW n, IsSide(c, first, step, n), NEW bound \in Int
  PROVE  /\ n \in Nat
         /\ ClampToWindow(values, c.query, first, step, n, bound) \in 0 .. n
         /\ \A j \in 0 .. n - 1 :
              Inside(values, c.query, first + step * j, bound)
                <=> j < ClampToWindow(values, c.query, first, step, n, bound)
<1> DEFINE m == ClampToWindow(values, c.query, first, step, n, bound)
<1>1. /\ c \in CursorRecord /\ c.query \in Int /\ c.left \in 0 .. EntryCount
      /\ c.right \in 1 .. EntryCount + 1
      /\ first \in Int /\ step \in {-1, 1} /\ n \in Nat
  <2>1. c \in CursorRecord
    BY DEF WellPlaced
  <2>2. c.query \in Int /\ c.left \in 0 .. EntryCount /\ c.right \in 1 .. EntryCount + 1
    BY <2>1 DEF CursorRecord
  <2> QED  BY <2>1, <2>2 DEF IsSide
<1>2. /\ m \in 0 .. n
      /\ \A j \in 0 .. m - 1 : Inside(values, c.query, first + step * j, bound)
      /\ m < n => ~Inside(values, c.query, first + step * m, bound)
  BY <1>1, ClampIsLongestPrefix
<1> HIDE DEF m
\* Beyond an entry outside the window lie only entries outside it.
<1>3. ASSUME NEW j \in m .. n - 1 PROVE ~Inside(values, c.query, first + step * j, bound)
  <2> DEFINE x == first + step * m
             y == first + step * j
  <2>1. ~Inside(values, c.query, x, bound)
    <3>1. m < n
      BY <1>1, <1>2
    <3> QED  BY <1>2, <3>1
  <2>2. CASE first = c.left /\ step = -1 /\ n \in 0 .. c.left
    <3>1. x = c.left - m /\ y = c.left - j
      BY <1>1, <1>2, <2>2
    <3> HIDE DEF x, y
    <3>2. x \in 1 .. c.left /\ y \in 1 .. c.left /\ y <= x
      BY <1>1, <1>2, <2>2, <3>1
    <3>3. x \in Position /\ y \in Position
      BY <1>1, <3>2 DEF Position
    <3>4. values[x] \in Int /\ values[y] \in Int /\ values[y] <= values[x]
      BY <3>2, <3>3 DEF IsSortedTable
    <3>5. values[x] < c.query /\ values[y] < c.query
      BY <3>2 DEF WellPlaced
    <3>6. ~Inside(values, c.query, y, bound)
      BY <1>1, <2>1, <3>4, <3>5 DEF Inside, Difference
    <3> QED  BY <3>6 DEF y
  <2>3. CASE first = c.right /\ step = 1 /\ n \in 0 .. EntryCount - c.right + 1
    <3>1. x = c.right + m /\ y = c.right + j
      BY <1>1, <1>2, <2>3
    <3> HIDE DEF x, y
    <3>2. x \in c.right .. EntryCount /\ y \in c.right .. EntryCount /\ x <= y
      BY <1>1, <1>2, <2>3, <3>1
    <3>3. x \in Position /\ y \in Position
      BY <1>1, <3>2 DEF Position
    <3>4. values[x] \in Int /\ values[y] \in Int /\ values[x] <= values[y]
      BY <3>2, <3>3 DEF IsSortedTable
    <3>5. values[x] >= c.query /\ values[y] >= c.query
      BY <3>2 DEF WellPlaced
    <3>6. ~Inside(values, c.query, y, bound)
      BY <1>1, <2>1, <3>4, <3>5 DEF Inside, Difference
    <3> QED  BY <3>6 DEF y
  <2> QED  BY <2>2, <2>3 DEF IsSide
<1>4. ASSUME NEW j \in 0 .. n - 1 PROVE Inside(values, c.query, first + step * j, bound) <=> j < m
  <2>1. CASE j < m
    <3>1. j \in 0 .. m - 1
      BY <1>1, <1>2, <2>1
    <3> QED  BY <1>2, <2>1, <3>1
  <2>2. CASE ~(j < m)
    <3>1. j \in m .. n - 1
      BY <1>1, <1>2, <2>2
    <3> QED  BY <1>3, <2>2, <3>1
  <2> QED  BY <2>1, <2>2
<1> QED  BY <1>1, <1>2, <1>4 DEF m

\* The search has found what CursorScan says ClampToWindow returns.
ClampAnswers ==
    pc = "done" =>
        \A values, query, first, step, bound :
            (\A j \in 0 .. count - 1 :
               Inside(values, query, first + step * j, bound) <=> j < prefix)
            => lo = ClampToWindow(values, query, first, step, count, bound)

\* The kernel of src/window_clamp.h, run on a range whose inside entries are the
\* first ones, returns what the scans of the cursor model take: the two models
\* fit together.
THEOREM ClampAnswersScan == ClampSpec => []ClampAnswers
<1>1. ClampTypeOK /\ FindsLongestPrefix => ClampAnswers
  <2> SUFFICES ASSUME ClampTypeOK, FindsLongestPrefix, pc = "done",
                      NEW values, NEW query, NEW first, NEW step, NEW bound,
                      \A j \in 0 .. count - 1 :
                         Inside(values, query, first + step * j, bound) <=> j < prefix
               PROVE  lo = ClampToWindow(values, query, first, step, count, bound)
    BY DEF ClampAnswers
  <2> DEFINE In(j) == Inside(values, query, first + step * j, bound)
             Fits(k) == /\ \A j \in 0 .. k - 1 : In(j)
                        /\ k < count => ~In(k)
  <2>1. count \in Nat /\ prefix \in 0 .. count /\ lo = prefix
    BY DEF ClampTypeOK, FindsLongestPrefix
  <2>2. \A j \in 0 .. count - 1 : In(j) <=> j < prefix
    OBVIOUS
  <2> HIDE DEF In
  <2>3. Fits(prefix)
    BY <2>1, <2>2
  <2>4. ASSUME NEW k \in 0 .. count, Fits(k) PROVE k = prefix
    <3>1. ~(k < prefix)
      <4> SUFFICES ASSUME k < prefix PROVE FALSE
        OBVIOUS
      <4>1. k \in 0 .. count - 1 /\ k < count
        BY <2>1
      <4> QED  BY <2>2, <2>4, <4>1
    <3>2. ~(prefix < k)
      <4> SUFFICES ASSUME prefix < k PROVE FALSE
        OBVIOUS
      <4>1. prefix \in 0 .. k - 1 /\ prefix \in 0 .. count - 1 /\ ~(prefix < prefix)
        BY <2>1
      <4> QED  BY <2>2, <2>4, <4>1
    <3> QED  BY <2>1, <3>1, <3>2
  <2>5. ClampToWindow(values, query, first, step, count, bound) = CHOOSE k \in 0 .. count : Fits(k)
    BY DEF ClampToWindow, In
  <2> HIDE DEF Fits
  <2>6. (CHOOSE k \in 0 .. count : Fits(k)) = prefix
    BY <2>1, <2>3, <2>4
  <2> QED  BY <2>1, <2>5, <2>6
<1> QED  BY <1>1, ClampTypeCorrect, ClampIsExact, PTL
=============================================================================
