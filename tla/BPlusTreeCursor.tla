--------------------------- MODULE BPlusTreeCursor ---------------------------
(***************************************************************************)
(* A cursor over a B+ tree index (src/qalsh.cc, BPlusTreeIndex::scan_impl) *)
(* from the pages that Build wrote: a scan walks leaf by leaf, on local    *)
(* copies of the positions that it stores when it ends, and calls the      *)
(* visitor once for every range of entries, which may throw.               *)
(*                                                                         *)
(* That it is a ProjectionCursor, whose scan is one step over one sorted   *)
(* table, is the property ImplementsProjectionCursor.  The cursor stays on *)
(* one table; a reset to another one does the same from another root.      *)
(*                                                                         *)
(* An operator named Slip... is a plausible mistake in the definition that *)
(* follows it, kept to show that some property notices it.                 *)
(***************************************************************************)
EXTENDS BPlusTree

CONSTANTS
    EntryCount,     \* bound: cursors are followed in indexes of so many points
    Bounds, Quanta

ASSUME BPlusTreeCursorAssumption ==
    EntryCount \in Nat \ {0} /\ Bounds \subseteq Nat /\ Quanta \subseteq Nat \ {0}

VARIABLES
    tableId,
    cursor,
    scan,           \* the scan in progress, or one whose visitor threw
    delivered,      \* history: how often each entry was delivered since the reset
    report

cursorVars == <<tableId, cursor, scan, delivered, report>>
vars == <<treeVars, cursorVars>>

Position == 1 .. EntryCount
Unset == [query |-> CHOOSE v \in ValueRange : TRUE]
NoScan == [phase |-> "none"]

\* The place of an entry in the sorted table.
PositionOf(place) == CHOOSE i \in Position : entries[tableId][i] = EntryAt(place)

\* The indexes in which a cursor is followed: those of EntryCount points, not
\* damaged, so that they hold what was built.
Followed == NumPoints = EntryCount /\ damages = 0

\* The cursor as one over the sorted table.  What a scan has done shows when
\* it ends.
TableValues == [i \in Position |-> IF NumPoints = EntryCount THEN entries[tableId][i].value
                                  ELSE Unset.query]
AsProjectionCursor(c) ==
    [query |-> c.query,
     left |-> IF c.left = NoPlace THEN 0 ELSE PositionOf(c.left),
     right |-> IF c.right = NoPlace THEN EntryCount + 1 ELSE PositionOf(c.right),
     leftBlocked |-> c.leftBlocked, rightBlocked |-> c.rightBlocked, lastBound |-> c.lastBound]
Kernel == INSTANCE CursorScan WITH RegionCapacity <- LeafCapacity
SettledCursor ==
    IF cursor = Unset THEN Kernel!ResetCursor(TableValues, Unset.query)
    ELSE AsProjectionCursor(IF scan = NoScan THEN cursor ELSE scan.before)

Projection == INSTANCE ProjectionCursor
              WITH RegionCapacity <- LeafCapacity, table <- TableValues, cursor <- SettledCursor

Init ==
    /\ InitTree
    /\ tableId \in {t \in Table : NumPoints = EntryCount \/ t = 1}
    /\ cursor = Unset
    /\ scan = NoScan
    /\ delivered = [i \in Position |-> 0]
    /\ report = Projection!NoReport

-----------------------------------------------------------------------------
\* make_cursor and reset_cursor; also after a visitor threw.
Reset(q) ==
    LET places == ResetPlaces(tableId, q)
    IN  /\ pc = "open" /\ Followed
        /\ scan.phase \in {"none", "thrown"}
        /\ cursor' = [query |-> q, left |-> places.left, right |-> places.right,
                      leftBlocked |-> FALSE, rightBlocked |-> FALSE,
                      lastBound |-> Kernel!Unbounded]
        /\ scan' = NoScan
        /\ delivered' = [i \in Position |-> 0]
        /\ report' = Projection!NoReport
        /\ UNCHANGED <<treeVars, tableId>>

CanScan == cursor # Unset /\ scan = NoScan

\* ResetBoundedSides acts on the cursor itself, the rest on a copy.
BeginScan(bound, maxEntries, scope) ==
    LET c == Kernel!ResetBoundedSides(cursor, bound)
    IN  /\ CanScan
        /\ bound >= cursor.lastBound
        /\ cursor' = c
        /\ scan' = [phase |-> "left", before |-> cursor, local |-> c, maxEntries |-> maxEntries,
                    scope |-> scope, onSide |-> 0, hits |-> <<>>, atLeafEnd |-> FALSE]
        /\ UNCHANGED <<treeVars, tableId, delivered, report>>

ScanRejected(bound) ==
    /\ CanScan
    /\ bound < cursor.lastBound
    /\ report' = Projection!Rejected
    /\ UNCHANGED <<treeVars, tableId, cursor, scan, delivered>>

InFlight(phase) == scan.phase = phase

StopsAtLeafEnd == scan.atLeafEnd /\ scan.scope = "range"

\* scan_left: the range to offer next, clamped to the window.
LeftLimit == Kernel!LeftLimit(scan.maxEntries, scan.scope)
LeftGoesOn ==
    /\ InFlight("left")
    /\ scan.onSide < LeftLimit /\ ~StopsAtLeafEnd
    /\ scan.local.left # NoPlace /\ ~scan.local.leftBlocked
LeftAvailable == SmallerOf(LeftLimit - scan.onSide, scan.local.left.index)
InWindow(place, step, available) ==
    Kernel!ClampToWindow(ValueOf(pages[place.page]), scan.local.query, place.index, step,
                         available, scan.local.lastBound)
LeftCount == InWindow(scan.local.left, -1, LeftAvailable)

\* Slip: the next leaf is entered at its first entry.
SlipLeftAfter(place, count) ==
    IF count < place.index THEN [place EXCEPT !.index = @ - count]
    ELSE IF pages[place.page].previous = 0 THEN NoPlace
    ELSE [page |-> pages[place.page].previous, index |-> 1]
LeftAfter(place, count) ==
    IF count < place.index THEN [place EXCEPT !.index = @ - count] ELSE PlaceLeftOf(place.page)

LeftRange ==
    LET place == scan.local.left
    IN  /\ LeftGoesOn
        /\ scan' = [scan EXCEPT !.local.left = LeftAfter(place, LeftCount),
                                !.local.leftBlocked = LeftCount < LeftAvailable,
                                !.onSide = @ + LeftCount,
                                !.atLeafEnd = LeftCount = place.index,
                                !.hits = @ \o [j \in 1 .. LeftCount |->
                                    [page |-> place.page, index |-> place.index - j + 1]]]
        /\ UNCHANGED <<treeVars, tableId, cursor, delivered, report>>

\* The right side starts with its own count.
TurnRight ==
    /\ InFlight("left") /\ ~LeftGoesOn
    /\ scan' = [scan EXCEPT !.phase = "right", !.onSide = 0, !.atLeafEnd = FALSE]
    /\ UNCHANGED <<treeVars, tableId, cursor, delivered, report>>

\* scan_right
RightLimit ==
    Kernel!RightLimit(scan.maxEntries, scan.scope, Len(scan.hits) - scan.onSide)
RightGoesOn ==
    /\ InFlight("right")
    /\ scan.onSide < RightLimit /\ ~StopsAtLeafEnd
    /\ scan.local.right # NoPlace /\ ~scan.local.rightBlocked
RightInLeaf == Len(pages[scan.local.right.page].entries) - scan.local.right.index + 1
RightAvailable == SmallerOf(RightLimit - scan.onSide, RightInLeaf)
RightCount == InWindow(scan.local.right, 1, RightAvailable)

RightAfter(place, count) ==
    IF count < RightInLeaf THEN [place EXCEPT !.index = @ + count] ELSE PlaceRightOf(place.page)

RightRange ==
    LET place == scan.local.right
    IN  /\ RightGoesOn
        /\ scan' = [scan EXCEPT !.local.right = RightAfter(place, RightCount),
                                !.local.rightBlocked = RightCount < RightAvailable,
                                !.onSide = @ + RightCount,
                                !.atLeafEnd = RightCount = RightInLeaf,
                                !.hits = @ \o [j \in 1 .. RightCount |->
                                    [page |-> place.page, index |-> place.index + j - 1]]]
        /\ UNCHANGED <<treeVars, tableId, cursor, delivered, report>>

\* The visitor throws: the copy is lost, the cursor keeps what BeginScan did.
VisitorThrows ==
    /\ \/ LeftGoesOn /\ LeftCount > 0
       \/ RightGoesOn /\ RightCount > 0
    /\ scan' = [phase |-> "thrown", before |-> scan.before]
    /\ UNCHANGED <<treeVars, tableId, cursor, delivered, report>>

\* sync_cursor and the report.
EndScan ==
    LET c == scan.local
        hitsAt(i) == {j \in DOMAIN scan.hits : PositionOf(scan.hits[j]) = i}
    IN  /\ InFlight("right") /\ ~RightGoesOn
        /\ cursor' = c
        /\ scan' = NoScan
        /\ delivered' = [i \in Position |-> delivered[i] + Cardinality(hitsAt(i))]
        /\ report' = [kind |-> "scan", maxEntries |-> scan.maxEntries, scope |-> scan.scope,
                      visited |-> Len(scan.hits),
                      windowExhausted |-> /\ c.left = NoPlace \/ c.leftBlocked
                                          /\ c.right = NoPlace \/ c.rightBlocked,
                      tableExhausted |-> c.left = NoPlace /\ c.right = NoPlace]
        /\ UNCHANGED <<treeVars, tableId>>

Next ==
    \/ NextTree /\ UNCHANGED cursorVars
    \/ \E q \in ValueRange : Reset(q)
    \/ \E bound \in Bounds, maxEntries \in Quanta, scope \in Kernel!Scopes :
         BeginScan(bound, maxEntries, scope)
    \/ \E bound \in Bounds : ScanRejected(bound)
    \/ LeftRange \/ TurnRight \/ RightRange \/ EndScan
    \/ VisitorThrows

Spec == Init /\ [][Next]_vars

-----------------------------------------------------------------------------
\* Built page by page, descended level by level, scanned leaf by leaf and
\* interrupted by exceptions, the tree behaves as one sorted table with a
\* cursor, which is what the other modules rest on.
ImplementsProjectionCursor == Projection!Spec
=============================================================================
