----------------------------- MODULE CursorScan -----------------------------
(***************************************************************************)
(* What reset_cursor and scan_impl of a projection index do to one cursor  *)
(* over one table (src/qalsh.cc), as operators on cursor records.          *)
(*                                                                         *)
(* A table holds EntryCount entries sorted by projected value, at the      *)
(* positions 1 .. EntryCount.  The three backends differ only in how a     *)
(* range-scoped scan is cut: at a leaf (B+ tree), at a region of the same  *)
(* capacity (sorted array), or not at all (in memory: one region holds the *)
(* whole table).  Values are integers; float32 subtraction is monotone, so *)
(* only the order of the differences matters here.                         *)
(*                                                                         *)
(* An operator named Slip... is a plausible mistake in the definition that *)
(* follows it, kept to show that some property notices it.                 *)
(***************************************************************************)
EXTENDS Integers, Sequences

CONSTANTS
    EntryCount,       \* entries of a table (metadata.num_points)
    RegionCapacity    \* entries of a leaf or region; >= EntryCount in memory

ASSUME CursorScanAssumption ==
    /\ EntryCount \in Nat \ {0}
    /\ RegionCapacity \in Nat \ {0}

Position == 1 .. EntryCount
Scopes == {"quantum", "range"}
Unbounded == -1     \* last_bound of a fresh cursor: below every scan bound

SmallerOf(a, b) == IF a <= b THEN a ELSE b
Difference(a, b) == IF a <= b THEN b - a ELSE a - b

IsSortedTable(table) ==
    /\ table \in [Position -> Int]
    /\ \A i, j \in Position : i < j => table[i] <= table[j]

\* window_detail::Inside for the entry at position i.
Inside(table, query, i, bound) == Difference(query, table[i]) <= bound

\* std::lower_bound: the first position whose value is not below the query.
LowerBound(table, query) ==
    CHOOSE p \in 1 .. EntryCount + 1 :
        /\ \A i \in 1 .. p - 1 : table[i] < query
        /\ p <= EntryCount => table[p] >= query

\* reset_cursor.  left = 0 and right = EntryCount + 1 stand for kNoIndex (or an
\* inactive side of the B+ tree cursor).
SlipResetBothAtBound(table, query) ==
    LET p == LowerBound(table, query)
    IN  [query |-> query, left |-> p, right |-> p,
         leftBlocked |-> FALSE, rightBlocked |-> FALSE, lastBound |-> Unbounded]

ResetCursor(table, query) ==
    LET p == LowerBound(table, query)
    IN  [query |-> query, left |-> p - 1, right |-> p,
         leftBlocked |-> FALSE, rightBlocked |-> FALSE, lastBound |-> Unbounded]

\* Slip: a wider window does not unblock the sides.
SlipStayBlocked(c, bound) == [c EXCEPT !.lastBound = bound]

\* ResetBoundedSides, whose caller guarantees bound >= c.lastBound.
ResetBoundedSides(c, bound) ==
    IF bound > c.lastBound
      THEN [c EXCEPT !.leftBlocked = FALSE, !.rightBlocked = FALSE, !.lastBound = bound]
      ELSE c

\* Slip: the clamp also passes the first entry outside the window.
SlipClampOneTooMany(table, query, first, step, available, bound) ==
    CHOOSE count \in 0 .. available :
        /\ \A j \in 0 .. count - 2 : Inside(table, query, first + step * j, bound)
        /\ count < available =>
              count > 0 /\ ~Inside(table, query, first + step * (count - 1), bound)

\* ClampToWindow on the range of available entries that starts at position
\* first and goes outward by step: the length of its longest inside prefix.
ClampToWindow(table, query, first, step, available, bound) ==
    CHOOSE count \in 0 .. available :
        /\ \A j \in 0 .. count - 1 : Inside(table, query, first + step * j, bound)
        /\ count < available => ~Inside(table, query, first + step * count, bound)

\* Entries from position i to the near or far end of i's leaf or region.
RegionLeft(i) == ((i - 1) % RegionCapacity) + 1
RegionRight(i) ==
    SmallerOf(EntryCount, (((i - 1) \div RegionCapacity) + 1) * RegionCapacity) - i + 1

\* A range-scoped scan also stops at the end of the leaf or region.
Available(scope, limit, inRegion, inTable) ==
    SmallerOf(limit, IF scope = "range" THEN inRegion ELSE inTable)

\* A quantum is split between the sides, the odd entry going left; the right
\* side takes what is left of it when its half is empty.  In range scope
\* max_entries limits each side.
LeftLimit(maxEntries, scope) ==
    IF scope = "range" THEN maxEntries ELSE (maxEntries + 1) \div 2

\* Slip: the right side takes the whole of a quantum too small to split.
SlipRightTakesWholeQuantum(maxEntries, scope, visited) ==
    IF maxEntries \div 2 = 0 THEN maxEntries ELSE maxEntries \div 2
\* Slip: a quantum of one entry always belongs to the left side.
SlipRightStarves(maxEntries, scope, visited) ==
    IF scope = "range" THEN maxEntries ELSE maxEntries \div 2
RightLimit(maxEntries, scope, visited) ==
    IF scope = "range" THEN maxEntries
    ELSE IF maxEntries \div 2 = 0 THEN maxEntries - visited
    ELSE maxEntries \div 2

LeftActive(c) == c.left > 0 /\ ~c.leftBlocked
RightActive(c) == c.right <= EntryCount /\ ~c.rightBlocked

\* scan_left and scan_right: the entries one side offers, and delivers.
LeftOffer(c, limit, scope) == Available(scope, limit, RegionLeft(c.left), c.left)
LeftCount(table, c, limit, scope) ==
    IF LeftActive(c)
      THEN ClampToWindow(table, c.query, c.left, -1, LeftOffer(c, limit, scope), c.lastBound)
      ELSE 0
RightOffer(c, limit, scope) ==
    Available(scope, limit, RegionRight(c.right), EntryCount - c.right + 1)
RightCount(table, c, limit, scope) ==
    IF RightActive(c)
      THEN ClampToWindow(table, c.query, c.right, 1, RightOffer(c, limit, scope), c.lastBound)
      ELSE 0

\* A side moves past what it delivered; a clamp below the offer blocks it.
MoveLeft(c, count, offer) ==
    [c EXCEPT !.left = @ - count,
              !.leftBlocked = @ \/ (LeftActive(c) /\ count < offer)]
MoveRight(c, count, offer) ==
    [c EXCEPT !.right = @ + count,
              !.rightBlocked = @ \/ (RightActive(c) /\ count < offer)]

TableExhausted(c) == c.left = 0 /\ c.right = EntryCount + 1

WindowExhausted(c) ==
    /\ c.left = 0 \/ c.leftBlocked
    /\ c.right = EntryCount + 1 \/ c.rightBlocked

\* Delivery order: l positions outward from a, then r outward from p.
OutwardPositions(a, l, p, r) ==
    [j \in 1 .. l + r |-> IF j <= l THEN a - j + 1 ELSE p + (j - l) - 1]

\* scan_impl: the new cursor, the delivered positions in delivery order, and
\* the report.
ScanCursor(table, cursor, bound, maxEntries, scope) ==
    LET c == ResetBoundedSides(cursor, bound)
        leftLimit == LeftLimit(maxEntries, scope)
        l == LeftCount(table, c, leftLimit, scope)
        d == MoveLeft(c, l, LeftOffer(c, leftLimit, scope))
        rightLimit == RightLimit(maxEntries, scope, l)
        r == RightCount(table, d, rightLimit, scope)
        e == MoveRight(d, r, RightOffer(d, rightLimit, scope))
    IN  [cursor |-> e,
         hits |-> OutwardPositions(c.left, l, c.right, r),
         windowExhausted |-> WindowExhausted(e),
         tableExhausted |-> TableExhausted(e)]

-----------------------------------------------------------------------------
CursorRecord ==
    [query : Int, left : 0 .. EntryCount, right : 1 .. EntryCount + 1,
     leftBlocked : BOOLEAN, rightBlocked : BOOLEAN, lastBound : Nat \cup {Unbounded}]

\* What holds of a cursor between scans: its positions partition the table at
\* the query, everything between them is inside the last bound, and a blocked
\* side stands in front of an entry outside it.
WellPlaced(table, c) ==
    /\ c \in CursorRecord
    /\ c.left < c.right
    /\ \A i \in 1 .. c.left : table[i] < c.query
    /\ \A i \in c.right .. EntryCount : table[i] >= c.query
    /\ \A i \in c.left + 1 .. c.right - 1 : Inside(table, c.query, i, c.lastBound)
    /\ c.leftBlocked => c.left > 0 /\ ~Inside(table, c.query, c.left, c.lastBound)
    /\ c.rightBlocked => c.right <= EntryCount /\ ~Inside(table, c.query, c.right, c.lastBound)
=============================================================================
