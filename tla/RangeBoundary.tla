---------------------------- MODULE RangeBoundary ----------------------------
(***************************************************************************)
(* The boundary of a range-scoped scan, seen by a strategy that runs over  *)
(* two back ends of the same index: one cursor over a persistent index,    *)
(* whose regions hold RegionCapacity entries, and one over the in-memory   *)
(* index, which is a single region.  Both are given the same scans, as the *)
(* engine issues them.                                                     *)
(***************************************************************************)
EXTENDS CursorScan

CONSTANTS
    ValueRange,     \* projected values and query values
    Bounds          \* scan bounds

InMemory == INSTANCE CursorScan WITH RegionCapacity <- EntryCount

VARIABLES
    table,
    onDisk, inMemory,               \* the two cursors
    diskBoundary, memoryBoundary    \* what the last scan reported on each

vars == <<table, onDisk, inMemory, diskBoundary, memoryBoundary>>

NoBoundary == [visited |-> 0, windowExhausted |-> FALSE, tableExhausted |-> FALSE]

BoundaryOf(result) ==
    [visited |-> Len(result.hits),
     windowExhausted |-> result.windowExhausted, tableExhausted |-> result.tableExhausted]

Init ==
    /\ table \in {f \in [Position -> ValueRange] : IsSortedTable(f)}
    /\ \E q \in ValueRange : onDisk = ResetCursor(table, q) /\ inMemory = ResetCursor(table, q)
    /\ diskBoundary = NoBoundary /\ memoryBoundary = NoBoundary

\* The engine's range scan has no entry limit.
RangeScan(bound) ==
    LET disk == ScanCursor(table, onDisk, bound, EntryCount, "range")
        memory == InMemory!ScanCursor(table, inMemory, bound, EntryCount, "range")
    IN  /\ bound >= onDisk.lastBound
        /\ onDisk' = disk.cursor /\ diskBoundary' = BoundaryOf(disk)
        /\ inMemory' = memory.cursor /\ memoryBoundary' = BoundaryOf(memory)
        /\ UNCHANGED table

Next == \E bound \in Bounds : RangeScan(bound)

Spec == Init /\ [][Next]_vars

-----------------------------------------------------------------------------
\* README.md of the library: the range scope gives an external algorithm "a
\* backend-independent logical boundary", so the same range scan ends at the
\* same entry with the same report on every back end.
BoundaryIsBackendIndependent == diskBoundary = memoryBoundary
=============================================================================
