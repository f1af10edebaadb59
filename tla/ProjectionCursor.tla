-------------------------- MODULE ProjectionCursor --------------------------
(***************************************************************************)
(* The public cursor interface of a projection index: make_cursor or       *)
(* reset_cursor positions a cursor at a query value, and each scan         *)
(* delivers a part of the current window.  The consumer chooses the query, *)
(* the bounds (never decreasing for one query), the quantum and the scope. *)
(*                                                                         *)
(* A callback that throws ends the use of the cursor until it is reset     *)
(* (qalsh.h:153), so it is covered by Reset.                               *)
(***************************************************************************)
EXTENDS CursorScan

CONSTANTS
    ValueRange,     \* projected values and query values
    Bounds,         \* scan bounds
    Quanta          \* max_entries

ASSUME ProjectionCursorAssumption ==
    ValueRange \subseteq Int /\ Bounds \subseteq Nat /\ Quanta \subseteq Nat \ {0}

VARIABLES
    table,      \* the sorted entries, immutable
    cursor,
    delivered,  \* history: how often each entry was delivered since the reset
    report      \* what the last scan returned

vars == <<table, cursor, delivered, report>>

NoReport == [kind |-> "none"]
Rejected == [kind |-> "rejected"]

Init ==
    /\ table \in {f \in [Position -> ValueRange] : IsSortedTable(f)}
    /\ \E q \in ValueRange : cursor = ResetCursor(table, q)
    /\ delivered = [i \in Position |-> 0]
    /\ report = NoReport

\* reset_cursor for another query.
Reset(q) ==
    /\ cursor' = ResetCursor(table, q)
    /\ delivered' = [i \in Position |-> 0]
    /\ report' = NoReport
    /\ UNCHANGED table

Scan(bound, maxEntries, scope) ==
    LET result == ScanCursor(table, cursor, bound, maxEntries, scope)
    IN  /\ bound >= cursor.lastBound
        /\ cursor' = result.cursor
        /\ delivered' = [i \in Position |->
                            delivered[i] + IF \E j \in DOMAIN result.hits : result.hits[j] = i
                                             THEN 1 ELSE 0]
        /\ report' = [kind |-> "scan", maxEntries |-> maxEntries, scope |-> scope,
                      visited |-> Len(result.hits),
                      windowExhausted |-> result.windowExhausted,
                      tableExhausted |-> result.tableExhausted]
        /\ UNCHANGED table

\* "scan bound cannot decrease for an existing cursor"
ScanRejected(bound) ==
    /\ bound < cursor.lastBound
    /\ report' = Rejected
    /\ UNCHANGED <<table, cursor, delivered>>

Next ==
    \/ \E q \in ValueRange : Reset(q)
    \/ \E bound \in Bounds, maxEntries \in Quanta, scope \in Scopes : Scan(bound, maxEntries, scope)
    \/ \E bound \in Bounds : ScanRejected(bound)

Spec == Init /\ [][Next]_vars

-----------------------------------------------------------------------------
Reports ==
    [kind : {"scan"}, maxEntries : Nat, scope : Scopes, visited : Nat,
     windowExhausted : BOOLEAN, tableExhausted : BOOLEAN] \cup {NoReport, Rejected}

TypeOK ==
    /\ IsSortedTable(table)
    /\ cursor \in CursorRecord
    /\ delivered \in [Position -> Nat]
    /\ report \in Reports

\* However the scans are cut into quanta and ranges, every entry is delivered at
\* most once per query, never one outside the window, and the delivered entries
\* are exactly those between the two positions.
DeliveredOnceInWindow ==
    \A i \in Position :
        /\ delivered[i] = IF cursor.left < i /\ i < cursor.right THEN 1 ELSE 0
        /\ delivered[i] = 1 => Inside(table, cursor.query, i, cursor.lastBound)

\* A report that closes the window is right: no entry of the window is left
\* undelivered, whatever bounds the earlier scans used.  A report that closes
\* the table means every entry was delivered, and the reverse.
WindowReportIsExact ==
    report.kind = "scan" =>
        /\ report.windowExhausted =>
              \A i \in Position :
                 Inside(table, cursor.query, i, cursor.lastBound) <=> delivered[i] = 1
        /\ report.tableExhausted <=> \A i \in Position : delivered[i] = 1

\* A quantum is never exceeded, and a scan that leaves the window open has
\* delivered something: resuming it makes progress.
ScanStaysInQuantum ==
    report.kind = "scan" =>
        /\ report.scope = "quantum" => report.visited <= report.maxEntries
        /\ report.visited = 0 => report.windowExhausted
=============================================================================
