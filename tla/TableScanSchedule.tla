------------------------- MODULE TableScanSchedule -------------------------
(***************************************************************************)
(* The resumable projection-table scheduler of include/qalsh/qalsh.h       *)
(* (class TableScanSchedule).  A search strategy takes the next table from *)
(* its queue, the engine scans that table's cursor and reports the scan    *)
(* boundary, and the strategy may widen the radius window between scans.   *)
(*                                                                         *)
(* The scheduler cannot see the cursors.  Here they are the variable       *)
(* unread, the number of entries each cursor has not delivered yet, which  *)
(* a scan consumes under the contract that ProjectionCursor establishes.   *)
(*                                                                         *)
(* An operator named Slip... is a plausible mistake in the definition that *)
(* follows it, kept to show that some property notices it.                 *)
(***************************************************************************)
EXTENDS Integers, Sequences, FiniteSets, Functions

CONSTANTS
    TableCount,     \* table_count_: tables 0 .. TableCount-1
    Entries,        \* entries in every table (the number of indexed points)
    MaxAdvances,    \* bound: radius advances before the radius overflows
    NoTable         \* std::nullopt / no scan in flight

Table == 0 .. TableCount - 1

ASSUME TableScheduleAssumption ==
    /\ TableCount \in Nat \ {0}
    /\ Entries \in Nat \ {0}
    /\ MaxAdvances \in Nat
    /\ NoTable \notin Table

VARIABLES
    tableExhausted,     \* table_exhausted_
    tableCompleted,     \* table_completed_
    exhaustedTables,    \* exhausted_tables_
    completedTables,    \* completed_tables_
    pendingTables,      \* pending_tables_
    scanning,           \* the table handed out by next_table, not yet reported
    unread,             \* per cursor: entries not delivered yet
    advances            \* radius advances so far

ledger == <<tableExhausted, tableCompleted, exhaustedTables, completedTables>>
vars == <<ledger, pendingTables, scanning, unread, advances>>

TypeOK ==
    /\ tableExhausted \in [Table -> BOOLEAN]
    /\ tableCompleted \in [Table -> BOOLEAN]
    /\ exhaustedTables \in 0 .. TableCount
    /\ completedTables \in 0 .. TableCount
    /\ pendingTables \in Seq(Table)
    /\ scanning \in Table \cup {NoTable}
    /\ unread \in [Table -> 0 .. Entries]
    /\ advances \in 0 .. MaxAdvances

-----------------------------------------------------------------------------
HasPending == pendingTables # <<>>
RoundComplete == completedTables = TableCount
AllTablesExhausted == exhaustedTables = TableCount

\* start(table_count): nothing complete, every table queued in ascending order.
Init ==
    /\ tableExhausted = [t \in Table |-> FALSE]
    /\ tableCompleted = [t \in Table |-> FALSE]
    /\ exhaustedTables = 0
    /\ completedTables = 0
    /\ pendingTables = [i \in 1 .. TableCount |-> i - 1]
    /\ scanning = NoTable
    /\ unread = [t \in Table |-> Entries]
    /\ advances = 0

\* next_table(): pop the front of the queue.
NextTable ==
    /\ scanning = NoTable
    /\ HasPending
    /\ scanning' = Head(pendingTables)
    /\ pendingTables' = Tail(pendingTables)
    /\ UNCHANGED <<ledger, unread, advances>>

\* Slips: put the table back at the front, or not at all.
SlipRequeueFirst(t) == pendingTables' = <<t>> \o pendingTables
SlipRequeueNever(t) == UNCHANGED pendingTables

Requeue(t) == pendingTables' = Append(pendingTables, t)

\* on_scan_boundary(event) for table t.
OnScanBoundary(t, windowExhausted, exhausted) ==
    LET firstExhaustion == exhausted /\ ~tableExhausted[t]
        completedWindow == windowExhausted \/ exhausted
        firstCompletion == completedWindow /\ ~tableCompleted[t]
    IN  /\ tableExhausted' = [tableExhausted EXCEPT ![t] = @ \/ exhausted]
        /\ exhaustedTables' = IF firstExhaustion THEN exhaustedTables + 1 ELSE exhaustedTables
        /\ tableCompleted' = [tableCompleted EXCEPT ![t] = @ \/ completedWindow]
        /\ completedTables' = IF firstCompletion THEN completedTables + 1 ELSE completedTables
        /\ IF completedWindow \/ tableExhausted'[t]
             THEN UNCHANGED pendingTables
             ELSE Requeue(t)

\* The cursor's contract: a scan that stops inside the window has delivered
\* at least one entry, and a cursor is exhausted when nothing is unread.
Scan ==
    /\ scanning # NoTable
    /\ \E visited \in 0 .. unread[scanning], windowExhausted \in BOOLEAN :
         LET left == unread[scanning] - visited
         IN  /\ visited > 0 \/ windowExhausted \/ left = 0
             /\ left = 0 => windowExhausted
             /\ unread' = [unread EXCEPT ![scanning] = left]
             /\ OnScanBoundary(scanning, windowExhausted, left = 0)
    /\ scanning' = NoTable
    /\ UNCHANGED advances

\* The queue that holds each table of S once, in ascending order.
IsAscendingQueue(q, S) ==
    /\ \A i, j \in 1 .. Len(q) : i < j => q[i] < q[j]
    /\ Range(q) = S

\* Slips: exhausted tables are not counted as complete in the new window; the
\* count of the old window is kept.
SlipCountFromZero == 0
SlipKeepCount == completedTables

CompletedAfterAdvance == exhaustedTables

\* on_radius_advanced(): a new window; exhausted tables stay complete, all the
\* others are queued again.  A strategy may call it before the round ends.
OnRadiusAdvanced ==
    /\ scanning = NoTable
    /\ advances < MaxAdvances
    /\ advances' = advances + 1
    /\ LET live == {t \in Table : ~tableExhausted[t]}
       IN  \E q \in [1 .. Cardinality(live) -> live] :
             IsAscendingQueue(q, live) /\ pendingTables' = q
    /\ completedTables' = CompletedAfterAdvance
    /\ tableCompleted' = tableExhausted
    /\ UNCHANGED <<tableExhausted, exhaustedTables, scanning, unread>>

Next == NextTable \/ Scan \/ OnRadiusAdvanced

\* The engine's loop always takes its next step and every scan returns.
Fairness == WF_vars(NextTable) /\ WF_vars(Scan)

Spec == Init /\ [][Next]_vars
FairSpec == Spec /\ Fairness

-----------------------------------------------------------------------------
\* The counters that round_complete() and all_tables_exhausted() compare with
\* table_count_ are the sizes of the flag ledgers, the flags of a table follow
\* its cursor, and an exhausted table is complete in every window.
LedgerAgrees ==
    /\ exhaustedTables = Cardinality({t \in Table : tableExhausted[t]})
    /\ completedTables = Cardinality({t \in Table : tableCompleted[t]})
    /\ \A t \in Table : tableExhausted[t] => tableCompleted[t]
    /\ \A t \in Table : tableExhausted[t] <=> unread[t] = 0

\* No table is lost or served twice: in every state the tables whose window is
\* not complete are the queued ones, each queued once, and the one being
\* scanned.  So an empty queue means the round is complete, which is what lets
\* DefaultQalshStrategy::next advance the radius when next_table returns
\* nothing.
QueueIsIncompleteTables ==
    /\ \A i, j \in DOMAIN pendingTables : pendingTables[i] = pendingTables[j] => i = j
    /\ \A i \in DOMAIN pendingTables :
          ~tableCompleted[pendingTables[i]] /\ pendingTables[i] # scanning
    /\ \A t \in Table :
          ~tableCompleted[t] => t = scanning \/ \E i \in DOMAIN pendingTables : pendingTables[i] = t
    /\ scanning # NoTable => ~tableCompleted[scanning]

Before(t, u) ==
    \E i, j \in DOMAIN pendingTables : i < j /\ pendingTables[i] = t /\ pendingTables[j] = u

\* Round robin: within one radius window a queued table is never overtaken by
\* a table queued behind it, nor by one that is put back later.
NoOvertaking ==
    [][ advances' = advances =>
          \A t, u \in Table :
             /\ t \in Range(pendingTables) /\ t \in Range(pendingTables')
             /\ u \in Range(pendingTables') /\ ~Before(u, t)
             => ~Before(u, t)' ]_vars

\* Every window completes: as long as the strategy keeps scanning the table the
\* scheduler hands out, each table reaches its window boundary.
RoundCompletes == ~RoundComplete ~> RoundComplete
=============================================================================
