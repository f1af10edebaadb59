---------------------------- MODULE SearchEngine ----------------------------
(***************************************************************************)
(* One call of SearchEngine::search (src/qalsh.cc): the loop that asks a   *)
(* strategy for its next action and carries it out on the cursors, the     *)
(* radius window, the set of evaluated points and the k best neighbours.   *)
(*                                                                         *)
(* The strategy is arbitrary here: at every call of next() it may ask for  *)
(* any action, and it may submit any point for any hit.  DefaultSearch     *)
(* constrains these steps to DefaultQalshStrategy.                         *)
(*                                                                         *)
(* A scan runs inside one library call; its callbacks are steps of their   *)
(* own: BeginScan fixes what the scan delivers, DeliverHit hands over one  *)
(* entry, EndScan moves the cursor and closes the ledgers.                 *)
(*                                                                         *)
(* An operator named Slip... is a plausible mistake in the definition that *)
(* follows it, kept to show that some property notices it.                 *)
(***************************************************************************)
EXTENDS CursorScan, FiniteSets

CONSTANTS
    TableCount,      \* tables of the query (num_hash_tables)
    Problems,        \* the indexes, queries and options a search may start with
    InitialRadius,   \* metadata.qalsh.initial_radius
    RadiusGrowth,    \* metadata.qalsh.radius_growth
    BucketWidth,     \* metadata.qalsh.bucket_width
    MaxFloat,        \* the largest representable radius and bound
    NoScan,          \* no scan in flight
    NoCandidate      \* HitDecision without a candidate

Table == 0 .. TableCount - 1
Point == 0 .. EntryCount - 1

\* A scan in flight: its table, the hits delivered, the hits of the search so
\* far, and what it will have done at its end.
ScanRecord ==
    [table : Table, delivered : Nat, hits : Nat,
     result : [cursor : CursorRecord, hits : Seq(Position),
               windowExhausted : BOOLEAN, tableExhausted : BOOLEAN]]

ASSUME SearchEngineAssumption ==
    /\ TableCount \in Nat \ {0}
    /\ InitialRadius \in Nat \ {0} /\ RadiusGrowth \in Nat \ {0}
    /\ BucketWidth \in Nat \ {0} /\ MaxFloat \in Nat
    /\ NoCandidate \notin Point
    /\ NoScan \notin ScanRecord

\* What a search is given: the sorted entries of each table (their values, and
\* the point at each position), the projected query, the distance of each point
\* to the query, k and the options.
IsProblem(q) ==
    /\ \A t \in Table : IsSortedTable(q.values[t])
    /\ q.points \in [Table -> [Position -> Point]]
    /\ \A t \in Table, p \in Point : \E i \in Position : q.points[t][i] = p
    /\ q.query \in [Table -> Int]
    /\ q.distance \in [Point -> Nat]
    /\ q.k \in 1 .. EntryCount
    /\ q.quantum \in Nat \ {0}
    /\ q.bounded \in BOOLEAN
    /\ q.maxSteps \in Nat \ {0}

ASSUME ProblemsAssumption == \A q \in Problems : IsProblem(q)

VARIABLES
    problem,                \* immutable input of this search
    cursors,                \* QueryScratch::cursors, reset at the start
    radius, hits, evaluated, neighbors,     \* SearchRuntime
    seen,                   \* points marked with this query's epoch
    exhausted, roundComplete,               \* table_exhausted, table_round_complete
    exhaustedCount, completedCount,         \* exhausted_tables, completed_tables
    snapshot,               \* the QuerySnapshot last made
    scan,                   \* the scan in flight
    steps,                  \* calls of next() so far
    outcome                 \* what search returned

ledgers == <<exhausted, roundComplete, exhaustedCount, completedCount>>
results == <<seen, evaluated, neighbors>>
engineVars == <<problem, cursors, radius, hits, results, ledgers, snapshot, scan, steps, outcome>>

Running == [reason |-> "running"]
Thrown == [reason |-> "thrown"]      \* an exception left search

\* WindowBound
WindowBound(r) == (BucketWidth * r) \div 2
Bound == WindowBound(radius)

LiveSnapshot ==
    [radius |-> radius, evaluated |-> evaluated, hits |-> hits,
     roundComplete |-> completedCount = TableCount,
     allTablesExhausted |-> exhaustedCount = TableCount,
     neighbors |-> neighbors]

InitEngine ==
    /\ problem \in Problems
    /\ cursors = [t \in Table |-> ResetCursor(problem.values[t], problem.query[t])]
    /\ radius = InitialRadius
    /\ hits = 0 /\ evaluated = 0 /\ neighbors = <<>> /\ seen = {}
    /\ exhausted = [t \in Table |-> FALSE]
    /\ roundComplete = [t \in Table |-> FALSE]
    /\ exhaustedCount = 0 /\ completedCount = 0
    /\ snapshot = LiveSnapshot
    /\ scan = NoScan
    /\ steps = 0
    /\ outcome = Running

-----------------------------------------------------------------------------
\* BetterNeighbor: by distance, then by point id.
Better(p, q) ==
    \/ problem.distance[p] < problem.distance[q]
    \/ problem.distance[p] = problem.distance[q] /\ p < q

FirstOf(s, n) == SubSeq(s, 1, SmallerOf(n, Len(s)))

\* InsertNeighbor: at its place in the public order, then cut to k.
InsertNeighbor(s, p) ==
    LET place == Cardinality({i \in DOMAIN s : Better(s[i], p)})
    IN  FirstOf(SubSeq(s, 1, place) \o <<p>> \o SubSeq(s, place + 1, Len(s)), problem.k)

\* The distance kernel gives up on a point beyond the k-th neighbour when
\* bounded_distance is set; exact at equality.
SlipPrunedAtEquality(p) ==
    /\ problem.bounded /\ Len(neighbors) = problem.k
    /\ problem.distance[p] >= problem.distance[neighbors[problem.k]]
Pruned(p) ==
    /\ problem.bounded /\ Len(neighbors) = problem.k
    /\ problem.distance[p] > problem.distance[neighbors[problem.k]]

\* Slip: the hit count of the cached snapshot is not patched for a duplicate.
SlipSnapshotKept == snapshot
SnapshotWithHits == [snapshot EXCEPT !.hits = hits']

\* EvaluateCandidate, after the hit count has been brought up to date.
EvaluateCandidate(p) ==
    IF p \in seen
      THEN /\ UNCHANGED results
           /\ snapshot' = SnapshotWithHits
      ELSE /\ seen' = seen \cup {p}
           /\ evaluated' = evaluated + 1
           /\ neighbors' = IF Pruned(p) THEN neighbors ELSE InsertNeighbor(neighbors, p)
           /\ snapshot' = LiveSnapshot'

-----------------------------------------------------------------------------
\* One iteration of the loop starts: next() is called.
NextIsCalled ==
    /\ outcome = Running
    /\ scan = NoScan
    /\ steps < problem.maxSteps
    /\ steps' = steps + 1

\* StrategyActionKind::scan, up to the first callback.  The scan limit of a
\* range scan is the largest size_t.
BeginScan(t, scope) ==
    LET maxEntries == IF scope = "range" THEN EntryCount ELSE problem.quantum
    IN  /\ NextIsCalled
        /\ scan' = [table |-> t, delivered |-> 0, hits |-> hits,
                    result |-> ScanCursor(problem.values[t], cursors[t], Bound, maxEntries, scope)]
        /\ UNCHANGED <<problem, cursors, radius, hits, results, ledgers, snapshot, outcome>>

HitsToCome == scan # NoScan /\ scan.delivered < Len(scan.result.hits)
HitPoint == problem.points[scan.table][scan.result.hits[scan.delivered + 1]]

\* DeliverRange, for one entry: on_projection_hit and, when it returns a
\* candidate, its evaluation.
DeliverHit(candidate) ==
    /\ outcome = Running
    /\ HitsToCome
    /\ scan' = [scan EXCEPT !.delivered = @ + 1, !.hits = @ + 1]
    /\ UNCHANGED <<problem, cursors, radius, ledgers, steps, outcome>>
    /\ IF candidate = NoCandidate
         THEN UNCHANGED <<hits, results, snapshot>>
         ELSE hits' = scan.hits + 1 /\ EvaluateCandidate(candidate)

\* Slip: a table counts every time it reports its window complete.
SlipCountEveryReport(t, report) ==
    IF report.windowExhausted \/ report.tableExhausted THEN completedCount + 1 ELSE completedCount
CompletedAfter(t, report) ==
    IF (report.windowExhausted \/ report.tableExhausted) /\ ~roundComplete[t]
      THEN completedCount + 1 ELSE completedCount

\* The rest of the scan action: the cursor has moved and the ledgers follow.
EndScan ==
    /\ outcome = Running
    /\ scan # NoScan /\ ~HitsToCome
    /\ LET t == scan.table
           report == scan.result
       IN  /\ cursors' = [cursors EXCEPT ![t] = report.cursor]
           /\ exhausted' = [exhausted EXCEPT ![t] = @ \/ report.tableExhausted]
           /\ exhaustedCount' = IF report.tableExhausted /\ ~exhausted[t]
                                  THEN exhaustedCount + 1 ELSE exhaustedCount
           /\ roundComplete' = [roundComplete EXCEPT
                                  ![t] = @ \/ report.windowExhausted \/ report.tableExhausted]
           /\ completedCount' = CompletedAfter(t, report)
    /\ hits' = scan.hits
    /\ scan' = NoScan
    /\ UNCHANGED <<problem, radius, results, steps, outcome>>
    /\ snapshot' = LiveSnapshot'

\* StrategyActionKind::evaluate
EvaluateAction(p) ==
    /\ NextIsCalled
    /\ UNCHANGED <<problem, cursors, radius, hits, ledgers, scan, outcome>>
    /\ EvaluateCandidate(p)

NextRadius == radius * RadiusGrowth
RadiusCanGrow ==
    NextRadius > radius /\ NextRadius <= MaxFloat /\ WindowBound(NextRadius) <= MaxFloat

\* Slip: the flags of the old window survive into the new one.
SlipKeepRoundFlags == roundComplete
RoundCompleteAfterAdvance == exhausted

\* StrategyActionKind::advance_radius: throws when the radius or its bound is
\* not representable; exhausted tables stay complete.
AdvanceRadius ==
    /\ NextIsCalled
    /\ RadiusCanGrow
    /\ radius' = NextRadius
    /\ completedCount' = exhaustedCount
    /\ roundComplete' = RoundCompleteAfterAdvance
    /\ UNCHANGED <<problem, cursors, hits, results, exhausted, exhaustedCount, scan, outcome>>
    /\ snapshot' = LiveSnapshot'

AdvanceRadiusThrows ==
    /\ NextIsCalled
    /\ ~RadiusCanGrow
    /\ outcome' = Thrown
    /\ UNCHANGED <<problem, cursors, radius, hits, results, ledgers, snapshot, scan>>

Return(reason) ==
    outcome' = [reason |-> reason, neighbors |-> neighbors, evaluated |-> evaluated, hits |-> hits,
                complete |-> Len(neighbors) = problem.k /\ reason \in {"strategy", "scan_exhausted"}]

\* Slip: a finish after a completed round is reported as exhaustion.
SlipRoundMeansExhausted == snapshot.roundComplete
ScansExhausted == snapshot.allTablesExhausted

\* StrategyActionKind::finish
Finish ==
    /\ NextIsCalled
    /\ Return(IF ScansExhausted THEN "scan_exhausted" ELSE "strategy")
    /\ UNCHANGED <<problem, cursors, radius, hits, results, ledgers, snapshot, scan>>

\* An action kind the engine does not know.
InvalidAction ==
    /\ NextIsCalled
    /\ Return("invalid_strategy_action")
    /\ UNCHANGED <<problem, cursors, radius, hits, results, ledgers, snapshot, scan>>

\* The loop ends without a finish.
StepLimit ==
    /\ outcome = Running /\ scan = NoScan
    /\ steps = problem.maxSteps
    /\ Return("step_limit")
    /\ UNCHANGED <<problem, cursors, radius, hits, results, ledgers, snapshot, scan, steps>>

\* A strategy callback, a rule or the point accessor throws, or the strategy
\* names a table or point that does not exist: the exception leaves search.
CallbackThrows ==
    /\ outcome = Running
    /\ outcome' = Thrown
    /\ UNCHANGED <<problem, cursors, radius, hits, results, ledgers, snapshot, scan, steps>>

NextEngine ==
    \/ \E t \in Table, scope \in Scopes : BeginScan(t, scope)
    \/ \E candidate \in Point \cup {NoCandidate} : DeliverHit(candidate)
    \/ EndScan
    \/ \E p \in Point : EvaluateAction(p)
    \/ AdvanceRadius \/ AdvanceRadiusThrows
    \/ Finish \/ InvalidAction \/ StepLimit
    \/ CallbackThrows

EngineSpec == InitEngine /\ [][NextEngine]_engineVars

-----------------------------------------------------------------------------
Results ==
    [reason : {"strategy", "scan_exhausted", "invalid_strategy_action", "step_limit"},
     neighbors : Seq(Point), evaluated : Nat, hits : Nat, complete : BOOLEAN]

EngineTypeOK ==
    /\ cursors \in [Table -> CursorRecord]
    /\ radius \in Nat \ {0}
    /\ hits \in Nat /\ evaluated \in Nat /\ steps \in 0 .. problem.maxSteps
    /\ seen \in SUBSET Point
    /\ neighbors \in Seq(Point) /\ Len(neighbors) <= problem.k
    /\ exhausted \in [Table -> BOOLEAN] /\ roundComplete \in [Table -> BOOLEAN]
    /\ exhaustedCount \in 0 .. TableCount /\ completedCount \in 0 .. TableCount
    /\ scan # NoScan => scan.table \in Table /\ scan.delivered \in 0 .. Len(scan.result.hits)
    /\ outcome \in {Running, Thrown} \cup Results

\* Whatever the strategy submits, in whatever order, and with or without
\* bounded distances, the neighbours are the k best of the evaluated points in
\* their public order: pruning loses none, duplicates change nothing, and each
\* evaluation is counted once.
NeighborsAreBestEvaluated ==
    /\ evaluated = Cardinality(seen)
    /\ \A i, j \in DOMAIN neighbors : i < j => Better(neighbors[i], neighbors[j])
    /\ \A i \in DOMAIN neighbors : neighbors[i] \in seen
    /\ Len(neighbors) = SmallerOf(problem.k, Cardinality(seen))
    /\ \A p \in seen : \/ \E i \in DOMAIN neighbors : neighbors[i] = p
                       \/ \A i \in DOMAIN neighbors : Better(neighbors[i], p)

\* The cached snapshot a callback is given is never stale.
SnapshotIsFresh == snapshot = LiveSnapshot

Delivered(t) == cursors[t].left + 1 .. cursors[t].right - 1
DeliveredEntries == {e \in Table \X Position : e[2] \in Delivered(e[1])}

\* Between scans the ledgers tell the truth about the cursors: a table counts as
\* exhausted exactly when all its entries were delivered, as complete only when
\* everything inside the current bound was, and projection_hits is the number
\* of entries delivered.
LedgersMatchCursors ==
    /\ exhaustedCount = Cardinality({t \in Table : exhausted[t]})
    /\ completedCount = Cardinality({t \in Table : roundComplete[t]})
    /\ \A t \in Table :
         /\ exhausted[t] <=> Delivered(t) = Position
         /\ roundComplete[t] =>
              \A i \in Position :
                 Inside(problem.values[t], problem.query[t], i, Bound) => i \in Delivered(t)
    /\ scan = NoScan => hits = Cardinality(DeliveredEntries)

\* A normal finish is reported as scan_exhausted exactly when every entry of
\* every table has been delivered.
ReasonIsHonest ==
    outcome \in Results =>
        /\ outcome.reason = "scan_exhausted" => DeliveredEntries = Table \X Position
        /\ outcome.reason = "strategy" => DeliveredEntries # Table \X Position
=============================================================================
