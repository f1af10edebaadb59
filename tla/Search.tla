------------------------------- MODULE Search -------------------------------
(***************************************************************************)
(* What a search with the default strategy promises its caller, with no    *)
(* word of cursors, scans, queues, counters or snapshots: points are       *)
(* evaluated that collide with the query in enough tables, as if there     *)
(* were hash tables made for the radius ("virtual rehashing"); the radius  *)
(* grows when all of them are evaluated; the answer is the k best points   *)
(* evaluated.  DefaultSearch implements this.                              *)
(***************************************************************************)
EXTENDS CursorScan, FiniteSets

CONSTANTS
    TableCount, Problems, InitialRadius, RadiusGrowth, BucketWidth, MaxFloat,
    NoBudget, Unset

VARIABLES problem, radius, seen, outcome

vars == <<problem, radius, seen, outcome>>

Table == 0 .. TableCount - 1
Point == 0 .. EntryCount - 1

Running == [reason |-> "running"]
Thrown == [reason |-> "thrown"]

Init ==
    /\ problem \in Problems
    /\ radius = InitialRadius
    /\ seen = {}
    /\ outcome = Running

\* The points whose bucket in at least threshold tables is the query's.
CollidesIn(p, t) ==
    \E i \in Position :
        /\ problem.points[t][i] = p
        /\ Inside(problem.values[t], problem.query[t], i, (BucketWidth * radius) \div 2)
Colliding == {p \in Point : Cardinality({t \in Table : CollidesIn(p, t)}) >= problem.threshold}

\* The k best of a set, nearest first, the smaller id first among equals.
Better(p, q) ==
    \/ problem.distance[p] < problem.distance[q]
    \/ problem.distance[p] = problem.distance[q] /\ p < q
BestOf(S) ==
    LET rank(p) == 1 + Cardinality({q \in S : Better(q, p)})
    IN  [i \in 1 .. SmallerOf(problem.k, Cardinality(S)) |-> CHOOSE p \in S : rank(p) = i]

Budget ==
    IF problem.budgetOverride = Unset
      THEN SmallerOf(EntryCount, problem.candidateBudget + problem.k - 1)
      ELSE problem.budgetOverride

BudgetSpent == Budget # NoBudget /\ Cardinality(seen) >= Budget
GoodEnough == Cardinality({p \in seen : problem.distance[p] <= problem.ratio * radius}) >= problem.k

\* The standard rule: the budget is spent, or k points lie within ratio times
\* the radius.
Satisfied == BudgetSpent \/ GoodEnough

\* A custom termination rule takes the place of the standard one.
Asked(checks) == checks /\ ~problem.customTermination

\* The budget never grows, so it holds between rounds too; after a round the
\* radius is another, and only a check at its boundary can tell.
Evaluate(p) ==
    /\ outcome = Running
    /\ p \notin seen
    /\ problem.customCandidates \/ p \in Colliding
    /\ Asked(problem.checkAfterEvaluation) => ~BudgetSpent
    /\ Asked(problem.checkAfterEvaluation /\ problem.checkAtRoundBoundary) => ~Satisfied
    /\ seen' = seen \cup {p}
    /\ UNCHANGED <<problem, radius, outcome>>

Widen ==
    /\ outcome = Running
    /\ problem.customCandidates \/ Colliding \subseteq seen
    /\ Asked(problem.checkAtRoundBoundary) => ~Satisfied
    /\ radius' = radius * RadiusGrowth /\ radius' <= MaxFloat
    /\ UNCHANGED <<problem, seen, outcome>>

\* A normal end has a reason: the rule says so, or nothing is left.
Justified ==
    \/ problem.customTermination \/ problem.customCandidates
    \/ Satisfied
    \/ seen = Point

Return ==
    /\ outcome = Running
    /\ \E reason \in {"strategy", "scan_exhausted", "step_limit"},
          hits \in 0 .. TableCount * EntryCount :
         /\ reason \in {"strategy", "scan_exhausted"} => Justified
         /\ outcome' = [reason |-> reason, neighbors |-> BestOf(seen),
                        evaluated |-> Cardinality(seen), hits |-> hits,
                        complete |-> /\ reason # "step_limit"
                                     /\ Cardinality(seen) >= problem.k]
    /\ UNCHANGED <<problem, radius, seen>>

Throw ==
    /\ outcome = Running
    /\ outcome' = Thrown
    /\ UNCHANGED <<problem, radius, seen>>

Next == (\E p \in Point : Evaluate(p)) \/ Widen \/ Return \/ Throw

Spec == Init /\ [][Next]_vars
=============================================================================
