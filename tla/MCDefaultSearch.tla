--------------------------- MODULE MCDefaultSearch ---------------------------
(* Two tables over three points, every assignment of the points to the      *)
(* positions of the second table.  The radii are 1, 2 and 4; the value 5    *)
(* lies outside every window, so that some searches end because the radius  *)
(* cannot grow.  The standard rule with every k, threshold and quantum, and *)
(* a few searches with other settings, custom rules and a step limit.       *)
EXTENDS DefaultSearch, TLC

MCValues == {<<-2, -1, 1>>, <<0, 0, 1>>, <<-1, 2, 5>>}
MCDistances == {0 :> 1 @@ 1 :> 3 @@ 2 :> 3, 0 :> 9 @@ 1 :> 2 @@ 2 :> 4}

\* SortTables puts equal values in the order of the point ids.
InBuildOrder(values, points) ==
    \A i \in 1 .. EntryCount - 1 : values[i] = values[i + 1] => points[i] < points[i + 1]

MCIndexes ==
    {[values |-> (0 :> v @@ 1 :> w), points |-> (0 :> <<0, 1, 2>> @@ 1 :> p),
      query |-> [t \in Table |-> 0], distance |-> d] :
        v \in MCValues, w \in MCValues, d \in MCDistances,
        p \in {f \in [1 .. EntryCount -> Point] : \A i, j \in 1 .. EntryCount : f[i] = f[j] => i = j}}

Standard ==
    [quantum |-> 1, bounded |-> TRUE, maxSteps |-> 40, k |-> 1, threshold |-> 2,
     candidateBudget |-> 2, budgetOverride |-> Unset, ratio |-> 1,
     checkAfterEvaluation |-> TRUE, checkAtRoundBoundary |-> TRUE,
     customCandidates |-> FALSE, customTermination |-> FALSE]

MCSettings ==
    {[Standard EXCEPT !.k = k, !.threshold = m, !.quantum = s] :
        k \in 1 .. 2, m \in 1 .. 2, s \in 1 .. 2}
    \cup {[Standard EXCEPT !.budgetOverride = NoBudget, !.k = 3, !.ratio = 0]}
    \cup {[Standard EXCEPT !.budgetOverride = 1, !.k = 2, !.quantum = 3]}
    \cup {[Standard EXCEPT !.checkAfterEvaluation = a, !.checkAtRoundBoundary = b, !.quantum = 3] :
            a \in BOOLEAN, b \in BOOLEAN}

Unusual ==
    {[Standard EXCEPT !.customCandidates = TRUE], [Standard EXCEPT !.customTermination = TRUE],
     [Standard EXCEPT !.maxSteps = 4]}

WithIndex(index, settings) == index @@ settings

MCProblems ==
    {q \in {WithIndex(x, s) : x \in MCIndexes, s \in MCSettings} :
        \A t \in Table : InBuildOrder(q.values[t], q.points[t])}
    \cup {WithIndex(x, s) :
            x \in {x \in MCIndexes : x.points[1] = <<2, 1, 0>> /\ x.values[0] # x.values[1]
                                     /\ \A t \in Table : InBuildOrder(x.values[t], x.points[t])},
            s \in Unusual}
=============================================================================
