---------------------------- MODULE DefaultSearch ----------------------------
(***************************************************************************)
(* A search by DefaultQalshStrategy (include/qalsh/qalsh.h, src/qalsh.cc): *)
(* points are counted as the scans meet them in the tables, a point met in *)
(* collision_threshold tables is evaluated, the window is widened when     *)
(* every table has completed it, and the search stops on a budget, on a    *)
(* good enough k-th neighbour, or when nothing is left to scan.            *)
(*                                                                         *)
(* Each action is an action of SearchEngine taken together with the        *)
(* strategy callback it makes; the table queue is TableScanSchedule.  The  *)
(* custom candidate and termination rules are external: their answers are  *)
(* arbitrary.                                                              *)
(*                                                                         *)
(* An operator named Slip... is a plausible mistake in the definition that *)
(* follows it, kept to show that some property notices it.                 *)
(***************************************************************************)
EXTENDS SearchEngine

CONSTANTS
    NoBudget,       \* std::nullopt
    Unset,          \* candidate_budget_override_set_ is false
    MaxAdvances     \* bound: no search of Problems widens the window more often

\* What the strategy adds to a problem: its own settings and those of the index.
IsDefaultProblem(q) ==
    /\ q.threshold \in 1 .. TableCount
    /\ q.candidateBudget \in Nat \ {0}      \* metadata.qalsh.candidate_budget
    /\ q.budgetOverride \in (Nat \ {0}) \cup {NoBudget, Unset}
    /\ q.ratio \in Nat                      \* approximation_ratio
    /\ q.checkAfterEvaluation \in BOOLEAN
    /\ q.checkAtRoundBoundary \in BOOLEAN
    /\ q.customCandidates \in BOOLEAN
    /\ q.customTermination \in BOOLEAN

ASSUME DefaultProblemsAssumption == \A q \in Problems : IsDefaultProblem(q)

\* What TableScanSchedule asks of its constants, as the search uses it.
ASSUME ScheduleAssumption == NoScan \notin Table /\ MaxAdvances \in Nat

VARIABLES
    remaining,          \* collision_state_: collisions until a point is accepted
    radiusAdvanced,     \* radius_advanced_
    finishRequested,    \* finish_requested_
    tableExhausted, tableCompleted, exhaustedTables, completedTables,
    pendingTables,      \* table_schedule_
    advances            \* history: how often the window was widened

scheduleVars == <<tableExhausted, tableCompleted, exhaustedTables, completedTables, pendingTables>>
strategyVars == <<remaining, radiusAdvanced, finishRequested, scheduleVars, advances>>
vars == <<engineVars, strategyVars>>

\* The schedule sees a scan as one step, at its boundary.
Unread == [t \in Table |-> cursors[t].left + EntryCount - cursors[t].right + 1]
Scanning == IF scan = NoScan THEN NoScan ELSE scan.table

Schedule == INSTANCE TableScanSchedule
    WITH Entries <- EntryCount, NoTable <- NoScan, scanning <- Scanning, unread <- Unread

\* What the search promises, in terms of the points it has evaluated.
Promise == INSTANCE Search

\* start()
Init ==
    /\ InitEngine
    /\ remaining = [p \in Point |-> problem.threshold]
    /\ radiusAdvanced = FALSE
    /\ finishRequested = FALSE
    /\ advances = 0
    /\ Schedule!Init

-----------------------------------------------------------------------------
\* The budget of a top-k search.
StandardBudget == SmallerOf(EntryCount, problem.candidateBudget + problem.k - 1)

\* active_candidate_budget_: an override replaces the standard budget, and a
\* custom termination rule removes it.
Budget ==
    IF problem.customTermination THEN NoBudget
    ELSE IF problem.budgetOverride = Unset THEN StandardBudget
    ELSE problem.budgetOverride

\* Slips: one evaluation too many; fewer than k neighbours may be good enough.
SlipBudgetOneMore(state) == Budget # NoBudget /\ state.evaluated > Budget
BudgetSpent(state) == Budget # NoBudget /\ state.evaluated >= Budget

SlipFewerAreGoodEnough(state) ==
    /\ state.neighbors # <<>>
    /\ problem.distance[state.neighbors[Len(state.neighbors)]] <= problem.ratio * state.radius
GoodEnough(state) ==
    /\ Len(state.neighbors) >= problem.k
    /\ problem.distance[state.neighbors[Len(state.neighbors)]] <= problem.ratio * state.radius

\* should_terminate(state): the answers it may give.
TerminationAnswers(state) ==
    IF problem.customTermination THEN BOOLEAN
    ELSE {BudgetSpent(state) \/ GoodEnough(state)}

\* Slip: the count is compared with zero before it is counted down.
SlipTestBeforeCountdown(p) == remaining[p] = 0
ReachesThreshold(p) == remaining[p] = 1

StillAccepting == ~finishRequested

\* accept_hit and accept_builtin_id: count down, and accept a point once.  A
\* custom rule is asked for every hit of a point it has not accepted yet.
HitDecisions ==
    IF ~StillAccepting \/ remaining[HitPoint] = 0 THEN {NoCandidate}
    ELSE IF problem.customCandidates THEN {NoCandidate, HitPoint}
    ELSE IF ReachesThreshold(HitPoint) THEN {HitPoint} ELSE {NoCandidate}

\* on_projection_hit, and on_evaluation when the hit is accepted.
Hit ==
    \E candidate \in IF HitsToCome THEN HitDecisions ELSE {} :
        /\ DeliverHit(candidate)
        /\ remaining' =
             IF ~StillAccepting \/ remaining[HitPoint] = 0 THEN remaining
             ELSE IF candidate # NoCandidate THEN [remaining EXCEPT ![HitPoint] = 0]
             ELSE IF problem.customCandidates THEN remaining
             ELSE [remaining EXCEPT ![HitPoint] = @ - 1]
        /\ IF candidate # NoCandidate /\ problem.checkAfterEvaluation
             THEN \E stop \in TerminationAnswers(snapshot') :
                    finishRequested' = (finishRequested \/ stop)
             ELSE UNCHANGED finishRequested
        /\ UNCHANGED <<radiusAdvanced, scheduleVars, advances>>

\* on_scan_boundary
Boundary ==
    /\ EndScan
    /\ Schedule!OnScanBoundary(scan.table, scan.result.windowExhausted, scan.result.tableExhausted)
    /\ IF ~finishRequested /\ problem.checkAtRoundBoundary /\ snapshot'.roundComplete
         THEN \E stop \in TerminationAnswers(snapshot') : finishRequested' = stop
         ELSE UNCHANGED finishRequested
    /\ UNCHANGED <<remaining, radiusAdvanced, advances>>

\* next(), up to the table queue: the answers to "stop here?".
StopNow ==
    IF finishRequested THEN {TRUE}
    ELSE IF radiusAdvanced /\ problem.checkAtRoundBoundary THEN TerminationAnswers(snapshot)
    ELSE {FALSE}

\* next(), with an empty queue.
StopAtRoundEnd ==
    IF Schedule!AllTablesExhausted \/ snapshot.allTablesExhausted THEN {TRUE}
    ELSE IF snapshot.roundComplete /\ problem.checkAtRoundBoundary THEN TerminationAnswers(snapshot)
    ELSE {FALSE}

ServeTable ==
    /\ FALSE \in StopNow
    /\ Schedule!HasPending
    /\ BeginScan(Head(pendingTables), "quantum")
    /\ pendingTables' = Tail(pendingTables)
    /\ radiusAdvanced' = FALSE
    /\ UNCHANGED <<remaining, finishRequested, tableExhausted, tableCompleted,
                   exhaustedTables, completedTables, advances>>

\* on_radius_advanced
Widen ==
    /\ FALSE \in StopNow
    /\ ~Schedule!HasPending
    /\ FALSE \in StopAtRoundEnd
    /\ AdvanceRadius
    /\ Schedule!OnRadiusAdvanced
    /\ radiusAdvanced' = TRUE
    /\ UNCHANGED <<remaining, finishRequested>>

WidenThrows ==
    /\ FALSE \in StopNow
    /\ ~Schedule!HasPending
    /\ FALSE \in StopAtRoundEnd
    /\ AdvanceRadiusThrows
    /\ radiusAdvanced' = FALSE
    /\ UNCHANGED <<remaining, finishRequested, scheduleVars, advances>>

Stop ==
    /\ \/ TRUE \in StopNow
       \/ FALSE \in StopNow /\ ~Schedule!HasPending /\ TRUE \in StopAtRoundEnd
    /\ Finish
    /\ finishRequested' = TRUE
    /\ radiusAdvanced' = (radiusAdvanced /\ finishRequested)
    /\ UNCHANGED <<remaining, scheduleVars, advances>>

RunsOut == StepLimit /\ UNCHANGED strategyVars
Aborts == CallbackThrows /\ UNCHANGED strategyVars

Progress == Hit \/ Boundary \/ ServeTable \/ Widen \/ WidenThrows \/ Stop \/ RunsOut

Next == Progress \/ Aborts

Spec == Init /\ [][Next]_vars

\* search runs on its caller's thread and every callback returns or throws.
FairSpec == Spec /\ WF_vars(Progress)

-----------------------------------------------------------------------------
\* The tables in which point p has been met so far, a scan in flight included.
DeliveredInFlight ==
    IF scan = NoScan THEN {}
    ELSE {scan.result.hits[j] : j \in 1 .. scan.delivered}
Met(p) ==
    {t \in Table : \E i \in Position :
        /\ problem.points[t][i] = p
        /\ \/ i \in Delivered(t)
           \/ Scanning = t /\ i \in DeliveredInFlight}

\* The collision counts are right in the middle of any scan: until the search
\* is stopped, the evaluated points are exactly those met in threshold tables,
\* and a stopped search has evaluated no other.
CollisionsAreExact ==
    ~problem.customCandidates =>
        LET accepted == {p \in Point : Cardinality(Met(p)) >= problem.threshold}
        IN  /\ seen \subseteq accepted
            /\ ~finishRequested =>
                  /\ seen = accepted
                  /\ \A p \in Point :
                       remaining[p] = IF p \in accepted THEN 0
                                      ELSE problem.threshold - Cardinality(Met(p))

\* Every call of next() pays for itself: it delivers an entry, completes a
\* table's window or widens it, so the step limit bounds the radius advances
\* and nothing else.
StepsNeeded == EntryCount * TableCount + (advances + 1) * (TableCount + 1)
StepsAreProductive == steps <= StepsNeeded

\* Given enough steps, every search ends by itself.
SearchFinishes ==
    problem.maxSteps > EntryCount * TableCount + (MaxAdvances + 1) * (TableCount + 1)
        => <>(outcome.reason \in {"strategy", "scan_exhausted", "thrown"})

\* The strategy's use of the cursors and of its queue is a behaviour of the
\* scheduler: each scan it reports obeys the cursor contract assumed there.
ImplementsSchedule == Schedule!Spec

\* Cursors, partial scans, two ledgers, countdowns and a cached snapshot
\* together evaluate, widen and answer as the promise says, at every step.
ImplementsSearch == Promise!Spec
=============================================================================
