----------------------------- MODULE SortTables -----------------------------
(***************************************************************************)
(* SortTables (src/qalsh.cc): the one place where the library starts       *)
(* threads.  A builder has collected the entries of its tables and sorts   *)
(* them with up to Requested workers, of which it is one itself; a worker  *)
(* claims tables from an atomic counter.  Starting a thread may fail, and  *)
(* then the tables are about to be destroyed by the exception.             *)
(*                                                                         *)
(* Sorting a table is one step; two workers on one table would be two      *)
(* workers with the same claim.  With one worker the code is a plain loop, *)
(* which does what the builder does here when it starts no thread.         *)
(*                                                                         *)
(* An operator named Slip... is a plausible mistake in the definition that *)
(* follows it, kept to show that some property notices it.                 *)
(***************************************************************************)
EXTENDS Integers, FiniteSets

CONSTANTS
    TableCount,     \* tables.size()
    Requested,      \* config.build_threads
    NoTable         \* a worker that sorts nothing

Table == 0 .. TableCount - 1

ASSUME SortTablesAssumption ==
    /\ TableCount \in Nat \ {0}
    /\ Requested \in Nat \ {0}
    /\ NoTable \notin Table

WorkerCount == IF Requested <= TableCount THEN Requested ELSE TableCount
Builder == 0
Thread == 1 .. WorkerCount - 1
Worker == Thread \cup {Builder}

VARIABLES
    next,       \* the atomic counter
    started,    \* threads.size()
    pc,         \* where each worker is
    claimed,    \* the table each worker is sorting
    sorted      \* the tables that are sorted

sortVars == <<next, started, pc, claimed, sorted>>

SortTypeOK ==
    /\ next \in Nat
    /\ started \in 0 .. WorkerCount - 1
    /\ pc \in [Worker -> {"absent", "starting", "claiming", "sorting", "done",
                          "joining", "unwinding", "returned", "thrown"}]
    /\ claimed \in [Worker -> Table \cup {NoTable}]
    /\ sorted \in SUBSET Table

InitSort ==
    /\ next = 0
    /\ started = 0
    /\ pc = [w \in Worker |-> IF w = Builder THEN "starting" ELSE "absent"]
    /\ claimed = [w \in Worker |-> NoTable]
    /\ sorted = {}

-----------------------------------------------------------------------------
\* threads.emplace_back(work)
StartThread ==
    /\ pc[Builder] = "starting"
    /\ started < WorkerCount - 1
    /\ started' = started + 1
    /\ pc' = [pc EXCEPT ![started + 1] = "claiming"]
    /\ UNCHANGED <<next, claimed, sorted>>

\* Thread creation throws: the counter is pushed past the last table and the
\* started threads are joined before the exception goes on.
StartFails ==
    /\ pc[Builder] = "starting"
    /\ started < WorkerCount - 1
    /\ next' = TableCount
    /\ pc' = [pc EXCEPT ![Builder] = "unwinding"]
    /\ UNCHANGED <<started, claimed, sorted>>

\* The builder has started all threads and becomes a worker.
JoinTheWork ==
    /\ pc[Builder] = "starting"
    /\ started = WorkerCount - 1
    /\ pc' = [pc EXCEPT ![Builder] = "claiming"]
    /\ UNCHANGED <<next, started, claimed, sorted>>

\* Slip: two workers read the counter before either has written it.
SlipLostUpdate == next
FetchAdd == next + 1

IsTable(id) == id < TableCount

\* next.fetch_add and the test that follows it.
Claim(w) ==
    /\ pc[w] = "claiming"
    /\ next' = FetchAdd
    /\ IF IsTable(next)
         THEN /\ pc' = [pc EXCEPT ![w] = "sorting"]
              /\ claimed' = [claimed EXCEPT ![w] = next]
         ELSE /\ pc' = [pc EXCEPT ![w] = IF w = Builder THEN "joining" ELSE "done"]
              /\ UNCHANGED claimed
    /\ UNCHANGED <<started, sorted>>

\* sort_one
Sort(w) ==
    /\ pc[w] = "sorting"
    /\ sorted' = sorted \cup {claimed[w]}
    /\ claimed' = [claimed EXCEPT ![w] = NoTable]
    /\ pc' = [pc EXCEPT ![w] = "claiming"]
    /\ UNCHANGED <<next, started>>

\* Slip: the threads are detached.
SlipDetached == TRUE
AllJoined == \A w \in Thread : pc[w] \in {"absent", "done"}

\* The destructors of the jthreads join them; then SortTables is left.
Leave ==
    /\ pc[Builder] \in {"joining", "unwinding"}
    /\ AllJoined
    /\ pc' = [pc EXCEPT ![Builder] = IF @ = "joining" THEN "returned" ELSE "thrown"]
    /\ UNCHANGED <<next, started, claimed, sorted>>

BuilderStep == StartThread \/ StartFails \/ JoinTheWork \/ Leave

WorkerStep(w) == Claim(w) \/ Sort(w)

NextSort == BuilderStep \/ \E w \in Worker : WorkerStep(w)

SortSpec == InitSort /\ [][NextSort]_sortVars

\* The operating system runs every started thread, and each sort ends.
FairSortSpec == SortSpec /\ WF_sortVars(BuilderStep) /\ \A w \in Worker : WF_sortVars(WorkerStep(w))

-----------------------------------------------------------------------------
\* Two workers never sort one table, and no table is sorted a second time
\* while others may already rely on it.
SortedByOneWorker ==
    \A w \in Worker : pc[w] = "sorting" =>
        /\ claimed[w] \in Table \ sorted
        /\ \A v \in Worker \ {w} : claimed[v] # claimed[w]

\* Whether it returns or throws, SortTables leaves no thread behind that still
\* touches the tables; and when it returns, every table is sorted.
ConsumedOnlyWhenSorted ==
    /\ pc[Builder] \in {"returned", "thrown"} =>
          \A w \in Worker : claimed[w] = NoTable /\ pc[w] \notin {"claiming", "sorting"}
    /\ pc[Builder] = "returned" => sorted = Table

\* A worker that has not finished sorting does not keep the builder for ever,
\* even when a thread could not be started.
SortingEnds == <>(pc[Builder] \in {"returned", "thrown"})
=============================================================================
