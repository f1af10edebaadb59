# A TLA+ model of qalsh-lib

qalsh-lib answers approximate nearest-neighbour queries with query-aware
locality-sensitive hashing. Every point is projected on `m` random vectors; a
*projection table* holds the projections on one vector, sorted. A query walks
outward from its own projection in every table, inside a window that grows with
a radius, counts in how many tables it meets each point, and computes the
distance of the points it has met often enough. The answer is the `k` best
evaluated points.

The library is `src/include/qalsh/qalsh.h`, `src/src/qalsh.cc` and
`src/src/window_clamp.h`; its releases are made by
`src/.github/release/release_automation.py`. This directory models the parts of it in which a
mistake would be a wrong or missing answer rather than a failing test, checks
them with TLC on small instances and proves the main results with TLAPS for
every instance.

## 1. Inventory

Each part: the state it keeps, its operations, how it meets the others, what is
hard about it, and what makes it right.

**Projection indexes and their cursors** (`InMemoryIndex`, `BPlusTreeIndex`,
`SortedArrayIndex`). Immutable tables after construction; a cursor per table and
query with a left and a right position, a blocked flag for each side and the
last bound. `make_cursor`/`reset_cursor` place it at the lower bound of the
query; `scan` delivers the next entries of the window, at most a quantum or up to
the end of a leaf or region, and reports whether the window or the table is
exhausted. The engine calls it, and gets a callback per range of entries. Hard:
resuming at any cut, in any mixture of scopes and bounds, without repeating or
losing an entry; quanta of one; windows that close at the end of a region.
Right when each entry of the window is delivered once and reports are true.

**Window clamp kernel** (`window_detail::ClampToWindow`). No state; shortens a
range of entries to those inside the window, by binary search over blocks of
four with SSE2 and by plain binary search without. Hard: the last block of a
range, and the lane order of ranges that run backwards in memory.

**Table scan schedule** (`TableScanSchedule`). A queue of tables, a flag per
table for "exhausted" and for "complete in this window", two counters.
`next_table`, `on_scan_boundary`, `on_radius_advanced`. It sees no cursors and
relies on what it is told. Hard: tables exhausted in different windows, a radius
advanced early, counters and flags kept apart. Right when no table is lost or
queued twice, so that an empty queue means a complete window.

**Search engine** (`SearchEngine::search`). The loop: ask the strategy for an
action, scan, evaluate, widen or finish; it owns the cursors, the radius, the set
of evaluated points, the `k` best neighbours, a ledger of tables and a cached
snapshot that every callback is given. Hard: callbacks in the middle of a scan,
duplicate submissions, ties at the pruning distance, a cache with a patched
field, every way to end. Right whatever the strategy does.

**Default strategy** (`DefaultQalshStrategy`). Collision counters, budget and
distance rule, replaceable candidate and termination rules, and a
`TableScanSchedule` of its own. Hard: counts that span scans, stops in the middle
of a range, two ledgers for the same tables, termination. Right when the points
evaluated are those that collide in enough tables in the current window
("virtual rehashing"), the budget is kept and each search ends for a reason.

**Query scratch pool** (`QueryScratch`, thread_local). Cursors and per-point
epochs reused by the searches of a thread. Hard: a search inside a callback of
another one, a search that throws while it prepares, an index that takes the
address of a dead one, the wrap of a 32-bit epoch. Right when no search notices
any other.

**Parallel table sort** (`SortTables`). The only threads of the library: workers
claim tables from an atomic counter. Hard: a thread that cannot be started while
others are at work.

**Persistent index** (`PersistentIndex::Build`/`Open`, `PublishIndexFile`). A
file written under a temporary name, synchronised, then renamed or linked to its
path; opened by its magic, twice. Hard: racing builders, failures after the file
is visible, crashes. Right when the path leads to nothing or to a whole index.

**B+ tree file** (`BPlusTreeIndex::Build`, `load_header`, `reset_cursor`). Leaves with
links both ways, levels of parents with separators, a root per table. Build lays them
out; Open checks all of them; a cursor descends to its query. Hard: levels that do not
divide evenly, equal values across leaves, redundant fields that disagree. Right when
Open takes what Build wrote and nothing in which a query starts in the wrong place.

**Index file** (the layout code of both Builds, `Validate*HeaderEnvelope`,
`SortedArrayIndex::load_header`, `read_page`). A header of numbers that say where
roots, projection vectors and data are; Build computes them one way, Open checks them
another way, with numbers it has just read. Hard: formulas that must agree at every
size, products and sums that may wrap around, damaged numbers that agree with each
other. Right when Open takes what Build wrote, and no accepted file sends a read
outside of it.

**Release automation** (`ReleasePublisher.publish`). Tag, draft release, publication of
one version: three requests to GitHub, nothing atomic. Hard: a request that takes
effect after its sender has given up, retries, two commits that want one version, a
paged list that moves while it is read, people. Right when a retry repairs whatever an
earlier run left, what others made is not touched, and success means a published
release of the tested commit.

**Not stateful**: parameter derivation, projection, distance kernels, configuration
validation, serialisation. **Beside the library**: tests, recorded benchmarks.

Threads: concurrent searches share only immutable index resources (README.md of
the repository, lines 108-112); scratch is per thread. So interleaving arises
in four places only: callbacks inside a search, nested searches on a thread, the
table sort, and processes at one index path.

## 2. Modules

| module | models | composed with |
|---|---|---|
| `CursorScan` | reset and scan of one cursor, as operators on cursor records | |
| `ProjectionCursor` | a cursor's life: any queries, bounds, quanta and scopes | extends `CursorScan` |
| `RangeBoundary` | the same range scans on two back ends side by side | extends `CursorScan` twice |
| `BPlusTree` | the pages of a B+ tree index: Build, Open on whole and damaged files, descent | |
| `BPlusTreeCursor` | a cursor over those pages | extends `BPlusTree`, implements `ProjectionCursor` |
| `WindowClamp` | how `ClampToWindow` finds its prefix, step by step | |
| `TableScanSchedule` | the scheduler, against the cursor contract | |
| `SearchEngine` | one search with an arbitrary strategy | extends `CursorScan` |
| `Search` | what a search with the default strategy promises its caller | extends `CursorScan` for `Inside` |
| `DefaultSearch` | one search with the default strategy | extends `SearchEngine`, instantiates and implements `TableScanSchedule` and `Search` |
| `QueryScratch` | the scratch pool of a thread | |
| `SortTables` | the parallel sort | |
| `IndexPublish` | building, publishing and opening an index file | |
| `IndexFile` | where Build puts the regions of a file and what Open accepts of it | |
| `ReleasePublish` | publication of one version by runs of the release workflow | |

`MC*.tla` and `MC*.cfg` instantiate them for TLC, and `*_proofs.tla` hold the
theorems. Operators named `Slip...` are plausible mistakes in the definition
they precede; each property is known to be violated when one of them is put in
place.

**CursorScan / ProjectionCursor.** Positions are `1..EntryCount`;
`left = 0` and `right = EntryCount + 1` stand for `kNoIndex` or an inactive
side. The three back ends cut a range-scoped scan differently, which is the one
parameter `RegionCapacity`: the capacity of a leaf or region, or the whole table
in memory. In quantum scope the B+ tree walks leaf by leaf where the others take
the quantum at once; `BPlusTreeCursor` shows that both deliver the same entries.
`ClampToWindow` is stated here by what it returns; `WindowClamp` shows
how. Projected values are integers. The code compares
`abs(query - value) <= bound` in float32; what matters is that this is monotone
along a sorted table, which integer arithmetic shares.

**BPlusTree.** The pages of all tables in one sequence, as in the file; page 0 is the
null link. `AddLeaf` and `AddLevel` are iterations of Build's loops, `Open` is
`load_header`: its depth-first walk with colours is stated as what it accepts (every
page reached once, all leaves at one depth, keys, separators and links in
agreement). Between the two, `Damage` changes a field, misplaces a page or a root:
the file was lost, not written wrongly, so Open has to notice. Serialisation is left
out, so a damaged field keeps its type.

**IndexFile.** The two layouts of a file as numbers: `Build` computes them exactly as
the two Builds do, `Open` is the envelope check followed by `load_header`, up to what
pages of a tree hold. Arithmetic is the code's: `MultiplyFits` and `AddFits` are the
checked operations, `Multiply` and `Add` wrap around at `Bits`. Between the two a bit of
any number flips, the file is cut or padded, entries of a sorted array change.

**BPlusTreeCursor.** A scan is one step per range: `LeftRange`, `RightRange` act on the
copy of the position that `EndScan` stores (`sync_cursor`). `VisitorThrows` loses the
copy; the cursor keeps what `ResetBoundedSides` did to it and has to be reset. Cursors
are followed in undamaged indexes of `EntryCount` points. Under
the refinement mapping the cursor changes when a scan ends, and a place in a leaf is
the position of its entry in the sorted table.

**TableScanSchedule.** `unread` stands for the cursors: how many entries each has
left. `Scan` assumes of a cursor only that a scan which leaves the window open
has delivered something and that a table is exhausted when nothing is unread.
`ImplementsSchedule` in the run `default_search` shows that the real cursors, with
the real engine between, satisfy it: `DefaultSearch` implements
`TableScanSchedule` under the mapping of `unread` to the cursor positions and of
`scanning` to the scan in flight.

**SearchEngine.** A scan is many steps, because strategy code runs inside it:
`BeginScan` fixes the entries the scan will deliver (the cursor is private to
it), each `DeliverHit` is one call of `on_projection_hit` with the evaluation it
asks for, `EndScan` moves the cursor, updates the ledgers and calls
`on_scan_boundary`. The action the strategy returns is arbitrary, so is the
candidate it submits. An exception thrown by any callback, or by an invalid
table or point, ends the search (`CallbackThrows`). What a problem is made of
is `IsProblem`, which states the argument checks of `search_impl_typed`.

**DefaultSearch.** Each action is a `SearchEngine` action conjoined with the
callback of the strategy. Custom rules answer anything.

**Search.** Its state is the problem, the radius, the set of evaluated points and the
outcome: no cursors, scans, queues, counters or snapshots. A point may be evaluated when
its bucket is the query's in enough tables at the present radius ("virtual rehashing");
the radius may grow only when all such points are evaluated; the answer is the `k` best
evaluated points, and a normal end has a reason. Each step of `DefaultSearch` is one of
these or changes nothing here.

**QueryScratch.** An index object has a number and an address. A number comes
back only when no scratch remembers it, as a `weak_ptr` keeps its control block
alive; an address comes back at once. `StartSearch` is the whole head of
`search_impl_typed`; `StartThrows` is the same with the cursors prepared up to
some table.

**SortTables.** One step claims (`fetch_add` and its test), one sorts. The plain
loop used with one worker is the builder working alone.

**IndexPublish.** A file is its builder; `onDisk` is the set of files the path may
have after a crash, which an `fsync` of the directory reduces to the present one.
A file that was not synchronised may lose any part. Each system call may fail
(`Fail`), a builder may be killed anywhere, the machine may crash. `mkstemp` gives any
name that is free, one that was used before too: a builder whose rename has succeeded
and whose directory fsync then fails unlinks a name that is no longer its own.

**ReleasePublish.** `GetTag` to `List` are the script up to its next request; what it
sends is put `inFlight` and served later (`Serve`), also when the sender has failed, was
killed or has timed out (`Interrupt`), or never (`Lose`). GitHub is modelled from how
the script uses it. Runs of the workflow are serial (its concurrency group), runs by
hand are not. `Meddle` is what people do: tag, draft, edit, publish, delete, release
another version.

## 3. What is checked

All runs but `range_boundary` end with no error. Every property of theirs has a mutant,
a mistake in a mapped definition that makes TLC find it violated.

| run | bounds | why they are enough |
|---|---|---|
| `schedule` | 3 tables of 2 entries, 2 radius advances | tables exhausted at different times and in different windows, windows left early |
| `cursor` | all sorted tables of 4 entries over 0..3, all queries, bounds 0..2, quanta 1..4, both scopes, regions of 2 | ties, tables on one side, windows closing before, at and after a region's end, all mixtures of scopes |
| `engine` | 2 tables, 3 points, k = 1 and 2, pruning on or off, 6 actions | both tables can be exhausted, two points tie, one radius is not representable |
| `default_search` | 2 tables, 3 points, every second table, radii 1, 2, 4, k, thresholds and quanta 1 and 2, other settings, custom rules, a step limit | every kind of end, budgets reached in the middle of a range |
| `b_plus_tree` | leaves of 2, parents of 2 or 3; one or two tables, in opposite orders, of 1 to 13 points, three values in every proportion; up to 2 damages to files of at most 4 pages; cursors in trees of 7 points, bounds 0 and 1, quanta 1, 3, 4 and 8, both scopes | one to three levels, every remainder of a level by the capacity, values that fill several leaves; damages that hide each other; limits before, at and behind the end of a leaf, windows ending there too |
| `sort_tables` | 4 tables, 3 workers | idle and busy workers, failure with none or one thread started |
| `query_scratch` | 2 addresses, 3 objects, 1 or 2 points, nesting 2, epochs up to 2 | an address used again, the epoch wrapping within two searches, vectors growing and shrinking |
| `window_clamp` | ranges up to 24, every prefix, both directions and builds | up to three blocks probed, at both ends |
| `index_publish` | 2 builders, 1 reader, 2 temporary names, files of 2 pieces, 1 crash | overwrite or not, same or other layout, every failure point, a name given again |
| `index_file` | words of 6 bits; 1 to 3 points, 1 or 2 dimensions and tables, pages of 4 or 8 bytes; 2 damages | some files are as large as an offset allows, products of damaged numbers pass the word; tables of one and two regions, trees of one and two levels; two damages that agree |
| `release_publish` | 3 runs, 2 commits, pages of 1 release and 3 of them, 2 other releases, 1 interference | a retry after a retry, two commits in a race, lists empty, short, just full and too long, requests that arrive two runs late |

What they show:

* `cursor`: `DeliveredOnceInWindow`, `WindowReportIsExact` (a closed window has
  nothing undelivered).
* `schedule`: `LedgerAgrees`, `QueueIsIncompleteTables`, `NoOvertaking` (round
  robin), `RoundCompletes` (liveness).
* `engine`, for any strategy: `NeighborsAreBestEvaluated` (pruning and duplicates
  change nothing), `SnapshotIsFresh`, `LedgersMatchCursors`, `ReasonIsHonest`.
* `default_search`: `ImplementsSearch` (refinement): virtual rehashing, budget, early
  stop, window growth and answer as `Search` promises, at every step;
  `ImplementsSchedule` (refinement); `CollisionsAreExact` at every moment, in the middle
  of a scan too; `StepsAreProductive`; `SearchFinishes` (liveness).
* `b_plus_tree`: `BuiltIndexIsAccepted`, `OpenIndexIsSearchable` (no damage within the
  bounds that Open lets through can put a query in the wrong place),
  `ImplementsProjectionCursor` (refinement): all that is proved of `ProjectionCursor`
  holds of the tree.
* `sort_tables`: `SortedByOneWorker`, `ConsumedOnlyWhenSorted`, `SortingEnds`
  (liveness).
* `query_scratch`: `ScratchIsExclusive`, `SeenIsOwnWork`, `CursorsBelongToSearch`.
* `window_clamp`: `FindsLongestPrefix`, `ReadsWithinRange`, `ClampReturns`
  (liveness).
* `index_publish`: `PathLeadsToWholeIndex`, `OpenedIndexIsWhole`,
  `SuccessIsDurable`, `TemporaryIsRemoved`, `NeverClobbered`.
* `index_file`: `BuiltFileIsAccepted`, `ReadsStayInFile` (in true arithmetic, though Open
  computes in words), `OpenTablesAreWhole`.
* `release_publish`: `ReleaseIsOfTaggedCommit`, `SuccessIsPublished`,
  `OthersAreUntouched`, `FailureHasACause` (safe to retry: a run fails only when a call
  of its own does, people interfere, or there is something for them to resolve),
  `RetryReusesDraft` (no second draft, unless a request was overtaken by a later run or
  people changed the list meanwhile; in both cases a second draft is possible).

* `range_boundary` (4 entries, regions of 2) expects a violation.
  `BoundaryIsBackendIndependent` states what README.md of the repository (lines
  97-98) says of the range scope, that it gives "a backend-independent logical
  boundary". A range-scoped scan of a persistent index ends at a B+ tree leaf
  (`qalsh.cc:2196`, `qalsh.cc:2234`) or a region of the same size
  (`qalsh.cc:2530`), while the in-memory scan has no such end and completes the
  window (`qalsh.cc:1077`): one scan reports a complete window on one back end
  and an open one on the other. A strategy that decides at scan boundaries sees
  the difference; the comment at `qalsh.h:117-122` speaks of the leaf but not of
  memory.

Two more observations, outside the instances that run:

* With three builders and one temporary name `PathLeadsToWholeIndex` of `IndexPublish`
  is violated. `published` is set only after `PublishIndexFile` has returned
  (`qalsh.cc:1342-1343`); when the rename has succeeded and the directory cannot be
  opened or synchronised, the catch block unlinks the temporary name again
  (`qalsh.cc:1348-1350`). If `mkstemp` has meanwhile given the free name to a second
  builder, that one's unfinished file loses its name, a third builder can be given it,
  and the second one's rename moves the third's unfinished file to the path. It takes
  six equal random characters twice at such a moment.
* A draft whose notes a person rewrites between the script's read and its PATCH is
  published without the marker: the check (`release_automation.py:433`) and the
  unconditional PATCH (`436-440`) are two requests. `OthersAreUntouched` says what holds
  nevertheless.

**Fairness.** Weak fairness of the next step where the code is straight-line on
its caller's thread: the engine's loop takes its next step and every callback
returns or throws (`DefaultSearch`), every table handed out is scanned
(`TableScanSchedule`), the clamp continues (`WindowClamp`). In `SortTables` each
worker and the builder are fair separately, as the operating system runs every
started thread. No fairness is assumed of exceptions, thread-start failures,
radius advances by a free strategy, or of anything in `IndexPublish`, `IndexFile`,
`ReleasePublish` and `QueryScratch`.

**Deadlock** is checked in `cursor`, `query_scratch` and `index_publish`. The other
systems really stop: a function returns, an index is open or refused, every run has
ended.

## 4. What is proved

TLAPS proves, for every value of the constants that satisfies the named
assumptions:

* `Cursor_proofs`, of `ProjectionCursor`: types, `DeliveredOnceInWindow`, `WindowReportIsExact`,
  `ScanStaysInQuantum`. The argument: `WellPlaced` (the two positions split the
  table at the query, all between them is inside the last bound, a blocked side
  faces an entry outside) is kept by a scan, `CursorScan_proofs!ScanIsCorrect`.
  `DeliveredOnceInWindow` alone is not inductive: that a later entry is not yet
  delivered needs the positions, that a report is right needs the blocked sides
  to be justified by the *last* bound.
* `TableScanSchedule_proofs`: types, `LedgerAgrees`, `QueueIsIncompleteTables`, and
  that an empty queue means a complete round. The conjunction of the three is
  inductive; none is alone, as a count follows its flag only because a table is
  counted once. `NoOvertaking` as an action property: a step takes the head of the queue
  or appends to its end.
* `Cursor_proofs`, of `WindowClamp`: `FindsLongestPrefix` and `ReadsWithinRange` for ranges of any
  length, in both directions and both builds. The invariant brackets the prefix
  between `lo` and `hi`; the lane lemma says the shuffles name the four entries in
  logical order. The two models fit together: `WindowClamp` takes for granted that the
  inside entries of a range come first, which `SidesBeginInside` proves of the ranges
  the scans offer, and what it returns is `CursorScan!ClampToWindow`
  (`ClampAnswersScan`).
* `BPlusTree_proofs`: `OpenIndexIsSearchable`, for any pages, capacities and damages:
  from the checks of `load_header` (`Accepted`) alone it follows that the pages below a
  page hold one stretch of the table, that separators bound those stretches, and that
  the links lead from leaf to leaf in the order of the entries. So a descent ends in
  the leaf of its place, or beside it and one link away (`TreeInv` says that an open
  index was accepted).
* `BPlusTree_proofs`: `BuiltIndexIsAccepted`, for any projections: `Group` never leaves
  a parent with one child (this needs capacities above 2; the smallest page has 40),
  and the tree passes every check. `Accepted` speaks of walks over the finished tree
  and is no invariant of a half-written one. The invariant (`Built`) says instead that
  there are functions that give of every page its table, its stretch of positions, its
  height, its parent and its slot, and of every table where its leaves lie;
  `AddLeaf`, `AddLevel` and `AddRoot` extend them. When all is written the functions
  answer each walk (`CompleteIsAccepted`): a depth is a height, first and last entries
  are the ends of a stretch, the chain is the leaves as they lie.
* `BPlusTree_proofs`: `ImplementsProjectionCursor`. Every behaviour of `BPlusTreeCursor`,
  from the first page written to scans that are cut leaf by leaf or thrown out of, is one
  of `ProjectionCursor`, so what `Cursor_proofs` proves holds of the B+ tree too. When
  the file is opened, `Built` gives every position of the table its place (`Laid`): a
  leaf is a stretch of positions and its links lead to the neighbouring ones. A place is
  then a position (`Concrete`), a range clamped in a leaf is one clamped in the table
  (`LeftRangeOfLeaf`, `RightRangeOfLeaf`), and a reset, by `OpenIndexIsSearchable`,
  divides the table at the query (`ResetDivides`). The inductive invariant (`CursorInv`)
  says of which position cursor a state is a picture (`Shows`): while a scan is going on
  it is the one the scan began with, and each side has taken a prefix of what the whole
  table would have given it, stopped short only by the window, the limit or, in a range
  scan, the end of its first leaf (`Walk`). When neither side goes on, the prefix is all
  of it (`WalkEnds`), so `EndScan` is the one step of the table's scan, and all steps
  before it, a throwing visitor's included, show as none.
* `DefaultSearch_proofs`, first about the engine, whatever the strategy asks for:
  `NeighborsAreBestEvaluated`, `SnapshotIsFresh`, `LedgersMatchCursors` and
  `ReasonIsHonest`, for any tables, number of points, `k` and pruning. For the neighbours
  the strengthening (`IsBest`) says that a list that is not full has every evaluated
  point: the ones nearer than a new point are a prefix of the list, so it stays sorted,
  and what falls off its end or is pruned is behind `k` others. For the ledgers
  (`CursorsInv`) it says that all cursors are `WellPlaced` for their own table and query
  with bounds the window has not passed, and what the scan in flight will have done
  (`ScanPromise`, from `ScanIsCorrect`): the entries it adds are new (`CoveredGrows`), so
  the hits counted one by one are the entries delivered when it ends. The reason needs
  both, and that the snapshot `finish` looks at is fresh.

  Then about the default strategy, whose steps are steps of the engine
  (`SearchIsEngineSearch`):
  * `CollisionsAreExact`. The set of tables in which a point has been met (`Met`) grows
    by one table with each hit, because a table has a point once and a scan's hits are
    new; so a countdown is the threshold less the size of `Met`, in the middle of a scan
    as well.
  * `ImplementsSchedule`: initial states and every step are those of
    `TableScanSchedule`, with `unread` mapped to the cursor positions. Its theorems are
    used on the way, through the `INSTANCE`.
  * `StepsAreProductive`: a scan that delivers nothing closes its table's window.
  * `ImplementsSearch`: a search implements the promise of `Search`. The last steps are
    the ones that need invariants: the radius grows only when no point is left to be
    evaluated (from exact collisions and the complete round), and a stop has a reason
    the promise knows (`StopInv`).
* `Threads_proofs`: of `SortTables`, `SortedByOneWorker` and `ConsumedOnlyWhenSorted`
  for any number of tables and workers. Claims are exclusive because every claimed and
  sorted table lies below the counter; nothing is unsorted at the end because no table
  below it is forgotten. Of `QueryScratch`, `ScratchIsExclusive`, `SeenIsOwnWork` and
  `CursorsBelongToSearch` for any number of indexes, points, tables, any epoch width and
  nesting. The strengthening says that no mark lies above its scratch's epoch, that a
  search holds the epoch of its scratch, and that cached cursors belong to the
  remembered index.
* `PersistentIndex_proofs`, of `IndexPublish`: `TemporaryIsRemoved` and `NeverClobbered`
  for any number of builders, names and crashes, with nothing assumed.
  `PathLeadsToWholeIndex`, `OpenedIndexIsWhole` and `SuccessIsDurable` as
  `[]NamesToPublishAreDistinct => [](...)`: no two builders that are still going to
  publish have one temporary name. That hypothesis is needed, it excludes exactly the
  case of three builders described in section 3; `TwoBuildersKeepPathWhole` proves it,
  and with it the path property, for at most two builders. The invariant (`PathInv`)
  says of every file a name can lead to, on disk or not, how far its builder is.
* `PersistentIndex_proofs`, of `IndexFile`: `BuiltFileIsAccepted`, `ReadsStayInFile` and
  `OpenTablesAreWhole` for every word width, limit, page size and set of points. The
  invariant is small (an open file passed the checks, a file that nothing was done to is
  the one written); the work is that the checks mean what they should: a checked product
  or sum is the true one (`CheckedProduct`, `CheckedSum`), so the region boundaries of an
  accepted header are ordered as numbers and not only modulo the word; Build and Open
  compute one page count, level by level; as many different ids as there are points are
  all points.
* `ReleasePublish_proofs`: all five properties of publication, for any number of runs and
  commits, page size and limit, list length and amount of interference. The invariant
  ties what a run believes to what is so: past the check of the tag the tag is the run's
  commit, as tags never change (`PlaceOK`); a request is the only one of its run and was
  made under that belief (`RequestOK`); releases of the version have ids of their own and
  the automation's are for the tag (`ReleasesInv`); a run that has read pages in vain
  knows that a release can only be further on, as new ones come in front (`ReuseInv`). What a step does to the list is stated once (`ReleasesStep`):
  for each release of the new list, which one of the old list it was. `RetryReusesDraft`
  and `FailureHasACause` keep their exceptions (a request overtaken by a later run,
  interference): without them they are false.

Assumptions are the `ASSUME`s of the modules: positive sizes, markers that are not
values, tables that are not empty and equally long (`BPlusTreeAssumption`), bounds that are not negative and a
scan quantum that is not 0, as `scan` requires (`BPlusTreeCursorAssumption`). TLC evaluates each of them in the runs.

Two are there for the proofs alone: `ScheduleAssumption` (the mark of an idle cursor is
no table) and `ConfigsAssumption` (what a configuration consists of).

**Only model-checked**: all liveness (it needs fairness and `ENABLED`), and what
`RangeBoundary` shows of two back ends, a disagreement.

## 5. Abstractions

* Floating point: order only. Values, radii and distances are small integers; a
  radius or bound beyond `MaxFloat` stands for one that is not finite.
* Pruning is exact: a distance is given up exactly when it is beyond the bound.
  The kernel stops as soon as a partial sum is; the final sum of float64
  terms is only larger.
* The step from an exception in the middle of a scan to the next reset of the
  cursor is modelled for the B+ tree only: the contract asks for a reset, and every search resets
  or makes all its cursors.
* `CursorScan` has all leaves full but the last, which is how `BPlusTree` builds them;
  an index of another writer could have shorter ones.
* `IndexFile`: only the numbers that say where things are; the header's constants (magic,
  version, byte order) are independent tests. The host has 64 bits, so a `size_t` is a
  word. Roots beyond those written read as coordinates, which name no place; bytes that
  hold no entry read as one that no order accepts.
* `ReleasePublish`: a tag is the commit it resolves to; the title and the notes beyond
  the marker are left out. GitHub publishes one release of a tag; it may or may not
  refuse a second draft.
* A projection query value and point ids are finite and in range, as validated.
* In `query_scratch` the run has one query value; the proof covers any number.

## 6. Not modelled

* The bytes of pages and headers: serialisation.
* `ValidateConfig`, `ValidateQalsh`: independent range tests on one record.
* Distance summation, parameter formulas, random projections: real arithmetic.
* How the release workflow reads a version out of a commit message: text processing.
* Custom strategies (qalsh4c, QALSH-H) live in other repositories; the
  engine model covers whatever they do.

## 7. Plan

Extend: an exception in the middle of an in-memory or array scan (`CommitPosition`
stores a position between two ranges).
