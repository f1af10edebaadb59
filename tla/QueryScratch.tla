---------------------------- MODULE QueryScratch ----------------------------
(***************************************************************************)
(* The scratch memory that searches on one thread reuse (src/qalsh.cc,     *)
(* QueryScratch and the head of SearchEngine::search_impl_typed): cursors, *)
(* and one epoch per point that tells whether the current search has       *)
(* evaluated it.  The pool is thread_local, so that threads share nothing; *)
(* but a search may start while another one on the same thread is inside a *)
(* callback, and indexes come and go between searches, also at an address  *)
(* used before.                                                            *)
(*                                                                         *)
(* An index object is a number.  A number comes back only when no scratch  *)
(* remembers it (a std::weak_ptr keeps its control block); an address      *)
(* comes back as soon as the object at it is gone.                         *)
(*                                                                         *)
(* An operator named Slip... is a plausible mistake in the definition that *)
(* follows it, kept to show that some property notices it.                 *)
(***************************************************************************)
EXTENDS Integers, Sequences, FiniteSets

CONSTANTS
    Address,        \* where index objects are allocated
    Queries,        \* projected queries
    MaxTables,      \* num_hash_tables of every index
    PointCounts,    \* the possible num_points of an index
    MaxEpoch,       \* the largest std::uint32_t
    Object,         \* index objects; a finite set, as a number comes back
    MaxDepth,       \* bound: nested searches on the thread
    NoAddress,      \* nullptr
    NoQuery         \* the query of a cursor that does not exist

ASSUME QueryScratchAssumption ==
    /\ MaxTables \in Nat \ {0} /\ PointCounts \subseteq Nat \ {0}
    /\ MaxEpoch \in Nat \ {0}
    /\ Object \subseteq Nat \ {0} /\ MaxDepth \in Nat
    /\ NoAddress \notin Address /\ NoQuery \notin Queries

VARIABLES
    indexAt,    \* the live index at each address
    pool,       \* query_scratch_pool
    searches    \* the searches in progress, innermost last

vars == <<indexAt, pool, searches>>

-----------------------------------------------------------------------------
NoIndex == [id |-> 0, points |-> 0]
NoCursor == [index |-> 0, query |-> NoQuery]

\* std::weak_ptr: an object, which may have died, at an address.
NoIdentity == [address |-> NoAddress, id |-> 0]
Identity(a) == [address |-> a, id |-> indexAt[a].id]

NewScratch ==
    [inUse |-> FALSE, identity |-> NoIdentity, cursors |-> <<>>, seen |-> <<>>, epoch |-> 0]

Init ==
    /\ indexAt = [a \in Address |-> NoIndex]
    /\ pool = <<>>
    /\ searches = <<>>

CreateIndex(a, id, n) ==
    /\ indexAt[a] = NoIndex
    /\ \A b \in Address : indexAt[b].id # id
    /\ \A i \in DOMAIN pool : pool[i].identity.id # id
    /\ indexAt' = [indexAt EXCEPT ![a] = [id |-> id, points |-> n]]
    /\ UNCHANGED <<pool, searches>>

\* The last engine or user lets go of an index.
DropIndex(a) ==
    /\ indexAt[a] # NoIndex
    /\ \A j \in DOMAIN searches : searches[j].index # indexAt[a].id
    /\ indexAt' = [indexAt EXCEPT ![a] = NoIndex]
    /\ UNCHANGED <<pool, searches>>

\* Slip: any scratch will do.
SlipAnyScratch(s) == TRUE
IsFree(s) == ~s.inUse

\* The first free scratch, or a new one at the end of the pool.
Taken ==
    IF \E i \in DOMAIN pool : IsFree(pool[i])
      THEN CHOOSE i \in DOMAIN pool : IsFree(pool[i]) /\ \A j \in 1 .. i - 1 : ~IsFree(pool[j])
      ELSE Len(pool) + 1
ScratchAt(i) == IF i \in DOMAIN pool THEN pool[i] ELSE NewScratch

\* Slip: the addresses alone are compared.
SlipSameAddress(s, a) == s.identity.address = a
IsIndexOf(s, a) == s.identity = Identity(a)

\* std::vector::resize
Resize(s, n, value) == [i \in 1 .. n |-> IF i \in DOMAIN s THEN s[i] ELSE value]

\* The cursors after those before table number `prepared` were made or reset
\* for query q; the others are what an earlier search left.
CursorsFor(s, a, tables, q, prepared) ==
    LET kept == Resize(IF IsIndexOf(s, a) THEN s.cursors ELSE <<>>, tables, NoCursor)
    IN  [t \in 1 .. tables |->
            IF t > prepared THEN kept[t]
            ELSE IF kept[t] = NoCursor THEN [index |-> indexAt[a].id, query |-> q]
            ELSE [kept[t] EXCEPT !.query = q]]

SeenFor(s, n) == IF Len(s.seen) < n THEN Resize(s.seen, n, 0) ELSE s.seen

\* Slip: after the wrap around, old marks stay.
SlipNothingCleared(seen) == seen
Cleared(seen) == [p \in DOMAIN seen |-> 0]
FirstEpoch == 1

NextEpoch(s) == (s.epoch + 1) % (MaxEpoch + 1)

Prepare(s, a, tables, q, prepared) ==
    LET seen == SeenFor(s, indexAt[a].points)
        wraps == NextEpoch(s) = 0
    IN  [inUse |-> TRUE,
         identity |-> Identity(a),
         cursors |-> CursorsFor(s, a, tables, q, prepared),
         seen |-> IF wraps THEN Cleared(seen) ELSE seen,
         epoch |-> IF wraps THEN FirstEpoch ELSE NextEpoch(s)]

\* The pool with scratch s at place i, which may be the first free place.
WithScratch(i, s) == [j \in 1 .. (IF i > Len(pool) THEN i ELSE Len(pool)) |->
                        IF j = i THEN s ELSE pool[j]]

\* search() up to strategy.start, by a strategy or accessor callback of the
\* innermost search, or by the thread itself.
StartSearch(a, tables, q) ==
    /\ indexAt[a] # NoIndex
    /\ Len(searches) < MaxDepth
    /\ LET i == Taken
           s == Prepare(ScratchAt(i), a, tables, q, tables)
       IN  /\ pool' = WithScratch(i, s)
           /\ searches' = Append(searches,
                [scratch |-> i, index |-> indexAt[a].id, points |-> indexAt[a].points,
                 tables |-> tables, query |-> q, epoch |-> s.epoch, marked |-> {}])
    /\ UNCHANGED indexAt

\* A projection of the query is not finite, or a cursor cannot be made: the
\* lease ends with some of the cursors prepared.
StartThrows(a, tables, q, prepared) ==
    /\ indexAt[a] # NoIndex
    /\ Len(searches) < MaxDepth
    /\ prepared < tables
    /\ LET i == Taken
       IN  pool' = WithScratch(i, [Prepare(ScratchAt(i), a, tables, q, prepared)
                                     EXCEPT !.inUse = FALSE])
    /\ UNCHANGED <<indexAt, searches>>

Innermost == searches[Len(searches)]

\* EvaluateCandidate marks a point it sees for the first time.
Evaluate(p) ==
    /\ searches # <<>>
    /\ p <= Innermost.points
    /\ pool[Innermost.scratch].seen[p] # Innermost.epoch
    /\ pool' = [pool EXCEPT ![Innermost.scratch].seen[p] = Innermost.epoch]
    /\ searches' = [searches EXCEPT ![Len(searches)].marked = @ \cup {p}]
    /\ UNCHANGED indexAt

\* search() returns or throws; ~QueryScratchLease.
LeaveSearch ==
    /\ searches # <<>>
    /\ pool' = [pool EXCEPT ![Innermost.scratch].inUse = FALSE]
    /\ searches' = SubSeq(searches, 1, Len(searches) - 1)
    /\ UNCHANGED indexAt

Next ==
    \/ \E a \in Address, id \in Object, n \in PointCounts : CreateIndex(a, id, n)
    \/ \E a \in Address : DropIndex(a)
    \/ \E a \in Address, tables \in 1 .. MaxTables, q \in Queries : StartSearch(a, tables, q)
    \/ \E a \in Address, tables \in 1 .. MaxTables, q \in Queries, prepared \in 0 .. MaxTables - 1 :
          StartThrows(a, tables, q, prepared)
    \/ \E n \in PointCounts : \E p \in 1 .. n : Evaluate(p)
    \/ LeaveSearch

Spec == Init /\ [][Next]_vars

-----------------------------------------------------------------------------
Cursors == [index : Object, query : Queries] \cup {NoCursor}

Scratches ==
    [inUse : BOOLEAN, identity : [address : Address \cup {NoAddress}, id : Nat],
     cursors : Seq(Cursors), seen : Seq(0 .. MaxEpoch), epoch : 0 .. MaxEpoch]

SearchRecords ==
    [scratch : Nat \ {0}, index : Object, points : PointCounts, tables : 1 .. MaxTables, query : Queries,
     epoch : 1 .. MaxEpoch, marked : SUBSET Nat]

TypeOK ==
    /\ indexAt \in [Address -> [id : Object, points : PointCounts] \cup {NoIndex}]
    /\ pool \in Seq(Scratches)
    /\ searches \in Seq(SearchRecords)

\* No two searches in progress share a scratch, and a scratch is taken exactly
\* while a search uses it: an exception never leaks one.
ScratchIsExclusive ==
    /\ \A i, j \in DOMAIN searches : i # j => searches[i].scratch # searches[j].scratch
    /\ \A i \in DOMAIN pool : pool[i].inUse <=> \E j \in DOMAIN searches : searches[j].scratch = i

\* What each search in progress finds marked is what it has evaluated itself,
\* whatever earlier searches left in the scratch, over whichever indexes, also
\* when the epoch has wrapped around since.
SeenIsOwnWork ==
    \A j \in DOMAIN searches :
        LET search == searches[j]
            seen == pool[search.scratch].seen
        IN  /\ search.points <= Len(seen)
            /\ {p \in 1 .. search.points : seen[p] = search.epoch} = search.marked

\* Every cursor of a search in progress was made by its index, not by a dead one
\* at the same address, and positioned for its query.
CursorsBelongToSearch ==
    \A j \in DOMAIN searches :
        pool[searches[j].scratch].cursors =
            [t \in 1 .. searches[j].tables |->
                [index |-> searches[j].index, query |-> searches[j].query]]
=============================================================================
