------------------------------ MODULE BPlusTree ------------------------------
(***************************************************************************)
(* The pages of a persistent B+ tree index (src/qalsh.cc): how             *)
(* BPlusTreeIndex::Build lays them out, what load_header accepts, and how  *)
(* reset_cursor descends to a query value.                                 *)
(*                                                                         *)
(* The pages of all tables form one sequence; page 0 is the null link.     *)
(* Between Build and Open pages may be damaged: a field changes, or a page *)
(* holds what another one should.  Serialisation and the file header are   *)
(* left out, so a damaged field keeps its type.  Places in a leaf count    *)
(* from 1.                                                                 *)
(*                                                                         *)
(* An operator named Slip... is a plausible mistake in the definition that *)
(* follows it, kept to show that some property notices it.                 *)
(***************************************************************************)
EXTENDS Integers, Sequences, FiniteSets

CONSTANTS
    LeafCapacity, InternalCapacity,
    Inputs,         \* projections: of each table, of each point id 1 .. n
    ValueRange,     \* projected values, query values
    MaxDamages,     \* bound: damaged fields
    DamagedPages    \* bound: only files of at most this many pages are damaged

\* The smallest page has 512 bytes and holds 60 entries or 40 children.  The
\* points of an index have a projection in each of its tables.
ASSUME BPlusTreeAssumption ==
    /\ LeafCapacity \in Nat \ {0} /\ InternalCapacity \in Nat \ (0 .. 2)
    /\ ValueRange \subseteq Int
    /\ \A input \in Inputs :
         /\ input \in Seq(Seq(ValueRange)) /\ input # <<>>
         /\ \A t \in DOMAIN input : Len(input[t]) = Len(input[1]) /\ input[t] # <<>>
    /\ MaxDamages \in Nat /\ DamagedPages \in Nat

VARIABLES
    entries,    \* of each table: what SortTables made of the projections
    pc,
    pages, roots,
    level,      \* level_pages and level_keys
    damages

treeVars == <<entries, pc, pages, roots, level, damages>>

Table == DOMAIN entries
NumPoints == Len(entries[1])
PageId == DOMAIN pages
ValueOf(leaf) == [i \in DOMAIN leaf.entries |-> leaf.entries[i].value]
Leaf(p) == pages[p].kind = "leaf"

KeyLess(e, f) == e.value < f.value \/ (e.value = f.value /\ e.id < f.id)

\* The entries of one table in the order of SortTables.
Sorted(projected) ==
    LET all == {[value |-> projected[p], id |-> p] : p \in DOMAIN projected}
    IN  [i \in DOMAIN projected |->
            CHOOSE e \in all : Cardinality({f \in all : KeyLess(f, e)}) = i - 1]

InitTree ==
    /\ entries \in {[t \in DOMAIN input |-> Sorted(input[t])] : input \in Inputs}
    /\ pc = "leaves"
    /\ pages = <<>> /\ roots = <<>> /\ level = <<>>
    /\ damages = 0

-----------------------------------------------------------------------------
SmallerOf(a, b) == IF a <= b THEN a ELSE b
CeilDiv(a, b) == (a + b - 1) \div b

LeafPage(content, previous) ==
    [kind |-> "leaf", entries |-> content, previous |-> previous, next |-> 0]
InternalPage(children, separators) ==
    [kind |-> "internal", children |-> children, separators |-> separators,
     previous |-> 0, next |-> 0]

\* The next leaf of the table under construction, linked to the one before.
AddLeaf ==
    LET all == entries[Len(roots) + 1]
        begin == Len(level) * LeafCapacity
        content == SubSeq(all, begin + 1, SmallerOf(begin + LeafCapacity, Len(all)))
        last == IF level = <<>> THEN 0 ELSE level[Len(level)].page
        id == Len(pages) + 1
        linked == [p \in PageId |-> IF p = last THEN [pages[p] EXCEPT !.next = id] ELSE pages[p]]
    IN  /\ pc = "leaves"
        /\ begin < Len(all)
        /\ pages' = Append(linked, LeafPage(content, last))
        /\ level' = Append(level, [page |-> id, key |-> content[1].value])
        /\ pc' = IF begin + LeafCapacity >= Len(all) THEN "levels" ELSE pc
        /\ UNCHANGED <<entries, roots, damages>>

\* Slip: every group but the last is filled.
SlipGreedyGroup(size, g) ==
    (g - 1) * InternalCapacity + 1 .. SmallerOf(g * InternalCapacity, size)
\* Which pages of a level the g-th parent gets: groups as few and as even as
\* can be, the larger ones first.
Group(size, g) ==
    LET groups == CeilDiv(size, InternalCapacity)
        base == size \div groups
        extra == size % groups
    IN  (g - 1) * base + SmallerOf(g - 1, extra) + 1 .. g * base + SmallerOf(g, extra)

FirstOf(size, g) == CHOOSE i \in Group(size, g) : \A j \in Group(size, g) : i <= j

Parent(g) ==
    LET size == Len(level)
        before == FirstOf(size, g) - 1
        count == Cardinality(Group(size, g))
    IN  InternalPage([i \in 1 .. count |-> level[before + i].page],
                     [i \in 1 .. count - 1 |-> level[before + i + 1].key])

\* The level above.
AddLevel ==
    LET groups == CeilDiv(Len(level), InternalCapacity)
    IN  /\ pc = "levels"
        /\ Len(level) > 1
        /\ IF Len(level) \div groups < 2
             THEN /\ pc' = "failed"
                  /\ UNCHANGED <<pages, level>>
             ELSE /\ pages' = pages \o [g \in 1 .. groups |-> Parent(g)]
                  /\ level' = [g \in 1 .. groups |->
                                 [page |-> Len(pages) + g,
                                  key |-> level[FirstOf(Len(level), g)].key]]
                  /\ UNCHANGED pc
        /\ UNCHANGED <<entries, roots, damages>>

\* The table is done.
AddRoot ==
    /\ pc = "levels"
    /\ Len(level) = 1
    /\ roots' = Append(roots, level[1].page)
    /\ level' = <<>>
    /\ pc' = IF Len(roots') = Len(entries) THEN "written" ELSE "leaves"
    /\ UNCHANGED <<entries, pages, damages>>

-----------------------------------------------------------------------------
\* The pages that page p may become by one damage.
Damaged(p) ==
    LET page == pages[p]
        links == {[page EXCEPT !.previous = q] : q \in {0} \cup PageId}
                 \cup {[page EXCEPT !.next = q] : q \in {0} \cup PageId}
        inLeaf == {[page EXCEPT !.entries[i] = [value |-> v, id |-> id]] :
                     i \in DOMAIN page.entries, v \in ValueRange, id \in 1 .. NumPoints}
        inInternal == {[page EXCEPT !.children[i] = q] : i \in DOMAIN page.children, q \in PageId}
                      \cup {[page EXCEPT !.separators[i] = v] :
                              i \in DOMAIN page.separators, v \in ValueRange}
    IN  links \cup {pages[q] : q \in PageId} \cup (IF Leaf(p) THEN inLeaf ELSE inInternal)

Damage ==
    /\ pc = "written"
    /\ damages < MaxDamages /\ Len(pages) <= DamagedPages
    /\ damages' = damages + 1
    /\ \/ /\ \E p \in PageId : \E page \in Damaged(p) : pages' = [pages EXCEPT ![p] = page]
          /\ UNCHANGED roots
       \/ /\ \E t \in Table, p \in PageId : roots' = [roots EXCEPT ![t] = p]
          /\ UNCHANGED pages
    /\ UNCHANGED <<entries, pc, level>>

-----------------------------------------------------------------------------
\* load_header, the checks of each page by itself.
PageIsValid(p) ==
    LET page == pages[p]
    IN  IF Leaf(p)
          THEN Len(page.entries) \in 1 .. LeafCapacity
          ELSE /\ Len(page.children) \in 2 .. InternalCapacity
               /\ page.previous = 0 /\ page.next = 0
               /\ \A i, j \in DOMAIN page.separators :
                    i <= j => page.separators[i] <= page.separators[j]

\* The pages at depth d below the root of table t, as often as they are met.
ChildSlots(p) == IF Leaf(p) THEN {} ELSE {<<p, i>> : i \in DOMAIN pages[p].children}
Depth(t) ==
    LET at[d \in 0 .. Len(pages)] ==
          IF d = 0 THEN {roots[t]}
          ELSE UNION {{pages[s[1]].children[s[2]] : s \in ChildSlots(p)} : p \in at[d - 1]}
    IN  at
PagesOf(t) == UNION {Depth(t)[d] : d \in 0 .. Len(pages)}
LeavesOf(t) == {p \in PagesOf(t) : Leaf(p)}

\* The depth-first walk with its colours: every page is met, and once; no
\* cycle, no shared page.
IsForest ==
    /\ UNION {PagesOf(t) : t \in Table} = PageId
    /\ \A p \in PageId :
         Cardinality({t \in Table : roots[t] = p})
         + Cardinality({s \in UNION {ChildSlots(q) : q \in PageId} :
                          pages[s[1]].children[s[2]] = p}) = 1

\* All children of a page have the same height.
IsBalanced(t) == \A p, q \in LeavesOf(t) : \A d \in 0 .. Len(pages) :
                    p \in Depth(t)[d] <=> q \in Depth(t)[d]

\* first_keys and last_keys with their ids.
FirstEntry(page) ==
    LET first[p \in PageId] == IF Leaf(p) THEN pages[p].entries[1] ELSE first[pages[p].children[1]]
    IN  first[page]
LastEntry(page) ==
    LET last[p \in PageId] ==
          IF Leaf(p) THEN pages[p].entries[Len(pages[p].entries)]
          ELSE last[pages[p].children[Len(pages[p].children)]]
    IN  last[page]

\* Slip: a separator may lie anywhere up to the first key of its child.
SlipSeparatorMatches(p, i) ==
    pages[p].separators[i] <= FirstEntry(pages[p].children[i + 1]).value
SeparatorMatches(p, i) == pages[p].separators[i] = FirstEntry(pages[p].children[i + 1]).value

\* The order within leaves, between children, and of separators.
IsOrdered(t) ==
    \A p \in PagesOf(t) :
        IF Leaf(p)
          THEN \A i \in 1 .. Len(pages[p].entries) - 1 :
                 KeyLess(pages[p].entries[i], pages[p].entries[i + 1])
          ELSE \A i \in 1 .. Len(pages[p].children) - 1 :
                 /\ KeyLess(LastEntry(pages[p].children[i]), FirstEntry(pages[p].children[i + 1]))
                 /\ SeparatorMatches(p, i)

\* Every point has one entry in the table.
HasAllPoints(t) ==
    LET places == {<<p, i>> : p \in LeavesOf(t), i \in 1 .. LeafCapacity}
        used == {s \in places : s[2] \in DOMAIN pages[s[1]].entries}
        idAt(s) == pages[s[1]].entries[s[2]].id
    IN  /\ Cardinality(used) = NumPoints
        /\ \A r, s \in used : idAt(r) = idAt(s) => r = s

\* Links are mutual and stay within the table.
LinksAgree(t) ==
    \A p \in LeavesOf(t) :
        /\ pages[p].previous # 0 =>
             pages[p].previous \in LeavesOf(t) /\ pages[pages[p].previous].next = p
        /\ pages[p].next # 0 =>
             pages[p].next \in LeavesOf(t) /\ pages[pages[p].next].previous = p

FirstLeaves(t) == {p \in LeavesOf(t) : pages[p].previous = 0}

\* The leaves in the order of their links, from the only first one.
Chain(t) ==
    LET leaf[n \in 1 .. Cardinality(LeavesOf(t))] ==
          IF n = 1 THEN CHOOSE p \in FirstLeaves(t) : TRUE
          ELSE IF leaf[n - 1] = 0 THEN 0 ELSE pages[leaf[n - 1]].next
    IN  leaf

ChainIsValid(t) ==
    /\ Cardinality(FirstLeaves(t)) = 1
    /\ {Chain(t)[n] : n \in DOMAIN Chain(t)} = LeavesOf(t)
    /\ pages[Chain(t)[Len(Chain(t))]].next = 0
    /\ \A n \in 1 .. Len(Chain(t)) - 1 : KeyLess(LastEntry(Chain(t)[n]), FirstEntry(Chain(t)[n + 1]))

Accepted ==
    /\ \A p \in PageId : PageIsValid(p)
    /\ IsForest
    /\ \A t \in Table : /\ IsBalanced(t) /\ IsOrdered(t) /\ HasAllPoints(t)
                        /\ LinksAgree(t) /\ ChainIsValid(t)

Open ==
    /\ pc = "written"
    /\ pc' = IF Accepted THEN "open" ELSE "rejected"
    /\ UNCHANGED <<entries, pages, roots, level, damages>>

NextTree == AddLeaf \/ AddLevel \/ AddRoot \/ Damage \/ Open

TreeSpec == InitTree /\ [][NextTree]_treeVars

-----------------------------------------------------------------------------
\* A query equal to a separator stays left of it: equal values may begin there.
PassesSeparator(q, separator) == q > separator

ChildFor(page, q) ==
    page.children[1 + Cardinality({i \in DOMAIN page.separators :
                                     \A j \in 1 .. i : PassesSeparator(q, page.separators[j])})]

Descend(t, q) ==
    LET leaf[p \in PageId] == IF Leaf(p) THEN p ELSE leaf[ChildFor(pages[p], q)]
    IN  leaf[roots[t]]

NoPlace == [page |-> 0, index |-> 0]    \* an inactive side
PlaceLeftOf(p) ==
    IF pages[p].previous = 0 THEN NoPlace
    ELSE [page |-> pages[p].previous, index |-> Len(pages[pages[p].previous].entries)]
PlaceRightOf(p) ==
    IF pages[p].next = 0 THEN NoPlace ELSE [page |-> pages[p].next, index |-> 1]

\* reset_cursor: the last entry below the query and the first one not below it.
ResetPlaces(t, q) ==
    LET leaf == Descend(t, q)
        values == ValueOf(pages[leaf])
        lo == Cardinality({i \in DOMAIN values : values[i] < q})
    IN  [left |-> IF lo > 0 THEN [page |-> leaf, index |-> lo] ELSE PlaceLeftOf(leaf),
         right |-> IF lo < Len(values) THEN [page |-> leaf, index |-> lo + 1]
                   ELSE PlaceRightOf(leaf)]

-----------------------------------------------------------------------------
\* Build never meets a level it cannot group, and what it writes, Open accepts:
\* for any number of leaves, equal values across leaves and several tables.
BuiltIndexIsAccepted ==
    /\ pc # "failed"
    /\ pc = "rejected" => damages > 0

EntryAt(place) == pages[place.page].entries[place.index]
EntriesOf(t) == UNION {{pages[p].entries[i] : i \in DOMAIN pages[p].entries} : p \in LeavesOf(t)}

\* Whatever became of the file before it was opened: in an index that is open,
\* every query is put where the array back ends put it, between the last entry
\* of the table that is below it and the first that is not.
OpenIndexIsSearchable ==
    pc = "open" => \A t \in Table, q \in ValueRange :
        LET places == ResetPlaces(t, q)
            all == EntriesOf(t)
            below == {e \in all : e.value < q}
        IN  /\ IF places.left = NoPlace THEN below = {}
               ELSE /\ EntryAt(places.left) \in below
                    /\ \A e \in below : ~KeyLess(EntryAt(places.left), e)
            /\ IF places.right = NoPlace THEN below = all
               ELSE /\ EntryAt(places.right) \in all \ below
                    /\ \A e \in all \ below : ~KeyLess(e, EntryAt(places.right))
=============================================================================
