--------------------------- MODULE BPlusTree_proofs ---------------------------
(***************************************************************************)
(* The pages of a persistent B+ tree (BPlusTreeIndex in src/qalsh.cc), for *)
(* every page capacity, number of points, tables and damages.              *)
(*                                                                         *)
(* First from the checks of load_header to the descent: in an accepted     *)
(* tree the pages below a page hold the entries of one stretch of the      *)
(* sorted table, so the separators lead a query to the leaf where its      *)
(* place is, or next to it (OpenIndexIsSearchable).                        *)
(*                                                                         *)
(* Then from Build to those checks (BuiltIndexIsAccepted).  What Build has *)
(* written so far is described by functions that the program does not      *)
(* have, kept by every step (Built): of a page its table, the positions    *)
(* its entries have in the table, its height, its parent and its slot      *)
(* there; of a table where its leaves begin and how many there are.        *)
(* load_header walks the tree; that the walk finds what the functions say  *)
(* follows by induction on the height.                                     *)
(*                                                                         *)
(* Last from the cursor over pages to the cursor over one sorted table     *)
(* (ImplementsProjectionCursor).  The leaves give every position of the    *)
(* table a place (Laid); a scan takes range after range on a side, each    *)
(* at most the rest of a leaf, and has always taken what the table would   *)
(* have given so far (Walk); a state is mapped to the position cursor      *)
(* that it shows (Shows), the one its scan began with until the scan ends. *)
(***************************************************************************)
EXTENDS BPlusTreeCursor, FiniteSetTheorems, SequenceTheorems, WellFoundedInduction, TLAPS

LEMMA LeastNatural ==
  ASSUME NEW T \in SUBSET Nat, T # {}
  PROVE  \E x \in T : \A y \in T : x <= y
<1> DEFINE below == {p \in Nat \X Nat : p[1] < p[2]}
<1>1. IsWellFoundedOn(below, Nat)
  <2>1. OpToRel(<, Nat) = below
    BY DEF OpToRel
  <2> QED BY <2>1, NatLessThanWellFounded
<1>2. PICK x \in T : \A y \in T : ~ (<<y, x>> \in below)
  <2> HIDE DEF below
  <2> QED BY <1>1, WFMin
<1>3. \A y \in T : ~(y < x)
  BY <1>2
<1> QED BY <1>3

-----------------------------------------------------------------------------
(* The order of entries. *)

Entry == [value : Int, id : Int]

LEMMA KeyLessOrder ==
  ASSUME NEW e \in Entry, NEW f \in Entry, NEW g \in Entry
  PROVE  /\ ~KeyLess(e, e)
         /\ KeyLess(e, f) => e.value <= f.value /\ ~KeyLess(f, e)
         /\ ~KeyLess(e, f) => f.value <= e.value
         /\ KeyLess(e, f) /\ KeyLess(f, g) => KeyLess(e, g)
         /\ ~KeyLess(f, e) /\ KeyLess(f, g) => KeyLess(e, g)
         /\ KeyLess(e, f) /\ ~KeyLess(g, f) => KeyLess(e, g)
         /\ ~KeyLess(f, e) /\ ~KeyLess(g, f) => ~KeyLess(g, e)
         /\ KeyLess(e, f) \/ KeyLess(f, e) \/ e = f
<1>1. /\ e.value \in Int /\ e.id \in Int /\ f.value \in Int /\ f.id \in Int
      /\ g.value \in Int /\ g.id \in Int
  BY DEF Entry
<1>2. e.value = f.value /\ e.id = f.id => e = f
  BY DEF Entry
<1> QED BY <1>1, <1>2 DEF KeyLess

\* Ranges of entries, each after the one before.
LEMMA Ladder ==
  ASSUME NEW n \in Nat, NEW first \in [1 .. n -> Entry], NEW last \in [1 .. n -> Entry],
         \A i \in 1 .. n : ~KeyLess(last[i], first[i]),
         \A i \in 1 .. n - 1 : KeyLess(last[i], first[i + 1])
  PROVE  \A i, j \in 1 .. n :
           /\ i < j => KeyLess(last[i], first[j])
           /\ i <= j => ~KeyLess(first[j], first[i]) /\ ~KeyLess(last[j], last[i])
<1> DEFINE Bad == {j \in 1 .. n : \E i \in 1 .. n : i < j /\ ~KeyLess(last[i], first[j])}
<1>1. Bad = {}
  <2> SUFFICES ASSUME Bad # {} PROVE FALSE
    OBVIOUS
  <2>1. PICK j \in Bad : \A k \in Bad : j <= k
    <3>1. Bad \in SUBSET Nat
      OBVIOUS
    <3> HIDE DEF Bad
    <3> QED BY <3>1, LeastNatural
  <2>2. PICK i \in 1 .. n : i < j /\ ~KeyLess(last[i], first[j])
    BY <2>1
  <2>3. j - 1 \in 1 .. n - 1 /\ j - 1 \notin Bad /\ j - 1 + 1 = j /\ j - 1 \in 1 .. n /\ j \in 1 .. n
    BY <2>1, <2>2
  <2>4. KeyLess(last[j - 1], first[j])
    BY <2>3
  <2>5. i # j - 1
    BY <2>2, <2>4
  <2>6. KeyLess(last[i], first[j - 1])
    BY <2>2, <2>3, <2>5
  <2>7. KeyLess(last[i], last[j - 1])
    BY <2>3, <2>6, KeyLessOrder
  <2> QED BY <2>2, <2>3, <2>4, <2>7, KeyLessOrder
<1>2. \A i, j \in 1 .. n : i < j => KeyLess(last[i], first[j])
  BY <1>1
<1>3. ASSUME NEW i \in 1 .. n, NEW j \in 1 .. n, i <= j
      PROVE  ~KeyLess(first[j], first[i]) /\ ~KeyLess(last[j], last[i])
  <2>1. CASE i = j
    BY <2>1, KeyLessOrder
  <2>2. CASE i # j
    <3>1. KeyLess(last[i], first[j])
      BY <1>2, <1>3, <2>2
    <3>2. KeyLess(first[i], first[j]) /\ KeyLess(last[i], last[j])
      BY <3>1, KeyLessOrder
    <3> QED BY <3>2, KeyLessOrder
  <2> QED BY <2>1, <2>2
<1> QED BY <1>2, <1>3

-----------------------------------------------------------------------------
(* The recursive definitions of the model have the values they describe. *)

\* Following a link until a stop, where every link leads to a smaller rank.
Follows(f, P, stop, out, link) ==
    \A p \in P : f[p] = IF p \in stop THEN out[p] ELSE f[link[p]]

LEMMA FollowLinks ==
  ASSUME NEW P, NEW stop \in SUBSET P, NEW out, NEW link \in [P -> P], NEW rank \in [P -> Nat],
         NEW N \in Nat, \A p \in P : rank[p] <= N,
         \A p \in P \ stop : rank[link[p]] < rank[p]
  PROVE  \E f : Follows(f, P, stop, out, link)
<1> DEFINE Up(f, n) == \A p \in P : rank[p] < n =>
                          f[p] = IF p \in stop THEN out[p] ELSE f[link[p]]
           Bad == {n \in Nat : ~ \E f : Up(f, n)}
<1>1. Bad = {}
  <2> SUFFICES ASSUME Bad # {} PROVE FALSE
    OBVIOUS
  <2>1. PICK n \in Bad : \A k \in Bad : n <= k
    <3>1. Bad \in SUBSET Nat
      OBVIOUS
    <3> HIDE DEF Bad
    <3> QED BY <3>1, LeastNatural
  <2>2. n # 0
    BY <2>1
  <2>3. n - 1 \in Nat /\ n - 1 \notin Bad
    BY <2>1, <2>2
  <2>4. PICK f : Up(f, n - 1)
    BY <2>3
  <2> DEFINE g == [p \in P |-> IF rank[p] < n - 1 THEN f[p]
                               ELSE IF p \in stop THEN out[p] ELSE f[link[p]]]
  <2>5. ASSUME NEW p \in P, rank[p] < n
        PROVE  g[p] = IF p \in stop THEN out[p] ELSE g[link[p]]
    <3>1. g[p] = IF p \in stop THEN out[p] ELSE f[link[p]]
      BY <2>4
    <3>2. p \notin stop => g[link[p]] = f[link[p]]
      <4> SUFFICES ASSUME p \notin stop PROVE g[link[p]] = f[link[p]]
        OBVIOUS
      <4>1. link[p] \in P /\ rank[link[p]] < n - 1
        BY <2>5, <2>3
      <4> QED BY <4>1
    <3> HIDE DEF g
    <3> QED BY <3>1, <3>2
  <2> HIDE DEF g
  <2>6. Up(g, n)
    BY <2>5
  <2> QED BY <2>1, <2>6
<1>2. PICK f : Up(f, N + 1)
  <2>1. N + 1 \in Nat
    OBVIOUS
  <2> QED BY <1>1, <2>1
<1>3. \A p \in P : rank[p] < N + 1
  OBVIOUS
<1> QED BY <1>2, <1>3 DEF Follows

\* Iterating a step.
Iterates(f, lo, hi, a, step) ==
    \A n \in lo .. hi : f[n] = IF n = lo THEN a ELSE step[f[n - 1]]

LEMMA IterateStep ==
  ASSUME NEW lo \in Nat, NEW hi \in Nat, NEW a, NEW step
  PROVE  \E f : Iterates(f, lo, hi, a, step)
<1> DEFINE Up(f, m) == \A n \in lo .. m : f[n] = IF n = lo THEN a ELSE step[f[n - 1]]
           Bad == {m \in Nat : ~ \E f : Up(f, m)}
<1>1. Bad = {}
  <2> SUFFICES ASSUME Bad # {} PROVE FALSE
    OBVIOUS
  <2>1. PICK m \in Bad : \A k \in Bad : m <= k
    <3>1. Bad \in SUBSET Nat
      OBVIOUS
    <3> HIDE DEF Bad
    <3> QED BY <3>1, LeastNatural
  <2>2. m > lo
    <3> SUFFICES ASSUME m <= lo PROVE FALSE
      BY <2>1
    <3>1. Up([n \in lo .. m |-> a], m)
      BY <2>1
    <3> QED BY <2>1, <3>1
  <2>3. m - 1 \in Nat /\ m - 1 \notin Bad
    BY <2>1, <2>2
  <2>4. PICK f : Up(f, m - 1)
    BY <2>3
  <2> DEFINE g == [n \in lo .. m |-> IF n = m THEN step[f[m - 1]] ELSE f[n]]
  <2>5. ASSUME NEW n \in lo .. m
        PROVE  g[n] = IF n = lo THEN a ELSE step[g[n - 1]]
    <3>1. CASE n = m
      <4>1. g[n] = step[f[m - 1]] /\ g[m - 1] = f[m - 1] /\ n # lo
        BY <2>1, <2>2, <3>1
      <4> HIDE DEF g
      <4> QED BY <3>1, <4>1
    <3>2. CASE n # m
      <4>1. n \in lo .. m - 1 /\ g[n] = f[n]
        BY <2>1, <3>2
      <4>2. n # lo => g[n - 1] = f[n - 1]
        BY <2>1, <3>2
      <4> HIDE DEF g
      <4> QED BY <2>4, <4>1, <4>2
    <3> QED BY <3>1, <3>2
  <2> HIDE DEF g
  <2>6. Up(g, m)
    BY <2>5
  <2> QED BY <2>1, <2>6
<1>2. PICK f : Up(f, hi)
  BY <1>1
<1> QED BY <1>2 DEF Iterates

-----------------------------------------------------------------------------
(* The page graph. *)

LeafPages(n) == [kind : {"leaf"}, entries : Seq(Entry), previous : 0 .. n, next : 0 .. n]
InternalPages(n) ==
    {page \in [kind : {"internal"}, children : Seq(1 .. n), separators : Seq(Int),
               previous : 0 .. n, next : 0 .. n] :
       Len(page.children) = Len(page.separators) + 1}
Pages(n) == LeafPages(n) \cup InternalPages(n)

\* The pages of an index that is complete, in any condition.
IndexOK ==
    /\ pages \in Seq(Pages(Len(pages)))
    /\ entries \in Seq(Seq(Entry))
    /\ roots \in [Table -> PageId]

LEMMA PageFields ==
  ASSUME IndexOK
  PROVE  /\ Len(pages) \in Nat /\ PageId = 1 .. Len(pages)
         /\ \A p \in PageId :
              /\ pages[p].previous \in 0 .. Len(pages) /\ pages[p].next \in 0 .. Len(pages)
              /\ Leaf(p) => pages[p].entries \in Seq(Entry)
              /\ ~Leaf(p) => /\ pages[p].children \in Seq(PageId)
                             /\ pages[p].separators \in Seq(Int)
                             /\ Len(pages[p].children) = Len(pages[p].separators) + 1
<1>1. Len(pages) \in Nat /\ PageId = 1 .. Len(pages)
  BY DEF IndexOK, PageId
<1>2. \A p \in PageId : pages[p] \in LeafPages(Len(pages)) \cup InternalPages(Len(pages))
  BY DEF IndexOK, PageId, Pages
<1> QED BY <1>1, <1>2 DEF LeafPages, InternalPages, Leaf

\* q is the i-th child of p.
IsChild(p, i, q) == ~Leaf(p) /\ i \in DOMAIN pages[p].children /\ pages[p].children[i] = q
ChildrenOf(S) == UNION {{pages[s[1]].children[s[2]] : s \in ChildSlots(p)} : p \in S}

LEMMA ChildrenAreChildren ==
  ASSUME NEW S, NEW q
  PROVE  q \in ChildrenOf(S) <=> \E p \in S : \E i : IsChild(p, i, q)
<1>1. ASSUME q \in ChildrenOf(S) PROVE \E p \in S : \E i : IsChild(p, i, q)
  <2>1. PICK p \in S : \E s \in ChildSlots(p) : q = pages[s[1]].children[s[2]]
    BY <1>1 DEF ChildrenOf
  <2>2. PICK s \in ChildSlots(p) : q = pages[s[1]].children[s[2]]
    BY <2>1
  <2>3. ~Leaf(p) /\ s \in {<<p, i>> : i \in DOMAIN pages[p].children}
    BY <2>2 DEF ChildSlots
  <2>4. PICK i \in DOMAIN pages[p].children : s = <<p, i>>
    BY <2>3
  <2> QED BY <2>2, <2>3, <2>4 DEF IsChild
<1>2. ASSUME NEW p \in S, NEW i, IsChild(p, i, q) PROVE q \in ChildrenOf(S)
  <2>1. <<p, i>> \in ChildSlots(p)
    BY <1>2 DEF IsChild, ChildSlots
  <2>2. q = pages[<<p, i>>[1]].children[<<p, i>>[2]]
    BY <1>2 DEF IsChild
  <2> QED BY <2>1, <2>2 DEF ChildrenOf
<1> QED BY <1>1, <1>2

LEMMA ChildIsPage ==
  ASSUME IndexOK, NEW p \in PageId, NEW i, NEW q, IsChild(p, i, q)
  PROVE  q \in PageId
BY PageFields DEF IsChild

LEMMA DepthRecursion ==
  ASSUME IndexOK, NEW t \in Table
  PROVE  /\ Depth(t) = [d \in 0 .. Len(pages) |->
                          IF d = 0 THEN {roots[t]} ELSE ChildrenOf(Depth(t)[d - 1])]
         /\ \A d \in 0 .. Len(pages) : Depth(t)[d] \subseteq PageId
<1> DEFINE N == Len(pages)
           step == [S \in SUBSET PageId |-> ChildrenOf(S)]
           at[d \in 0 .. Len(pages)] ==
             IF d = 0 THEN {roots[t]}
             ELSE UNION {{pages[s[1]].children[s[2]] : s \in ChildSlots(p)} : p \in at[d - 1]}
<1>1. N \in Nat /\ roots[t] \in PageId
  BY PageFields DEF IndexOK
<1>2. ASSUME NEW S \in SUBSET PageId PROVE ChildrenOf(S) \subseteq PageId
  BY ChildrenAreChildren, ChildIsPage
<1>3. PICK f : \A d \in 0 .. N : f[d] = IF d = 0 THEN {roots[t]} ELSE step[f[d - 1]]
  <2>1. PICK f : Iterates(f, 0, N, {roots[t]}, step)
    <3> HIDE DEF step, N
    <3> QED BY <1>1, IterateStep
  <2> HIDE DEF step, N
  <2> QED BY <2>1 DEF Iterates
<1>4. ASSUME NEW g, \A d \in 0 .. N : d # 0 /\ g[d - 1] \in SUBSET PageId => g[d] = ChildrenOf(g[d - 1]),
             g[0] = {roots[t]}
      PROVE  \A d \in 0 .. N : g[d] \in SUBSET PageId
  <2> DEFINE Bad == {d \in 0 .. N : g[d] \notin SUBSET PageId}
  <2> SUFFICES ASSUME Bad # {} PROVE FALSE
    OBVIOUS
  <2>1. PICK d \in Bad : \A k \in Bad : d <= k
    <3>1. Bad \in SUBSET Nat
      BY <1>1
    <3> HIDE DEF Bad
    <3> QED BY <3>1, LeastNatural
  <2>2. d # 0
    BY <1>1, <1>4, <2>1
  <2>3. d - 1 \in 0 .. N /\ d - 1 \notin Bad
    BY <1>1, <2>1, <2>2
  <2> QED BY <1>2, <1>4, <2>1, <2>2, <2>3
<1>5. \A d \in 0 .. N : f[d] \in SUBSET PageId
  <2>1. \A d \in 0 .. N : d # 0 /\ f[d - 1] \in SUBSET PageId => f[d] = ChildrenOf(f[d - 1])
    BY <1>3
  <2>2. f[0] = {roots[t]}
    <3>1. 0 \in 0 .. N
      BY <1>1
    <3> HIDE DEF step, N
    <3> QED BY <1>3, <3>1
  <2> HIDE DEF N
  <2> QED BY <1>4, <2>1, <2>2
<1>6. \A d \in 0 .. N : f[d] = IF d = 0 THEN {roots[t]} ELSE ChildrenOf(f[d - 1])
  <2>1. \A d \in 0 .. N : d # 0 => f[d - 1] \in SUBSET PageId
    BY <1>1, <1>5
  <2> HIDE DEF N
  <2> QED BY <1>3, <2>1
<1> DEFINE g == [d \in 0 .. N |-> f[d]]
<1>7. at = [d \in 0 .. N |-> IF d = 0 THEN {roots[t]} ELSE ChildrenOf(at[d - 1])]
  <2>1. \A d \in 0 .. N : g[d] = IF d = 0 THEN {roots[t]} ELSE ChildrenOf(g[d - 1])
    <3> SUFFICES ASSUME NEW d \in 0 .. N
                 PROVE  g[d] = IF d = 0 THEN {roots[t]} ELSE ChildrenOf(g[d - 1])
      OBVIOUS
    <3>1. g[d] = f[d] /\ (d # 0 => g[d - 1] = f[d - 1])
      BY <1>1
    <3> HIDE DEF g, N
    <3> QED BY <1>6, <3>1
  <2>2. g = [d \in 0 .. N |-> g[d]]
    OBVIOUS
  <2> HIDE DEF g
  <2>3. g = [d \in 0 .. N |-> IF d = 0 THEN {roots[t]} ELSE ChildrenOf(g[d - 1])]
    BY <2>1, <2>2
  <2> QED BY <2>3 DEF ChildrenOf
<1>8. Depth(t) = at
  BY DEF Depth
<1> HIDE DEF at
<1>9. \A d \in 0 .. N : at[d] \in SUBSET PageId
  <2>1. \A d \in 0 .. N : d # 0 /\ at[d - 1] \in SUBSET PageId => at[d] = ChildrenOf(at[d - 1])
    BY <1>7
  <2>2. at[0] = {roots[t]}
    BY <1>1, <1>7
  <2> HIDE DEF N
  <2> QED BY <1>4, <2>1, <2>2
<1> QED BY <1>7, <1>8, <1>9

LEMMA ImageIsFinite ==
  ASSUME NEW S, IsFiniteSet(S), NEW f
  PROVE  IsFiniteSet({f[x] : x \in S})
<1> DEFINE T == {f[x] : x \in S}
           g == [x \in S |-> f[x]]
<1>1. g \in Surjection(S, T)
  BY DEF Surjection
<1> HIDE DEF g, T
<1>2. IsFiniteSet(T)
  BY <1>1, FS_Surjection
<1> QED BY <1>2 DEF T

LEMMA SlotsAreFinite ==
  ASSUME IndexOK
  PROVE  IsFiniteSet(UNION {ChildSlots(q) : q \in PageId})
<1>1. ASSUME NEW p \in PageId PROVE IsFiniteSet(ChildSlots(p))
  <2>1. CASE Leaf(p)
    BY <2>1, FS_EmptySet DEF ChildSlots
  <2>2. CASE ~Leaf(p)
    <3> DEFINE slot == [i \in DOMAIN pages[p].children |-> <<p, i>>]
    <3>1. PICK n \in Nat : DOMAIN pages[p].children = 1 .. n
      BY <2>2, PageFields
    <3>2. IsFiniteSet(1 .. n)
      BY <3>1, FS_Interval
    <3>3. IsFiniteSet({slot[i] : i \in DOMAIN pages[p].children})
      <4> HIDE DEF slot
      <4> QED BY <3>1, <3>2, ImageIsFinite
    <3>4. {slot[i] : i \in DOMAIN pages[p].children} = ChildSlots(p)
      BY <2>2 DEF ChildSlots
    <3> QED BY <3>3, <3>4
  <2> QED BY <2>1, <2>2
<1> DEFINE slots == [q \in PageId |-> ChildSlots(q)]
<1>2. IsFiniteSet(PageId)
  BY PageFields, FS_Interval
<1>3. IsFiniteSet({slots[q] : q \in PageId})
  <2> HIDE DEF slots
  <2> QED BY <1>2, ImageIsFinite
<1>4. {slots[q] : q \in PageId} = {ChildSlots(q) : q \in PageId}
  OBVIOUS
<1>5. \A T \in {ChildSlots(q) : q \in PageId} : IsFiniteSet(T)
  BY <1>1
<1> QED BY <1>3, <1>4, <1>5, FS_UNION

\* The two kinds of reference to a page that IsForest counts.
RootsAt(p) == {t \in Table : roots[t] = p}
SlotsWith(p) ==
    {s \in UNION {ChildSlots(q) : q \in PageId} : pages[s[1]].children[s[2]] = p}

LEMMA ReferencesAreFinite ==
  ASSUME IndexOK, NEW p
  PROVE  IsFiniteSet(RootsAt(p)) /\ IsFiniteSet(SlotsWith(p))
<1>1. IsFiniteSet(Table)
  <2>1. Len(entries) \in Nat /\ Table = 1 .. Len(entries)
    BY DEF IndexOK, Table
  <2> QED BY <2>1, FS_Interval
<1>2. IsFiniteSet(RootsAt(p))
  <2>1. RootsAt(p) \in SUBSET Table
    BY DEF RootsAt
  <2> QED BY <1>1, <2>1, FS_Subset
<1>3. IsFiniteSet(SlotsWith(p))
  <2>1. SlotsWith(p) \in SUBSET UNION {ChildSlots(q) : q \in PageId}
    BY DEF SlotsWith
  <2> QED BY <2>1, SlotsAreFinite, FS_Subset
<1> QED BY <1>2, <1>3

LEMMA SlotIsChild ==
  ASSUME NEW q, NEW s
  PROVE  s \in SlotsWith(q) <=> \E p \in PageId : \E i : s = <<p, i>> /\ IsChild(p, i, q)
<1>1. ASSUME s \in SlotsWith(q) PROVE \E p \in PageId : \E i : s = <<p, i>> /\ IsChild(p, i, q)
  <2>1. PICK p \in PageId : s \in ChildSlots(p)
    BY <1>1 DEF SlotsWith
  <2>2. ~Leaf(p) /\ s \in {<<p, i>> : i \in DOMAIN pages[p].children}
    BY <2>1 DEF ChildSlots
  <2>3. PICK i \in DOMAIN pages[p].children : s = <<p, i>>
    BY <2>2
  <2>4. pages[s[1]].children[s[2]] = q
    BY <1>1 DEF SlotsWith
  <2> QED BY <2>2, <2>3, <2>4 DEF IsChild
<1>2. ASSUME NEW p \in PageId, NEW i, s = <<p, i>>, IsChild(p, i, q) PROVE s \in SlotsWith(q)
  <2>1. s \in ChildSlots(p)
    BY <1>2 DEF IsChild, ChildSlots
  <2>2. q = pages[s[1]].children[s[2]]
    BY <1>2 DEF IsChild
  <2> QED BY <2>1, <2>2 DEF SlotsWith
<1> QED BY <1>1, <1>2

\* Every page is the root of one table or has one parent and one place there.
LEMMA OneReference ==
  ASSUME IndexOK, IsForest, NEW q \in PageId
  PROVE  /\ \A t, u \in Table : roots[t] = q /\ roots[u] = q => t = u
         /\ \A t \in Table, p \in PageId : \A i : roots[t] = q => ~IsChild(p, i, q)
         /\ \A p, r \in PageId : \A i, j : IsChild(p, i, q) /\ IsChild(r, j, q) => p = r /\ i = j
<1>1. Cardinality(RootsAt(q)) + Cardinality(SlotsWith(q)) = 1
  BY DEF IsForest, RootsAt, SlotsWith
<1>2. /\ IsFiniteSet(RootsAt(q)) /\ IsFiniteSet(SlotsWith(q))
      /\ Cardinality(RootsAt(q)) \in Nat /\ Cardinality(SlotsWith(q)) \in Nat
  BY ReferencesAreFinite, FS_CardinalityType
<1>3. \/ (\E t : RootsAt(q) = {t}) /\ SlotsWith(q) = {}
      \/ RootsAt(q) = {} /\ \E s : SlotsWith(q) = {s}
  <2>1. \/ Cardinality(RootsAt(q)) = 1 /\ Cardinality(SlotsWith(q)) = 0
        \/ Cardinality(RootsAt(q)) = 0 /\ Cardinality(SlotsWith(q)) = 1
    BY <1>1, <1>2
  <2> QED BY <1>2, <2>1, FS_Singleton, FS_EmptySet
<1>4. \A t \in Table : roots[t] = q => t \in RootsAt(q)
  BY DEF RootsAt
<1>5. \A p \in PageId : \A i : IsChild(p, i, q) => <<p, i>> \in SlotsWith(q)
  BY SlotIsChild
<1>6. \A t, u \in Table : roots[t] = q /\ roots[u] = q => t = u
  BY <1>3, <1>4
<1>7. \A t \in Table, p \in PageId : \A i : roots[t] = q => ~IsChild(p, i, q)
  BY <1>3, <1>4, <1>5
<1>8. ASSUME NEW p \in PageId, NEW r \in PageId, NEW i, NEW j, IsChild(p, i, q), IsChild(r, j, q)
      PROVE  p = r /\ i = j
  <2>1. <<p, i>> = <<r, j>>
    BY <1>3, <1>5, <1>8
  <2> QED BY <2>1
<1> QED BY <1>6, <1>7, <1>8

LEMMA DepthMembers ==
  ASSUME IndexOK, NEW t \in Table
  PROVE  /\ \A q : q \in Depth(t)[0] <=> q = roots[t]
         /\ \A d \in 1 .. Len(pages) : \A q :
              q \in Depth(t)[d] <=> \E p \in Depth(t)[d - 1] : \E i : IsChild(p, i, q)
         /\ \A d \in 0 .. Len(pages) : Depth(t)[d] \subseteq PageId
<1>1. Len(pages) \in Nat
  BY PageFields
<1> DEFINE D == Depth(t)
           N == Len(pages)
<1>2. D = [d \in 0 .. N |-> IF d = 0 THEN {roots[t]} ELSE ChildrenOf(D[d - 1])]
  BY DepthRecursion
<1>3. \A d \in 0 .. N : D[d] \subseteq PageId
  BY DepthRecursion
<1> HIDE DEF D, N
<1>4. D[0] = {roots[t]}
  <2>1. 0 \in 0 .. N
    BY <1>1 DEF N
  <2> QED BY <1>2, <2>1
<1>5. ASSUME NEW d \in 1 .. N PROVE D[d] = ChildrenOf(D[d - 1])
  <2>1. d \in 0 .. N /\ d # 0
    BY <1>1 DEF N
  <2> QED BY <1>2, <2>1
<1>6. \A d \in 1 .. N : \A q : q \in D[d] <=> \E p \in D[d - 1] : \E i : IsChild(p, i, q)
  BY <1>5, ChildrenAreChildren
<1> QED BY <1>3, <1>4, <1>6 DEF D, N

\* No page is met twice, neither in one tree nor in two.
LEMMA DepthIsUnique ==
  ASSUME IndexOK, IsForest, NEW t \in Table, NEW u \in Table,
         NEW d \in 0 .. Len(pages), NEW e \in 0 .. Len(pages),
         NEW p, p \in Depth(t)[d], p \in Depth(u)[e]
  PROVE  t = u /\ d = e
<1> DEFINE N == Len(pages)
           Bad == {n \in 0 .. N : \E m \in 0 .. N : \E q :
                     q \in Depth(t)[n] /\ q \in Depth(u)[m] /\ ~(t = u /\ n = m)}
<1>1. N \in Nat
  BY PageFields
<1>2. /\ \A n \in 0 .. N : Depth(t)[n] \subseteq PageId
      /\ \A n \in 0 .. N : Depth(u)[n] \subseteq PageId
  BY DepthMembers DEF N
<1> HIDE DEF N
<1>3. Bad = {}
  <2> SUFFICES ASSUME Bad # {} PROVE FALSE
    OBVIOUS
  <2>1. PICK n \in Bad : \A k \in Bad : n <= k
    <3>1. Bad \in SUBSET Nat
      BY <1>1
    <3> HIDE DEF Bad
    <3> QED BY <3>1, LeastNatural
  <2>2. PICK m \in 0 .. N, q \in Depth(t)[n] : q \in Depth(u)[m] /\ ~(t = u /\ n = m)
    BY <2>1
  <2>3. q \in PageId
    BY <2>1, <2>2, DepthMembers DEF N
  <2>4. CASE n = 0 /\ m = 0
    <3>1. roots[t] = q /\ roots[u] = q
      BY <2>2, <2>4, DepthMembers
    <3> QED BY <2>2, <2>3, <2>4, <3>1, OneReference
  <2>5. CASE n = 0 /\ m # 0
    <3>1. m \in 1 .. N /\ m - 1 \in 0 .. N
      BY <1>1, <2>5
    <3>2. PICK r \in Depth(u)[m - 1] : \E i : IsChild(r, i, q)
      BY <2>2, <3>1, DepthMembers DEF N
    <3>3. r \in PageId /\ roots[t] = q
      BY <2>2, <2>5, <3>1, DepthMembers DEF N
    <3> QED BY <2>3, <3>2, <3>3, OneReference
  <2>6. CASE n # 0 /\ m = 0
    <3>1. n \in 1 .. N /\ n - 1 \in 0 .. N
      BY <1>1, <2>1, <2>6
    <3>2. PICK r \in Depth(t)[n - 1] : \E i : IsChild(r, i, q)
      BY <2>2, <3>1, DepthMembers DEF N
    <3>3. r \in PageId /\ roots[u] = q
      BY <2>2, <2>6, <3>1, DepthMembers DEF N
    <3> QED BY <2>3, <3>2, <3>3, OneReference
  <2>7. CASE n # 0 /\ m # 0
    <3>1. n \in 1 .. N /\ n - 1 \in 0 .. N /\ m \in 1 .. N /\ m - 1 \in 0 .. N
      BY <1>1, <2>1, <2>7
    <3>2. PICK r \in Depth(t)[n - 1] : \E i : IsChild(r, i, q)
      BY <2>2, <3>1, DepthMembers DEF N
    <3>3. PICK s \in Depth(u)[m - 1] : \E i : IsChild(s, i, q)
      BY <2>2, <3>1, DepthMembers DEF N
    <3>4. r \in PageId /\ s \in PageId
      <4>1. Depth(t)[n - 1] \subseteq PageId
        BY <1>2, <3>1
      <4>2. Depth(u)[m - 1] \subseteq PageId
        BY <1>2, <3>1
      <4> QED BY <4>1, <4>2
    <3>5. r = s
      BY <2>3, <3>2, <3>3, <3>4, OneReference
    <3>6. n - 1 \notin Bad
      <4>1. ~(n <= n - 1)
        BY <1>1, <2>1
      <4> HIDE DEF Bad
      <4> QED BY <2>1, <4>1
    <3>7. t = u /\ n - 1 = m - 1
      BY <3>1, <3>5, <3>6
    <3>8. n = m
      BY <1>1, <2>1, <3>1, <3>7
    <3> QED BY <2>2, <3>7, <3>8
  <2> QED BY <2>4, <2>5, <2>6, <2>7
<1> QED BY <1>3 DEF N

LEMMA PageHasDepth ==
  ASSUME IndexOK, IsForest, NEW p \in PageId
  PROVE  \E t \in Table : \E d \in 0 .. Len(pages) : p \in Depth(t)[d]
BY DEF IsForest, PagesOf

LEMMA ChildDepth ==
  ASSUME IndexOK, IsForest, NEW t \in Table, NEW d \in 0 .. Len(pages), NEW p \in Depth(t)[d],
         NEW i, NEW q, IsChild(p, i, q)
  PROVE  d + 1 \in 0 .. Len(pages) /\ q \in Depth(t)[d + 1]
<1>1. Len(pages) \in Nat /\ p \in PageId
  BY PageFields, DepthMembers
<1>2. q \in PageId
  BY <1>1, ChildIsPage
<1>3. PICK u \in Table, e \in 0 .. Len(pages) : q \in Depth(u)[e]
  BY <1>2, PageHasDepth
<1>4. e # 0
  <2> SUFFICES ASSUME e = 0 PROVE FALSE
    OBVIOUS
  <2>1. roots[u] = q
    BY <1>3, DepthMembers
  <2> QED BY <1>1, <1>2, <2>1, OneReference
<1>5. e \in 1 .. Len(pages) /\ e - 1 \in 0 .. Len(pages)
  BY <1>1, <1>4
<1>6. PICK r \in Depth(u)[e - 1] : \E j : IsChild(r, j, q)
  BY <1>3, <1>5, DepthMembers
<1>7. r \in PageId
  BY <1>5, DepthMembers
<1>8. r = p
  BY <1>1, <1>2, <1>6, <1>7, OneReference
<1>9. t = u /\ d = e - 1
  BY <1>5, <1>8, DepthIsUnique
<1> QED BY <1>1, <1>3, <1>5, <1>9

\* The height of a page, or anything else that is less for its children.
Ranks(rank) ==
    /\ rank \in [PageId -> 0 .. Len(pages)]
    /\ \A p \in PageId : \A i, q : IsChild(p, i, q) => rank[q] < rank[p]

LEMMA ForestHasRanks ==
  ASSUME IndexOK, IsForest
  PROVE  \E rank : Ranks(rank)
<1> DEFINE N == Len(pages)
           rank == [p \in PageId |-> CHOOSE r \in 0 .. N : \E t \in Table : p \in Depth(t)[N - r]]
<1>1. N \in Nat
  BY PageFields
<1>2. ASSUME NEW p \in PageId
      PROVE  rank[p] \in 0 .. N /\ \E t \in Table : p \in Depth(t)[N - rank[p]]
  <2>1. PICK t \in Table, d \in 0 .. N : p \in Depth(t)[d]
    BY PageHasDepth
  <2>2. N - d \in 0 .. N /\ N - (N - d) = d
    BY <1>1
  <2>3. \E r \in 0 .. N : \E u \in Table : p \in Depth(u)[N - r]
    <3> HIDE DEF N
    <3> QED BY <2>1, <2>2
  <2>4. rank[p] = CHOOSE r \in 0 .. N : \E u \in Table : p \in Depth(u)[N - r]
    OBVIOUS
  <2> HIDE DEF rank, N
  <2> QED BY <2>3, <2>4
<1>3. rank \in [PageId -> 0 .. N]
  BY <1>2
<1> HIDE DEF rank
<1>4. ASSUME NEW p \in PageId, NEW i, NEW q, IsChild(p, i, q)
      PROVE  rank[q] < rank[p]
  <2>1. q \in PageId
    BY <1>4, ChildIsPage
  <2>2. PICK t \in Table : p \in Depth(t)[N - rank[p]]
    BY <1>2
  <2>3. PICK u \in Table : q \in Depth(u)[N - rank[q]]
    BY <1>2, <2>1
  <2>4. /\ rank[p] \in Int /\ rank[q] \in Int
        /\ N - rank[p] \in 0 .. N /\ N - rank[q] \in 0 .. N
    BY <1>1, <1>2, <2>1
  <2>5. N - rank[p] + 1 \in 0 .. N /\ q \in Depth(t)[N - rank[p] + 1]
    BY <1>4, <2>2, <2>4, ChildDepth
  <2>6. N - rank[p] + 1 = N - rank[q]
    BY <2>3, <2>4, <2>5, DepthIsUnique
  <2> HIDE DEF N
  <2> QED BY <1>1, <2>4, <2>6
<1>5. Ranks(rank)
  BY <1>3, <1>4 DEF Ranks
<1> QED BY <1>5

\* Following one child of each page down to a leaf.
LEMMA FollowChildren ==
  ASSUME IndexOK, NEW rank, Ranks(rank), NEW out, NEW link \in [PageId -> PageId],
         \A p \in PageId : ~Leaf(p) => \E i : IsChild(p, i, link[p])
  PROVE  \E f : Follows(f, PageId, {p \in PageId : Leaf(p)}, out, link)
<1> DEFINE stop == {p \in PageId : Leaf(p)}
           N == Len(pages)
<1>1. N \in Nat
  BY PageFields
<1>2. rank \in [PageId -> Nat] /\ \A p \in PageId : rank[p] <= N
  BY <1>1 DEF Ranks
<1>3. \A p \in PageId \ stop : rank[link[p]] < rank[p]
  BY DEF Ranks
<1>4. stop \in SUBSET PageId
  OBVIOUS
<1> HIDE DEF stop, N
<1>5. \E f : Follows(f, PageId, stop, out, link)
  BY <1>1, <1>2, <1>3, <1>4, FollowLinks
<1> QED BY <1>5 DEF stop

LEMMA FirstAndLastChild ==
  ASSUME IndexOK, NEW p \in PageId, ~Leaf(p)
  PROVE  /\ Len(pages[p].children) \in Nat \ {0}
         /\ DOMAIN pages[p].children = 1 .. Len(pages[p].children)
         /\ \A i \in 1 .. Len(pages[p].children) :
              pages[p].children[i] \in PageId /\ IsChild(p, i, pages[p].children[i])
<1>1. /\ pages[p].children \in Seq(PageId) /\ pages[p].separators \in Seq(Int)
      /\ Len(pages[p].children) = Len(pages[p].separators) + 1
  BY PageFields
<1> QED BY <1>1 DEF IsChild

LEMMA FirstRecursion ==
  ASSUME IndexOK, NEW rank, Ranks(rank), NEW p \in PageId
  PROVE  FirstEntry(p) = IF Leaf(p) THEN pages[p].entries[1] ELSE FirstEntry(pages[p].children[1])
<1> DEFINE link == [r \in PageId |-> IF Leaf(r) THEN r ELSE pages[r].children[1]]
           out == [r \in PageId |-> pages[r].entries[1]]
           first[r \in PageId] == IF Leaf(r) THEN pages[r].entries[1] ELSE first[pages[r].children[1]]
<1>1. link \in [PageId -> PageId] /\ \A r \in PageId : ~Leaf(r) => \E i : IsChild(r, i, link[r])
  BY FirstAndLastChild
<1>2. PICK f : Follows(f, PageId, {r \in PageId : Leaf(r)}, out, link)
  <2> HIDE DEF link, out
  <2> QED BY <1>1, FollowChildren
<1> DEFINE g == [r \in PageId |-> f[r]]
<1>3. g = [r \in PageId |-> IF Leaf(r) THEN pages[r].entries[1] ELSE g[pages[r].children[1]]]
  <2>1. ASSUME NEW r \in PageId
        PROVE  g[r] = IF Leaf(r) THEN pages[r].entries[1] ELSE g[pages[r].children[1]]
    <3>1. ~Leaf(r) => pages[r].children[1] \in PageId
      BY FirstAndLastChild
    <3> QED BY <1>2, <3>1 DEF Follows
  <2>2. g = [r \in PageId |-> g[r]]
    OBVIOUS
  <2> HIDE DEF g
  <2> QED BY <2>1, <2>2
<1>4. first = [r \in PageId |-> IF Leaf(r) THEN pages[r].entries[1] ELSE first[pages[r].children[1]]]
  <2> HIDE DEF g
  <2> QED BY <1>3
<1>5. \A r : FirstEntry(r) = first[r]
  BY DEF FirstEntry
<1> HIDE DEF first
<1>6. first[p] = IF Leaf(p) THEN pages[p].entries[1] ELSE first[pages[p].children[1]]
  BY <1>4
<1> QED BY <1>5, <1>6

LEMMA LastRecursion ==
  ASSUME IndexOK, NEW rank, Ranks(rank), NEW p \in PageId
  PROVE  LastEntry(p) = IF Leaf(p) THEN pages[p].entries[Len(pages[p].entries)]
                        ELSE LastEntry(pages[p].children[Len(pages[p].children)])
<1> DEFINE lastChild(r) == pages[r].children[Len(pages[r].children)]
           lastOf(r) == pages[r].entries[Len(pages[r].entries)]
           link == [r \in PageId |-> IF Leaf(r) THEN r ELSE lastChild(r)]
           out == [r \in PageId |-> lastOf(r)]
           last[r \in PageId] ==
             IF Leaf(r) THEN pages[r].entries[Len(pages[r].entries)]
             ELSE last[pages[r].children[Len(pages[r].children)]]
<1>1. link \in [PageId -> PageId] /\ \A r \in PageId : ~Leaf(r) => \E i : IsChild(r, i, link[r])
  BY FirstAndLastChild
<1>2. PICK f : Follows(f, PageId, {r \in PageId : Leaf(r)}, out, link)
  <2> HIDE DEF link, out
  <2> QED BY <1>1, FollowChildren
<1> DEFINE g == [r \in PageId |-> f[r]]
<1>3. g = [r \in PageId |-> IF Leaf(r) THEN lastOf(r) ELSE g[lastChild(r)]]
  <2>1. ASSUME NEW r \in PageId
        PROVE  g[r] = IF Leaf(r) THEN lastOf(r) ELSE g[lastChild(r)]
    <3>1. ~Leaf(r) => lastChild(r) \in PageId
      BY FirstAndLastChild
    <3> QED BY <1>2, <3>1 DEF Follows
  <2>2. g = [r \in PageId |-> g[r]]
    OBVIOUS
  <2> HIDE DEF g, lastOf, lastChild
  <2> QED BY <2>1, <2>2
<1>4. last = [r \in PageId |-> IF Leaf(r) THEN lastOf(r) ELSE last[lastChild(r)]]
  <2> HIDE DEF g
  <2> QED BY <1>3
<1>5. \A r : LastEntry(r) = last[r]
  BY DEF LastEntry
<1> HIDE DEF last
<1>6. last[p] = IF Leaf(p) THEN lastOf(p) ELSE last[lastChild(p)]
  BY <1>4
<1> QED BY <1>5, <1>6

-----------------------------------------------------------------------------
(* What is below a page, and that its entries lie between first and last. *)

Closed(S) == \A p \in S : \A i, q : IsChild(p, i, q) => q \in S
Below(p) == {x \in PageId : \A S \in SUBSET PageId : Closed(S) /\ p \in S => x \in S}

LEMMA BelowIsClosed ==
  ASSUME IndexOK, NEW p \in PageId
  PROVE  p \in Below(p) /\ Below(p) \subseteq PageId /\ Closed(Below(p))
<1>1. p \in Below(p) /\ Below(p) \subseteq PageId
  BY DEF Below
<1>2. ASSUME NEW x \in Below(p), NEW i, NEW q, IsChild(x, i, q) PROVE q \in Below(p)
  <2>1. x \in PageId
    BY DEF Below
  <2>2. q \in PageId
    BY <1>2, <2>1, ChildIsPage
  <2>3. ASSUME NEW S \in SUBSET PageId, Closed(S), p \in S PROVE q \in S
    <3>1. x \in S
      BY <2>3 DEF Below
    <3> QED BY <1>2, <2>3, <3>1 DEF Closed
  <2> QED BY <2>2, <2>3 DEF Below
<1> QED BY <1>1, <1>2 DEF Closed

LEMMA BelowALeaf ==
  ASSUME IndexOK, NEW p \in PageId, Leaf(p), NEW x \in Below(p)
  PROVE  x = p
<1>1. Closed({p})
  BY DEF Closed, IsChild
<1> QED BY <1>1 DEF Below

LEMMA BelowAParent ==
  ASSUME IndexOK, NEW p \in PageId, ~Leaf(p), NEW x \in Below(p), Leaf(x)
  PROVE  \E i \in 1 .. Len(pages[p].children) : x \in Below(pages[p].children[i])
<1> DEFINE n == Len(pages[p].children)
           S == {p} \cup UNION {Below(pages[p].children[i]) : i \in 1 .. n}
<1>1. /\ DOMAIN pages[p].children = 1 .. n
      /\ \A i \in 1 .. n : pages[p].children[i] \in PageId
  BY FirstAndLastChild
<1> HIDE DEF n
<1>2. S \in SUBSET PageId
  BY <1>1, BelowIsClosed
<1>3. ASSUME NEW y \in S, NEW i, NEW q, IsChild(y, i, q) PROVE q \in S
  <2>1. CASE y = p
    <3>1. i \in 1 .. n /\ q = pages[p].children[i]
      BY <1>1, <1>3, <2>1 DEF IsChild
    <3>2. q \in Below(q)
      BY <1>1, <3>1, BelowIsClosed
    <3> QED BY <3>1, <3>2
  <2>2. CASE y # p
    <3>1. PICK j \in 1 .. n : y \in Below(pages[p].children[j])
      BY <2>2
    <3>2. q \in Below(pages[p].children[j])
      BY <1>1, <1>3, <3>1, BelowIsClosed DEF Closed
    <3> QED BY <3>1, <3>2
  <2> QED BY <2>1, <2>2
<1>4. Closed(S) /\ p \in S
  BY <1>3 DEF Closed
<1>5. x \in S
  <2> HIDE DEF S
  <2> QED BY <1>2, <1>4 DEF Below
<1> QED BY <1>5 DEF n

\* The tree of a table is what is below its root.
LEMMA PagesBelowRoot ==
  ASSUME IndexOK, IsForest, NEW t \in Table
  PROVE  /\ PagesOf(t) \subseteq Below(roots[t])
         /\ PagesOf(t) \subseteq PageId
         /\ Closed(PagesOf(t))
         /\ roots[t] \in PagesOf(t)
<1> DEFINE N == Len(pages)
           Bad == {d \in 0 .. N : ~(Depth(t)[d] \subseteq Below(roots[t]))}
<1>1. N \in Nat /\ roots[t] \in PageId
  BY PageFields DEF IndexOK
<1> HIDE DEF N
<1>2. Bad = {}
  <2> SUFFICES ASSUME Bad # {} PROVE FALSE
    OBVIOUS
  <2>1. PICK d \in Bad : \A k \in Bad : d <= k
    <3>1. Bad \in SUBSET Nat
      BY <1>1
    <3> HIDE DEF Bad
    <3> QED BY <3>1, LeastNatural
  <2>2. PICK q \in Depth(t)[d] : q \notin Below(roots[t])
    BY <2>1
  <2>3. d # 0
    <3>1. roots[t] \in Below(roots[t])
      BY <1>1, BelowIsClosed
    <3> QED BY <2>2, <3>1, DepthMembers
  <2>4. d \in 1 .. N /\ d - 1 \in 0 .. N /\ ~(d <= d - 1)
    BY <1>1, <2>1, <2>3
  <2>5. PICK p \in Depth(t)[d - 1] : \E i : IsChild(p, i, q)
    BY <2>2, <2>4, DepthMembers DEF N
  <2>6. d - 1 \notin Bad
    <3> HIDE DEF Bad
    <3> QED BY <2>1, <2>4
  <2>7. p \in Below(roots[t])
    BY <2>4, <2>5, <2>6
  <2> QED BY <1>1, <2>2, <2>5, <2>7, BelowIsClosed DEF Closed
<1>3. PagesOf(t) \subseteq Below(roots[t])
  BY <1>2 DEF PagesOf, N
<1>4. PagesOf(t) \subseteq PageId
  BY <1>1, <1>3, BelowIsClosed
<1>5. ASSUME NEW p \in PagesOf(t), NEW i, NEW q, IsChild(p, i, q) PROVE q \in PagesOf(t)
  <2>1. PICK d \in 0 .. N : p \in Depth(t)[d]
    BY DEF PagesOf, N
  <2>2. d + 1 \in 0 .. N /\ q \in Depth(t)[d + 1]
    BY <1>5, <2>1, ChildDepth DEF N
  <2> QED BY <2>2 DEF PagesOf, N
<1>6. roots[t] \in PagesOf(t)
  <2>1. 0 \in 0 .. N /\ roots[t] \in Depth(t)[0]
    BY <1>1, DepthMembers
  <2> QED BY <2>1 DEF PagesOf, N
<1> QED BY <1>3, <1>4, <1>5, <1>6 DEF Closed

\* What Accepted says of one table.
TableOK(t) ==
    /\ IndexOK
    /\ \A p \in PageId : PageIsValid(p)
    /\ IsForest
    /\ IsOrdered(t)

LEMMA LeafEntries ==
  ASSUME NEW t \in Table, TableOK(t), NEW p \in PagesOf(t), Leaf(p)
  PROVE  /\ Len(pages[p].entries) \in Nat \ {0}
         /\ DOMAIN pages[p].entries = 1 .. Len(pages[p].entries)
         /\ \A i \in DOMAIN pages[p].entries : pages[p].entries[i] \in Entry
         /\ \A i, j \in DOMAIN pages[p].entries :
              i < j => KeyLess(pages[p].entries[i], pages[p].entries[j])
<1> DEFINE e == pages[p].entries
<1>1. p \in PageId
  BY PagesBelowRoot DEF TableOK
<1>2. e \in Seq(Entry)
  BY <1>1, PageFields DEF TableOK
<1>3. Len(e) \in 1 .. LeafCapacity
  BY <1>1 DEF TableOK, PageIsValid
<1>4. \A i \in 1 .. Len(e) - 1 : KeyLess(e[i], e[i + 1])
  BY DEF TableOK, IsOrdered
<1> HIDE DEF e
<1>5. /\ Len(e) \in Nat \ {0} /\ DOMAIN e = 1 .. Len(e) /\ e \in [1 .. Len(e) -> Entry]
      /\ \A i \in DOMAIN e : e[i] \in Entry
  BY <1>2, <1>3, LenProperties
<1>6. \A i \in 1 .. Len(e) : ~KeyLess(e[i], e[i])
  BY <1>5, KeyLessOrder
<1>7. \A i, j \in 1 .. Len(e) : i < j => KeyLess(e[i], e[j])
  BY <1>4, <1>5, <1>6, Ladder
<1> QED BY <1>5, <1>7 DEF e

\* The entries below p lie between its first and its last.
Spans(p) ==
    /\ FirstEntry(p) \in Entry /\ LastEntry(p) \in Entry
    /\ ~KeyLess(LastEntry(p), FirstEntry(p))
    /\ \A leaf \in Below(p) : Leaf(leaf) =>
         \A i \in DOMAIN pages[leaf].entries :
            /\ pages[leaf].entries[i] \in Entry
            /\ ~KeyLess(pages[leaf].entries[i], FirstEntry(p))
            /\ ~KeyLess(LastEntry(p), pages[leaf].entries[i])

\* The children of a page follow each other.
ChildrenInOrder(p) ==
    \A i, j \in 1 .. Len(pages[p].children) :
       /\ i < j => KeyLess(LastEntry(pages[p].children[i]), FirstEntry(pages[p].children[j]))
       /\ i <= j => /\ ~KeyLess(FirstEntry(pages[p].children[j]), FirstEntry(pages[p].children[i]))
                    /\ ~KeyLess(LastEntry(pages[p].children[j]), LastEntry(pages[p].children[i]))

LEMMA ChildLadder ==
  ASSUME NEW t \in Table, TableOK(t), NEW p \in PagesOf(t), ~Leaf(p),
         \A i \in 1 .. Len(pages[p].children) : Spans(pages[p].children[i])
  PROVE  ChildrenInOrder(p)
<1> DEFINE n == Len(pages[p].children)
           first == [i \in 1 .. n |-> FirstEntry(pages[p].children[i])]
           last == [i \in 1 .. n |-> LastEntry(pages[p].children[i])]
<1>1. p \in PageId
  BY PagesBelowRoot DEF TableOK
<1>2. n \in Nat
  BY <1>1, FirstAndLastChild DEF TableOK
<1>3. first \in [1 .. n -> Entry] /\ last \in [1 .. n -> Entry]
  BY DEF Spans
<1>4. \A i \in 1 .. n : ~KeyLess(last[i], first[i])
  BY DEF Spans
<1>5. \A i \in 1 .. n - 1 : KeyLess(LastEntry(pages[p].children[i]), FirstEntry(pages[p].children[i + 1]))
  BY DEF TableOK, IsOrdered
<1>6. \A i \in 1 .. n - 1 : KeyLess(last[i], first[i + 1])
  <2>1. \A i \in 1 .. n - 1 : i \in 1 .. n /\ i + 1 \in 1 .. n
    BY <1>2
  <2> QED BY <1>5, <2>1
<1>7. \A i, j \in 1 .. n :
           /\ i < j => KeyLess(last[i], first[j])
           /\ i <= j => ~KeyLess(first[j], first[i]) /\ ~KeyLess(last[j], last[i])
  <2> HIDE DEF n, first, last
  <2> QED BY <1>2, <1>3, <1>4, <1>6, Ladder
<1> QED BY <1>7 DEF ChildrenInOrder

LEMMA LeafSpans ==
  ASSUME NEW t \in Table, TableOK(t), NEW p \in PagesOf(t), Leaf(p)
  PROVE  Spans(p)
<1> DEFINE e == pages[p].entries
           n == Len(pages[p].entries)
<1>1. p \in PageId
  BY PagesBelowRoot DEF TableOK
<1>2. PICK rank : Ranks(rank)
  BY ForestHasRanks DEF TableOK
<1>3. FirstEntry(p) = e[1] /\ LastEntry(p) = e[n]
  BY <1>1, <1>2, FirstRecursion, LastRecursion DEF TableOK
<1>4. /\ n \in Nat \ {0} /\ DOMAIN e = 1 .. n
      /\ \A i \in 1 .. n : e[i] \in Entry
      /\ \A i, j \in 1 .. n : i < j => KeyLess(e[i], e[j])
  BY LeafEntries
<1> HIDE DEF e, n
<1>5. 1 \in 1 .. n /\ n \in 1 .. n
  BY <1>4
<1>6. ASSUME NEW i \in 1 .. n PROVE ~KeyLess(e[i], e[1]) /\ ~KeyLess(e[n], e[i])
  <2>1. e[1] \in Entry /\ e[n] \in Entry /\ e[i] \in Entry
    BY <1>4, <1>5
  <2>2. (i = 1 \/ 1 < i) /\ (i = n \/ i < n)
    BY <1>4
  <2>3. e[1] = e[i] \/ KeyLess(e[1], e[i])
    BY <1>4, <1>5, <2>2
  <2>4. e[i] = e[n] \/ KeyLess(e[i], e[n])
    BY <1>4, <1>5, <2>2
  <2> QED BY <2>1, <2>3, <2>4, KeyLessOrder
<1>7. \A leaf \in Below(p) : leaf = p
  BY <1>1, BelowALeaf DEF TableOK
<1> QED BY <1>3, <1>4, <1>5, <1>6, <1>7 DEF Spans, e

LEMMA ParentSpans ==
  ASSUME NEW t \in Table, TableOK(t), NEW p \in PagesOf(t), ~Leaf(p),
         \A i \in 1 .. Len(pages[p].children) : Spans(pages[p].children[i])
  PROVE  Spans(p)
<1> DEFINE n == Len(pages[p].children)
           c(i) == pages[p].children[i]
<1>1. p \in PageId
  BY PagesBelowRoot DEF TableOK
<1>2. PICK rank : Ranks(rank)
  BY ForestHasRanks DEF TableOK
<1>3. FirstEntry(p) = FirstEntry(c(1)) /\ LastEntry(p) = LastEntry(c(n))
  BY <1>1, <1>2, FirstRecursion, LastRecursion DEF TableOK
<1>4. n \in Nat \ {0} /\ 1 \in 1 .. n /\ n \in 1 .. n
  BY <1>1, FirstAndLastChild DEF TableOK
<1>5. ASSUME NEW i \in 1 .. n
      PROVE  ~KeyLess(FirstEntry(c(i)), FirstEntry(c(1))) /\ ~KeyLess(LastEntry(c(n)), LastEntry(c(i)))
  <2>1. 1 <= i /\ i <= n
    BY <1>4
  <2>2. ChildrenInOrder(p)
    BY ChildLadder
  <2> QED BY <1>4, <2>1, <2>2 DEF ChildrenInOrder
<1>6. \A i \in 1 .. n : Spans(c(i))
  OBVIOUS
<1>7. \A leaf \in Below(p) : Leaf(leaf) => \E i \in 1 .. n : leaf \in Below(c(i))
  BY <1>1, BelowAParent DEF TableOK
<1> HIDE DEF n, c
<1>8. FirstEntry(p) \in Entry /\ LastEntry(p) \in Entry
  BY <1>3, <1>4, <1>6 DEF Spans
<1>9. ~KeyLess(LastEntry(p), FirstEntry(p))
  <2>1. /\ FirstEntry(c(n)) \in Entry /\ LastEntry(c(n)) \in Entry /\ FirstEntry(c(1)) \in Entry
        /\ ~KeyLess(LastEntry(c(n)), FirstEntry(c(n))) /\ ~KeyLess(FirstEntry(c(n)), FirstEntry(c(1)))
    BY <1>4, <1>5, <1>6 DEF Spans
  <2> QED BY <1>3, <2>1, KeyLessOrder
<1>10. ASSUME NEW leaf \in Below(p), Leaf(leaf), NEW i \in DOMAIN pages[leaf].entries
       PROVE  /\ pages[leaf].entries[i] \in Entry
              /\ ~KeyLess(pages[leaf].entries[i], FirstEntry(p))
              /\ ~KeyLess(LastEntry(p), pages[leaf].entries[i])
  <2> DEFINE e == pages[leaf].entries[i]
  <2>1. PICK k \in 1 .. n : leaf \in Below(c(k))
    BY <1>7, <1>10
  <2>2. e \in Entry /\ ~KeyLess(e, FirstEntry(c(k))) /\ ~KeyLess(LastEntry(c(k)), e)
    BY <1>6, <1>10, <2>1 DEF Spans
  <2>3. FirstEntry(c(k)) \in Entry /\ LastEntry(c(k)) \in Entry
    BY <1>6 DEF Spans
  <2>4. ~KeyLess(FirstEntry(c(k)), FirstEntry(p)) /\ ~KeyLess(LastEntry(p), LastEntry(c(k)))
    BY <1>3, <1>5
  <2> HIDE DEF e
  <2>5. ~KeyLess(e, FirstEntry(p)) /\ ~KeyLess(LastEntry(p), e)
    BY <1>8, <2>2, <2>3, <2>4, KeyLessOrder
  <2> QED BY <2>2, <2>5 DEF e
<1> QED BY <1>8, <1>9, <1>10 DEF Spans

LEMMA PagesSpan ==
  ASSUME NEW t \in Table, TableOK(t)
  PROVE  \A p \in PagesOf(t) : Spans(p)
<1> DEFINE N == Len(pages)
<1>1. N \in Nat /\ PagesOf(t) \subseteq PageId /\ Closed(PagesOf(t))
  BY PageFields, PagesBelowRoot DEF TableOK
<1>2. PICK rank : Ranks(rank)
  BY ForestHasRanks DEF TableOK
<1> DEFINE Bad == {r \in 0 .. N : \E p \in PagesOf(t) : rank[p] = r /\ ~Spans(p)}
<1>3. Bad = {}
  <2> SUFFICES ASSUME Bad # {} PROVE FALSE
    OBVIOUS
  <2>1. PICK r \in Bad : \A k \in Bad : r <= k
    <3>1. Bad \in SUBSET Nat
      BY <1>1
    <3> HIDE DEF Bad
    <3> QED BY <3>1, LeastNatural
  <2>2. PICK p \in PagesOf(t) : rank[p] = r /\ ~Spans(p)
    BY <2>1
  <2>3. ~Leaf(p)
    BY <2>2, LeafSpans
  <2>4. ASSUME NEW i \in 1 .. Len(pages[p].children) PROVE Spans(pages[p].children[i])
    <3> DEFINE q == pages[p].children[i]
    <3>1. q \in PageId /\ IsChild(p, i, q)
      BY <1>1, <2>3, FirstAndLastChild DEF TableOK
    <3>2. q \in PagesOf(t)
      BY <1>1, <3>1 DEF Closed
    <3>3. rank[q] < r /\ rank[q] \in 0 .. N
      BY <1>1, <1>2, <2>2, <3>1 DEF Ranks
    <3>4. rank[q] \notin Bad
      <4>1. ~(r <= rank[q])
        BY <1>1, <2>1, <3>3
      <4> HIDE DEF Bad
      <4> QED BY <2>1, <4>1
    <3> QED BY <3>2, <3>3, <3>4
  <2> QED BY <2>2, <2>3, <2>4, ParentSpans
<1>4. ASSUME NEW p \in PagesOf(t) PROVE Spans(p)
  <2>1. rank[p] \in 0 .. N
    BY <1>1, <1>2 DEF Ranks
  <2> QED BY <1>3, <2>1
<1> QED BY <1>4

-----------------------------------------------------------------------------
(* The descent.  At every page the leaves that are not below it hold only  *)
(* smaller entries, or larger ones that are not below the query.           *)

LEMMA CountUpTo ==
  ASSUME NEW n \in Nat
  PROVE  IsFiniteSet(1 .. n) /\ Cardinality(1 .. n) = n
<1>1. 1 \in Int /\ n \in Int /\ (1 > n <=> n = 0) /\ n - 1 + 1 = n
  OBVIOUS
<1> QED BY <1>1, FS_Interval

LEMMA ChildForSplits ==
  ASSUME NEW seps \in Seq(Int), NEW q \in Int,
         NEW m, m = Cardinality({i \in DOMAIN seps : \A j \in 1 .. i : PassesSeparator(q, seps[j])})
  PROVE  /\ m \in 0 .. Len(seps)
         /\ \A i \in 1 .. m : seps[i] < q
         /\ m < Len(seps) => q <= seps[m + 1]
<1> DEFINE n == Len(seps)
           P(i) == PassesSeparator(q, seps[i])
           B == {i \in 1 .. n : ~P(i)}
           A == {i \in DOMAIN seps : \A j \in 1 .. i : P(j)}
<1>1. n \in Nat /\ DOMAIN seps = 1 .. n /\ \A i \in 1 .. n : seps[i] \in Int
  OBVIOUS
<1>2. \A i \in 1 .. n : P(i) <=> seps[i] < q
  BY <1>1 DEF PassesSeparator
<1> HIDE DEF P, n
<1>3. CASE B = {}
  <2>1. A = 1 .. n
    BY <1>1, <1>3
  <2>2. m = n
    <3>1. Cardinality(A) = n
      <4> HIDE DEF A
      <4> QED BY <1>1, <2>1, CountUpTo
    <3> QED BY <3>1 DEF P
  <2>3. \A i \in 1 .. n : seps[i] < q
    BY <1>2, <1>3
  <2>4. m \in 0 .. n /\ ~(m < n) /\ \A i \in 1 .. m : seps[i] < q
    <3>1. n \in 0 .. n /\ ~(n < n)
      BY <1>1
    <3> QED BY <2>2, <2>3, <3>1, Zenon
  <2> QED BY <2>4 DEF n
<1>4. CASE B # {}
  <2>1. PICK k \in B : \A j \in B : k <= j
    <3>1. B \in SUBSET Nat
      BY <1>1
    <3> HIDE DEF B
    <3> QED BY <1>4, <3>1, LeastNatural
  <2>2. k \in 1 .. n /\ ~P(k) /\ \A j \in 1 .. k - 1 : P(j)
    BY <1>1, <2>1
  <2>3. A = 1 .. k - 1
    <3>1. \A i \in 1 .. k - 1 : i \in A
      BY <1>1, <2>2
    <3>2. ASSUME NEW i \in A PROVE i \in 1 .. k - 1
      <4>1. i \in 1 .. n /\ (k <= i => P(k))
        BY <1>1, <2>2
      <4> QED BY <1>1, <2>2, <4>1
    <3> QED BY <3>1, <3>2
  <2>4. Cardinality(A) = k - 1
    <3>1. k - 1 \in Nat
      BY <1>1, <2>2
    <3> HIDE DEF A
    <3> QED BY <2>3, <3>1, CountUpTo
  <2>5. m = k - 1
    BY <2>4 DEF P
  <2>6. /\ m \in 0 .. n /\ m + 1 = k
        /\ \A i \in 1 .. m : i \in 1 .. n /\ P(i)
    <3> HIDE DEF A, B
    <3>1. k \in Int /\ m \in Int /\ m + 1 = k /\ m \in 0 .. n
      BY <1>1, <2>2, <2>5
    <3>2. \A i \in 1 .. m : i \in 1 .. k - 1 /\ i \in 1 .. n
      BY <1>1, <3>1
    <3> QED BY <2>2, <3>1, <3>2
  <2>7. ~(seps[k] < q) /\ seps[k] \in Int
    BY <1>1, <1>2, <2>2
  <2> QED BY <1>2, <2>6, <2>7, SMTT(60) DEF n
<1> QED BY <1>3, <1>4

Focus(t, q, p) ==
    /\ p \in PagesOf(t)
    /\ \A leaf \in LeavesOf(t) :
         \/ leaf \in Below(p)
         \/ \A i \in DOMAIN pages[leaf].entries :
              KeyLess(pages[leaf].entries[i], FirstEntry(p))
         \/ \A i \in DOMAIN pages[leaf].entries :
              KeyLess(LastEntry(p), pages[leaf].entries[i]) /\ q <= pages[leaf].entries[i].value
    /\ \/ FirstEntry(p).value < q
       \/ \A leaf \in LeavesOf(t) : \A i \in DOMAIN pages[leaf].entries :
            ~KeyLess(pages[leaf].entries[i], FirstEntry(p))

LEMMA FocusAtRoot ==
  ASSUME NEW t \in Table, TableOK(t), NEW q \in Int
  PROVE  Focus(t, q, roots[t])
<1>1. PagesOf(t) \subseteq Below(roots[t]) /\ roots[t] \in PagesOf(t)
  BY PagesBelowRoot DEF TableOK
<1>2. Spans(roots[t])
  BY <1>1, PagesSpan
<1> QED BY <1>1, <1>2 DEF Focus, LeavesOf, Spans

LEMMA FocusStep ==
  ASSUME NEW t \in Table, TableOK(t), NEW q \in Int, NEW p, Focus(t, q, p), ~Leaf(p)
  PROVE  /\ \E i : IsChild(p, i, ChildFor(pages[p], q))
         /\ Focus(t, q, ChildFor(pages[p], q))
<1> DEFINE n == Len(pages[p].children)
           c(i) == pages[p].children[i]
           m == Cardinality({i \in DOMAIN pages[p].separators :
                               \A j \in 1 .. i : PassesSeparator(q, pages[p].separators[j])})
           k == 1 + m
<1>1. p \in PagesOf(t) /\ p \in PageId /\ IndexOK
  BY PagesBelowRoot DEF Focus, TableOK
<1>2. /\ pages[p].separators \in Seq(Int)
      /\ n = Len(pages[p].separators) + 1
      /\ Len(pages[p].separators) \in Nat
  BY <1>1, PageFields
<1>3. ChildFor(pages[p], q) = c(k)
  BY DEF ChildFor
<1>4. /\ m \in 0 .. Len(pages[p].separators)
      /\ \A i \in 1 .. m : pages[p].separators[i] < q
      /\ m < Len(pages[p].separators) => q <= pages[p].separators[m + 1]
  BY <1>2, ChildForSplits
<1> HIDE DEF m
<1>5. k \in 1 .. n /\ m = k - 1 /\ n \in Nat
  BY <1>2, <1>4
<1>6. \A i \in 1 .. n : c(i) \in PageId /\ IsChild(p, i, c(i)) /\ c(i) \in PagesOf(t)
  <2>1. \A i \in 1 .. n : c(i) \in PageId /\ IsChild(p, i, c(i))
    BY <1>1, FirstAndLastChild
  <2>2. Closed(PagesOf(t))
    BY PagesBelowRoot DEF TableOK
  <2> QED BY <1>1, <2>1, <2>2 DEF Closed
<1>7. \A i \in 1 .. n : Spans(c(i))
  BY <1>6, PagesSpan
<1>8. ChildrenInOrder(p)
  BY <1>1, <1>7, ChildLadder
<1>9. \A i \in 1 .. n - 1 : pages[p].separators[i] = FirstEntry(c(i + 1)).value
  BY <1>1 DEF TableOK, IsOrdered, SeparatorMatches
<1>10. /\ FirstEntry(p) = FirstEntry(c(1)) /\ LastEntry(p) = LastEntry(c(n))
  <2>1. PICK rank : Ranks(rank)
    BY ForestHasRanks DEF TableOK
  <2> QED BY <1>1, <2>1, FirstRecursion, LastRecursion
<1>11. 1 \in 1 .. n /\ n \in 1 .. n /\ 1 <= k /\ k <= n
  BY <1>5
<1>12. /\ ~KeyLess(FirstEntry(c(k)), FirstEntry(p)) /\ ~KeyLess(LastEntry(p), LastEntry(c(k)))
       /\ FirstEntry(p) \in Entry /\ LastEntry(p) \in Entry
       /\ FirstEntry(c(k)) \in Entry /\ LastEntry(c(k)) \in Entry
  <2> HIDE DEF k, n
  <2>1. ~KeyLess(FirstEntry(c(k)), FirstEntry(c(1))) /\ ~KeyLess(LastEntry(c(n)), LastEntry(c(k)))
    BY <1>5, <1>8, <1>11 DEF ChildrenInOrder, n
  <2> QED BY <1>5, <1>7, <1>10, <1>11, <2>1 DEF Spans
<1> DEFINE Less(leaf) == \A i \in DOMAIN pages[leaf].entries :
                           KeyLess(pages[leaf].entries[i], FirstEntry(c(k)))
           More(leaf) == \A i \in DOMAIN pages[leaf].entries :
                           KeyLess(LastEntry(c(k)), pages[leaf].entries[i])
                           /\ q <= pages[leaf].entries[i].value
<1> HIDE DEF k, c, n
<1>13. ASSUME NEW leaf \in LeavesOf(t)
       PROVE  leaf \in Below(c(k)) \/ Less(leaf) \/ More(leaf)
  <2>1. leaf \in PagesOf(t) /\ Leaf(leaf)
    BY DEF LeavesOf
  <2>2. \A i \in DOMAIN pages[leaf].entries : pages[leaf].entries[i] \in Entry
    BY <2>1, LeafEntries
  <2>3. CASE leaf \in Below(p)
    <3>1. PICK i \in 1 .. n : leaf \in Below(c(i))
      BY <1>1, <2>1, <2>3, BelowAParent DEF c, n
    <3>2. \A j \in DOMAIN pages[leaf].entries :
            /\ ~KeyLess(pages[leaf].entries[j], FirstEntry(c(i)))
            /\ ~KeyLess(LastEntry(c(i)), pages[leaf].entries[j])
      BY <1>7, <2>1, <3>1 DEF Spans
    <3>3. FirstEntry(c(i)) \in Entry /\ LastEntry(c(i)) \in Entry
      BY <1>7 DEF Spans
    <3>4. CASE i = k
      BY <3>1, <3>4
    <3>5. CASE i < k
      <4>1. KeyLess(LastEntry(c(i)), FirstEntry(c(k)))
        BY <1>5, <1>8, <3>5 DEF ChildrenInOrder, c, n
      <4>2. ASSUME NEW j \in DOMAIN pages[leaf].entries
            PROVE  KeyLess(pages[leaf].entries[j], FirstEntry(c(k)))
        BY <1>12, <2>2, <3>2, <3>3, <4>1, KeyLessOrder
      <4> QED BY <4>2
    <3>6. CASE i > k
      <4>1. KeyLess(LastEntry(c(k)), FirstEntry(c(i)))
        BY <1>5, <1>8, <3>6 DEF ChildrenInOrder, c, n
      <4>2. k \in 1 .. n - 1 /\ k + 1 \in 1 .. n /\ k + 1 <= i
        BY <1>5, <3>6
      <4>3. ~KeyLess(FirstEntry(c(i)), FirstEntry(c(k + 1)))
        BY <1>8, <4>2 DEF ChildrenInOrder, c, n
      <4>4. q <= FirstEntry(c(k + 1)).value
        <5>1. m < Len(pages[p].separators) /\ m + 1 = k
          BY <1>2, <1>4, <1>5, <4>2
        <5> QED BY <1>4, <1>9, <4>2, <5>1
      <4>5. FirstEntry(c(k + 1)) \in Entry
        BY <1>7, <4>2 DEF Spans
      <4>6. ASSUME NEW j \in DOMAIN pages[leaf].entries
            PROVE  KeyLess(LastEntry(c(k)), pages[leaf].entries[j]) /\ q <= pages[leaf].entries[j].value
        <5> DEFINE e == pages[leaf].entries[j]
        <5>1. e \in Entry /\ ~KeyLess(e, FirstEntry(c(i)))
          BY <2>2, <3>2
        <5> HIDE DEF e
        <5>2. KeyLess(LastEntry(c(k)), e)
          BY <1>12, <3>3, <4>1, <5>1, KeyLessOrder
        <5>3. ~KeyLess(e, FirstEntry(c(k + 1)))
          BY <3>3, <4>3, <4>5, <5>1, KeyLessOrder
        <5>4. FirstEntry(c(k + 1)).value <= e.value
          BY <4>5, <5>1, <5>3, KeyLessOrder
        <5>5. FirstEntry(c(k + 1)).value \in Int /\ e.value \in Int
          BY <4>5, <5>1 DEF Entry
        <5>6. q <= e.value
          BY <4>4, <5>4, <5>5
        <5> QED BY <5>2, <5>6 DEF e
      <4> QED BY <4>6
    <3> QED BY <1>5, <3>1, <3>4, <3>5, <3>6
  <2>4. CASE \A i \in DOMAIN pages[leaf].entries : KeyLess(pages[leaf].entries[i], FirstEntry(p))
    <3>1. Less(leaf)
      BY <1>12, <2>2, <2>4, KeyLessOrder
    <3> QED BY <3>1
  <2>5. CASE \A i \in DOMAIN pages[leaf].entries :
               KeyLess(LastEntry(p), pages[leaf].entries[i]) /\ q <= pages[leaf].entries[i].value
    <3>1. More(leaf)
      BY <1>12, <2>2, <2>5, KeyLessOrder
    <3> QED BY <3>1
  <2> QED BY <2>3, <2>4, <2>5 DEF Focus
<1>14. \/ FirstEntry(c(k)).value < q
       \/ \A leaf \in LeavesOf(t) : \A i \in DOMAIN pages[leaf].entries :
            ~KeyLess(pages[leaf].entries[i], FirstEntry(c(k)))
  <2>1. CASE k = 1
    <3>1. FirstEntry(c(k)) = FirstEntry(p)
      BY <1>10, <2>1
    <3> QED BY <3>1 DEF Focus
  <2>2. CASE k # 1
    <3>1. m \in 1 .. m /\ m \in 1 .. n - 1 /\ m + 1 = k
      BY <1>2, <1>4, <1>5, <2>2
    <3> QED BY <1>4, <1>9, <3>1
  <2> QED BY <2>1, <2>2
<1>15. Focus(t, q, c(k))
  BY <1>5, <1>6, <1>13, <1>14 DEF Focus
<1> QED BY <1>3, <1>5, <1>6, <1>15

LEMMA ChildForIsChild ==
  ASSUME IndexOK, NEW p \in PageId, ~Leaf(p), NEW q \in Int
  PROVE  \E i : IsChild(p, i, ChildFor(pages[p], q))
<1> DEFINE m == Cardinality({i \in DOMAIN pages[p].separators :
                               \A j \in 1 .. i : PassesSeparator(q, pages[p].separators[j])})
<1>1. /\ pages[p].separators \in Seq(Int)
      /\ Len(pages[p].children) = Len(pages[p].separators) + 1
      /\ Len(pages[p].separators) \in Nat
  BY PageFields
<1>2. m \in 0 .. Len(pages[p].separators)
  BY <1>1, ChildForSplits
<1>3. ChildFor(pages[p], q) = pages[p].children[1 + m]
  BY DEF ChildFor
<1> HIDE DEF m
<1>4. 1 + m \in 1 .. Len(pages[p].children)
  BY <1>1, <1>2
<1> QED BY <1>3, <1>4, FirstAndLastChild

LEMMA DescendReachesFocus ==
  ASSUME NEW t \in Table, TableOK(t), NEW q \in Int
  PROVE  Leaf(Descend(t, q)) /\ Focus(t, q, Descend(t, q))
<1> DEFINE link == [p \in PageId |-> IF Leaf(p) THEN p ELSE ChildFor(pages[p], q)]
           out == [p \in PageId |-> p]
           leaf[p \in PageId] == IF Leaf(p) THEN p ELSE leaf[ChildFor(pages[p], q)]
           N == Len(pages)
<1>1. PICK rank : Ranks(rank)
  BY ForestHasRanks DEF TableOK
<1>2. \A p \in PageId : ~Leaf(p) => /\ ChildFor(pages[p], q) \in PageId
                                    /\ \E i : IsChild(p, i, ChildFor(pages[p], q))
  BY ChildForIsChild, ChildIsPage DEF TableOK
<1>3. link \in [PageId -> PageId] /\ \A p \in PageId : ~Leaf(p) => \E i : IsChild(p, i, link[p])
  BY <1>2
<1>4. PICK f : Follows(f, PageId, {p \in PageId : Leaf(p)}, out, link)
  <2> HIDE DEF link, out
  <2> QED BY <1>1, <1>3, FollowChildren DEF TableOK
<1> DEFINE g == [p \in PageId |-> f[p]]
<1>5. g = [p \in PageId |-> IF Leaf(p) THEN p ELSE g[ChildFor(pages[p], q)]]
  <2>1. ASSUME NEW p \in PageId
        PROVE  g[p] = IF Leaf(p) THEN p ELSE g[ChildFor(pages[p], q)]
    BY <1>2, <1>4 DEF Follows
  <2>2. g = [p \in PageId |-> g[p]]
    OBVIOUS
  <2> HIDE DEF g
  <2> QED BY <2>1, <2>2
<1>6. leaf = [p \in PageId |-> IF Leaf(p) THEN p ELSE leaf[ChildFor(pages[p], q)]]
  <2> HIDE DEF g
  <2> QED BY <1>5
<1>7. Descend(t, q) = leaf[roots[t]]
  BY DEF Descend
<1> HIDE DEF leaf, link, out, g
<1>8. \A p \in PageId : leaf[p] = IF Leaf(p) THEN p ELSE leaf[ChildFor(pages[p], q)]
  BY <1>6
<1> DEFINE Bad == {r \in 0 .. N : \E p : /\ Focus(t, q, p) /\ rank[p] = r
                                         /\ ~(Leaf(leaf[p]) /\ Focus(t, q, leaf[p]))}
<1>9. \A p : Focus(t, q, p) => p \in PageId /\ rank[p] \in 0 .. N
  <2>1. PagesOf(t) \subseteq PageId
    BY PagesBelowRoot DEF TableOK
  <2> QED BY <1>1, <2>1 DEF Focus, Ranks
<1>10. N \in Nat
  BY PageFields DEF TableOK
<1> HIDE DEF N
<1>11. Bad = {}
  <2> SUFFICES ASSUME Bad # {} PROVE FALSE
    OBVIOUS
  <2>1. PICK r \in Bad : \A k \in Bad : r <= k
    <3>1. Bad \in SUBSET Nat
      BY <1>10
    <3> HIDE DEF Bad
    <3> QED BY <3>1, LeastNatural
  <2>2. PICK p : /\ Focus(t, q, p) /\ rank[p] = r
                 /\ ~(Leaf(leaf[p]) /\ Focus(t, q, leaf[p]))
    BY <2>1
  <2>3. p \in PageId /\ ~Leaf(p)
    BY <1>8, <1>9, <2>2
  <2> DEFINE c == ChildFor(pages[p], q)
  <2>4. Focus(t, q, c) /\ leaf[p] = leaf[c]
    BY <1>8, <2>2, <2>3, FocusStep
  <2>5. rank[c] < rank[p]
    BY <1>1, <1>2, <2>3 DEF Ranks
  <2> HIDE DEF c
  <2>6. rank[c] \in 0 .. N /\ ~(r <= rank[c])
    BY <1>9, <1>10, <2>1, <2>2, <2>4, <2>5
  <2>7. rank[c] \in Bad
    BY <2>2, <2>4, <2>6
  <2> HIDE DEF Bad
  <2> QED BY <2>1, <2>6, <2>7
<1>12. Focus(t, q, roots[t])
  BY FocusAtRoot
<1> QED BY <1>7, <1>9, <1>11, <1>12

-----------------------------------------------------------------------------
(* The chain of leaves. *)

LEMMA ChainRecursion ==
  ASSUME IndexOK, NEW t \in Table, Cardinality(FirstLeaves(t)) = 1, PagesOf(t) \subseteq PageId,
         NEW n, n = Cardinality(LeavesOf(t))
  PROVE  /\ n \in Nat /\ DOMAIN Chain(t) = 1 .. n /\ Len(Chain(t)) = n
         /\ \A k \in 1 .. n : Chain(t)[k] \in 0 .. Len(pages)
         /\ n > 0 => Chain(t)[1] \in FirstLeaves(t)
         /\ \A k \in 2 .. n : Chain(t)[k - 1] # 0 => Chain(t)[k] = pages[Chain(t)[k - 1]].next
<1> DEFINE N == Len(pages)
           start == CHOOSE p \in FirstLeaves(t) : TRUE
           step == [p \in 0 .. N |-> IF p = 0 THEN 0 ELSE pages[p].next]
           leaf[k \in 1 .. Cardinality(LeavesOf(t))] ==
             IF k = 1 THEN CHOOSE p \in FirstLeaves(t) : TRUE
             ELSE IF leaf[k - 1] = 0 THEN 0 ELSE pages[leaf[k - 1]].next
<1>1. IsFiniteSet(LeavesOf(t)) /\ IsFiniteSet(FirstLeaves(t)) /\ n \in Nat
  <2>1. IsFiniteSet(PageId)
    BY PageFields, CountUpTo
  <2>2. LeavesOf(t) \in SUBSET PageId /\ FirstLeaves(t) \in SUBSET PageId
    BY DEF LeavesOf, FirstLeaves
  <2> QED BY <2>1, <2>2, FS_Subset, FS_CardinalityType
<1>2. start \in FirstLeaves(t) /\ start \in 0 .. N
  <2>1. FirstLeaves(t) # {}
    BY <1>1, FS_EmptySet
  <2>2. FirstLeaves(t) \in SUBSET PageId
    BY DEF LeavesOf, FirstLeaves
  <2>3. start \in FirstLeaves(t)
    BY <2>1
  <2> QED BY <2>2, <2>3, PageFields
<1>3. \A p \in 0 .. N : step[p] \in 0 .. N
  <2>1. \A p \in 0 .. N : p # 0 => p \in PageId
    BY PageFields
  <2>2. N \in Nat
    BY PageFields
  <2> QED BY <2>1, <2>2, PageFields
<1>4. PICK f : \A k \in 1 .. n : f[k] = IF k = 1 THEN start ELSE step[f[k - 1]]
  <2>1. 1 \in Nat
    OBVIOUS
  <2>2. PICK f : Iterates(f, 1, n, start, step)
    <3> HIDE DEF start, step
    <3> QED BY <1>1, <2>1, IterateStep
  <2> QED BY <2>2 DEF Iterates
<1> HIDE DEF start, N
<1>5. ASSUME NEW h, \A k \in 1 .. n : k # 1 /\ h[k - 1] \in 0 .. N => h[k] = step[h[k - 1]],
             1 \in 1 .. n => h[1] = start
      PROVE  \A k \in 1 .. n : h[k] \in 0 .. N
  <2> DEFINE Bad == {k \in 1 .. n : h[k] \notin 0 .. N}
  <2> SUFFICES ASSUME Bad # {} PROVE FALSE
    OBVIOUS
  <2>1. PICK k \in Bad : \A j \in Bad : k <= j
    <3>1. Bad \in SUBSET Nat
      BY <1>1
    <3> HIDE DEF Bad
    <3> QED BY <3>1, LeastNatural
  <2>2. k # 1
    BY <1>2, <1>5, <2>1
  <2>3. k - 1 \in 1 .. n /\ ~(k <= k - 1)
    BY <1>1, <2>1, <2>2
  <2>4. k - 1 \notin Bad
    <3> HIDE DEF Bad
    <3> QED BY <2>1, <2>3
  <2>5. h[k - 1] \in 0 .. N
    BY <2>3, <2>4
  <2>6. h[k] = step[h[k - 1]]
    BY <1>5, <2>1, <2>2, <2>5
  <2> HIDE DEF step
  <2> QED BY <1>3, <2>1, <2>5, <2>6
<1>6. \A k \in 1 .. n : f[k] \in 0 .. N
  <2>1. 1 \in 1 .. n => f[1] = start
    BY <1>4
  <2>2. \A k \in 1 .. n : k # 1 /\ f[k - 1] \in 0 .. N => f[k] = step[f[k - 1]]
    BY <1>4
  <2> HIDE DEF step
  <2> QED BY <1>5, <2>1, <2>2
<1> DEFINE g == [k \in 1 .. n |-> f[k]]
<1>7. g = [k \in 1 .. n |-> IF k = 1 THEN start
                            ELSE IF g[k - 1] = 0 THEN 0 ELSE pages[g[k - 1]].next]
  <2>1. ASSUME NEW k \in 1 .. n
        PROVE  g[k] = IF k = 1 THEN start
                      ELSE IF g[k - 1] = 0 THEN 0 ELSE pages[g[k - 1]].next
    <3>1. CASE k = 1
      BY <1>4, <3>1
    <3>2. CASE k # 1
      <4>1. k - 1 \in 1 .. n /\ f[k - 1] \in 0 .. N
        BY <1>1, <1>6, <3>2
      <4>2. g[k] = f[k] /\ g[k - 1] = f[k - 1]
        BY <4>1
      <4>3. f[k] = step[f[k - 1]]
        BY <1>4, <3>2
      <4> HIDE DEF g
      <4> QED BY <3>2, <4>1, <4>2, <4>3
    <3> QED BY <3>1, <3>2
  <2>2. g = [k \in 1 .. n |-> g[k]]
    OBVIOUS
  <2> HIDE DEF g
  <2> QED BY <2>1, <2>2
<1>8. leaf = [k \in 1 .. n |-> IF k = 1 THEN start
                               ELSE IF leaf[k - 1] = 0 THEN 0 ELSE pages[leaf[k - 1]].next]
  <2> HIDE DEF g
  <2> QED BY <1>7 DEF start
<1>9. Chain(t) = leaf
  BY DEF Chain
<1> HIDE DEF leaf
<1>10. /\ DOMAIN leaf = 1 .. n
       /\ \A k \in 1 .. n : leaf[k] = IF k = 1 THEN start
                                ELSE IF leaf[k - 1] = 0 THEN 0 ELSE pages[leaf[k - 1]].next
  BY <1>8
<1>11. \A k \in 1 .. n : leaf[k] \in 0 .. N
  <2>1. 1 \in 1 .. n => leaf[1] = start
    BY <1>10
  <2>2. \A k \in 1 .. n : k # 1 /\ leaf[k - 1] \in 0 .. N => leaf[k] = step[leaf[k - 1]]
    BY <1>10
  <2> HIDE DEF step
  <2> QED BY <1>5, <2>1, <2>2
<1>12. Len(leaf) = n
  <2>1. leaf \in [1 .. n -> 0 .. N]
    BY <1>8, <1>11
  <2> QED BY <1>1, <2>1
<1>13. n > 0 => leaf[1] \in FirstLeaves(t)
  BY <1>1, <1>2, <1>10
<1>14. \A k \in 2 .. n : leaf[k - 1] # 0 => leaf[k] = pages[leaf[k - 1]].next
  BY <1>1, <1>10
<1> QED BY <1>1, <1>9, <1>10, <1>11, <1>12, <1>13, <1>14 DEF N

\* c is the leaves of the table in their order; a link leads to the next one.
LeafOrder(t, n, c) ==
    /\ n > 0
    /\ \A p \in LeavesOf(t) : \E k \in 1 .. n : p = c[k]
    /\ pages[c[n]].next = 0
    /\ \A k \in 1 .. n - 1 : pages[c[k]].next = c[k + 1]
    /\ \A i, j \in 1 .. n :
         /\ i < j => KeyLess(LastEntry(c[i]), FirstEntry(c[j]))
         /\ i <= j => ~KeyLess(FirstEntry(c[j]), FirstEntry(c[i]))
                      /\ ~KeyLess(LastEntry(c[j]), LastEntry(c[i]))

\* Every leaf has its place in the chain.
LEMMA ChainInOrder ==
  ASSUME NEW t \in Table, TableOK(t), ChainIsValid(t)
  PROVE  \E n \in Nat : \E c \in [1 .. n -> LeavesOf(t)] : LeafOrder(t, n, c)
<1> DEFINE n == Cardinality(LeavesOf(t))
           c == Chain(t)
<1>1. /\ n \in Nat /\ DOMAIN c = 1 .. n /\ Len(c) = n
      /\ \A k \in 2 .. n : c[k - 1] # 0 => c[k] = pages[c[k - 1]].next
  BY PagesBelowRoot, ChainRecursion DEF TableOK, ChainIsValid
<1>2. /\ {c[k] : k \in 1 .. n} = LeavesOf(t)
      /\ pages[c[n]].next = 0
      /\ \A k \in 1 .. n - 1 : KeyLess(LastEntry(c[k]), FirstEntry(c[k + 1]))
      /\ Cardinality(FirstLeaves(t)) = 1
  BY <1>1 DEF ChainIsValid
<1>3. IsFiniteSet(LeavesOf(t)) /\ LeavesOf(t) \subseteq PageId /\ LeavesOf(t) \subseteq PagesOf(t)
      /\ IsFiniteSet(FirstLeaves(t))
  <2>1. IsFiniteSet(PageId)
    BY PageFields, CountUpTo DEF TableOK
  <2>2. LeavesOf(t) \in SUBSET PageId /\ FirstLeaves(t) \in SUBSET PageId
    BY PagesBelowRoot DEF LeavesOf, FirstLeaves, TableOK
  <2> QED BY <2>1, <2>2, FS_Subset DEF LeavesOf
<1>4. n > 0
  <2>1. FirstLeaves(t) # {}
    BY <1>2, <1>3, FS_EmptySet
  <2>2. LeavesOf(t) # {}
    BY <2>1 DEF FirstLeaves
  <2>3. n # 0
    BY <1>3, <2>2, FS_EmptySet
  <2> HIDE DEF n
  <2> QED BY <1>1, <2>3
<1> HIDE DEF n, c
<1>5. \A k \in 1 .. n : c[k] \in LeavesOf(t) /\ c[k] \in PageId /\ Spans(c[k])
  BY <1>2, <1>3, PagesSpan
<1>6. \A k \in 1 .. n - 1 : pages[c[k]].next = c[k + 1]
  <2> SUFFICES ASSUME NEW k \in 1 .. n - 1 PROVE pages[c[k]].next = c[k + 1]
    OBVIOUS
  <2>1. k + 1 \in 2 .. n /\ k + 1 - 1 = k /\ k \in 1 .. n
    BY <1>1
  <2>2. c[k] # 0
    BY <1>5, <2>1, PageFields DEF TableOK
  <2> QED BY <1>1, <2>1, <2>2
<1> DEFINE first == [k \in 1 .. n |-> FirstEntry(c[k])]
           last == [k \in 1 .. n |-> LastEntry(c[k])]
<1>7. /\ first \in [1 .. n -> Entry] /\ last \in [1 .. n -> Entry]
      /\ \A i \in 1 .. n : ~KeyLess(last[i], first[i])
  BY <1>5 DEF Spans
<1>8. \A i \in 1 .. n - 1 : KeyLess(last[i], first[i + 1])
  <2>1. \A i \in 1 .. n - 1 : i \in 1 .. n /\ i + 1 \in 1 .. n
    BY <1>1
  <2> QED BY <1>2, <2>1
<1>9. \A i, j \in 1 .. n :
           /\ i < j => KeyLess(last[i], first[j])
           /\ i <= j => ~KeyLess(first[j], first[i]) /\ ~KeyLess(last[j], last[i])
  <2> HIDE DEF first, last
  <2> QED BY <1>1, <1>7, <1>8, Ladder, ZenonT(60)
<1>10. \A i, j \in 1 .. n :
                /\ i < j => KeyLess(LastEntry(c[i]), FirstEntry(c[j]))
                /\ i <= j => ~KeyLess(FirstEntry(c[j]), FirstEntry(c[i]))
                             /\ ~KeyLess(LastEntry(c[j]), LastEntry(c[i]))
  BY <1>9
<1>11. \A p \in LeavesOf(t) : \E k \in 1 .. n : p = c[k]
  BY <1>2
<1> DEFINE d == [k \in 1 .. n |-> c[k]]
<1>12. d \in [1 .. n -> LeavesOf(t)] /\ \A k \in 1 .. n : d[k] = c[k]
  BY <1>5
<1>13. \A k \in 1 .. n - 1 : k \in 1 .. n /\ k + 1 \in 1 .. n
  BY <1>1
<1>14. n \in 1 .. n
  BY <1>1, <1>4
<1> HIDE DEF d
<1>15. pages[d[n]].next = 0 /\ \A k \in 1 .. n - 1 : pages[d[k]].next = d[k + 1]
  BY <1>2, <1>6, <1>12, <1>13, <1>14
<1>16. \A i, j \in 1 .. n :
                /\ i < j => KeyLess(LastEntry(d[i]), FirstEntry(d[j]))
                /\ i <= j => ~KeyLess(FirstEntry(d[j]), FirstEntry(d[i]))
                             /\ ~KeyLess(LastEntry(d[j]), LastEntry(d[i]))
  BY <1>10, <1>12
<1>17. \A p \in LeavesOf(t) : \E k \in 1 .. n : p = d[k]
  BY <1>11, <1>12
<1> QED BY <1>1, <1>4, <1>12, <1>15, <1>16, <1>17 DEF LeafOrder

-----------------------------------------------------------------------------
(* The search within the leaf, and the whole lookup. *)

LEMMA PrefixCount ==
  ASSUME NEW n \in Nat, NEW value, \A i \in 1 .. n : value[i] \in Int, NEW q \in Int,
         \A i, j \in 1 .. n : i < j => value[i] <= value[j],
         NEW lo, lo = Cardinality({i \in 1 .. n : value[i] < q})
  PROVE  lo \in 0 .. n /\ \A i \in 1 .. n : value[i] < q <=> i <= lo
<1> DEFINE A == {i \in 1 .. n : value[i] < q}
           B == {i \in 1 .. n : ~(value[i] < q)}
<1>1. CASE B = {}
  <2>1. A = 1 .. n
    BY <1>1
  <2>2. lo = n
    BY <2>1, CountUpTo
  <2>3. \A i \in 1 .. n : value[i] < q /\ i <= n
    BY <1>1
  <2>4. n \in 0 .. n
    OBVIOUS
  <2> QED BY <2>2, <2>3, <2>4, Zenon
<1>2. CASE B # {}
  <2>1. PICK k \in B : \A j \in B : k <= j
    <3>1. B \in SUBSET Nat
      OBVIOUS
    <3> HIDE DEF B
    <3> QED BY <1>2, <3>1, LeastNatural
  <2>2. k \in 1 .. n /\ ~(value[k] < q)
    BY <2>1
  <2>3. ASSUME NEW i \in 1 .. n PROVE value[i] < q <=> i <= k - 1
    <3>1. CASE i < k
      <4>1. i \notin B
        <5> HIDE DEF B
        <5> QED BY <2>1, <2>2, <3>1
      <4> QED BY <2>2, <3>1, <4>1
    <3>2. CASE i = k
      BY <2>2, <3>2
    <3>3. CASE i > k
      <4>1. value[k] <= value[i]
        BY <2>2, <3>3
      <4> QED BY <2>2, <3>3, <4>1
    <3> QED BY <2>2, <3>1, <3>2, <3>3
  <2>4. A = 1 .. k - 1
    BY <2>2, <2>3
  <2>5. k - 1 \in Nat /\ k - 1 \in 0 .. n
    BY <2>2
  <2>6. lo = k - 1
    <3>1. Cardinality(A) = k - 1
      <4> HIDE DEF A
      <4> QED BY <2>4, <2>5, CountUpTo
    <3> QED BY <3>1
  <2> QED BY <2>3, <2>5, <2>6
<1> QED BY <1>1, <1>2

\* The places of one lookup are exact.
PlacesAreExact(t, q, places) ==
    LET all == EntriesOf(t)
        below == {e \in all : e.value < q}
    IN  /\ IF places.left = NoPlace THEN below = {}
           ELSE /\ EntryAt(places.left) \in below
                /\ \A e \in below : ~KeyLess(EntryAt(places.left), e)
        /\ IF places.right = NoPlace THEN below = all
           ELSE /\ EntryAt(places.right) \in all \ below
                /\ \A e \in all \ below : ~KeyLess(e, EntryAt(places.right))

LEMMA EntriesAreEntries ==
  ASSUME NEW t \in Table, TableOK(t)
  PROVE  /\ EntriesOf(t) \subseteq Entry
         /\ \A e : e \in EntriesOf(t) <=>
              \E p \in LeavesOf(t) : \E i \in DOMAIN pages[p].entries : e = pages[p].entries[i]
<1>1. \A e : e \in EntriesOf(t) <=>
              \E p \in LeavesOf(t) : \E i \in DOMAIN pages[p].entries : e = pages[p].entries[i]
  BY DEF EntriesOf
<1>2. \A p \in LeavesOf(t) : \A i \in DOMAIN pages[p].entries : pages[p].entries[i] \in Entry
  BY LeafEntries DEF LeavesOf
<1> QED BY <1>1, <1>2

LEMMA LookupIsExact ==
  ASSUME NEW t \in Table, TableOK(t), LinksAgree(t), ChainIsValid(t), NEW q \in Int
  PROVE  PlacesAreExact(t, q, ResetPlaces(t, q))
<1> DEFINE leaf == Descend(t, q)
           e == pages[leaf].entries
           n == Len(pages[leaf].entries)
           values == ValueOf(pages[leaf])
           lo == Cardinality({i \in DOMAIN values : values[i] < q})
           places == ResetPlaces(t, q)
           all == EntriesOf(t)
           below == {f \in all : f.value < q}
<1>1. Leaf(leaf) /\ Focus(t, q, leaf)
  BY DescendReachesFocus
<1>2. leaf \in PagesOf(t) /\ leaf \in PageId /\ leaf \in LeavesOf(t) /\ Spans(leaf)
  BY <1>1, PagesBelowRoot, PagesSpan DEF Focus, LeavesOf, TableOK
<1>3. /\ n \in Nat \ {0} /\ DOMAIN e = 1 .. n
      /\ \A i \in 1 .. n : e[i] \in Entry
      /\ \A i, j \in 1 .. n : i < j => KeyLess(e[i], e[j])
  BY <1>1, <1>2, LeafEntries
<1>4. FirstEntry(leaf) = e[1] /\ LastEntry(leaf) = e[n]
  <2>1. PICK rank : Ranks(rank)
    BY ForestHasRanks DEF TableOK
  <2> QED BY <1>1, <1>2, <2>1, FirstRecursion, LastRecursion DEF TableOK
<1>5. places = [left |-> IF lo > 0 THEN [page |-> leaf, index |-> lo] ELSE PlaceLeftOf(leaf),
                right |-> IF lo < n THEN [page |-> leaf, index |-> lo + 1] ELSE PlaceRightOf(leaf)]
  <2>1. Len(values) = n
    BY <1>3 DEF ValueOf
  <2> QED BY <2>1 DEF ResetPlaces
<1>6. lo \in 0 .. n /\ \A i \in 1 .. n : e[i].value < q <=> i <= lo
  <2> DEFINE value == [i \in 1 .. n |-> e[i].value]
  <2>1. \A i \in 1 .. n : value[i] \in Int
    BY <1>3 DEF Entry
  <2>2. \A i, j \in 1 .. n : i < j => value[i] <= value[j]
    BY <1>3, KeyLessOrder
  <2>3. values = value
    BY <1>3 DEF ValueOf
  <2>4. lo = Cardinality({i \in 1 .. n : value[i] < q})
    BY <2>3
  <2>5. \A i \in 1 .. n : value[i] = e[i].value
    OBVIOUS
  <2> HIDE DEF value, lo, n, e, leaf, values
  <2>6. lo \in 0 .. n /\ \A i \in 1 .. n : value[i] < q <=> i <= lo
    BY <1>3, <2>1, <2>2, <2>4, PrefixCount, SMTT(60)
  <2> QED BY <2>5, <2>6
<1>7. all \subseteq Entry /\ \A f : f \in all <=>
              \E p \in LeavesOf(t) : \E i \in DOMAIN pages[p].entries : f = pages[p].entries[i]
  BY EntriesAreEntries
\* Where an entry of the table can be.
<1>8. ASSUME NEW f \in all
      PROVE  \/ \E i \in 1 .. n : f = e[i]
             \/ KeyLess(f, e[1])
             \/ KeyLess(e[n], f) /\ q <= f.value
  <2>01. PICK p \in LeavesOf(t) : \E i \in DOMAIN pages[p].entries : f = pages[p].entries[i]
    BY <1>7
  <2>1. PICK i \in DOMAIN pages[p].entries : f = pages[p].entries[i]
    BY <2>01
  <2>2. CASE p \in Below(leaf)
    <3>1. p = leaf
      BY <1>1, <1>2, <2>2, BelowALeaf DEF TableOK
    <3> QED BY <1>3, <2>1, <3>1
  <2>3. CASE p \notin Below(leaf)
    BY <1>1, <1>4, <2>1, <2>3 DEF Focus
  <2> QED BY <2>2, <2>3
<1>9. \/ e[1].value < q
      \/ \A f \in all : ~KeyLess(f, e[1])
  BY <1>1, <1>4, <1>7 DEF Focus
<1>10. \A i \in 1 .. n : e[i] \in all
  BY <1>2, <1>3, <1>7
<1>11. leaf # 0 /\ 1 \in 1 .. n /\ n \in 1 .. n
  BY <1>2, <1>3, PageFields DEF TableOK
<1>12. PICK m \in Nat : \E c \in [1 .. m -> LeavesOf(t)] : LeafOrder(t, m, c)
  BY ChainInOrder
<1>13. PICK c \in [1 .. m -> LeavesOf(t)] :
           /\ m > 0
           /\ \A p \in LeavesOf(t) : \E k \in 1 .. m : p = c[k]
           /\ pages[c[m]].next = 0
           /\ \A k \in 1 .. m - 1 : pages[c[k]].next = c[k + 1]
           /\ \A i, j \in 1 .. m :
                /\ i < j => KeyLess(LastEntry(c[i]), FirstEntry(c[j]))
                /\ i <= j => ~KeyLess(FirstEntry(c[j]), FirstEntry(c[i]))
                             /\ ~KeyLess(LastEntry(c[j]), LastEntry(c[i]))
  BY <1>12 DEF LeafOrder
<1>14. ASSUME NEW p \in LeavesOf(t)
       PROVE  /\ p # 0 /\ Spans(p) /\ p \in Below(p) /\ Leaf(p)
              /\ Len(pages[p].entries) \in Nat \ {0}
              /\ DOMAIN pages[p].entries = 1 .. Len(pages[p].entries)
              /\ FirstEntry(p) = pages[p].entries[1] /\ FirstEntry(p) \in all
              /\ LastEntry(p) \in all
  <2>1. p \in PagesOf(t) /\ p \in PageId /\ Leaf(p)
    BY PagesBelowRoot DEF LeavesOf, TableOK
  <2>2. PICK rank : Ranks(rank)
    BY ForestHasRanks DEF TableOK
  <2>3. /\ FirstEntry(p) = pages[p].entries[1]
        /\ LastEntry(p) = pages[p].entries[Len(pages[p].entries)]
    BY <2>1, <2>2, FirstRecursion, LastRecursion DEF TableOK
  <2>4. /\ Len(pages[p].entries) \in Nat \ {0}
        /\ DOMAIN pages[p].entries = 1 .. Len(pages[p].entries)
    BY <2>1, LeafEntries
  <2>5. FirstEntry(p) \in all /\ LastEntry(p) \in all
    BY <1>7, <2>3, <2>4
  <2> QED BY <2>1, <2>3, <2>4, <2>5, PageFields, PagesSpan, BelowIsClosed DEF TableOK
<1> HIDE DEF lo, values, places, e, n, all, leaf
<1>15. IF places.left = NoPlace THEN below = {}
       ELSE EntryAt(places.left) \in below /\ \A f \in below : ~KeyLess(EntryAt(places.left), f)
  <2>1. CASE lo > 0
    <3>1. lo \in 1 .. n
      BY <1>3, <1>6, <2>1
    <3>2. e[lo] \in below
      BY <1>6, <1>10, <3>1
    <3>3. ASSUME NEW f \in below PROVE ~KeyLess(e[lo], f)
      <4>1. f \in all /\ f \in Entry /\ f.value < q /\ f.value \in Int /\ ~(q <= f.value)
        BY <1>7 DEF Entry
      <4>2. CASE \E i \in 1 .. n : f = e[i]
        <5>1. PICK i \in 1 .. n : f = e[i]
          BY <4>2
        <5>2. i <= lo
          BY <1>6, <4>1, <5>1
        <5>3. i = lo \/ KeyLess(e[i], e[lo])
          BY <1>3, <3>1, <5>2
        <5> QED BY <1>3, <3>1, <5>1, <5>3, KeyLessOrder
      <4>3. CASE KeyLess(f, e[1])
        <5>1. lo = 1 \/ KeyLess(e[1], e[lo])
          BY <1>3, <1>11, <3>1
        <5> QED BY <1>3, <1>11, <3>1, <4>1, <4>3, <5>1, KeyLessOrder
      <4> QED BY <1>8, <4>1, <4>2, <4>3
    <3>4. places.left # NoPlace /\ EntryAt(places.left) = e[lo]
      BY <1>5, <1>11, <2>1 DEF EntryAt, NoPlace, e
    <3> QED BY <3>2, <3>3, <3>4
  <2>2. CASE lo = 0
    <3>1. ~(e[1].value < q) /\ e[1].value \in Int /\ e[1] \in Entry
      BY <1>3, <1>6, <1>11, <2>2 DEF Entry
    <3>2. \A f \in all : ~KeyLess(f, e[1])
      BY <1>9, <3>1
    <3>3. below = {}
      <4> SUFFICES ASSUME NEW f \in all, f.value < q PROVE FALSE
        OBVIOUS
      <4>1. f \in Entry /\ f.value \in Int
        BY <1>7 DEF Entry
      <4>2. e[1].value <= f.value
        BY <3>1, <3>2, <4>1, KeyLessOrder
      <4> QED BY <3>1, <4>1, <4>2
    <3>4. pages[leaf].previous = 0
      <4> SUFFICES ASSUME pages[leaf].previous # 0 PROVE FALSE
        OBVIOUS
      <4> DEFINE p == pages[leaf].previous
      <4>1. p \in LeavesOf(t) /\ pages[p].next = leaf
        BY <1>2 DEF LinksAgree
      <4>2. PICK k \in 1 .. m : p = c[k]
        BY <1>13, <4>1
      <4>3. k # m
        BY <1>11, <1>13, <4>1, <4>2
      <4>4. k \in 1 .. m - 1 /\ k + 1 \in 1 .. m /\ k < k + 1
        BY <1>12, <4>2, <4>3
      <4>5. leaf = c[k + 1]
        BY <1>13, <4>1, <4>2, <4>4
      <4>6. KeyLess(LastEntry(p), FirstEntry(leaf))
        BY <1>13, <4>2, <4>4, <4>5
      <4> QED BY <1>4, <1>14, <3>2, <4>1, <4>6
    <3>5. places.left = NoPlace
      BY <1>5, <2>2, <3>4 DEF PlaceLeftOf
    <3> QED BY <3>3, <3>5
  <2> QED BY <1>3, <1>6, <2>1, <2>2
<1>16. IF places.right = NoPlace THEN below = all
       ELSE /\ EntryAt(places.right) \in all \ below
            /\ \A f \in all \ below : ~KeyLess(f, EntryAt(places.right))
  <2>1. CASE lo < n
    <3>1. lo + 1 \in 1 .. n
      BY <1>3, <1>6, <2>1
    <3>2. e[lo + 1] \in all \ below
      BY <1>6, <1>10, <3>1
    <3>3. ASSUME NEW f \in all \ below PROVE ~KeyLess(f, e[lo + 1])
      <4>1. f \in all /\ f \in Entry /\ ~(f.value < q) /\ f.value \in Int
        BY <1>7 DEF Entry
      <4>2. CASE \E i \in 1 .. n : f = e[i]
        <5>1. PICK i \in 1 .. n : f = e[i]
          BY <4>2
        <5>2. ~(i <= lo)
          BY <1>6, <4>1, <5>1
        <5>3. i = lo + 1 \/ KeyLess(e[lo + 1], e[i])
          BY <1>3, <1>6, <3>1, <5>2
        <5> QED BY <1>3, <3>1, <5>1, <5>3, KeyLessOrder
      <4>3. CASE KeyLess(f, e[1])
        <5>1. e[1].value < q /\ e[1] \in Entry /\ e[1].value \in Int
          BY <1>3, <1>9, <1>11, <4>1, <4>3 DEF Entry
        <5>2. f.value <= e[1].value
          BY <4>1, <4>3, <5>1, KeyLessOrder
        <5> QED BY <4>1, <5>1, <5>2
      <4>4. CASE KeyLess(e[n], f)
        <5>1. lo + 1 = n \/ KeyLess(e[lo + 1], e[n])
          BY <1>3, <1>11, <3>1
        <5> QED BY <1>3, <1>11, <3>1, <4>1, <4>4, <5>1, KeyLessOrder
      <4> QED BY <1>8, <4>1, <4>2, <4>3, <4>4
    <3>4. places.right # NoPlace /\ EntryAt(places.right) = e[lo + 1]
      BY <1>5, <1>11, <2>1 DEF EntryAt, NoPlace, e
    <3> QED BY <3>2, <3>3, <3>4
  <2>2. CASE lo = n
    <3>1. \A i \in 1 .. n : e[i].value < q /\ e[i].value \in Int
      BY <1>3, <1>6, <2>2 DEF Entry
    <3>2. ASSUME NEW f \in all
          PROVE  f.value < q \/ (KeyLess(e[n], f) /\ q <= f.value)
      <4>1. f \in Entry /\ f.value \in Int
        BY <1>7 DEF Entry
      <4>2. KeyLess(f, e[1]) => f.value <= e[1].value
        BY <1>3, <1>11, <4>1, KeyLessOrder
      <4> QED BY <1>8, <1>11, <3>1, <4>1, <4>2
    <3>3. PICK k \in 1 .. m : leaf = c[k]
      BY <1>2, <1>13
    <3>4. CASE k = m
      <4>1. places.right = NoPlace
        <5>1. ~(lo < n) /\ pages[leaf].next = 0
          BY <1>3, <1>13, <2>2, <3>3, <3>4
        <5> QED BY <1>5, <5>1 DEF PlaceRightOf
      <4>2. ASSUME NEW f \in all PROVE f.value < q
        <5> SUFFICES ASSUME KeyLess(e[n], f) PROVE FALSE
          BY <3>2
        <5>01. PICK p \in LeavesOf(t) : \E i \in DOMAIN pages[p].entries : f = pages[p].entries[i]
          BY <1>7
        <5>1. PICK i \in DOMAIN pages[p].entries : f = pages[p].entries[i]
          BY <5>01
        <5>2. PICK j \in 1 .. m : p = c[j]
          BY <1>13
        <5>3. ~KeyLess(LastEntry(leaf), LastEntry(p))
          <6>1. j <= k
            BY <1>12, <3>4, <5>2
          <6> QED BY <1>13, <3>3, <5>2, <6>1
        <5>4. /\ ~KeyLess(LastEntry(p), f) /\ f \in Entry
              /\ LastEntry(p) \in Entry /\ LastEntry(leaf) \in Entry
          BY <1>2, <1>14, <5>1 DEF Spans
        <5>5. ~KeyLess(LastEntry(leaf), f)
          BY <5>3, <5>4, KeyLessOrder
        <5> QED BY <1>4, <5>5
      <4> QED BY <4>1, <4>2
    <3>5. CASE k # m
      <4> DEFINE p == c[k + 1]
      <4>1. k \in 1 .. m - 1 /\ k + 1 \in 1 .. m /\ k < k + 1
        BY <1>12, <3>5
      <4>2. p \in LeavesOf(t) /\ pages[leaf].next = p
        BY <1>13, <3>3, <4>1
      <4>3. KeyLess(e[n], FirstEntry(p))
        BY <1>4, <1>13, <3>3, <4>1
      <4>4. places.right = [page |-> p, index |-> 1]
        <5>1. ~(lo < n) /\ p # 0
          BY <1>3, <1>14, <2>2, <4>2
        <5> QED BY <1>5, <4>2, <5>1 DEF PlaceRightOf
      <4>5. places.right # NoPlace /\ EntryAt(places.right) = FirstEntry(p)
        BY <1>14, <4>2, <4>4 DEF EntryAt, NoPlace
      <4>6. FirstEntry(p) \in all \ below
        <5>1. FirstEntry(p) \in all /\ FirstEntry(p) \in Entry
          BY <1>7, <1>14, <4>2
        <5>2. ~(FirstEntry(p).value < q)
          <6>1. FirstEntry(p).value \in Int
            BY <5>1 DEF Entry
          <6>2. \/ \E i \in 1 .. n : FirstEntry(p) = e[i]
                \/ KeyLess(FirstEntry(p), e[1])
                \/ q <= FirstEntry(p).value
            BY <1>8, <5>1
          <6>3. ASSUME NEW i \in 1 .. n, FirstEntry(p) = e[i] PROVE FALSE
            <7>1. i = n \/ KeyLess(e[i], e[n])
              BY <1>3
            <7> QED BY <1>3, <1>11, <4>3, <5>1, <6>3, <7>1, KeyLessOrder
          <6>4. ~KeyLess(FirstEntry(p), e[1])
            <7>1. 1 = n \/ KeyLess(e[1], e[n])
              BY <1>3, <1>11
            <7> QED BY <1>3, <1>11, <4>3, <5>1, <7>1, KeyLessOrder
          <6> QED BY <6>1, <6>2, <6>3, <6>4
        <5> QED BY <5>1, <5>2
      <4>7. ASSUME NEW f \in all \ below PROVE ~KeyLess(f, FirstEntry(p))
        <5>1. KeyLess(e[n], f) /\ f \in Entry
          BY <1>7, <3>2
        <5>02. PICK r \in LeavesOf(t) : \E i \in DOMAIN pages[r].entries : f = pages[r].entries[i]
          BY <1>7
        <5>2. PICK i \in DOMAIN pages[r].entries : f = pages[r].entries[i]
          BY <5>02
        <5>3. PICK j \in 1 .. m : r = c[j]
          BY <1>13
        <5>4. Spans(r) /\ r \in Below(r) /\ Leaf(r) /\ Spans(p)
          BY <1>14, <4>2
        <5>5. /\ ~KeyLess(LastEntry(r), f) /\ ~KeyLess(f, FirstEntry(r))
              /\ LastEntry(r) \in Entry /\ FirstEntry(r) \in Entry /\ FirstEntry(p) \in Entry
          BY <5>2, <5>4 DEF Spans
        <5>6. ~(j <= k)
          <6> SUFFICES ASSUME j <= k PROVE FALSE
            OBVIOUS
          <6>1. ~KeyLess(LastEntry(leaf), LastEntry(r))
            BY <1>13, <3>3, <5>3
          <6>2. LastEntry(leaf) \in Entry
            BY <1>2 DEF Spans
          <6> QED BY <1>4, <5>1, <5>5, <6>1, <6>2, KeyLessOrder
        <5>7. k + 1 <= j
          BY <4>1, <5>3, <5>6
        <5>8. ~KeyLess(FirstEntry(r), FirstEntry(p))
          BY <1>13, <4>1, <5>3, <5>7
        <5> HIDE DEF p
        <5> QED BY <5>1, <5>5, <5>8, KeyLessOrder
      <4> QED BY <4>5, <4>6, <4>7
    <3> QED BY <3>4, <3>5
  <2> QED BY <1>3, <1>6, <2>1, <2>2
<1> QED BY <1>15, <1>16 DEF PlacesAreExact, places, all

-----------------------------------------------------------------------------
(* What SortTables made of the projections. *)

RankIn(S, e) == Cardinality({f \in S : KeyLess(f, e)})

LEMMA RanksAreOnto ==
  ASSUME NEW S \in SUBSET Entry, IsFiniteSet(S), NEW n, n = Cardinality(S)
  PROVE  /\ n \in Nat
         /\ \A e, f \in S : KeyLess(e, f) => RankIn(S, e) < RankIn(S, f)
         /\ \A k \in 0 .. n - 1 : \E e \in S : RankIn(S, e) = k
<1> DEFINE before(e) == {f \in S : KeyLess(f, e)}
           rank == [e \in S |-> RankIn(S, e)]
<1>1. n \in Nat
  BY FS_CardinalityType
<1>2. ASSUME NEW e \in S PROVE IsFiniteSet(before(e)) /\ RankIn(S, e) \in 0 .. n - 1
  <2>1. e \notin before(e) /\ before(e) \in SUBSET S
    BY KeyLessOrder
  <2>2. IsFiniteSet(before(e))
    BY <2>1, FS_Subset
  <2>3. before(e) \cup {e} \in SUBSET S
    BY <2>1
  <2>4. Cardinality(before(e) \cup {e}) = Cardinality(before(e)) + 1
    <3> HIDE DEF before
    <3> QED BY <2>1, <2>2, FS_AddElement
  <2>5. Cardinality(before(e) \cup {e}) <= n
    <3> HIDE DEF before
    <3> QED BY <2>3, FS_Subset
  <2>6. Cardinality(before(e)) \in Nat
    BY <2>2, FS_CardinalityType
  <2>7. RankIn(S, e) = Cardinality(before(e))
    BY DEF RankIn
  <2> HIDE DEF before
  <2> QED BY <1>1, <2>2, <2>4, <2>5, <2>6, <2>7
<1>3. ASSUME NEW e \in S, NEW f \in S, KeyLess(e, f) PROVE RankIn(S, e) < RankIn(S, f)
  <2>1. before(e) \in SUBSET before(f) /\ e \in before(f) /\ e \notin before(e)
    <3>1. \A g \in S : KeyLess(g, e) => KeyLess(g, f)
      BY <1>3, KeyLessOrder
    <3> QED BY <1>3, <3>1, KeyLessOrder
  <2>2. RankIn(S, e) = Cardinality(before(e)) /\ RankIn(S, f) = Cardinality(before(f))
    BY DEF RankIn
  <2>3. IsFiniteSet(before(e)) /\ IsFiniteSet(before(f))
    BY <1>2
  <2> HIDE DEF before
  <2>4. Cardinality(before(e) \cup {e}) = Cardinality(before(e)) + 1
    BY <2>1, <2>3, FS_AddElement
  <2>5. Cardinality(before(e) \cup {e}) <= Cardinality(before(f))
    <3>1. before(e) \cup {e} \in SUBSET before(f)
      BY <2>1
    <3> QED BY <2>3, <3>1, FS_Subset
  <2>6. RankIn(S, e) \in 0 .. n - 1 /\ RankIn(S, f) \in 0 .. n - 1
    BY <1>2
  <2> QED BY <2>2, <2>4, <2>5, <2>6
<1>4. rank \in Injection(S, 0 .. n - 1)
  <2>1. rank \in [S -> 0 .. n - 1]
    BY <1>2
  <2>2. ASSUME NEW e \in S, NEW f \in S, rank[e] = rank[f] PROVE e = f
    <3>1. RankIn(S, e) = RankIn(S, f) /\ RankIn(S, e) \in Int
      <4>1. RankIn(S, e) = RankIn(S, f)
        BY <2>2
      <4>2. RankIn(S, e) \in 0 .. n - 1
        BY <1>2
      <4> QED BY <1>1, <4>1, <4>2
    <3>2. ~KeyLess(e, f) /\ ~KeyLess(f, e)
      <4>1. ~(RankIn(S, e) < RankIn(S, f)) /\ ~(RankIn(S, f) < RankIn(S, e))
        BY <3>1
      <4> QED BY <1>3, <4>1
    <3> QED BY <3>2, KeyLessOrder
  <2> QED BY <2>1, <2>2 DEF Injection, IsInjective
<1>5. IsFiniteSet(0 .. n - 1) /\ Cardinality(0 .. n - 1) = n
  <2>1. 0 \in Int /\ n - 1 \in Int /\ (0 > n - 1 <=> n = 0) /\ n - 1 - 0 + 1 = n
    BY <1>1
  <2> QED BY <2>1, FS_Interval
<1>6. rank \in Surjection(S, 0 .. n - 1)
  <2> HIDE DEF rank
  <2> QED BY <1>4, <1>5, FS_Injection
<1>7. \A k \in 0 .. n - 1 : \E e \in S : RankIn(S, e) = k
  BY <1>6 DEF Surjection
<1> QED BY <1>1, <1>3, <1>7

\* One table of the index: sorted, one entry for each point.
SortedTable(s, n) ==
    /\ s \in [1 .. n -> Entry]
    /\ \A i, j \in 1 .. n : i < j => KeyLess(s[i], s[j])
    /\ \A i, j \in 1 .. n : s[i].id = s[j].id => i = j

\* Sorted sorts, and adds no value.
LEMMA SortedIsSorted ==
  ASSUME NEW projected \in Seq(ValueRange)
  PROVE  /\ SortedTable(Sorted(projected), Len(projected))
         /\ \A i \in 1 .. Len(projected) : Sorted(projected)[i].value \in ValueRange
<1> DEFINE n == Len(projected)
           record == [p \in 1 .. n |-> [value |-> projected[p], id |-> p]]
           all == {[value |-> projected[p], id |-> p] : p \in DOMAIN projected}
           s == Sorted(projected)
<1>1. /\ n \in Nat /\ DOMAIN projected = 1 .. n
      /\ \A p \in 1 .. n : projected[p] \in Int /\ projected[p] \in ValueRange
  <2>1. n \in Nat /\ DOMAIN projected = 1 .. n /\ \A p \in 1 .. n : projected[p] \in ValueRange
    BY LenProperties
  <2>2. ValueRange \subseteq Int
    BY BPlusTreeAssumption
  <2> QED BY <2>1, <2>2
<1>2. all \in SUBSET Entry
  BY <1>1 DEF Entry
<1>3. \A e, f \in all : e.id = f.id => e = f
  OBVIOUS
<1>4. \A e \in all : e.value \in ValueRange
  BY <1>1
<1>5. IsFiniteSet(all) /\ Cardinality(all) = n
  <2>1. record \in Bijection(1 .. n, all)
    <3>1. record \in Injection(1 .. n, all)
      BY <1>1 DEF Injection, IsInjective
    <3>2. record \in Surjection(1 .. n, all)
      BY <1>1 DEF Surjection
    <3> QED BY <3>1, <3>2 DEF Bijection
  <2>2. ExistsBijection(1 .. n, all)
    <3> HIDE DEF record
    <3> QED BY <2>1 DEF ExistsBijection
  <2> HIDE DEF all, record
  <2> QED BY <1>1, <2>2, CountUpTo, FS_Bijection
<1>6. s = [i \in 1 .. n |-> CHOOSE e \in all : RankIn(all, e) = i - 1]
  BY <1>1 DEF Sorted, RankIn
<1> HIDE DEF all, s
<1>7. ASSUME NEW i \in 1 .. n PROVE s[i] \in all /\ RankIn(all, s[i]) = i - 1
  <2>1. i - 1 \in 0 .. n - 1
    BY <1>1
  <2>2. \E e \in all : RankIn(all, e) = i - 1
    BY <1>2, <1>5, <2>1, RanksAreOnto
  <2>3. s[i] = CHOOSE e \in all : RankIn(all, e) = i - 1
    BY <1>6
  <2> QED BY <2>2, <2>3
<1>8. ASSUME NEW i \in 1 .. n, NEW j \in 1 .. n, i < j PROVE KeyLess(s[i], s[j])
  <2>1. s[i] \in all /\ s[j] \in all /\ RankIn(all, s[i]) = i - 1 /\ RankIn(all, s[j]) = j - 1
    BY <1>7
  <2>2. RankIn(all, s[i]) # RankIn(all, s[j]) /\ ~(RankIn(all, s[j]) < RankIn(all, s[i]))
    BY <1>8, <2>1
  <2>3. s[i] # s[j] /\ ~KeyLess(s[j], s[i])
    BY <1>2, <1>5, <2>1, <2>2, RanksAreOnto
  <2> QED BY <1>2, <2>1, <2>3, KeyLessOrder
<1>9. ASSUME NEW i \in 1 .. n, NEW j \in 1 .. n, s[i].id = s[j].id PROVE i = j
  <2>1. s[i] = s[j]
    BY <1>3, <1>7, <1>9
  <2>2. i - 1 = j - 1
    BY <1>7, <2>1
  <2> QED BY <2>2
<1>10. s \in [1 .. n -> Entry]
  BY <1>2, <1>6, <1>7
<1>11. \A i \in 1 .. n : s[i].value \in ValueRange
  BY <1>7, <1>4
<1> QED BY <1>8, <1>9, <1>10, <1>11 DEF SortedTable, s

\* The tables of an index.
TablesOK ==
    /\ entries \in Seq(Seq(Entry))
    /\ Len(entries) > 0
    /\ NumPoints \in Nat \ {0}
    /\ \A t \in Table : Len(entries[t]) = NumPoints /\ SortedTable(entries[t], NumPoints)

LEMMA InitTables ==
  ASSUME InitTree
  PROVE  TablesOK
<1>1. PICK input \in Inputs : entries = [t \in DOMAIN input |-> Sorted(input[t])]
  BY DEF InitTree
<1>2. /\ input \in Seq(Seq(ValueRange)) /\ input # <<>>
      /\ \A t \in DOMAIN input : Len(input[t]) = Len(input[1]) /\ input[t] # <<>>
  BY BPlusTreeAssumption
<1>3. /\ Len(input) \in Nat \ {0} /\ DOMAIN input = 1 .. Len(input)
      /\ \A t \in DOMAIN input : input[t] \in Seq(ValueRange)
  BY <1>2, EmptySeq, LenProperties
<1> DEFINE n == Len(input[1])
<1>4. n \in Nat \ {0}
  <2>1. 1 \in DOMAIN input
    BY <1>3
  <2>2. input[1] \in Seq(ValueRange) /\ input[1] # <<>>
    BY <1>2, <1>3, <2>1
  <2> QED BY <2>2, EmptySeq
<1> HIDE DEF n
<1>5. ASSUME NEW t \in DOMAIN input
      PROVE  SortedTable(Sorted(input[t]), n) /\ Sorted(input[t]) \in Seq(Entry) /\ Len(Sorted(input[t])) = n
  <2>1. SortedTable(Sorted(input[t]), n)
    BY <1>2, <1>3, SortedIsSorted DEF n
  <2>2. Sorted(input[t]) \in [1 .. n -> Entry]
    BY <2>1 DEF SortedTable
  <2> QED BY <1>4, <2>1, <2>2
<1>6. entries \in Seq(Seq(Entry)) /\ Len(entries) = Len(input) /\ Table = DOMAIN input
      /\ \A t \in Table : entries[t] = Sorted(input[t])
  <2>1. entries \in [1 .. Len(input) -> Seq(Entry)]
    BY <1>1, <1>3, <1>5
  <2> QED BY <1>1, <1>3, <2>1 DEF Table
<1>7. NumPoints = n
  <2>1. 1 \in DOMAIN input
    BY <1>3
  <2> QED BY <1>5, <1>6, <2>1 DEF NumPoints
<1> QED BY <1>3, <1>4, <1>5, <1>6, <1>7 DEF TablesOK

-----------------------------------------------------------------------------
(* How a level is divided among the pages above it. *)

Parents(size) == CeilDiv(size, InternalCapacity)
GroupEnd(size, g) == g * (size \div Parents(size)) + SmallerOf(g, size % Parents(size))

LEMMA CeilDivBounds ==
  ASSUME NEW a \in Nat \ {0}, NEW b \in Nat \ {0}
  PROVE  /\ CeilDiv(a, b) \in Nat \ {0}
         /\ CeilDiv(a, b) * b >= a
         /\ (CeilDiv(a, b) - 1) * b < a
<1> DEFINE s == a + b - 1
           q == s \div b
           r == s % b
<1>1. s \in Nat /\ s = a + (b - 1)
  OBVIOUS
<1> HIDE DEF s
<1>2. q \in Nat /\ r \in 0 .. b - 1 /\ s = b * q + r
  BY <1>1
<1>3. CeilDiv(a, b) = q
  BY DEF CeilDiv, s
<1> HIDE DEF q, r
<1>4. b * q = q * b /\ (q - 1) * b = q * b - b /\ q * b \in Nat
  BY <1>2
<1>5. q # 0
  <2> SUFFICES ASSUME q = 0 PROVE FALSE
    OBVIOUS
  <2>1. b * q = 0
    OBVIOUS
  <2> QED BY <1>1, <1>2, <2>1
<1> DEFINE x == q * b
           y == (q - 1) * b
<1>6. x \in Nat /\ y = x - b /\ s = x + r
  BY <1>2, <1>4
<1> HIDE DEF x, y
<1>7. x >= a /\ y < a
  BY <1>1, <1>2, <1>6
<1> QED BY <1>2, <1>3, <1>5, <1>7 DEF x, y

LEMMA LevelDivides ==
  ASSUME NEW size \in Nat, size > 1
  PROVE  /\ Parents(size) \in Nat \ {0}
         /\ size \div Parents(size) >= 2
         /\ size \div Parents(size) \in Nat
         /\ size % Parents(size) \in 0 .. Parents(size) - 1
         /\ size = Parents(size) * (size \div Parents(size)) + (size % Parents(size))
         /\ size \div Parents(size) <= InternalCapacity
         /\ size % Parents(size) > 0 => size \div Parents(size) < InternalCapacity
<1> DEFINE K == InternalCapacity
           n == Parents(size)
           base == size \div n
           extra == size % n
<1>1. K \in Nat /\ K >= 3
  BY BPlusTreeAssumption
<1>2. n \in Nat \ {0} /\ n * K >= size /\ (n - 1) * K < size
  <2>1. size \in Nat \ {0} /\ K \in Nat \ {0}
    BY <1>1
  <2> HIDE DEF K
  <2> QED BY <2>1, CeilDivBounds DEF Parents, K
<1> HIDE DEF n, K
<1>3. base \in Nat /\ extra \in 0 .. n - 1 /\ size = n * base + extra
  BY <1>2
<1> HIDE DEF base, extra
<1>4. size >= 2 * n
  <2>1. CASE n = 1
    BY <2>1
  <2>2. CASE n >= 2
    <3>1. (n - 1) * K >= (n - 1) * 3
      BY <1>1, <1>2
    <3> DEFINE y == (n - 1) * K
    <3>2. y \in Int /\ y >= 3 * n - 3 /\ y < size
      BY <1>1, <1>2, <3>1
    <3> HIDE DEF y
    <3> QED BY <1>2, <2>2, <3>2
  <2> QED BY <1>2, <2>1, <2>2
<1>5. base >= 2
  <2> SUFFICES ASSUME base <= 1 PROVE FALSE
    BY <1>3
  <2>1. n * base <= n
    <3>1. base = 0 \/ base = 1
      BY <1>3
    <3> QED BY <1>2, <3>1
  <2> DEFINE x == n * base
  <2>2. x \in Int /\ x <= n
    BY <1>2, <1>3, <2>1
  <2> HIDE DEF x
  <2>3. size = x + extra
    BY <1>3 DEF x
  <2> QED BY <1>2, <1>3, <1>4, <2>2, <2>3
<1>6. ASSUME base > K \/ (base = K /\ extra > 0) PROVE FALSE
  <2> DEFINE x == n * base
             y == n * K
  <2>1. x \in Int /\ y \in Int /\ size = x + extra /\ y >= size
    BY <1>1, <1>2, <1>3
  <2>2. CASE base = K /\ extra > 0
    <3>1. x = y
      BY <2>2
    <3> HIDE DEF x, y
    <3> QED BY <1>3, <2>1, <2>2, <3>1
  <2>3. CASE base > K
    <3>1. x >= n * (K + 1)
      BY <1>1, <1>2, <1>3, <2>3
    <3>2. n * (K + 1) = y + n
      BY <1>1, <1>2
    <3> HIDE DEF x, y
    <3> QED BY <1>2, <1>3, <2>1, <3>1, <3>2
  <2> QED BY <1>6, <2>2, <2>3
<1>7. base <= K /\ (extra > 0 => base < K)
  BY <1>1, <1>3, <1>6
<1> QED BY <1>2, <1>3, <1>5, <1>7 DEF n, base, extra, K

LEMMA GroupsDivide ==
  ASSUME NEW size \in Nat, size > 1
  PROVE  /\ GroupEnd(size, 0) = 0
         /\ GroupEnd(size, Parents(size)) = size
         /\ \A g \in 1 .. Parents(size) :
              /\ GroupEnd(size, g - 1) \in 0 .. size
              /\ GroupEnd(size, g) \in 0 .. size
              /\ GroupEnd(size, g) - GroupEnd(size, g - 1) \in 2 .. InternalCapacity
              /\ Group(size, g) = GroupEnd(size, g - 1) + 1 .. GroupEnd(size, g)
<1> DEFINE K == InternalCapacity
           n == Parents(size)
           base == size \div n
           extra == size % n
<1>1. /\ n \in Nat \ {0} /\ base \in Nat /\ base >= 2 /\ extra \in 0 .. n - 1
      /\ size = n * base + extra /\ base <= K /\ (extra > 0 => base < K) /\ K \in Nat
  BY LevelDivides, BPlusTreeAssumption
<1>2. \A g : GroupEnd(size, g) = g * base + SmallerOf(g, extra)
  BY DEF GroupEnd
<1>3. \A g : Group(size, g) = (g - 1) * base + SmallerOf(g - 1, extra) + 1 .. g * base + SmallerOf(g, extra)
  BY DEF Group, Parents
<1> HIDE DEF base, extra, n, K
<1>4. GroupEnd(size, 0) = 0
  BY <1>1, <1>2 DEF SmallerOf
<1>5. GroupEnd(size, n) = size
  BY <1>1, <1>2 DEF SmallerOf
<1>6. ASSUME NEW g \in 0 .. n PROVE GroupEnd(size, g) \in 0 .. size
  <2>1. g * base \in Nat /\ SmallerOf(g, extra) \in 0 .. extra
    BY <1>1 DEF SmallerOf
  <2>2. g * base <= n * base
    BY <1>1
  <2> DEFINE x == g * base
             y == n * base
  <2>3. x \in Nat /\ y \in Nat /\ x <= y /\ size = y + extra /\ GroupEnd(size, g) = x + SmallerOf(g, extra)
    BY <1>1, <1>2, <2>1, <2>2
  <2> HIDE DEF x, y
  <2> QED BY <1>1, <2>1, <2>3
<1>7. ASSUME NEW g \in 1 .. n PROVE GroupEnd(size, g) - GroupEnd(size, g - 1) \in 2 .. K
  <2> DEFINE x == g * base
             y == (g - 1) * base
  <2>1. x \in Int /\ y \in Int /\ x = y + base
    BY <1>1
  <2>2. /\ SmallerOf(g, extra) \in Int /\ SmallerOf(g - 1, extra) \in Int
        /\ \/ SmallerOf(g, extra) = SmallerOf(g - 1, extra)
           \/ SmallerOf(g, extra) = SmallerOf(g - 1, extra) + 1 /\ extra > 0
    BY <1>1 DEF SmallerOf
  <2>3. GroupEnd(size, g) = x + SmallerOf(g, extra) /\ GroupEnd(size, g - 1) = y + SmallerOf(g - 1, extra)
    BY <1>2
  <2> HIDE DEF x, y
  <2> QED BY <1>1, <2>1, <2>2, <2>3
<1>8. ASSUME NEW g \in 1 .. n
      PROVE  /\ GroupEnd(size, g - 1) \in 0 .. size
             /\ GroupEnd(size, g) \in 0 .. size
             /\ Group(size, g) = GroupEnd(size, g - 1) + 1 .. GroupEnd(size, g)
  <2>1. g \in 0 .. n /\ g - 1 \in 0 .. n
    BY <1>1
  <2>2. Group(size, g) = GroupEnd(size, g - 1) + 1 .. GroupEnd(size, g)
    BY <1>2, <1>3
  <2> QED BY <1>6, <2>1, <2>2
<1> QED BY <1>4, <1>5, <1>7, <1>8 DEF n, K

\* The pages of a level that the g-th parent gets.
LEMMA ParentShape ==
  ASSUME NEW size \in Nat, size > 1, Len(level) = size, NEW g \in 1 .. Parents(size)
  PROVE  LET before == GroupEnd(size, g - 1)
             count == GroupEnd(size, g) - GroupEnd(size, g - 1)
         IN  /\ before \in 0 .. size /\ before + count \in 0 .. size
             /\ count \in 2 .. InternalCapacity
             /\ FirstOf(size, g) = before + 1
             /\ Parent(g) = InternalPage([i \in 1 .. count |-> level[before + i].page],
                                         [i \in 1 .. count - 1 |-> level[before + i + 1].key])
<1> DEFINE before == GroupEnd(size, g - 1)
           end == GroupEnd(size, g)
           count == end - before
<1>1. /\ before \in 0 .. size /\ end \in 0 .. size /\ count \in 2 .. InternalCapacity
      /\ Group(size, g) = before + 1 .. end
  BY GroupsDivide
<1> HIDE DEF before, end
<1>2. before \in Int /\ end \in Int /\ before + count = end /\ before + 1 <= end
  BY <1>1
<1>3. FirstOf(size, g) = before + 1
  <2> DEFINE P(i) == \A j \in Group(size, g) : i <= j
  <2>1. before + 1 \in Group(size, g) /\ P(before + 1)
    BY <1>1, <1>2
  <2>2. ASSUME NEW i \in Group(size, g), P(i) PROVE i = before + 1
    <3>1. i <= before + 1
      BY <2>1, <2>2
    <3>2. i \in Int /\ before + 1 <= i
      BY <1>1, <1>2
    <3> QED BY <1>2, <3>1, <3>2
  <2>3. FirstOf(size, g) = CHOOSE i \in Group(size, g) : P(i)
    BY DEF FirstOf
  <2> HIDE DEF P
  <2> QED BY <2>1, <2>2, <2>3
<1>4. Cardinality(Group(size, g)) = count
  <2>1. before + 1 \in Int /\ ~(before + 1 > end) /\ end - (before + 1) + 1 = count
    BY <1>2
  <2>2. Cardinality(before + 1 .. end) = end - (before + 1) + 1
    BY <1>2, <2>1, FS_Interval
  <2> QED BY <1>1, <2>1, <2>2
<1>5. FirstOf(size, g) - 1 = before
  BY <1>2, <1>3
<1> HIDE DEF count
<1>6. Parent(g) = InternalPage([i \in 1 .. count |-> level[before + i].page],
                               [i \in 1 .. count - 1 |-> level[before + i + 1].key])
  BY <1>4, <1>5 DEF Parent
<1> QED BY <1>1, <1>2, <1>3, <1>6 DEF before, end, count

-----------------------------------------------------------------------------
(* Types, through building, damage and opening. *)

LevelItems(n) == [page : 1 .. n, key : Int]

TreeTypes ==
    /\ TablesOK
    /\ pc \in {"leaves", "levels", "failed", "written", "open", "rejected"}
    /\ pages \in Seq(Pages(Len(pages)))
    /\ roots \in Seq(1 .. Len(pages))
    /\ damages \in Nat
    /\ level \in Seq(LevelItems(Len(pages)))
    /\ pc \in {"leaves", "levels", "failed"} => Len(roots) < Len(entries)
    /\ pc \in {"written", "open", "rejected"} => Len(roots) = Len(entries)

LEMMA PagesGrow ==
  ASSUME NEW n \in Nat, NEW m \in Nat, n <= m
  PROVE  Pages(n) \subseteq Pages(m) /\ LevelItems(n) \subseteq LevelItems(m) /\ 1 .. n \subseteq 1 .. m
<1>1. 1 .. n \subseteq 1 .. m /\ 0 .. n \subseteq 0 .. m
  OBVIOUS
<1>2. \A s \in Seq(1 .. n) : s \in Seq(1 .. m)
  BY <1>1, SeqMonotonic
<1> QED BY <1>1, <1>2 DEF Pages, LeafPages, InternalPages, LevelItems

LEMMA TypedPage ==
  ASSUME NEW n, NEW page \in Pages(n)
  PROVE  /\ page.previous \in 0 .. n /\ page.next \in 0 .. n
         /\ \/ page.kind = "leaf" /\ page.entries \in Seq(Entry) /\ page \in LeafPages(n)
            \/ page.kind = "internal" /\ page.children \in Seq(1 .. n)
               /\ page.separators \in Seq(Int) /\ Len(page.children) = Len(page.separators) + 1
               /\ page \in InternalPages(n)
BY DEF Pages, LeafPages, InternalPages

LEMMA RelinkedPage ==
  ASSUME NEW n, NEW page \in Pages(n), NEW q \in 0 .. n
  PROVE  [page EXCEPT !.previous = q] \in Pages(n) /\ [page EXCEPT !.next = q] \in Pages(n)
BY DEF Pages, LeafPages, InternalPages

\* The entries of the next leaf.
LeafContent(all, k) ==
    SubSeq(all, (k - 1) * LeafCapacity + 1, SmallerOf((k - 1) * LeafCapacity + LeafCapacity, Len(all)))

LeafHolds(content, all, n, k) ==
    LET begin == (k - 1) * LeafCapacity
        count == SmallerOf(begin + LeafCapacity, n) - begin
    IN  /\ begin \in Nat /\ count \in 1 .. LeafCapacity /\ begin + count <= n
        /\ content \in Seq(Entry)
        /\ Len(content) = count
        /\ \A i \in 1 .. count : content[i] = all[begin + i]
        /\ begin + LeafCapacity < n => count = LeafCapacity
        /\ begin + LeafCapacity >= n => begin + count = n

LEMMA LeafContentIs ==
  ASSUME NEW n \in Nat \ {0}, NEW all \in Seq(Entry), Len(all) = n,
         NEW k \in Nat \ {0}, (k - 1) * LeafCapacity < n
  PROVE  LeafHolds(LeafContent(all, k), all, n, k)
<1> DEFINE begin == (k - 1) * LeafCapacity
           end == SmallerOf(begin + LeafCapacity, n)
           count == end - begin
<1>1. LeafCapacity \in Nat \ {0} /\ begin \in Nat
  BY BPlusTreeAssumption
<1> HIDE DEF begin
<1>2. /\ end \in 1 .. n /\ count \in 1 .. LeafCapacity /\ begin + count = end /\ end <= n
      /\ (begin + LeafCapacity < n => count = LeafCapacity)
      /\ (begin + LeafCapacity >= n => begin + count = n)
  BY <1>1 DEF SmallerOf, begin
<1>3. LeafContent(all, k) = SubSeq(all, begin + 1, end)
  BY DEF LeafContent, begin
<1> HIDE DEF end, count
<1>4. \A i \in begin + 1 .. end : all[i] \in Entry
  BY <1>1, <1>2
<1>5. begin + 1 \in Int /\ end \in Int /\ begin + 1 <= end /\ end - (begin + 1) + 1 = count
  BY <1>1, <1>2 DEF count
<1>6. /\ SubSeq(all, begin + 1, end) \in Seq(Entry)
      /\ Len(SubSeq(all, begin + 1, end)) = IF begin + 1 <= end THEN end - (begin + 1) + 1 ELSE 0
      /\ \A i \in 1 .. end - (begin + 1) + 1 : SubSeq(all, begin + 1, end)[i] = all[begin + 1 + i - 1]
  BY <1>4, <1>5, SubSeqProperties
<1>7. \A i \in 1 .. count : begin + 1 + i - 1 = begin + i
  BY <1>1, <1>2
<1>8. /\ LeafContent(all, k) \in Seq(Entry) /\ Len(LeafContent(all, k)) = count
      /\ \A i \in 1 .. count : LeafContent(all, k)[i] = all[begin + i]
  BY <1>3, <1>5, <1>6, <1>7
<1> QED BY <1>1, <1>2, <1>8 DEF begin, count, end, LeafHolds

LEMMA TypesOfLeafStep ==
  ASSUME TreeTypes, AddLeaf
  PROVE  TreeTypes'
<1> DEFINE all == entries[Len(roots) + 1]
           begin == Len(level) * LeafCapacity
           k == Len(level) + 1
           content == SubSeq(all, begin + 1, SmallerOf(begin + LeafCapacity, Len(all)))
           last == IF level = <<>> THEN 0 ELSE level[Len(level)].page
           id == Len(pages) + 1
           linked == [p \in PageId |-> IF p = last THEN [pages[p] EXCEPT !.next = id] ELSE pages[p]]
           N == Len(pages)
<1>1. /\ pc = "leaves" /\ begin < Len(all)
      /\ pages' = Append(linked, LeafPage(content, last))
      /\ level' = Append(level, [page |-> id, key |-> content[1].value])
      /\ pc' = (IF begin + LeafCapacity >= Len(all) THEN "levels" ELSE pc)
      /\ UNCHANGED <<entries, roots, damages>>
  BY DEF AddLeaf
<1>2. /\ N \in Nat /\ PageId = 1 .. N /\ Len(level) \in Nat /\ Len(roots) \in Nat
      /\ Len(roots) + 1 \in Table /\ \A p \in PageId : pages[p] \in Pages(N)
  <2>1. N \in Nat /\ PageId = 1 .. N /\ \A p \in PageId : pages[p] \in Pages(N)
    BY LenProperties DEF TreeTypes, PageId
  <2>2. Len(level) \in Nat /\ Len(roots) \in Nat /\ Len(roots) < Len(entries)
    BY <1>1 DEF TreeTypes
  <2>3. Len(entries) \in Nat /\ Table = 1 .. Len(entries)
    BY DEF TreeTypes, TablesOK, Table
  <2>4. Len(roots) + 1 \in Table
    BY <2>2, <2>3
  <2> QED BY <2>1, <2>2, <2>4
<1>3. last \in 0 .. N
  <2>1. CASE level = <<>>
    BY <1>2, <2>1
  <2>2. CASE level # <<>>
    <3>1. Len(level) \in 1 .. Len(level)
      BY <2>2, EmptySeq DEF TreeTypes
    <3>2. level[Len(level)] \in LevelItems(N)
      BY <3>1 DEF TreeTypes
    <3> QED BY <1>2, <2>2, <3>2 DEF LevelItems
  <2> QED BY <2>1, <2>2
<1>4. /\ all \in Seq(Entry) /\ Len(all) = NumPoints /\ NumPoints \in Nat \ {0}
  BY <1>2 DEF TreeTypes, TablesOK, Table
<1>5. content \in Seq(Entry) /\ content[1].value \in Int
  <2>1. k \in Nat \ {0} /\ k - 1 = Len(level)
    BY <1>2
  <2>2. content = LeafContent(all, k)
    BY <2>1 DEF LeafContent
  <2>3. (k - 1) * LeafCapacity < NumPoints
    BY <1>1, <1>4, <2>1
  <2> HIDE DEF content, all, k
  <2>4. LeafContent(all, k) \in Seq(Entry) /\ Len(LeafContent(all, k)) \in Nat \ {0}
    <3>1. LeafHolds(LeafContent(all, k), all, NumPoints, k)
      BY <1>4, <2>1, <2>3, LeafContentIs
    <3> QED BY <3>1, BPlusTreeAssumption DEF LeafHolds
  <2>5. content[1] \in Entry
    BY <2>2, <2>4
  <2> QED BY <2>2, <2>4, <2>5 DEF Entry
<1> HIDE DEF content, last, all, begin, k
<1>6. /\ id \in Nat /\ N <= id /\ Pages(N) \subseteq Pages(id)
      /\ LevelItems(N) \subseteq LevelItems(id) /\ 1 .. N \subseteq 1 .. id
  BY <1>2, PagesGrow
<1>7. linked \in Seq(Pages(id)) /\ Len(linked) = N
  <2>1. \A p \in 1 .. N : linked[p] \in Pages(id)
    <3>1. id \in 0 .. id
      BY <1>6
    <3> QED BY <1>2, <1>6, <3>1, RelinkedPage
  <2>2. linked \in [1 .. N -> Pages(id)]
    BY <1>2, <2>1
  <2> QED BY <1>2, <2>2
<1>8. LeafPage(content, last) \in Pages(id)
  <2>1. last \in 0 .. id /\ 0 \in 0 .. id
    BY <1>2, <1>3
  <2> QED BY <1>5, <2>1 DEF LeafPage, Pages, LeafPages
<1> HIDE DEF linked
<1>9. pages' \in Seq(Pages(id)) /\ Len(pages') = id
  BY <1>1, <1>7, <1>8
<1>10. roots' \in Seq(1 .. id)
  BY <1>1, <1>6, SeqMonotonic DEF TreeTypes
<1>11. level' \in Seq(LevelItems(id))
  <2>1. level \in Seq(LevelItems(id))
    BY <1>6, SeqMonotonic DEF TreeTypes
  <2>2. [page |-> id, key |-> content[1].value] \in LevelItems(id)
    BY <1>2, <1>5 DEF LevelItems
  <2> QED BY <1>1, <2>1, <2>2
<1>12. TablesOK'
  BY <1>1 DEF TreeTypes, TablesOK, Table, NumPoints
<1> QED BY <1>1, <1>9, <1>10, <1>11, <1>12 DEF TreeTypes

\* A parent of pages of the level.
LEMMA ParentIsPage ==
  ASSUME NEW n \in Nat, level \in Seq(LevelItems(n)), Len(level) > 1,
         NEW g \in 1 .. Parents(Len(level))
  PROVE  Parent(g) \in InternalPages(n)
<1> DEFINE size == Len(level)
           before == GroupEnd(size, g - 1)
           count == GroupEnd(size, g) - GroupEnd(size, g - 1)
           children == [i \in 1 .. count |-> level[before + i].page]
           separators == [i \in 1 .. count - 1 |-> level[before + i + 1].key]
<1>1. size \in Nat /\ \A i \in 1 .. size : level[i].page \in 1 .. n /\ level[i].key \in Int
  <2>1. size \in Nat /\ \A i \in 1 .. size : level[i] \in LevelItems(n)
    BY LenProperties
  <2> QED BY <2>1 DEF LevelItems
<1>2. /\ before \in 0 .. size /\ before + count \in 0 .. size /\ count \in 2 .. InternalCapacity
      /\ Parent(g) = InternalPage(children, separators)
  BY <1>1, ParentShape
<1> HIDE DEF before, count, size
<1>3. count \in Nat /\ count - 1 \in Nat /\ before \in Nat
  BY <1>2, BPlusTreeAssumption
<1>4. \A i \in 1 .. count : before + i \in 1 .. size
  BY <1>1, <1>2, <1>3
<1>5. \A i \in 1 .. count - 1 : before + i + 1 \in 1 .. size
  BY <1>1, <1>2, <1>3
<1>6. children \in Seq(1 .. n) /\ Len(children) = count
  <2>1. children \in [1 .. count -> 1 .. n]
    BY <1>1, <1>4
  <2> HIDE DEF children
  <2> QED BY <1>3, <2>1
<1>7. separators \in Seq(Int) /\ Len(separators) = count - 1
  <2>1. separators \in [1 .. count - 1 -> Int]
    BY <1>1, <1>5
  <2> HIDE DEF separators
  <2> QED BY <1>3, <2>1
<1> HIDE DEF children, separators
<1>8. Len(children) = Len(separators) + 1
  BY <1>3, <1>6, <1>7
<1> QED BY <1>2, <1>6, <1>7, <1>8 DEF InternalPage, InternalPages

LEMMA TypesOfLevelStep ==
  ASSUME TreeTypes, AddLevel
  PROVE  TreeTypes' /\ pc' = pc
<1> DEFINE size == Len(level)
           groups == Parents(size)
           N == Len(pages)
           parents == [g \in 1 .. groups |-> Parent(g)]
           items == [g \in 1 .. groups |-> [page |-> N + g, key |-> level[FirstOf(size, g)].key]]
<1>1. /\ size \in Nat /\ size > 1 /\ N \in Nat
      /\ \A i \in 1 .. size : level[i].key \in Int
      /\ pc = "levels"
  <2>1. size \in Nat /\ N \in Nat /\ \A i \in 1 .. size : level[i] \in LevelItems(N)
    BY LenProperties DEF TreeTypes
  <2> HIDE DEF N
  <2> QED BY <2>1 DEF AddLevel, LevelItems
<1>2. groups \in Nat \ {0} /\ size \div groups >= 2 /\ size \div groups \in Nat
  BY <1>1, LevelDivides
<1>3. /\ pages' = pages \o parents
      /\ level' = items
      /\ UNCHANGED <<pc, entries, roots, damages>>
  <2>1. ~(size \div groups < 2)
    <3> DEFINE x == size \div groups
    <3> HIDE DEF x
    <3>1. x \in Nat /\ x >= 2
      BY <1>2 DEF x
    <3>2. ~(x < 2)
      BY <3>1
    <3> QED BY <3>2 DEF x
  <2> QED BY <2>1 DEF AddLevel, Parents
<1> HIDE DEF groups
<1>4. parents \in Seq(Pages(N)) /\ Len(parents) = groups
  <2>1. \A g \in 1 .. groups : Parent(g) \in Pages(N)
    BY <1>1, ParentIsPage DEF TreeTypes, Pages, groups
  <2>2. parents \in [1 .. groups -> Pages(N)]
    BY <2>1
  <2> QED BY <1>2, <2>2
<1> DEFINE M == N + groups
<1>5. /\ M \in Nat /\ N <= M /\ Pages(N) \subseteq Pages(M)
      /\ LevelItems(N) \subseteq LevelItems(M) /\ 1 .. N \subseteq 1 .. M
  BY <1>1, <1>2, PagesGrow
<1> HIDE DEF parents
<1>6. pages' \in Seq(Pages(M)) /\ Len(pages') = M
  <2>1. pages \in Seq(Pages(M)) /\ parents \in Seq(Pages(M))
    BY <1>4, <1>5, SeqMonotonic DEF TreeTypes
  <2> QED BY <1>3, <1>4, <2>1, ConcatProperties
<1>7. roots' \in Seq(1 .. M)
  BY <1>3, <1>5, SeqMonotonic DEF TreeTypes
<1>8. level' \in Seq(LevelItems(M))
  <2>1. ASSUME NEW g \in 1 .. groups PROVE items[g] \in LevelItems(M)
    <3>1. FirstOf(size, g) \in 1 .. size
      <4> DEFINE before == GroupEnd(size, g - 1)
                 count == GroupEnd(size, g) - before
      <4>1. /\ before \in 0 .. size /\ before + count \in 0 .. size /\ count \in 2 .. InternalCapacity
            /\ FirstOf(size, g) = before + 1
        BY <1>1, ParentShape DEF groups
      <4> HIDE DEF before, count
      <4> QED BY <1>1, <4>1, BPlusTreeAssumption
    <3>2. N + g \in 1 .. M
      BY <1>1, <1>2
    <3> HIDE DEF M
    <3> QED BY <1>1, <3>1, <3>2 DEF LevelItems
  <2>2. items \in [1 .. groups -> LevelItems(M)]
    <3> HIDE DEF M
    <3> QED BY <2>1
  <2> HIDE DEF items, M
  <2> QED BY <1>2, <1>3, <2>2
<1>9. TablesOK'
  BY <1>3 DEF TreeTypes, TablesOK, Table, NumPoints
<1> HIDE DEF M
<1> QED BY <1>1, <1>3, <1>6, <1>7, <1>8, <1>9 DEF TreeTypes

LEMMA TypesOfRootStep ==
  ASSUME TreeTypes, AddRoot
  PROVE  TreeTypes'
<1>1. /\ pc = "levels" /\ Len(level) = 1
      /\ roots' = Append(roots, level[1].page)
      /\ level' = <<>>
      /\ pc' = (IF Len(roots') = Len(entries) THEN "written" ELSE "leaves")
      /\ UNCHANGED <<entries, pages, damages>>
  BY DEF AddRoot
<1>2. level[1].page \in 1 .. Len(pages)
  <2> DEFINE S == LevelItems(Len(pages))
  <2>1. level \in Seq(S) /\ 1 \in 1 .. Len(level)
    BY <1>1 DEF TreeTypes
  <2> HIDE DEF S
  <2>2. level[1] \in S
    BY <2>1, LenProperties
  <2> USE DEF S
  <2> QED BY <2>2 DEF LevelItems
<1>3. roots' \in Seq(1 .. Len(pages)) /\ Len(roots') = Len(roots) + 1
  BY <1>1, <1>2 DEF TreeTypes
<1>4. level' \in Seq(LevelItems(Len(pages)))
  BY <1>1
<1>5. TablesOK'
  BY <1>1 DEF TreeTypes, TablesOK, Table, NumPoints
<1>6. Len(roots') <= Len(entries) /\ Len(roots) \in Nat /\ Len(entries) \in Nat
  BY <1>1, <1>3 DEF TreeTypes, TablesOK
<1> QED BY <1>1, <1>3, <1>4, <1>5, <1>6 DEF TreeTypes

\* Damage keeps the types of the fields.
LEMMA DamagedIsPage ==
  ASSUME TreeTypes, NEW p \in PageId, NEW page \in Damaged(p)
  PROVE  page \in Pages(Len(pages))
<1> DEFINE N == Len(pages)
<1>1. /\ PageId = 1 .. N /\ N \in Nat /\ \A q \in PageId : pages[q] \in Pages(N)
      /\ NumPoints \in Nat
  BY DEF TreeTypes, PageId, TablesOK
<1>2. pages[p] \in Pages(N)
  BY <1>1
<1> HIDE DEF N
<1>3. CASE \E q \in {0} \cup PageId : page = [pages[p] EXCEPT !.previous = q] \/ page = [pages[p] EXCEPT !.next = q]
  <2>1. PICK q \in {0} \cup PageId : page = [pages[p] EXCEPT !.previous = q] \/ page = [pages[p] EXCEPT !.next = q]
    BY <1>3
  <2>2. q \in 0 .. N
    BY <1>1
  <2> QED BY <1>2, <2>1, <2>2, RelinkedPage DEF N
<1>4. CASE \E q \in PageId : page = pages[q]
  BY <1>1, <1>4 DEF N
<1>5. CASE Leaf(p) /\ \E i \in DOMAIN pages[p].entries, v \in ValueRange, id \in 1 .. NumPoints :
             page = [pages[p] EXCEPT !.entries[i] = [value |-> v, id |-> id]]
  <2>1. PICK i \in DOMAIN pages[p].entries, v \in ValueRange, id \in 1 .. NumPoints :
             page = [pages[p] EXCEPT !.entries[i] = [value |-> v, id |-> id]]
    BY <1>5
  <2>2. pages[p] \in LeafPages(N) /\ pages[p].entries \in Seq(Entry)
    BY <1>2, <1>5, TypedPage DEF Leaf
  <2>3. [value |-> v, id |-> id] \in Entry
    BY <1>1, BPlusTreeAssumption DEF Entry
  <2>4. [pages[p].entries EXCEPT ![i] = [value |-> v, id |-> id]] \in Seq(Entry)
    BY <2>2, <2>3, ExceptSeq, LenProperties
  <2>5. page = [pages[p] EXCEPT !.entries = [pages[p].entries EXCEPT ![i] = [value |-> v, id |-> id]]]
    BY <2>1
  <2> QED BY <2>2, <2>4, <2>5 DEF LeafPages, Pages, N
<1>6. CASE ~Leaf(p) /\ \E i \in DOMAIN pages[p].children, q \in PageId :
             page = [pages[p] EXCEPT !.children[i] = q]
  <2>1. PICK i \in DOMAIN pages[p].children, q \in PageId : page = [pages[p] EXCEPT !.children[i] = q]
    BY <1>6
  <2>2. /\ pages[p] \in InternalPages(N) /\ pages[p].children \in Seq(1 .. N)
        /\ Len(pages[p].children) = Len(pages[p].separators) + 1
    BY <1>2, <1>6, TypedPage DEF Leaf
  <2>3. /\ [pages[p].children EXCEPT ![i] = q] \in Seq(1 .. N)
        /\ Len([pages[p].children EXCEPT ![i] = q]) = Len(pages[p].children)
    BY <1>1, <2>2, ExceptSeq, LenProperties
  <2>4. page = [pages[p] EXCEPT !.children = [pages[p].children EXCEPT ![i] = q]]
    BY <2>1
  <2> QED BY <2>2, <2>3, <2>4 DEF InternalPages, Pages, N
<1>7. CASE ~Leaf(p) /\ \E i \in DOMAIN pages[p].separators, v \in ValueRange :
             page = [pages[p] EXCEPT !.separators[i] = v]
  <2>1. PICK i \in DOMAIN pages[p].separators, v \in ValueRange : page = [pages[p] EXCEPT !.separators[i] = v]
    BY <1>7
  <2>2. /\ pages[p] \in InternalPages(N) /\ pages[p].separators \in Seq(Int)
        /\ Len(pages[p].children) = Len(pages[p].separators) + 1
    BY <1>2, <1>7, TypedPage DEF Leaf
  <2>3. /\ [pages[p].separators EXCEPT ![i] = v] \in Seq(Int)
        /\ Len([pages[p].separators EXCEPT ![i] = v]) = Len(pages[p].separators)
    BY <2>2, ExceptSeq, LenProperties, BPlusTreeAssumption
  <2>4. page = [pages[p] EXCEPT !.separators = [pages[p].separators EXCEPT ![i] = v]]
    BY <2>1
  <2> QED BY <2>2, <2>3, <2>4 DEF InternalPages, Pages, N
<1> QED BY <1>3, <1>4, <1>5, <1>6, <1>7 DEF Damaged

LEMMA TypesOfDamage ==
  ASSUME TreeTypes, Damage
  PROVE  TreeTypes' /\ pc' = pc /\ damages' # 0
<1> DEFINE N == Len(pages)
<1>1. N \in Nat /\ PageId = 1 .. N /\ pages \in Seq(Pages(N)) /\ roots \in Seq(1 .. N)
      /\ damages' = damages + 1 /\ UNCHANGED <<entries, pc, level>> /\ pc = "written"
      /\ Len(roots) = Len(entries)
  BY DEF TreeTypes, PageId, Damage
<1>2. \/ \E p \in PageId : \E page \in Damaged(p) : pages' = [pages EXCEPT ![p] = page] /\ roots' = roots
      \/ \E t \in Table : \E p \in PageId : roots' = [roots EXCEPT ![t] = p] /\ pages' = pages
  BY DEF Damage
<1>3. pages' \in Seq(Pages(N)) /\ Len(pages') = N /\ roots' \in Seq(1 .. N) /\ Len(roots') = Len(roots)
  <2> DEFINE Done == /\ pages' \in Seq(Pages(N)) /\ Len(pages') = N
                     /\ roots' \in Seq(1 .. N) /\ Len(roots') = Len(roots)
  <2>1. ASSUME NEW p \in PageId, NEW page \in Damaged(p), pages' = [pages EXCEPT ![p] = page], roots' = roots
        PROVE  Done
    <3>1. page \in Pages(N)
      BY DamagedIsPage
    <3> HIDE DEF N
    <3> QED BY <1>1, <2>1, <3>1, ExceptSeq DEF N
  <2>2. ASSUME NEW t \in Table, NEW p \in PageId, roots' = [roots EXCEPT ![t] = p], pages' = pages
        PROVE  Done
    <3>1. t \in 1 .. Len(roots)
      BY <1>1 DEF TreeTypes, TablesOK, Table
    <3> QED BY <1>1, <2>2, <3>1, ExceptSeq
  <2> HIDE DEF Done
  <2>3. Done
    BY ONLY <1>2, <2>1, <2>2
  <2> QED BY <2>3 DEF Done
<1>4. TablesOK'
  BY <1>1 DEF TreeTypes, TablesOK, Table, NumPoints
<1>5. Len(roots') = Len(entries')
  BY <1>1, <1>3
<1>6. damages' \in Nat /\ damages' # 0
  BY <1>1 DEF TreeTypes
<1>7. level' \in Seq(LevelItems(N))
  BY <1>1 DEF TreeTypes
<1> HIDE DEF N
<1> QED BY <1>1, <1>3, <1>4, <1>5, <1>6, <1>7 DEF TreeTypes

LEMMA TypesOfOpen ==
  ASSUME TreeTypes, Open
  PROVE  TreeTypes'
<1>1. /\ pc = "written" /\ pc' \in {"open", "rejected"}
      /\ UNCHANGED <<entries, pages, roots, level, damages>>
  BY DEF Open
<1>2. TablesOK'
  BY <1>1 DEF TreeTypes, TablesOK, Table, NumPoints
<1> QED BY <1>1, <1>2 DEF TreeTypes

LEMMA TypesInit ==
  ASSUME InitTree
  PROVE  TreeTypes
<1>1. pc = "leaves" /\ pages = <<>> /\ roots = <<>> /\ level = <<>> /\ damages = 0
  BY DEF InitTree
<1>2. TablesOK
  BY InitTables
<1>3. Len(entries) > 0 /\ Len(roots) = 0
  BY <1>1, <1>2 DEF TablesOK
<1>4. \A S : <<>> \in Seq(S)
  OBVIOUS
<1> QED BY <1>1, <1>2, <1>3, <1>4 DEF TreeTypes

\* The checks of Open read the pages, the roots and the entries only.
LEMMA SameIndex ==
  ASSUME UNCHANGED <<entries, pages, roots>>
  PROVE  Accepted' = Accepted
<1>1. pages' = pages /\ roots' = roots /\ entries' = entries
  OBVIOUS
<1>2. PageId' = PageId /\ Table' = Table /\ NumPoints' = NumPoints
  BY <1>1 DEF PageId, Table, NumPoints
<1>3. ASSUME NEW p PROVE PageIsValid(p)' = PageIsValid(p) /\ ChildSlots(p)' = ChildSlots(p) /\ Leaf(p)' = Leaf(p)
                    /\ FirstEntry(p)' = FirstEntry(p) /\ LastEntry(p)' = LastEntry(p)
  BY <1>1 DEF PageIsValid, Leaf, ChildSlots, FirstEntry, LastEntry, PageId
<1>4. ASSUME NEW t PROVE PagesOf(t)' = PagesOf(t) /\ Depth(t)' = Depth(t)
  BY <1>1 DEF PagesOf, Depth, ChildSlots, Leaf
<1>5. IsForest' = IsForest
  BY <1>1, <1>2, <1>3, <1>4 DEF IsForest
<1>6. ASSUME NEW t PROVE LeavesOf(t)' = LeavesOf(t)
  BY <1>3, <1>4 DEF LeavesOf
<1>7. ASSUME NEW t PROVE Chain(t)' = Chain(t)
  BY <1>1, <1>6 DEF Chain, FirstLeaves
<1>8. ASSUME NEW t
      PROVE  /\ IsBalanced(t)' = IsBalanced(t) /\ IsOrdered(t)' = IsOrdered(t)
             /\ (HasAllPoints(t)' <=> HasAllPoints(t)) /\ LinksAgree(t)' = LinksAgree(t)
             /\ ChainIsValid(t)' = ChainIsValid(t)
  <2>1. IsBalanced(t)' = IsBalanced(t)
    BY <1>1, <1>4, <1>6 DEF IsBalanced
  <2>2. IsOrdered(t)' = IsOrdered(t)
    BY <1>1, <1>2, <1>3, <1>4 DEF IsOrdered, SeparatorMatches
  <2>3. (HasAllPoints(t)' <=> HasAllPoints(t))
    <3> DEFINE used == {s \in {<<p, i>> : p \in LeavesOf(t), i \in 1 .. LeafCapacity} :
                          s[2] \in DOMAIN pages[s[1]].entries}
               distinct == \A r, s \in used :
                             pages[r[1]].entries[r[2]].id = pages[s[1]].entries[s[2]].id => r = s
    <3>1. HasAllPoints(t) <=> Cardinality(used) = NumPoints /\ distinct
      BY DEF HasAllPoints
    <3>2. HasAllPoints(t)' <=> Cardinality(used') = NumPoints' /\ distinct'
      BY DEF HasAllPoints
    <3>3. used' = used
      BY <1>1, <1>6
    <3> HIDE DEF used
    <3>4. distinct' <=> distinct
      BY <1>1, <3>3
    <3> HIDE DEF distinct
    <3> QED BY <1>2, <3>1, <3>2, <3>3, <3>4
  <2>4. LinksAgree(t)' = LinksAgree(t)
    BY <1>1, <1>6 DEF LinksAgree
  <2>5. ChainIsValid(t)' = ChainIsValid(t)
    BY <1>1, <1>3, <1>6, <1>7 DEF ChainIsValid, FirstLeaves
  <2> QED BY <2>1, <2>2, <2>3, <2>4, <2>5
<1> QED BY <1>2, <1>3, <1>5, <1>8 DEF Accepted

\* What the pages are, and what Open has checked.
TreeInv ==
    /\ TreeTypes
    /\ pc = "open" => Accepted

LEMMA TreeStep ==
  ASSUME TreeInv, NextTree
  PROVE  TreeInv'
<1>1. CASE AddLeaf
  BY <1>1, TypesOfLeafStep DEF TreeInv, AddLeaf
<1>2. CASE AddLevel
  BY <1>2, TypesOfLevelStep DEF TreeInv, AddLevel
<1>3. CASE AddRoot
  BY <1>3, TypesOfRootStep DEF TreeInv, AddRoot
<1>4. CASE Damage
  BY <1>4, TypesOfDamage DEF TreeInv, Damage
<1>5. CASE Open
  <2>1. TreeTypes'
    BY <1>5, TypesOfOpen DEF TreeInv
  <2>2. UNCHANGED <<entries, pages, roots>> /\ (pc' = "open" => Accepted)
    BY <1>5 DEF Open
  <2> QED BY <2>1, <2>2, SameIndex DEF TreeInv
<1> QED BY <1>1, <1>2, <1>3, <1>4, <1>5 DEF NextTree

LEMMA TreeStutter ==
  ASSUME TreeInv, UNCHANGED treeVars
  PROVE  TreeInv'
<1>1. TreeTypes'
  BY DEF TreeInv, treeVars, TreeTypes, TablesOK, Table, NumPoints
<1>2. UNCHANGED <<entries, pages, roots>> /\ pc' = pc
  BY DEF treeVars
<1> QED BY <1>1, <1>2, SameIndex DEF TreeInv

\* The scans leave the pages alone.
LEMMA CursorStepsLeaveTree ==
  ASSUME [Next]_vars
  PROVE  NextTree \/ UNCHANGED treeVars
BY DEF Next, vars, Reset, BeginScan, ScanRejected, LeftRange, TurnRight, RightRange, EndScan,
       VisitorThrows

\* Build, damage and load_header keep the types of the pages, and an index is
\* open only if it passed the checks of load_header.
THEOREM TreeInvariance == Spec => []TreeInv
<1>1. Init => TreeInv
  <2> SUFFICES ASSUME Init PROVE TreeInv
    OBVIOUS
  <2>1. TreeTypes
    BY TypesInit DEF Init
  <2>2. pc = "leaves"
    BY DEF Init, InitTree
  <2> QED BY <2>1, <2>2 DEF TreeInv
<1>2. TreeInv /\ [Next]_vars => TreeInv'
  BY TreeStep, TreeStutter, CursorStepsLeaveTree
<1> QED BY <1>1, <1>2, PTL DEF Spec

\* Whatever became of the file: when load_header has accepted it, reset_cursor
\* puts every query between the last entry below it and the first that is not.
THEOREM OpenIndexIsSearchableProved == Spec => []OpenIndexIsSearchable
<1>1. TreeInv => OpenIndexIsSearchable
  <2> SUFFICES ASSUME TreeInv, pc = "open", NEW t \in Table, NEW q \in ValueRange
               PROVE  PlacesAreExact(t, q, ResetPlaces(t, q))
    BY DEF OpenIndexIsSearchable, PlacesAreExact
  <2>1. Accepted
    BY DEF TreeInv
  <2>2. IndexOK
    <3>1. roots \in Seq(1 .. Len(pages)) /\ Len(roots) = Len(entries) /\ pages \in Seq(Pages(Len(pages)))
          /\ entries \in Seq(Seq(Entry))
      BY DEF TreeInv, TreeTypes, TablesOK
    <3>2. PageId = 1 .. Len(pages) /\ Table = 1 .. Len(entries)
      BY <3>1 DEF PageId, Table
    <3> QED BY <3>1, <3>2 DEF IndexOK
  <2>3. TableOK(t) /\ LinksAgree(t) /\ ChainIsValid(t)
    BY <2>1, <2>2 DEF Accepted, TableOK
  <2>4. q \in Int
    BY BPlusTreeAssumption
  <2> QED BY <2>3, <2>4, LookupIsExact
<1> QED BY <1>1, TreeInvariance, PTL

-----------------------------------------------------------------------------
(* What Build has written so far, page by page.  Of a page: its table, the *)
(* entries of the table that are below it, its height, and where it is     *)
(* referred to, if it is: its parent and the place among the children.     *)

Info == [tab : Nat, lo : Nat, hi : Nat, ht : Nat, par : Nat, slot : Nat]

LeafStart(k) == (k - 1) * LeafCapacity + 1
LeafEnd(k) == SmallerOf((k - 1) * LeafCapacity + LeafCapacity, NumPoints)

Placed(G) ==
    \A p \in PageId :
        /\ G[p].tab \in Table /\ G[p].tab <= Len(roots) + 1
        /\ 1 <= G[p].lo /\ G[p].lo <= G[p].hi /\ G[p].hi <= NumPoints
        /\ G[p].ht < p

\* The leaves of table t are the pages base[t] + 1 .. base[t] + cnt[t].
LeavesBuilt(G, base, cnt) ==
    /\ \A p \in PageId : Leaf(p) =>
         LET t == G[p].tab
             k == p - base[t]
         IN  /\ k \in 1 .. cnt[t]
             /\ pages[p].entries = LeafContent(entries[t], k)
             /\ pages[p].previous = (IF k = 1 THEN 0 ELSE p - 1)
             /\ pages[p].next = (IF k = cnt[t] THEN 0 ELSE p + 1)
             /\ G[p].lo = LeafStart(k) /\ G[p].hi = LeafEnd(k) /\ G[p].ht = 0
    /\ \A t \in 1 .. Len(roots) + 1 : \A k \in 1 .. cnt[t] :
         /\ base[t] + k \in PageId /\ Leaf(base[t] + k) /\ G[base[t] + k].tab = t
         /\ (k - 1) * LeafCapacity < NumPoints

\* The children of a page divide its entries.
ParentBuilt(G, p) ==
    LET c == pages[p].children
        n == Len(c)
    IN  /\ n \in 2 .. InternalCapacity
        /\ pages[p].previous = 0 /\ pages[p].next = 0
        /\ \A i \in 1 .. n : /\ c[i] < p
                             /\ G[c[i]].tab = G[p].tab /\ G[c[i]].ht + 1 = G[p].ht
                             /\ G[c[i]].par = p /\ G[c[i]].slot = i
        /\ G[c[1]].lo = G[p].lo /\ G[c[n]].hi = G[p].hi
        /\ \A i \in 1 .. n - 1 :
             /\ G[c[i + 1]].lo = G[c[i]].hi + 1
             /\ pages[p].separators[i] = entries[G[p].tab][G[c[i + 1]].lo].value

ParentsBuilt(G) == \A p \in PageId : ~Leaf(p) => ParentBuilt(G, p)

Referenced(G) ==
    \A q \in PageId :
        IF G[q].par = 0
          THEN \/ G[q].tab \in DOMAIN roots /\ roots[G[q].tab] = q
               \/ \E i \in DOMAIN level : level[i].page = q
          ELSE G[q].par \in PageId /\ IsChild(G[q].par, G[q].slot, q)

RootsBuilt(G, cnt) ==
    \A t \in DOMAIN roots :
        /\ G[roots[t]].tab = t /\ G[roots[t]].par = 0
        /\ NumPoints <= cnt[t] * LeafCapacity

LevelBuilt(G, base, cnt) ==
    LET T == Len(roots) + 1
    IN  /\ \A i \in DOMAIN level :
             LET p == level[i].page
             IN  /\ G[p].tab = T /\ G[p].par = 0
                 /\ level[i].key = entries[T][G[p].lo].value
                 /\ \A j \in DOMAIN level : G[level[j].page].ht = G[p].ht
                 /\ i + 1 \in DOMAIN level => G[level[i + 1].page].lo = G[p].hi + 1
        /\ pc = "leaves" => /\ cnt[T] = Len(level) /\ base[T] + cnt[T] = Len(pages)
                            /\ \A i \in DOMAIN level : level[i].page = base[T] + i
        /\ pc = "levels" => level # <<>> /\ NumPoints <= cnt[T] * LeafCapacity
        /\ pc = "written" => level = <<>>

Functions(G, base, cnt) ==
    G \in [Nat -> Info] /\ base \in [Nat -> Nat] /\ cnt \in [Nat -> Nat]

Built(G, base, cnt) ==
    /\ Functions(G, base, cnt)
    /\ Placed(G)
    /\ LeavesBuilt(G, base, cnt)
    /\ ParentsBuilt(G)
    /\ Referenced(G)
    /\ RootsBuilt(G, cnt)
    /\ LevelBuilt(G, base, cnt)

\* All tables are written, and nothing is damaged.
Complete(G, base, cnt) ==
    /\ TreeTypes /\ pc = "written"
    /\ Built(G, base, cnt)

LEMMA CompleteIndexOK ==
  ASSUME TreeTypes, Len(roots) = Len(entries)
  PROVE  IndexOK
<1>1. roots \in Seq(1 .. Len(pages)) /\ pages \in Seq(Pages(Len(pages))) /\ entries \in Seq(Seq(Entry))
  BY DEF TreeTypes, TablesOK
<1>2. PageId = 1 .. Len(pages) /\ Table = 1 .. Len(entries)
  BY <1>1 DEF PageId, Table
<1> QED BY <1>1, <1>2 DEF IndexOK

LEMMA InfoFields ==
  ASSUME NEW G \in [Nat -> Info], NEW p \in Nat
  PROVE  /\ G[p].tab \in Nat /\ G[p].lo \in Nat /\ G[p].hi \in Nat
         /\ G[p].ht \in Nat /\ G[p].par \in Nat /\ G[p].slot \in Nat
<1>1. G[p] \in Info
  OBVIOUS
<1> QED BY <1>1 DEF Info

LEMMA TableOrder ==
  ASSUME TablesOK, NEW t \in Table
  PROVE  /\ \A x \in 1 .. NumPoints : entries[t][x] \in Entry /\ entries[t][x].value \in Int
         /\ \A x, y \in 1 .. NumPoints : x < y => KeyLess(entries[t][x], entries[t][y])
         /\ \A x, y \in 1 .. NumPoints : entries[t][x].id = entries[t][y].id => x = y
         /\ entries[t] \in Seq(Entry) /\ Len(entries[t]) = NumPoints /\ NumPoints \in Nat \ {0}
<1>1. SortedTable(entries[t], NumPoints)
  BY DEF TablesOK
<1>2. \A x \in 1 .. NumPoints : entries[t][x] \in Entry
  BY <1>1 DEF SortedTable
<1>3. \A x \in 1 .. NumPoints : entries[t][x].value \in Int
  BY <1>2 DEF Entry
<1>4. entries[t] \in Seq(Entry)
  BY DEF TablesOK, Table
<1> QED BY <1>1, <1>2, <1>3, <1>4 DEF SortedTable, TablesOK

\* What holds of every page of a complete index.
LEMMA CompletePages ==
  ASSUME NEW G, NEW base, NEW cnt, Complete(G, base, cnt)
  PROVE  /\ IndexOK /\ TablesOK /\ Len(pages) \in Nat /\ PageId = 1 .. Len(pages)
         /\ DOMAIN roots = Table /\ Table = 1 .. Len(roots) /\ Len(roots) \in Nat
         /\ LeafCapacity \in Nat \ {0} /\ NumPoints \in Nat \ {0}
         /\ \A p \in PageId :
              /\ G[p].tab \in Table /\ G[p].lo \in 1 .. NumPoints /\ G[p].hi \in 1 .. NumPoints
              /\ G[p].lo <= G[p].hi /\ G[p].ht \in Nat /\ G[p].ht < p /\ G[p].par \in Nat
<1>1. TreeTypes /\ Len(roots) = Len(entries) /\ TablesOK
  BY DEF Complete, TreeTypes
<1>2. IndexOK
  BY <1>1, CompleteIndexOK
<1>3. Len(pages) \in Nat /\ PageId = 1 .. Len(pages)
  BY <1>2, PageFields
<1>4. DOMAIN roots = Table /\ Table = 1 .. Len(roots) /\ Len(roots) \in Nat
  BY <1>1 DEF TreeTypes, TablesOK, Table
<1>5. NumPoints \in Nat \ {0} /\ LeafCapacity \in Nat \ {0}
  BY <1>1, BPlusTreeAssumption DEF TablesOK
<1>6. ASSUME NEW p \in PageId
      PROVE  /\ G[p].tab \in Table /\ G[p].lo \in 1 .. NumPoints /\ G[p].hi \in 1 .. NumPoints
             /\ G[p].lo <= G[p].hi /\ G[p].ht \in Nat /\ G[p].ht < p /\ G[p].par \in Nat
  <2>1. p \in Nat /\ G \in [Nat -> Info]
    BY <1>3 DEF Complete, Built, Functions
  <2>2. /\ G[p].lo \in Nat /\ G[p].hi \in Nat /\ G[p].ht \in Nat /\ G[p].par \in Nat
    BY <2>1, InfoFields
  <2>3. /\ G[p].tab \in Table
        /\ 1 <= G[p].lo /\ G[p].lo <= G[p].hi /\ G[p].hi <= NumPoints
        /\ G[p].ht < p
    BY DEF Complete, Built, Placed
  <2> QED BY <1>5, <2>2, <2>3
<1> QED BY <1>1, <1>2, <1>3, <1>4, <1>5, <1>6

\* The children of page p, when the table is complete.
Family(G, p) ==
    LET c == pages[p].children
        n == Len(c)
    IN  /\ n \in 2 .. InternalCapacity /\ n \in Nat /\ DOMAIN c = 1 .. n
        /\ pages[p].previous = 0 /\ pages[p].next = 0
        /\ DOMAIN pages[p].separators = 1 .. n - 1
        /\ \A i \in 1 .. n : /\ c[i] \in PageId /\ IsChild(p, i, c[i]) /\ c[i] < p
                             /\ G[c[i]].tab = G[p].tab /\ G[c[i]].ht + 1 = G[p].ht
                             /\ G[c[i]].par = p /\ G[c[i]].slot = i
        /\ G[c[1]].lo = G[p].lo /\ G[c[n]].hi = G[p].hi
        /\ \A i \in 1 .. n - 1 :
             /\ G[c[i + 1]].lo = G[c[i]].hi + 1
             /\ pages[p].separators[i] = entries[G[p].tab][G[c[i + 1]].lo].value

LEMMA CompleteChildren ==
  ASSUME NEW G, NEW base, NEW cnt, Complete(G, base, cnt), NEW p \in PageId, ~Leaf(p)
  PROVE  Family(G, p)
<1> DEFINE c == pages[p].children
           n == Len(c)
<1>1. ParentBuilt(G, p)
  BY DEF Complete, Built, ParentsBuilt
<1>2. IndexOK
  BY CompletePages
<1>3. /\ n \in Nat \ {0} /\ DOMAIN c = 1 .. n
      /\ \A i \in 1 .. n : c[i] \in PageId /\ IsChild(p, i, c[i])
  BY <1>2, FirstAndLastChild
<1>4. pages[p].separators \in Seq(Int) /\ n = Len(pages[p].separators) + 1
  BY <1>2, PageFields
<1>5. Len(pages[p].separators) \in Nat /\ DOMAIN pages[p].separators = 1 .. Len(pages[p].separators)
  BY <1>4
<1>6. DOMAIN pages[p].separators = 1 .. n - 1
  <2> HIDE DEF n
  <2>1. n - 1 = Len(pages[p].separators)
    BY <1>4, <1>5
  <2> QED BY <1>5, <2>1
<1> QED BY <1>1, <1>3, <1>6 DEF ParentBuilt, Family

\* Children are on earlier pages.
LEMMA CompleteRanks ==
  ASSUME NEW G, NEW base, NEW cnt, Complete(G, base, cnt)
  PROVE  Ranks([p \in PageId |-> p])
<1>1. PageId = 1 .. Len(pages) /\ Len(pages) \in Nat
  BY CompletePages
<1>2. [p \in PageId |-> p] \in [PageId -> 0 .. Len(pages)]
  BY <1>1
<1>3. ASSUME NEW p \in PageId, NEW i, NEW q, IsChild(p, i, q)
      PROVE  q \in PageId /\ q < p
  <2>1. ~Leaf(p) /\ i \in DOMAIN pages[p].children /\ q = pages[p].children[i]
    BY <1>3 DEF IsChild
  <2>2. /\ DOMAIN pages[p].children = 1 .. Len(pages[p].children)
        /\ \A j \in 1 .. Len(pages[p].children) :
             pages[p].children[j] \in PageId /\ pages[p].children[j] < p
    <3>1. Family(G, p)  BY <2>1, CompleteChildren
    <3> QED BY ONLY <3>1, Zenon DEF Family
  <2> QED BY <2>1, <2>2
<1> QED BY <1>2, <1>3 DEF Ranks

LEMMA CompleteLeaf ==
  ASSUME NEW G, NEW base, NEW cnt, Complete(G, base, cnt), NEW p \in PageId, Leaf(p)
  PROVE  LET t == G[p].tab
             k == p - base[t]
         IN  /\ k \in 1 .. cnt[t] /\ base[t] \in Nat /\ cnt[t] \in Nat
             /\ pages[p].previous = (IF k = 1 THEN 0 ELSE p - 1)
             /\ pages[p].next = (IF k = cnt[t] THEN 0 ELSE p + 1)
             /\ G[p].lo = LeafStart(k) /\ G[p].hi = LeafEnd(k) /\ G[p].ht = 0
             /\ G[p].lo <= G[p].hi
             /\ Len(pages[p].entries) = G[p].hi - G[p].lo + 1
             /\ Len(pages[p].entries) \in 1 .. LeafCapacity
             /\ DOMAIN pages[p].entries = 1 .. G[p].hi - G[p].lo + 1
             /\ \A i \in 1 .. G[p].hi - G[p].lo + 1 :
                  pages[p].entries[i] = entries[t][G[p].lo + i - 1]
<1> DEFINE t == G[p].tab
           k == p - base[t]
           begin == (k - 1) * LeafCapacity
           end == SmallerOf(begin + LeafCapacity, NumPoints)
<1>1. /\ IndexOK /\ TablesOK /\ LeafCapacity \in Nat \ {0} /\ NumPoints \in Nat \ {0}
      /\ t \in Table /\ Table = 1 .. Len(roots) /\ Len(roots) \in Nat
      /\ G[p].lo <= G[p].hi
  BY CompletePages
<1>2. /\ k \in 1 .. cnt[t]
      /\ pages[p].entries = LeafContent(entries[t], k)
      /\ pages[p].previous = (IF k = 1 THEN 0 ELSE p - 1)
      /\ pages[p].next = (IF k = cnt[t] THEN 0 ELSE p + 1)
      /\ G[p].lo = LeafStart(k) /\ G[p].hi = LeafEnd(k) /\ G[p].ht = 0
  BY DEF Complete, Built, LeavesBuilt
<1>3. t \in Nat /\ base[t] \in Nat /\ cnt[t] \in Nat
  <2>1. t \in Nat
    BY <1>1
  <2> QED BY <2>1 DEF Complete, Built, Functions
<1>4. k \in Nat \ {0}
  BY <1>2, <1>3
<1>5. (k - 1) * LeafCapacity < NumPoints
  <2>1. t \in 1 .. Len(roots) + 1
    BY <1>1
  <2> QED BY <1>2, <2>1 DEF Complete, Built, LeavesBuilt
<1>6. entries[t] \in Seq(Entry) /\ Len(entries[t]) = NumPoints
  BY <1>1, TableOrder
<1> HIDE DEF t, k
<1>7. /\ begin \in Nat /\ end - begin \in 1 .. LeafCapacity /\ end \in Nat
      /\ LeafContent(entries[t], k) \in Seq(Entry)
      /\ Len(LeafContent(entries[t], k)) = end - begin
      /\ \A i \in 1 .. end - begin : LeafContent(entries[t], k)[i] = entries[t][begin + i]
  <2>1. LeafHolds(LeafContent(entries[t], k), entries[t], NumPoints, k)
    BY <1>1, <1>4, <1>5, <1>6, LeafContentIs
  <2>3. /\ begin \in Nat /\ end - begin \in 1 .. LeafCapacity
        /\ LeafContent(entries[t], k) \in Seq(Entry)
        /\ Len(LeafContent(entries[t], k)) = end - begin
        /\ \A i \in 1 .. end - begin : LeafContent(entries[t], k)[i] = entries[t][begin + i]
    BY <2>1 DEF LeafHolds
  <2>2. end \in Nat
    <3> HIDE DEF begin
    <3> QED BY <1>1, <2>3 DEF SmallerOf
  <2> QED BY <2>2, <2>3
<1>8. G[p].lo = begin + 1 /\ G[p].hi = end
  BY <1>2 DEF LeafStart, LeafEnd
<1> HIDE DEF begin, end
<1>9. G[p].hi - G[p].lo + 1 = end - begin /\ \A i \in 1 .. end - begin : G[p].lo + i - 1 = begin + i
  BY <1>7, <1>8
<1>10. DOMAIN pages[p].entries = 1 .. end - begin
  BY <1>2, <1>7
<1>11. /\ Len(pages[p].entries) = G[p].hi - G[p].lo + 1
       /\ Len(pages[p].entries) \in 1 .. LeafCapacity
       /\ DOMAIN pages[p].entries = 1 .. G[p].hi - G[p].lo + 1
       /\ \A i \in 1 .. G[p].hi - G[p].lo + 1 : pages[p].entries[i] = entries[t][G[p].lo + i - 1]
  BY <1>2, <1>7, <1>9, <1>10
<1> QED BY <1>1, <1>2, <1>3, <1>11 DEF t, k

\* The first and the last entry below a page.
LEMMA CompleteEnds ==
  ASSUME NEW G, NEW base, NEW cnt, Complete(G, base, cnt)
  PROVE  \A p \in PageId : /\ FirstEntry(p) = entries[G[p].tab][G[p].lo]
                           /\ LastEntry(p) = entries[G[p].tab][G[p].hi]
<1> DEFINE OK(p) == /\ FirstEntry(p) = entries[G[p].tab][G[p].lo]
                    /\ LastEntry(p) = entries[G[p].tab][G[p].hi]
           Bad == {p \in PageId : ~OK(p)}
<1> SUFFICES ASSUME Bad # {} PROVE FALSE
  OBVIOUS
<1>1. IndexOK /\ PageId \subseteq Nat /\ Ranks([p \in PageId |-> p])
  BY CompletePages, CompleteRanks
<1>2. PICK p \in Bad : \A q \in Bad : p <= q
  <2>1. Bad \in SUBSET Nat
    BY <1>1
  <2> HIDE DEF Bad
  <2> QED BY <2>1, LeastNatural
<1>3. p \in PageId /\ ~OK(p) /\ \A q \in PageId : q < p => OK(q)
  <2>1. \A q \in PageId : q < p => ~(p <= q)
    BY <1>1, <1>2
  <2> HIDE DEF OK
  <2> QED BY <1>2, <2>1
<1>4. CASE Leaf(p)
  <2> DEFINE len == Len(pages[p].entries)
  <2>1. /\ len = G[p].hi - G[p].lo + 1 /\ len \in 1 .. LeafCapacity
        /\ \A i \in 1 .. G[p].hi - G[p].lo + 1 : pages[p].entries[i] = entries[G[p].tab][G[p].lo + i - 1]
    BY <1>3, <1>4, CompleteLeaf
  <2>2. G[p].lo \in Nat /\ G[p].hi \in Nat
    BY <1>3, CompletePages
  <2>3. FirstEntry(p) = pages[p].entries[1] /\ LastEntry(p) = pages[p].entries[len]
    BY <1>1, <1>3, <1>4, FirstRecursion, LastRecursion
  <2> HIDE DEF len
  <2>4. 1 \in 1 .. G[p].hi - G[p].lo + 1 /\ len \in 1 .. G[p].hi - G[p].lo + 1
        /\ G[p].lo + 1 - 1 = G[p].lo /\ G[p].lo + len - 1 = G[p].hi
    BY <2>1, <2>2
  <2>5. OK(p)
    BY <2>1, <2>3, <2>4
  <2> QED BY <1>3, <2>5
<1>5. CASE ~Leaf(p)
  <2> DEFINE c == pages[p].children
             n == Len(c)
  <2>1. /\ n \in 2 .. InternalCapacity /\ n \in Nat
        /\ \A i \in 1 .. n : c[i] \in PageId /\ c[i] < p /\ G[c[i]].tab = G[p].tab
        /\ G[c[1]].lo = G[p].lo /\ G[c[n]].hi = G[p].hi
    <3>1. Family(G, p)  BY <1>3, <1>5, CompleteChildren
    <3> QED BY ONLY <3>1, Zenon DEF Family
  <2>2. FirstEntry(p) = FirstEntry(c[1]) /\ LastEntry(p) = LastEntry(c[n])
    BY <1>1, <1>3, <1>5, FirstRecursion, LastRecursion
  <2> HIDE DEF c, n
  <2>3. 1 \in 1 .. n /\ n \in 1 .. n
    BY <2>1
  <2>4. OK(c[1]) /\ OK(c[n])
    <3> HIDE DEF OK
    <3> QED BY <1>3, <2>1, <2>3
  <2>5. OK(p)
    BY <2>1, <2>2, <2>3, <2>4
  <2> QED BY <1>3, <2>5
<1> QED BY <1>4, <1>5

\* The entries of the children of a page are in order.
LEMMA CompleteLadder ==
  ASSUME NEW G, NEW base, NEW cnt, Complete(G, base, cnt), NEW p \in PageId, ~Leaf(p)
  PROVE  LET c == pages[p].children
             n == Len(c)
             all == entries[G[p].tab]
         IN  /\ \A i \in 1 .. n - 1 : KeyLess(all[G[c[i]].hi], all[G[c[i + 1]].lo])
             /\ \A i, j \in 1 .. n : i <= j => all[G[c[i]].lo].value <= all[G[c[j]].lo].value
<1> DEFINE c == pages[p].children
           n == Len(c)
           all == entries[G[p].tab]
           first == [i \in 1 .. n |-> all[G[c[i]].lo]]
           last == [i \in 1 .. n |-> all[G[c[i]].hi]]
<1>1. TablesOK /\ G[p].tab \in Table /\ NumPoints \in Nat \ {0}
  BY CompletePages
<1>2. /\ \A x \in 1 .. NumPoints : all[x] \in Entry
      /\ \A x, y \in 1 .. NumPoints : x < y => KeyLess(all[x], all[y])
  BY <1>1, TableOrder
<1>3. n \in Nat /\ (\A i \in 1 .. n : c[i] \in PageId) /\ \A i \in 1 .. n - 1 : G[c[i + 1]].lo = G[c[i]].hi + 1
  <2>1. Family(G, p)  BY CompleteChildren
  <2> QED BY ONLY <2>1, Zenon DEF Family
<1>4. \A i \in 1 .. n : /\ G[c[i]].lo \in 1 .. NumPoints /\ G[c[i]].hi \in 1 .. NumPoints
                        /\ G[c[i]].lo <= G[c[i]].hi
  BY <1>3, CompletePages
<1> HIDE DEF c, n, all
<1>5. \A i \in 1 .. n - 1 : i \in 1 .. n /\ i + 1 \in 1 .. n
  BY <1>3
<1>6. \A i \in 1 .. n - 1 : KeyLess(all[G[c[i]].hi], all[G[c[i + 1]].lo])
  <2> SUFFICES ASSUME NEW i \in 1 .. n - 1 PROVE KeyLess(all[G[c[i]].hi], all[G[c[i + 1]].lo])
    OBVIOUS
  <2>1. G[c[i]].hi < G[c[i + 1]].lo
    BY <1>1, <1>3, <1>4, <1>5
  <2> QED BY <1>2, <1>4, <1>5, <2>1
<1>7. first \in [1 .. n -> Entry] /\ last \in [1 .. n -> Entry]
  BY <1>2, <1>4
<1>8. \A i \in 1 .. n : ~KeyLess(last[i], first[i])
  <2> SUFFICES ASSUME NEW i \in 1 .. n PROVE ~KeyLess(all[G[c[i]].hi], all[G[c[i]].lo])
    OBVIOUS
  <2> DEFINE x == G[c[i]].lo
             y == G[c[i]].hi
  <2>1. x \in 1 .. NumPoints /\ y \in 1 .. NumPoints /\ x <= y
    BY <1>4
  <2> HIDE DEF x, y
  <2>2. ~KeyLess(all[y], all[x])
    <3>1. CASE x = y
      BY <1>2, <2>1, <3>1, KeyLessOrder
    <3>2. CASE x # y
      <4>1. x < y
        BY <1>1, <2>1, <3>2
      <4> QED BY <1>2, <2>1, <4>1, KeyLessOrder
    <3> QED BY <3>1, <3>2
  <2> QED BY <2>2 DEF x, y
<1>9. \A i \in 1 .. n - 1 : KeyLess(last[i], first[i + 1])
  BY <1>5, <1>6
<1>10. \A i, j \in 1 .. n :
           /\ i < j => KeyLess(last[i], first[j])
           /\ i <= j => ~KeyLess(first[j], first[i]) /\ ~KeyLess(last[j], last[i])
  <2> HIDE DEF first, last
  <2> QED BY <1>3, <1>7, <1>8, <1>9, Ladder
<1>11. \A i, j \in 1 .. n : i <= j => first[i].value <= first[j].value
  <2> HIDE DEF first, last
  <2>1. \A i \in 1 .. n : first[i] \in Entry
    BY <1>7
  <2> QED BY <1>10, <2>1, KeyLessOrder
<1>12. \A i, j \in 1 .. n : i <= j => all[G[c[i]].lo].value <= all[G[c[j]].lo].value
  BY <1>11
<1> QED BY <1>6, <1>12 DEF c, n, all

LEMMA CompleteIsValid ==
  ASSUME NEW G, NEW base, NEW cnt, Complete(G, base, cnt), NEW p \in PageId
  PROVE  PageIsValid(p)
<1>1. CASE Leaf(p)
  BY <1>1, CompleteLeaf DEF PageIsValid
<1>2. CASE ~Leaf(p)
  <2> DEFINE c == pages[p].children
             n == Len(c)
             all == entries[G[p].tab]
             seps == pages[p].separators
  <2>1. /\ n \in 2 .. InternalCapacity /\ n \in Nat
        /\ pages[p].previous = 0 /\ pages[p].next = 0
        /\ DOMAIN seps = 1 .. n - 1
        /\ \A i \in 1 .. n - 1 : seps[i] = all[G[c[i + 1]].lo].value
    <3>1. Family(G, p)  BY <1>2, CompleteChildren
    <3> QED BY ONLY <3>1, Zenon DEF Family
  <2>2. \A i, j \in 1 .. n : i <= j => all[G[c[i]].lo].value <= all[G[c[j]].lo].value
    BY <1>2, CompleteLadder
  <2>3. \A i, j \in DOMAIN seps : i <= j => seps[i] <= seps[j]
    <3> SUFFICES ASSUME NEW i \in DOMAIN seps, NEW j \in DOMAIN seps, i <= j
                 PROVE  seps[i] <= seps[j]
      OBVIOUS
    <3> HIDE DEF c, n, all, seps
    <3>1. i \in 1 .. n - 1 /\ j \in 1 .. n - 1
      BY <2>1
    <3>2. i + 1 \in 1 .. n /\ j + 1 \in 1 .. n /\ i + 1 <= j + 1
      BY <2>1, <3>1
    <3> QED BY <2>1, <2>2, <3>1, <3>2
  <2> QED BY <1>2, <2>1, <2>3 DEF PageIsValid
<1> QED BY <1>1, <1>2

LEMMA CompleteIsOrdered ==
  ASSUME NEW G, NEW base, NEW cnt, Complete(G, base, cnt), NEW t \in Table
  PROVE  IsOrdered(t)
<1>1. PagesOf(t) \subseteq PageId
  BY CompletePages, DepthMembers DEF PagesOf
<1>2. ASSUME NEW p \in PagesOf(t), Leaf(p), NEW i \in 1 .. Len(pages[p].entries) - 1
      PROVE  KeyLess(pages[p].entries[i], pages[p].entries[i + 1])
  <2> DEFINE all == entries[G[p].tab]
             len == Len(pages[p].entries)
             lo == G[p].lo
             hi == G[p].hi
             x == lo + i - 1
  <2>1. p \in PageId
    BY <1>1
  <2>2. /\ len = hi - lo + 1
        /\ \A j \in 1 .. hi - lo + 1 : pages[p].entries[j] = all[lo + j - 1]
    BY <1>2, <2>1, CompleteLeaf
  <2>3. /\ TablesOK /\ G[p].tab \in Table /\ lo \in 1 .. NumPoints /\ hi \in 1 .. NumPoints
        /\ NumPoints \in Nat
    BY <2>1, CompletePages
  <2>4. \A a, b \in 1 .. NumPoints : a < b => KeyLess(all[a], all[b])
    BY <2>3, TableOrder
  <2> HIDE DEF all, len, lo, hi
  <2>5. i \in 1 .. len - 1
    BY <1>2 DEF len
  <2>6. /\ i \in 1 .. hi - lo + 1 /\ i + 1 \in 1 .. hi - lo + 1
        /\ x \in 1 .. NumPoints /\ x + 1 \in 1 .. NumPoints /\ lo + (i + 1) - 1 = x + 1 /\ x < x + 1
    <3>1. /\ lo \in Int /\ hi \in Int /\ i \in Int /\ 1 <= lo /\ hi <= NumPoints
          /\ 1 <= i /\ i <= hi - lo
      BY <2>2, <2>3, <2>5
    <3> QED BY ONLY <2>3, <3>1
  <2> HIDE DEF x
  <2>7. pages[p].entries[i] = all[x]
    BY <2>2, <2>6 DEF x
  <2>8. pages[p].entries[i + 1] = all[x + 1]
    BY <2>2, <2>6
  <2> QED BY <2>4, <2>6, <2>7, <2>8
<1>3. ASSUME NEW p \in PagesOf(t), ~Leaf(p), NEW i \in 1 .. Len(pages[p].children) - 1
      PROVE  /\ KeyLess(LastEntry(pages[p].children[i]), FirstEntry(pages[p].children[i + 1]))
             /\ SeparatorMatches(p, i)
  <2> DEFINE c == pages[p].children
             n == Len(c)
             all == entries[G[p].tab]
  <2>1. p \in PageId
    BY <1>1
  <2>2. /\ n \in Nat /\ \A j \in 1 .. n : c[j] \in PageId /\ G[c[j]].tab = G[p].tab
    <3>1. Family(G, p)  BY <1>3, <2>1, CompleteChildren
    <3> QED BY ONLY <3>1, Zenon DEF Family
  <2>3. pages[p].separators[i] = all[G[c[i + 1]].lo].value
    <3>1. Family(G, p)  BY <1>3, <2>1, CompleteChildren
    <3> QED BY ONLY <3>1, Zenon DEF Family
  <2>4. KeyLess(all[G[c[i]].hi], all[G[c[i + 1]].lo])
    BY <1>3, <2>1, CompleteLadder
  <2>5. i \in 1 .. n /\ i + 1 \in 1 .. n
    <3> HIDE DEF n
    <3>1. i \in 1 .. n - 1
      BY <1>3 DEF n
    <3> QED BY <2>2, <3>1
  <2>6. LastEntry(c[i]) = all[G[c[i]].hi] /\ FirstEntry(c[i + 1]) = all[G[c[i + 1]].lo]
    BY <2>2, <2>5, CompleteEnds
  <2> QED BY <2>3, <2>4, <2>6 DEF SeparatorMatches
<1> QED BY <1>2, <1>3 DEF IsOrdered

\* How a page of a complete index is referred to.
LEMMA CompleteReference ==
  ASSUME NEW G, NEW base, NEW cnt, Complete(G, base, cnt), NEW q \in PageId
  PROVE  /\ G[q].par = 0 => G[q].tab \in Table /\ roots[G[q].tab] = q
         /\ G[q].par # 0 => G[q].par \in PageId /\ IsChild(G[q].par, G[q].slot, q)
         /\ \A p \in PageId : \A i : IsChild(p, i, q) =>
              /\ p = G[q].par /\ i = G[q].slot
              /\ G[p].tab = G[q].tab /\ G[p].ht = G[q].ht + 1 /\ q < p
         /\ \A t \in Table : /\ roots[t] \in PageId
                             /\ roots[t] = q => G[q].tab = t /\ G[q].par = 0
<1>1. IndexOK /\ DOMAIN roots = Table /\ \A p \in PageId : G[p].ht \in Nat
  BY CompletePages
<1>2. Referenced(G) /\ RootsBuilt(G, cnt) /\ level = <<>>
  BY DEF Complete, Built, LevelBuilt
<1>3. DOMAIN level = {}
  BY <1>2
<1>4. /\ G[q].par = 0 => G[q].tab \in Table /\ roots[G[q].tab] = q
      /\ G[q].par # 0 => G[q].par \in PageId /\ IsChild(G[q].par, G[q].slot, q)
  BY <1>1, <1>2, <1>3 DEF Referenced
<1>5. ASSUME NEW p \in PageId, NEW i, IsChild(p, i, q)
      PROVE  /\ p = G[q].par /\ i = G[q].slot
             /\ G[p].tab = G[q].tab /\ G[p].ht = G[q].ht + 1 /\ q < p
  <2>1. ~Leaf(p) /\ i \in DOMAIN pages[p].children /\ q = pages[p].children[i]
    BY <1>5 DEF IsChild
  <2> DEFINE c == pages[p].children
             n == Len(c)
  <2>2. /\ DOMAIN c = 1 .. n
        /\ \A j \in 1 .. n : /\ G[c[j]].tab = G[p].tab /\ G[c[j]].ht + 1 = G[p].ht
                             /\ G[c[j]].par = p /\ G[c[j]].slot = j /\ c[j] < p
    <3>1. Family(G, p)  BY <2>1, CompleteChildren
    <3> QED BY ONLY <3>1, Zenon DEF Family
  <2> QED BY <2>1, <2>2
<1>6. \A t \in Table : /\ roots[t] \in PageId
                       /\ roots[t] = q => G[q].tab = t /\ G[q].par = 0
  BY <1>1, <1>2 DEF RootsBuilt, IndexOK
<1> QED BY <1>4, <1>5, <1>6

\* The pages of a table, by their heights.
LEMMA CompleteDepth ==
  ASSUME NEW G, NEW base, NEW cnt, Complete(G, base, cnt), NEW t \in Table
  PROVE  /\ \A d \in 0 .. Len(pages) : \A p \in Depth(t)[d] :
              p \in PageId /\ G[p].tab = t /\ G[p].ht + d = G[roots[t]].ht
         /\ \A p \in PageId : G[p].tab = t => \E d \in 0 .. Len(pages) : p \in Depth(t)[d]
<1> DEFINE N == Len(pages)
           H == G[roots[t]].ht
           Good(d) == \A p \in Depth(t)[d] : G[p].tab = t /\ G[p].ht + d = H
           Bad == {d \in 0 .. N : ~Good(d)}
           Lost == {p \in PageId : G[p].tab = t /\ ~ \E d \in 0 .. N : p \in Depth(t)[d]}
<1>1. /\ IndexOK /\ N \in Nat /\ PageId = 1 .. N
      /\ \A p \in PageId : G[p].ht \in Nat /\ G[p].ht < p
  BY CompletePages
<1>2. /\ \A q : q \in Depth(t)[0] <=> q = roots[t]
      /\ \A d \in 1 .. N : \A q : q \in Depth(t)[d] <=> \E p \in Depth(t)[d - 1] : \E i : IsChild(p, i, q)
      /\ \A d \in 0 .. N : Depth(t)[d] \subseteq PageId
  BY <1>1, DepthMembers
<1>3. roots[t] \in PageId /\ G[roots[t]].tab = t
  <2>1. roots[t] \in PageId
    BY <1>1 DEF IndexOK
  <2> QED BY <2>1, CompleteReference
<1>4. H \in Nat /\ H < N
  <2> HIDE DEF N
  <2> QED BY <1>1, <1>3
<1> HIDE DEF N, H
<1>5. Bad = {}
  <2> SUFFICES ASSUME Bad # {} PROVE FALSE
    OBVIOUS
  <2>1. PICK d \in Bad : \A e \in Bad : d <= e
    <3>1. Bad \in SUBSET Nat
      BY <1>1
    <3> HIDE DEF Bad
    <3> QED BY <3>1, LeastNatural
  <2>2. d \in 0 .. N /\ ~Good(d)
    BY <2>1
  <2>3. d # 0
    <3>1. Good(0)
      BY <1>2, <1>3, <1>1 DEF H
    <3> QED BY <2>2, <3>1
  <2>4. d - 1 \in 0 .. N /\ d \in 1 .. N /\ ~(d <= d - 1)
    BY <1>1, <2>2, <2>3
  <2>5. Good(d - 1)
    <3>1. d - 1 \notin Bad
      <4> HIDE DEF Bad
      <4> QED BY <2>1, <2>4
    <3> HIDE DEF Good
    <3> QED BY <2>4, <3>1
  <2>6. ASSUME NEW q \in Depth(t)[d] PROVE G[q].tab = t /\ G[q].ht + d = H
    <3>1. PICK p \in Depth(t)[d - 1] : \E i : IsChild(p, i, q)
      BY <1>2, <2>4
    <3>2. PICK i : IsChild(p, i, q)
      BY <3>1
    <3>3. p \in PageId /\ q \in PageId
      BY <1>2, <2>4
    <3>4. G[p].tab = G[q].tab /\ G[p].ht = G[q].ht + 1
      BY <3>2, <3>3, CompleteReference
    <3>5. G[p].tab = t /\ G[p].ht + (d - 1) = H
      BY <2>5
    <3>6. G[q].ht \in Nat
      BY <1>1, <3>3
    <3> QED BY <1>4, <2>4, <3>4, <3>5, <3>6
  <2> QED BY <2>2, <2>6
<1>6. \A d \in 0 .. N : Good(d)
  <2> HIDE DEF Good
  <2> QED BY <1>5
<1>7. Lost = {}
  <2> SUFFICES ASSUME Lost # {} PROVE FALSE
    OBVIOUS
  <2> DEFINE far == {N - p : p \in Lost}
  <2>1. far \in SUBSET Nat /\ far # {}
    BY <1>1
  <2>2. PICK m \in far : \A k \in far : m <= k
    <3> HIDE DEF far
    <3> QED BY <2>1, LeastNatural
  <2>3. PICK q \in Lost : m = N - q
    BY <2>2
  <2>4. q \in PageId /\ G[q].tab = t /\ \A d \in 0 .. N : q \notin Depth(t)[d]
    BY <2>3
  <2>5. ASSUME NEW p \in PageId, q < p PROVE p \notin Lost
    <3>1. ~(N - q <= N - p)
      BY <1>1, <2>4, <2>5
    <3> HIDE DEF Lost
    <3> QED BY <2>2, <2>3, <3>1
  <2>6. G[q].par # 0
    <3>1. 0 \in 0 .. N
      BY <1>1
    <3> QED BY <1>2, <2>4, <3>1, CompleteReference
  <2> DEFINE p == G[q].par
  <2>7. p \in PageId /\ IsChild(p, G[q].slot, q)
    BY <2>4, <2>6, CompleteReference
  <2>8. G[p].tab = t /\ q < p /\ G[p].ht = G[q].ht + 1
    BY <2>4, <2>7, CompleteReference
  <2> HIDE DEF p
  <2>9. PICK d \in 0 .. N : p \in Depth(t)[d]
    BY <2>5, <2>7, <2>8
  <2>10. G[p].ht + d = H
    BY <1>6, <2>9
  <2>11. d + 1 \in 1 .. N /\ d + 1 - 1 = d
    BY <1>1, <1>4, <2>4, <2>8, <2>9, <2>10
  <2>12. q \in Depth(t)[d + 1]
    BY <1>2, <2>7, <2>9, <2>11
  <2>13. d + 1 \in 0 .. N
    BY <1>1, <2>11
  <2> QED BY <2>4, <2>12, <2>13
<1>8. \A d \in 0 .. N : \A p \in Depth(t)[d] : p \in PageId
  BY <1>2
<1> QED BY <1>6, <1>7, <1>8 DEF N, H

LEMMA CompletePagesOf ==
  ASSUME NEW G, NEW base, NEW cnt, Complete(G, base, cnt), NEW t \in Table
  PROVE  /\ PagesOf(t) = {p \in PageId : G[p].tab = t}
         /\ LeavesOf(t) = {p \in PageId : G[p].tab = t /\ Leaf(p)}
<1>1. PagesOf(t) = {p \in PageId : G[p].tab = t}
  BY CompleteDepth DEF PagesOf
<1> QED BY <1>1 DEF LeavesOf

LEMMA CompleteIsForest ==
  ASSUME NEW G, NEW base, NEW cnt, Complete(G, base, cnt)
  PROVE  IsForest
<1>1. UNION {PagesOf(t) : t \in Table} = PageId
  <2>1. \A p \in PageId : G[p].tab \in Table
    BY CompletePages
  <2>2. \A t \in Table : PagesOf(t) = {p \in PageId : G[p].tab = t}
    BY CompletePagesOf
  <2> QED BY <2>1, <2>2
<1>2. ASSUME NEW p \in PageId
      PROVE  Cardinality(RootsAt(p)) + Cardinality(SlotsWith(p)) = 1
  <2>1. 0 \notin PageId
    BY CompletePages
  <2>2. CASE G[p].par = 0
    <3>1. SlotsWith(p) = {}
      <4>1. \A q \in PageId : \A i : ~IsChild(q, i, p)
        BY <2>1, <2>2, CompleteReference
      <4> QED BY <4>1, SlotIsChild
    <3>2. RootsAt(p) = {G[p].tab}
      BY <2>2, CompleteReference DEF RootsAt
    <3>3. Cardinality(SlotsWith(p)) = 0
      BY <3>1, FS_EmptySet
    <3>4. Cardinality(RootsAt(p)) = 1
      BY <3>2, FS_Singleton
    <3> QED BY <3>3, <3>4
  <2>3. CASE G[p].par # 0
    <3>1. RootsAt(p) = {}
      BY <2>3, CompleteReference DEF RootsAt
    <3>2. SlotsWith(p) = {<<G[p].par, G[p].slot>>}
      <4>1. \A s : s \in SlotsWith(p) <=> s = <<G[p].par, G[p].slot>>
        <5>1. \A s : s \in SlotsWith(p) <=> \E q \in PageId : \E i : s = <<q, i>> /\ IsChild(q, i, p)
          BY SlotIsChild
        <5>2. \A q \in PageId : \A i : IsChild(q, i, p) => q = G[p].par /\ i = G[p].slot
          BY CompleteReference
        <5>3. G[p].par \in PageId /\ IsChild(G[p].par, G[p].slot, p)
          BY <2>3, CompleteReference
        <5> QED BY <5>1, <5>2, <5>3
      <4> QED BY <4>1
    <3>3. Cardinality(RootsAt(p)) = 0
      BY <3>1, FS_EmptySet
    <3>4. Cardinality(SlotsWith(p)) = 1
      BY <3>2, FS_Singleton
    <3> QED BY <3>3, <3>4
  <2> QED BY <2>2, <2>3
<1>3. \A p \in PageId : Cardinality({t \in Table : roots[t] = p})
         + Cardinality({s \in UNION {ChildSlots(q) : q \in PageId} :
                          pages[s[1]].children[s[2]] = p}) = 1
  BY <1>2 DEF RootsAt, SlotsWith
<1> QED BY <1>1, <1>3 DEF IsForest

LEMMA CompleteIsBalanced ==
  ASSUME NEW G, NEW base, NEW cnt, Complete(G, base, cnt), NEW t \in Table
  PROVE  IsBalanced(t)
<1> DEFINE H == G[roots[t]].ht
<1>1. ASSUME NEW p \in LeavesOf(t) PROVE \A d \in 0 .. Len(pages) : p \in Depth(t)[d] <=> d = H
  <2>1. p \in PageId /\ G[p].tab = t /\ Leaf(p)
    BY CompletePagesOf
  <2>2. G[p].ht = 0
    BY <2>1, CompleteLeaf
  <2>3. PICK d \in 0 .. Len(pages) : p \in Depth(t)[d]
    BY <2>1, CompleteDepth
  <2>4. \A e \in 0 .. Len(pages) : p \in Depth(t)[e] => G[p].ht + e = H
    BY CompleteDepth
  <2> HIDE DEF H
  <2>5. \A e \in 0 .. Len(pages) : p \in Depth(t)[e] => e = H
    BY <2>2, <2>4
  <2> QED BY <2>3, <2>5
<1> HIDE DEF H
<1> QED BY <1>1 DEF IsBalanced

\* Every position of a table is in one leaf.
LEMMA LeafOfPosition ==
  ASSUME TablesOK, NEW c \in Nat, NumPoints <= c * LeafCapacity
  PROVE  /\ \A x \in 1 .. NumPoints : \E k \in 1 .. c : LeafStart(k) <= x /\ x <= LeafEnd(k)
         /\ \A x \in Int : \A k, m \in 1 .. c :
              LeafStart(k) <= x /\ x <= LeafEnd(k) /\ LeafStart(m) <= x /\ x <= LeafEnd(m) => k = m
         /\ \A k \in 1 .. c - 1 : (k - 1) * LeafCapacity + LeafCapacity = k * LeafCapacity
<1> DEFINE C == LeafCapacity
           n == NumPoints
<1>1. C \in Nat \ {0} /\ n \in Nat \ {0}
  BY BPlusTreeAssumption DEF TablesOK
<1> HIDE DEF C, n
<1>2. \A k \in Nat : k * C \in Nat /\ (k - 1) * C \in Int /\ (k - 1) * C + C = k * C
  <2> SUFFICES ASSUME NEW k \in Nat PROVE k * C \in Nat /\ (k - 1) * C \in Int /\ (k - 1) * C + C = k * C
    OBVIOUS
  <2>1. C \in Nat
    BY <1>1
  <2> QED BY ONLY <2>1, k \in Nat
<1>3. \A k, m \in Nat : k < m => k * C <= (m - 1) * C
  <2> SUFFICES ASSUME NEW k \in Nat, NEW m \in Nat, k < m PROVE k * C <= (m - 1) * C
    OBVIOUS
  <2>1. C \in Nat /\ m - 1 - k \in Nat
    BY <1>1
  <2>2. (m - 1 - k) * C \in Nat
    BY ONLY <2>1
  <2>3. (m - 1) * C = k * C + (m - 1 - k) * C
    BY ONLY <2>1, k \in Nat, m \in Nat
  <2>4. k * C \in Nat
    BY ONLY <2>1, k \in Nat
  <2> DEFINE a == k * C
             b == (m - 1 - k) * C
  <2> HIDE DEF a, b
  <2>5. a <= a + b
    BY <2>2, <2>4 DEF a, b
  <2> QED BY <2>3, <2>5 DEF a, b
<1>4. ASSUME NEW x \in 1 .. n PROVE \E k \in 1 .. c : LeafStart(k) <= x /\ x <= LeafEnd(k)
  <2> DEFINE T == {k \in Nat : x <= k * C}
  <2>1. c \in T
    <3>1. n <= c * C /\ c * C \in Nat
      BY <1>2 DEF n, C
    <3> DEFINE a == c * C
    <3> HIDE DEF a
    <3>2. x <= a
      BY <1>1, <3>1 DEF a
    <3> QED BY <3>2 DEF a
  <2>2. PICK k \in T : \A j \in T : k <= j
    <3>1. T \in SUBSET Nat /\ T # {}
      BY <2>1
    <3> HIDE DEF T
    <3> QED BY <3>1, LeastNatural
  <2>3. k \in Nat /\ x <= k * C /\ k <= c
    BY <2>1, <2>2
  <2>4. k # 0
    <3>1. 0 * C = 0
      BY <1>1
    <3> QED BY <1>1, <2>3, <3>1
  <2>5. k - 1 \in Nat /\ k - 1 \notin T
    <3>1. k - 1 \in Nat /\ ~(k <= k - 1)
      BY <2>3, <2>4
    <3> HIDE DEF T
    <3> QED BY <2>2, <3>1
  <2>6. ~(x <= (k - 1) * C)
    BY <2>5
  <2>7. (k - 1) * C \in Int /\ (k - 1) * C + C = k * C /\ k * C \in Nat
    BY <1>2, <2>3
  <2> DEFINE a == (k - 1) * C
  <2> HIDE DEF a
  <2>8. a + 1 <= x /\ x <= a + C /\ x <= n
    BY <1>1, <2>3, <2>6, <2>7 DEF a
  <2>9. a \in Int
    BY <2>7 DEF a
  <2>10. LeafStart(k) = a + 1 /\ LeafEnd(k) = SmallerOf(a + C, n)
    BY DEF LeafStart, LeafEnd, a, C, n
  <2>11. LeafStart(k) <= x /\ x <= LeafEnd(k)
    BY <2>8, <2>10 DEF SmallerOf
  <2> QED BY <2>3, <2>4, <2>11
<1>5. ASSUME NEW x \in Int, NEW k \in Nat, NEW m \in Nat,
             LeafStart(k) <= x, x <= LeafEnd(k), LeafStart(m) <= x, x <= LeafEnd(m)
      PROVE  ~(k < m)
  <2> SUFFICES ASSUME k < m PROVE FALSE
    OBVIOUS
  <2> DEFINE a == k * C
             b == (m - 1) * C
             d == (k - 1) * C
  <2>1. a \in Nat /\ b \in Int /\ d \in Int /\ d + C = a /\ a <= b
    BY <1>2, <1>3
  <2>2. LeafEnd(k) = SmallerOf(d + C, n) /\ LeafStart(m) = b + 1
    BY DEF LeafStart, LeafEnd, C, n
  <2> HIDE DEF a, b, d
  <2>3. LeafEnd(k) <= a
    BY <1>1, <2>1, <2>2 DEF SmallerOf
  <2>4. LeafEnd(k) \in Int
    BY <1>1, <2>1, <2>2 DEF SmallerOf
  <2> QED BY <1>5, <2>1, <2>2, <2>3, <2>4
<1>6. ASSUME NEW x \in Int, NEW k \in 1 .. c, NEW m \in 1 .. c,
             LeafStart(k) <= x, x <= LeafEnd(k), LeafStart(m) <= x, x <= LeafEnd(m)
      PROVE  k = m
  <2>1. ~(k < m) /\ ~(m < k)
    BY <1>5, <1>6
  <2> QED BY <2>1
<1>7. \A k \in 1 .. c - 1 : (k - 1) * C + C = k * C
  BY <1>2
<1> QED BY <1>4, <1>6, <1>7 DEF n, C

\* The leaves of a table, one after the other.
LEMMA CompleteLeaves ==
  ASSUME NEW G, NEW base, NEW cnt, Complete(G, base, cnt), NEW t \in Table
  PROVE  /\ cnt[t] \in Nat \ {0} /\ base[t] \in Nat /\ NumPoints <= cnt[t] * LeafCapacity
         /\ LeavesOf(t) = {base[t] + k : k \in 1 .. cnt[t]}
         /\ \A k \in 1 .. cnt[t] :
              LET p == base[t] + k
              IN  /\ p \in PageId /\ Leaf(p) /\ G[p].tab = t /\ p - base[t] = k
                  /\ p \in LeavesOf(t)
                  /\ pages[p].previous = (IF k = 1 THEN 0 ELSE p - 1)
                  /\ pages[p].next = (IF k = cnt[t] THEN 0 ELSE p + 1)
                  /\ G[p].lo = LeafStart(k) /\ G[p].hi = LeafEnd(k)
<1>1. /\ t \in DOMAIN roots /\ t \in Nat /\ t \in 1 .. Len(roots) + 1 /\ PageId \subseteq Nat
      /\ TablesOK
  <2>1. DOMAIN roots = Table /\ Table = 1 .. Len(roots) /\ Len(roots) \in Nat
        /\ PageId = 1 .. Len(pages) /\ Len(pages) \in Nat /\ TablesOK
    BY CompletePages
  <2> QED BY <2>1
<1>2. cnt[t] \in Nat /\ base[t] \in Nat
  BY <1>1 DEF Complete, Built, Functions
<1>3. NumPoints <= cnt[t] * LeafCapacity
  BY <1>1 DEF Complete, Built, RootsBuilt
<1>4. cnt[t] # 0
  <2> SUFFICES ASSUME cnt[t] = 0 PROVE FALSE
    OBVIOUS
  <2>1. 0 * LeafCapacity = 0
    BY BPlusTreeAssumption
  <2> QED BY <1>1, <1>3, <2>1 DEF TablesOK
<1>5. \A k \in 1 .. cnt[t] : base[t] + k \in PageId /\ Leaf(base[t] + k) /\ G[base[t] + k].tab = t
  BY <1>1 DEF Complete, Built, LeavesBuilt
<1>6. LeavesOf(t) = {p \in PageId : G[p].tab = t /\ Leaf(p)}
  BY CompletePagesOf
<1>7. LeavesOf(t) = {base[t] + k : k \in 1 .. cnt[t]}
  <2>1. ASSUME NEW p \in LeavesOf(t) PROVE \E k \in 1 .. cnt[t] : p = base[t] + k
    <3>1. p \in PageId /\ Leaf(p) /\ G[p].tab = t
      BY <1>6
    <3>2. p - base[t] \in 1 .. cnt[t]
      BY <3>1, CompleteLeaf
    <3>3. p = base[t] + (p - base[t])
      BY <1>1, <1>2, <3>1
    <3> QED BY <3>2, <3>3
  <2> QED BY <1>5, <1>6, <2>1
<1>8. ASSUME NEW k \in 1 .. cnt[t]
      PROVE  LET p == base[t] + k
             IN  /\ p \in PageId /\ Leaf(p) /\ G[p].tab = t /\ p - base[t] = k
                 /\ p \in LeavesOf(t)
                 /\ pages[p].previous = (IF k = 1 THEN 0 ELSE p - 1)
                 /\ pages[p].next = (IF k = cnt[t] THEN 0 ELSE p + 1)
                 /\ G[p].lo = LeafStart(k) /\ G[p].hi = LeafEnd(k)
  <2> DEFINE p == base[t] + k
  <2>1. p \in PageId /\ Leaf(p) /\ G[p].tab = t
    BY <1>5
  <2>2. p - base[t] = k
    BY <1>2
  <2> HIDE DEF p
  <2>3. /\ pages[p].previous = (IF k = 1 THEN 0 ELSE p - 1)
        /\ pages[p].next = (IF k = cnt[t] THEN 0 ELSE p + 1)
        /\ G[p].lo = LeafStart(k) /\ G[p].hi = LeafEnd(k)
    BY <2>1, <2>2, CompleteLeaf
  <2>4. p \in LeavesOf(t)
    BY <1>6, <2>1
  <2> QED BY <2>1, <2>2, <2>3, <2>4 DEF p
<1> QED BY <1>2, <1>3, <1>4, <1>7, <1>8

LEMMA CompleteHasAllPoints ==
  ASSUME NEW G, NEW base, NEW cnt, Complete(G, base, cnt), NEW t \in Table
  PROVE  HasAllPoints(t)
<1> DEFINE n == NumPoints
           all == entries[t]
           used == {s \in {<<p, i>> : p \in LeavesOf(t), i \in 1 .. LeafCapacity} :
                      s[2] \in DOMAIN pages[s[1]].entries}
           at(s) == pages[s[1]].entries[s[2]]
           pos(s) == G[s[1]].lo + s[2] - 1
           h == [x \in 1 .. n |-> CHOOSE s \in used : pos(s) = x]
<1>1. TablesOK /\ n \in Nat \ {0} /\ \A x, y \in 1 .. n : all[x].id = all[y].id => x = y
  BY CompletePages, TableOrder
<1>2. /\ cnt[t] \in Nat \ {0} /\ base[t] \in Nat /\ n <= cnt[t] * LeafCapacity
      /\ \A p \in LeavesOf(t) : \E k \in 1 .. cnt[t] : p = base[t] + k
      /\ \A k \in 1 .. cnt[t] :
           /\ base[t] + k \in LeavesOf(t)
           /\ G[base[t] + k].lo = LeafStart(k) /\ G[base[t] + k].hi = LeafEnd(k)
  BY CompleteLeaves
<1>3. ASSUME NEW p \in LeavesOf(t)
      PROVE  /\ G[p].lo \in 1 .. n /\ G[p].hi \in 1 .. n /\ G[p].lo <= G[p].hi
             /\ G[p].hi - G[p].lo + 1 \in 1 .. LeafCapacity
             /\ DOMAIN pages[p].entries = 1 .. G[p].hi - G[p].lo + 1
             /\ \A i \in 1 .. G[p].hi - G[p].lo + 1 : pages[p].entries[i] = all[G[p].lo + i - 1]
  <2>1. p \in PageId /\ G[p].tab = t /\ Leaf(p)
    BY CompletePagesOf
  <2>2. G[p].lo \in 1 .. n /\ G[p].hi \in 1 .. n /\ G[p].lo <= G[p].hi
    BY <2>1, CompletePages
  <2> HIDE DEF n
  <2> QED BY <2>1, <2>2, CompleteLeaf
<1>4. \A s : s \in used <=> \E p \in LeavesOf(t) : \E i \in 1 .. G[p].hi - G[p].lo + 1 : s = <<p, i>>
  <2>1. ASSUME NEW p \in LeavesOf(t), NEW i \in 1 .. G[p].hi - G[p].lo + 1 PROVE i \in 1 .. LeafCapacity
    <3> DEFINE m == G[p].hi - G[p].lo + 1
    <3>1. m \in 1 .. LeafCapacity /\ LeafCapacity \in Nat
      BY <1>3, BPlusTreeAssumption
    <3> HIDE DEF m
    <3>2. i \in 1 .. m
      BY DEF m
    <3> QED BY <3>1, <3>2
  <2>2. \A s : s \in used <=> \E p \in LeavesOf(t) : \E i \in 1 .. LeafCapacity :
                                 s = <<p, i>> /\ i \in DOMAIN pages[p].entries
    OBVIOUS
  <2> HIDE DEF used
  <2> QED BY <1>3, <2>1, <2>2
<1> HIDE DEF n, used, all
<1>5. ASSUME NEW p \in LeavesOf(t), NEW i \in 1 .. G[p].hi - G[p].lo + 1
      PROVE  /\ G[p].lo + i - 1 \in 1 .. n
             /\ G[p].lo <= G[p].lo + i - 1 /\ G[p].lo + i - 1 <= G[p].hi
  BY <1>1, <1>3
<1>6. \A s \in used : pos(s) \in 1 .. n /\ at(s) = all[pos(s)]
  <2> SUFFICES ASSUME NEW s \in used PROVE pos(s) \in 1 .. n /\ at(s) = all[pos(s)]
    OBVIOUS
  <2>1. PICK p \in LeavesOf(t) : \E i \in 1 .. G[p].hi - G[p].lo + 1 : s = <<p, i>>
    BY <1>4
  <2>2. PICK i \in 1 .. G[p].hi - G[p].lo + 1 : s = <<p, i>>
    BY <2>1
  <2>3. s[1] = p /\ s[2] = i
    BY <2>2
  <2> QED BY <1>3, <1>5, <2>3
<1>7. \A r, s \in used : pos(r) = pos(s) => r = s
  <2> SUFFICES ASSUME NEW r \in used, NEW s \in used, pos(r) = pos(s) PROVE r = s
    OBVIOUS
  <2>1. PICK p \in LeavesOf(t) : \E i \in 1 .. G[p].hi - G[p].lo + 1 : r = <<p, i>>
    BY <1>4
  <2>2. PICK i \in 1 .. G[p].hi - G[p].lo + 1 : r = <<p, i>>
    BY <2>1
  <2>3. PICK q \in LeavesOf(t) : \E j \in 1 .. G[q].hi - G[q].lo + 1 : s = <<q, j>>
    BY <1>4
  <2>4. PICK j \in 1 .. G[q].hi - G[q].lo + 1 : s = <<q, j>>
    BY <2>3
  <2>5. PICK k \in 1 .. cnt[t] : p = base[t] + k
    BY <1>2
  <2>6. PICK m \in 1 .. cnt[t] : q = base[t] + m
    BY <1>2
  <2> DEFINE x == G[p].lo + i - 1
             y == G[q].lo + j - 1
  <2>7. x = y
    BY <2>2, <2>4
  <2>8. x \in 1 .. n /\ LeafStart(k) <= x /\ x <= LeafEnd(k) /\ LeafStart(m) <= y /\ y <= LeafEnd(m)
    <3>1. /\ G[p].lo = LeafStart(k) /\ G[p].hi = LeafEnd(k)
          /\ G[q].lo = LeafStart(m) /\ G[q].hi = LeafEnd(m)
      BY <1>2, <2>5, <2>6
    <3> QED BY <1>5, <3>1
  <2> HIDE DEF x, y
  <2>9. k = m
    <3>1. cnt[t] \in Nat /\ NumPoints <= cnt[t] * LeafCapacity /\ x \in Int
      BY <1>2, <2>8 DEF n
    <3>2. \A z \in Int : \A a, b \in 1 .. cnt[t] :
              LeafStart(a) <= z /\ z <= LeafEnd(a) /\ LeafStart(b) <= z /\ z <= LeafEnd(b) => a = b
      BY <1>1, <3>1, LeafOfPosition
    <3> QED BY <2>7, <2>8, <3>1, <3>2
  <2>10. p = q
    BY <2>5, <2>6, <2>9
  <2>11. G[p].lo \in Int /\ i \in Int /\ j \in Int
    BY <1>3, <2>10
  <2>12. i = j
    BY <2>7, <2>10, <2>11 DEF x, y
  <2> QED BY <2>2, <2>4, <2>10, <2>12
<1>8. \A x \in 1 .. n : \E s \in used : pos(s) = x
  <2> SUFFICES ASSUME NEW x \in 1 .. n PROVE \E s \in used : pos(s) = x
    OBVIOUS
  <2>1. PICK k \in 1 .. cnt[t] : LeafStart(k) <= x /\ x <= LeafEnd(k)
    <3>1. cnt[t] \in Nat /\ NumPoints <= cnt[t] * LeafCapacity
      BY <1>2 DEF n
    <3> QED BY <1>1, <3>1, LeafOfPosition DEF n
  <2> DEFINE p == base[t] + k
             i == x - G[p].lo + 1
  <2>2. p \in LeavesOf(t) /\ G[p].lo = LeafStart(k) /\ G[p].hi = LeafEnd(k)
    BY <1>2
  <2> HIDE DEF p
  <2>3. G[p].lo \in Int /\ G[p].hi \in Int
    BY <1>3, <2>2
  <2>4. i \in 1 .. G[p].hi - G[p].lo + 1 /\ G[p].lo + i - 1 = x
    BY <2>1, <2>2, <2>3
  <2> HIDE DEF i
  <2>5. <<p, i>> \in used
    BY <1>4, <2>2, <2>4
  <2>6. pos(<<p, i>>) = x
    BY <2>4
  <2> QED BY <2>5, <2>6
<1> HIDE DEF pos, at
<1>9. h \in Bijection(1 .. n, used)
  <2>1. \A x \in 1 .. n : h[x] \in used /\ pos(h[x]) = x
    BY <1>8
  <2>2. h \in [1 .. n -> used]
    BY <2>1
  <2> HIDE DEF h
  <2>3. \A s \in used : h[pos(s)] = s
    BY <1>6, <1>7, <2>1
  <2>4. \A s \in used : \E x \in 1 .. n : h[x] = s
    BY <1>6, <2>3
  <2>5. \A x, y \in 1 .. n : h[x] = h[y] => x = y
    BY <2>1
  <2> QED BY <2>2, <2>4, <2>5 DEF Bijection, Injection, Surjection, IsInjective
<1>10. Cardinality(used) = n
  <2>1. ExistsBijection(1 .. n, used)
    BY <1>9 DEF ExistsBijection
  <2>2. IsFiniteSet(1 .. n) /\ Cardinality(1 .. n) = n
    BY <1>1, CountUpTo
  <2> QED BY <2>1, <2>2, FS_Bijection
<1>11. \A r, s \in used : at(r).id = at(s).id => r = s
  BY <1>1, <1>6, <1>7
<1> QED BY <1>10, <1>11 DEF HasAllPoints, used, n, at

LEMMA CompleteLinksAgree ==
  ASSUME NEW G, NEW base, NEW cnt, Complete(G, base, cnt), NEW t \in Table
  PROVE  LinksAgree(t)
<1> DEFINE leaf(k) == base[t] + k
<1>1. /\ cnt[t] \in Nat \ {0} /\ base[t] \in Nat
      /\ \A p \in LeavesOf(t) : \E k \in 1 .. cnt[t] : p = base[t] + k
      /\ \A k \in 1 .. cnt[t] :
           LET p == base[t] + k
           IN  /\ p \in LeavesOf(t)
               /\ pages[p].previous = (IF k = 1 THEN 0 ELSE p - 1)
               /\ pages[p].next = (IF k = cnt[t] THEN 0 ELSE p + 1)
  BY CompleteLeaves
<1>2. \A k \in 1 .. cnt[t] : /\ leaf(k) \in LeavesOf(t)
                             /\ k # 1 => pages[leaf(k)].previous = leaf(k - 1) /\ k - 1 \in 1 .. cnt[t]
                             /\ k # cnt[t] => pages[leaf(k)].next = leaf(k + 1) /\ k + 1 \in 1 .. cnt[t]
                             /\ k = 1 => pages[leaf(k)].previous = 0
                             /\ k = cnt[t] => pages[leaf(k)].next = 0
                             /\ k + 1 - 1 = k /\ k - 1 + 1 = k /\ k + 1 # 1 /\ k - 1 # cnt[t]
  BY <1>1
<1>3. \A p \in LeavesOf(t) : \E k \in 1 .. cnt[t] : p = leaf(k)
  BY <1>1
<1> HIDE DEF leaf
<1>4. ASSUME NEW p \in LeavesOf(t)
      PROVE  /\ pages[p].previous # 0 =>
                  pages[p].previous \in LeavesOf(t) /\ pages[pages[p].previous].next = p
             /\ pages[p].next # 0 =>
                  pages[p].next \in LeavesOf(t) /\ pages[pages[p].next].previous = p
  <2>1. PICK k \in 1 .. cnt[t] : p = leaf(k)
    BY <1>3
  <2>2. pages[p].previous # 0 =>
          pages[p].previous \in LeavesOf(t) /\ pages[pages[p].previous].next = p
    BY <1>2, <2>1
  <2>3. pages[p].next # 0 => pages[p].next \in LeavesOf(t) /\ pages[pages[p].next].previous = p
    BY <1>2, <2>1
  <2> QED BY <2>2, <2>3
<1> QED BY <1>4 DEF LinksAgree

LEMMA CompleteChainIsValid ==
  ASSUME NEW G, NEW base, NEW cnt, Complete(G, base, cnt), NEW t \in Table
  PROVE  ChainIsValid(t)
<1> DEFINE leaf(k) == base[t] + k
           m == cnt[t]
           c == Chain(t)
           all == entries[t]
<1>1. /\ m \in Nat \ {0} /\ base[t] \in Nat
      /\ LeavesOf(t) = {leaf(k) : k \in 1 .. m}
      /\ \A k \in 1 .. m :
           /\ leaf(k) \in PageId /\ leaf(k) \in LeavesOf(t) /\ leaf(k) # 0 /\ G[leaf(k)].tab = t
           /\ pages[leaf(k)].previous = (IF k = 1 THEN 0 ELSE leaf(k) - 1)
           /\ pages[leaf(k)].next = (IF k = m THEN 0 ELSE leaf(k) + 1)
           /\ G[leaf(k)].lo = LeafStart(k) /\ G[leaf(k)].hi = LeafEnd(k)
  <2>1. 0 \notin PageId
    BY CompletePages
  <2> QED BY <2>1, CompleteLeaves
<1>2. \A k \in 1 .. m : k # 1 => leaf(k) - 1 # 0
  BY <1>1
<1>3. FirstLeaves(t) = {leaf(1)}
  BY <1>1, <1>2 DEF FirstLeaves
<1>4. \A j, k \in 1 .. m : leaf(j) = leaf(k) => j = k
  BY <1>1
<1>5. \A k \in 1 .. m : leaf(k) + 1 = leaf(k + 1)
  BY <1>1
<1>6. Cardinality(FirstLeaves(t)) = 1
  BY <1>3, FS_Singleton
<1> HIDE DEF leaf, m, c
<1>7. Cardinality(LeavesOf(t)) = m
  <2> DEFINE f == [k \in 1 .. m |-> leaf(k)]
  <2>1. f \in Bijection(1 .. m, LeavesOf(t))
    <3>1. f \in [1 .. m -> LeavesOf(t)] /\ \A k \in 1 .. m : f[k] = leaf(k)
      BY <1>1
    <3> HIDE DEF f
    <3> QED BY <1>1, <1>4, <3>1 DEF Bijection, Injection, Surjection, IsInjective
  <2>2. ExistsBijection(1 .. m, LeavesOf(t))
    BY <2>1 DEF ExistsBijection
  <2> QED BY <1>1, <2>2, CountUpTo, FS_Bijection
<1>8. /\ DOMAIN c = 1 .. m /\ Len(c) = m
      /\ c[1] \in FirstLeaves(t)
      /\ \A k \in 2 .. m : c[k - 1] # 0 => c[k] = pages[c[k - 1]].next
  <2>1. IndexOK /\ PagesOf(t) \subseteq PageId
    BY CompletePages, CompletePagesOf
  <2>2. m > 0
    BY <1>1
  <2> QED BY <1>6, <1>7, <2>1, <2>2, ChainRecursion DEF c
<1>9. \A k \in 1 .. m : c[k] = leaf(k)
  <2> DEFINE Bad == {k \in 1 .. m : c[k] # leaf(k)}
  <2> SUFFICES ASSUME Bad # {} PROVE FALSE
    OBVIOUS
  <2>1. PICK k \in Bad : \A j \in Bad : k <= j
    <3>1. Bad \in SUBSET Nat
      BY <1>1
    <3> HIDE DEF Bad
    <3> QED BY <3>1, LeastNatural
  <2>2. k \in 1 .. m /\ c[k] # leaf(k) /\ k # 1
    BY <1>3, <1>8, <2>1
  <2>3. k - 1 \in 1 .. m /\ k \in 2 .. m /\ ~(k <= k - 1) /\ k - 1 + 1 = k /\ k - 1 # m
    BY <1>1, <2>2
  <2>4. c[k - 1] = leaf(k - 1)
    <3>1. k - 1 \notin Bad
      <4> HIDE DEF Bad
      <4> QED BY <2>1, <2>3
    <3> QED BY <2>3, <3>1
  <2>5. c[k] = pages[leaf(k - 1)].next
    BY <1>1, <1>8, <2>3, <2>4, SMTT(60)
  <2>6. pages[leaf(k - 1)].next = leaf(k - 1) + 1
    BY <1>1, <2>3
  <2>7. leaf(k - 1) + 1 = leaf(k)
    BY <1>5, <2>3
  <2> QED BY <2>2, <2>5, <2>6, <2>7
<1>10. {c[k] : k \in DOMAIN c} = LeavesOf(t)
  BY <1>1, <1>8, <1>9
<1>11. pages[c[Len(c)]].next = 0
  <2>1. m \in 1 .. m
    BY <1>1
  <2> QED BY <1>1, <1>8, <1>9, <2>1
<1>12. ASSUME NEW k \in 1 .. m - 1 PROVE KeyLess(LastEntry(c[k]), FirstEntry(c[k + 1]))
  <2>1. k \in 1 .. m /\ k + 1 \in 1 .. m /\ k # m /\ k + 1 - 1 = k
    BY <1>1
  <2>2. TablesOK /\ NumPoints \in Nat \ {0} /\ \A x, y \in 1 .. NumPoints : x < y => KeyLess(all[x], all[y])
    BY CompletePages, TableOrder
  <2> DEFINE x == LeafEnd(k)
             y == LeafStart(k + 1)
  <2>3. x \in 1 .. NumPoints /\ y \in 1 .. NumPoints
    <3>1. /\ G[leaf(k)].hi \in 1 .. NumPoints /\ G[leaf(k + 1)].lo \in 1 .. NumPoints
      BY <1>1, <2>1, CompletePages
    <3> QED BY <1>1, <2>1, <3>1
  <2>4. LastEntry(c[k]) = all[x] /\ FirstEntry(c[k + 1]) = all[y]
    BY <1>1, <1>9, <2>1, CompleteEnds
  <2>5. x < y
    <3> DEFINE a == k * LeafCapacity
               b == (k - 1) * LeafCapacity
    <3>1. b + LeafCapacity = a
      <4>1. m \in Nat /\ NumPoints <= m * LeafCapacity
        BY CompleteLeaves DEF m
      <4> QED BY <2>2, <4>1, LeafOfPosition
    <3>2. x = SmallerOf(b + LeafCapacity, NumPoints)
      BY DEF LeafEnd
    <3>3. y = a + 1
      BY <2>1 DEF LeafStart
    <3>4. a \in Nat
      BY <2>1, BPlusTreeAssumption
    <3> HIDE DEF a, b, x, y
    <3>5. x = SmallerOf(a, NumPoints)
      BY <3>1, <3>2
    <3> QED BY <2>2, <3>3, <3>4, <3>5 DEF SmallerOf
  <2> HIDE DEF x, y
  <2> QED BY <2>2, <2>3, <2>4, <2>5
<1>13. \A k \in 1 .. Len(c) - 1 : KeyLess(LastEntry(c[k]), FirstEntry(c[k + 1]))
  BY <1>8, <1>12
<1> QED BY <1>6, <1>10, <1>11, <1>13 DEF ChainIsValid, c

\* What Build has written, the checks of Open accept.
LEMMA CompleteIsAccepted ==
  ASSUME NEW G, NEW base, NEW cnt, Complete(G, base, cnt)
  PROVE  Accepted
BY CompleteIsValid, CompleteIsForest, CompleteIsBalanced, CompleteIsOrdered, CompleteHasAllPoints,
   CompleteLinksAgree, CompleteChainIsValid DEF Accepted

-----------------------------------------------------------------------------
(* Every step of Build keeps what is known of the pages. *)

LEMMA TreeLengths ==
  ASSUME TreeTypes
  PROVE  /\ Len(roots) \in Nat /\ DOMAIN roots = 1 .. Len(roots)
         /\ \A t \in DOMAIN roots : roots[t] \in PageId
         /\ Len(pages) \in Nat /\ PageId = 1 .. Len(pages)
         /\ \A p \in PageId : pages[p] \in Pages(Len(pages))
         /\ Len(level) \in Nat /\ DOMAIN level = 1 .. Len(level)
         /\ \A i \in DOMAIN level : level[i].page \in PageId /\ level[i].key \in Int
         /\ Len(entries) \in Nat /\ Table = 1 .. Len(entries)
         /\ TablesOK /\ NumPoints \in Nat \ {0} /\ LeafCapacity \in Nat \ {0}
<1> DEFINE N == Len(pages)
<1>1. N \in Nat /\ PageId = 1 .. N /\ \A p \in PageId : pages[p] \in Pages(N)
  BY LenProperties DEF TreeTypes, PageId
<1>2. Len(roots) \in Nat /\ DOMAIN roots = 1 .. Len(roots) /\ \A t \in DOMAIN roots : roots[t] \in 1 .. N
  BY LenProperties DEF TreeTypes
<1>3. Len(level) \in Nat /\ DOMAIN level = 1 .. Len(level) /\ \A i \in DOMAIN level : level[i] \in LevelItems(N)
  BY LenProperties DEF TreeTypes
<1> HIDE DEF N
<1>4. \A i \in DOMAIN level : level[i].page \in 1 .. N /\ level[i].key \in Int
  BY <1>3 DEF LevelItems
<1>5. Len(entries) \in Nat /\ Table = 1 .. Len(entries) /\ TablesOK /\ NumPoints \in Nat \ {0}
  BY DEF TreeTypes, TablesOK, Table
<1> QED BY <1>1, <1>2, <1>3, <1>4, <1>5, BPlusTreeAssumption DEF N

NoInfo == [tab |-> 0, lo |-> 0, hi |-> 0, ht |-> 0, par |-> 0, slot |-> 0]

LEMMA BuiltInit ==
  ASSUME InitTree
  PROVE  \E G, base, cnt : Built(G, base, cnt)
<1> DEFINE G == [p \in Nat |-> NoInfo]
           z == [p \in Nat |-> 0]
<1>1. G \in [Nat -> Info] /\ z \in [Nat -> Nat] /\ z[1] = 0
  BY DEF Info, NoInfo
<1>2. pc = "leaves" /\ pages = <<>> /\ roots = <<>> /\ level = <<>>
  BY DEF InitTree
<1>3. /\ PageId = {} /\ DOMAIN roots = {} /\ DOMAIN level = {}
      /\ Len(roots) = 0 /\ Len(level) = 0 /\ Len(pages) = 0
  BY <1>2 DEF PageId
<1> HIDE DEF G, z
<1>4. Placed(G) /\ ParentsBuilt(G) /\ Referenced(G) /\ RootsBuilt(G, z)
  BY <1>3 DEF Placed, ParentsBuilt, Referenced, RootsBuilt
<1>5. LeavesBuilt(G, z, z)
  <2>1. \A t \in 1 .. Len(roots) + 1 : \A k \in 1 .. z[t] : FALSE
    BY <1>1, <1>3
  <2> QED BY <1>3, <2>1 DEF LeavesBuilt
<1>6. LevelBuilt(G, z, z)
  BY <1>1, <1>2, <1>3 DEF LevelBuilt
<1> QED BY <1>1, <1>4, <1>5, <1>6 DEF Built, Functions

LEMMA NextTable ==
  ASSUME TreeTypes
  PROVE  \E T \in Nat \ {0} : T = Len(roots) + 1 /\ T - 1 = Len(roots)
<1>1. Len(roots) \in Nat
  BY TreeLengths
<1>2. Len(roots) + 1 \in Nat \ {0} /\ (Len(roots) + 1) - 1 = Len(roots)
  BY ONLY <1>1
<1> QED BY <1>2

LEMMA BuiltByRootStep ==
  ASSUME TreeTypes, AddRoot, NEW G, NEW base, NEW cnt, Built(G, base, cnt)
  PROVE  \E b, c : Built(G, b, c)'
<1>1. PICK T \in Nat \ {0} : T = Len(roots) + 1 /\ T - 1 = Len(roots)
  BY NextTable
<1>2. PICK N \in Nat : N = Len(pages)
  BY TreeLengths
<1>3. PICK top : top = level[1].page
  OBVIOUS
<1>4. PICK b : b = [base EXCEPT ![T + 1] = N]
  OBVIOUS
<1>5. PICK c : c = [cnt EXCEPT ![T + 1] = 0]
  OBVIOUS
<1>6. /\ T \in Nat \ {0} /\ N \in Nat /\ Len(roots) = T - 1 /\ DOMAIN roots = 1 .. T - 1
      /\ PageId = 1 .. N
  <2>1. /\ Len(roots) \in Nat /\ DOMAIN roots = 1 .. Len(roots)
        /\ N \in Nat /\ PageId = 1 .. N
    BY <1>2, TreeLengths
  <2> QED BY <1>1, <2>1, Zenon
<1>7. /\ b \in [Nat -> Nat] /\ c \in [Nat -> Nat]
      /\ b[T + 1] = N /\ c[T + 1] = 0
      /\ \A t \in 1 .. T : b[t] = base[t] /\ c[t] = cnt[t]
  <2>1. T + 1 \in Nat /\ \A t \in 1 .. T : t \in Nat /\ t # T + 1
    BY <1>6
  <2> QED BY <1>4, <1>5, <1>6, <2>1 DEF Built, Functions
<1>8. /\ pc = "levels" /\ Len(level) = 1
      /\ roots' = Append(roots, top)
      /\ level' = <<>>
      /\ pc' \in {"written", "leaves"}
      /\ pages' = pages /\ entries' = entries
  BY <1>3 DEF AddRoot
<1>9. /\ PageId' = PageId /\ Table' = Table /\ NumPoints' = NumPoints
      /\ Len(pages') = N /\ Len(level') = 0 /\ DOMAIN level' = {}
      /\ (\A p : Leaf(p)' <=> Leaf(p))
      /\ \A p, i, q : IsChild(p, i, q)' <=> IsChild(p, i, q)
  BY <1>2, <1>8 DEF PageId, Table, NumPoints, Leaf, IsChild
<1>10. /\ Len(roots') = T /\ DOMAIN roots' = 1 .. T /\ roots'[T] = top
       /\ \A t \in 1 .. T - 1 : roots'[t] = roots[t]
  <2>1. roots \in Seq(1 .. Len(pages)) /\ top \in 1 .. Len(pages)
    <3>1. 1 \in DOMAIN level
      BY <1>8, TreeLengths
    <3> QED BY <1>3, <3>1, TreeLengths DEF TreeTypes
  <2> DEFINE S == 1 .. Len(pages)
  <2> HIDE DEF S
  <2>2. roots \in Seq(S) /\ top \in S
    BY <2>1 DEF S
  <2>3. /\ roots' \in Seq(S) /\ Len(roots') = Len(roots) + 1
        /\ \A t \in 1 .. Len(roots) : roots'[t] = roots[t]
        /\ roots'[Len(roots) + 1] = top
    BY <1>8, <2>2, AppendProperties
  <2>4. DOMAIN roots' = 1 .. Len(roots')
    BY <2>3, LenProperties
  <2> QED BY <1>1, <1>6, <2>3, <2>4
<1>11. /\ DOMAIN level = {1} /\ G[top].tab = T /\ G[top].par = 0
       /\ NumPoints <= cnt[T] * LeafCapacity
  <2>1. DOMAIN level = {1}
    BY <1>8 DEF TreeTypes
  <2> QED BY <1>1, <1>3, <1>8, <2>1 DEF Built, LevelBuilt
<1>12. \A p \in PageId : G[p].tab \in 1 .. T
  <2>1. \A p \in PageId : G[p].tab \in Table /\ G[p].tab <= T
    BY <1>1 DEF Built, Placed
  <2>2. Table \subseteq Nat \ {0}
    <3>1. Table = 1 .. Len(entries) /\ Len(entries) \in Nat
      BY TreeLengths
    <3> QED BY ONLY <3>1
  <2>3. \A t \in Nat \ {0} : t <= T => t \in 1 .. T
    BY <1>6
  <2> QED BY <2>1, <2>2, <2>3
<1>13. Placed(G)'
  <2>1. \A p \in PageId : G[p].tab <= T + 1
    <3>1. \A t \in 1 .. T : t <= T + 1
      BY <1>6
    <3> QED BY <1>12, <3>1
  <2> QED BY <1>9, <1>10, <2>1 DEF Built, Placed
<1>14. LeavesBuilt(G, b, c)'
  <2>1. ASSUME NEW p \in PageId, Leaf(p)
        PROVE  LET t == G[p].tab
                   k == p - b[t]
               IN  /\ k \in 1 .. c[t]
                   /\ pages'[p].entries = LeafContent(entries'[t], k)
                   /\ pages'[p].previous = (IF k = 1 THEN 0 ELSE p - 1)
                   /\ pages'[p].next = (IF k = c[t] THEN 0 ELSE p + 1)
                   /\ G[p].lo = LeafStart(k) /\ G[p].hi = LeafEnd(k)' /\ G[p].ht = 0
    <3>1. b[G[p].tab] = base[G[p].tab] /\ c[G[p].tab] = cnt[G[p].tab]
      BY <1>7, <1>12
    <3>2. \A k : LeafEnd(k)' = LeafEnd(k)
      BY <1>9 DEF LeafEnd
    <3> QED BY <1>8, <2>1, <3>1, <3>2 DEF Built, LeavesBuilt
  <2>2. ASSUME NEW t \in 1 .. T + 1, NEW k \in 1 .. c[t]
        PROVE  /\ b[t] + k \in PageId /\ Leaf(b[t] + k) /\ G[b[t] + k].tab = t
               /\ (k - 1) * LeafCapacity < NumPoints
    <3>1. t \in 1 .. T
      <4>1. t # T + 1
        BY <1>7, <2>2
      <4> QED BY <1>6, <2>2, <4>1
    <3>2. b[t] = base[t] /\ c[t] = cnt[t]
      BY <1>7, <3>1
    <3> QED BY <1>1, <3>1, <3>2 DEF Built, LeavesBuilt
  <2> QED BY <1>9, <1>10, <2>1, <2>2 DEF LeavesBuilt
<1>15. ParentsBuilt(G)'
  <2>1. \A p : ParentBuilt(G, p)' <=> ParentBuilt(G, p)
    BY <1>8 DEF ParentBuilt
  <2> QED BY <1>9, <2>1 DEF Built, ParentsBuilt
<1>16. Referenced(G)'
  <2>1. ASSUME NEW q \in PageId, G[q].par = 0
        PROVE  G[q].tab \in DOMAIN roots' /\ roots'[G[q].tab] = q
    <3>1. CASE G[q].tab \in DOMAIN roots /\ roots[G[q].tab] = q
      <4>1. G[q].tab \in 1 .. T - 1 /\ \A t \in 1 .. T - 1 : t \in 1 .. T
        BY <1>6, <3>1
      <4> QED BY <1>10, <3>1, <4>1
    <3>2. CASE \E i \in DOMAIN level : level[i].page = q
      <4>1. q = top
        BY <1>3, <1>11, <3>2
      <4>2. T \in 1 .. T
        BY <1>6
      <4> QED BY <1>10, <1>11, <4>1, <4>2, Zenon
    <3>3. \/ G[q].tab \in DOMAIN roots /\ roots[G[q].tab] = q
          \/ \E i \in DOMAIN level : level[i].page = q
      BY <2>1 DEF Built, Referenced
    <3> QED BY ONLY <3>1, <3>2, <3>3
  <2>2. \A q \in PageId : G[q].par # 0 => G[q].par \in PageId /\ IsChild(G[q].par, G[q].slot, q)
    BY DEF Built, Referenced
  <2> QED BY <1>9, <2>1, <2>2 DEF Referenced
<1>17. RootsBuilt(G, c)'
  <2>1. ASSUME NEW t \in 1 .. T
        PROVE  /\ G[roots'[t]].tab = t /\ G[roots'[t]].par = 0
               /\ NumPoints <= c[t] * LeafCapacity
    <3>1. CASE t = T
      BY <1>7, <1>10, <1>11, <3>1
    <3>2. CASE t # T
      <4>1. t \in 1 .. T - 1
        BY <1>6, <3>2
      <4> QED BY <1>6, <1>7, <1>10, <4>1 DEF Built, RootsBuilt
    <3> QED BY <3>1, <3>2
  <2> QED BY <1>9, <1>10, <2>1 DEF RootsBuilt
<1>18. LevelBuilt(G, b, c)'
  <2>1. Len(roots') + 1 = T + 1 /\ b[T + 1] + c[T + 1] = N
    BY <1>6, <1>7, <1>10
  <2> QED BY <1>7, <1>8, <1>9, <2>1 DEF LevelBuilt
<1>19. Functions(G, b, c)
  BY <1>7 DEF Built, Functions
<1> QED BY <1>13, <1>14, <1>15, <1>16, <1>17, <1>18, <1>19 DEF Built

Relinked(page, q) == [page EXCEPT !.next = q]

LEMMA RelinkedLeaf ==
  ASSUME NEW n, NEW page \in LeafPages(n), NEW q, NEW linked, linked = Relinked(page, q)
  PROVE  /\ linked.kind = page.kind /\ linked.entries = page.entries
         /\ linked.previous = page.previous /\ linked.next = q
BY DEF LeafPages, Relinked

\* What it does to page p, one of N, that the new leaf may follow.
Kept(p, last, N) ==
    /\ Leaf(p)' <=> Leaf(p)
    /\ Leaf(p) => /\ pages'[p].entries = pages[p].entries
                  /\ pages'[p].previous = pages[p].previous
                  /\ pages'[p].next = IF p = last THEN N + 1 ELSE pages[p].next
    /\ ~Leaf(p) => pages'[p] = pages[p]

\* The step that adds a leaf, in terms of the leaf's number k.
LeafAdded(T, N, k, content, last) ==
    /\ pc = "leaves" /\ (k - 1) * LeafCapacity < NumPoints
    /\ pc' \in {"leaves", "levels"}
    /\ pc' = "levels" => (k - 1) * LeafCapacity + LeafCapacity >= NumPoints
    /\ entries' = entries /\ roots' = roots
    /\ Len(pages') = N + 1
    /\ \A p \in 1 .. N : Kept(p, last, N)
    /\ pages'[N + 1] = LeafPage(content, last)
    /\ Len(level') = k /\ DOMAIN level' = 1 .. k
    /\ \A i \in 1 .. k - 1 : level'[i] = level[i]
    /\ level'[k] = [page |-> N + 1, key |-> content[1].value]
    /\ content = LeafContent(entries[T], k)
    /\ last = (IF k = 1 THEN 0 ELSE N)
    /\ last # 0 => Leaf(last)

LEMMA AddLeafAdds ==
  ASSUME TreeTypes, AddLeaf, NEW G, NEW base, NEW cnt, Built(G, base, cnt),
         NEW T, T = Len(roots) + 1, NEW N, N = Len(pages), NEW k, k = Len(level) + 1
  PROVE  \E content, last : LeafAdded(T, N, k, content, last)
<1>1. /\ N \in Nat /\ PageId = 1 .. N /\ \A p \in PageId : pages[p] \in Pages(N)
      /\ Len(level) \in Nat /\ DOMAIN level = 1 .. Len(level)
      /\ TablesOK /\ Len(roots) \in Nat /\ Len(entries) \in Nat /\ Table = 1 .. Len(entries)
  BY TreeLengths
<1>2. k \in Nat \ {0} /\ k - 1 = Len(level) /\ DOMAIN level = 1 .. k - 1
  <2>1. \A m \in Nat : m + 1 \in Nat \ {0} /\ (m + 1) - 1 = m
    OBVIOUS
  <2> QED BY <1>1, <2>1
<1>3. T \in Table /\ Len(entries[T]) = NumPoints
  <2>1. pc = "leaves"
    BY DEF AddLeaf
  <2>2. Len(roots) < Len(entries)
    BY <2>1 DEF TreeTypes
  <2>3. Len(roots) + 1 \in 1 .. Len(entries)
    BY <1>1, <2>2
  <2> QED BY <1>1, <2>3 DEF TablesOK
<1>4. PICK content : content = LeafContent(entries[T], k)
  OBVIOUS
<1>5. PICK last : last = IF level = <<>> THEN 0 ELSE level[Len(level)].page
  OBVIOUS
<1> DEFINE linked == [p \in PageId |-> IF p = last THEN [pages[p] EXCEPT !.next = N + 1] ELSE pages[p]]
<1>6. /\ pc = "leaves" /\ (k - 1) * LeafCapacity < NumPoints
      /\ pages' = Append(linked, LeafPage(content, last))
      /\ level' = Append(level, [page |-> N + 1, key |-> content[1].value])
      /\ pc' = (IF (k - 1) * LeafCapacity + LeafCapacity >= NumPoints THEN "levels" ELSE "leaves")
      /\ entries' = entries /\ roots' = roots
  <2>1. content = SubSeq(entries[T], Len(level) * LeafCapacity + 1,
                         SmallerOf(Len(level) * LeafCapacity + LeafCapacity, Len(entries[T])))
    BY <1>2, <1>4 DEF LeafContent
  <2>2. /\ pc = "leaves" /\ Len(level) * LeafCapacity < Len(entries[T])
        /\ pages' = Append(linked, LeafPage(content, last))
        /\ level' = Append(level, [page |-> N + 1, key |-> content[1].value])
        /\ pc' = (IF Len(level) * LeafCapacity + LeafCapacity >= Len(entries[T]) THEN "levels" ELSE pc)
        /\ entries' = entries /\ roots' = roots
    BY <1>5, <2>1 DEF AddLeaf
  <2> HIDE DEF linked
  <2> QED BY <1>2, <1>3, <2>2
<1>7. last = (IF k = 1 THEN 0 ELSE N) /\ (last # 0 => Leaf(last))
  <2>1. CASE level = <<>>
    <3>1. Len(level) = 0
      BY <2>1
    <3>2. k = 1
      BY <3>1
    <3> QED BY <1>5, <2>1, <3>2
  <2>2. CASE level # <<>>
    <3> DEFINE m == Len(level)
    <3>1. m # 0
      BY <2>2, EmptySeq DEF TreeTypes
    <3> HIDE DEF m
    <3>2. m \in Nat /\ k = m + 1 /\ m \in 1 .. m /\ k # 1 /\ m \in DOMAIN level
      BY <1>1, <3>1 DEF m
    <3>3. cnt[T] = m /\ base[T] + cnt[T] = N /\ level[m].page = base[T] + m
      BY <1>6, <3>2 DEF Built, LevelBuilt, m
    <3>4. Leaf(base[T] + m)
      <4>1. T \in 1 .. Len(roots) + 1
        BY <1>1
      <4> QED BY <3>2, <3>3, <4>1 DEF Built, LeavesBuilt
    <3> QED BY <1>5, <2>2, <3>2, <3>3, <3>4 DEF m
  <2> QED BY <2>1, <2>2
<1>8. /\ Len(linked) = N /\ DOMAIN linked = 1 .. N /\ linked \in Seq({linked[p] : p \in 1 .. N})
  BY <1>1
<1>9. /\ Len(pages') = N + 1 /\ pages'[N + 1] = LeafPage(content, last)
      /\ \A p \in 1 .. N : pages'[p] = IF p = last THEN [pages[p] EXCEPT !.next = N + 1] ELSE pages[p]
  <2> DEFINE S == {linked[p] : p \in 1 .. N} \cup {LeafPage(content, last)}
             new == LeafPage(content, last)
  <2>1. linked \in Seq(S) /\ new \in S
    BY <1>8, SeqMonotonic
  <2>2. \A p \in 1 .. N : linked[p] = IF p = last THEN [pages[p] EXCEPT !.next = N + 1] ELSE pages[p]
    BY <1>1
  <2> HIDE DEF S, linked, new
  <2>3. /\ Len(Append(linked, new)) = Len(linked) + 1
        /\ \A p \in 1 .. Len(linked) : Append(linked, new)[p] = linked[p]
        /\ Append(linked, new)[Len(linked) + 1] = new
    BY <2>1, AppendProperties
  <2> QED BY <1>6, <1>8, <2>2, <2>3 DEF new
<1>10. /\ Len(level') = k /\ DOMAIN level' = 1 .. k
       /\ \A i \in 1 .. k - 1 : level'[i] = level[i]
       /\ level'[k] = [page |-> N + 1, key |-> content[1].value]
  <2>1. level \in Seq(LevelItems(Len(pages)))
    BY DEF TreeTypes
  <2> DEFINE new == [page |-> N + 1, key |-> content[1].value]
             R == LevelItems(Len(pages)) \cup {new}
  <2>2. level \in Seq(R) /\ new \in R
    BY <2>1, SeqMonotonic
  <2> HIDE DEF R, new
  <2>3. /\ Append(level, new) \in Seq(R)
        /\ Len(Append(level, new)) = Len(level) + 1
        /\ \A i \in 1 .. Len(level) : Append(level, new)[i] = level[i]
        /\ Append(level, new)[Len(level) + 1] = new
    BY <2>2, AppendProperties
  <2>4. DOMAIN Append(level, new) = 1 .. Len(level) + 1
    BY <2>3, LenProperties
  <2> QED BY <1>2, <1>6, <2>3, <2>4 DEF new
<1>11. ASSUME NEW p \in 1 .. N PROVE Kept(p, last, N)
  <2>1. CASE p = last
    <3>1. p # 0
      BY <1>1
    <3>2. Leaf(p)
      BY <1>7, <2>1, <3>1
    <3>3. pages[p] \in LeafPages(N)
      <4>1. pages[p] \in Pages(N)
        BY <1>1
      <4> QED BY <3>2, <4>1, TypedPage DEF Leaf
    <3>4. pages'[p] = Relinked(pages[p], N + 1)
      BY <1>9, <2>1 DEF Relinked
    <3>5. /\ pages'[p].kind = pages[p].kind /\ pages'[p].entries = pages[p].entries
          /\ pages'[p].previous = pages[p].previous /\ pages'[p].next = N + 1
      BY <3>3, <3>4, RelinkedLeaf
    <3>6. Leaf(p)' <=> Leaf(p)
      BY <3>5 DEF Leaf
    <3> QED BY <2>1, <3>2, <3>5, <3>6 DEF Kept
  <2>2. CASE p # last
    BY <1>9, <2>2 DEF Leaf, Kept
  <2> QED BY <2>1, <2>2
<1> HIDE DEF linked
<1>12. LeafAdded(T, N, k, content, last)
  BY <1>4, <1>6, <1>7, <1>9, <1>10, <1>11 DEF LeafAdded
<1> QED BY <1>12

\* Where the k-th leaf lies in the table.
LEMMA LeafRange ==
  ASSUME TablesOK, NEW k \in Nat \ {0}, (k - 1) * LeafCapacity < NumPoints, NEW t \in Table
  PROVE  /\ LeafStart(k) \in Nat /\ LeafEnd(k) \in Nat
         /\ 1 <= LeafStart(k) /\ LeafStart(k) <= LeafEnd(k) /\ LeafEnd(k) <= NumPoints
         /\ LeafContent(entries[t], k)[1] = entries[t][LeafStart(k)]
         /\ (k - 1) * LeafCapacity + LeafCapacity >= NumPoints => NumPoints <= k * LeafCapacity
         /\ k > 1 => LeafStart(k) = LeafEnd(k - 1) + 1
<1> DEFINE a == (k - 1) * LeafCapacity
           d == (k - 2) * LeafCapacity
           x == k * LeafCapacity
           C == LeafCapacity
           n == NumPoints
           s == LeafContent(entries[t], k)
           count == SmallerOf(a + C, n) - a
<1>1. C \in Nat \ {0} /\ n \in Nat \ {0} /\ entries[t] \in Seq(Entry) /\ Len(entries[t]) = n
  BY TableOrder, BPlusTreeAssumption
<1>2. a \in Nat /\ d \in Int /\ a = d + C /\ x = a + C
  BY <1>1
<1>3. LeafHolds(s, entries[t], n, k)
  <2> HIDE DEF n
  <2> QED BY <1>1, LeafContentIs DEF n
<1>4. count \in 1 .. C /\ \A i \in 1 .. count : s[i] = entries[t][a + i]
  BY <1>3 DEF LeafHolds
<1>5. LeafStart(k) = a + 1 /\ LeafEnd(k) = SmallerOf(a + C, n)
  BY DEF LeafStart, LeafEnd
<1>6. k > 1 => LeafEnd(k - 1) = SmallerOf(d + C, n)
  <2>1. (k - 1) - 1 = k - 2
    OBVIOUS
  <2> QED BY <2>1 DEF LeafEnd
<1>7. a < n
  OBVIOUS
<1> HIDE DEF a, d, x, C, n, s
<1>8. 1 \in 1 .. count
  BY <1>1, <1>2, <1>4
<1>9. s[1] = entries[t][a + 1]
  BY <1>4, <1>8
<1>10. /\ LeafStart(k) \in Nat /\ LeafEnd(k) \in Nat
       /\ 1 <= LeafStart(k) /\ LeafStart(k) <= LeafEnd(k) /\ LeafEnd(k) <= n
  BY <1>1, <1>2, <1>5, <1>7 DEF SmallerOf
<1>11. a + C >= n => n <= x
  BY <1>1, <1>2
<1>12. k > 1 => LeafStart(k) = LeafEnd(k - 1) + 1
  BY <1>1, <1>2, <1>5, <1>6, <1>7 DEF SmallerOf
<1> QED BY <1>5, <1>9, <1>10, <1>11, <1>12 DEF a, x, C, n, s

LEMMA BuiltByLeafStep ==
  ASSUME TreeTypes, AddLeaf, NEW G, NEW base, NEW cnt, Built(G, base, cnt)
  PROVE  \E H, c : Built(H, base, c)'
<1>1. PICK T \in Nat \ {0} : T = Len(roots) + 1 /\ T - 1 = Len(roots)
  BY NextTable
<1>2. PICK N \in Nat : N = Len(pages)
  BY TreeLengths
<1>3. PICK k \in Nat \ {0} : k = Len(level) + 1 /\ k - 1 = Len(level)
  <2>1. Len(level) \in Nat
    BY TreeLengths
  <2>2. Len(level) + 1 \in Nat \ {0} /\ (Len(level) + 1) - 1 = Len(level)
    BY <2>1
  <2> QED BY <2>2
<1>4. PICK content, last : LeafAdded(T, N, k, content, last)
  BY <1>1, <1>2, <1>3, AddLeafAdds
<1>5. /\ PageId = 1 .. N /\ DOMAIN level = 1 .. k - 1 /\ DOMAIN roots = 1 .. T - 1
      /\ Len(roots) \in Nat
      /\ \A t \in DOMAIN roots : roots[t] \in PageId
      /\ \A i \in DOMAIN level : level[i].page \in PageId
      /\ Table = 1 .. Len(entries) /\ Len(entries) \in Nat
      /\ TablesOK /\ NumPoints \in Nat \ {0}
  BY <1>1, <1>2, <1>3, TreeLengths
<1>6. T \in Table
  <2>1. Len(roots) < Len(entries)
    BY <1>4 DEF LeafAdded, TreeTypes
  <2> QED BY <1>1, <1>5, <2>1
<1>7. /\ cnt[T] = k - 1 /\ base[T] + (k - 1) = N
      /\ \A i \in 1 .. k - 1 : level[i].page = base[T] + i /\ G[level[i].page].tab = T
  BY <1>1, <1>2, <1>3, <1>4, <1>5 DEF Built, LevelBuilt, LeafAdded
<1>8. base[T] \in Nat /\ base[T] + k = N + 1 /\ N + 1 - base[T] = k
  <2>1. base[T] \in Nat
    BY DEF Built, Functions
  <2> QED BY <1>7, <2>1
<1>9. /\ LeafStart(k) \in Nat /\ LeafEnd(k) \in Nat
      /\ 1 <= LeafStart(k) /\ LeafStart(k) <= LeafEnd(k) /\ LeafEnd(k) <= NumPoints
      /\ content[1] = entries[T][LeafStart(k)]
      /\ pc' = "levels" => NumPoints <= k * LeafCapacity
      /\ k > 1 => LeafStart(k) = LeafEnd(k - 1) + 1
  BY <1>4, <1>5, <1>6, LeafRange DEF LeafAdded
<1>10. PICK info : info = [tab |-> T, lo |-> LeafStart(k), hi |-> LeafEnd(k), ht |-> 0, par |-> 0, slot |-> 0]
  OBVIOUS
<1>11. PICK H : H = [G EXCEPT ![N + 1] = info]
  OBVIOUS
<1>12. PICK c : c = [cnt EXCEPT ![T] = k]
  OBVIOUS
<1>13. /\ Functions(H, base, c)
       /\ H[N + 1] = info /\ \A p \in 1 .. N : H[p] = G[p]
       /\ c[T] = k /\ \A t \in Nat : t # T => c[t] = cnt[t]
  <2>1. info \in Info
    BY <1>9, <1>10 DEF Info
  <2>2. N + 1 \in Nat /\ (\A p \in 1 .. N : p \in Nat /\ p # N + 1)
    OBVIOUS
  <2>3. G \in [Nat -> Info] /\ cnt \in [Nat -> Nat] /\ base \in [Nat -> Nat]
    BY DEF Built, Functions
  <2> QED BY <1>11, <1>12, <2>1, <2>2, <2>3 DEF Functions
<1>14. /\ info.tab = T /\ info.lo = LeafStart(k) /\ info.hi = LeafEnd(k) /\ info.ht = 0 /\ info.par = 0
  BY <1>10
<1>15. /\ entries' = entries /\ roots' = roots /\ Table' = Table /\ NumPoints' = NumPoints
       /\ PageId' = 1 .. N + 1 /\ \A j : LeafEnd(j)' = LeafEnd(j)
  <2>1. entries' = entries /\ roots' = roots /\ Len(pages') = N + 1
    BY <1>4 DEF LeafAdded
  <2>2. Table' = Table /\ NumPoints' = NumPoints
    BY <2>1 DEF Table, NumPoints
  <2>3. TreeTypes'
    BY TypesOfLeafStep
  <2>4. PageId' = 1 .. Len(pages')
    BY <2>3 DEF TreeTypes, PageId
  <2> QED BY <2>1, <2>2, <2>4 DEF LeafEnd
<1>16. /\ pages'[N + 1] = LeafPage(content, last)
       /\ Leaf(N + 1)' /\ pages'[N + 1].entries = content
       /\ pages'[N + 1].previous = last /\ pages'[N + 1].next = 0
       /\ content = LeafContent(entries[T], k)
       /\ last = (IF k = 1 THEN 0 ELSE N) /\ (last # 0 => Leaf(last))
  BY <1>4 DEF LeafAdded, LeafPage, Leaf
<1>17. \A p \in 1 .. N :
         /\ Leaf(p)' <=> Leaf(p)
         /\ Leaf(p) => /\ pages'[p].entries = pages[p].entries
                       /\ pages'[p].previous = pages[p].previous
                       /\ pages'[p].next = IF p = last THEN N + 1 ELSE pages[p].next
         /\ ~Leaf(p) => pages'[p] = pages[p]
  BY <1>4 DEF LeafAdded, Kept
<1>18. \A p \in 1 .. N + 1 : p = N + 1 \/ p \in 1 .. N
  OBVIOUS
<1>19. \A p \in 1 .. N : G[p].tab \in Table /\ G[p].tab \in Nat
  <2>1. \A t \in 1 .. Len(entries) : t \in Nat
    OBVIOUS
  <2> QED BY <1>5, <2>1 DEF Built, Placed
<1>20. Placed(H)'
  <2>1. ASSUME NEW p \in 1 .. N + 1
        PROVE  /\ H[p].tab \in Table /\ H[p].tab <= Len(roots) + 1
               /\ 1 <= H[p].lo /\ H[p].lo <= H[p].hi /\ H[p].hi <= NumPoints
               /\ H[p].ht < p
    <3>1. CASE p = N + 1
      <4>1. 0 < p /\ T <= Len(roots) + 1
        BY <1>1
      <4> QED BY <1>6, <1>9, <1>13, <1>14, <3>1, <4>1
    <3>2. CASE p \in 1 .. N
      BY <1>5, <1>13, <3>2 DEF Built, Placed
    <3> QED BY <1>18, <3>1, <3>2
  <2> QED BY <1>15, <2>1 DEF Placed
<1>21. LeavesBuilt(H, base, c)'
  <2>1. ASSUME NEW p \in 1 .. N + 1, Leaf(p)'
        PROVE  LET t == H[p].tab
                   j == p - base[t]
               IN  /\ j \in 1 .. c[t]
                   /\ pages'[p].entries = LeafContent(entries[t], j)
                   /\ pages'[p].previous = (IF j = 1 THEN 0 ELSE p - 1)
                   /\ pages'[p].next = (IF j = c[t] THEN 0 ELSE p + 1)
                   /\ H[p].lo = LeafStart(j) /\ H[p].hi = LeafEnd(j) /\ H[p].ht = 0
    <3>1. CASE p = N + 1
      <4>1. H[p].tab = T /\ p - base[T] = k /\ k \in 1 .. c[T] /\ p - 1 = N
        BY <1>8, <1>13, <1>14, <3>1
      <4> QED BY <1>13, <1>14, <1>16, <3>1, <4>1
    <3>2. CASE p \in 1 .. N
      <4> DEFINE t == G[p].tab
                 j == p - base[t]
      <4>1. H[p] = G[p] /\ Leaf(p) /\ p \in PageId
        BY <1>5, <1>13, <1>17, <2>1, <3>2
      <4>2. /\ j \in 1 .. cnt[t]
            /\ pages[p].entries = LeafContent(entries[t], j)
            /\ pages[p].previous = (IF j = 1 THEN 0 ELSE p - 1)
            /\ pages[p].next = (IF j = cnt[t] THEN 0 ELSE p + 1)
            /\ G[p].lo = LeafStart(j) /\ G[p].hi = LeafEnd(j) /\ G[p].ht = 0
        BY <4>1 DEF Built, LeavesBuilt
      <4>3. t \in Nat
        BY <1>19, <3>2
      <4>4. j \in 1 .. c[t] /\ pages'[p].next = (IF j = c[t] THEN 0 ELSE p + 1)
        <5>1. CASE t = T
          <6>1. j \in 1 .. k - 1 /\ c[t] = k /\ j # k /\ j \in 1 .. k /\ j = p - base[T]
            <7>1. j \in 1 .. k - 1 /\ c[t] = k /\ j = p - base[T]
              BY <1>7, <1>13, <4>2, <5>1
            <7> HIDE DEF j
            <7> QED BY <7>1
          <6>2. CASE j = k - 1
            <7>1. p = N
              <8>1. p - base[T] = k - 1 /\ p \in Int
                BY <3>2, <6>1, <6>2
              <8> HIDE DEF j
              <8> QED BY <1>7, <1>8, <8>1
            <7>2. k # 1
              <8> HIDE DEF j
              <8> QED BY <6>1, <6>2
            <7>3. p = last
              BY <1>16, <7>1, <7>2
            <7> HIDE DEF j, t
            <7> QED BY <1>17, <3>2, <4>1, <6>1, <7>1, <7>3
          <6>3. CASE j # k - 1
            <7>1. p # last
              <8>1. p # N /\ p # 0
                <9>1. p - base[T] # k - 1 /\ p \in Int /\ p # 0
                  BY <3>2, <6>1, <6>3
                <9> HIDE DEF j
                <9> QED BY <1>7, <1>8, <9>1
              <8> QED BY <1>16, <8>1
            <7>2. pages[p].next = p + 1
              BY <1>7, <4>2, <5>1, <6>3
            <7> HIDE DEF j, t
            <7> QED BY <1>17, <3>2, <4>1, <6>1, <7>1, <7>2
          <6> QED BY <6>2, <6>3
        <5>2. CASE t # T
          <6>1. c[t] = cnt[t]
            BY <1>13, <4>3, <5>2
          <6>2. p # last
            <7> SUFFICES ASSUME p = last PROVE FALSE
              OBVIOUS
            <7>1. p # 0
              BY <3>2
            <7>2. p = N /\ k # 1
              BY <1>16, <7>1
            <7>3. k - 1 \in 1 .. k - 1 /\ base[T] + (k - 1) = p
              BY <1>7, <7>2
            <7>4. G[p].tab = T
              BY <1>7, <7>3
            <7> QED BY <5>2, <7>4
          <6> HIDE DEF t, j
          <6> QED BY <1>17, <3>2, <4>1, <4>2, <6>1, <6>2
        <5> QED BY <5>1, <5>2
      <4> HIDE DEF t, j
      <4>5. pages'[p].entries = LeafContent(entries[t], j) /\ pages'[p].previous = (IF j = 1 THEN 0 ELSE p - 1)
        BY <1>17, <3>2, <4>1, <4>2
      <4> QED BY <4>1, <4>2, <4>4, <4>5 DEF t, j
    <3> QED BY <1>18, <3>1, <3>2
  <2>2. ASSUME NEW t \in 1 .. Len(roots) + 1, NEW j \in 1 .. c[t]
        PROVE  /\ base[t] + j \in 1 .. N + 1 /\ Leaf(base[t] + j)' /\ H[base[t] + j].tab = t
               /\ (j - 1) * LeafCapacity < NumPoints
    <3>1. CASE t = T /\ j = k
      <4>1. base[t] + j = N + 1 /\ N + 1 \in 1 .. N + 1
        BY <1>8, <3>1
      <4>2. (k - 1) * LeafCapacity < NumPoints
        BY <1>4 DEF LeafAdded
      <4> QED BY <1>13, <1>14, <1>16, <3>1, <4>1, <4>2
    <3>2. CASE ~(t = T /\ j = k)
      <4>1. j \in 1 .. cnt[t]
        <5>1. CASE t = T
          BY <1>7, <1>13, <2>2, <3>2, <5>1
        <5>2. CASE t # T
          <6>1. t \in Nat
            BY <1>5
          <6> QED BY <1>13, <2>2, <5>2, <6>1
        <5> QED BY <5>1, <5>2
      <4>2. base[t] + j \in PageId /\ Leaf(base[t] + j) /\ G[base[t] + j].tab = t
            /\ (j - 1) * LeafCapacity < NumPoints
        BY <4>1 DEF Built, LeavesBuilt
      <4>3. base[t] + j \in 1 .. N /\ base[t] + j \in 1 .. N + 1
        <5>1. \A p \in 1 .. N : p \in 1 .. N + 1
          OBVIOUS
        <5> QED BY <1>5, <4>2, <5>1
      <4> QED BY <1>13, <1>17, <4>2, <4>3
    <3> QED BY <3>1, <3>2
  <2> QED BY <1>15, <2>1, <2>2 DEF LeavesBuilt
<1>22. ParentsBuilt(H)'
  <2>1. ASSUME NEW p \in 1 .. N, ~Leaf(p), ParentBuilt(G, p) PROVE ParentBuilt(H, p)'
    <3>1. pages'[p] = pages[p] /\ H[p] = G[p] /\ p \in PageId
      BY <1>5, <1>13, <1>17, <2>1
    <3> DEFINE s == pages[p].children
               n == Len(s)
    <3>2. n \in 2 .. InternalCapacity /\ s \in Seq(PageId)
      <4>1. pages[p] \in Pages(Len(pages)) /\ PageId = 1 .. Len(pages)
        BY <3>1, TreeLengths
      <4> QED BY <2>1, <4>1, TypedPage DEF ParentBuilt, Leaf
    <3>3. n \in Nat /\ \A i \in 1 .. n : H[s[i]] = G[s[i]]
      <4> HIDE DEF s
      <4>1. n \in Nat /\ \A i \in 1 .. n : s[i] \in PageId
        BY <3>2, LenProperties
      <4> QED BY <1>5, <1>13, <4>1
    <3>4. H[s[1]] = G[s[1]] /\ H[s[n]] = G[s[n]] /\ \A i \in 1 .. n - 1 : H[s[i + 1]] = G[s[i + 1]]
      <4> HIDE DEF s, n
      <4>1. 1 \in 1 .. n /\ n \in 1 .. n /\ \A i \in 1 .. n - 1 : i + 1 \in 1 .. n
        BY <3>2, <3>3
      <4> QED BY <3>3, <4>1
    <3>5. \A i \in 1 .. n - 1 : i \in 1 .. n
      <4> HIDE DEF n
      <4> QED BY <3>3
    <3>6. /\ \A i \in 1 .. n : /\ s[i] < p
                              /\ H[s[i]].tab = H[p].tab /\ H[s[i]].ht + 1 = H[p].ht
                              /\ H[s[i]].par = p /\ H[s[i]].slot = i
          /\ H[s[1]].lo = H[p].lo /\ H[s[n]].hi = H[p].hi
      BY <2>1, <3>1, <3>3, <3>4, ZenonT(60) DEF ParentBuilt
    <3>7. \A i \in 1 .. n - 1 :
            /\ H[s[i + 1]].lo = H[s[i]].hi + 1
            /\ pages[p].separators[i] = entries[H[p].tab][H[s[i + 1]].lo].value
      BY <2>1, <3>1, <3>3, <3>4, <3>5, ZenonT(60) DEF ParentBuilt
    <3>8. pages[p].previous = 0 /\ pages[p].next = 0
      BY <2>1 DEF ParentBuilt
    <3> QED BY <1>15, <3>1, <3>2, <3>6, <3>7, <3>8, ZenonT(60) DEF ParentBuilt
  <2> QED BY <1>5, <1>15, <1>16, <1>17, <1>18, <2>1 DEF Built, ParentsBuilt
<1>23. Referenced(H)'
  <2>1. /\ DOMAIN level' = 1 .. k /\ level'[k].page = N + 1 /\ k \in 1 .. k
        /\ (\A i \in 1 .. k - 1 : level'[i] = level[i] /\ i \in 1 .. k)
    <3>1. k \in 1 .. k /\ \A i \in 1 .. k - 1 : i \in 1 .. k
      OBVIOUS
    <3> QED BY <1>4, <3>1 DEF LeafAdded
  <2>2. ASSUME NEW q \in 1 .. N + 1, H[q].par = 0
        PROVE  \/ H[q].tab \in DOMAIN roots /\ roots[H[q].tab] = q
               \/ \E i \in DOMAIN level' : level'[i].page = q
    <3>1. CASE q = N + 1
      BY <2>1, <3>1
    <3>2. CASE q \in 1 .. N
      <4>1. H[q] = G[q] /\ G[q].par = 0 /\ q \in PageId
        BY <1>5, <1>13, <2>2, <3>2
      <4>2. \/ G[q].tab \in DOMAIN roots /\ roots[G[q].tab] = q
            \/ \E i \in DOMAIN level : level[i].page = q
        BY <4>1 DEF Built, Referenced
      <4> QED BY <1>5, <2>1, <4>1, <4>2
    <3> QED BY <1>18, <3>1, <3>2
  <2>3. ASSUME NEW q \in 1 .. N + 1, H[q].par # 0
        PROVE  H[q].par \in 1 .. N + 1 /\ IsChild(H[q].par, H[q].slot, q)'
    <3>1. q \in 1 .. N /\ H[q] = G[q]
      BY <1>13, <1>14, <1>18, <2>3
    <3>2. G[q].par \in PageId /\ IsChild(G[q].par, G[q].slot, q)
      BY <1>5, <2>3, <3>1 DEF Built, Referenced
    <3>3. G[q].par \in 1 .. N /\ \A x \in 1 .. N : x \in 1 .. N + 1
      BY <1>5, <3>2
    <3> QED BY <1>17, <3>1, <3>2, <3>3 DEF IsChild
  <2> QED BY <1>15, <2>2, <2>3 DEF Referenced
<1>24. RootsBuilt(H, c)'
  <2>1. ASSUME NEW t \in 1 .. T - 1
        PROVE  /\ H[roots[t]].tab = t /\ H[roots[t]].par = 0
               /\ NumPoints <= c[t] * LeafCapacity
    <3>1. t \in Nat /\ t # T
      OBVIOUS
    <3>2. H[roots[t]] = G[roots[t]] /\ c[t] = cnt[t]
      BY <1>5, <1>13, <3>1
    <3> QED BY <1>5, <3>2 DEF Built, RootsBuilt
  <2> QED BY <1>5, <1>15, <2>1 DEF RootsBuilt
<1>25. LevelBuilt(H, base, c)'
  <2>1. /\ Len(level') = k /\ DOMAIN level' = 1 .. k
        /\ level'[k].page = N + 1 /\ level'[k].key = entries[T][LeafStart(k)].value
        /\ \A i \in 1 .. k - 1 : level'[i] = level[i]
        /\ pc' \in {"leaves", "levels"} /\ Len(pages') = N + 1
    BY <1>4, <1>9 DEF LeafAdded
  <2>2. \A i \in 1 .. k : i = k \/ i \in 1 .. k - 1
    OBVIOUS
  <2>3. ASSUME NEW i \in 1 .. k - 1
        PROVE  /\ H[level[i].page] = G[level[i].page]
               /\ G[level[i].page].tab = T /\ G[level[i].page].par = 0
               /\ level[i].page = base[T] + i
               /\ level[i].key = entries[T][G[level[i].page].lo].value
               /\ G[level[i].page].lo = LeafStart(i) /\ G[level[i].page].hi = LeafEnd(i)
               /\ G[level[i].page].ht = 0
    <3>1. level[i].page \in PageId /\ i \in DOMAIN level
      BY <1>5
    <3>2. H[level[i].page] = G[level[i].page]
      BY <1>5, <1>13, <3>1
    <3>3. /\ G[level[i].page].tab = T /\ G[level[i].page].par = 0
          /\ level[i].key = entries[T][G[level[i].page].lo].value
      BY <1>1, <3>1 DEF Built, LevelBuilt
    <3>4. level[i].page = base[T] + i /\ level[i].page - base[T] = i
      <4>1. level[i].page = base[T] + i
        BY <1>7
      <4>2. (base[T] + i) - base[T] = i
        BY <1>8
      <4> QED BY <4>1, <4>2
    <3>5. Leaf(level[i].page)
      <4>1. T \in 1 .. Len(roots) + 1 /\ i \in 1 .. cnt[T]
        BY <1>1, <1>7
      <4> QED BY <3>4, <4>1 DEF Built, LeavesBuilt
    <3> QED BY <3>1, <3>2, <3>3, <3>4, <3>5 DEF Built, LeavesBuilt
  <2>4. ASSUME NEW i \in 1 .. k
        PROVE  /\ H[level'[i].page].tab = T /\ H[level'[i].page].par = 0
               /\ level'[i].key = entries[T][H[level'[i].page].lo].value
               /\ H[level'[i].page].lo = LeafStart(i) /\ H[level'[i].page].hi = LeafEnd(i)
               /\ H[level'[i].page].ht = 0
               /\ level'[i].page = base[T] + i
    <3>1. CASE i = k
      BY <1>8, <1>13, <1>14, <2>1, <3>1
    <3>2. CASE i \in 1 .. k - 1
      BY <2>1, <2>3, <3>2
    <3> QED BY <2>2, <3>1, <3>2
  <2>5. ASSUME NEW i \in 1 .. k, i + 1 \in 1 .. k
        PROVE  LeafStart(i + 1) = LeafEnd(i) + 1
    <3>1. (i + 1) - 1 = i /\ i + 1 > 1 /\ i + 1 \in Nat \ {0}
      BY <2>5
    <3>2. i * LeafCapacity < NumPoints
      <4>1. CASE i + 1 = k
        <5>1. (k - 1) * LeafCapacity < NumPoints /\ i = k - 1
          BY <1>4, <3>1, <4>1 DEF LeafAdded
        <5> QED BY <5>1
      <4>2. CASE i + 1 # k
        <5>1. i + 1 \in 1 .. cnt[T] /\ T \in 1 .. Len(roots) + 1
          <6>1. i + 1 \in 1 .. k - 1
            BY <2>5, <4>2
          <6> QED BY <1>1, <1>7, <6>1
        <5>2. ((i + 1) - 1) * LeafCapacity < NumPoints
          BY <5>1 DEF Built, LeavesBuilt
        <5> QED BY <3>1, <5>2
      <4> QED BY <4>1, <4>2
    <3>3. ((i + 1) - 1) * LeafCapacity < NumPoints
      BY <3>1, <3>2
    <3>4. LeafStart(i + 1) = LeafEnd((i + 1) - 1) + 1
      BY <1>5, <1>6, <3>1, <3>3, LeafRange
    <3> QED BY <3>1, <3>4
  <2>6. c[T] = k /\ base[T] + c[T] = N + 1 /\ level' # <<>>
    <3>1. 1 \in DOMAIN level'
      BY <2>1
    <3>2. DOMAIN <<>> = {}
      OBVIOUS
    <3>3. level' # <<>>
      BY ONLY <3>1, <3>2
    <3> QED BY <1>8, <1>13, <3>3
  <2>7. pc' = "levels" => NumPoints <= c[T] * LeafCapacity
    BY <1>9, <2>6
  <2>8. Len(roots)' + 1 = T /\ entries' = entries
    BY <1>1, <1>15
  <2>9. \A i \in DOMAIN level' :
          /\ H[level'[i].page].tab = T /\ H[level'[i].page].par = 0
          /\ level'[i].key = entries'[T][H[level'[i].page].lo].value
          /\ \A j \in DOMAIN level' : H[level'[j].page].ht = H[level'[i].page].ht
          /\ i + 1 \in DOMAIN level' => H[level'[i + 1].page].lo = H[level'[i].page].hi + 1
    BY <1>15, <2>1, <2>4, <2>5
  <2>10. /\ pc' = "leaves" => /\ c[T] = Len(level') /\ base[T] + c[T] = Len(pages')
                              /\ \A i \in DOMAIN level' : level'[i].page = base[T] + i
         /\ pc' = "levels" => level' # <<>> /\ NumPoints' <= c[T] * LeafCapacity
         /\ pc' # "written"
    BY <1>15, <2>1, <2>4, <2>6, <2>7
  <2> QED BY <2>8, <2>9, <2>10 DEF LevelBuilt
<1> QED BY <1>13, <1>20, <1>21, <1>22, <1>23, <1>24, <1>25 DEF Built

\* A function that grows with every step grows over any distance.
LEMMA Staircase ==
  ASSUME NEW m \in Nat, NEW n \in Nat, NEW E \in [m .. n -> Int],
         \A g \in m .. n - 1 : E[g] < E[g + 1]
  PROVE  \A g, h \in m .. n : g < h => E[g] < E[h]
<1> DEFINE Bad == {h \in m .. n : \E g \in m .. n : g < h /\ ~(E[g] < E[h])}
<1>1. Bad = {}
  <2> SUFFICES ASSUME Bad # {} PROVE FALSE
    OBVIOUS
  <2>1. PICK h \in Bad : \A k \in Bad : h <= k
    <3>1. Bad \in SUBSET Nat
      OBVIOUS
    <3> HIDE DEF Bad
    <3> QED BY <3>1, LeastNatural
  <2>2. PICK g \in m .. n : g < h /\ ~(E[g] < E[h])
    BY <2>1
  <2>3. h - 1 \in m .. n - 1 /\ h - 1 \notin Bad /\ h - 1 + 1 = h /\ h - 1 \in m .. n /\ h \in m .. n
    BY <2>1, <2>2
  <2>4. E[h - 1] < E[h]
    BY <2>3
  <2>5. g # h - 1
    BY <2>2, <2>4
  <2>6. E[g] < E[h - 1]
    BY <2>2, <2>3, <2>5
  <2>7. E[g] \in Int /\ E[h] \in Int /\ E[h - 1] \in Int
    BY <2>2, <2>3
  <2> QED BY <2>2, <2>4, <2>6, <2>7
<1> QED BY <1>1

\* Every page of a level belongs to one parent.
LEMMA GroupOfItem ==
  ASSUME NEW size \in Nat, size > 1
  PROVE  /\ \A j \in 1 .. size : \E g \in 1 .. Parents(size) :
              GroupEnd(size, g - 1) < j /\ j <= GroupEnd(size, g)
         /\ \A j \in 1 .. size : \A g, h \in 1 .. Parents(size) :
              GroupEnd(size, g - 1) < j /\ j <= GroupEnd(size, g)
                /\ GroupEnd(size, h - 1) < j /\ j <= GroupEnd(size, h) => g = h
<1> DEFINE n == Parents(size)
           E == [g \in 0 .. n |-> GroupEnd(size, g)]
<1>1. n \in Nat \ {0}
  BY LevelDivides
<1> HIDE DEF n
<1>2. /\ GroupEnd(size, 0) = 0 /\ GroupEnd(size, n) = size
      /\ \A g \in 1 .. n : /\ GroupEnd(size, g - 1) \in 0 .. size /\ GroupEnd(size, g) \in 0 .. size
                           /\ GroupEnd(size, g) - GroupEnd(size, g - 1) \in 2 .. InternalCapacity
  BY GroupsDivide DEF n
<1>3. E \in [0 .. n -> Int] /\ \A g \in 1 .. n : E[g - 1] < E[g]
  <2>1. \A g \in 0 .. n : E[g] = GroupEnd(size, g) /\ GroupEnd(size, g) \in Int
    <3>1. \A g \in 0 .. n : g = 0 \/ g \in 1 .. n
      BY <1>1
    <3> QED BY <1>2, <3>1
  <2>2. ASSUME NEW g \in 1 .. n PROVE E[g - 1] < E[g]
    <3>1. g - 1 \in 0 .. n /\ g \in 0 .. n
      BY <1>1
    <3>2. E[g - 1] = GroupEnd(size, g - 1) /\ E[g] = GroupEnd(size, g)
      BY <3>1
    <3> DEFINE x == E[g - 1]
               y == E[g]
    <3>3. x \in Int /\ y \in Int /\ y - x \in 2 .. InternalCapacity
      BY <1>2, <2>1, <3>1, <3>2
    <3> HIDE DEF x, y
    <3>4. x < y
      BY <3>3, BPlusTreeAssumption
    <3> QED BY <3>4 DEF x, y
  <2> QED BY <2>1, <2>2
<1>4. \A g \in 0 .. n : E[g] = GroupEnd(size, g)
  OBVIOUS
<1> HIDE DEF E
<1>5. \A g, h \in 0 .. n : g < h => E[g] < E[h]
  <2>1. ASSUME NEW g \in 0 .. n - 1 PROVE E[g] < E[g + 1]
    <3>1. g + 1 \in 1 .. n /\ (g + 1) - 1 = g
      BY <1>1
    <3> QED BY <1>3, <3>1
  <2> QED BY <1>1, <1>3, <2>1, Staircase
<1>6. ASSUME NEW j \in 1 .. size PROVE \E g \in 1 .. n : E[g - 1] < j /\ j <= E[g]
  <2> DEFINE S == {g \in 0 .. n : j <= E[g]}
  <2>1. n \in S /\ 0 \notin S
    BY <1>1, <1>2, <1>4
  <2>2. PICK g \in S : \A h \in S : g <= h
    <3>1. S \in SUBSET Nat /\ S # {}
      BY <2>1
    <3> HIDE DEF S
    <3> QED BY <3>1, LeastNatural
  <2>3. g \in 1 .. n /\ j <= E[g] /\ g - 1 \in 0 .. n
    BY <1>1, <2>1, <2>2
  <2>4. g - 1 \notin S
    BY <2>2, <2>3
  <2>5. E[g - 1] < j
    BY <1>3, <2>3, <2>4
  <2> QED BY <2>3, <2>5
<1>7. ASSUME NEW j \in 1 .. size, NEW g \in 1 .. n, NEW h \in 1 .. n,
             E[g - 1] < j, j <= E[g], E[h - 1] < j, j <= E[h]
      PROVE  g >= h
  <2> SUFFICES ASSUME g < h PROVE FALSE
    BY <1>1
  <2>1. E[g] <= E[h - 1]
    <3>1. g \in 0 .. n /\ h - 1 \in 0 .. n /\ (g = h - 1 \/ g < h - 1)
      BY <1>1
    <3>2. E[g] \in Int /\ E[h - 1] \in Int
      BY <1>3, <3>1
    <3> QED BY <1>5, <3>1, <3>2
  <2>2. E[g] \in Int /\ E[h - 1] \in Int
    BY <1>1, <1>3
  <2> QED BY <1>7, <2>1, <2>2
<1>8. \A g \in 1 .. n : g - 1 \in 0 .. n /\ g \in 0 .. n
  BY <1>1
<1>9. \A g, h \in 1 .. n : g >= h /\ h >= g => g = h
  BY <1>1
<1> QED BY <1>4, <1>6, <1>7, <1>8, <1>9 DEF n

\* The pages of a level under construction are different pages.
LEMMA LevelItemsDiffer ==
  ASSUME TreeTypes, NEW G, NEW base, NEW cnt, Built(G, base, cnt)
  PROVE  /\ \A i, j \in DOMAIN level : level[i].page = level[j].page => i = j
         /\ \A i, j \in DOMAIN level : i < j => G[level[i].page].lo < G[level[j].page].lo
         /\ \A i \in DOMAIN level :
              LET p == level[i].page
              IN  /\ p \in PageId /\ G[p].tab = Len(roots) + 1 /\ G[p].par = 0
                  /\ G[p].lo \in Nat /\ G[p].hi \in Nat /\ G[p].ht \in Nat /\ G[p].ht < p
                  /\ 1 <= G[p].lo /\ G[p].lo <= G[p].hi /\ G[p].hi <= NumPoints
<1> DEFINE E == [i \in 1 .. Len(level) |-> G[level[i].page].lo]
<1>1. /\ Len(level) \in Nat /\ DOMAIN level = 1 .. Len(level) /\ PageId = 1 .. Len(pages)
      /\ \A i \in DOMAIN level : level[i].page \in PageId
  BY TreeLengths
<1>2. G \in [Nat -> Info]
  BY DEF Built, Functions
<1>3. ASSUME NEW i \in DOMAIN level
      PROVE  LET p == level[i].page
             IN  /\ p \in PageId /\ G[p].tab = Len(roots) + 1 /\ G[p].par = 0
                 /\ G[p].lo \in Nat /\ G[p].hi \in Nat /\ G[p].ht \in Nat /\ G[p].ht < p
                 /\ 1 <= G[p].lo /\ G[p].lo <= G[p].hi /\ G[p].hi <= NumPoints
  <2> DEFINE p == level[i].page
  <2>1. p \in PageId /\ G[p].tab = Len(roots) + 1 /\ G[p].par = 0
    BY <1>1, <1>3 DEF Built, LevelBuilt
  <2>2. p \in Nat
    BY <1>1, <2>1
  <2>3. G[p].lo \in Nat /\ G[p].hi \in Nat /\ G[p].ht \in Nat
    <3> HIDE DEF p
    <3> QED BY <1>2, <2>2, InfoFields
  <2>4. G[p].ht < p /\ 1 <= G[p].lo /\ G[p].lo <= G[p].hi /\ G[p].hi <= NumPoints
    BY <2>1 DEF Built, Placed
  <2> QED BY <2>1, <2>3, <2>4
<1>4. E \in [1 .. Len(level) -> Int]
  BY <1>1, <1>3
<1>5. ASSUME NEW i \in 1 .. Len(level) - 1 PROVE E[i] < E[i + 1]
  <2>1. i \in DOMAIN level /\ i + 1 \in DOMAIN level
    BY <1>1
  <2>2. G[level[i + 1].page].lo = G[level[i].page].hi + 1
    BY <2>1 DEF Built, LevelBuilt
  <2> DEFINE x == G[level[i].page].lo
             y == G[level[i].page].hi
             z == G[level[i + 1].page].lo
  <2>3. x \in Nat /\ y \in Nat /\ x <= y /\ z = y + 1 /\ E[i] = x /\ E[i + 1] = z
    BY <1>1, <1>3, <2>1, <2>2
  <2> HIDE DEF x, y, z, E
  <2> QED BY <2>3
<1>6. \A i, j \in 1 .. Len(level) : i < j => E[i] < E[j]
  <2> HIDE DEF E
  <2> QED BY <1>1, <1>4, <1>5, Staircase
<1>7. ASSUME NEW i \in DOMAIN level, NEW j \in DOMAIN level, level[i].page = level[j].page
      PROVE  i = j
  <2>1. E[i] = E[j] /\ E[i] \in Int /\ i \in 1 .. Len(level) /\ j \in 1 .. Len(level)
    BY <1>1, <1>4, <1>7
  <2> HIDE DEF E
  <2> QED BY <1>1, <1>6, <2>1
<1>8. \A i, j \in DOMAIN level : i < j => G[level[i].page].lo < G[level[j].page].lo
  BY <1>1, <1>6
<1> QED BY <1>3, <1>7, <1>8

\* The g-th parent of a level of so many pages, as page N + g.
ParentAdded(N, size, g) ==
    LET before == GroupEnd(size, g - 1)
        count == GroupEnd(size, g) - GroupEnd(size, g - 1)
    IN  /\ pages'[N + g].kind = "internal"
        /\ pages'[N + g].previous = 0 /\ pages'[N + g].next = 0
        /\ Len(pages'[N + g].children) = count
        /\ \A i \in 1 .. count : pages'[N + g].children[i] = level[before + i].page
        /\ \A i \in 1 .. count - 1 : pages'[N + g].separators[i] = level[before + i + 1].key
        /\ level'[g].page = N + g /\ level'[g].key = level[before + 1].key

\* The step that adds a level of n pages.
LevelAdded(N, size, n) ==
    /\ pc = "levels" /\ pc' = pc /\ entries' = entries /\ roots' = roots
    /\ Len(pages') = N + n /\ \A p \in 1 .. N : pages'[p] = pages[p]
    /\ Len(level') = n /\ DOMAIN level' = 1 .. n
    /\ \A g \in 1 .. n : ParentAdded(N, size, g)

LEMMA AddLevelAdds ==
  ASSUME TreeTypes, AddLevel, NEW N \in Nat, N = Len(pages), NEW size \in Nat, size = Len(level),
         NEW n \in Nat \ {0}, n = Parents(size)
  PROVE  size > 1 /\ LevelAdded(N, size, n)
<1> DEFINE parents == [g \in 1 .. n |-> Parent(g)]
           items == [g \in 1 .. n |-> [page |-> N + g, key |-> level[FirstOf(size, g)].key]]
<1>1. size > 1 /\ pc = "levels"
  BY DEF AddLevel
<1>2. pages' = pages \o parents /\ level' = items /\ pc' = pc /\ entries' = entries /\ roots' = roots
  <2>1. size \div n \in Nat /\ size \div n >= 2
    BY <1>1, LevelDivides
  <2>2. ~(size \div n < 2)
    <3> DEFINE x == size \div n
    <3> HIDE DEF x
    <3>1. x \in Nat /\ x >= 2
      BY <2>1 DEF x
    <3>2. ~(x < 2)
      BY <3>1
    <3> QED BY <3>2 DEF x
  <2> QED BY <2>2 DEF AddLevel, Parents
<1>3. /\ Len(pages') = N + n
      /\ \A p \in 1 .. N : pages'[p] = pages[p]
      /\ \A g \in 1 .. n : pages'[N + g] = Parent(g)
  <2>1. parents \in Seq(Pages(N)) /\ Len(parents) = n
    <3>1. \A g \in 1 .. n : Parent(g) \in Pages(N)
      BY <1>1, ParentIsPage DEF TreeTypes, Pages
    <3>2. parents \in [1 .. n -> Pages(N)]
      BY <3>1
    <3> QED BY <3>2
  <2>2. pages \in Seq(Pages(N))
    BY DEF TreeTypes
  <2> HIDE DEF parents
  <2>3. /\ Len(pages \o parents) = N + n
        /\ \A i \in 1 .. N : (pages \o parents)[i] = pages[i]
        /\ \A i \in 1 .. n : (pages \o parents)[N + i] = parents[i]
    BY <2>1, <2>2, ConcatProperties
  <2>4. \A g \in 1 .. n : parents[g] = Parent(g)
    BY DEF parents
  <2> QED BY <1>2, <2>3, <2>4
<1>4. Len(level') = n /\ DOMAIN level' = 1 .. n
  BY <1>2
<1>5. ASSUME NEW g \in 1 .. n PROVE ParentAdded(N, size, g)
  <2> DEFINE before == GroupEnd(size, g - 1)
             count == GroupEnd(size, g) - GroupEnd(size, g - 1)
  <2>1. /\ count \in 2 .. InternalCapacity
        /\ FirstOf(size, g) = before + 1
        /\ Parent(g) = InternalPage([i \in 1 .. count |-> level[before + i].page],
                                    [i \in 1 .. count - 1 |-> level[before + i + 1].key])
    BY <1>1, ParentShape
  <2> HIDE DEF before, count
  <2>2. count \in Nat /\ count - 1 \in Nat
    BY <2>1, BPlusTreeAssumption
  <2> DEFINE a == [i \in 1 .. count |-> level[before + i].page]
             b == [i \in 1 .. count - 1 |-> level[before + i + 1].key]
  <2>3. /\ \A i \in 1 .. count : a[i] = level[before + i].page
        /\ \A i \in 1 .. count - 1 : b[i] = level[before + i + 1].key
    OBVIOUS
  <2>5. pages'[N + g] = InternalPage(a, b)
    BY <1>3, <2>1
  <2> HIDE DEF a, b
  <2>6. /\ pages'[N + g].kind = "internal"
        /\ pages'[N + g].previous = 0 /\ pages'[N + g].next = 0
        /\ Len(pages'[N + g].children) = count
        /\ \A i \in 1 .. count : pages'[N + g].children[i] = a[i]
        /\ \A i \in 1 .. count - 1 : pages'[N + g].separators[i] = b[i]
    <3>1. Len(a) = count
      BY <2>2 DEF a
    <3>2. /\ pages'[N + g].kind = "internal"
          /\ pages'[N + g].previous = 0 /\ pages'[N + g].next = 0
          /\ pages'[N + g].children = a /\ pages'[N + g].separators = b
      BY <2>5 DEF InternalPage
    <3> QED BY <3>1, <3>2
  <2>7. level'[g].page = N + g /\ level'[g].key = level[before + 1].key
    BY <1>2, <2>1
  <2> QED BY <2>3, <2>6, <2>7 DEF ParentAdded, before, count
<1> QED BY <1>1, <1>2, <1>3, <1>4, <1>5 DEF LevelAdded

\* What is known of the pages with a level of n more pages on top.
Grouped(H, G, N, size, n) ==
    /\ H \in [Nat -> Info]
    /\ \A p \in 1 .. N :
         /\ H[p].tab = G[p].tab /\ H[p].lo = G[p].lo /\ H[p].hi = G[p].hi /\ H[p].ht = G[p].ht
         /\ (\A i \in 1 .. size : level[i].page # p) => H[p].par = G[p].par /\ H[p].slot = G[p].slot
    /\ \A g \in 1 .. n :
         LET before == GroupEnd(size, g - 1)
         IN  /\ \A i \in 1 .. GroupEnd(size, g) - before :
                  /\ H[level[before + i].page].par = N + g
                  /\ H[level[before + i].page].slot = i
             /\ H[N + g].tab = Len(roots) + 1 /\ H[N + g].par = 0
             /\ H[N + g].lo = G[level[before + 1].page].lo
             /\ H[N + g].hi = G[level[GroupEnd(size, g)].page].hi
             /\ H[N + g].ht = G[level[1].page].ht + 1

LEMMA GroupedExists ==
  ASSUME TreeTypes, NEW G, NEW base, NEW cnt, Built(G, base, cnt),
         NEW N \in Nat, N = Len(pages), NEW size \in Nat, size = Len(level), size > 1,
         NEW n \in Nat \ {0}, n = Parents(size)
  PROVE  \E H : Grouped(H, G, N, size, n)
<1> DEFINE E(g) == GroupEnd(size, g)
           InLevel(p) == \E i \in 1 .. size : level[i].page = p
           In(i, g) == E(g - 1) < i /\ i <= E(g)
           At(p) == CHOOSE i \in 1 .. size : level[i].page = p
           Gr(i) == CHOOSE g \in 1 .. n : In(i, g)
           T == Len(roots) + 1
           Top(g) == [tab |-> T, lo |-> G[level[E(g - 1) + 1].page].lo, hi |-> G[level[E(g)].page].hi,
                      ht |-> G[level[1].page].ht + 1, par |-> 0, slot |-> 0]
           Under(p) == [G[p] EXCEPT !.par = N + Gr(At(p)), !.slot = At(p) - E(Gr(At(p)) - 1)]
           H == [p \in Nat |-> IF p \in N + 1 .. N + n THEN Top(p - N)
                               ELSE IF InLevel(p) THEN Under(p) ELSE G[p]]
<1>1. /\ DOMAIN level = 1 .. size /\ PageId = 1 .. N /\ T \in Nat
      /\ \A i \in 1 .. size : level[i].page \in 1 .. N
  BY TreeLengths
<1>2. /\ \A i, j \in 1 .. size : level[i].page = level[j].page => i = j
      /\ \A i \in 1 .. size : /\ G[level[i].page].lo \in Nat /\ G[level[i].page].hi \in Nat
                              /\ G[level[i].page].ht \in Nat
  BY <1>1, LevelItemsDiffer
<1>3. \A g \in 1 .. n : E(g - 1) \in 0 .. size /\ E(g) \in 0 .. size /\ E(g) - E(g - 1) \in 2 .. InternalCapacity
  BY GroupsDivide
<1>4. /\ \A i \in 1 .. size : \E g \in 1 .. n : In(i, g)
      /\ \A i \in 1 .. size : \A g, h \in 1 .. n : In(i, g) /\ In(i, h) => g = h
  BY GroupOfItem, SMTT(60)
<1> HIDE DEF E
<1>5. \A g \in 1 .. n : E(g - 1) + 1 \in 1 .. size /\ E(g) \in 1 .. size
  <2> SUFFICES ASSUME NEW g \in 1 .. n PROVE E(g - 1) + 1 \in 1 .. size /\ E(g) \in 1 .. size
    OBVIOUS
  <2> DEFINE x == E(g - 1)
             y == E(g)
  <2>1. x \in 0 .. size /\ y \in 0 .. size /\ y - x \in 2 .. InternalCapacity
    BY <1>3
  <2> HIDE DEF x, y
  <2>2. x + 1 \in 1 .. size /\ y \in 1 .. size
    BY <2>1, BPlusTreeAssumption
  <2> QED BY <2>2 DEF x, y
<1>6. \A i \in 1 .. size : At(level[i].page) = i /\ Gr(i) \in 1 .. n /\ In(i, Gr(i))
  <2> SUFFICES ASSUME NEW i \in 1 .. size
               PROVE  At(level[i].page) = i /\ Gr(i) \in 1 .. n /\ In(i, Gr(i))
    OBVIOUS
  <2>1. At(level[i].page) \in 1 .. size /\ level[At(level[i].page)].page = level[i].page
    OBVIOUS
  <2>2. Gr(i) \in 1 .. n /\ In(i, Gr(i))
    <3> HIDE DEF In
    <3> QED BY <1>4
  <2> HIDE DEF At, Gr
  <2> QED BY <1>2, <2>1, <2>2
<1>7. \A g \in 1 .. n : Top(g) \in Info
  <2> SUFFICES ASSUME NEW g \in 1 .. n PROVE Top(g) \in Info
    OBVIOUS
  <2>1. /\ G[level[E(g - 1) + 1].page].lo \in Nat /\ G[level[E(g)].page].hi \in Nat
        /\ G[level[1].page].ht + 1 \in Nat
    <3>1. 1 \in 1 .. size
      OBVIOUS
    <3>2. G[level[1].page].ht \in Nat
      BY <1>2, <3>1
    <3>3. G[level[1].page].ht + 1 \in Nat
      BY <3>2
    <3>4. G[level[E(g - 1) + 1].page].lo \in Nat
      BY <1>2, <1>5
    <3>5. G[level[E(g)].page].hi \in Nat
      BY <1>2, <1>5
    <3> QED BY <3>3, <3>4, <3>5
  <2> HIDE DEF T
  <2> QED BY <1>1, <2>1 DEF Info
<1>8. G \in [Nat -> Info]
  BY DEF Built, Functions
<1>9. \A i \in 1 .. size : i - E(Gr(i) - 1) \in Nat /\ N + Gr(i) \in Nat
  <2> SUFFICES ASSUME NEW i \in 1 .. size PROVE i - E(Gr(i) - 1) \in Nat /\ N + Gr(i) \in Nat
    OBVIOUS
  <2> DEFINE g == Gr(i)
             x == E(g - 1)
  <2>1. g \in 1 .. n /\ x < i
    BY <1>6
  <2> HIDE DEF g
  <2>2. x \in 0 .. size
    BY <1>3, <2>1
  <2> HIDE DEF x
  <2>3. i - x \in Nat /\ N + g \in Nat
    BY <2>1, <2>2
  <2> QED BY <2>3 DEF x, g
<1> HIDE DEF In, At, Gr, Top
<1>10. \A i \in 1 .. size : LET p == level[i].page
                                u == [G[p] EXCEPT !.par = N + Gr(i), !.slot = i - E(Gr(i) - 1)]
                            IN  Under(p) = u
  BY <1>6
<1>11. ASSUME NEW i \in 1 .. size
       PROVE  LET p == level[i].page
              IN  /\ Under(p) \in Info
                  /\ Under(p).tab = G[p].tab /\ Under(p).lo = G[p].lo /\ Under(p).hi = G[p].hi
                  /\ Under(p).ht = G[p].ht /\ Under(p).par = N + Gr(i)
                  /\ Under(p).slot = i - E(Gr(i) - 1)
  <2> DEFINE p == level[i].page
  <2>1. G[p] \in Info
    <3>1. p \in Nat
      BY <1>1
    <3> QED BY <1>8, <3>1
  <2>2. Under(p) = [G[p] EXCEPT !.par = N + Gr(i), !.slot = i - E(Gr(i) - 1)]
    BY <1>10
  <2> HIDE DEF p, Under
  <2> QED BY <1>9, <2>1, <2>2 DEF Info, p
<1> HIDE DEF Under
<1>12. H \in [Nat -> Info]
  <2> SUFFICES ASSUME NEW p \in Nat
               PROVE  (IF p \in N + 1 .. N + n THEN Top(p - N)
                       ELSE IF InLevel(p) THEN Under(p) ELSE G[p]) \in Info
    OBVIOUS
  <2>1. p \in N + 1 .. N + n => p - N \in 1 .. n
    OBVIOUS
  <2>2. InLevel(p) => Under(p) \in Info
    BY <1>11
  <2> QED BY <1>7, <1>8, <2>1, <2>2
<1>13. /\ \A p \in 1 .. N : H[p] = IF InLevel(p) THEN Under(p) ELSE G[p]
       /\ \A g \in 1 .. n : H[N + g] = Top(g)
  <2>1. \A p \in 1 .. N : p \in Nat /\ p \notin N + 1 .. N + n
    OBVIOUS
  <2>2. \A g \in 1 .. n : N + g \in Nat /\ N + g \in N + 1 .. N + n /\ (N + g) - N = g
    OBVIOUS
  <2> QED BY <2>1, <2>2
<1> HIDE DEF H
<1>14. ASSUME NEW p \in 1 .. N
       PROVE  /\ H[p].tab = G[p].tab /\ H[p].lo = G[p].lo /\ H[p].hi = G[p].hi /\ H[p].ht = G[p].ht
              /\ (\A i \in 1 .. size : level[i].page # p) => H[p].par = G[p].par /\ H[p].slot = G[p].slot
  <2>1. CASE InLevel(p)
    BY <1>11, <1>13, <2>1
  <2>2. CASE ~InLevel(p)
    BY <1>13, <2>2
  <2> QED BY <2>1, <2>2
<1>15. ASSUME NEW g \in 1 .. n, NEW i \in 1 .. E(g) - E(g - 1)
       PROVE  /\ H[level[E(g - 1) + i].page].par = N + g
              /\ H[level[E(g - 1) + i].page].slot = i
  <2> DEFINE x == E(g - 1)
             y == E(g)
  <2>1. x \in 0 .. size /\ y \in 0 .. size /\ i \in 1 .. y - x
    BY <1>3
  <2> HIDE DEF x, y
  <2>2. x + i \in 1 .. size /\ x < x + i /\ x + i <= y /\ (x + i) - x = i
    BY <2>1
  <2>3. Gr(x + i) = g
    BY <1>4, <1>6, <2>2 DEF In, x, y
  <2>4. /\ H[level[x + i].page] = Under(level[x + i].page)
        /\ Under(level[x + i].page).par = N + Gr(x + i)
        /\ Under(level[x + i].page).slot = (x + i) - E(Gr(x + i) - 1)
    BY <1>1, <1>11, <1>13, <2>2
  <2> QED BY <2>2, <2>3, <2>4 DEF x
<1>16. ASSUME NEW g \in 1 .. n
       PROVE  /\ H[N + g].tab = T /\ H[N + g].par = 0
              /\ H[N + g].lo = G[level[E(g - 1) + 1].page].lo
              /\ H[N + g].hi = G[level[E(g)].page].hi
              /\ H[N + g].ht = G[level[1].page].ht + 1
  <2>1. H[N + g] = Top(g)
    BY <1>13
  <2> HIDE DEF T
  <2>2. /\ Top(g).tab = T /\ Top(g).par = 0
        /\ Top(g).lo = G[level[E(g - 1) + 1].page].lo
        /\ Top(g).hi = G[level[E(g)].page].hi
        /\ Top(g).ht = G[level[1].page].ht + 1
    BY DEF Top
  <2> QED BY <2>1, <2>2
<1>17. Grouped(H, G, N, size, n)
  BY <1>12, <1>14, <1>15, <1>16 DEF Grouped, E
<1> QED BY <1>17

\* The places of a group within its level.
LEMMA GroupPlaces ==
  ASSUME NEW size \in Nat, size > 1, NEW n \in Nat \ {0}, n = Parents(size), NEW g \in 1 .. n
  PROVE  LET before == GroupEnd(size, g - 1)
             end == GroupEnd(size, g)
             count == GroupEnd(size, g) - GroupEnd(size, g - 1)
         IN  /\ before \in Nat /\ end \in 1 .. size /\ before + 1 \in 1 .. size
             /\ before + 1 < end
             /\ count \in 2 .. InternalCapacity /\ count \in Nat /\ before + count = end
             /\ \A i \in 1 .. count : before + i \in 1 .. size
             /\ \A i \in 1 .. count - 1 : /\ i \in 1 .. count /\ i + 1 \in 1 .. count
                                          /\ before + i + 1 = (before + i) + 1
                                          /\ before + (i + 1) = (before + i) + 1
                                          /\ (before + i) + 1 \in 1 .. size
             /\ 1 \in 1 .. count /\ count \in 1 .. count
             /\ (g + 1) - 1 = g
             /\ g + 1 \in 1 .. n => end + 1 \in 1 .. size
<1> DEFINE x == GroupEnd(size, g - 1)
           y == GroupEnd(size, g)
           z == GroupEnd(size, g + 1)
<1>1. x \in 0 .. size /\ y \in 0 .. size /\ y - x \in 2 .. InternalCapacity
  BY GroupsDivide
<1>2. (g + 1) - 1 = g
  OBVIOUS
<1>3. g + 1 \in 1 .. n => z \in 0 .. size /\ z - y \in 2 .. InternalCapacity
  BY <1>2, GroupsDivide
<1>4. InternalCapacity \in Nat
  BY BPlusTreeAssumption
<1> HIDE DEF x, y, z
<1>5. x \in Nat /\ y \in 1 .. size /\ x + 1 \in 1 .. size /\ x + 1 < y
  BY <1>1, <1>4
<1>6. g + 1 \in 1 .. n => y + 1 \in 1 .. size
  BY <1>1, <1>3, <1>4
<1> DEFINE count == y - x
<1>7. count \in 2 .. InternalCapacity /\ count \in Nat /\ x + count = y
  BY <1>1, <1>4
<1> HIDE DEF count
<1>8. \A i \in 1 .. count : x + i \in 1 .. size
  BY <1>5, <1>7
<1>9. \A i \in 1 .. count - 1 : /\ i \in 1 .. count /\ i + 1 \in 1 .. count
                                /\ x + i + 1 = (x + i) + 1
                                /\ x + (i + 1) = (x + i) + 1
                                /\ (x + i) + 1 \in 1 .. size
  BY <1>5, <1>7
<1>10. 1 \in 1 .. count /\ count \in 1 .. count
  BY <1>4, <1>7
<1> QED BY <1>2, <1>5, <1>6, <1>7, <1>8, <1>9, <1>10 DEF x, y, count

LEMMA BuiltByLevelStep ==
  ASSUME TreeTypes, AddLevel, NEW G, NEW base, NEW cnt, Built(G, base, cnt)
  PROVE  \E H : Built(H, base, cnt)'
<1>1. PICK T \in Nat \ {0} : T = Len(roots) + 1 /\ T - 1 = Len(roots)
  BY NextTable
<1>2. PICK N \in Nat : N = Len(pages)
  BY TreeLengths
<1>3. PICK size \in Nat : size = Len(level)
  BY TreeLengths
<1>4. size > 1
  BY <1>3 DEF AddLevel
<1>5. PICK n \in Nat \ {0} : n = Parents(size)
  BY <1>4, LevelDivides
<1>6. LevelAdded(N, size, n)
  BY <1>2, <1>3, <1>5, AddLevelAdds
<1>7. PICK H : Grouped(H, G, N, size, n)
  BY <1>2, <1>3, <1>4, <1>5, GroupedExists
<1>8. /\ PageId = 1 .. N /\ DOMAIN level = 1 .. size /\ DOMAIN roots = 1 .. T - 1
      /\ \A t \in DOMAIN roots : roots[t] \in PageId
      /\ Table = 1 .. Len(entries) /\ Len(entries) \in Nat
      /\ TablesOK /\ NumPoints \in Nat \ {0}
  BY <1>1, <1>2, <1>3, TreeLengths
<1>9. /\ entries' = entries /\ roots' = roots /\ Table' = Table /\ NumPoints' = NumPoints
      /\ PageId' = 1 .. N + n /\ (\A j : LeafEnd(j)' = LeafEnd(j))
      /\ pc = "levels" /\ pc' = "levels"
      /\ Len(level') = n /\ DOMAIN level' = 1 .. n
  <2>1. /\ entries' = entries /\ roots' = roots /\ Len(pages') = N + n /\ pc = "levels" /\ pc' = pc
        /\ Len(level') = n /\ DOMAIN level' = 1 .. n
    BY <1>6 DEF LevelAdded
  <2>2. Table' = Table /\ NumPoints' = NumPoints
    BY <2>1 DEF Table, NumPoints
  <2>3. TreeTypes'
    BY TypesOfLevelStep
  <2>4. PageId' = 1 .. Len(pages')
    BY <2>3 DEF TreeTypes, PageId
  <2> QED BY <2>1, <2>2, <2>4 DEF LeafEnd
<1>10. /\ \A p \in 1 .. N : pages'[p] = pages[p] /\ (Leaf(p)' <=> Leaf(p)) /\ p \in 1 .. N + n
       /\ \A g \in 1 .. n : ~Leaf(N + g)' /\ N + g \in 1 .. N + n
       /\ \A p \in 1 .. N + n : p \in 1 .. N \/ \E g \in 1 .. n : p = N + g
  <2>1. \A p \in 1 .. N : pages'[p] = pages[p]
    BY <1>6 DEF LevelAdded
  <2>2. \A g \in 1 .. n : pages'[N + g].kind = "internal"
    BY <1>6 DEF LevelAdded, ParentAdded
  <2>3. \A p \in 1 .. N : p \in 1 .. N + n
    OBVIOUS
  <2>4. \A g \in 1 .. n : N + g \in 1 .. N + n
    OBVIOUS
  <2>5. ASSUME NEW p \in 1 .. N + n PROVE p \in 1 .. N \/ \E g \in 1 .. n : p = N + g
    <3>1. p \in 1 .. N \/ (p - N \in 1 .. n /\ p = N + (p - N))
      OBVIOUS
    <3> QED BY <3>1
  <2> QED BY <2>1, <2>2, <2>3, <2>4, <2>5 DEF Leaf
\* The pages of the level below.
<1>11. ASSUME NEW i \in 1 .. size
       PROVE  LET p == level[i].page
              IN  /\ p \in 1 .. N /\ G[p].tab = T /\ G[p].par = 0
                  /\ G[p].lo \in Nat /\ G[p].hi \in Nat /\ G[p].ht \in Nat
                  /\ G[p].ht = G[level[1].page].ht /\ G[p].ht < N
                  /\ 1 <= G[p].lo /\ G[p].lo <= G[p].hi /\ G[p].hi <= NumPoints
                  /\ level[i].key = entries[T][G[p].lo].value
                  /\ i + 1 \in 1 .. size => G[level[i + 1].page].lo = G[p].hi + 1
  <2> DEFINE p == level[i].page
  <2>1. /\ p \in 1 .. N /\ G[p].tab = T /\ G[p].par = 0
        /\ G[p].lo \in Nat /\ G[p].hi \in Nat /\ G[p].ht \in Nat /\ G[p].ht < p
        /\ 1 <= G[p].lo /\ G[p].lo <= G[p].hi /\ G[p].hi <= NumPoints
    BY <1>1, <1>8, LevelItemsDiffer
  <2>2. /\ G[p].ht = G[level[1].page].ht
        /\ level[i].key = entries[T][G[p].lo].value
        /\ i + 1 \in 1 .. size => G[level[i + 1].page].lo = G[p].hi + 1
    <3>1. 1 \in 1 .. size
      BY <1>4
    <3> QED BY <1>1, <1>8, <3>1 DEF Built, LevelBuilt
  <2>3. G[p].ht < N
    <3> DEFINE h == G[p].ht
    <3> HIDE DEF p
    <3>1. h \in Nat /\ h < p /\ p \in 1 .. N
      BY <2>1
    <3> HIDE DEF h
    <3>2. h < N
      BY <3>1
    <3> QED BY <3>2 DEF h
  <2> QED BY <2>1, <2>2, <2>3
<1>12. \A i, j \in 1 .. size : i < j => G[level[i].page].lo < G[level[j].page].lo
  BY <1>8, LevelItemsDiffer
<1>13. ASSUME NEW p \in 1 .. N
       PROVE  /\ H[p].tab = G[p].tab /\ H[p].lo = G[p].lo /\ H[p].hi = G[p].hi /\ H[p].ht = G[p].ht
              /\ G[p].par # 0 => H[p].par = G[p].par /\ H[p].slot = G[p].slot
              /\ G[p].tab # T => H[p].par = G[p].par /\ H[p].slot = G[p].slot
              /\ (\A i \in 1 .. size : level[i].page # p) => H[p].par = G[p].par /\ H[p].slot = G[p].slot
  <2>1. /\ H[p].tab = G[p].tab /\ H[p].lo = G[p].lo /\ H[p].hi = G[p].hi /\ H[p].ht = G[p].ht
        /\ (\A i \in 1 .. size : level[i].page # p) => H[p].par = G[p].par /\ H[p].slot = G[p].slot
    BY <1>7 DEF Grouped
  <2>2. G[p].par # 0 \/ G[p].tab # T => \A i \in 1 .. size : level[i].page # p
    BY <1>11
  <2> QED BY <2>1, <2>2
\* The new pages.
<1>14. ASSUME NEW g \in 1 .. n
       PROVE  LET before == GroupEnd(size, g - 1)
                  end == GroupEnd(size, g)
                  count == end - before
                  p == N + g
              IN  /\ H[p].tab = T /\ H[p].par = 0
                  /\ H[p].lo = G[level[before + 1].page].lo
                  /\ H[p].hi = G[level[end].page].hi
                  /\ H[p].ht = G[level[1].page].ht + 1
                  /\ \A i \in 1 .. count : /\ H[level[before + i].page].par = p
                                           /\ H[level[before + i].page].slot = i
  BY <1>1, <1>7 DEF Grouped
<1>15. \A g \in 1 .. n : ParentAdded(N, size, g)
  BY <1>6 DEF LevelAdded
<1>16. Functions(H, base, cnt)
  BY <1>7 DEF Grouped, Built, Functions
<1>17. Placed(H)'
  <2>1. ASSUME NEW p \in 1 .. N
        PROVE  /\ H[p].tab \in Table /\ H[p].tab <= Len(roots) + 1
               /\ 1 <= H[p].lo /\ H[p].lo <= H[p].hi /\ H[p].hi <= NumPoints /\ H[p].ht < p
    BY <1>8, <1>13 DEF Built, Placed
  <2>2. ASSUME NEW g \in 1 .. n
        PROVE  /\ H[N + g].tab \in Table /\ H[N + g].tab <= Len(roots) + 1
               /\ 1 <= H[N + g].lo /\ H[N + g].lo <= H[N + g].hi /\ H[N + g].hi <= NumPoints
               /\ H[N + g].ht < N + g
    <3> DEFINE before == GroupEnd(size, g - 1)
               end == GroupEnd(size, g)
               a == G[level[before + 1].page].lo
               b == G[level[end].page].hi
               d == G[level[end].page].lo
               h == G[level[1].page].ht
    <3>1. before + 1 \in 1 .. size /\ end \in 1 .. size /\ before + 1 < end /\ 1 \in 1 .. size
      BY <1>4, <1>5, GroupPlaces
    <3> HIDE DEF before, end
    <3>2. a < d
      BY <1>12, <3>1
    <3>3. a \in Nat /\ 1 <= a
      BY <1>11, <3>1
    <3>4. d \in Nat /\ b \in Nat /\ d <= b /\ b <= NumPoints
      BY <1>11, <3>1
    <3>5. h \in Nat /\ h < N
      BY <1>11, <3>1
    <3>6. H[N + g].lo = a /\ H[N + g].hi = b /\ H[N + g].ht = h + 1 /\ H[N + g].tab = T
      BY <1>14 DEF before, end
    <3>7. T \in Table /\ T <= Len(roots) + 1
      <4>1. Len(roots) < Len(entries)
        BY <1>9 DEF TreeTypes
      <4>2. T \in Nat /\ T - 1 < Len(entries)
        BY <1>1, <4>1
      <4>3. T \in Table /\ T <= T
        BY <1>8, <4>2
      <4> QED BY <1>1, <4>3
    <3> HIDE DEF a, b, d, h
    <3>8. a <= b /\ h + 1 < N + g
      BY <3>2, <3>3, <3>4, <3>5
    <3> QED BY <3>3, <3>4, <3>6, <3>7, <3>8
  <2> QED BY <1>9, <1>10, <2>1, <2>2 DEF Placed
<1>18. LeavesBuilt(H, base, cnt)'
  <2>1. ASSUME NEW p \in 1 .. N + n, Leaf(p)'
        PROVE  LET t == H[p].tab
                   j == p - base[t]
               IN  /\ j \in 1 .. cnt[t]
                   /\ pages'[p].entries = LeafContent(entries[t], j)
                   /\ pages'[p].previous = (IF j = 1 THEN 0 ELSE p - 1)
                   /\ pages'[p].next = (IF j = cnt[t] THEN 0 ELSE p + 1)
                   /\ H[p].lo = LeafStart(j) /\ H[p].hi = LeafEnd(j) /\ H[p].ht = 0
    <3>1. p \in 1 .. N /\ pages'[p] = pages[p] /\ Leaf(p)
      BY <1>10, <2>1
    <3>2. H[p].tab = G[p].tab /\ H[p].lo = G[p].lo /\ H[p].hi = G[p].hi /\ H[p].ht = G[p].ht
      BY <1>13, <3>1
    <3> QED BY <1>8, <3>1, <3>2 DEF Built, LeavesBuilt
  <2>2. ASSUME NEW t \in 1 .. Len(roots) + 1, NEW j \in 1 .. cnt[t]
        PROVE  /\ base[t] + j \in 1 .. N + n /\ Leaf(base[t] + j)' /\ H[base[t] + j].tab = t
               /\ (j - 1) * LeafCapacity < NumPoints
    <3>1. /\ base[t] + j \in 1 .. N /\ Leaf(base[t] + j) /\ G[base[t] + j].tab = t
          /\ (j - 1) * LeafCapacity < NumPoints
      BY <1>8 DEF Built, LeavesBuilt
    <3> QED BY <1>10, <1>13, <3>1
  <2> QED BY <1>9, <2>1, <2>2 DEF LeavesBuilt
<1>19. ParentsBuilt(H)'
  <2>1. ASSUME NEW p \in 1 .. N, ~Leaf(p), ParentBuilt(G, p) PROVE ParentBuilt(H, p)'
    <3>1. pages'[p] = pages[p] /\ p \in PageId
      BY <1>8, <1>10, <2>1
    <3> DEFINE s == pages[p].children
               m == Len(s)
    <3>2. m \in 2 .. InternalCapacity /\ s \in Seq(PageId)
      <4>1. pages[p] \in Pages(Len(pages)) /\ PageId = 1 .. Len(pages)
        BY <3>1, TreeLengths
      <4> QED BY <2>1, <4>1, TypedPage DEF ParentBuilt, Leaf
    <3>3. m \in Nat /\ \A i \in 1 .. m : s[i] \in 1 .. N
      <4> HIDE DEF s
      <4> QED BY <1>8, <3>2, LenProperties
    <3>4. 1 \in 1 .. m /\ m \in 1 .. m /\ \A i \in 1 .. m - 1 : i + 1 \in 1 .. m /\ i \in 1 .. m
      <4> HIDE DEF m
      <4> QED BY <3>2, <3>3
    <3>5. \A i \in 1 .. m : G[s[i]].par = p /\ G[s[i]].slot = i /\ p # 0
      <4>1. \A i \in 1 .. m : G[s[i]].par = p /\ G[s[i]].slot = i
        BY <2>1 DEF ParentBuilt
      <4> QED BY <2>1, <4>1
    <3>6. \A i \in 1 .. m : /\ H[s[i]].tab = G[s[i]].tab /\ H[s[i]].lo = G[s[i]].lo
                            /\ H[s[i]].hi = G[s[i]].hi /\ H[s[i]].ht = G[s[i]].ht
                            /\ H[s[i]].par = p /\ H[s[i]].slot = i
      <4> SUFFICES ASSUME NEW i \in 1 .. m
                   PROVE  /\ H[s[i]].tab = G[s[i]].tab /\ H[s[i]].lo = G[s[i]].lo
                          /\ H[s[i]].hi = G[s[i]].hi /\ H[s[i]].ht = G[s[i]].ht
                          /\ H[s[i]].par = p /\ H[s[i]].slot = i
        OBVIOUS
      <4>1. s[i] \in 1 .. N /\ G[s[i]].par = p /\ G[s[i]].slot = i /\ p # 0
        BY <3>3, <3>5
      <4> HIDE DEF s
      <4> QED BY <1>13, <4>1
    <3>7. H[p].tab = G[p].tab /\ H[p].lo = G[p].lo /\ H[p].hi = G[p].hi /\ H[p].ht = G[p].ht
      BY <1>13
    <3>8. /\ \A i \in 1 .. m : /\ s[i] < p
                              /\ H[s[i]].tab = H[p].tab /\ H[s[i]].ht + 1 = H[p].ht
                              /\ H[s[i]].par = p /\ H[s[i]].slot = i
          /\ H[s[1]].lo = H[p].lo /\ H[s[m]].hi = H[p].hi
      BY <2>1, <3>4, <3>6, <3>7, ZenonT(60) DEF ParentBuilt
    <3>9. \A i \in 1 .. m - 1 :
            /\ H[s[i + 1]].lo = H[s[i]].hi + 1
            /\ pages[p].separators[i] = entries[H[p].tab][H[s[i + 1]].lo].value
      BY <2>1, <3>4, <3>6, <3>7, ZenonT(60) DEF ParentBuilt
    <3>10. pages[p].previous = 0 /\ pages[p].next = 0
      BY <2>1 DEF ParentBuilt
    <3> QED BY <1>9, <3>1, <3>2, <3>8, <3>9, <3>10, ZenonT(60) DEF ParentBuilt
  <2>2. ASSUME NEW g \in 1 .. n PROVE ParentBuilt(H, N + g)'
    <3> DEFINE before == GroupEnd(size, g - 1)
               end == GroupEnd(size, g)
               count == GroupEnd(size, g) - GroupEnd(size, g - 1)
               q == N + g
               page == pages'[q]
               s == page.children
    <3>1. /\ before \in Nat /\ end \in 1 .. size /\ before + 1 \in 1 .. size
          /\ count \in 2 .. InternalCapacity /\ count \in Nat /\ before + count = end
          /\ \A i \in 1 .. count : before + i \in 1 .. size
          /\ \A i \in 1 .. count - 1 : /\ i \in 1 .. count /\ i + 1 \in 1 .. count
                                       /\ before + i + 1 = (before + i) + 1
                                       /\ before + (i + 1) = (before + i) + 1
                                       /\ (before + i) + 1 \in 1 .. size
          /\ 1 \in 1 .. count /\ count \in 1 .. count
      BY <1>4, <1>5, GroupPlaces
    <3>2. /\ H[q].tab = T
          /\ H[q].lo = G[level[before + 1].page].lo
          /\ H[q].hi = G[level[end].page].hi
          /\ H[q].ht = G[level[1].page].ht + 1
          /\ \A i \in 1 .. count : /\ H[level[before + i].page].par = q
                                   /\ H[level[before + i].page].slot = i
      BY <1>14
    <3>3. /\ page.previous = 0 /\ page.next = 0
          /\ Len(s) = count
          /\ \A i \in 1 .. count : s[i] = level[before + i].page
          /\ \A i \in 1 .. count - 1 : page.separators[i] = level[before + i + 1].key
      BY <1>15 DEF ParentAdded
    <3> HIDE DEF before, end, count, q, page
    <3>4. ASSUME NEW i \in 1 .. count
          PROVE  /\ s[i] = level[before + i].page /\ s[i] \in 1 .. N
                 /\ H[s[i]].tab = T /\ H[s[i]].ht + 1 = H[q].ht
                 /\ H[s[i]].par = q /\ H[s[i]].slot = i
                 /\ H[s[i]].lo = G[level[before + i].page].lo
                 /\ H[s[i]].hi = G[level[before + i].page].hi
      <4>1. s[i] = level[before + i].page /\ before + i \in 1 .. size
        BY <3>1, <3>3
      <4> HIDE DEF s
      <4>2. s[i] \in 1 .. N /\ G[s[i]].tab = T /\ G[s[i]].ht = G[level[1].page].ht
        BY <1>11, <4>1
      <4>3. H[s[i]].tab = T /\ H[s[i]].ht = G[level[1].page].ht /\ H[s[i]].lo = G[s[i]].lo
            /\ H[s[i]].hi = G[s[i]].hi
        BY <1>13, <4>2
      <4> QED BY <3>2, <4>1, <4>2, <4>3
    <3>5. \A x \in 1 .. N : x < q
      <4>1. q \in Nat /\ N < q
        BY DEF q
      <4> QED BY <4>1
    <3>6. H[s[1]].lo = H[q].lo /\ H[s[count]].hi = H[q].hi
      <4>1. H[s[1]].lo = G[level[before + 1].page].lo
        BY <3>1, <3>4
      <4>2. H[s[count]].hi = G[level[before + count].page].hi
        BY <3>1, <3>4
      <4> QED BY <3>1, <3>2, <4>1, <4>2
    <3>7. ASSUME NEW i \in 1 .. count - 1
          PROVE  /\ H[s[i + 1]].lo = H[s[i]].hi + 1
                 /\ page.separators[i] = entries[T][H[s[i + 1]].lo].value
      <4>1. /\ i \in 1 .. count /\ i + 1 \in 1 .. count /\ before + i \in 1 .. size
            /\ before + i + 1 = (before + i) + 1 /\ before + (i + 1) = (before + i) + 1
            /\ (before + i) + 1 \in 1 .. size
        BY <3>1
      <4>2. H[s[i + 1]].lo = G[level[(before + i) + 1].page].lo
        BY <3>4, <4>1
      <4>3. H[s[i]].hi = G[level[before + i].page].hi
        BY <3>4, <4>1
      <4>4. page.separators[i] = level[(before + i) + 1].key
        BY <3>3, <4>1
      <4> HIDE DEF s
      <4> DEFINE j == before + i
      <4> HIDE DEF j
      <4>5. j \in 1 .. size /\ j + 1 \in 1 .. size
        BY <4>1 DEF j
      <4>6. G[level[j + 1].page].lo = G[level[j].page].hi + 1
        BY <1>11, <4>5
      <4>7. level[j + 1].key = entries[T][G[level[j + 1].page].lo].value
        BY <1>11, <4>5
      <4> QED BY <4>2, <4>3, <4>4, <4>6, <4>7 DEF j
    <3>8. /\ \A i \in 1 .. count : /\ s[i] < q
                                  /\ H[s[i]].tab = H[q].tab /\ H[s[i]].ht + 1 = H[q].ht
                                  /\ H[s[i]].par = q /\ H[s[i]].slot = i
      BY <3>2, <3>4, <3>5
    <3>9. \A i \in 1 .. count - 1 :
            /\ H[s[i + 1]].lo = H[s[i]].hi + 1
            /\ page.separators[i] = entries[H[q].tab][H[s[i + 1]].lo].value
      BY <3>2, <3>7
    <3> HIDE DEF s
    <3>10. /\ Len(s) \in 2 .. InternalCapacity
           /\ page.previous = 0 /\ page.next = 0
           /\ \A i \in 1 .. Len(s) : /\ s[i] < q
                                     /\ H[s[i]].tab = H[q].tab /\ H[s[i]].ht + 1 = H[q].ht
                                     /\ H[s[i]].par = q /\ H[s[i]].slot = i
           /\ H[s[1]].lo = H[q].lo /\ H[s[Len(s)]].hi = H[q].hi
           /\ \A i \in 1 .. Len(s) - 1 :
                /\ H[s[i + 1]].lo = H[s[i]].hi + 1
                /\ page.separators[i] = entries[H[q].tab][H[s[i + 1]].lo].value
      <4>1. Len(s) = count /\ page.previous = 0 /\ page.next = 0
        BY <3>3 DEF s
      <4> QED BY <3>1, <3>6, <3>8, <3>9, <4>1, Zenon
    <3> QED BY <1>9, <3>10, Zenon DEF ParentBuilt, s, page, q
  <2>3. ASSUME NEW p \in 1 .. N + n, ~Leaf(p)' PROVE ParentBuilt(H, p)'
    <3>1. CASE p \in 1 .. N
      <4>1. ~Leaf(p) /\ p \in PageId
        BY <1>8, <1>10, <2>3, <3>1
      <4> QED BY <2>1, <3>1, <4>1 DEF Built, ParentsBuilt
    <3>2. CASE \E g \in 1 .. n : p = N + g
      BY <2>2, <3>2, Zenon
    <3> QED BY <1>10, <3>1, <3>2
  <2> QED BY <1>9, <2>3 DEF ParentsBuilt
<1>20. Referenced(H)'
  <2>1. ASSUME NEW i \in 1 .. size, NEW q, level[i].page = q
        PROVE  H[q].par # 0 /\ H[q].par \in 1 .. N + n /\ IsChild(H[q].par, H[q].slot, q)'
    <3>1. PICK g \in 1 .. n : GroupEnd(size, g - 1) < i /\ i <= GroupEnd(size, g)
      BY <1>4, <1>5, GroupOfItem
    <3> DEFINE before == GroupEnd(size, g - 1)
               end == GroupEnd(size, g)
               count == GroupEnd(size, g) - GroupEnd(size, g - 1)
               j == i - before
               r == N + g
    <3>2. before \in Nat /\ end \in 1 .. size /\ count \in Nat /\ before + count = end
      BY <1>4, <1>5, GroupPlaces
    <3>3. before < i /\ i <= end
      BY <3>1
    <3>4. \A x \in 1 .. count : /\ H[level[before + x].page].par = r
                               /\ H[level[before + x].page].slot = x
      BY <1>14
    <3>5. /\ pages'[r].kind = "internal" /\ Len(pages'[r].children) = count
          /\ \A x \in 1 .. count : pages'[r].children[x] = level[before + x].page
      BY <1>15 DEF ParentAdded
    <3>6. pages'[r].children \in Seq(1 .. N + n)
      <4>1. TreeTypes'
        BY TypesOfLevelStep
      <4>2. pages' \in Seq(Pages(Len(pages'))) /\ Len(pages') = N + n
        BY <1>6, <4>1 DEF TreeTypes, LevelAdded
      <4>3. r \in 1 .. N + n
        BY <1>10
      <4>4. pages'[r] \in Pages(N + n)
        <5> DEFINE M == N + n
        <5>1. pages' \in Seq(Pages(M)) /\ Len(pages') = M /\ r \in 1 .. M
          BY <4>2, <4>3
        <5> HIDE DEF M, r
        <5> QED BY <5>1, LenProperties DEF M
      <4> HIDE DEF r
      <4> QED BY <3>5, <4>4 DEF Pages, LeafPages, InternalPages
    <3>7. DOMAIN pages'[r].children = 1 .. count
      BY <3>5, <3>6, LenProperties
    <3> HIDE DEF before, end, count, r
    <3>8. j \in 1 .. count /\ before + j = i
      BY <3>2, <3>3
    <3> HIDE DEF j
    <3>9. H[q].par = r /\ H[q].slot = j /\ pages'[r].children[j] = q
      BY <2>1, <3>4, <3>5, <3>8
    <3>10. IsChild(r, j, q)'
      <4>1. ~(pages'[r].kind = "leaf") /\ j \in DOMAIN pages'[r].children
        BY <3>5, <3>7, <3>8
      <4> QED BY <3>9, <4>1 DEF IsChild, Leaf
    <3>11. r # 0 /\ r \in 1 .. N + n
      BY DEF r
    <3> QED BY <3>9, <3>10, <3>11
  <2>2. ASSUME NEW q \in 1 .. N, \A i \in 1 .. size : level[i].page # q
        PROVE  IF H[q].par = 0 THEN H[q].tab \in DOMAIN roots /\ roots[H[q].tab] = q
               ELSE H[q].par \in 1 .. N + n /\ IsChild(H[q].par, H[q].slot, q)'
    <3>1. H[q].tab = G[q].tab /\ H[q].par = G[q].par /\ H[q].slot = G[q].slot
      BY <1>13, <2>2
    <3>2. CASE G[q].par = 0
      BY <1>8, <2>2, <3>1, <3>2 DEF Built, Referenced
    <3>3. CASE G[q].par # 0
      <4>1. G[q].par \in 1 .. N /\ IsChild(G[q].par, G[q].slot, q)
        BY <1>8, <3>3 DEF Built, Referenced
      <4>2. IsChild(G[q].par, G[q].slot, q)' /\ G[q].par \in 1 .. N + n
        BY <1>10, <4>1 DEF IsChild
      <4> QED BY <3>1, <3>3, <4>2
    <3> QED BY <3>2, <3>3
  <2>3. ASSUME NEW g \in 1 .. n
        PROVE  H[N + g].par = 0 /\ g \in DOMAIN level' /\ level'[g].page = N + g
    BY <1>9, <1>14, <1>15 DEF ParentAdded
  <2>4. ASSUME NEW q \in 1 .. N + n
        PROVE  IF H[q].par = 0
                 THEN \/ H[q].tab \in DOMAIN roots /\ roots[H[q].tab] = q
                      \/ \E i \in DOMAIN level' : level'[i].page = q
                 ELSE H[q].par \in 1 .. N + n /\ IsChild(H[q].par, H[q].slot, q)'
    <3>1. CASE q \in 1 .. N /\ \A i \in 1 .. size : level[i].page # q
      BY <2>2, <3>1
    <3>2. CASE \E i \in 1 .. size : level[i].page = q
      <4>1. H[q].par # 0 /\ H[q].par \in 1 .. N + n /\ IsChild(H[q].par, H[q].slot, q)'
        BY <2>1, <3>2
      <4> QED BY ONLY <4>1
    <3>3. CASE \E g \in 1 .. n : q = N + g
      BY <2>3, <3>3
    <3>4. \/ q \in 1 .. N /\ \A i \in 1 .. size : level[i].page # q
          \/ \E i \in 1 .. size : level[i].page = q
          \/ \E g \in 1 .. n : q = N + g
      BY <1>10
    <3> QED BY ONLY <3>1, <3>2, <3>3, <3>4
  <2> QED BY <1>9, <2>4 DEF Referenced
<1>21. RootsBuilt(H, cnt)'
  <2>1. ASSUME NEW t \in DOMAIN roots
        PROVE  /\ H[roots[t]].tab = t /\ H[roots[t]].par = 0
               /\ NumPoints <= cnt[t] * LeafCapacity
    <3>1. G[roots[t]].tab = t /\ G[roots[t]].par = 0 /\ NumPoints <= cnt[t] * LeafCapacity
      BY DEF Built, RootsBuilt
    <3>2. roots[t] \in 1 .. N /\ t # T
      BY <1>8
    <3> QED BY <1>13, <3>1, <3>2
  <2> QED BY <1>9, <2>1 DEF RootsBuilt
<1>22. LevelBuilt(H, base, cnt)'
  <2>1. ASSUME NEW g \in 1 .. n
        PROVE  /\ level'[g].page = N + g
               /\ H[N + g].tab = T /\ H[N + g].par = 0
               /\ level'[g].key = entries[T][H[N + g].lo].value
               /\ H[N + g].ht = G[level[1].page].ht + 1
               /\ g + 1 \in 1 .. n => H[N + (g + 1)].lo = H[N + g].hi + 1
    <3> DEFINE before == GroupEnd(size, g - 1)
               end == GroupEnd(size, g)
    <3>1. /\ before + 1 \in 1 .. size /\ end \in 1 .. size /\ (g + 1) - 1 = g
          /\ g + 1 \in 1 .. n => end + 1 \in 1 .. size
      BY <1>4, <1>5, GroupPlaces
    <3>2. level'[g].page = N + g /\ level'[g].key = level[before + 1].key
      BY <1>15 DEF ParentAdded
    <3>3. /\ H[N + g].tab = T /\ H[N + g].par = 0
          /\ H[N + g].lo = G[level[before + 1].page].lo
          /\ H[N + g].hi = G[level[end].page].hi
          /\ H[N + g].ht = G[level[1].page].ht + 1
      BY <1>14
    <3>4. g + 1 \in 1 .. n => H[N + (g + 1)].lo = G[level[end + 1].page].lo
      BY <1>14, <3>1
    <3> HIDE DEF before, end
    <3>5. level[before + 1].key = entries[T][G[level[before + 1].page].lo].value
      BY <1>11, <3>1
    <3>6. g + 1 \in 1 .. n => G[level[end + 1].page].lo = G[level[end].page].hi + 1
      BY <1>11, <3>1
    <3> QED BY <3>2, <3>3, <3>4, <3>5, <3>6
  <2>2. \A g \in DOMAIN level' :
          /\ H[level'[g].page].tab = T /\ H[level'[g].page].par = 0
          /\ level'[g].key = entries'[T][H[level'[g].page].lo].value
          /\ \A j \in DOMAIN level' : H[level'[j].page].ht = H[level'[g].page].ht
          /\ g + 1 \in DOMAIN level' => H[level'[g + 1].page].lo = H[level'[g].page].hi + 1
    BY <1>9, <2>1, SMTT(60)
  <2>3. level' # <<>>
    <3>1. 1 \in DOMAIN level'
      BY <1>9
    <3>2. DOMAIN <<>> = {}
      OBVIOUS
    <3> QED BY ONLY <3>1, <3>2
  <2>4. NumPoints' <= cnt[T] * LeafCapacity
    BY <1>1, <1>9 DEF Built, LevelBuilt
  <2>5. Len(roots)' + 1 = T
    BY <1>1, <1>9
  <2> QED BY <1>9, <2>2, <2>3, <2>4, <2>5 DEF LevelBuilt
<1> QED BY <1>16, <1>17, <1>18, <1>19, <1>20, <1>21, <1>22 DEF Built

-----------------------------------------------------------------------------
(* Open rejects nothing but damage. *)

BuildInv ==
    /\ TreeTypes
    /\ pc # "failed"
    /\ pc = "rejected" => damages # 0
    /\ damages = 0 /\ pc \in {"leaves", "levels", "written"} =>
         \E G, base, cnt : Built(G, base, cnt)

LEMMA SameBuilt ==
  ASSUME UNCHANGED treeVars, NEW G, NEW base, NEW cnt, Built(G, base, cnt)
  PROVE  Built(G, base, cnt)'
<1>1. /\ pages' = pages /\ roots' = roots /\ entries' = entries /\ level' = level /\ pc' = pc
  BY DEF treeVars
<1>2. /\ PageId' = PageId /\ Table' = Table /\ NumPoints' = NumPoints
      /\ (\A p : Leaf(p)' <=> Leaf(p))
      /\ (\A k : LeafEnd(k)' = LeafEnd(k))
      /\ \A p, i, q : IsChild(p, i, q)' <=> IsChild(p, i, q)
  BY <1>1 DEF PageId, Table, NumPoints, Leaf, IsChild, LeafEnd
<1>3. Placed(G)'
  BY <1>1, <1>2 DEF Built, Placed
<1>4. LeavesBuilt(G, base, cnt)'
  BY <1>1, <1>2 DEF Built, LeavesBuilt
<1>5. ParentsBuilt(G)'
  <2>1. \A p : ParentBuilt(G, p)' <=> ParentBuilt(G, p)
    BY <1>1 DEF ParentBuilt
  <2> QED BY <1>2, <2>1 DEF Built, ParentsBuilt
<1>6. Referenced(G)'
  BY <1>1, <1>2 DEF Built, Referenced
<1>7. RootsBuilt(G, cnt)'
  BY <1>1, <1>2 DEF Built, RootsBuilt
<1>8. LevelBuilt(G, base, cnt)'
  BY <1>1, <1>2 DEF Built, LevelBuilt
<1> QED BY <1>3, <1>4, <1>5, <1>6, <1>7, <1>8 DEF Built, Functions

LEMMA BuildStep ==
  ASSUME BuildInv, NextTree
  PROVE  BuildInv'
<1> DEFINE Some == \E G, base, cnt : Built(G, base, cnt)
<1>1. CASE AddLeaf
  <2>1. pc = "leaves" /\ pc' \in {"leaves", "levels"} /\ damages' = damages
    BY <1>1 DEF AddLeaf
  <2>2. TreeTypes'
    BY <1>1, TypesOfLeafStep DEF BuildInv
  <2>3. damages = 0 => Some'
    <3> SUFFICES ASSUME damages = 0 PROVE Some'
      OBVIOUS
    <3>1. PICK G, base, cnt : Built(G, base, cnt)
      BY <2>1 DEF BuildInv
    <3>2. \E H, c : Built(H, base, c)'
      BY <1>1, <3>1, BuiltByLeafStep DEF BuildInv
    <3> QED BY <3>2
  <2> HIDE DEF Some
  <2> QED BY <2>1, <2>2, <2>3 DEF BuildInv, Some
<1>2. CASE AddLevel
  <2>1. pc = "levels" /\ damages' = damages
    BY <1>2 DEF AddLevel
  <2>2. TreeTypes' /\ pc' = pc
    BY <1>2, TypesOfLevelStep DEF BuildInv
  <2>3. damages = 0 => Some'
    <3> SUFFICES ASSUME damages = 0 PROVE Some'
      OBVIOUS
    <3>1. PICK G, base, cnt : Built(G, base, cnt)
      BY <2>1 DEF BuildInv
    <3>2. \E H : Built(H, base, cnt)'
      BY <1>2, <3>1, BuiltByLevelStep DEF BuildInv
    <3> QED BY <3>2
  <2> HIDE DEF Some
  <2> QED BY <2>1, <2>2, <2>3 DEF BuildInv, Some
<1>3. CASE AddRoot
  <2>1. pc = "levels" /\ pc' \in {"written", "leaves"} /\ damages' = damages
    BY <1>3 DEF AddRoot
  <2>2. TreeTypes'
    BY <1>3, TypesOfRootStep DEF BuildInv
  <2>3. damages = 0 => Some'
    <3> SUFFICES ASSUME damages = 0 PROVE Some'
      OBVIOUS
    <3>1. PICK G, base, cnt : Built(G, base, cnt)
      BY <2>1 DEF BuildInv
    <3>2. \E b, c : Built(G, b, c)'
      BY <1>3, <3>1, BuiltByRootStep DEF BuildInv
    <3> QED BY <3>2
  <2> HIDE DEF Some
  <2> QED BY <2>1, <2>2, <2>3 DEF BuildInv, Some
<1>4. CASE Damage
  <2>1. TreeTypes'
    BY <1>4, TypesOfDamage DEF BuildInv
  <2>2. pc' = "written" /\ damages' # 0
    BY <1>4 DEF Damage, BuildInv, TreeTypes
  <2> QED BY <2>1, <2>2 DEF BuildInv
<1>5. CASE Open
  <2>1. TreeTypes'
    BY <1>5, TypesOfOpen DEF BuildInv
  <2>2. /\ pc = "written" /\ damages' = damages /\ pc' \in {"open", "rejected"}
        /\ pc' = "rejected" => ~Accepted
    BY <1>5 DEF Open
  <2>3. damages = 0 => Accepted
    <3> SUFFICES ASSUME damages = 0 PROVE Accepted
      OBVIOUS
    <3>1. PICK G, base, cnt : Built(G, base, cnt)
      BY <2>2 DEF BuildInv
    <3>2. Complete(G, base, cnt)
      BY <2>2, <3>1 DEF BuildInv, Complete
    <3> QED BY <3>2, CompleteIsAccepted
  <2> QED BY <2>1, <2>2, <2>3 DEF BuildInv
<1> QED BY <1>1, <1>2, <1>3, <1>4, <1>5 DEF NextTree

LEMMA BuildStutter ==
  ASSUME BuildInv, UNCHANGED treeVars
  PROVE  BuildInv'
<1>1. TreeTypes'
  BY DEF BuildInv, treeVars, TreeTypes, TablesOK, Table, NumPoints
<1>2. pc' = pc /\ damages' = damages
  BY DEF treeVars
<1> DEFINE Some == \E G, base, cnt : Built(G, base, cnt)
<1>3. Some => Some'
  <2> SUFFICES ASSUME Some PROVE Some'
    OBVIOUS
  <2>1. PICK G, base, cnt : Built(G, base, cnt)
    OBVIOUS
  <2>2. Built(G, base, cnt)'
    BY <2>1, SameBuilt
  <2> QED BY <2>2
<1> HIDE DEF Some
<1> QED BY <1>1, <1>2, <1>3 DEF BuildInv, Some

\* Build never fails on a level it cannot group, and load_header accepts every
\* undamaged file that Build wrote.
THEOREM BuiltIndexIsAcceptedProved == Spec => []BuiltIndexIsAccepted
<1>1. Init => BuildInv
  <2> SUFFICES ASSUME Init PROVE BuildInv
    OBVIOUS
  <2>1. InitTree /\ pc = "leaves"
    BY DEF Init, InitTree
  <2> QED BY <2>1, TypesInit, BuiltInit DEF BuildInv
<1>2. BuildInv /\ [Next]_vars => BuildInv'
  BY BuildStep, BuildStutter, CursorStepsLeaveTree
<1>3. BuildInv => BuiltIndexIsAccepted
  BY DEF BuildInv, TreeTypes, BuiltIndexIsAccepted
<1> QED BY <1>1, <1>2, <1>3, PTL DEF Spec
-----------------------------------------------------------------------------
(* The places that a cursor passes, in an index that holds what Build wrote. *)

\* In the leaf that holds position i of the table: its place there, how many
\* entries there are from it on, and which leaf of the table it is.
Before(i) == Kernel!RegionLeft(i)
Rest(i) == Kernel!RegionRight(i)
LeafNo(i) == ((i - 1) \div LeafCapacity) + 1

\* Position i is the Before(i)-th of its leaf, which has Rest(i) more from there.
LEMMA PositionInLeaf ==
  ASSUME NEW i \in Position
  PROVE  /\ i \in Nat /\ LeafNo(i) \in Nat \ {0}
         /\ Before(i) \in 1 .. i /\ Rest(i) \in 1 .. EntryCount - i + 1
         /\ (LeafNo(i) - 1) * LeafCapacity \in Nat
         /\ Before(i) = i - (LeafNo(i) - 1) * LeafCapacity /\ Before(i) <= LeafCapacity
         /\ Rest(i) = SmallerOf(EntryCount, (LeafNo(i) - 1) * LeafCapacity + LeafCapacity) - i + 1
<1> DEFINE k == (i - 1) \div LeafCapacity
           r == (i - 1) % LeafCapacity
           C == LeafCapacity
<1>1. i \in Nat /\ i - 1 \in Nat /\ i <= EntryCount /\ EntryCount \in Nat /\ C \in Nat \ {0}
  BY BPlusTreeAssumption, BPlusTreeCursorAssumption DEF Position
<1>2. k \in Nat /\ r \in 0 .. C - 1 /\ i - 1 = C * k + r
  BY <1>1
<1>3. LeafNo(i) = k + 1 /\ Before(i) = r + 1
  BY DEF LeafNo, Before, Kernel!RegionLeft
<1>4. Rest(i) = SmallerOf(EntryCount, (k + 1) * C) - i + 1
  BY DEF Rest, Kernel!RegionRight, Kernel!SmallerOf, SmallerOf
<1> HIDE DEF k, r, C
<1>5. C * k = k * C /\ (k + 1) * C = k * C + C /\ k * C \in Nat /\ (k + 1) - 1 = k
  BY <1>1, <1>2
<1> DEFINE x == k * C
           y == (k + 1) * C
<1>6. x \in Nat /\ i - 1 = x + r /\ y = x + C
  BY <1>1, <1>2, <1>5
<1>7. LeafNo(i) - 1 = k
  BY <1>2, <1>3
<1> HIDE DEF x, y
<1>8. /\ r + 1 \in 1 .. i /\ r + 1 = i - x /\ r + 1 <= C
      /\ SmallerOf(EntryCount, y) - i + 1 \in 1 .. EntryCount - i + 1
  BY <1>1, <1>2, <1>6 DEF SmallerOf
<1> QED BY <1>1, <1>2, <1>3, <1>4, <1>6, <1>7, <1>8 DEF x, y, C

\* A position is in one leaf only.
LEMMA LeafOfPlace ==
  ASSUME NEW h \in Position, NEW k \in Nat \ {0},
         (k - 1) * LeafCapacity < h, h <= (k - 1) * LeafCapacity + LeafCapacity
  PROVE  LeafNo(h) = k /\ Before(h) = h - (k - 1) * LeafCapacity
<1> DEFINE C == LeafCapacity
           x == (k - 1) * C
           m == LeafNo(h)
           y == (m - 1) * C
<1>0. C \in Nat \ {0} /\ x \in Nat /\ k \in Nat \ {0} /\ x < h /\ h <= x + C
  BY BPlusTreeAssumption
<1>1. /\ h \in Nat /\ m \in Nat \ {0} /\ y \in Nat
      /\ Before(h) = h - y /\ Before(h) \in 1 .. h /\ Before(h) <= C
  BY PositionInLeaf
<1>2. k * C = x + C /\ m * C = y + C
  BY <1>0, <1>1
<1> HIDE DEF m, x, y, C
<1>3. y < h /\ h <= y + C
  BY <1>0, <1>1
<1>4. ~(m < k)
  <2> SUFFICES ASSUME m < k PROVE FALSE
    OBVIOUS
  <2>1. m <= k - 1 /\ k - 1 \in Nat
    BY <1>0, <1>1
  <2>2. m * C <= (k - 1) * C
    BY <1>0, <1>1, <2>1
  <2>3. (k - 1) * C = x
    BY DEF x
  <2>4. y + C <= x
    BY <1>2, <2>2, <2>3
  <2> QED BY <1>0, <1>1, <1>3, <2>4
<1>5. ~(k < m)
  <2> SUFFICES ASSUME k < m PROVE FALSE
    OBVIOUS
  <2>1. k <= m - 1 /\ m - 1 \in Nat
    BY <1>0, <1>1
  <2>2. k * C <= (m - 1) * C
    BY <1>0, <1>1, <2>1
  <2>3. (m - 1) * C = y
    BY DEF y
  <2>4. x + C <= y
    BY <1>2, <2>2, <2>3
  <2> QED BY <1>0, <1>1, <1>3, <2>4
<1>6. m = k
  BY <1>0, <1>1, <1>4, <1>5
<1>7. LeafNo(h) = k
  BY <1>6 DEF m
<1>8. y = x
  BY <1>6 DEF x, y
<1> QED BY <1>1, <1>7, <1>8 DEF x, C

\* Along a leaf the one count falls as the other rises.
LEMMA AlongLeaf ==
  ASSUME NEW i \in Position
  PROVE  /\ \A j \in 0 .. Before(i) - 1 :
              /\ i - j \in Position /\ LeafNo(i - j) = LeafNo(i) /\ Before(i - j) = Before(i) - j
         /\ \A j \in 0 .. Rest(i) - 1 :
              /\ i + j \in Position /\ LeafNo(i + j) = LeafNo(i) /\ Before(i + j) = Before(i) + j
<1> DEFINE C == LeafCapacity
           k == LeafNo(i)
           x == (k - 1) * C
<1>1. /\ i \in Nat /\ k \in Nat \ {0} /\ C \in Nat \ {0} /\ x \in Nat
      /\ Before(i) = i - x /\ Before(i) \in 1 .. i /\ Before(i) <= C
      /\ Rest(i) \in 1 .. EntryCount - i + 1
      /\ Rest(i) = SmallerOf(EntryCount, x + C) - i + 1
      /\ EntryCount \in Nat /\ i <= EntryCount
  BY PositionInLeaf, BPlusTreeAssumption, BPlusTreeCursorAssumption DEF Position
<1>2. ASSUME NEW h \in Position, x < h, h <= x + C
      PROVE  LeafNo(h) = k /\ Before(h) = h - x
  BY <1>1, <1>2, LeafOfPlace
<1> HIDE DEF k, x, C
<1>3. ASSUME NEW j \in 0 .. Before(i) - 1
      PROVE  i - j \in Position /\ LeafNo(i - j) = k /\ Before(i - j) = Before(i) - j
  <2>1. i - j \in Position /\ x < i - j /\ i - j <= x + C /\ i - j - x = Before(i) - j
    BY <1>1 DEF Position
  <2> QED BY <1>2, <2>1
<1>4. ASSUME NEW j \in 0 .. Rest(i) - 1
      PROVE  i + j \in Position /\ LeafNo(i + j) = k /\ Before(i + j) = Before(i) + j
  <2>1. i + j <= SmallerOf(EntryCount, x + C)
    BY <1>1 DEF SmallerOf
  <2>2. i + j \in Position /\ x < i + j /\ i + j <= x + C /\ i + j - x = Before(i) + j
    BY <1>1, <2>1 DEF Position, SmallerOf
  <2> DEFINE h == i + j
  <2>3. h \in Position /\ x < h /\ h <= x + C /\ h - x = Before(i) + j
    BY <1>1, <2>2
  <2> HIDE DEF h
  <2>4. LeafNo(h) = k /\ Before(h) = h - x
    BY <1>2, <2>3
  <2> QED BY <2>3, <2>4 DEF h
<1> QED BY <1>3, <1>4 DEF k

\* A place for every position; those to the left and to the right of a cursor,
\* which has come to the end of the table at NoPlace.
Places == [Position -> [page : Nat \ {0}, index : Nat]]
LeftPlace(P, i) == IF i = 0 THEN NoPlace ELSE P[i]
RightPlace(P, i) == IF i = EntryCount + 1 THEN NoPlace ELSE P[i]

\* The leaf of position i of the cursor's table.
LeafLaid(P, i) ==
    LET leaf == pages[P[i].page]
    IN  /\ P[i].index = Before(i)
        /\ leaf.entries \in Seq(Entry)
        /\ Len(leaf.entries) = Before(i) + Rest(i) - 1
        /\ \A j \in 1 .. Before(i) + Rest(i) - 1 :
             leaf.entries[j] = entries[tableId][i - Before(i) + j]
        /\ \A j \in 0 .. Before(i) - 1 : P[i - j] = [page |-> P[i].page, index |-> Before(i) - j]
        /\ \A j \in 0 .. Rest(i) - 1 : P[i + j] = [page |-> P[i].page, index |-> Before(i) + j]
        /\ PlaceLeftOf(P[i].page) = LeftPlace(P, i - Before(i))
        /\ PlaceRightOf(P[i].page) = RightPlace(P, i + Rest(i))

\* P[i] is where position i of the cursor's table lies.
Laid(P) ==
    /\ P \in Places
    /\ LeavesOf(tableId) = {P[i].page : i \in Position}
    /\ \A i \in Position : LeafLaid(P, i)

\* Build lays the cursor's table out: the leaves' links lead along it.
LEMMA BuiltIsLaid ==
  ASSUME NEW G, NEW base, NEW cnt, Complete(G, base, cnt), tableId \in Table,
         NumPoints = EntryCount
  PROVE  \E P : Laid(P)
<1> DEFINE t == tableId
           b == base[t]
           K == cnt[t]
           C == LeafCapacity
           N == EntryCount
           P == [i \in Position |-> [page |-> b + LeafNo(i), index |-> Before(i)]]
<1>1. /\ K \in Nat \ {0} /\ b \in Nat /\ N <= K * C
      /\ LeavesOf(t) = {b + k : k \in 1 .. K}
      /\ C \in Nat \ {0} /\ N \in Nat \ {0}
  BY CompleteLeaves, BPlusTreeAssumption, BPlusTreeCursorAssumption
<1>2. ASSUME NEW k \in 1 .. K
      PROVE  LET p == b + k
                 end == SmallerOf((k - 1) * C + C, N)
             IN  /\ pages[p].previous = (IF k = 1 THEN 0 ELSE p - 1)
                 /\ pages[p].next = (IF k = K THEN 0 ELSE p + 1)
                 /\ Len(pages[p].entries) = end - (k - 1) * C
                 /\ pages[p].entries \in Seq(Entry)
                 /\ \A j \in 1 .. end - (k - 1) * C : pages[p].entries[j] = entries[t][(k - 1) * C + j]
  <2> DEFINE p == b + k
             x == (k - 1) * C
             end == SmallerOf(x + C, N)
  <2>1. /\ p \in PageId /\ Leaf(p) /\ G[p].tab = t /\ p - base[t] = k
        /\ pages[p].previous = (IF k = 1 THEN 0 ELSE p - 1)
        /\ pages[p].next = (IF k = K THEN 0 ELSE p + 1)
        /\ G[p].lo = LeafStart(k) /\ G[p].hi = LeafEnd(k)
    BY CompleteLeaves
  <2>2. LeafStart(k) = x + 1 /\ LeafEnd(k) = end
    BY DEF LeafStart, LeafEnd
  <2>3. x \in Nat /\ end \in Nat
    <3>1. k \in Nat /\ k - 1 \in Nat
      BY <1>1
    <3>2. x \in Nat
      BY <1>1, <3>1
    <3> HIDE DEF x, C
    <3> QED BY <1>1, <3>2 DEF SmallerOf
  <2> HIDE DEF x, end, p
  <2>4. /\ Len(pages[p].entries) = end - (x + 1) + 1
        /\ \A j \in 1 .. end - (x + 1) + 1 : pages[p].entries[j] = entries[t][(x + 1) + j - 1]
    BY <2>1, <2>2, CompleteLeaf
  <2>5. end - (x + 1) + 1 = end - x
    BY <2>3
  <2>6. \A j \in 1 .. end - x : (x + 1) + j - 1 = x + j
    BY <2>3
  <2>7. pages[p].entries \in Seq(Entry)
    BY <2>1, CompleteIndexOK, PageFields DEF Complete, TreeTypes
  <2> QED BY <2>1, <2>4, <2>5, <2>6, <2>7 DEF x, end, p

\* Only the last leaf may be short.
<1>3. \A k \in 1 .. K : (k - 1) * C < N
  <2>1. LeavesBuilt(G, base, cnt) /\ t \in 1 .. Len(roots) + 1
    <3>1. Len(roots) \in Nat /\ DOMAIN roots = 1 .. Len(roots) /\ Table = 1 .. Len(roots)
      BY TreeLengths DEF Complete, TreeTypes, TablesOK, Table
    <3> QED BY <3>1 DEF Complete, Built
  <2> QED BY <2>1 DEF LeavesBuilt
<1> HIDE DEF K, b
<1>4. ASSUME NEW i \in Position PROVE LeafNo(i) \in 1 .. K
  <2> DEFINE k == LeafNo(i)
             x == (k - 1) * C
  <2>1. i \in Nat /\ i <= N /\ k \in Nat \ {0} /\ x \in Nat /\ Before(i) = i - x /\ Before(i) \in 1 .. i
    BY PositionInLeaf DEF Position
  <2> HIDE DEF k
  <2>2. ~(K < k)
    <3> SUFFICES ASSUME K < k PROVE FALSE
      OBVIOUS
    <3>1. K <= k - 1 /\ k - 1 \in Nat
      BY <1>1, <2>1
    <3>2. K * C <= (k - 1) * C
      <4>1. C \in Nat /\ K \in Nat
        BY <1>1
      <4> QED BY ONLY <3>1, <4>1
    <3> DEFINE y == K * C
    <3>3. y <= x /\ N <= y /\ y \in Nat
      BY <1>1, <3>2
    <3> HIDE DEF x, y
    <3> QED BY <1>1, <2>1, <3>3
  <2> QED BY <1>1, <2>1, <2>2 DEF k
<1>5. P \in Places
  <2> SUFFICES ASSUME NEW i \in Position
               PROVE  b + LeafNo(i) \in Nat \ {0} /\ Before(i) \in Nat
    BY DEF Places
  <2> QED BY <1>1, PositionInLeaf
<1>6. LeavesOf(t) = {P[i].page : i \in Position}
  <2>1. ASSUME NEW k \in 1 .. K PROVE \E i \in Position : P[i].page = b + k
    <3> DEFINE x == (k - 1) * C
               i == x + 1
    <3>1. x \in Nat
      <4>1. k - 1 \in Nat
        BY <1>1
      <4> QED BY <1>1, <4>1
    <3>2. x < N
      BY <1>3
    <3> HIDE DEF x
    <3>3. i \in Position /\ x < i /\ i <= x + C /\ k \in Nat \ {0}
      BY <1>1, <3>1, <3>2 DEF Position
    <3> HIDE DEF i
    <3>4. LeafNo(i) = k
      BY <3>3, LeafOfPlace DEF x
    <3> QED BY <3>3, <3>4
  <2>2. \A i \in Position : P[i].page = b + LeafNo(i)
    OBVIOUS
  <2> HIDE DEF P
  <2> QED BY <1>1, <1>4, <2>1, <2>2
<1>7. ASSUME NEW i \in Position PROVE LeafLaid(P, i)
  <2> DEFINE k == LeafNo(i)
             x == (k - 1) * C
             end == SmallerOf(x + C, N)
             p == b + k
             e == pages[p].entries
  <2>1. /\ i \in Nat /\ i <= N /\ k \in 1 .. K /\ k \in Nat \ {0} /\ x \in Nat
        /\ Before(i) = i - x /\ Before(i) \in 1 .. i /\ Before(i) <= C
        /\ Rest(i) \in 1 .. N - i + 1 /\ Rest(i) = SmallerOf(N, x + C) - i + 1
    BY <1>1, <1>4, PositionInLeaf DEF Position
  <2>2. P[i] = [page |-> p, index |-> Before(i)] /\ P[i].page = p /\ P[i].index = Before(i)
    OBVIOUS
  <2>3. /\ pages[p].previous = (IF k = 1 THEN 0 ELSE p - 1)
        /\ pages[p].next = (IF k = K THEN 0 ELSE p + 1)
        /\ Len(e) = end - x /\ e \in Seq(Entry)
        /\ \A j \in 1 .. end - x : e[j] = entries[t][x + j]
    BY <1>2, <2>1
  <2>4. \A j \in 0 .. Before(i) - 1 : P[i - j] = [page |-> p, index |-> Before(i) - j]
    <3> SUFFICES ASSUME NEW j \in 0 .. Before(i) - 1
                 PROVE  P[i - j] = [page |-> p, index |-> Before(i) - j]
      OBVIOUS
    <3>1. i - j \in Position /\ LeafNo(i - j) = k /\ Before(i - j) = Before(i) - j
      BY AlongLeaf
    <3> QED BY <3>1
  <2>5. \A j \in 0 .. Rest(i) - 1 : P[i + j] = [page |-> p, index |-> Before(i) + j]
    <3> SUFFICES ASSUME NEW j \in 0 .. Rest(i) - 1
                 PROVE  P[i + j] = [page |-> p, index |-> Before(i) + j]
      OBVIOUS
    <3>1. i + j \in Position /\ LeafNo(i + j) = k /\ Before(i + j) = Before(i) + j
      BY AlongLeaf
    <3> QED BY <3>1
  <2>6. \A h \in Position : P[h] = [page |-> b + LeafNo(h), index |-> Before(h)]
    OBVIOUS
  <2> HIDE DEF P, k, x, p, e, C
  <2>7. end = SmallerOf(N, x + C) /\ end \in Nat /\ end - x = Before(i) + Rest(i) - 1 /\ end = i + Rest(i) - 1
        /\ x = i - Before(i)
    BY <1>1, <2>1 DEF SmallerOf
  <2>8. \A j \in 1 .. Before(i) + Rest(i) - 1 : e[j] = entries[t][i - Before(i) + j]
    BY <2>3, <2>7
  <2>9. PlaceLeftOf(p) = LeftPlace(P, x)
    <3>1. CASE k = 1
      <4>1. x = 0
        BY <1>1, <3>1 DEF x, C
      <4> QED BY <2>3, <3>1, <4>1 DEF PlaceLeftOf, LeftPlace
    <3>2. CASE k # 1
      <4> DEFINE m == k - 1
                 y == (m - 1) * C
      <4>1. m \in Nat \ {0} /\ m \in 1 .. K /\ p - 1 = b + m
        BY <1>1, <2>1, <3>2 DEF p
      <4>2. x = y + C /\ y \in Nat
        <5>1. (k - 1) * C = (m - 1) * C + C
          <6>1. m * C = (m - 1) * C + C
            BY <1>1, <4>1 DEF C
          <6> QED BY <6>1
        <5>2. m - 1 \in Nat
          BY <4>1
        <5>3. (m - 1) * C \in Nat
          BY <1>1, <5>2 DEF C
        <5> QED BY <5>1, <5>3 DEF x
      <4> HIDE DEF y
      <4>3. x \in Position /\ y < x /\ x <= y + C
        BY <1>1, <2>1, <4>2 DEF Position, C
      <4>4. LeafNo(x) = m /\ Before(x) = x - y
        BY <4>1, <4>3, LeafOfPlace DEF y, C
      <4>5. P[x] = [page |-> b + m, index |-> C]
        <5>1. x - y = C
          BY <1>1, <4>2 DEF C
        <5> QED BY <2>6, <4>3, <4>4, <5>1
      <4>6. Len(pages[b + m].entries) = C
        <5>1. Len(pages[b + m].entries) = SmallerOf(y + C, N) - y
          BY <1>2, <4>1 DEF y, C
        <5>2. SmallerOf(y + C, N) - y = C
          BY <1>1, <2>1, <4>2, <4>3 DEF SmallerOf, C, Position
        <5> QED BY <5>1, <5>2
      <4>7. pages[p].previous = b + m /\ b + m # 0 /\ x # 0
        BY <1>1, <2>3, <3>2, <4>1, <4>3, <4>2
      <4> HIDE DEF m
      <4> QED BY <4>5, <4>6, <4>7 DEF PlaceLeftOf, LeftPlace
    <3> QED BY <3>1, <3>2
  <2>10. PlaceRightOf(p) = RightPlace(P, i + Rest(i))
    <3> DEFINE z == i + Rest(i)
    <3>1. z = end + 1 /\ z \in Nat
      BY <2>1, <2>7
    <3>2. k * C = x + C
      BY <1>1, <2>1 DEF x, C
    <3> HIDE DEF z, end
    <3>3. CASE k = K
      <4> DEFINE u == K * C
      <4>1. u = x + C /\ N <= u
        BY <1>1, <3>2, <3>3 DEF C
      <4> HIDE DEF u
      <4>2. z = N + 1
        <5>1. N <= x + C
          BY <4>1
        <5>2. end = N
          BY <1>1, <2>1, <2>7, <5>1 DEF SmallerOf, C
        <5> QED BY <3>1, <5>2
      <4>3. pages[p].next = 0
        BY <2>3, <3>3
      <4> QED BY <4>2, <4>3 DEF PlaceRightOf, RightPlace, z
    <3>4. CASE k # K
      <4> DEFINE m == k + 1
                 y == (m - 1) * C
      <4>1. m \in Nat \ {0} /\ m \in 1 .. K /\ p + 1 = b + m /\ m - 1 = k
        BY <1>1, <2>1, <3>4 DEF p
      <4>2. y = x + C /\ y < N
        <5>1. y = k * C
          BY <4>1
        <5>2. y < N
          BY <1>3, <4>1 DEF C
        <5> QED BY <3>2, <5>1, <5>2
      <4> HIDE DEF y
      <4>3. z \in Position /\ y < z /\ z <= y + C /\ z - y = 1 /\ z # N + 1
        <5>1. end = x + C
          BY <1>1, <2>1, <2>7, <4>2 DEF SmallerOf, C
        <5> QED BY <1>1, <2>1, <3>1, <4>2, <5>1 DEF Position, C
      <4>4. LeafNo(z) = m /\ Before(z) = z - y
        BY <4>1, <4>3, LeafOfPlace DEF y, C
      <4>5. P[z] = [page |-> b + m, index |-> 1]
        BY <2>6, <4>3, <4>4
      <4>6. pages[p].next = b + m /\ b + m # 0
        BY <1>1, <2>3, <3>4, <4>1
      <4> HIDE DEF m
      <4>7. PlaceRightOf(p) = RightPlace(P, z)
        BY <4>3, <4>5, <4>6 DEF PlaceRightOf, RightPlace
      <4> QED BY <4>7 DEF z
    <3> QED BY <3>3, <3>4
  <2> QED BY <2>2, <2>3, <2>4, <2>5, <2>7, <2>8, <2>9, <2>10 DEF LeafLaid, e
<1> QED BY <1>5, <1>6, <1>7 DEF Laid

\* The entries of a laid-out table are found by their positions.
LEMMA LaidPlaces ==
  ASSUME NEW P, Laid(P), TablesOK, tableId \in Table, NumPoints = EntryCount, NEW i \in Position
  PROVE  /\ EntryAt(P[i]) = entries[tableId][i] /\ PositionOf(P[i]) = i
         /\ P[i] # NoPlace /\ P[i] = [page |-> P[i].page, index |-> P[i].index]
         /\ P[i].index = Before(i) /\ P[i].page \in Nat \ {0}
         /\ P[i].page \in LeavesOf(tableId)
<1>1. /\ P[i] \in [page : Nat \ {0}, index : Nat] /\ LeafLaid(P, i)
      /\ P[i].page \in LeavesOf(tableId)
  BY DEF Laid, Places
<1>2. /\ P[i].page \in Nat \ {0} /\ P[i] = [page |-> P[i].page, index |-> P[i].index]
      /\ P[i].index = Before(i)
  BY <1>1 DEF LeafLaid
<1>3. P[i] # NoPlace
  <2>1. NoPlace.page = 0
    BY DEF NoPlace
  <2> QED BY <1>2, <2>1
<1>4. EntryAt(P[i]) = entries[tableId][i]
  <2>1. Before(i) \in 1 .. Before(i) + Rest(i) - 1 /\ i - Before(i) + Before(i) = i
    BY PositionInLeaf
  <2>2. pages[P[i].page].entries[Before(i)] = entries[tableId][i - Before(i) + Before(i)]
    BY <1>1, <2>1 DEF LeafLaid
  <2> QED BY <1>2, <2>1, <2>2 DEF EntryAt
<1>5. \A h \in Position : entries[tableId][h] = entries[tableId][i] => h = i
  BY TableOrder DEF Position
<1>6. PositionOf(P[i]) = i
  BY <1>4, <1>5 DEF PositionOf
<1> QED BY <1>1, <1>2, <1>3, <1>4, <1>6

\* The leaf of position i holds the n positions after x.
LEMMA LaidLeaf ==
  ASSUME NEW P, Laid(P), NEW i \in Position
  PROVE  LET x == i - Before(i)
             n == Before(i) + Rest(i) - 1
         IN  /\ x \in Nat /\ n \in Nat \ {0} /\ x + n <= EntryCount /\ x + n = i + Rest(i) - 1
             /\ pages[P[i].page].entries \in Seq(Entry) /\ Len(pages[P[i].page].entries) = n
             /\ \A j \in 1 .. n : /\ x + j \in Position
                                  /\ P[x + j] = [page |-> P[i].page, index |-> j]
                                  /\ pages[P[i].page].entries[j] = entries[tableId][x + j]
             /\ PlaceLeftOf(P[i].page) = LeftPlace(P, x)
             /\ PlaceRightOf(P[i].page) = RightPlace(P, x + n + 1)
<1> DEFINE x == i - Before(i)
           n == Before(i) + Rest(i) - 1
<1>1. LeafLaid(P, i)
  BY DEF Laid
<1>2. i \in Nat /\ Before(i) \in 1 .. i /\ Rest(i) \in 1 .. EntryCount - i + 1 /\ EntryCount \in Nat
  BY PositionInLeaf, BPlusTreeCursorAssumption
<1>3. x \in Nat /\ n \in Nat \ {0} /\ x + n <= EntryCount /\ x + n = i + Rest(i) - 1 /\ x + n + 1 = i + Rest(i)
  BY <1>2
<1>4. ASSUME NEW j \in 1 .. n
      PROVE  x + j \in Position /\ P[x + j] = [page |-> P[i].page, index |-> j]
  <2>1. x + j \in Position
    BY <1>2, <1>3 DEF Position
  <2>2. CASE j <= Before(i)
    <3> DEFINE h == Before(i) - j
    <3>1. h \in 0 .. Before(i) - 1 /\ i - h = x + j /\ Before(i) - h = j
      BY <1>2, <2>2
    <3>2. P[i - h] = [page |-> P[i].page, index |-> Before(i) - h]
      BY <1>1, <3>1 DEF LeafLaid
    <3> QED BY <2>1, <3>1, <3>2
  <2>3. CASE ~(j <= Before(i))
    <3> DEFINE h == j - Before(i)
    <3>1. h \in 0 .. Rest(i) - 1 /\ i + h = x + j /\ Before(i) + h = j
      BY <1>2, <2>3
    <3>2. P[i + h] = [page |-> P[i].page, index |-> Before(i) + h]
      BY <1>1, <3>1 DEF LeafLaid
    <3> QED BY <2>1, <3>1, <3>2
  <2> QED BY <2>2, <2>3
<1> QED BY <1>1, <1>3, <1>4 DEF LeafLaid

\* The leaves of the table hold its entries and no others.
LEMMA LaidEntries ==
  ASSUME NEW P, Laid(P), TablesOK, tableId \in Table, NumPoints = EntryCount
  PROVE  \A e : e \in EntriesOf(tableId) <=> \E i \in Position : e = entries[tableId][i]
<1>1. ASSUME NEW i \in Position PROVE entries[tableId][i] \in EntriesOf(tableId)
  <2> DEFINE p == P[i].page
  <2>1. /\ EntryAt(P[i]) = entries[tableId][i] /\ p \in LeavesOf(tableId) /\ P[i].index = Before(i)
    BY LaidPlaces
  <2>2. Before(i) \in DOMAIN pages[p].entries
    <3>1. pages[p].entries \in Seq(Entry) /\ Len(pages[p].entries) = Before(i) + Rest(i) - 1
      BY LaidLeaf
    <3>2. Before(i) \in 1 .. Before(i) + Rest(i) - 1
      BY PositionInLeaf
    <3> QED BY <3>1, <3>2
  <2>3. entries[tableId][i] = pages[p].entries[Before(i)]
    BY <2>1 DEF EntryAt
  <2> HIDE DEF p
  <2> QED BY <2>1, <2>2, <2>3 DEF EntriesOf
<1>2. ASSUME NEW e \in EntriesOf(tableId) PROVE \E i \in Position : e = entries[tableId][i]
  <2>1. PICK p \in LeavesOf(tableId) : \E j \in DOMAIN pages[p].entries : e = pages[p].entries[j]
    BY DEF EntriesOf
  <2>2. PICK j \in DOMAIN pages[p].entries : e = pages[p].entries[j]
    BY <2>1
  <2>3. PICK i \in Position : P[i].page = p
    BY DEF Laid
  <2> DEFINE n == Before(i) + Rest(i) - 1
             x == i - Before(i)
  <2>4. /\ pages[p].entries \in Seq(Entry) /\ Len(pages[p].entries) = n
        /\ \A k \in 1 .. n : x + k \in Position /\ pages[p].entries[k] = entries[tableId][x + k]
    <3>1. LET m == Before(i) + Rest(i) - 1
              y == i - Before(i)
              r == P[i].page
          IN  /\ y \in Nat /\ m \in Nat \ {0} /\ y + m <= EntryCount
              /\ pages[r].entries \in Seq(Entry) /\ Len(pages[r].entries) = m
              /\ \A k \in 1 .. m : /\ y + k \in Position
                                   /\ P[y + k] = [page |-> r, index |-> k]
                                   /\ pages[r].entries[k] = entries[tableId][y + k]
      BY LaidLeaf
    <3> QED BY <2>3, <3>1
  <2> HIDE DEF n, x
  <2>5. j \in 1 .. n
    BY <2>4
  <2> QED BY <2>2, <2>4, <2>5
<1> QED BY <1>1, <1>2

\* The value at position i of the cursor's table.
Value(i) == entries[tableId][i].value

\* reset_cursor finds the two positions that std::lower_bound divides.
LEMMA ResetDivides ==
  ASSUME NEW P, Laid(P), TreeTypes, Accepted, tableId \in Table, NumPoints = EntryCount,
         Len(roots) = Len(entries), NEW q \in Int
  PROVE  \E lb \in 1 .. EntryCount + 1 :
           /\ \A i \in 1 .. lb - 1 : Value(i) < q
           /\ lb <= EntryCount => Value(lb) >= q
           /\ ResetPlaces(tableId, q) = [left |-> LeftPlace(P, lb - 1), right |-> RightPlace(P, lb)]
<1> DEFINE t == tableId
           leaf == Descend(t, q)
<1>1. TablesOK /\ IndexOK
  BY CompleteIndexOK DEF TreeTypes
<1>2. TableOK(t) /\ LinksAgree(t) /\ ChainIsValid(t)
  BY <1>1 DEF Accepted, TableOK
<1>3. leaf \in LeavesOf(t)
  BY <1>2, DescendReachesFocus DEF Focus, LeavesOf
<1>4. PlacesAreExact(t, q, ResetPlaces(t, q))
  BY <1>2, LookupIsExact
<1> HIDE DEF leaf
<1>5. PICK h \in Position : P[h].page = leaf
  BY <1>3 DEF Laid
<1> DEFINE x == h - Before(h)
           n == Before(h) + Rest(h) - 1
           e == pages[leaf].entries
<1>6. /\ x \in Nat /\ n \in Nat \ {0} /\ x + n <= EntryCount /\ EntryCount \in Nat
      /\ e \in Seq(Entry) /\ Len(e) = n
      /\ \A j \in 1 .. n : /\ x + j \in Position
                           /\ P[x + j] = [page |-> leaf, index |-> j]
                           /\ e[j] = entries[t][x + j]
      /\ PlaceLeftOf(leaf) = LeftPlace(P, x)
      /\ PlaceRightOf(leaf) = RightPlace(P, x + n + 1)
  <2>1. EntryCount \in Nat
    BY BPlusTreeCursorAssumption
  <2>2. LET m == Before(h) + Rest(h) - 1
            y == h - Before(h)
            p == P[h].page
        IN  /\ y \in Nat /\ m \in Nat \ {0} /\ y + m <= EntryCount
            /\ pages[p].entries \in Seq(Entry) /\ Len(pages[p].entries) = m
            /\ \A j \in 1 .. m : /\ y + j \in Position
                                 /\ P[y + j] = [page |-> p, index |-> j]
                                 /\ pages[p].entries[j] = entries[tableId][y + j]
            /\ PlaceLeftOf(p) = LeftPlace(P, y)
            /\ PlaceRightOf(p) = RightPlace(P, y + m + 1)
    BY LaidLeaf
  <2> QED BY <1>5, <2>1, <2>2
<1>7. \A i \in Position : entries[t][i] \in Entry /\ Value(i) \in Int
  BY <1>1, TableOrder DEF Position, Value
<1>8. \A i, j \in Position : i < j => Value(i) <= Value(j)
  <2> SUFFICES ASSUME NEW i \in Position, NEW j \in Position, i < j PROVE Value(i) <= Value(j)
    OBVIOUS
  <2>1. KeyLess(entries[t][i], entries[t][j])
    BY <1>1, TableOrder DEF Position
  <2> QED BY <1>7, <2>1, KeyLessOrder DEF Value
<1> HIDE DEF x, n
<1> DEFINE values == ValueOf(pages[leaf])
           lo == Cardinality({j \in DOMAIN values : values[j] < q})
           lb == x + lo + 1
           places == ResetPlaces(t, q)
<1>9. DOMAIN values = 1 .. n /\ Len(values) = n /\ \A j \in 1 .. n : values[j] = Value(x + j)
  <2>1. DOMAIN e = 1 .. n
    BY <1>6
  <2>2. values = [j \in 1 .. n |-> Value(x + j)]
    BY <1>6, <2>1 DEF ValueOf, Value
  <2> HIDE DEF values
  <2>3. \A j \in 1 .. n : Value(x + j) \in Int
    BY <1>6, <1>7
  <2>4. values \in Seq(Int)
    BY <1>6, <2>2, <2>3
  <2> QED BY <1>6, <2>2, <2>4, LenProperties
<1>10. places = [left |-> IF lo > 0 THEN [page |-> leaf, index |-> lo] ELSE PlaceLeftOf(leaf),
                 right |-> IF lo < n THEN [page |-> leaf, index |-> lo + 1] ELSE PlaceRightOf(leaf)]
  BY <1>9 DEF ResetPlaces, leaf
<1> HIDE DEF values, e
<1>11. lo \in 0 .. n
  <2>0. n \in Nat /\ x \in Nat /\ \A j \in 1 .. n : x + j \in Position
    BY <1>6
  <2>1. lo = Cardinality({j \in 1 .. n : values[j] < q})
    BY <1>9
  <2>2. \A j \in 1 .. n : values[j] \in Int
    BY <1>6, <1>7, <1>9
  <2>3. \A j, k \in 1 .. n : j < k => values[j] <= values[k]
    <3> SUFFICES ASSUME NEW j \in 1 .. n, NEW k \in 1 .. n, j < k PROVE values[j] <= values[k]
      OBVIOUS
    <3>1. x + j \in Position /\ x + k \in Position
      BY <2>0
    <3>2. x + j < x + k
      BY <2>0
    <3> QED BY <1>8, <1>9, <3>1, <3>2
  <2> HIDE DEF lo
  <2> QED BY ONLY <2>0, <2>1, <2>2, <2>3, q \in Int, PrefixCount
<1> HIDE DEF lo
<1>12. lb \in 1 .. EntryCount + 1 /\ lb - 1 = x + lo /\ lb - 1 \in 0 .. EntryCount
  BY <1>6, <1>11
<1>13. places.left = LeftPlace(P, lb - 1)
  <2>1. CASE lo > 0
    <3>1. lo \in 1 .. n /\ x + lo # 0
      BY <1>6, <1>11, <2>1
    <3> QED BY <1>6, <1>10, <1>12, <2>1, <3>1 DEF LeftPlace
  <2>2. CASE ~(lo > 0)
    <3>1. lo = 0 /\ x + lo = x
      BY <1>6, <1>11, <2>2
    <3> QED BY <1>6, <1>10, <1>12, <2>2, <3>1
  <2> QED BY <2>1, <2>2
<1>14. places.right = RightPlace(P, lb)
  <2>1. CASE lo < n
    <3>1. lo + 1 \in 1 .. n /\ lb = x + (lo + 1) /\ lb # EntryCount + 1
      BY <1>6, <1>11, <2>1
    <3> HIDE DEF lb
    <3> QED BY <1>6, <1>10, <2>1, <3>1 DEF RightPlace
  <2>2. CASE ~(lo < n)
    <3>1. lb = x + n + 1
      BY <1>6, <1>11, <2>2
    <3> HIDE DEF lb
    <3> QED BY <1>6, <1>10, <2>2, <3>1
  <2> QED BY <2>1, <2>2
<1>15. places = [left |-> LeftPlace(P, lb - 1), right |-> RightPlace(P, lb)]
  BY <1>10, <1>13, <1>14
<1> DEFINE all == EntriesOf(t)
           below == {f \in all : f.value < q}
<1>16. /\ IF places.left = NoPlace THEN below = {} ELSE EntryAt(places.left) \in below
       /\ IF places.right = NoPlace THEN below = all ELSE EntryAt(places.right) \in all \ below
  BY <1>4 DEF PlacesAreExact
<1>17. \A i \in Position : entries[t][i] \in all
  BY <1>1, LaidEntries
<1> HIDE DEF all, places, lb
<1>18. \A i \in 1 .. lb - 1 : Value(i) < q
  <2> SUFFICES ASSUME NEW i \in 1 .. lb - 1 PROVE Value(i) < q
    OBVIOUS
  <2> DEFINE top == lb - 1
  <2>1. top \in Position /\ i \in Position /\ top # 0 /\ (i < top \/ i = top)
    BY <1>6, <1>12 DEF Position
  <2>2. places.left = LeftPlace(P, top)
    BY <1>13
  <2> HIDE DEF top
  <2>3. EntryAt(P[top]) = entries[t][top] /\ P[top] # NoPlace
    BY <1>1, <2>1, LaidPlaces, ZenonT(60)
  <2>4. EntryAt(places.left) = entries[t][top] /\ places.left # NoPlace
    BY <2>1, <2>2, <2>3 DEF LeftPlace
  <2>5. Value(top) < q
    BY <1>16, <2>4 DEF Value
  <2>6. Value(i) <= Value(top) /\ Value(i) \in Int /\ Value(top) \in Int
    BY <1>7, <1>8, <2>1
  <2> QED BY <2>5, <2>6
<1>19. lb <= EntryCount => Value(lb) >= q
  <2> SUFFICES ASSUME lb <= EntryCount PROVE Value(lb) >= q
    OBVIOUS
  <2>1. lb \in Position /\ lb # EntryCount + 1
    BY <1>6, <1>12 DEF Position
  <2>2. EntryAt(P[lb]) = entries[t][lb] /\ P[lb] # NoPlace
    BY <1>1, <2>1, LaidPlaces
  <2>3. ~(Value(lb) < q)
    <3>1. EntryAt(places.right) = entries[t][lb] /\ places.right # NoPlace
      BY <1>14, <2>1, <2>2 DEF RightPlace
    <3> QED BY <1>16, <1>17, <2>1, <3>1 DEF Value
  <2> QED BY <1>7, <2>1, <2>3
<1> QED BY <1>12, <1>15, <1>18, <1>19 DEF places

-----------------------------------------------------------------------------
(* A side of a scan walks range by range as one range would take it. *)

\* The longest prefix of entries inside the window is what ClampToWindow counts.
LEMMA ClampIs ==
  ASSUME NEW V, NEW q, NEW first, NEW step, NEW available \in Nat, NEW bound, NEW m
  PROVE  m = Kernel!ClampToWindow(V, q, first, step, available, bound)
           <=> /\ m \in 0 .. available
               /\ \A j \in 0 .. m - 1 : Kernel!Inside(V, q, first + step * j, bound)
               /\ m < available => ~Kernel!Inside(V, q, first + step * m, bound)
<1> DEFINE In(j) == Kernel!Inside(V, q, first + step * j, bound)
           Fits(k) == (\A j \in 0 .. k - 1 : In(j)) /\ (k < available => ~In(k))
           T == {k \in 0 .. available : k = available \/ ~In(k)}
           clamp == Kernel!ClampToWindow(V, q, first, step, available, bound)
<1>1. clamp = CHOOSE k \in 0 .. available : Fits(k)
  BY DEF Kernel!ClampToWindow
<1> HIDE DEF In, clamp
<1>2. available \in T /\ T \in SUBSET Nat /\ T # {}
  OBVIOUS
<1>3. PICK x \in T : \A y \in T : x <= y
  <2> HIDE DEF T
  <2> QED BY <1>2, LeastNatural
<1>4. x \in 0 .. available /\ Fits(x)
  BY <1>3
<1>5. ASSUME NEW k \in 0 .. available, Fits(k) PROVE k = x
  <2>1. ~(k < x)
    <3> SUFFICES ASSUME k < x PROVE FALSE
      OBVIOUS
    <3>1. k \in 0 .. x - 1 /\ k < available
      BY <1>4
    <3> QED BY <1>4, <1>5, <3>1
  <2>2. ~(x < k)
    <3> SUFFICES ASSUME x < k PROVE FALSE
      OBVIOUS
    <3>1. x \in 0 .. k - 1 /\ x < available
      BY <1>4
    <3> QED BY <1>4, <1>5, <3>1
  <2> QED BY <1>4, <2>1, <2>2
<1> HIDE DEF Fits
<1>6. clamp = x
  BY <1>1, <1>4, <1>5
<1>7. m = clamp <=> m \in 0 .. available /\ Fits(m)
  BY <1>4, <1>5, <1>6
<1> QED BY <1>7 DEF Fits, In, clamp

\* The same entries, at other places.
LEMMA SameClamp ==
  ASSUME NEW V, NEW W, NEW q, NEW first, NEW other, NEW step, NEW available \in Nat, NEW bound,
         \A j \in 0 .. available - 1 : V[first + step * j] = W[other + step * j]
  PROVE  Kernel!ClampToWindow(V, q, first, step, available, bound)
           = Kernel!ClampToWindow(W, q, other, step, available, bound)
<1> DEFINE m == Kernel!ClampToWindow(V, q, first, step, available, bound)
<1>0. m = Kernel!ClampToWindow(V, q, first, step, available, bound)
  OBVIOUS
<1> HIDE DEF m
<1>1. /\ m \in 0 .. available
      /\ \A j \in 0 .. m - 1 : Kernel!Inside(V, q, first + step * j, bound)
      /\ m < available => ~Kernel!Inside(V, q, first + step * m, bound)
  BY ONLY <1>0, available \in Nat, ClampIs
<1>2. \A j \in 0 .. available - 1 :
        Kernel!Inside(V, q, first + step * j, bound) = Kernel!Inside(W, q, other + step * j, bound)
  BY DEF Kernel!Inside
<1>3. (\A j \in 0 .. m - 1 : j \in 0 .. available - 1) /\ (m < available => m \in 0 .. available - 1)
  BY <1>1
<1>4. /\ \A j \in 0 .. m - 1 : Kernel!Inside(W, q, other + step * j, bound)
      /\ m < available => ~Kernel!Inside(W, q, other + step * m, bound)
  BY <1>1, <1>2, <1>3
<1>5. m = Kernel!ClampToWindow(W, q, other, step, available, bound)
  BY ONLY <1>1, <1>4, available \in Nat, ClampIs
<1> QED BY <1>0, <1>5

\* One side of a scan: where it starts and which way it goes, how many entries
\* the table and the leaf have there, and how many of them the scan may take.
Side ==
    [query : Int, bound : Int, first : Int, step : {-1, 1}, whole : Nat, region : Int,
     blocked : BOOLEAN, limit : Nat, scope : {"range", "quantum"}]

\* What one range offers the side, and whether the j-th entry it would take is
\* inside the window.
Offer(s) == Kernel!Available(s.scope, s.limit, s.region, s.whole)
In(V, s, j) == Kernel!Inside(V, s.query, s.first + s.step * j, s.bound)

\* The side has taken n entries.
Walk(V, s, n, blocked, atEnd) ==
    /\ n \in 0 .. s.whole /\ blocked \in BOOLEAN /\ atEnd \in BOOLEAN
    /\ s.blocked => blocked /\ n = 0
    /\ n > 0 => n <= Offer(s)
    /\ \A j \in 0 .. n - 1 : In(V, s, j)
    /\ blocked /\ ~s.blocked => n < s.whole /\ n < Offer(s) /\ ~In(V, s, n)
    /\ s.scope = "range" /\ atEnd => n = s.region /\ n > 0
    /\ s.scope = "range" /\ n > 0 /\ ~blocked /\ ~atEnd => n = s.limit

\* The guard of one more range on the side.
GoesOn(s, n, blocked, atEnd) ==
    n < s.limit /\ ~(s.scope = "range" /\ atEnd) /\ n < s.whole /\ ~blocked

\* A side that has taken nothing.
LEMMA WalkBegins ==
  ASSUME NEW V, NEW s \in Side
  PROVE  Walk(V, s, 0, s.blocked, FALSE)
<1>1. s.whole \in Nat /\ s.blocked \in BOOLEAN
  BY DEF Side
<1> QED BY <1>1 DEF Walk

\* Of here entries that are left in the leaf one range takes count.
LEMMA WalkGoesOn ==
  ASSUME NEW V, NEW s \in Side, NEW n, NEW blocked, NEW atEnd,
         Walk(V, s, n, blocked, atEnd), GoesOn(s, n, blocked, atEnd),
         NEW here \in 1 .. s.whole - n, n = 0 => here = s.region,
         NEW available, available = SmallerOf(s.limit - n, here),
         NEW count,
         count = Kernel!ClampToWindow(V, s.query, s.first + s.step * n, s.step, available, s.bound)
  PROVE  /\ available \in Nat /\ count \in 0 .. available
         /\ Walk(V, s, n + count, count < available, count = here)
<1>1. /\ s.whole \in Nat /\ s.limit \in Nat /\ s.first \in Int /\ s.step \in {-1, 1}
      /\ s.scope \in {"range", "quantum"} /\ s.blocked \in BOOLEAN /\ s.region \in Int
  BY DEF Side
<1>2. /\ n \in 0 .. s.whole /\ blocked \in BOOLEAN /\ atEnd \in BOOLEAN
      /\ n < s.limit /\ n < s.whole /\ ~blocked /\ ~s.blocked
      /\ \A j \in 0 .. n - 1 : In(V, s, j)
      /\ s.scope = "range" => n = 0
  BY <1>1 DEF Walk, GoesOn
<1>3. available \in Nat \ {0} /\ available <= s.limit - n /\ available <= here
      /\ (available = s.limit - n \/ available = here)
  BY <1>1, <1>2 DEF SmallerOf
<1>4. /\ count \in 0 .. available
      /\ \A j \in 0 .. count - 1 :
           Kernel!Inside(V, s.query, s.first + s.step * n + s.step * j, s.bound)
      /\ count < available =>
           ~Kernel!Inside(V, s.query, s.first + s.step * n + s.step * count, s.bound)
  <2> DEFINE f == s.first + s.step * n
             q == s.query
             g == s.step
             b == s.bound
  <2>1. count = Kernel!ClampToWindow(V, q, f, g, available, b) /\ available \in Nat
    BY <1>3
  <2> HIDE DEF f, q, g, b
  <2>2. /\ count \in 0 .. available
        /\ \A j \in 0 .. count - 1 : Kernel!Inside(V, q, f + g * j, b)
        /\ count < available => ~Kernel!Inside(V, q, f + g * count, b)
    BY ONLY <2>1, ClampIs
  <2> QED BY <2>2 DEF f, q, g, b
<1>5. ASSUME NEW j \in Nat
      PROVE  In(V, s, n + j) <=> Kernel!Inside(V, s.query, s.first + s.step * n + s.step * j, s.bound)
  <2>1. s.first + s.step * (n + j) = s.first + s.step * n + s.step * j
    BY <1>1, <1>2
  <2> QED BY <2>1 DEF In
<1>6. n + available <= Offer(s) /\ Offer(s) \in Nat
  <2>1. CASE s.scope = "range"
    <3>1. n = 0 /\ here = s.region
      BY <1>2, <2>1
    <3>2. Offer(s) = SmallerOf(s.limit, here)
      BY <2>1, <3>1 DEF Offer, Kernel!Available, Kernel!SmallerOf, SmallerOf
    <3> QED BY <1>1, <1>3, <3>1, <3>2 DEF SmallerOf
  <2>2. CASE s.scope # "range"
    <3>1. Offer(s) = SmallerOf(s.limit, s.whole)
      BY <2>2 DEF Offer, Kernel!Available, Kernel!SmallerOf, SmallerOf
    <3> QED BY <1>1, <1>2, <1>3, <3>1 DEF SmallerOf
  <2> QED BY <2>1, <2>2
<1>7. n + count \in 0 .. s.whole /\ n + count <= Offer(s)
  BY <1>1, <1>2, <1>3, <1>4, <1>6
<1>8. ASSUME NEW j \in 0 .. n + count - 1 PROVE In(V, s, j)
  <2>1. CASE j < n
    BY <1>2, <2>1
  <2>2. CASE ~(j < n)
    <3> DEFINE h == j - n
    <3>1. h \in 0 .. count - 1 /\ h \in Nat /\ n + h = j
      BY <1>2, <1>4, <2>2
    <3> HIDE DEF h
    <3>2. In(V, s, n + h)
      BY <1>4, <1>5, <3>1
    <3> QED BY <3>1, <3>2
  <2> QED BY <2>1, <2>2
<1>9. count < available => n + count < s.whole /\ n + count < Offer(s) /\ ~In(V, s, n + count)
  <2> SUFFICES ASSUME count < available
               PROVE  n + count < s.whole /\ n + count < Offer(s) /\ ~In(V, s, n + count)
    OBVIOUS
  <2>1. ~In(V, s, n + count)
    BY <1>4, <1>5
  <2> QED BY <1>1, <1>2, <1>3, <1>4, <1>6, <2>1
<1>10. s.scope = "range" /\ count = here => n + count = s.region /\ n + count > 0
  BY <1>1, <1>2
<1>11. s.scope = "range" /\ ~(count < available) /\ count # here => n + count = s.limit
  BY <1>1, <1>2, <1>3, <1>4
<1> QED BY <1>2, <1>3, <1>4, <1>7, <1>8, <1>9, <1>10, <1>11 DEF Walk

\* When it ends it has taken what one range, from the start, would take.
LEMMA WalkEnds ==
  ASSUME NEW V, NEW s \in Side, s.whole > 0 => s.region \in 1 .. s.whole,
         NEW n, NEW blocked, NEW atEnd,
         Walk(V, s, n, blocked, atEnd), ~GoesOn(s, n, blocked, atEnd)
  PROVE  LET active == s.whole > 0 /\ ~s.blocked
             count == Kernel!ClampToWindow(V, s.query, s.first, s.step, Offer(s), s.bound)
         IN  /\ n = (IF active THEN count ELSE 0)
             /\ blocked = (s.blocked \/ (active /\ n < Offer(s)))
<1>1. /\ s.whole \in Nat /\ s.limit \in Nat /\ s.first \in Int /\ s.step \in {-1, 1}
      /\ s.scope \in {"range", "quantum"} /\ s.blocked \in BOOLEAN /\ s.region \in Int
  BY DEF Side
<1>2. n \in 0 .. s.whole /\ blocked \in BOOLEAN /\ atEnd \in BOOLEAN
  BY DEF Walk
<1>3. CASE ~(s.whole > 0 /\ ~s.blocked)
  <2>1. n = 0 /\ blocked = s.blocked
    BY <1>1, <1>2, <1>3 DEF Walk
  <2>2. blocked = (s.blocked \/ FALSE)
    BY <1>1, <2>1
  <2> QED BY <1>3, <2>1, <2>2
<1>4. CASE s.whole > 0 /\ ~s.blocked
  <2>1. Offer(s) \in Nat /\ Offer(s) <= s.whole /\ Offer(s) <= s.limit
        /\ (s.scope = "range" => Offer(s) <= s.region)
    <3>1. Offer(s) = SmallerOf(s.limit, IF s.scope = "range" THEN s.region ELSE s.whole)
      BY DEF Offer, Kernel!Available, Kernel!SmallerOf, SmallerOf
    <3> QED BY <1>1, <1>4, <3>1 DEF SmallerOf
  <2>2. n <= Offer(s)
    BY <1>2, <2>1 DEF Walk
  <2>3. /\ n < Offer(s) => blocked
        /\ blocked => n < Offer(s) /\ ~In(V, s, n)
    <3>1. blocked => n < Offer(s) /\ ~In(V, s, n)
      BY <1>4 DEF Walk
    <3>2. ASSUME n < Offer(s), ~blocked PROVE FALSE
      <4>1. n < s.limit /\ n < s.whole
        BY <1>1, <1>2, <2>1, <3>2
      <4>2. s.scope = "range" /\ atEnd
        BY <3>2, <4>1 DEF GoesOn
      <4>3. n = s.region
        BY <4>2 DEF Walk
      <4> QED BY <1>1, <1>2, <2>1, <3>2, <4>2, <4>3
    <3> QED BY <3>1, <3>2
  <2>4. n = Kernel!ClampToWindow(V, s.query, s.first, s.step, Offer(s), s.bound)
    <3>1. n \in 0 .. Offer(s)
      BY <1>1, <1>2, <2>1, <2>2
    <3>2. \A j \in 0 .. n - 1 : Kernel!Inside(V, s.query, s.first + s.step * j, s.bound)
      BY DEF Walk, In
    <3>3. n < Offer(s) => ~Kernel!Inside(V, s.query, s.first + s.step * n, s.bound)
      BY <2>3 DEF In
    <3> DEFINE q == s.query
               f == s.first
               g == s.step
               b == s.bound
               o == Offer(s)
    <3>4. /\ o \in Nat /\ n \in 0 .. o
          /\ \A j \in 0 .. n - 1 : Kernel!Inside(V, q, f + g * j, b)
          /\ n < o => ~Kernel!Inside(V, q, f + g * n, b)
      BY <2>1, <3>1, <3>2, <3>3
    <3> HIDE DEF q, f, g, b, o
    <3>5. n = Kernel!ClampToWindow(V, q, f, g, o, b)
      BY ONLY <3>4, ClampIs, ZenonT(60)
    <3> QED BY <3>5 DEF q, f, g, b, o
  <2>5. blocked = (n < Offer(s))
    BY <1>2, <2>3
  <2> QED BY <1>4, <2>4, <2>5
<1> QED BY <1>3, <1>4

-----------------------------------------------------------------------------
(* The cursor over places and the cursor over positions. *)

\* A cursor over positions whose sides have not crossed, and the cursor over
\* places that stands where it stands.
Cursors == {c \in Kernel!CursorRecord : c.left < c.right}

Concrete(P, c) ==
    [query |-> c.query, left |-> LeftPlace(P, c.left), right |-> RightPlace(P, c.right),
     leftBlocked |-> c.leftBlocked, rightBlocked |-> c.rightBlocked, lastBound |-> c.lastBound]

\* An index in which a cursor is followed, P saying where its table lies.
FollowedAt(P) ==
    /\ Laid(P) /\ TablesOK /\ tableId \in Table
    /\ pc = "open" /\ Followed

\* The fields of a cursor over positions.
LEMMA CursorFields ==
  ASSUME NEW c \in Cursors
  PROVE  /\ c.query \in Int /\ c.left \in 0 .. EntryCount /\ c.right \in 1 .. EntryCount + 1
         /\ c.leftBlocked \in BOOLEAN /\ c.rightBlocked \in BOOLEAN
         /\ c.lastBound \in Int /\ c.left < c.right
         /\ c = [query |-> c.query, left |-> c.left, right |-> c.right,
                 leftBlocked |-> c.leftBlocked, rightBlocked |-> c.rightBlocked,
                 lastBound |-> c.lastBound]
         /\ EntryCount \in Nat
<1>1. c \in Kernel!CursorRecord /\ c.left < c.right
  BY DEF Cursors
<1> QED BY <1>1, BPlusTreeCursorAssumption DEF Kernel!CursorRecord, Kernel!Unbounded

\* The cursor over places shows, under the refinement mapping, as the one over positions.
LEMMA CursorShows ==
  ASSUME NEW P, FollowedAt(P), NEW c \in Cursors
  PROVE  /\ AsProjectionCursor(Concrete(P, c)) = c
         /\ Concrete(P, c) # Unset
         /\ Concrete(P, c).left = NoPlace <=> c.left = 0
         /\ Concrete(P, c).right = NoPlace <=> c.right = EntryCount + 1
<1> DEFINE d == Concrete(P, c)
<1>1. /\ d.query = c.query /\ d.left = LeftPlace(P, c.left) /\ d.right = RightPlace(P, c.right)
      /\ d.leftBlocked = c.leftBlocked /\ d.rightBlocked = c.rightBlocked
      /\ d.lastBound = c.lastBound
  BY DEF Concrete
<1>2. d # Unset
  <2>1. "left" \in DOMAIN d
    BY DEF Concrete
  <2>2. DOMAIN Unset = {"query"}
    BY DEF Unset
  <2>3. "left" # "query"
    OBVIOUS
  <2> HIDE DEF d
  <2> QED BY <2>1, <2>2, <2>3
<1> HIDE DEF d
<1>3. NumPoints = EntryCount /\ TablesOK /\ tableId \in Table /\ Laid(P)
  BY DEF FollowedAt, Followed
<1>4. /\ d.left = NoPlace <=> c.left = 0
      /\ (IF d.left = NoPlace THEN 0 ELSE PositionOf(d.left)) = c.left
  <2>1. CASE c.left = 0
    BY <1>1, <2>1 DEF LeftPlace
  <2>2. CASE c.left # 0
    <3> DEFINE i == c.left
    <3>1. i \in Position
      BY <2>2, CursorFields DEF Position
    <3> HIDE DEF i
    <3>2. P[i] # NoPlace /\ PositionOf(P[i]) = i
      BY <1>3, <3>1, LaidPlaces
    <3>3. d.left = P[i]
      BY <1>1, <2>2 DEF LeftPlace, i
    <3> QED BY <2>2, <3>2, <3>3 DEF i
  <2> QED BY <2>1, <2>2
<1>5. /\ d.right = NoPlace <=> c.right = EntryCount + 1
      /\ (IF d.right = NoPlace THEN EntryCount + 1 ELSE PositionOf(d.right)) = c.right
  <2>1. CASE c.right = EntryCount + 1
    BY <1>1, <2>1 DEF RightPlace
  <2>2. CASE c.right # EntryCount + 1
    <3> DEFINE i == c.right
    <3>1. i \in Position
      BY <2>2, CursorFields DEF Position
    <3> HIDE DEF i
    <3>2. P[i] # NoPlace /\ PositionOf(P[i]) = i
      BY <1>3, <3>1, LaidPlaces
    <3>3. d.right = P[i]
      BY <1>1, <2>2 DEF RightPlace, i
    <3> QED BY <2>2, <3>2, <3>3 DEF i
  <2> QED BY <2>1, <2>2
<1>6. AsProjectionCursor(d) = c
  <2>1. AsProjectionCursor(d) =
          [query |-> c.query, left |-> c.left, right |-> c.right,
           leftBlocked |-> c.leftBlocked, rightBlocked |-> c.rightBlocked,
           lastBound |-> c.lastBound]
    BY <1>1, <1>4, <1>5 DEF AsProjectionCursor
  <2> QED BY <2>1, CursorFields
<1> QED BY <1>2, <1>4, <1>5, <1>6 DEF d

\* The two sides of a scan of at most m entries that begins at c.
LeftSide(c, m, scope) ==
    [query |-> c.query, bound |-> c.lastBound, first |-> c.left, step |-> -1,
     whole |-> c.left, region |-> Kernel!RegionLeft(c.left), blocked |-> c.leftBlocked,
     limit |-> Kernel!LeftLimit(m, scope), scope |-> scope]

\* The right side, once the left one has visited so many.
RightSide(c, m, scope, visited) ==
    [query |-> c.query, bound |-> c.lastBound, first |-> c.right, step |-> 1,
     whole |-> EntryCount - c.right + 1, region |-> Kernel!RegionRight(c.right),
     blocked |-> c.rightBlocked, limit |-> Kernel!RightLimit(m, scope, visited), scope |-> scope]

\* The left side of a scan is a side that can be walked.
LEMMA LeftIsSide ==
  ASSUME NEW c \in Cursors, NEW m \in Nat \ {0}, NEW scope \in Kernel!Scopes
  PROVE  /\ LeftSide(c, m, scope) \in Side
         /\ c.left > 0 => Kernel!RegionLeft(c.left) \in 1 .. c.left
         /\ Kernel!LeftLimit(m, scope) \in Nat \ {0}
<1>1. /\ c.query \in Int /\ c.lastBound \in Int /\ c.left \in 0 .. EntryCount
      /\ c.leftBlocked \in BOOLEAN /\ EntryCount \in Nat /\ LeafCapacity \in Nat \ {0}
  BY CursorFields, BPlusTreeAssumption
<1>2. Kernel!RegionLeft(c.left) \in Int
  BY <1>1 DEF Kernel!RegionLeft
<1>3. Kernel!LeftLimit(m, scope) \in Nat \ {0}
  BY DEF Kernel!LeftLimit
<1>4. scope \in {"range", "quantum"}
  BY DEF Kernel!Scopes
<1>5. LeftSide(c, m, scope) \in Side
  BY <1>1, <1>2, <1>3, <1>4 DEF LeftSide, Side
<1>6. c.left > 0 => Kernel!RegionLeft(c.left) \in 1 .. c.left
  <2> SUFFICES ASSUME c.left > 0 PROVE Kernel!RegionLeft(c.left) \in 1 .. c.left
    OBVIOUS
  <2> DEFINE i == c.left
  <2>1. i \in Position
    BY <1>1 DEF Position
  <2> HIDE DEF i
  <2>2. Before(i) \in 1 .. i
    BY <2>1, PositionInLeaf
  <2> QED BY <2>2 DEF i, Before
<1> QED BY <1>3, <1>5, <1>6

\* The right side of a scan is a side that can be walked.
LEMMA RightIsSide ==
  ASSUME NEW c \in Cursors, NEW m \in Nat \ {0}, NEW scope \in Kernel!Scopes,
         NEW visited \in Nat, visited <= Kernel!LeftLimit(m, scope)
  PROVE  /\ RightSide(c, m, scope, visited) \in Side
         /\ c.right <= EntryCount => Kernel!RegionRight(c.right) \in 1 .. EntryCount - c.right + 1
<1>1. /\ c.query \in Int /\ c.lastBound \in Int /\ c.right \in 1 .. EntryCount + 1
      /\ c.rightBlocked \in BOOLEAN /\ EntryCount \in Nat /\ LeafCapacity \in Nat \ {0}
  BY CursorFields, BPlusTreeAssumption
<1>2. Kernel!RegionRight(c.right) \in Int
  <2> DEFINE k == (c.right - 1) \div LeafCapacity
  <2>1. k \in Int
    BY <1>1
  <2> HIDE DEF k
  <2>2. (k + 1) * LeafCapacity \in Int
    BY <1>1, <2>1
  <2> DEFINE y == (k + 1) * LeafCapacity
  <2>3. Kernel!RegionRight(c.right) = SmallerOf(EntryCount, y) - c.right + 1
    BY DEF Kernel!RegionRight, Kernel!SmallerOf, SmallerOf, k
  <2> HIDE DEF y
  <2>4. y \in Int
    BY <2>2 DEF y
  <2> QED BY <1>1, <2>3, <2>4 DEF SmallerOf
<1>3. Kernel!RightLimit(m, scope, visited) \in Nat
  BY DEF Kernel!RightLimit, Kernel!LeftLimit
<1>4. scope \in {"range", "quantum"} /\ EntryCount - c.right + 1 \in Nat
  BY <1>1 DEF Kernel!Scopes
<1>5. RightSide(c, m, scope, visited) \in Side
  BY <1>1, <1>2, <1>3, <1>4 DEF RightSide, Side
<1>6. c.right <= EntryCount => Kernel!RegionRight(c.right) \in 1 .. EntryCount - c.right + 1
  <2> SUFFICES ASSUME c.right <= EntryCount
               PROVE  Kernel!RegionRight(c.right) \in 1 .. EntryCount - c.right + 1
    OBVIOUS
  <2> DEFINE i == c.right
  <2>1. i \in Position
    BY <1>1 DEF Position
  <2> HIDE DEF i
  <2>2. Rest(i) \in 1 .. EntryCount - i + 1
    BY <2>1, PositionInLeaf
  <2> QED BY <2>2 DEF i, Rest
<1> QED BY <1>5, <1>6

\* A left side that goes no further has taken what one scan of the table takes.
LEMMA LeftWalked ==
  ASSUME NEW V, NEW c \in Cursors, NEW m \in Nat \ {0}, NEW scope \in Kernel!Scopes,
         NEW n, NEW blocked, NEW atEnd,
         Walk(V, LeftSide(c, m, scope), n, blocked, atEnd),
         ~GoesOn(LeftSide(c, m, scope), n, blocked, atEnd)
  PROVE  LET limit == Kernel!LeftLimit(m, scope)
         IN  /\ n = Kernel!LeftCount(V, c, limit, scope)
             /\ blocked = (c.leftBlocked
                             \/ (Kernel!LeftActive(c) /\ n < Kernel!LeftOffer(c, limit, scope)))
<1> DEFINE s == LeftSide(c, m, scope)
           limit == Kernel!LeftLimit(m, scope)
           count == Kernel!ClampToWindow(V, s.query, s.first, s.step, Offer(s), s.bound)
<1>1. s \in Side /\ (s.whole > 0 => s.region \in 1 .. s.whole)
  BY LeftIsSide DEF LeftSide
<1>2. /\ s.query = c.query /\ s.first = c.left /\ s.step = -1 /\ s.bound = c.lastBound
      /\ s.blocked = c.leftBlocked /\ s.whole = c.left
      /\ s.scope = scope /\ s.limit = limit /\ s.region = Kernel!RegionLeft(c.left)
  BY DEF LeftSide
<1> HIDE DEF s, limit
<1>3. /\ n = (IF s.whole > 0 /\ ~s.blocked THEN count ELSE 0)
      /\ blocked = (s.blocked \/ ((s.whole > 0 /\ ~s.blocked) /\ n < Offer(s)))
  BY <1>1, WalkEnds DEF s
<1>4. Offer(s) = Kernel!LeftOffer(c, limit, scope)
  BY <1>2 DEF Offer, Kernel!LeftOffer
<1>5. (s.whole > 0 /\ ~s.blocked) <=> Kernel!LeftActive(c)
  BY <1>2 DEF Kernel!LeftActive
<1>6. count = Kernel!ClampToWindow(V, c.query, c.left, -1, Kernel!LeftOffer(c, limit, scope), c.lastBound)
  BY <1>2, <1>4
<1> HIDE DEF count
<1>7. n = Kernel!LeftCount(V, c, limit, scope)
  BY <1>3, <1>5, <1>6 DEF Kernel!LeftCount
<1>8. blocked = (c.leftBlocked \/ (Kernel!LeftActive(c) /\ n < Kernel!LeftOffer(c, limit, scope)))
  BY <1>2, <1>3, <1>4, <1>5
<1> QED BY <1>7, <1>8 DEF limit

\* A right side that goes no further has taken what one scan of the table takes.
LEMMA RightWalked ==
  ASSUME NEW V, NEW c \in Cursors, NEW m \in Nat \ {0}, NEW scope \in Kernel!Scopes,
         NEW visited \in Nat, visited <= Kernel!LeftLimit(m, scope),
         NEW n, NEW blocked, NEW atEnd,
         Walk(V, RightSide(c, m, scope, visited), n, blocked, atEnd),
         ~GoesOn(RightSide(c, m, scope, visited), n, blocked, atEnd)
  PROVE  LET limit == Kernel!RightLimit(m, scope, visited)
         IN  /\ n = Kernel!RightCount(V, c, limit, scope)
             /\ blocked = (c.rightBlocked
                             \/ (Kernel!RightActive(c) /\ n < Kernel!RightOffer(c, limit, scope)))
<1> DEFINE s == RightSide(c, m, scope, visited)
           limit == Kernel!RightLimit(m, scope, visited)
           count == Kernel!ClampToWindow(V, s.query, s.first, s.step, Offer(s), s.bound)
<1>1. /\ c.right \in Int /\ EntryCount \in Int
      /\ s \in Side /\ (c.right <= EntryCount => s.region \in 1 .. s.whole)
  BY RightIsSide, CursorFields DEF RightSide
<1>2. /\ s.query = c.query /\ s.first = c.right /\ s.step = 1 /\ s.bound = c.lastBound
      /\ s.blocked = c.rightBlocked /\ s.whole = EntryCount - c.right + 1
      /\ s.scope = scope /\ s.limit = limit /\ s.region = Kernel!RegionRight(c.right)
  BY DEF RightSide
<1> HIDE DEF s, limit
<1>3. s.whole > 0 <=> c.right <= EntryCount
  BY <1>1, <1>2
<1>4. /\ n = (IF s.whole > 0 /\ ~s.blocked THEN count ELSE 0)
      /\ blocked = (s.blocked \/ ((s.whole > 0 /\ ~s.blocked) /\ n < Offer(s)))
  <2>1. s.whole > 0 => s.region \in 1 .. s.whole
    BY <1>1, <1>3
  <2> QED BY <1>1, <2>1, WalkEnds DEF s
<1>5. Offer(s) = Kernel!RightOffer(c, limit, scope)
  BY <1>2 DEF Offer, Kernel!RightOffer
<1>6. (s.whole > 0 /\ ~s.blocked) <=> Kernel!RightActive(c)
  BY <1>2, <1>3 DEF Kernel!RightActive
<1>7. count = Kernel!ClampToWindow(V, c.query, c.right, 1, Kernel!RightOffer(c, limit, scope), c.lastBound)
  BY <1>2, <1>5
<1> HIDE DEF count
<1>8. n = Kernel!RightCount(V, c, limit, scope)
  BY <1>4, <1>6, <1>7 DEF Kernel!RightCount
<1>9. blocked = (c.rightBlocked \/ (Kernel!RightActive(c) /\ n < Kernel!RightOffer(c, limit, scope)))
  BY <1>2, <1>4, <1>5, <1>6
<1> QED BY <1>8, <1>9 DEF limit

\* Where a scan from c has come: l entries to the left and r to the right.
Reached(c, l, lb, r, rb) ==
    [query |-> c.query, left |-> c.left - l, right |-> c.right + r,
     leftBlocked |-> lb, rightBlocked |-> rb, lastBound |-> c.lastBound]

\* Both sides have walked as far as they can.
LEMMA ScanIsBothSides ==
  ASSUME NEW V, NEW a \in Cursors, NEW bound, NEW c \in Cursors,
         c = Kernel!ResetBoundedSides(a, bound),
         NEW m, NEW scope, NEW l, NEW lb, NEW r, NEW rb,
         l = Kernel!LeftCount(V, c, Kernel!LeftLimit(m, scope), scope),
         lb = (c.leftBlocked
                 \/ (Kernel!LeftActive(c)
                       /\ l < Kernel!LeftOffer(c, Kernel!LeftLimit(m, scope), scope))),
         r = Kernel!RightCount(V, c, Kernel!RightLimit(m, scope, l), scope),
         rb = (c.rightBlocked
                 \/ (Kernel!RightActive(c)
                       /\ r < Kernel!RightOffer(c, Kernel!RightLimit(m, scope, l), scope)))
  PROVE  LET e == Reached(c, l, lb, r, rb)
         IN  Kernel!ScanCursor(V, a, bound, m, scope)
               = [cursor |-> e, hits |-> Kernel!OutwardPositions(c.left, l, c.right, r),
                  windowExhausted |-> Kernel!WindowExhausted(e),
                  tableExhausted |-> Kernel!TableExhausted(e)]
<1> DEFINE d == Kernel!MoveLeft(c, l, Kernel!LeftOffer(c, Kernel!LeftLimit(m, scope), scope))
           limit == Kernel!RightLimit(m, scope, l)
           e == Kernel!MoveRight(d, r, Kernel!RightOffer(d, limit, scope))
<1>1. d = Reached(c, l, lb, 0, c.rightBlocked)
  <2>1. /\ c = [query |-> c.query, left |-> c.left, right |-> c.right,
                leftBlocked |-> c.leftBlocked, rightBlocked |-> c.rightBlocked,
                lastBound |-> c.lastBound]
        /\ c.right + 0 = c.right
    BY CursorFields
  <2>2. d = [c EXCEPT !.left = c.left - l, !.leftBlocked = lb]
    BY DEF Kernel!MoveLeft
  <2> HIDE DEF d
  <2> QED BY <2>1, <2>2 DEF Reached
<1> HIDE DEF d
<1>2. d.query = c.query /\ d.right = c.right /\ d.rightBlocked = c.rightBlocked /\ d.lastBound = c.lastBound
  BY <1>1, CursorFields DEF Reached
<1> HIDE DEF limit
<1>3. /\ Kernel!RightOffer(d, limit, scope) = Kernel!RightOffer(c, limit, scope)
      /\ Kernel!RightActive(d) <=> Kernel!RightActive(c)
  BY <1>2 DEF Kernel!RightOffer, Kernel!RightActive
<1>4. Kernel!RightCount(V, d, limit, scope) = r
  <2>1. r = Kernel!RightCount(V, c, limit, scope)
    BY DEF limit
  <2> QED BY <1>2, <1>3, <2>1 DEF Kernel!RightCount
<1>5. e = Reached(c, l, lb, r, rb)
  <2>1. rb = (d.rightBlocked \/ (Kernel!RightActive(d) /\ r < Kernel!RightOffer(d, limit, scope)))
    BY <1>2, <1>3 DEF limit
  <2>2. e = [d EXCEPT !.right = c.right + r, !.rightBlocked = rb]
    BY <1>2, <2>1 DEF Kernel!MoveRight
  <2> HIDE DEF e
  <2> QED BY <1>1, <2>2 DEF Reached
<1>6. Kernel!ScanCursor(V, a, bound, m, scope)
        = [cursor |-> e, hits |-> Kernel!OutwardPositions(c.left, l, c.right, r),
           windowExhausted |-> Kernel!WindowExhausted(e),
           tableExhausted |-> Kernel!TableExhausted(e)]
  BY <1>4 DEF Kernel!ScanCursor, d, e, limit
<1> QED BY <1>5, <1>6

-----------------------------------------------------------------------------
(* The visited places, in the order of the visitor's calls. *)

\* The visits of a scan of c that has taken l entries to the left and r to the right.
Hits(P, c, l, r) ==
    [j \in 1 .. l + r |-> IF j <= l THEN P[c.left - j + 1] ELSE P[c.right + (j - l) - 1]]

\* A side takes no more than the table has there.
Within(c, l, r) == l \in 0 .. c.left /\ r \in 0 .. EntryCount - c.right + 1

\* The visited positions are in the table.
LEMMA HitPositions ==
  ASSUME NEW c \in Cursors, NEW l, NEW r, Within(c, l, r)
  PROVE  /\ l \in Nat /\ r \in Nat /\ l + r \in Nat
         /\ \A j \in 1 .. l : c.left - j + 1 \in Position
         /\ \A j \in l + 1 .. l + r : c.right + (j - l) - 1 \in Position
<1>1. /\ c.left \in 0 .. EntryCount /\ c.right \in 1 .. EntryCount + 1 /\ EntryCount \in Nat
  BY CursorFields
<1>2. l \in 0 .. c.left /\ r \in 0 .. EntryCount - c.right + 1
  BY DEF Within
<1> QED BY <1>1, <1>2 DEF Position

LEMMA HitsAreSeq ==
  ASSUME NEW P \in Places, NEW c \in Cursors, NEW l, NEW r, Within(c, l, r)
  PROVE  /\ Hits(P, c, l, r) \in Seq([page : Nat, index : Nat])
         /\ Len(Hits(P, c, l, r)) = l + r /\ DOMAIN Hits(P, c, l, r) = 1 .. l + r
<1> DEFINE h == Hits(P, c, l, r)
<1>1. \A i \in Position : P[i] \in [page : Nat, index : Nat]
  BY DEF Places
<1>2. ASSUME NEW j \in 1 .. l + r
      PROVE  (IF j <= l THEN P[c.left - j + 1] ELSE P[c.right + (j - l) - 1]) \in [page : Nat, index : Nat]
  <2>1. CASE j <= l
    <3>1. c.left - j + 1 \in Position
      BY <2>1, HitPositions
    <3> QED BY <1>1, <2>1, <3>1
  <2>2. CASE ~(j <= l)
    <3>1. j \in l + 1 .. l + r
      BY <2>2, HitPositions
    <3>2. c.right + (j - l) - 1 \in Position
      BY <3>1, HitPositions
    <3> QED BY <1>1, <2>2, <3>2
  <2> QED BY <2>1, <2>2
<1>3. l + r \in Nat
  BY HitPositions
<1>4. h \in [1 .. l + r -> [page : Nat, index : Nat]]
  BY <1>2 DEF Hits
<1> DEFINE n == l + r
           S == [page : Nat, index : Nat]
<1>5. n \in Nat /\ h \in [1 .. n -> S]
  BY <1>3, <1>4
<1> HIDE DEF h, n, S
<1>6. h \in Seq(S) /\ Len(h) = n /\ DOMAIN h = 1 .. n
  BY <1>5
<1> QED BY <1>6 DEF h, n, S

\* Every position is visited at most once.
LEMMA HitsCount ==
  ASSUME NEW P, FollowedAt(P), NEW c \in Cursors, NEW l, NEW r, Within(c, l, r), NEW i \in Position
  PROVE  LET hits == Hits(P, c, l, r)
             out == Kernel!OutwardPositions(c.left, l, c.right, r)
         IN  Cardinality({j \in DOMAIN hits : PositionOf(hits[j]) = i})
               = IF \E j \in DOMAIN out : out[j] = i THEN 1 ELSE 0
<1> DEFINE hits == Hits(P, c, l, r)
           out == Kernel!OutwardPositions(c.left, l, c.right, r)
           T == {j \in DOMAIN hits : PositionOf(hits[j]) = i}
<1> SUFFICES Cardinality(T) = IF \E j \in DOMAIN out : out[j] = i THEN 1 ELSE 0
  OBVIOUS
<1>1. /\ c.left \in 0 .. EntryCount /\ c.right \in 1 .. EntryCount + 1 /\ EntryCount \in Nat
      /\ c.left < c.right /\ l \in 0 .. c.left /\ r \in 0 .. EntryCount - c.right + 1
  BY CursorFields DEF Within
<1>2. \A h \in Position : PositionOf(P[h]) = h
  BY LaidPlaces DEF FollowedAt, Followed
<1>3. DOMAIN hits = 1 .. l + r /\ DOMAIN out = 1 .. l + r
  BY DEF Hits, Kernel!OutwardPositions
<1>4. ASSUME NEW j \in 1 .. l + r
      PROVE  PositionOf(hits[j]) = out[j]
  <2>1. CASE j <= l
    <3>1. c.left - j + 1 \in Position /\ hits[j] = P[c.left - j + 1] /\ out[j] = c.left - j + 1
      BY <2>1, HitPositions DEF Hits, Kernel!OutwardPositions
    <3> QED BY <1>2, <3>1
  <2>2. CASE ~(j <= l)
    <3>1. j \in l + 1 .. l + r
      BY <1>1, <2>2
    <3>2. c.right + (j - l) - 1 \in Position
      BY <3>1, HitPositions
    <3>3. hits[j] = P[c.right + (j - l) - 1] /\ out[j] = c.right + (j - l) - 1
      BY <2>2 DEF Hits, Kernel!OutwardPositions
    <3> QED BY <1>2, <3>2, <3>3
  <2> QED BY <2>1, <2>2
<1>5. ASSUME NEW j \in 1 .. l + r, NEW k \in 1 .. l + r, out[j] = out[k]
      PROVE  j = k
  <2> DEFINE at(h) == IF h <= l THEN c.left - h + 1 ELSE c.right + (h - l) - 1
  <2>1. out[j] = at(j) /\ out[k] = at(k)
    BY DEF Kernel!OutwardPositions
  <2>2. at(j) = at(k)
    BY <1>5, <2>1
  <2> DEFINE left == c.left
             right == c.right
  <2>3. /\ j \in Int /\ k \in Int /\ l \in Int /\ left \in Int /\ right \in Int
        /\ left < right /\ 1 <= j /\ 1 <= k
    BY <1>1
  <2>4. (IF j <= l THEN left - j + 1 ELSE right + (j - l) - 1)
          = (IF k <= l THEN left - k + 1 ELSE right + (k - l) - 1)
    BY <2>2
  <2> HIDE DEF left, right
  <2> QED BY ONLY <2>3, <2>4
<1> HIDE DEF hits, out
<1>6. T = {j \in 1 .. l + r : out[j] = i}
  BY <1>3, <1>4
<1>7. CASE \E j \in DOMAIN out : out[j] = i
  <2>1. PICK j \in 1 .. l + r : out[j] = i
    BY <1>3, <1>7
  <2>2. T = {j}
    BY <1>5, <1>6, <2>1
  <2>3. Cardinality({j}) = 1
    BY FS_Singleton
  <2> HIDE DEF T
  <2> QED BY <1>7, <2>2, <2>3
<1>8. CASE ~(\E j \in DOMAIN out : out[j] = i)
  <2>1. T = {}
    BY <1>3, <1>6, <1>8
  <2>2. Cardinality({}) = 0
    BY FS_EmptySet
  <2> HIDE DEF T
  <2> QED BY <1>8, <2>1, <2>2
<1> QED BY <1>7, <1>8

\* Appending what one range delivers.
Appended(S, s, f, h, l, n) ==
    /\ s \in Seq(S) /\ f \in Seq(S) /\ h \in Seq(S)
    /\ Len(s) = l /\ Len(f) = n /\ Len(h) = l + n
    /\ \A j \in 1 .. l : h[j] = s[j]
    /\ \A j \in 1 .. n : h[l + j] = f[j]

\* Such a sequence is the two put together.
LEMMA AppendedHits ==
  ASSUME NEW S, NEW s, NEW f, NEW h, NEW l, NEW n, Appended(S, s, f, h, l, n)
  PROVE  s \o f = h
<1>0. /\ s \in Seq(S) /\ f \in Seq(S) /\ h \in Seq(S)
      /\ Len(s) = l /\ Len(f) = n /\ Len(h) = l + n
      /\ \A j \in 1 .. l : h[j] = s[j]
      /\ \A j \in 1 .. n : h[l + j] = f[j]
  BY DEF Appended
<1>1. n \in Nat /\ l \in Nat /\ l + n \in Nat
  BY <1>0, LenProperties
<1>2. /\ s \o f \in Seq(S) /\ Len(s \o f) = l + n
  BY <1>0, ConcatProperties
<1>3. \A i \in 1 .. Len(s) + Len(f) : (s \o f)[i] = IF i <= Len(s) THEN s[i] ELSE f[i - Len(s)]
  BY <1>0, ConcatProperties
<1>4. ASSUME NEW i \in 1 .. l + n PROVE (s \o f)[i] = h[i]
  <2>1. CASE i <= l
    BY <1>0, <1>1, <1>3, <2>1
  <2>2. CASE ~(i <= l)
    <3> DEFINE j == i - l
    <3>1. j \in 1 .. n /\ l + j = i
      BY <1>1, <2>2
    <3> HIDE DEF j
    <3>2. h[l + j] = f[j]
      BY <1>0, <3>1
    <3> QED BY <1>0, <1>3, <2>2, <3>1, <3>2 DEF j
  <2> QED BY <2>1, <2>2
<1> QED BY <1>0, <1>2, <1>4, SeqEqual

\* One more range to the left.
LEMMA MoreLeftHits ==
  ASSUME NEW P \in Places, NEW c \in Cursors, NEW l \in Nat, NEW n \in Nat, l + n <= c.left
  PROVE  Hits(P, c, l, 0) \o [j \in 1 .. n |-> P[(c.left - l) - j + 1]] = Hits(P, c, l + n, 0)
<1> DEFINE S == [page : Nat, index : Nat]
           s == Hits(P, c, l, 0)
           h == Hits(P, c, l + n, 0)
           f == [j \in 1 .. n |-> P[(c.left - l) - j + 1]]
<1>0. c.left \in 0 .. EntryCount /\ c.right \in 1 .. EntryCount + 1 /\ EntryCount \in Nat
  BY CursorFields
<1>1. Within(c, l, 0) /\ Within(c, l + n, 0)
  BY <1>0 DEF Within
<1>2. s \in Seq(S) /\ Len(s) = l
  BY <1>1, HitsAreSeq
<1>3. h \in Seq(S) /\ Len(h) = l + n
  BY <1>1, HitsAreSeq
<1>4. ASSUME NEW j \in 1 .. l PROVE h[j] = s[j]
  <2>1. j \in 1 .. l + n + 0 /\ j \in 1 .. l + 0 /\ j <= l /\ j <= l + n
    OBVIOUS
  <2> QED BY <2>1 DEF Hits
<1>5. ASSUME NEW j \in 1 .. n PROVE h[l + j] = f[j] /\ f[j] \in S
  <2>1. l + j \in 1 .. l + n + 0 /\ l + j <= l + n
    OBVIOUS
  <2>2. c.left - (l + j) + 1 = (c.left - l) - j + 1
    BY <1>0
  <2>3. h[l + j] = f[j]
    BY <2>1, <2>2 DEF Hits
  <2> HIDE DEF h
  <2>4. h[l + j] \in S
    <3>1. l + j \in 1 .. l + n
      OBVIOUS
    <3> QED BY <1>3, <3>1, ElementOfSeq
  <2> QED BY <2>3, <2>4
<1> HIDE DEF s, h
<1>6. f \in [1 .. n -> S]
  BY <1>5
<1> HIDE DEF f, S
<1>7. f \in Seq(S) /\ Len(f) = n
  BY <1>6
<1>8. s \o f = h
  <2>1. Appended(S, s, f, h, l, n)
    BY <1>2, <1>3, <1>4, <1>5, <1>7 DEF Appended
  <2> QED BY <2>1, AppendedHits
<1> QED BY <1>8 DEF s, h, f

\* One more range to the right.
LEMMA MoreRightHits ==
  ASSUME NEW P \in Places, NEW c \in Cursors, NEW l \in 0 .. c.left, NEW r \in Nat, NEW n \in Nat,
         r + n <= EntryCount - c.right + 1
  PROVE  Hits(P, c, l, r) \o [j \in 1 .. n |-> P[(c.right + r) + j - 1]] = Hits(P, c, l, r + n)
<1> DEFINE S == [page : Nat, index : Nat]
           s == Hits(P, c, l, r)
           h == Hits(P, c, l, r + n)
           f == [j \in 1 .. n |-> P[(c.right + r) + j - 1]]
<1>0. c.left \in 0 .. EntryCount /\ c.right \in 1 .. EntryCount + 1 /\ EntryCount \in Nat /\ l \in Nat
  BY CursorFields
<1>1. Within(c, l, r) /\ Within(c, l, r + n)
  BY <1>0 DEF Within
<1>2. s \in Seq(S) /\ Len(s) = l + r
  BY <1>1, HitsAreSeq
<1>3. h \in Seq(S) /\ Len(h) = l + (r + n)
  BY <1>1, HitsAreSeq
<1>4. ASSUME NEW j \in 1 .. l + r PROVE h[j] = s[j]
  <2>1. j \in 1 .. l + (r + n)
    BY <1>0
  <2> QED BY <2>1 DEF Hits
<1>5. ASSUME NEW j \in 1 .. n PROVE h[l + r + j] = f[j] /\ f[j] \in S
  <2>1. l + r + j \in 1 .. l + (r + n) /\ ~(l + r + j <= l)
    BY <1>0
  <2>2. c.right + (l + r + j - l) - 1 = (c.right + r) + j - 1
    BY <1>0
  <2>3. h[l + r + j] = f[j]
    BY <2>1, <2>2 DEF Hits
  <2> HIDE DEF h
  <2>4. h[l + r + j] \in S
    BY <1>3, <2>1, ElementOfSeq
  <2> QED BY <2>3, <2>4
<1> HIDE DEF s, h
<1>6. f \in [1 .. n -> S]
  BY <1>5
<1> HIDE DEF f, S
<1>7. f \in Seq(S) /\ Len(f) = n
  BY <1>6
<1>8. s \o f = h
  <2> DEFINE k == l + r
  <2>1. Len(s) = k /\ Len(h) = k + n /\ (\A j \in 1 .. k : h[j] = s[j]) /\ \A j \in 1 .. n : h[k + j] = f[j]
    BY <1>0, <1>2, <1>3, <1>4, <1>5
  <2> HIDE DEF k
  <2>2. Appended(S, s, f, h, k, n)
    BY <1>2, <1>3, <1>7, <2>1 DEF Appended
  <2> QED BY <2>2, AppendedHits
<1> QED BY <1>8 DEF s, h, f

-----------------------------------------------------------------------------
(* One range of a leaf is a range of the table. *)

\* The values of the table are those of its entries.
LEMMA TableValue ==
  ASSUME NEW P, FollowedAt(P), NEW i \in Position
  PROVE  TableValues[i] = entries[tableId][i].value
BY DEF FollowedAt, Followed, TableValues

\* The values around a place in its leaf are those around its position.
LEMMA LeafValues ==
  ASSUME NEW P, FollowedAt(P), NEW h \in Position, NEW j \in Int, h + j \in Position,
         1 <= Before(h) + j, Before(h) + j <= Before(h) + Rest(h) - 1
  PROVE  /\ ValueOf(pages[P[h].page])[Before(h) + j] = TableValues[h + j]
         /\ P[h + j] = [page |-> P[h].page, index |-> Before(h) + j]
<1>1. Laid(P) /\ Before(h) \in Int /\ Rest(h) \in Int /\ h \in Int
  BY PositionInLeaf DEF FollowedAt, Position
<1> DEFINE x == h - Before(h)
           n == Before(h) + Rest(h) - 1
           k == Before(h) + j
           e == pages[P[h].page].entries
<1>2. /\ e \in Seq(Entry) /\ Len(e) = n /\ n \in Nat
      /\ \A i \in 1 .. n : /\ x + i \in Position
                           /\ P[x + i] = [page |-> P[h].page, index |-> i]
                           /\ e[i] = entries[tableId][x + i]
  BY <1>1, LaidLeaf
<1>3. k \in 1 .. n /\ x + k = h + j
  BY <1>1, <1>2
<1>4. k \in DOMAIN e
  BY <1>2, <1>3
<1>5. ValueOf(pages[P[h].page])[k] = e[k].value
  BY <1>4 DEF ValueOf
<1>6. e[k] = entries[tableId][h + j] /\ P[h + j] = [page |-> P[h].page, index |-> k]
  <2> HIDE DEF e, x, n, k
  <2> QED BY <1>2, <1>3
<1>7. TableValues[h + j] = entries[tableId][h + j].value
  BY TableValue
<1> HIDE DEF e, x, n
<1> QED BY <1>5, <1>6, <1>7

\* What a range of count entries to the left of position h is, taken in its
\* leaf or in the table.
LeftRanged(P, h, available, q, bound, count) ==
    /\ P[h].index = Before(h) /\ Before(h) \in 1 .. h
    /\ count = Kernel!ClampToWindow(TableValues, q, h, -1, available, bound)
    /\ count \in 0 .. available
    /\ LeftAfter(P[h], count) = LeftPlace(P, h - count)
    /\ [j \in 1 .. count |-> [page |-> P[h].page, index |-> P[h].index - j + 1]]
         = [j \in 1 .. count |-> P[h - j + 1]]

\* What the kernel counts to the left in a leaf, it counts in the table.
LEMMA LeftRangeOfLeaf ==
  ASSUME NEW P, FollowedAt(P), NEW h \in Position, NEW available \in 1 .. Before(h),
         NEW q, NEW bound, NEW count,
         count = Kernel!ClampToWindow(ValueOf(pages[P[h].page]), q, P[h].index, -1, available, bound)
  PROVE  LeftRanged(P, h, available, q, bound, count)
<1>1. /\ Laid(P) /\ Before(h) \in 1 .. h /\ Rest(h) \in Nat \ {0} /\ h \in Int /\ available \in Nat
      /\ h \in 1 .. EntryCount /\ EntryCount \in Nat
  BY PositionInLeaf, BPlusTreeCursorAssumption DEF FollowedAt, Position
<1>2. /\ P[h].index = Before(h)
      /\ P[h] = [page |-> P[h].page, index |-> P[h].index]
      /\ PlaceLeftOf(P[h].page) = LeftPlace(P, h - Before(h))
  <2>1. LeafLaid(P, h)
    BY <1>1 DEF Laid
  <2>2. P[h] = [page |-> P[h].page, index |-> P[h].index]
    BY <1>1, LaidPlaces DEF FollowedAt, Followed
  <2> QED BY <2>1, <2>2 DEF LeafLaid
<1>3. ASSUME NEW j \in 0 .. Before(h) - 1
      PROVE  /\ h + (-1) * j \in Position /\ h - j \in Position
             /\ ValueOf(pages[P[h].page])[Before(h) + (-1) * j] = TableValues[h + (-1) * j]
             /\ P[h - j] = [page |-> P[h].page, index |-> Before(h) - j]
  <2> DEFINE i == -j
  <2>1. /\ i \in Int /\ h + i \in Position /\ 1 <= Before(h) + i
        /\ Before(h) + i <= Before(h) + Rest(h) - 1
        /\ h + i = h - j /\ h + i = h + (-1) * j /\ Before(h) + i = Before(h) - j
        /\ Before(h) + i = Before(h) + (-1) * j
    BY <1>1 DEF Position
  <2> HIDE DEF i
  <2>2. /\ ValueOf(pages[P[h].page])[Before(h) + i] = TableValues[h + i]
        /\ P[h + i] = [page |-> P[h].page, index |-> Before(h) + i]
    BY <2>1, LeafValues
  <2> QED BY <2>1, <2>2
<1>4. count = Kernel!ClampToWindow(TableValues, q, h, -1, available, bound)
  <2> DEFINE V == ValueOf(pages[P[h].page])
             W == TableValues
             f == Before(h)
  <2>1. \A j \in 0 .. available - 1 : V[f + (-1) * j] = W[h + (-1) * j]
    <3> SUFFICES ASSUME NEW j \in 0 .. available - 1 PROVE V[f + (-1) * j] = W[h + (-1) * j]
      OBVIOUS
    <3>1. j \in 0 .. Before(h) - 1
      BY <1>1
    <3>2. V[f + (-1) * j] = W[h + (-1) * j]
      BY <1>3, <3>1
    <3> QED BY <3>2
  <2>2. count = Kernel!ClampToWindow(V, q, f, -1, available, bound)
    BY <1>2
  <2> HIDE DEF V, W, f
  <2>3. available \in Nat
    BY <1>1
  <2>4. Kernel!ClampToWindow(V, q, f, -1, available, bound)
          = Kernel!ClampToWindow(W, q, h, -1, available, bound)
    BY ONLY <2>1, <2>3, SameClamp
  <2> QED BY <2>2, <2>4 DEF W
<1>5. count \in 0 .. available
  <2> DEFINE V == TableValues
  <2>1. count = Kernel!ClampToWindow(V, q, h, -1, available, bound) /\ available \in Nat
    BY <1>1, <1>4
  <2> HIDE DEF V
  <2> QED BY ONLY <2>1, ClampIs
<1>6. LeftAfter(P[h], count) = LeftPlace(P, h - count)
  <2>1. CASE count < Before(h)
    <3>1. count \in 0 .. Before(h) - 1 /\ h - count # 0
      BY <1>1, <1>5, <2>1
    <3>2. LeftAfter(P[h], count) = [P[h] EXCEPT !.index = @ - count]
      BY <1>2, <2>1 DEF LeftAfter
    <3>3. [P[h] EXCEPT !.index = @ - count] = [page |-> P[h].page, index |-> Before(h) - count]
      BY <1>2
    <3>4. P[h - count] = [page |-> P[h].page, index |-> Before(h) - count]
      BY <1>3, <3>1
    <3> QED BY <3>1, <3>2, <3>3, <3>4 DEF LeftPlace
  <2>2. CASE ~(count < Before(h))
    <3>1. count = Before(h)
      BY <1>1, <1>5, <2>2
    <3> QED BY <1>2, <2>2, <3>1 DEF LeftAfter
  <2> QED BY <2>1, <2>2
<1>7. ASSUME NEW j \in 1 .. count
      PROVE  [page |-> P[h].page, index |-> P[h].index - j + 1] = P[h - j + 1]
  <2> DEFINE i == j - 1
  <2>1. i \in 0 .. Before(h) - 1 /\ h - i = h - j + 1 /\ Before(h) - i = Before(h) - j + 1
    BY <1>1, <1>5
  <2> HIDE DEF i
  <2>2. P[h - i] = [page |-> P[h].page, index |-> Before(h) - i]
    BY <1>3, <2>1
  <2> QED BY <1>2, <2>1, <2>2
<1> QED BY <1>1, <1>2, <1>4, <1>5, <1>6, <1>7 DEF LeftRanged

\* RightAfter of a place with here entries from there in its leaf.
AfterRight(place, count, here) ==
    IF count < here THEN [place EXCEPT !.index = @ + count] ELSE PlaceRightOf(place.page)

\* What a range of count entries to the right of position h is, taken in its
\* leaf or in the table.
RightRanged(P, h, available, q, bound, count) ==
    /\ Len(pages[P[h].page].entries) - P[h].index + 1 = Rest(h)
    /\ count = Kernel!ClampToWindow(TableValues, q, h, 1, available, bound)
    /\ count \in 0 .. available
    /\ AfterRight(P[h], count, Rest(h)) = RightPlace(P, h + count)
    /\ [j \in 1 .. count |-> [page |-> P[h].page, index |-> P[h].index + j - 1]]
         = [j \in 1 .. count |-> P[h + j - 1]]

\* What the kernel counts to the right in a leaf, it counts in the table.
LEMMA RightRangeOfLeaf ==
  ASSUME NEW P, FollowedAt(P), NEW h \in Position, NEW available \in 1 .. Rest(h),
         NEW q, NEW bound, NEW count,
         count = Kernel!ClampToWindow(ValueOf(pages[P[h].page]), q, P[h].index, 1, available, bound)
  PROVE  RightRanged(P, h, available, q, bound, count)
<1>1. /\ Laid(P) /\ Before(h) \in 1 .. h /\ Rest(h) \in 1 .. EntryCount - h + 1 /\ h \in Int
      /\ available \in Nat /\ h \in 1 .. EntryCount /\ EntryCount \in Nat
  BY PositionInLeaf, BPlusTreeCursorAssumption DEF FollowedAt, Position
<1>2. /\ P[h].index = Before(h)
      /\ P[h] = [page |-> P[h].page, index |-> P[h].index]
      /\ PlaceRightOf(P[h].page) = RightPlace(P, h + Rest(h))
      /\ Len(pages[P[h].page].entries) = Before(h) + Rest(h) - 1
  <2>1. LeafLaid(P, h)
    BY <1>1 DEF Laid
  <2>2. P[h] = [page |-> P[h].page, index |-> P[h].index]
    BY <1>1, LaidPlaces DEF FollowedAt, Followed
  <2> QED BY <2>1, <2>2 DEF LeafLaid
<1>3. ASSUME NEW j \in 0 .. Rest(h) - 1
      PROVE  /\ h + 1 * j \in Position /\ h + j \in Position
             /\ ValueOf(pages[P[h].page])[Before(h) + 1 * j] = TableValues[h + 1 * j]
             /\ P[h + j] = [page |-> P[h].page, index |-> Before(h) + j]
  <2>1. /\ j \in Int /\ h + j \in Position /\ 1 <= Before(h) + j
        /\ Before(h) + j <= Before(h) + Rest(h) - 1
        /\ h + j = h + 1 * j /\ Before(h) + j = Before(h) + 1 * j
    BY <1>1 DEF Position
  <2>2. /\ ValueOf(pages[P[h].page])[Before(h) + j] = TableValues[h + j]
        /\ P[h + j] = [page |-> P[h].page, index |-> Before(h) + j]
    BY <2>1, LeafValues
  <2> QED BY <2>1, <2>2
<1>4. count = Kernel!ClampToWindow(TableValues, q, h, 1, available, bound)
  <2> DEFINE V == ValueOf(pages[P[h].page])
             W == TableValues
             f == Before(h)
  <2>1. \A j \in 0 .. available - 1 : V[f + 1 * j] = W[h + 1 * j]
    <3> SUFFICES ASSUME NEW j \in 0 .. available - 1 PROVE V[f + 1 * j] = W[h + 1 * j]
      OBVIOUS
    <3>1. j \in 0 .. Rest(h) - 1
      BY <1>1
    <3>2. V[f + 1 * j] = W[h + 1 * j]
      BY <1>3, <3>1
    <3> QED BY <3>2
  <2>2. count = Kernel!ClampToWindow(V, q, f, 1, available, bound)
    BY <1>2
  <2> HIDE DEF V, W, f
  <2>3. available \in Nat
    BY <1>1
  <2>4. Kernel!ClampToWindow(V, q, f, 1, available, bound)
          = Kernel!ClampToWindow(W, q, h, 1, available, bound)
    BY ONLY <2>1, <2>3, SameClamp
  <2> QED BY <2>2, <2>4 DEF W
<1>5. count \in 0 .. available
  <2> DEFINE V == TableValues
  <2>1. count = Kernel!ClampToWindow(V, q, h, 1, available, bound) /\ available \in Nat
    BY <1>1, <1>4
  <2> HIDE DEF V
  <2> QED BY ONLY <2>1, ClampIs
<1> DEFINE after == AfterRight(P[h], count, Rest(h))
<1>6. after = RightPlace(P, h + count)
  <2>1. CASE count < Rest(h)
    <3>1. count \in 0 .. Rest(h) - 1 /\ h + count # EntryCount + 1
      BY <1>1, <1>5, <2>1
    <3>2. after = [P[h] EXCEPT !.index = @ + count]
      BY <2>1 DEF AfterRight
    <3>3. [P[h] EXCEPT !.index = @ + count] = [page |-> P[h].page, index |-> Before(h) + count]
      BY <1>2
    <3>4. P[h + count] = [page |-> P[h].page, index |-> Before(h) + count]
      BY <1>3, <3>1
    <3> HIDE DEF after
    <3> QED BY <3>1, <3>2, <3>3, <3>4 DEF RightPlace
  <2>2. CASE ~(count < Rest(h))
    <3>1. count = Rest(h)
      BY <1>1, <1>5, <2>2
    <3> QED BY <1>2, <2>2, <3>1 DEF AfterRight
  <2> QED BY <2>1, <2>2
<1>7. ASSUME NEW j \in 1 .. count
      PROVE  [page |-> P[h].page, index |-> P[h].index + j - 1] = P[h + j - 1]
  <2> DEFINE i == j - 1
  <2>1. i \in 0 .. Rest(h) - 1 /\ h + i = h + j - 1 /\ Before(h) + i = Before(h) + j - 1
    BY <1>1, <1>5
  <2> HIDE DEF i
  <2>2. P[h + i] = [page |-> P[h].page, index |-> Before(h) + i]
    BY <1>3, <2>1
  <2> QED BY <1>2, <2>1, <2>2
<1>8. Len(pages[P[h].page].entries) - P[h].index + 1 = Rest(h)
  BY <1>1, <1>2
<1> QED BY <1>4, <1>5, <1>6, <1>7, <1>8 DEF RightRanged

-----------------------------------------------------------------------------
(* A scan in progress is one over the table that has come so far. *)

\* Where a scan comes to is a cursor.
LEMMA ReachedIsCursor ==
  ASSUME NEW c \in Cursors, NEW l \in 0 .. c.left, NEW r \in 0 .. EntryCount - c.right + 1,
         NEW lb \in BOOLEAN, NEW rb \in BOOLEAN
  PROVE  Reached(c, l, lb, r, rb) \in Cursors
<1>1. /\ c.query \in Int /\ c.left \in 0 .. EntryCount /\ c.right \in 1 .. EntryCount + 1
      /\ c.left < c.right /\ EntryCount \in Nat
  BY CursorFields
<1>2. c.lastBound \in Nat \cup {Kernel!Unbounded}
  BY DEF Cursors, Kernel!CursorRecord
<1>3. c.left - l \in 0 .. EntryCount /\ c.right + r \in 1 .. EntryCount + 1 /\ c.left - l < c.right + r
  BY <1>1
<1> QED BY <1>1, <1>2, <1>3 DEF Reached, Cursors, Kernel!CursorRecord

\* A wider bound unblocks the sides of both cursors alike.
LEMMA WidenedIsCursor ==
  ASSUME NEW P, NEW a \in Cursors, NEW bound \in Nat
  PROVE  /\ Kernel!ResetBoundedSides(a, bound) \in Cursors
         /\ Kernel!ResetBoundedSides(Concrete(P, a), bound)
              = Concrete(P, Kernel!ResetBoundedSides(a, bound))
<1> DEFINE d == Concrete(P, a)
           c == [query |-> a.query, left |-> a.left, right |-> a.right,
                 leftBlocked |-> FALSE, rightBlocked |-> FALSE, lastBound |-> bound]
<1>1. a = [query |-> a.query, left |-> a.left, right |-> a.right,
           leftBlocked |-> a.leftBlocked, rightBlocked |-> a.rightBlocked,
           lastBound |-> a.lastBound]
  BY CursorFields
<1>2. d = [query |-> a.query, left |-> LeftPlace(P, a.left), right |-> RightPlace(P, a.right),
           leftBlocked |-> a.leftBlocked, rightBlocked |-> a.rightBlocked,
           lastBound |-> a.lastBound]
  BY DEF Concrete
<1> HIDE DEF d
<1>3. CASE bound > a.lastBound
  <2>1. Kernel!ResetBoundedSides(a, bound) = c
    BY <1>1, <1>3 DEF Kernel!ResetBoundedSides
  <2>2. Kernel!ResetBoundedSides(d, bound)
          = [query |-> a.query, left |-> LeftPlace(P, a.left), right |-> RightPlace(P, a.right),
             leftBlocked |-> FALSE, rightBlocked |-> FALSE, lastBound |-> bound]
    <3>1. d.lastBound = a.lastBound
      BY <1>2
    <3>2. Kernel!ResetBoundedSides(d, bound)
            = [d EXCEPT !.leftBlocked = FALSE, !.rightBlocked = FALSE, !.lastBound = bound]
      BY <1>3, <3>1 DEF Kernel!ResetBoundedSides
    <3> QED BY <1>2, <3>2
  <2>3. c \in Cursors
    <3>1. /\ a.query \in Int /\ a.left \in 0 .. EntryCount /\ a.right \in 1 .. EntryCount + 1
          /\ a.left < a.right
      BY CursorFields
    <3> QED BY <3>1 DEF Cursors, Kernel!CursorRecord
  <2>4. Concrete(P, c)
          = [query |-> a.query, left |-> LeftPlace(P, a.left), right |-> RightPlace(P, a.right),
             leftBlocked |-> FALSE, rightBlocked |-> FALSE, lastBound |-> bound]
    BY DEF Concrete
  <2> HIDE DEF c
  <2> QED BY <2>1, <2>2, <2>3, <2>4 DEF d
<1>4. CASE ~(bound > a.lastBound)
  <2>1. Kernel!ResetBoundedSides(a, bound) = a
    BY <1>4 DEF Kernel!ResetBoundedSides
  <2>2. Kernel!ResetBoundedSides(d, bound) = d
    BY <1>2, <1>4 DEF Kernel!ResetBoundedSides
  <2> QED BY <2>1, <2>2 DEF d
<1> QED BY <1>3, <1>4

\* A scan of cursor a, widened to c, that has come to the left or to the right.
LeftScan(P, a, c, m, scope, n, blocked, atEnd) ==
    [phase |-> "left", before |-> Concrete(P, a),
     local |-> Concrete(P, Reached(c, n, blocked, 0, c.rightBlocked)),
     maxEntries |-> m, scope |-> scope, onSide |-> n, hits |-> Hits(P, c, n, 0),
     atLeafEnd |-> atEnd]
RightScan(P, a, c, m, scope, l, lb, r, rb, atEnd) ==
    [phase |-> "right", before |-> Concrete(P, a), local |-> Concrete(P, Reached(c, l, lb, r, rb)),
     maxEntries |-> m, scope |-> scope, onSide |-> r, hits |-> Hits(P, c, l, r),
     atLeafEnd |-> atEnd]

\* A scan whose visitor has thrown.
Thrown(P, a) == [phase |-> "thrown", before |-> Concrete(P, a)]

\* What it has taken is what a scan of the table takes.
LeftTaken(V, c, m, scope, n, blocked, atEnd) ==
    Walk(V, LeftSide(c, m, scope), n, blocked, atEnd)
RightTaken(V, c, m, scope, l, lb, r, rb, atEnd) ==
    LET limit == Kernel!LeftLimit(m, scope)
    IN  /\ l \in 0 .. c.left /\ l <= limit /\ lb \in BOOLEAN
        /\ l = Kernel!LeftCount(V, c, limit, scope)
        /\ lb = (c.leftBlocked \/ (Kernel!LeftActive(c) /\ l < Kernel!LeftOffer(c, limit, scope)))
        /\ Walk(V, RightSide(c, m, scope, l), r, rb, atEnd)

\* BeginScan has widened the cursor a to c.
Begun(a, c, m, scope) ==
    /\ a \in Cursors /\ c \in Cursors /\ m \in Quanta /\ scope \in Kernel!Scopes
    /\ \E bound \in Bounds : bound >= a.lastBound /\ c = Kernel!ResetBoundedSides(a, bound)

\* The values of a scan that has begun.
LEMMA BegunTypes ==
  ASSUME NEW a, NEW c, NEW m, NEW scope, Begun(a, c, m, scope)
  PROVE  /\ a \in Cursors /\ c \in Cursors /\ m \in Nat \ {0} /\ scope \in Kernel!Scopes
BY BPlusTreeCursorAssumption DEF Begun

\* The fields of a scan on its left side.
LEMMA LeftScanFields ==
  ASSUME NEW P, NEW a, NEW c, NEW m, NEW scope, NEW n, NEW blocked, NEW atEnd,
         scan = LeftScan(P, a, c, m, scope, n, blocked, atEnd)
  PROVE  /\ scan.phase = "left" /\ scan.before = Concrete(P, a) /\ scan.maxEntries = m
         /\ scan.scope = scope /\ scan.onSide = n /\ scan.hits = Hits(P, c, n, 0)
         /\ scan.atLeafEnd = atEnd
         /\ scan.local = [query |-> c.query, left |-> LeftPlace(P, c.left - n),
                          right |-> RightPlace(P, c.right + 0), leftBlocked |-> blocked,
                          rightBlocked |-> c.rightBlocked, lastBound |-> c.lastBound]
         /\ scan.local = Concrete(P, Reached(c, n, blocked, 0, c.rightBlocked))
<1>1. Concrete(P, Reached(c, n, blocked, 0, c.rightBlocked))
        = [query |-> c.query, left |-> LeftPlace(P, c.left - n),
           right |-> RightPlace(P, c.right + 0), leftBlocked |-> blocked,
           rightBlocked |-> c.rightBlocked, lastBound |-> c.lastBound]
  BY DEF Concrete, Reached
<1> QED BY <1>1 DEF LeftScan

\* The fields of a scan on its right side.
LEMMA RightScanFields ==
  ASSUME NEW P, NEW a, NEW c, NEW m, NEW scope, NEW l, NEW lb, NEW r, NEW rb, NEW atEnd,
         scan = RightScan(P, a, c, m, scope, l, lb, r, rb, atEnd)
  PROVE  /\ scan.phase = "right" /\ scan.before = Concrete(P, a) /\ scan.maxEntries = m
         /\ scan.scope = scope /\ scan.onSide = r /\ scan.hits = Hits(P, c, l, r)
         /\ scan.atLeafEnd = atEnd
         /\ scan.local = [query |-> c.query, left |-> LeftPlace(P, c.left - l),
                          right |-> RightPlace(P, c.right + r), leftBlocked |-> lb,
                          rightBlocked |-> rb, lastBound |-> c.lastBound]
         /\ scan.local = Concrete(P, Reached(c, l, lb, r, rb))
<1>1. Concrete(P, Reached(c, l, lb, r, rb))
        = [query |-> c.query, left |-> LeftPlace(P, c.left - l),
           right |-> RightPlace(P, c.right + r), leftBlocked |-> lb,
           rightBlocked |-> rb, lastBound |-> c.lastBound]
  BY DEF Concrete, Reached
<1> QED BY <1>1 DEF RightScan

\* The guard of the left side, and what one range of it does.
LEMMA LeftGoesOnIs ==
  ASSUME NEW P, FollowedAt(P), NEW a, NEW c, NEW m, NEW scope, Begun(a, c, m, scope),
         NEW n, NEW blocked, NEW atEnd,
         LeftTaken(TableValues, c, m, scope, n, blocked, atEnd),
         scan = LeftScan(P, a, c, m, scope, n, blocked, atEnd)
  PROVE  LeftGoesOn <=> GoesOn(LeftSide(c, m, scope), n, blocked, atEnd)
<1> DEFINE s == LeftSide(c, m, scope)
           e == Reached(c, n, blocked, 0, c.rightBlocked)
<1>1. a \in Cursors /\ c \in Cursors /\ m \in Nat \ {0} /\ scope \in Kernel!Scopes
  BY BegunTypes
<1>2. /\ c.left \in 0 .. EntryCount /\ c.right \in 1 .. EntryCount + 1 /\ c.rightBlocked \in BOOLEAN
      /\ EntryCount \in Nat
  BY <1>1, CursorFields
<1>3. s.limit = Kernel!LeftLimit(m, scope) /\ s.scope = scope /\ s.whole = c.left
  BY DEF LeftSide
<1>4. n \in 0 .. c.left /\ blocked \in BOOLEAN /\ atEnd \in BOOLEAN
  BY <1>3 DEF LeftTaken, Walk
<1>5. e \in Cursors
  BY <1>1, <1>2, <1>4, ReachedIsCursor
<1>6. e.left = c.left - n
  BY DEF Reached
<1>7. /\ scan.phase = "left" /\ scan.before = Concrete(P, a) /\ scan.maxEntries = m
      /\ scan.scope = scope /\ scan.onSide = n /\ scan.hits = Hits(P, c, n, 0)
      /\ scan.atLeafEnd = atEnd
      /\ scan.local = [query |-> c.query, left |-> LeftPlace(P, c.left - n),
                       right |-> RightPlace(P, c.right + 0), leftBlocked |-> blocked,
                       rightBlocked |-> c.rightBlocked, lastBound |-> c.lastBound]
      /\ scan.local = Concrete(P, e)
  BY LeftScanFields
<1> HIDE DEF e, s
<1>8. Concrete(P, e).left = NoPlace <=> e.left = 0
  BY <1>5, CursorShows
<1>9. scan.local.left # NoPlace <=> n < c.left
  BY <1>2, <1>4, <1>6, <1>7, <1>8
<1>10. /\ scan.phase = "left" /\ scan.onSide = n /\ scan.atLeafEnd = atEnd /\ scan.scope = scope
      /\ scan.maxEntries = m /\ scan.local.leftBlocked = blocked
  BY <1>7
<1>11. LeftLimit = Kernel!LeftLimit(m, scope)
  BY <1>10 DEF LeftLimit
<1>12. LeftGoesOn <=> /\ n < s.limit /\ ~(atEnd /\ scope = "range")
                      /\ n < c.left /\ ~blocked
  BY <1>3, <1>9, <1>10, <1>11 DEF LeftGoesOn, InFlight, StopsAtLeafEnd
<1> QED BY <1>3, <1>12 DEF GoesOn, s

\* A range on the left side is one more step of its walk.
LEMMA LeftRangeIs ==
  ASSUME NEW P, FollowedAt(P), NEW a, NEW c, NEW m, NEW scope, Begun(a, c, m, scope),
         NEW n, NEW blocked, NEW atEnd,
         LeftTaken(TableValues, c, m, scope, n, blocked, atEnd),
         scan = LeftScan(P, a, c, m, scope, n, blocked, atEnd),
         LeftRange
  PROVE  \E k, b, e : /\ LeftTaken(TableValues, c, m, scope, k, b, e)
                      /\ scan' = LeftScan(P, a, c, m, scope, k, b, e)
<1> DEFINE s == LeftSide(c, m, scope)
           h == c.left - n
           here == Before(h)
           count == LeftCount
           available == LeftAvailable
<1>1. a \in Cursors /\ c \in Cursors /\ m \in Nat \ {0} /\ scope \in Kernel!Scopes
  BY BegunTypes
<1>2. /\ c.left \in 0 .. EntryCount /\ EntryCount \in Nat
  BY <1>1, CursorFields
<1>3. /\ s.limit = Kernel!LeftLimit(m, scope) /\ s.scope = scope /\ s.whole = c.left
      /\ s.first = c.left /\ s.step = -1 /\ s.query = c.query /\ s.bound = c.lastBound
      /\ s.region = Kernel!RegionLeft(c.left) /\ s \in Side /\ s.limit \in Nat
  BY <1>1, LeftIsSide DEF LeftSide
<1>4. GoesOn(s, n, blocked, atEnd) /\ Walk(TableValues, s, n, blocked, atEnd)
  BY LeftGoesOnIs DEF LeftRange, LeftTaken
<1> HIDE DEF s
<1>5. n \in 0 .. c.left /\ n < c.left /\ n < s.limit
  BY <1>3, <1>4 DEF Walk, GoesOn
<1>6. h \in Position /\ h \in Int /\ h # 0 /\ h = s.first + s.step * n
  BY <1>2, <1>3, <1>5 DEF Position
<1>7. n = 0 => here = s.region
  BY <1>2, <1>3 DEF Before
<1>8. /\ scan.phase = "left" /\ scan.before = Concrete(P, a) /\ scan.maxEntries = m
      /\ scan.scope = scope /\ scan.onSide = n /\ scan.hits = Hits(P, c, n, 0)
      /\ scan.atLeafEnd = atEnd
      /\ scan.local = [query |-> c.query, left |-> LeftPlace(P, h),
                       right |-> RightPlace(P, c.right + 0), leftBlocked |-> blocked,
                       rightBlocked |-> c.rightBlocked, lastBound |-> c.lastBound]
  BY LeftScanFields
<1>9. /\ scan.local.left = P[h] /\ scan.local.query = c.query /\ scan.local.lastBound = c.lastBound
  BY <1>6, <1>8 DEF LeftPlace
<1> HIDE DEF h
<1>10. here \in 1 .. h /\ P[h].index = here
  BY <1>6, PositionInLeaf, LaidPlaces DEF FollowedAt, Followed
<1>11. available = SmallerOf(s.limit - n, here)
  BY <1>3, <1>8, <1>9, <1>10 DEF LeftAvailable, LeftLimit
<1>12. available \in 1 .. here
  BY <1>3, <1>5, <1>6, <1>10, <1>11 DEF SmallerOf
<1>13. count = Kernel!ClampToWindow(ValueOf(pages[P[h].page]), c.query, P[h].index, -1,
                                    available, c.lastBound)
  BY <1>9 DEF LeftCount, InWindow
<1> HIDE DEF count, available
<1>14. /\ count = Kernel!ClampToWindow(TableValues, c.query, h, -1, available, c.lastBound)
       /\ count \in 0 .. available
       /\ LeftAfter(P[h], count) = LeftPlace(P, h - count)
       /\ [j \in 1 .. count |-> [page |-> P[h].page, index |-> P[h].index - j + 1]]
            = [j \in 1 .. count |-> P[h - j + 1]]
  <2> DEFINE q == c.query
             bound == c.lastBound
  <2>1. count = Kernel!ClampToWindow(ValueOf(pages[P[h].page]), q, P[h].index, -1, available, bound)
    BY <1>13
  <2> HIDE DEF q, bound
  <2>2. LeftRanged(P, h, available, q, bound, count)
    BY ONLY <1>6, <1>12, <2>1, FollowedAt(P), LeftRangeOfLeaf
  <2> QED BY <2>2 DEF LeftRanged, q, bound
<1>15. Walk(TableValues, s, n + count, count < available, count = here)
  <2> DEFINE V == TableValues
  <2>1. /\ s \in Side /\ Walk(V, s, n, blocked, atEnd) /\ GoesOn(s, n, blocked, atEnd)
        /\ here \in 1 .. s.whole - n /\ (n = 0 => here = s.region)
        /\ available = SmallerOf(s.limit - n, here)
        /\ count = Kernel!ClampToWindow(V, s.query, s.first + s.step * n, s.step, available, s.bound)
    BY <1>3, <1>4, <1>6, <1>7, <1>10, <1>11, <1>14 DEF h
  <2> HIDE DEF V, here
  <2>2. Walk(V, s, n + count, count < available, count = here)
    BY ONLY <2>1, WalkGoesOn
  <2> QED BY <2>2 DEF V
<1> DEFINE hits == Hits(P, c, n, 0) \o [j \in 1 .. count |-> [page |-> P[h].page, index |-> P[h].index - j + 1]]
<1>16. hits = Hits(P, c, n + count, 0)
  <2>1. P \in Places
    BY DEF FollowedAt, Laid
  <2>2. n \in Nat /\ count \in Nat /\ n + count <= c.left
    BY <1>2, <1>3, <1>5, <1>10, <1>12, <1>14, <1>15 DEF Walk
  <2>3. Hits(P, c, n, 0) \o [j \in 1 .. count |-> P[(c.left - n) - j + 1]] = Hits(P, c, n + count, 0)
    BY <1>1, <2>1, <2>2, MoreLeftHits
  <2> QED BY <1>14, <2>3 DEF h
<1>17. h - count = c.left - (n + count)
  BY <1>2, <1>5, <1>12, <1>14, <1>10, <1>6 DEF h
<1>18. scan' = [scan EXCEPT !.local.left = LeftPlace(P, c.left - (n + count)),
                            !.local.leftBlocked = (count < available),
                            !.onSide = n + count,
                            !.atLeafEnd = (count = here),
                            !.hits = hits]
  BY <1>8, <1>9, <1>10, <1>14, <1>17 DEF LeftRange, count, available
<1> HIDE DEF hits, here
<1>19. scan' = LeftScan(P, a, c, m, scope, n + count, count < available, count = here)
  <2> DEFINE left == LeftPlace(P, c.left - (n + count))
             b == (count < available)
             e == (count = here)
             k == n + count
  <2>2. LeftScan(P, a, c, m, scope, k, b, e)
          = [phase |-> "left", before |-> Concrete(P, a),
             local |-> [query |-> c.query, left |-> left,
                        right |-> RightPlace(P, c.right + 0), leftBlocked |-> b,
                        rightBlocked |-> c.rightBlocked, lastBound |-> c.lastBound],
             maxEntries |-> m, scope |-> scope, onSide |-> k, hits |-> hits, atLeafEnd |-> e]
    <3>1. Concrete(P, Reached(c, k, b, 0, c.rightBlocked))
            = [query |-> c.query, left |-> left,
               right |-> RightPlace(P, c.right + 0), leftBlocked |-> b,
               rightBlocked |-> c.rightBlocked, lastBound |-> c.lastBound]
      BY DEF Concrete, Reached
    <3> QED BY <1>16, <3>1 DEF LeftScan
  <2>3. scan = [phase |-> "left", before |-> Concrete(P, a), local |-> scan.local,
                maxEntries |-> m, scope |-> scope, onSide |-> n, hits |-> Hits(P, c, n, 0),
                atLeafEnd |-> atEnd]
    BY <1>8 DEF LeftScan
  <2>4. scan' = [scan EXCEPT !.local = [scan.local EXCEPT !.left = left, !.leftBlocked = b],
                             !.onSide = k, !.atLeafEnd = e, !.hits = hits]
    <3> HIDE DEF left, b, e, k
    <3>1. scan' = [scan EXCEPT !.local.left = left, !.local.leftBlocked = b,
                               !.onSide = k, !.atLeafEnd = e, !.hits = hits]
      BY <1>18 DEF left, b, e, k
    <3> QED BY <2>3, <3>1
  <2>5. [scan.local EXCEPT !.left = left, !.leftBlocked = b]
          = [query |-> c.query, left |-> left,
             right |-> RightPlace(P, c.right + 0), leftBlocked |-> b,
             rightBlocked |-> c.rightBlocked, lastBound |-> c.lastBound]
    <3> DEFINE x == scan.local
               u == LeftPlace(P, h)
               v == RightPlace(P, c.right + 0)
    <3>1. x = [query |-> c.query, left |-> u, right |-> v, leftBlocked |-> blocked,
               rightBlocked |-> c.rightBlocked, lastBound |-> c.lastBound]
      BY <1>8
    <3> HIDE DEF left, b, x, u, v
    <3> DEFINE y == [x EXCEPT !.left = left, !.leftBlocked = b]
    <3>2. y = [x EXCEPT !.left = left, !.leftBlocked = b]
      OBVIOUS
    <3> HIDE DEF y
    <3>3. y = [query |-> c.query, left |-> left, right |-> v, leftBlocked |-> b,
               rightBlocked |-> c.rightBlocked, lastBound |-> c.lastBound]
      BY ONLY <3>1, <3>2
    <3> QED BY <3>3 DEF x, v, y
  <2> HIDE DEF left, b, e, k
  <2>6. scan' = LeftScan(P, a, c, m, scope, k, b, e)
    <3> DEFINE x == scan.local
               y == [x EXCEPT !.left = left, !.leftBlocked = b]
               f == Concrete(P, a)
               g == Hits(P, c, n, 0)
    <3>1. /\ scan = [phase |-> "left", before |-> f, local |-> x,
                     maxEntries |-> m, scope |-> scope, onSide |-> n, hits |-> g, atLeafEnd |-> atEnd]
          /\ scan' = [scan EXCEPT !.local = y, !.onSide = k, !.atLeafEnd = e, !.hits = hits]
      BY <2>3, <2>4
    <3>2. LeftScan(P, a, c, m, scope, k, b, e)
            = [phase |-> "left", before |-> f, local |-> y,
               maxEntries |-> m, scope |-> scope, onSide |-> k, hits |-> hits, atLeafEnd |-> e]
      BY <2>2, <2>5
    <3> HIDE DEF x, y, f, g
    <3>3. scan' = [phase |-> "left", before |-> f, local |-> y,
                   maxEntries |-> m, scope |-> scope, onSide |-> k, hits |-> hits, atLeafEnd |-> e]
      BY ONLY <3>1
    <3> QED BY <3>2, <3>3
  <2> QED BY <2>6 DEF b, e, k
<1> QED BY <1>15, <1>19 DEF LeftTaken, s

\* What is left for the right side after the left one.
LEMMA RightLimitIs ==
  ASSUME NEW P, FollowedAt(P), NEW a, NEW c, NEW m, NEW scope, Begun(a, c, m, scope),
         NEW l, NEW lb, NEW r, NEW rb, NEW atEnd,
         RightTaken(TableValues, c, m, scope, l, lb, r, rb, atEnd),
         scan = RightScan(P, a, c, m, scope, l, lb, r, rb, atEnd)
  PROVE  /\ l \in 0 .. c.left /\ l \in Nat /\ r \in 0 .. EntryCount - c.right + 1 /\ r \in Nat
         /\ lb \in BOOLEAN /\ rb \in BOOLEAN /\ atEnd \in BOOLEAN
         /\ Len(scan.hits) = l + r
         /\ RightLimit = Kernel!RightLimit(m, scope, l)
         /\ Reached(c, l, lb, r, rb) \in Cursors
<1>1. a \in Cursors /\ c \in Cursors /\ m \in Nat \ {0} /\ scope \in Kernel!Scopes
  BY BegunTypes
<1>2. /\ c.left \in 0 .. EntryCount /\ c.right \in 1 .. EntryCount + 1 /\ EntryCount \in Nat
  BY <1>1, CursorFields
<1>3. /\ scan.maxEntries = m /\ scan.scope = scope /\ scan.onSide = r /\ scan.hits = Hits(P, c, l, r)
  BY DEF RightScan
<1>4. l \in 0 .. c.left /\ l \in Nat /\ lb \in BOOLEAN
  BY <1>2 DEF RightTaken
<1>5. r \in 0 .. EntryCount - c.right + 1 /\ r \in Nat /\ rb \in BOOLEAN /\ atEnd \in BOOLEAN
  <2> DEFINE s == RightSide(c, m, scope, l)
  <2>1. s.whole = EntryCount - c.right + 1
    BY DEF RightSide
  <2> HIDE DEF s
  <2>2. Walk(TableValues, s, r, rb, atEnd)
    BY DEF RightTaken, s
  <2> QED BY <1>2, <2>1, <2>2 DEF Walk
<1>6. Len(scan.hits) = l + r
  <2>1. P \in Places
    BY DEF FollowedAt, Laid
  <2>2. Within(c, l, r)
    BY <1>4, <1>5 DEF Within
  <2> QED BY <1>1, <1>3, <2>1, <2>2, HitsAreSeq
<1>7. RightLimit = Kernel!RightLimit(m, scope, l)
  <2>1. Len(scan.hits) - scan.onSide = l
    BY <1>3, <1>4, <1>5, <1>6
  <2> QED BY <1>3, <2>1 DEF RightLimit
<1>8. Reached(c, l, lb, r, rb) \in Cursors
  BY <1>1, <1>4, <1>5, ReachedIsCursor
<1> QED BY <1>4, <1>5, <1>6, <1>7, <1>8

\* The guard of the right side, and what one range of it does.
LEMMA RightGoesOnIs ==
  ASSUME NEW P, FollowedAt(P), NEW a, NEW c, NEW m, NEW scope, Begun(a, c, m, scope),
         NEW l, NEW lb, NEW r, NEW rb, NEW atEnd,
         RightTaken(TableValues, c, m, scope, l, lb, r, rb, atEnd),
         scan = RightScan(P, a, c, m, scope, l, lb, r, rb, atEnd)
  PROVE  RightGoesOn <=> GoesOn(RightSide(c, m, scope, l), r, rb, atEnd)
<1> DEFINE s == RightSide(c, m, scope, l)
           e == Reached(c, l, lb, r, rb)
<1>1. a \in Cursors /\ c \in Cursors /\ m \in Nat \ {0} /\ scope \in Kernel!Scopes
  BY BegunTypes
<1>2. /\ c.left \in 0 .. EntryCount /\ c.right \in 1 .. EntryCount + 1 /\ EntryCount \in Nat
  BY <1>1, CursorFields
<1>3. s.limit = Kernel!RightLimit(m, scope, l) /\ s.scope = scope /\ s.whole = EntryCount - c.right + 1
  BY DEF RightSide
<1>4. /\ r \in 0 .. EntryCount - c.right + 1 /\ e \in Cursors
      /\ RightLimit = Kernel!RightLimit(m, scope, l)
  BY RightLimitIs
<1>5. e.right = c.right + r
  BY DEF Reached
<1>6. /\ scan.phase = "right" /\ scan.onSide = r /\ scan.atLeafEnd = atEnd /\ scan.scope = scope
      /\ scan.local.rightBlocked = rb
      /\ scan.local = Concrete(P, e)
  <2>1. /\ scan.phase = "right" /\ scan.onSide = r /\ scan.atLeafEnd = atEnd /\ scan.scope = scope
        /\ scan.local = Concrete(P, e)
    BY DEF RightScan
  <2>2. Concrete(P, e).rightBlocked = rb
    BY DEF Concrete, Reached
  <2> HIDE DEF e
  <2> QED BY <2>1, <2>2
<1> HIDE DEF e, s
<1>7. Concrete(P, e).right = NoPlace <=> e.right = EntryCount + 1
  BY <1>4, CursorShows
<1>8. scan.local.right # NoPlace <=> r < EntryCount - c.right + 1
  BY <1>2, <1>4, <1>5, <1>6, <1>7
<1>9. RightGoesOn <=> /\ r < s.limit /\ ~(atEnd /\ scope = "range")
                      /\ r < EntryCount - c.right + 1 /\ ~rb
  BY <1>3, <1>4, <1>6, <1>8 DEF RightGoesOn, InFlight, StopsAtLeafEnd
<1> QED BY <1>3, <1>9 DEF GoesOn, s

\* A range on the right side is one more step of its walk.
LEMMA RightRangeIs ==
  ASSUME NEW P, FollowedAt(P), NEW a, NEW c, NEW m, NEW scope, Begun(a, c, m, scope),
         NEW l, NEW lb, NEW r, NEW rb, NEW atEnd,
         RightTaken(TableValues, c, m, scope, l, lb, r, rb, atEnd),
         scan = RightScan(P, a, c, m, scope, l, lb, r, rb, atEnd),
         RightRange
  PROVE  \E k, b, e : /\ RightTaken(TableValues, c, m, scope, l, lb, k, b, e)
                      /\ scan' = RightScan(P, a, c, m, scope, l, lb, k, b, e)
<1> DEFINE s == RightSide(c, m, scope, l)
           h == c.right + r
           here == Rest(h)
           count == RightCount
           available == RightAvailable
<1>1. a \in Cursors /\ c \in Cursors /\ m \in Nat \ {0} /\ scope \in Kernel!Scopes
  BY BegunTypes
<1>2. /\ c.right \in 1 .. EntryCount + 1 /\ EntryCount \in Nat
      /\ l \in 0 .. c.left /\ l \in Nat /\ r \in 0 .. EntryCount - c.right + 1
      /\ RightLimit = Kernel!RightLimit(m, scope, l)
  BY <1>1, CursorFields, RightLimitIs
<1>3. /\ s.limit = Kernel!RightLimit(m, scope, l) /\ s.scope = scope /\ s.whole = EntryCount - c.right + 1
      /\ s.first = c.right /\ s.step = 1 /\ s.query = c.query /\ s.bound = c.lastBound
      /\ s.region = Kernel!RegionRight(c.right) /\ s \in Side /\ s.limit \in Nat
  <2>1. l <= Kernel!LeftLimit(m, scope)
    BY DEF RightTaken
  <2>2. s \in Side
    BY <1>1, <1>2, <2>1, RightIsSide
  <2>3. /\ s.limit = Kernel!RightLimit(m, scope, l) /\ s.scope = scope /\ s.whole = EntryCount - c.right + 1
        /\ s.first = c.right /\ s.step = 1 /\ s.query = c.query /\ s.bound = c.lastBound
        /\ s.region = Kernel!RegionRight(c.right)
    BY DEF RightSide
  <2> HIDE DEF s
  <2>4. s.limit \in Nat
    BY <2>2 DEF Side
  <2> QED BY <2>2, <2>3, <2>4
<1>4. GoesOn(s, r, rb, atEnd) /\ Walk(TableValues, s, r, rb, atEnd)
  BY RightGoesOnIs DEF RightRange, RightTaken
<1> HIDE DEF s
<1>5. r < EntryCount - c.right + 1 /\ r < s.limit
  BY <1>3, <1>4 DEF GoesOn
<1>6. h \in Position /\ h \in Int /\ h # EntryCount + 1 /\ h = s.first + s.step * r
  BY <1>2, <1>3, <1>5 DEF Position
<1>7. r = 0 => here = s.region
  BY <1>2, <1>3 DEF Rest
<1>8. /\ scan.phase = "right" /\ scan.before = Concrete(P, a) /\ scan.maxEntries = m
      /\ scan.scope = scope /\ scan.onSide = r /\ scan.hits = Hits(P, c, l, r)
      /\ scan.atLeafEnd = atEnd
      /\ scan.local = [query |-> c.query, left |-> LeftPlace(P, c.left - l),
                       right |-> RightPlace(P, h), leftBlocked |-> lb,
                       rightBlocked |-> rb, lastBound |-> c.lastBound]
  BY RightScanFields
<1>9. /\ scan.local.right = P[h] /\ scan.local.query = c.query /\ scan.local.lastBound = c.lastBound
  BY <1>6, <1>8 DEF RightPlace
<1> HIDE DEF h
<1>10. here \in 1 .. EntryCount - h + 1 /\ RightInLeaf = here
  <2>1. here \in 1 .. EntryCount - h + 1 /\ Before(h) \in Int /\ here \in Int
    BY <1>6, PositionInLeaf
  <2>2. LeafLaid(P, h)
    BY <1>6 DEF FollowedAt, Laid
  <2> DEFINE x == Before(h)
  <2>3. P[h].index = x /\ Len(pages[P[h].page].entries) = x + here - 1 /\ x \in Int
    BY <2>1, <2>2 DEF LeafLaid
  <2>4. RightInLeaf = Len(pages[P[h].page].entries) - P[h].index + 1
    BY <1>9 DEF RightInLeaf
  <2> HIDE DEF x, here
  <2> QED BY <2>1, <2>3, <2>4
<1>11. available = SmallerOf(s.limit - r, here)
  BY <1>2, <1>3, <1>8, <1>10 DEF RightAvailable
<1>12. available \in 1 .. here
  BY <1>3, <1>2, <1>5, <1>6, <1>10, <1>11 DEF SmallerOf
<1>13. count = Kernel!ClampToWindow(ValueOf(pages[P[h].page]), c.query, P[h].index, 1,
                                    available, c.lastBound)
  BY <1>9 DEF RightCount, InWindow
<1> HIDE DEF count, available
<1> DEFINE after == AfterRight(P[h], count, here)
<1>14. /\ count = Kernel!ClampToWindow(TableValues, c.query, h, 1, available, c.lastBound)
       /\ count \in 0 .. available
       /\ after = RightPlace(P, h + count)
       /\ [j \in 1 .. count |-> [page |-> P[h].page, index |-> P[h].index + j - 1]]
            = [j \in 1 .. count |-> P[h + j - 1]]
  <2> DEFINE q == c.query
             bound == c.lastBound
  <2>1. count = Kernel!ClampToWindow(ValueOf(pages[P[h].page]), q, P[h].index, 1, available, bound)
    BY <1>13
  <2> HIDE DEF q, bound
  <2>2. RightRanged(P, h, available, q, bound, count)
    BY ONLY <1>6, <1>12, <2>1, FollowedAt(P), RightRangeOfLeaf
  <2> QED BY <2>2 DEF RightRanged, q, bound
<1>15. Walk(TableValues, s, r + count, count < available, count = here)
  <2> DEFINE V == TableValues
  <2>1. /\ s \in Side /\ Walk(V, s, r, rb, atEnd) /\ GoesOn(s, r, rb, atEnd)
        /\ here \in 1 .. s.whole - r /\ (r = 0 => here = s.region)
        /\ available = SmallerOf(s.limit - r, here)
        /\ count = Kernel!ClampToWindow(V, s.query, s.first + s.step * r, s.step, available, s.bound)
    <3>1. here \in 1 .. s.whole - r
      <4>1. EntryCount - h + 1 = s.whole - r
        BY <1>2, <1>3 DEF h
      <4> QED BY <1>10, <4>1
    <3> QED BY <1>3, <1>4, <1>6, <1>7, <1>11, <1>14, <3>1
  <2> HIDE DEF V, here
  <2>2. Walk(V, s, r + count, count < available, count = here)
    BY ONLY <2>1, WalkGoesOn
  <2> QED BY <2>2 DEF V
<1> DEFINE hits == Hits(P, c, l, r) \o [j \in 1 .. count |-> [page |-> P[h].page, index |-> P[h].index + j - 1]]
<1>16. hits = Hits(P, c, l, r + count)
  <2>1. P \in Places
    BY DEF FollowedAt, Laid
  <2>2. r \in Nat /\ count \in Nat /\ r + count <= EntryCount - c.right + 1
    <3>1. r + count \in 0 .. s.whole
      BY <1>15 DEF Walk
    <3> QED BY <1>2, <1>3, <1>12, <1>14, <3>1
  <2>3. Hits(P, c, l, r) \o [j \in 1 .. count |-> P[(c.right + r) + j - 1]] = Hits(P, c, l, r + count)
    BY <1>1, <1>2, <2>1, <2>2, MoreRightHits, ZenonT(60)
  <2> QED BY <1>14, <2>3 DEF h
<1>17. h + count = c.right + (r + count)
  BY <1>2, <1>5, <1>12, <1>14, <1>10, <1>6 DEF h
<1>18. scan' = [scan EXCEPT !.local.right = RightPlace(P, c.right + (r + count)),
                            !.local.rightBlocked = (count < available),
                            !.onSide = r + count,
                            !.atLeafEnd = (count = here),
                            !.hits = hits]
  <2>1. RightAfter(scan.local.right, count) = RightPlace(P, c.right + (r + count))
    BY <1>9, <1>10, <1>14, <1>17 DEF RightAfter, AfterRight
  <2>2. scan' = [scan EXCEPT !.local.right = RightAfter(scan.local.right, count),
                             !.local.rightBlocked = count < available,
                             !.onSide = @ + count,
                             !.atLeafEnd = count = RightInLeaf,
                             !.hits = @ \o [j \in 1 .. count |->
                                [page |-> scan.local.right.page, index |-> scan.local.right.index + j - 1]]]
    BY DEF RightRange, count, available
  <2> QED BY <1>8, <1>9, <1>10, <2>1, <2>2
<1> HIDE DEF hits, here
<1>19. scan' = RightScan(P, a, c, m, scope, l, lb, r + count, count < available, count = here)
  <2> DEFINE right == RightPlace(P, c.right + (r + count))
             b == (count < available)
             e == (count = here)
             k == r + count
  <2>2. RightScan(P, a, c, m, scope, l, lb, k, b, e)
          = [phase |-> "right", before |-> Concrete(P, a),
             local |-> [query |-> c.query, left |-> LeftPlace(P, c.left - l),
                        right |-> right, leftBlocked |-> lb,
                        rightBlocked |-> b, lastBound |-> c.lastBound],
             maxEntries |-> m, scope |-> scope, onSide |-> k, hits |-> hits, atLeafEnd |-> e]
    <3>1. Concrete(P, Reached(c, l, lb, k, b))
            = [query |-> c.query, left |-> LeftPlace(P, c.left - l),
               right |-> right, leftBlocked |-> lb,
               rightBlocked |-> b, lastBound |-> c.lastBound]
      BY DEF Concrete, Reached
    <3> QED BY <1>16, <3>1 DEF RightScan
  <2>3. scan = [phase |-> "right", before |-> Concrete(P, a), local |-> scan.local,
                maxEntries |-> m, scope |-> scope, onSide |-> r, hits |-> Hits(P, c, l, r),
                atLeafEnd |-> atEnd]
    BY <1>8 DEF RightScan
  <2>4. scan' = [scan EXCEPT !.local = [scan.local EXCEPT !.right = right, !.rightBlocked = b],
                             !.onSide = k, !.atLeafEnd = e, !.hits = hits]
    <3> HIDE DEF right, b, e, k
    <3>1. scan' = [scan EXCEPT !.local.right = right, !.local.rightBlocked = b,
                               !.onSide = k, !.atLeafEnd = e, !.hits = hits]
      BY <1>18 DEF right, b, e, k
    <3> QED BY <2>3, <3>1
  <2>5. [scan.local EXCEPT !.right = right, !.rightBlocked = b]
          = [query |-> c.query, left |-> LeftPlace(P, c.left - l),
             right |-> right, leftBlocked |-> lb,
             rightBlocked |-> b, lastBound |-> c.lastBound]
    <3> DEFINE x == scan.local
               u == LeftPlace(P, c.left - l)
               v == RightPlace(P, h)
    <3>1. x = [query |-> c.query, left |-> u, right |-> v, leftBlocked |-> lb,
               rightBlocked |-> rb, lastBound |-> c.lastBound]
      BY <1>8
    <3> HIDE DEF right, b, x, u, v
    <3> DEFINE y == [x EXCEPT !.right = right, !.rightBlocked = b]
    <3>2. y = [x EXCEPT !.right = right, !.rightBlocked = b]
      OBVIOUS
    <3> HIDE DEF y
    <3>3. y = [query |-> c.query, left |-> u, right |-> right, leftBlocked |-> lb,
               rightBlocked |-> b, lastBound |-> c.lastBound]
      BY ONLY <3>1, <3>2
    <3> QED BY <3>3 DEF x, u, y
  <2> HIDE DEF right, b, e, k
  <2>6. scan' = RightScan(P, a, c, m, scope, l, lb, k, b, e)
    <3> DEFINE x == scan.local
               y == [x EXCEPT !.right = right, !.rightBlocked = b]
               f == Concrete(P, a)
               g == Hits(P, c, l, r)
    <3>1. /\ scan = [phase |-> "right", before |-> f, local |-> x,
                     maxEntries |-> m, scope |-> scope, onSide |-> r, hits |-> g, atLeafEnd |-> atEnd]
          /\ scan' = [scan EXCEPT !.local = y, !.onSide = k, !.atLeafEnd = e, !.hits = hits]
      BY <2>3, <2>4
    <3>2. RightScan(P, a, c, m, scope, l, lb, k, b, e)
            = [phase |-> "right", before |-> f, local |-> y,
               maxEntries |-> m, scope |-> scope, onSide |-> k, hits |-> hits, atLeafEnd |-> e]
      BY <2>2, <2>5
    <3> HIDE DEF x, y, f, g
    <3>3. scan' = [phase |-> "right", before |-> f, local |-> y,
                   maxEntries |-> m, scope |-> scope, onSide |-> k, hits |-> hits, atLeafEnd |-> e]
      BY ONLY <3>1
    <3> QED BY <3>2, <3>3
  <2> QED BY <2>6 DEF b, e, k
<1> QED BY <1>15, <1>19 DEF RightTaken, s

-----------------------------------------------------------------------------
(* Every step is one of a cursor over the sorted table, or none. *)

\* The abstract cursor scans with the same kernel.
LEMMA SameKernel ==
  ASSUME NEW V, NEW c, NEW q, NEW bound, NEW m, NEW scope
  PROVE  /\ Projection!ScanCursor(V, c, bound, m, scope) = Kernel!ScanCursor(V, c, bound, m, scope)
         /\ Projection!ResetCursor(V, q) = Kernel!ResetCursor(V, q)
         /\ Projection!Scopes = Kernel!Scopes
         /\ Projection!Position = Position
<1>1. Projection!ResetCursor(V, q) = Kernel!ResetCursor(V, q)
  BY DEF Projection!ResetCursor, Kernel!ResetCursor, Projection!LowerBound, Kernel!LowerBound,
         Projection!Unbounded, Kernel!Unbounded
<1>2. Projection!Scopes = Kernel!Scopes /\ Projection!Position = Position
  BY DEF Projection!Scopes, Kernel!Scopes, Projection!Position, Position
<1>3. ASSUME NEW d, NEW b PROVE Projection!ResetBoundedSides(d, b) = Kernel!ResetBoundedSides(d, b)
  BY DEF Projection!ResetBoundedSides, Kernel!ResetBoundedSides
<1>4. ASSUME NEW i, NEW s PROVE /\ Projection!LeftLimit(i, s) = Kernel!LeftLimit(i, s)
                                /\ \A n : Projection!RightLimit(i, s, n) = Kernel!RightLimit(i, s, n)
  BY DEF Projection!LeftLimit, Kernel!LeftLimit, Projection!RightLimit, Kernel!RightLimit
<1>5. ASSUME NEW d, NEW i, NEW s
      PROVE  /\ Projection!LeftOffer(d, i, s) = Kernel!LeftOffer(d, i, s)
             /\ Projection!RightOffer(d, i, s) = Kernel!RightOffer(d, i, s)
             /\ Projection!LeftActive(d) = Kernel!LeftActive(d)
             /\ Projection!RightActive(d) = Kernel!RightActive(d)
  BY DEF Projection!LeftOffer, Kernel!LeftOffer, Projection!RightOffer, Kernel!RightOffer,
         Projection!Available, Kernel!Available, Projection!RegionLeft, Kernel!RegionLeft,
         Projection!RegionRight, Kernel!RegionRight, Projection!SmallerOf, Kernel!SmallerOf,
         Projection!LeftActive, Kernel!LeftActive, Projection!RightActive, Kernel!RightActive
<1>6. ASSUME NEW query, NEW first, NEW step, NEW available, NEW b
      PROVE  Projection!ClampToWindow(V, query, first, step, available, b)
               = Kernel!ClampToWindow(V, query, first, step, available, b)
  BY DEF Projection!ClampToWindow, Kernel!ClampToWindow, Projection!Inside, Kernel!Inside,
         Projection!Difference, Kernel!Difference
<1>7. ASSUME NEW d, NEW i, NEW s
      PROVE  /\ Projection!LeftCount(V, d, i, s) = Kernel!LeftCount(V, d, i, s)
             /\ Projection!RightCount(V, d, i, s) = Kernel!RightCount(V, d, i, s)
  BY <1>5, <1>6 DEF Projection!LeftCount, Kernel!LeftCount, Projection!RightCount, Kernel!RightCount
<1>8. ASSUME NEW d, NEW n, NEW i
      PROVE  /\ Projection!MoveLeft(d, n, i) = Kernel!MoveLeft(d, n, i)
             /\ Projection!MoveRight(d, n, i) = Kernel!MoveRight(d, n, i)
  BY DEF Projection!MoveLeft, Kernel!MoveLeft, Projection!MoveRight, Kernel!MoveRight,
         Projection!LeftActive, Kernel!LeftActive, Projection!RightActive, Kernel!RightActive
<1>9. ASSUME NEW d
      PROVE  /\ Projection!WindowExhausted(d) = Kernel!WindowExhausted(d)
             /\ Projection!TableExhausted(d) = Kernel!TableExhausted(d)
  BY DEF Projection!WindowExhausted, Kernel!WindowExhausted,
         Projection!TableExhausted, Kernel!TableExhausted
<1>10. ASSUME NEW i, NEW l, NEW p, NEW r
       PROVE  Projection!OutwardPositions(i, l, p, r) = Kernel!OutwardPositions(i, l, p, r)
  BY DEF Projection!OutwardPositions, Kernel!OutwardPositions
<1>11. Projection!ScanCursor(V, c, bound, m, scope) = Kernel!ScanCursor(V, c, bound, m, scope)
  BY <1>3, <1>4, <1>5, <1>7, <1>8, <1>9, <1>10, SMTT(20) DEF Projection!ScanCursor, Kernel!ScanCursor
<1> QED BY <1>1, <1>2, <1>11

\* The states of a cursor cur and its scan sc over table V that show as a.
Shows(V, P, a, cur, sc) ==
    /\ a \in Cursors
    /\ \/ sc = NoScan /\ cur = Concrete(P, a)
       \/ \E c \in Cursors : sc = Thrown(P, a) /\ cur = Concrete(P, c)
       \/ \E c, m, scope :
            /\ Begun(a, c, m, scope) /\ cur = Concrete(P, c)
            /\ \/ \E n, b, e : /\ LeftTaken(V, c, m, scope, n, b, e)
                               /\ sc = LeftScan(P, a, c, m, scope, n, b, e)
               \/ \E l, lb, r, rb, e : /\ RightTaken(V, c, m, scope, l, lb, r, rb, e)
                                       /\ sc = RightScan(P, a, c, m, scope, l, lb, r, rb, e)

\* SettledCursor with its variables as parameters: a cursor shows where its scan
\* began until the scan ends.
PositionIn(E, G, t, place) == CHOOSE i \in Position : E[t][i] = G[place.page].entries[place.index]
AsCursor(E, G, t, c) ==
    [query |-> c.query,
     left |-> IF c.left = NoPlace THEN 0 ELSE PositionIn(E, G, t, c.left),
     right |-> IF c.right = NoPlace THEN EntryCount + 1 ELSE PositionIn(E, G, t, c.right),
     leftBlocked |-> c.leftBlocked, rightBlocked |-> c.rightBlocked, lastBound |-> c.lastBound]
Settled(V, E, G, t, cur, sc) ==
    IF cur = Unset THEN Kernel!ResetCursor(V, Unset.query)
    ELSE AsCursor(E, G, t, IF sc = NoScan THEN cur ELSE sc.before)

\* It is what the refinement mapping gives, before a step and after it.
LEMMA SettledIs ==
  /\ SettledCursor = Settled(TableValues, entries, pages, tableId, cursor, scan)
  /\ SettledCursor' = Settled(TableValues', entries', pages', tableId', cursor', scan')
BY DEF SettledCursor, Settled, AsProjectionCursor, AsCursor, PositionOf, PositionIn, EntryAt

\* A state that shows as a is mapped to a.
LEMMA SettledShows ==
  ASSUME NEW P, FollowedAt(P), NEW V, NEW a, NEW cur, NEW sc, Shows(V, P, a, cur, sc)
  PROVE  /\ Settled(TableValues, entries, pages, tableId, cur, sc) = a
         /\ cur # Unset /\ a \in Cursors
<1>1. a \in Cursors
  BY DEF Shows
<1>2. AsCursor(entries, pages, tableId, Concrete(P, a)) = a
  <2>1. AsProjectionCursor(Concrete(P, a)) = AsCursor(entries, pages, tableId, Concrete(P, a))
    BY DEF AsProjectionCursor, AsCursor, PositionOf, PositionIn, EntryAt
  <2> QED BY <1>1, <2>1, CursorShows
<1>3. NoScan.phase = "none"
  BY DEF NoScan
<1>4. (IF sc = NoScan THEN cur ELSE sc.before) = Concrete(P, a) /\ \E c \in Cursors : cur = Concrete(P, c)
  <2>1. CASE sc = NoScan /\ cur = Concrete(P, a)
    BY <1>1, <2>1
  <2>2. CASE \E c \in Cursors : sc = Thrown(P, a) /\ cur = Concrete(P, c)
    <3>1. sc.phase = "thrown" /\ sc.before = Concrete(P, a)
      BY <2>2 DEF Thrown
    <3> QED BY <1>3, <2>2, <3>1
  <2>3. ASSUME NEW c, NEW m, NEW scope, Begun(a, c, m, scope), cur = Concrete(P, c),
               NEW n, NEW b, NEW e, sc = LeftScan(P, a, c, m, scope, n, b, e)
        PROVE  (IF sc = NoScan THEN cur ELSE sc.before) = Concrete(P, a) /\ \E d \in Cursors : cur = Concrete(P, d)
    <3>1. sc.phase = "left" /\ sc.before = Concrete(P, a)
      BY <2>3 DEF LeftScan
    <3>2. c \in Cursors
      BY <2>3 DEF Begun
    <3> QED BY <1>3, <2>3, <3>1, <3>2
  <2>4. ASSUME NEW c, NEW m, NEW scope, Begun(a, c, m, scope), cur = Concrete(P, c),
               NEW l, NEW lb, NEW r, NEW rb, NEW e, sc = RightScan(P, a, c, m, scope, l, lb, r, rb, e)
        PROVE  (IF sc = NoScan THEN cur ELSE sc.before) = Concrete(P, a) /\ \E d \in Cursors : cur = Concrete(P, d)
    <3>1. sc.phase = "right" /\ sc.before = Concrete(P, a)
      BY <2>4 DEF RightScan
    <3>2. c \in Cursors
      BY <2>4 DEF Begun
    <3> QED BY <1>3, <2>4, <3>1, <3>2
  <2> QED BY <2>1, <2>2, <2>3, <2>4 DEF Shows
<1>5. cur # Unset
  BY <1>4, CursorShows
<1> QED BY <1>1, <1>2, <1>4, <1>5 DEF Settled

\* The layout of the table depends on the file only.
LEMMA SameLayout ==
  ASSUME UNCHANGED <<entries, pages, roots, tableId>>
  PROVE  /\ TableValues' = TableValues /\ Table' = Table /\ NumPoints' = NumPoints
         /\ (TablesOK' <=> TablesOK)
         /\ \A P : Laid(P)' <=> Laid(P)
<1>1. entries' = entries /\ pages' = pages /\ tableId' = tableId /\ roots' = roots
  OBVIOUS
<1>2. NumPoints' = NumPoints /\ Table' = Table
  BY <1>1 DEF NumPoints, Table
<1>3. TableValues' = TableValues
  BY <1>1, <1>2 DEF TableValues
<1>4. LeavesOf(tableId)' = LeavesOf(tableId)
  BY <1>1 DEF LeavesOf, PagesOf, Depth, ChildSlots, Leaf
<1>5. ASSUME NEW P, NEW i PROVE LeafLaid(P, i)' <=> LeafLaid(P, i)
  <2>1. ASSUME NEW p PROVE PlaceLeftOf(p)' = PlaceLeftOf(p) /\ PlaceRightOf(p)' = PlaceRightOf(p)
    BY <1>1 DEF PlaceLeftOf, PlaceRightOf
  <2> QED BY <1>1, <2>1 DEF LeafLaid
<1>6. \A P : Laid(P)' <=> Laid(P)
  BY <1>4, <1>5 DEF Laid
<1>7. TablesOK' <=> TablesOK
  BY <1>1, <1>2 DEF TablesOK
<1> QED BY <1>2, <1>3, <1>6, <1>7

\* The table is one that a cursor may begin on.
LEMMA InitValues ==
  ASSUME InitTree, tableId \in Table
  PROVE  /\ TableValues \in [Position -> ValueRange] /\ Kernel!IsSortedTable(TableValues)
         /\ Unset.query \in ValueRange
<1>1. PICK input \in Inputs : entries = [t \in DOMAIN input |-> Sorted(input[t])]
  BY DEF InitTree
<1>2. /\ input \in Seq(Seq(ValueRange))
      /\ \A t \in DOMAIN input : Len(input[t]) = Len(input[1]) /\ input[t] # <<>>
      /\ ValueRange \subseteq Int
  BY BPlusTreeAssumption
<1> DEFINE t == tableId
           n == Len(input[t])
<1>3. /\ t \in DOMAIN input /\ entries[t] = Sorted(input[t]) /\ input[t] \in Seq(ValueRange)
      /\ input[t] # <<>>
  BY <1>1, <1>2 DEF Table
<1>4. TablesOK
  BY InitTables
<1>5. /\ SortedTable(entries[t], n) /\ n \in Nat
      /\ \A i \in 1 .. n : entries[t][i].value \in ValueRange
  BY <1>3, SortedIsSorted
<1>6. NumPoints = n
  <2>1. Len(entries[t]) = NumPoints
    BY <1>4 DEF TablesOK
  <2>2. entries[t] \in [1 .. n -> Entry]
    BY <1>5 DEF SortedTable
  <2> QED BY <1>5, <2>1, <2>2
<1>7. Unset.query \in ValueRange
  <2>1. input[t] # <<>> /\ input[t] \in Seq(ValueRange) /\ Len(input[t]) # 0
    BY <1>3, EmptySeq
  <2>2. input[t][1] \in ValueRange
    BY <2>1, ElementOfSeq, LenProperties
  <2> QED BY <2>2 DEF Unset
<1> HIDE DEF n
<1>8. \A i \in Position : TableValues[i] \in ValueRange
  <2>1. CASE NumPoints = EntryCount
    BY <1>5, <1>6, <2>1 DEF TableValues, Position
  <2>2. CASE NumPoints # EntryCount
    BY <1>7, <2>2 DEF TableValues
  <2> QED BY <2>1, <2>2
<1>9. TableValues \in [Position -> ValueRange]
  BY <1>8 DEF TableValues
<1>10. ASSUME NEW i \in Position, NEW j \in Position, i < j PROVE TableValues[i] <= TableValues[j]
  <2>1. CASE NumPoints = EntryCount
    <3>1. KeyLess(entries[t][i], entries[t][j]) /\ entries[t][i] \in Entry /\ entries[t][j] \in Entry
      BY <1>4, <1>10, <2>1, TableOrder DEF Position
    <3>2. TableValues[i] = entries[t][i].value /\ TableValues[j] = entries[t][j].value
      BY <2>1 DEF TableValues
    <3> QED BY <3>1, <3>2, KeyLessOrder
  <2>2. CASE NumPoints # EntryCount
    <3>1. TableValues[i] = Unset.query /\ TableValues[j] = Unset.query
      BY <2>2 DEF TableValues
    <3> DEFINE v == Unset.query
    <3>2. v \in Int
      BY <1>2, <1>7
    <3> HIDE DEF v
    <3>3. v <= v
      BY <3>2
    <3> QED BY <3>1, <3>3 DEF v
  <2> QED BY <2>1, <2>2
<1> HIDE DEF t
<1>11. Kernel!IsSortedTable(TableValues)
  <2>1. TableValues \in [Position -> Int]
    BY <1>2, <1>9
  <2> QED BY <1>10, <2>1 DEF Kernel!IsSortedTable, Kernel!Position, Position
<1> QED BY <1>7, <1>9, <1>11

\* Reset leaves the cursor over the table that a reset of it leaves.
LEMMA ResetIs ==
  ASSUME NEW P, FollowedAt(P), TreeInv, NEW q \in ValueRange, Reset(q)
  PROVE  /\ Kernel!ResetCursor(TableValues, q) \in Cursors
         /\ cursor' = Concrete(P, Kernel!ResetCursor(TableValues, q))
<1>1. /\ Laid(P) /\ TablesOK /\ tableId \in Table /\ NumPoints = EntryCount
      /\ TreeTypes /\ Accepted /\ Len(roots) = Len(entries) /\ q \in Int /\ EntryCount \in Nat
  BY BPlusTreeAssumption, BPlusTreeCursorAssumption DEF FollowedAt, Followed, TreeInv, TreeTypes
<1>2. PICK lb \in 1 .. EntryCount + 1 :
        /\ \A i \in 1 .. lb - 1 : Value(i) < q
        /\ lb <= EntryCount => Value(lb) >= q
        /\ ResetPlaces(tableId, q) = [left |-> LeftPlace(P, lb - 1), right |-> RightPlace(P, lb)]
  BY <1>1, ResetDivides
<1>3. \A i \in Position : TableValues[i] = Value(i) /\ Value(i) \in Int
  BY <1>1, TableValue, TableOrder DEF Value, Position
<1> DEFINE Divides(p) == /\ \A i \in 1 .. p - 1 : TableValues[i] < q
                         /\ p <= EntryCount => TableValues[p] >= q
<1>4. Divides(lb)
  <2>1. \A i \in 1 .. lb - 1 : i \in Position
    BY <1>1 DEF Position
  <2>2. lb <= EntryCount => lb \in Position
    BY <1>1 DEF Position
  <2> QED BY <1>2, <1>3, <2>1, <2>2
<1>5. ASSUME NEW p \in 1 .. EntryCount + 1, Divides(p) PROVE p = lb
  <2>1. ~(p < lb)
    <3> SUFFICES ASSUME p < lb PROVE FALSE
      OBVIOUS
    <3>1. p \in 1 .. lb - 1 /\ p <= EntryCount /\ p \in Position
      BY <1>1 DEF Position
    <3>2. TableValues[p] < q /\ TableValues[p] >= q /\ TableValues[p] \in Int
      BY <1>3, <1>4, <1>5, <3>1
    <3> QED BY <1>1, <3>2
  <2>2. ~(lb < p)
    <3> SUFFICES ASSUME lb < p PROVE FALSE
      OBVIOUS
    <3>1. lb \in 1 .. p - 1 /\ lb <= EntryCount /\ lb \in Position
      BY <1>1 DEF Position
    <3>2. TableValues[lb] < q /\ TableValues[lb] >= q /\ TableValues[lb] \in Int
      BY <1>3, <1>4, <1>5, <3>1
    <3> QED BY <1>1, <3>2
  <2> QED BY <1>1, <2>1, <2>2
<1>6. Kernel!LowerBound(TableValues, q) = lb
  <2>1. Kernel!LowerBound(TableValues, q) = CHOOSE p \in 1 .. EntryCount + 1 : Divides(p)
    BY DEF Kernel!LowerBound
  <2> HIDE DEF Divides
  <2> QED BY <1>4, <1>5, <2>1
<1> DEFINE b == [query |-> q, left |-> lb - 1, right |-> lb,
                 leftBlocked |-> FALSE, rightBlocked |-> FALSE, lastBound |-> Kernel!Unbounded]
<1>7. Kernel!ResetCursor(TableValues, q) = b
  BY <1>6 DEF Kernel!ResetCursor
<1>8. b \in Cursors
  <2>1. lb - 1 \in 0 .. EntryCount /\ lb - 1 < lb
    BY <1>1
  <2> QED BY <1>1, <2>1 DEF Cursors, Kernel!CursorRecord
<1>9. cursor' = Concrete(P, b)
  <2>1. cursor' = [query |-> q, left |-> LeftPlace(P, lb - 1), right |-> RightPlace(P, lb),
                   leftBlocked |-> FALSE, rightBlocked |-> FALSE, lastBound |-> Kernel!Unbounded]
    BY <1>2 DEF Reset
  <2>2. Concrete(P, b) = [query |-> q, left |-> LeftPlace(P, lb - 1), right |-> RightPlace(P, lb),
                   leftBlocked |-> FALSE, rightBlocked |-> FALSE, lastBound |-> Kernel!Unbounded]
    BY DEF Concrete
  <2> QED BY <2>1, <2>2
<1> QED BY <1>7, <1>8, <1>9

\* BeginScan leaves what shows.
LEMMA BeginScanIs ==
  ASSUME NEW P, FollowedAt(P), NEW V, NEW a, Shows(V, P, a, cursor, scan),
         NEW bound \in Bounds, NEW m \in Quanta, NEW scope \in Kernel!Scopes,
         BeginScan(bound, m, scope)
  PROVE  Shows(V, P, a, cursor', scan')
<1>1. scan = NoScan /\ bound >= cursor.lastBound
  BY DEF BeginScan, CanScan
<1>2. a \in Cursors /\ cursor = Concrete(P, a)
  <2>1. NoScan.phase = "none"
    BY DEF NoScan
  <2>2. scan.phase = "none"
    BY <1>1, <2>1
  <2>3. \A c : scan # Thrown(P, c)
    BY <2>2 DEF Thrown
  <2>4. \A c, i, s, n, b, e : scan # LeftScan(P, a, c, i, s, n, b, e)
    BY <2>2 DEF LeftScan
  <2>5. \A c, i, s, l, lb, r, rb, e : scan # RightScan(P, a, c, i, s, l, lb, r, rb, e)
    BY <2>2 DEF RightScan
  <2> QED BY <2>3, <2>4, <2>5 DEF Shows
<1> DEFINE c == Kernel!ResetBoundedSides(a, bound)
<1>3. bound \in Nat /\ m \in Nat \ {0}
  BY BPlusTreeCursorAssumption
<1>4. c \in Cursors /\ cursor' = Concrete(P, c) /\ Kernel!ResetBoundedSides(cursor, bound) = Concrete(P, c)
  BY <1>2, <1>3, WidenedIsCursor DEF BeginScan
<1>5. cursor.lastBound = a.lastBound
  BY <1>2 DEF Concrete
<1>6. Begun(a, c, m, scope)
  BY <1>1, <1>2, <1>4, <1>5 DEF Begun
<1> HIDE DEF c
<1>7. Walk(V, LeftSide(c, m, scope), 0, c.leftBlocked, FALSE)
  <2> DEFINE s == LeftSide(c, m, scope)
  <2>1. s \in Side
    BY <1>3, <1>4, LeftIsSide
  <2>2. s.blocked = c.leftBlocked
    BY DEF LeftSide
  <2> HIDE DEF s
  <2>3. Walk(V, s, 0, s.blocked, FALSE)
    BY <2>1, WalkBegins
  <2> QED BY <2>2, <2>3 DEF s
<1>8. Reached(c, 0, c.leftBlocked, 0, c.rightBlocked) = c
  <2>1. /\ c = [query |-> c.query, left |-> c.left, right |-> c.right,
                leftBlocked |-> c.leftBlocked, rightBlocked |-> c.rightBlocked,
                lastBound |-> c.lastBound]
        /\ c.left - 0 = c.left /\ c.right + 0 = c.right
    BY <1>4, CursorFields
  <2> QED BY <2>1 DEF Reached
<1>9. Hits(P, c, 0, 0) = <<>>
  <2>1. 1 .. 0 + 0 = {}
    OBVIOUS
  <2> QED BY <2>1 DEF Hits
<1>10. scan' = LeftScan(P, a, c, m, scope, 0, c.leftBlocked, FALSE)
  <2>1. scan' = [phase |-> "left", before |-> Concrete(P, a), local |-> Concrete(P, c),
                 maxEntries |-> m, scope |-> scope, onSide |-> 0, hits |-> <<>>, atLeafEnd |-> FALSE]
    BY <1>2, <1>4 DEF BeginScan
  <2> QED BY <1>8, <1>9, <2>1 DEF LeftScan
<1> QED BY <1>2, <1>4, <1>6, <1>7, <1>10 DEF Shows, LeftTaken

\* What a state that shows as a is in each phase of its scan.
LEMMA ShowsByPhase ==
  ASSUME NEW V, NEW P, NEW a, NEW cur, NEW sc, Shows(V, P, a, cur, sc)
  PROVE  /\ a \in Cursors
         /\ sc.phase = "left" =>
              \E c, m, scope, n, b, e :
                /\ Begun(a, c, m, scope) /\ cur = Concrete(P, c)
                /\ LeftTaken(V, c, m, scope, n, b, e)
                /\ sc = LeftScan(P, a, c, m, scope, n, b, e)
         /\ sc.phase = "right" =>
              \E c, m, scope, l, lb, r, rb, e :
                /\ Begun(a, c, m, scope) /\ cur = Concrete(P, c)
                /\ RightTaken(V, c, m, scope, l, lb, r, rb, e)
                /\ sc = RightScan(P, a, c, m, scope, l, lb, r, rb, e)
         /\ sc.phase \in {"none", "thrown", "left", "right"}
         /\ sc = NoScan => cur = Concrete(P, a)
         /\ sc.phase \in {"left", "right"} => sc.before = Concrete(P, a)
<1>1. /\ NoScan.phase = "none" /\ (\A c : Thrown(P, c).phase = "thrown")
      /\ \A c, i, s, n, b, e : LeftScan(P, a, c, i, s, n, b, e).phase = "left"
                               /\ LeftScan(P, a, c, i, s, n, b, e).before = Concrete(P, a)
      /\ \A c, i, s, l, lb, r, rb, e : RightScan(P, a, c, i, s, l, lb, r, rb, e).phase = "right"
                               /\ RightScan(P, a, c, i, s, l, lb, r, rb, e).before = Concrete(P, a)
  BY DEF NoScan, Thrown, LeftScan, RightScan
<1>2. CASE sc = NoScan /\ cur = Concrete(P, a)
  BY <1>1, <1>2 DEF Shows
<1>3. CASE \E c \in Cursors : sc = Thrown(P, a) /\ cur = Concrete(P, c)
  BY <1>1, <1>3 DEF Shows
<1>4. ASSUME NEW c, NEW m, NEW scope, Begun(a, c, m, scope), cur = Concrete(P, c),
             NEW n, NEW b, NEW e, LeftTaken(V, c, m, scope, n, b, e),
             sc = LeftScan(P, a, c, m, scope, n, b, e)
      PROVE  sc.phase = "left" /\ sc.before = Concrete(P, a) /\ sc # NoScan
  BY <1>1, <1>4
<1>5. ASSUME NEW c, NEW m, NEW scope, Begun(a, c, m, scope), cur = Concrete(P, c),
             NEW l, NEW lb, NEW r, NEW rb, NEW e, RightTaken(V, c, m, scope, l, lb, r, rb, e),
             sc = RightScan(P, a, c, m, scope, l, lb, r, rb, e)
      PROVE  sc.phase = "right" /\ sc.before = Concrete(P, a) /\ sc # NoScan
  BY <1>1, <1>5
<1>6. CASE \E c, m, scope : /\ Begun(a, c, m, scope) /\ cur = Concrete(P, c)
                            /\ \E n, b, e : /\ LeftTaken(V, c, m, scope, n, b, e)
                                            /\ sc = LeftScan(P, a, c, m, scope, n, b, e)
  BY <1>4, <1>6 DEF Shows
<1>7. CASE \E c, m, scope : /\ Begun(a, c, m, scope) /\ cur = Concrete(P, c)
                            /\ \E l, lb, r, rb, e :
                                 /\ RightTaken(V, c, m, scope, l, lb, r, rb, e)
                                 /\ sc = RightScan(P, a, c, m, scope, l, lb, r, rb, e)
  BY <1>5, <1>7 DEF Shows
<1> QED BY <1>2, <1>3, <1>6, <1>7 DEF Shows

\* TurnRight begins the right side once the left one is walked.
LEMMA TurnRightIs ==
  ASSUME NEW P, FollowedAt(P), NEW a, NEW c, NEW m, NEW scope, Begun(a, c, m, scope),
         NEW n, NEW blocked, NEW atEnd,
         LeftTaken(TableValues, c, m, scope, n, blocked, atEnd),
         scan = LeftScan(P, a, c, m, scope, n, blocked, atEnd),
         TurnRight
  PROVE  /\ RightTaken(TableValues, c, m, scope, n, blocked, 0, c.rightBlocked, FALSE)
         /\ scan' = RightScan(P, a, c, m, scope, n, blocked, 0, c.rightBlocked, FALSE)
<1> DEFINE V == TableValues
           s == LeftSide(c, m, scope)
           limit == Kernel!LeftLimit(m, scope)
<1>1. a \in Cursors /\ c \in Cursors /\ m \in Nat \ {0} /\ scope \in Kernel!Scopes
  BY BegunTypes
<1>2. c.left \in 0 .. EntryCount /\ EntryCount \in Nat /\ limit \in Nat \ {0} /\ s \in Side
  BY <1>1, CursorFields, LeftIsSide
<1>3. s.whole = c.left /\ s.limit = limit
  BY DEF LeftSide
<1>4. ~GoesOn(s, n, blocked, atEnd) /\ Walk(V, s, n, blocked, atEnd)
  BY LeftGoesOnIs DEF TurnRight, LeftTaken
<1>5. /\ n = Kernel!LeftCount(V, c, limit, scope)
      /\ blocked = (c.leftBlocked
                      \/ (Kernel!LeftActive(c) /\ n < Kernel!LeftOffer(c, limit, scope)))
  BY <1>1, <1>4, LeftWalked
<1> HIDE DEF s
<1>6. n \in 0 .. c.left /\ n <= limit /\ blocked \in BOOLEAN
  <2>1. n \in 0 .. c.left /\ blocked \in BOOLEAN
    BY <1>3, <1>4 DEF Walk
  <2>2. n > 0 => n <= limit
    <3>1. Offer(s) = SmallerOf(s.limit, IF s.scope = "range" THEN s.region ELSE s.whole)
      BY DEF Offer, Kernel!Available, Kernel!SmallerOf, SmallerOf
    <3>2. s.region \in Int /\ s.whole \in Int
      BY <1>2 DEF Side
    <3>3. Offer(s) \in Int /\ Offer(s) <= limit
      BY <1>2, <1>3, <3>1, <3>2 DEF SmallerOf
    <3>4. n > 0 => n <= Offer(s)
      BY <1>4 DEF Walk
    <3> QED BY <1>2, <2>1, <3>3, <3>4
  <2> QED BY <1>2, <2>1, <2>2
<1>7. Walk(V, RightSide(c, m, scope, n), 0, c.rightBlocked, FALSE)
  <2> DEFINE x == RightSide(c, m, scope, n)
  <2>1. n \in Nat
    BY <1>2, <1>6
  <2>2. x \in Side
    BY <1>1, <1>6, <2>1, RightIsSide
  <2>3. x.blocked = c.rightBlocked
    BY DEF RightSide
  <2> HIDE DEF x
  <2>4. Walk(V, x, 0, x.blocked, FALSE)
    BY <2>2, WalkBegins
  <2> QED BY <2>3, <2>4 DEF x
<1>8. RightTaken(V, c, m, scope, n, blocked, 0, c.rightBlocked, FALSE)
  BY <1>5, <1>6, <1>7 DEF RightTaken
<1>9. scan' = RightScan(P, a, c, m, scope, n, blocked, 0, c.rightBlocked, FALSE)
  <2> DEFINE f == Concrete(P, a)
             x == Concrete(P, Reached(c, n, blocked, 0, c.rightBlocked))
             g == Hits(P, c, n, 0)
  <2>1. scan = [phase |-> "left", before |-> f, local |-> x, maxEntries |-> m, scope |-> scope,
                onSide |-> n, hits |-> g, atLeafEnd |-> atEnd]
    BY DEF LeftScan
  <2>2. scan' = [scan EXCEPT !.phase = "right", !.onSide = 0, !.atLeafEnd = FALSE]
    BY DEF TurnRight
  <2>3. RightScan(P, a, c, m, scope, n, blocked, 0, c.rightBlocked, FALSE)
          = [phase |-> "right", before |-> f, local |-> x, maxEntries |-> m, scope |-> scope,
             onSide |-> 0, hits |-> g, atLeafEnd |-> FALSE]
    BY DEF RightScan
  <2> HIDE DEF f, x, g
  <2>4. scan' = [phase |-> "right", before |-> f, local |-> x, maxEntries |-> m, scope |-> scope,
                 onSide |-> 0, hits |-> g, atLeafEnd |-> FALSE]
    BY ONLY <2>1, <2>2
  <2> QED BY <2>3, <2>4
<1> QED BY <1>8, <1>9

\* What EndScan leaves of a scan of the cursor a: the cursor, the visits and the
\* report of the one step the table's scan takes.
Ended(P, a, c, bound, m, scope, l, lb, r, rb) ==
    LET e == Reached(c, l, lb, r, rb)
        out == Kernel!OutwardPositions(c.left, l, c.right, r)
    IN  /\ e \in Cursors /\ cursor' = Concrete(P, e)
        /\ Kernel!ScanCursor(TableValues, a, bound, m, scope)
             = [cursor |-> e, hits |-> out,
                windowExhausted |-> Kernel!WindowExhausted(e),
                tableExhausted |-> Kernel!TableExhausted(e)]
        /\ delivered' = [k \in Position |->
                           delivered[k] + IF \E j \in DOMAIN out : out[j] = k THEN 1 ELSE 0]
        /\ report' = [kind |-> "scan", maxEntries |-> m, scope |-> scope, visited |-> Len(out),
                      windowExhausted |-> Kernel!WindowExhausted(e),
                      tableExhausted |-> Kernel!TableExhausted(e)]

\* Both sides walked, EndScan leaves what one scan of the table leaves.
LEMMA EndScanIs ==
  ASSUME NEW P, FollowedAt(P), NEW a, NEW c, NEW m, NEW scope, Begun(a, c, m, scope),
         NEW l, NEW lb, NEW r, NEW rb, NEW atEnd,
         RightTaken(TableValues, c, m, scope, l, lb, r, rb, atEnd),
         scan = RightScan(P, a, c, m, scope, l, lb, r, rb, atEnd),
         EndScan,
         NEW bound, c = Kernel!ResetBoundedSides(a, bound)
  PROVE  Ended(P, a, c, bound, m, scope, l, lb, r, rb)
<1> DEFINE V == TableValues
           s == RightSide(c, m, scope, l)
           limit == Kernel!LeftLimit(m, scope)
           rest == Kernel!RightLimit(m, scope, l)
           e == Reached(c, l, lb, r, rb)
           out == Kernel!OutwardPositions(c.left, l, c.right, r)
           hits == Hits(P, c, l, r)
<1>1. a \in Cursors /\ c \in Cursors /\ m \in Nat \ {0} /\ scope \in Kernel!Scopes
  BY BegunTypes
<1>2. /\ l \in 0 .. c.left /\ l \in Nat /\ r \in 0 .. EntryCount - c.right + 1 /\ r \in Nat
      /\ lb \in BOOLEAN /\ rb \in BOOLEAN /\ Len(scan.hits) = l + r /\ e \in Cursors
  BY RightLimitIs
<1>3. /\ l <= limit /\ l = Kernel!LeftCount(V, c, limit, scope)
      /\ lb = (c.leftBlocked \/ (Kernel!LeftActive(c) /\ l < Kernel!LeftOffer(c, limit, scope)))
      /\ Walk(V, s, r, rb, atEnd)
  BY DEF RightTaken
<1>4. ~GoesOn(s, r, rb, atEnd)
  BY RightGoesOnIs DEF EndScan
<1>5. /\ r = Kernel!RightCount(V, c, rest, scope)
      /\ rb = (c.rightBlocked \/ (Kernel!RightActive(c) /\ r < Kernel!RightOffer(c, rest, scope)))
  BY <1>1, <1>2, <1>3, <1>4, RightWalked
<1>6. Kernel!ScanCursor(V, a, bound, m, scope)
        = [cursor |-> e, hits |-> out, windowExhausted |-> Kernel!WindowExhausted(e),
           tableExhausted |-> Kernel!TableExhausted(e)]
  BY <1>1, <1>3, <1>5, ScanIsBothSides
<1>7. /\ scan.phase = "right" /\ scan.maxEntries = m /\ scan.scope = scope /\ scan.hits = hits
      /\ scan.local = Concrete(P, e)
  BY DEF RightScan
<1>8. cursor' = Concrete(P, e)
  BY <1>7 DEF EndScan
<1> HIDE DEF s, limit, rest, V
<1>9. delivered' = [i \in Position |-> delivered[i] + IF \E j \in DOMAIN out : out[j] = i THEN 1 ELSE 0]
  <2>1. delivered' = [i \in Position |->
                        delivered[i] + Cardinality({j \in DOMAIN hits : PositionOf(hits[j]) = i})]
    BY <1>7 DEF EndScan
  <2>2. ASSUME NEW i \in Position
        PROVE  Cardinality({j \in DOMAIN hits : PositionOf(hits[j]) = i})
                 = IF \E j \in DOMAIN out : out[j] = i THEN 1 ELSE 0
    <3>1. Within(c, l, r)
      BY <1>2 DEF Within
    <3>2. LET f == Hits(P, c, l, r)
              g == Kernel!OutwardPositions(c.left, l, c.right, r)
          IN  Cardinality({j \in DOMAIN f : PositionOf(f[j]) = i})
                = IF \E j \in DOMAIN g : g[j] = i THEN 1 ELSE 0
      BY ONLY <1>1, <3>1, FollowedAt(P), i \in Position, HitsCount
    <3> QED BY <3>2
  <2> HIDE DEF hits, out
  <2> QED BY <2>1, <2>2
<1>10. Len(out) = l + r
  <2>1. /\ c.left \in Int /\ c.right \in Int
    BY <1>1, CursorFields
  <2> DEFINE n == l + r
  <2>2. n \in Nat /\ out \in [1 .. n -> Int]
    BY <1>2, <2>1 DEF Kernel!OutwardPositions
  <2> HIDE DEF out, n
  <2>3. Len(out) = n
    BY <2>2
  <2> QED BY <2>3 DEF n
<1>11. /\ Concrete(P, e).left = NoPlace <=> e.left = 0
       /\ Concrete(P, e).right = NoPlace <=> e.right = EntryCount + 1
  BY <1>2, CursorShows
<1>12. Concrete(P, e).leftBlocked = e.leftBlocked /\ Concrete(P, e).rightBlocked = e.rightBlocked
  BY DEF Concrete
<1>13. report' = [kind |-> "scan", maxEntries |-> m, scope |-> scope, visited |-> Len(out),
                  windowExhausted |-> Kernel!WindowExhausted(e),
                  tableExhausted |-> Kernel!TableExhausted(e)]
  <2> DEFINE d == Concrete(P, e)
             w == /\ d.left = NoPlace \/ d.leftBlocked
                  /\ d.right = NoPlace \/ d.rightBlocked
             t == d.left = NoPlace /\ d.right = NoPlace
  <2>1. report' = [kind |-> "scan", maxEntries |-> m, scope |-> scope, visited |-> Len(scan.hits),
                   windowExhausted |-> w, tableExhausted |-> t]
    BY <1>7 DEF EndScan
  <2>2. w = Kernel!WindowExhausted(e) /\ t = Kernel!TableExhausted(e)
    BY <1>11, <1>12 DEF Kernel!WindowExhausted, Kernel!TableExhausted
  <2> HIDE DEF w, t, e, out
  <2> QED BY <1>2, <1>10, <2>1, <2>2
<1> HIDE DEF hits
<1> QED BY <1>2, <1>6, <1>8, <1>9, <1>13 DEF V, Ended

\* Between the steps: the tree is as built, and the cursor, where there is one,
\* shows as one over the table.
CursorInv ==
    /\ TreeInv /\ BuildInv
    /\ tableId \in Table
    /\ pc = "open" /\ Followed => \E P : Laid(P)
    /\ \/ cursor = Unset /\ scan = NoScan
       \/ \E P, a : FollowedAt(P) /\ Shows(TableValues, P, a, cursor, scan)

\* No file is written yet: the abstract cursor is a fresh one.
LEMMA CursorInit ==
  ASSUME Init
  PROVE  CursorInv /\ Projection!Init
<1>1. InitTree /\ pc = "leaves" /\ tableId \in Table /\ cursor = Unset /\ scan = NoScan
  BY DEF Init, InitTree
<1>2. TreeInv /\ BuildInv
  BY <1>1, TypesInit, BuiltInit DEF TreeInv, BuildInv
<1>3. CursorInv
  BY <1>1, <1>2 DEF CursorInv
<1>4. /\ TableValues \in [Position -> ValueRange] /\ Kernel!IsSortedTable(TableValues)
      /\ Unset.query \in ValueRange
  BY <1>1, InitValues
<1>5. Projection!Position = Position
  BY SameKernel
<1>6. Projection!IsSortedTable(TableValues)
  BY <1>4 DEF Projection!IsSortedTable, Kernel!IsSortedTable, Projection!Position, Kernel!Position
<1>7. \E q \in ValueRange : SettledCursor = Projection!ResetCursor(TableValues, q)
  <2>1. SettledCursor = Kernel!ResetCursor(TableValues, Unset.query)
    BY <1>1 DEF SettledCursor
  <2>2. Kernel!ResetCursor(TableValues, Unset.query) = Projection!ResetCursor(TableValues, Unset.query)
    BY SameKernel
  <2> QED BY <1>4, <2>1, <2>2
<1>8. delivered = [i \in Position |-> 0] /\ report = Projection!NoReport
  BY DEF Init
<1> QED BY <1>3, <1>4, <1>5, <1>6, <1>7, <1>8 DEF Projection!Init

\* The steps that write and open the file show as none.
LEMMA TreeStepShows ==
  ASSUME CursorInv, NextTree, UNCHANGED cursorVars
  PROVE  CursorInv' /\ UNCHANGED Projection!vars
<1>1. /\ tableId' = tableId /\ cursor' = cursor /\ scan' = scan
      /\ delivered' = delivered /\ report' = report
  BY DEF cursorVars
<1>2. pc # "open" /\ entries' = entries /\ (pc' = "open" => Open)
  BY DEF NextTree, AddLeaf, AddLevel, AddRoot, Damage, Open
<1>3. cursor = Unset /\ scan = NoScan
  BY <1>2 DEF CursorInv, FollowedAt
<1>4. TreeInv' /\ BuildInv'
  BY TreeStep, BuildStep DEF CursorInv
<1>5. NumPoints' = NumPoints /\ Table' = Table /\ TableValues' = TableValues
  BY <1>1, <1>2 DEF NumPoints, Table, TableValues
<1>6. SettledCursor' = SettledCursor
  <2>1. cursor' = Unset /\ cursor = Unset
    BY <1>1, <1>3
  <2> QED BY <1>5, <2>1, SettledIs DEF Settled
<1>7. pc' = "open" /\ Followed' => (\E P : Laid(P))'
  <2> SUFFICES ASSUME pc' = "open", Followed' PROVE (\E P : Laid(P))'
    OBVIOUS
  <2>1. /\ pc = "written" /\ damages' = damages
        /\ UNCHANGED <<entries, pages, roots, tableId>>
    BY <1>1, <1>2 DEF Open
  <2>2. damages = 0 /\ NumPoints = EntryCount
    BY <1>5, <2>1 DEF Followed
  <2>3. PICK G, base, cnt : Built(G, base, cnt)
    BY <2>1, <2>2 DEF CursorInv, BuildInv
  <2>4. Complete(G, base, cnt)
    BY <2>1, <2>3 DEF CursorInv, BuildInv, Complete
  <2>5. PICK P : Laid(P)
    BY <2>2, <2>4, BuiltIsLaid DEF CursorInv
  <2>6. Laid(P)'
    BY <2>1, <2>5, SameLayout
  <2> QED BY <2>6
<1>8. tableId' \in Table'
  BY <1>1, <1>5 DEF CursorInv
<1>9. cursor' = Unset /\ scan' = NoScan
  BY <1>1, <1>3
<1>10. CursorInv'
  BY <1>4, <1>7, <1>8, <1>9 DEF CursorInv
<1>11. UNCHANGED Projection!vars
  BY <1>1, <1>5, <1>6 DEF Projection!vars
<1> QED BY <1>10, <1>11

\* A step of the cursor that shows as a cursor b keeps the invariant.
LEMMA StillShows ==
  ASSUME CursorInv, UNCHANGED <<treeVars, tableId>>, NEW P, FollowedAt(P),
         NEW b, Shows(TableValues, P, b, cursor', scan')
  PROVE  /\ CursorInv' /\ SettledCursor' = b /\ TableValues' = TableValues
<1>1. /\ entries' = entries /\ pages' = pages /\ roots' = roots /\ tableId' = tableId
      /\ pc' = pc /\ damages' = damages /\ UNCHANGED treeVars
  BY DEF treeVars
<1>2. /\ TableValues' = TableValues /\ Table' = Table /\ NumPoints' = NumPoints
      /\ (TablesOK' <=> TablesOK)
      /\ \A Q : Laid(Q)' <=> Laid(Q)
  BY <1>1, SameLayout
<1>3. TreeInv' /\ BuildInv'
  BY <1>1, TreeStutter, BuildStutter DEF CursorInv
<1>4. FollowedAt(P)'
  BY <1>1, <1>2 DEF FollowedAt, Followed
<1>5. Shows(TableValues, P, b, cursor, scan)'
  <2> DEFINE V == TableValues
  <2>1. Shows(TableValues', P, b, cursor', scan')
    BY <1>2
  <2> QED BY <2>1
<1>6. (\E Q : Laid(Q))'
  BY <1>4 DEF FollowedAt
<1>7. tableId' \in Table'
  BY <1>1, <1>2 DEF CursorInv
<1>8. (\E Q, a : FollowedAt(Q) /\ Shows(TableValues, Q, a, cursor, scan))'
  BY <1>4, <1>5
<1>9. CursorInv'
  BY <1>3, <1>6, <1>7, <1>8 DEF CursorInv
<1>10. SettledCursor' = b
  <2>1. SettledCursor' = Settled(TableValues, entries, pages, tableId, cursor', scan')
    BY <1>1, <1>2, SettledIs
  <2> QED BY <2>1, SettledShows
<1> QED BY <1>2, <1>9, <1>10

\* Reset shows as a reset.
LEMMA ResetShows ==
  ASSUME CursorInv, NEW q \in ValueRange, Reset(q)
  PROVE  CursorInv' /\ Projection!Next
<1>1. /\ pc = "open" /\ Followed /\ scan' = NoScan /\ UNCHANGED <<treeVars, tableId>>
      /\ delivered' = [i \in Position |-> 0] /\ report' = Projection!NoReport
  BY DEF Reset
<1>2. PICK P : Laid(P)
  BY <1>1 DEF CursorInv
<1>3. FollowedAt(P)
  BY <1>1, <1>2 DEF CursorInv, TreeInv, TreeTypes, FollowedAt
<1> DEFINE b == Kernel!ResetCursor(TableValues, q)
<1>4. b \in Cursors /\ cursor' = Concrete(P, b)
  BY <1>3, ResetIs DEF CursorInv
<1>5. b = Projection!ResetCursor(TableValues, q) /\ Projection!Position = Position
  BY SameKernel
<1> HIDE DEF b
<1>6. Shows(TableValues, P, b, cursor', scan')
  BY <1>1, <1>4 DEF Shows
<1>7. CursorInv' /\ SettledCursor' = b /\ TableValues' = TableValues
  BY <1>1, <1>3, <1>6, StillShows
<1>8. Projection!Reset(q)
  BY <1>1, <1>5, <1>7 DEF Projection!Reset
<1> QED BY <1>7, <1>8 DEF Projection!Next

\* The steps of a scan before it ends change nothing that shows.
LEMMA ScanStepShows ==
  ASSUME CursorInv,
         \/ \E bound \in Bounds, maxEntries \in Quanta, scope \in Kernel!Scopes :
              BeginScan(bound, maxEntries, scope)
         \/ LeftRange \/ TurnRight \/ RightRange \/ VisitorThrows
  PROVE  CursorInv' /\ UNCHANGED Projection!vars
<1>1. /\ UNCHANGED <<treeVars, tableId, delivered, report>>
      /\ ~(cursor = Unset /\ scan = NoScan)
  <2>1. NoScan.phase = "none"
    BY DEF NoScan
  <2> QED BY <2>1 DEF BeginScan, CanScan, LeftRange, TurnRight, RightRange, VisitorThrows,
                 LeftGoesOn, RightGoesOn, InFlight
<1>2. PICK P, a : FollowedAt(P) /\ Shows(TableValues, P, a, cursor, scan)
  BY <1>1 DEF CursorInv
<1>3. a \in Cursors
  BY <1>2 DEF Shows
<1>4. Shows(TableValues, P, a, cursor', scan')
  <2>1. ASSUME NEW bound \in Bounds, NEW m \in Quanta, NEW scope \in Kernel!Scopes,
               BeginScan(bound, m, scope)
        PROVE  Shows(TableValues, P, a, cursor', scan')
    BY <1>2, <2>1, BeginScanIs
  <2>2. CASE LeftRange
    <3>1. scan.phase = "left" /\ cursor' = cursor
      BY <2>2 DEF LeftRange, LeftGoesOn, InFlight
    <3>2. PICK c, m, scope, n, b, e :
            /\ Begun(a, c, m, scope) /\ cursor = Concrete(P, c)
            /\ LeftTaken(TableValues, c, m, scope, n, b, e)
            /\ scan = LeftScan(P, a, c, m, scope, n, b, e)
      BY <1>2, <3>1, ShowsByPhase
    <3>3. \E k, x, y : /\ LeftTaken(TableValues, c, m, scope, k, x, y)
                       /\ scan' = LeftScan(P, a, c, m, scope, k, x, y)
      BY <1>2, <2>2, <3>2, LeftRangeIs
    <3> QED BY <1>3, <3>1, <3>2, <3>3 DEF Shows
  <2>3. CASE TurnRight
    <3>1. scan.phase = "left" /\ cursor' = cursor
      BY <2>3 DEF TurnRight, InFlight
    <3>2. PICK c, m, scope, n, b, e :
            /\ Begun(a, c, m, scope) /\ cursor = Concrete(P, c)
            /\ LeftTaken(TableValues, c, m, scope, n, b, e)
            /\ scan = LeftScan(P, a, c, m, scope, n, b, e)
      BY <1>2, <3>1, ShowsByPhase
    <3>3. /\ RightTaken(TableValues, c, m, scope, n, b, 0, c.rightBlocked, FALSE)
          /\ scan' = RightScan(P, a, c, m, scope, n, b, 0, c.rightBlocked, FALSE)
      BY <1>2, <2>3, <3>2, TurnRightIs
    <3> QED BY <1>3, <3>1, <3>2, <3>3 DEF Shows
  <2>4. CASE RightRange
    <3>1. scan.phase = "right" /\ cursor' = cursor
      BY <2>4 DEF RightRange, RightGoesOn, InFlight
    <3>2. PICK c, m, scope, l, lb, r, rb, e :
            /\ Begun(a, c, m, scope) /\ cursor = Concrete(P, c)
            /\ RightTaken(TableValues, c, m, scope, l, lb, r, rb, e)
            /\ scan = RightScan(P, a, c, m, scope, l, lb, r, rb, e)
      BY <1>2, <3>1, ShowsByPhase
    <3>3. \E k, x, y : /\ RightTaken(TableValues, c, m, scope, l, lb, k, x, y)
                       /\ scan' = RightScan(P, a, c, m, scope, l, lb, k, x, y)
      BY <1>2, <2>4, <3>2, RightRangeIs
    <3> QED BY <1>3, <3>1, <3>2, <3>3 DEF Shows
  <2>5. CASE VisitorThrows
    <3>1. /\ scan.phase \in {"left", "right"} /\ cursor' = cursor
          /\ scan' = [phase |-> "thrown", before |-> scan.before]
      BY <2>5 DEF VisitorThrows, LeftGoesOn, RightGoesOn, InFlight
    <3>2. scan.before = Concrete(P, a)
      BY <1>2, <3>1, ShowsByPhase
    <3>3. PICK c, m, scope : Begun(a, c, m, scope) /\ cursor = Concrete(P, c)
      <4>1. CASE scan.phase = "left"
        BY <1>2, <4>1, ShowsByPhase
      <4>2. CASE scan.phase = "right"
        BY <1>2, <4>2, ShowsByPhase
      <4> QED BY <3>1, <4>1, <4>2
    <3>4. c \in Cursors /\ cursor' = Concrete(P, c)
      BY <3>1, <3>3 DEF Begun
    <3>5. scan' = Thrown(P, a)
      BY <3>1, <3>2 DEF Thrown
    <3> QED BY <1>3, <3>4, <3>5 DEF Shows
  <2> QED BY <2>1, <2>2, <2>3, <2>4, <2>5
<1>5. CursorInv' /\ SettledCursor' = a /\ TableValues' = TableValues
  BY <1>1, <1>2, <1>4, StillShows
<1>6. SettledCursor = a
  BY <1>2, SettledIs, SettledShows
<1> QED BY <1>1, <1>5, <1>6 DEF Projection!vars

\* A scan within a bound already passed is rejected, in both.
LEMMA ScanRejectedShows ==
  ASSUME CursorInv, NEW bound \in Bounds, ScanRejected(bound)
  PROVE  CursorInv' /\ Projection!Next
<1>1. /\ cursor # Unset /\ scan = NoScan /\ bound < cursor.lastBound
      /\ report' = Projection!Rejected /\ UNCHANGED <<treeVars, tableId, cursor, scan, delivered>>
  BY DEF ScanRejected, CanScan
<1>2. PICK P, a : FollowedAt(P) /\ Shows(TableValues, P, a, cursor, scan)
  BY <1>1 DEF CursorInv
<1>3. Shows(TableValues, P, a, cursor', scan')
  BY <1>1, <1>2
<1>4. CursorInv' /\ SettledCursor' = a /\ TableValues' = TableValues
  BY <1>1, <1>2, <1>3, StillShows
<1>5. SettledCursor = a
  BY <1>2, SettledIs, SettledShows
<1>6. cursor.lastBound = a.lastBound
  <2>1. cursor = Concrete(P, a)
    BY <1>1, <1>2, ShowsByPhase
  <2> QED BY <2>1 DEF Concrete
<1>7. Projection!ScanRejected(bound)
  BY <1>1, <1>4, <1>5, <1>6 DEF Projection!ScanRejected
<1> QED BY <1>4, <1>7 DEF Projection!Next

\* EndScan shows as the whole scan.
LEMMA EndScanShows ==
  ASSUME CursorInv, EndScan
  PROVE  CursorInv' /\ Projection!Next
<1>1. scan.phase = "right" /\ scan' = NoScan /\ UNCHANGED <<treeVars, tableId>>
  BY DEF EndScan, InFlight
<1>2. scan # NoScan
  BY <1>1 DEF NoScan
<1>3. PICK P, a : FollowedAt(P) /\ Shows(TableValues, P, a, cursor, scan)
  BY <1>2 DEF CursorInv
<1>4. PICK c, m, scope, l, lb, r, rb, atEnd :
        /\ Begun(a, c, m, scope) /\ cursor = Concrete(P, c)
        /\ RightTaken(TableValues, c, m, scope, l, lb, r, rb, atEnd)
        /\ scan = RightScan(P, a, c, m, scope, l, lb, r, rb, atEnd)
  BY <1>1, <1>3, ShowsByPhase
<1>5. PICK bound \in Bounds : bound >= a.lastBound /\ c = Kernel!ResetBoundedSides(a, bound)
  BY <1>4 DEF Begun
<1> DEFINE e == Reached(c, l, lb, r, rb)
           out == Kernel!OutwardPositions(c.left, l, c.right, r)
           w == Kernel!WindowExhausted(e)
           t == Kernel!TableExhausted(e)
           result == Kernel!ScanCursor(TableValues, a, bound, m, scope)
<1>6. /\ e \in Cursors /\ cursor' = Concrete(P, e)
      /\ result = [cursor |-> e, hits |-> out, windowExhausted |-> w, tableExhausted |-> t]
      /\ delivered' = [i \in Position |->
                         delivered[i] + IF \E j \in DOMAIN out : out[j] = i THEN 1 ELSE 0]
      /\ report' = [kind |-> "scan", maxEntries |-> m, scope |-> scope, visited |-> Len(out),
                    windowExhausted |-> w, tableExhausted |-> t]
  <2>1. Ended(P, a, c, bound, m, scope, l, lb, r, rb)
    BY ONLY <1>3, <1>4, <1>5, EndScan, EndScanIs
  <2> QED BY ONLY <2>1 DEF Ended
<1>7. /\ m \in Quanta /\ scope \in Projection!Scopes /\ Projection!Position = Position
      /\ Projection!ScanCursor(TableValues, a, bound, m, scope) = result
  BY <1>4, SameKernel DEF Begun
<1> HIDE DEF e, out, w, t, result
<1>8. Shows(TableValues, P, e, cursor', scan')
  BY <1>1, <1>6 DEF Shows
<1>9. CursorInv' /\ SettledCursor' = e /\ TableValues' = TableValues
  BY <1>1, <1>3, <1>8, StillShows
<1>10. SettledCursor = a
  BY <1>3, SettledIs, SettledShows
<1>11. Projection!Scan(bound, m, scope)
  <2>1. /\ result.cursor = e /\ result.hits = out
        /\ result.windowExhausted = w /\ result.tableExhausted = t
    BY <1>6
  <2>2. Projection!ScanCursor(TableValues, SettledCursor, bound, m, scope) = result
    BY <1>7, <1>10
  <2> QED BY <1>5, <1>6, <1>7, <1>9, <1>10, <2>1, <2>2 DEF Projection!Scan
<1> QED BY <1>7, <1>9, <1>11 DEF Projection!Next

\* A step that changes nothing shows as none.
LEMMA CursorStutter ==
  ASSUME CursorInv, UNCHANGED vars
  PROVE  CursorInv' /\ UNCHANGED Projection!vars
<1>1. UNCHANGED <<treeVars, tableId, cursor, scan, delivered, report>>
  BY DEF vars, cursorVars
<1>2. CASE cursor = Unset /\ scan = NoScan
  <2>1. TreeInv' /\ BuildInv' /\ entries' = entries /\ pages' = pages /\ roots' = roots
        /\ pc' = pc /\ damages' = damages
    BY <1>1, TreeStutter, BuildStutter DEF CursorInv, treeVars
  <2>2. /\ TableValues' = TableValues /\ Table' = Table /\ NumPoints' = NumPoints
        /\ \A Q : Laid(Q)' <=> Laid(Q)
    BY <1>1, <2>1, SameLayout
  <2>3. pc' = "open" /\ Followed' => (\E P : Laid(P))'
    <3>1. Followed' <=> Followed
      BY <2>1, <2>2 DEF Followed
    <3> QED BY <2>1, <2>2, <3>1 DEF CursorInv
  <2>4. tableId' \in Table' /\ cursor' = Unset /\ scan' = NoScan
    BY <1>1, <1>2, <2>2 DEF CursorInv
  <2>5. CursorInv'
    BY <2>1, <2>3, <2>4 DEF CursorInv
  <2>6. SettledCursor' = SettledCursor
    BY <1>2, <2>2, <2>4, SettledIs DEF Settled
  <2> QED BY <1>1, <2>2, <2>5, <2>6 DEF Projection!vars
<1>3. CASE ~(cursor = Unset /\ scan = NoScan)
  <2>1. PICK P, a : FollowedAt(P) /\ Shows(TableValues, P, a, cursor, scan)
    BY <1>3 DEF CursorInv
  <2>2. Shows(TableValues, P, a, cursor', scan')
    BY <1>1, <2>1
  <2>3. CursorInv' /\ SettledCursor' = a /\ TableValues' = TableValues
    BY <1>1, <2>1, <2>2, StillShows
  <2>4. SettledCursor = a
    BY <2>1, SettledIs, SettledShows
  <2> QED BY <1>1, <2>3, <2>4 DEF Projection!vars
<1> QED BY <1>2, <1>3

\* Built page by page, descended level by level, scanned leaf by leaf and
\* interrupted by a visitor that throws, the tree is a cursor over one sorted
\* table: a scan, whatever it is cut into, shows as one step when it ends.
THEOREM ImplementsProjectionCursorProved == Spec => ImplementsProjectionCursor
<1>1. Init => CursorInv /\ Projection!Init
  BY CursorInit
<1>2. CursorInv /\ [Next]_vars => CursorInv' /\ [Projection!Next]_(Projection!vars)
  <2> SUFFICES ASSUME CursorInv, [Next]_vars
               PROVE  CursorInv' /\ [Projection!Next]_(Projection!vars)
    OBVIOUS
  <2>1. CASE NextTree /\ UNCHANGED cursorVars
    BY <2>1, TreeStepShows
  <2>2. CASE \E q \in ValueRange : Reset(q)
    BY <2>2, ResetShows
  <2>3. CASE \/ \E bound \in Bounds, maxEntries \in Quanta, scope \in Kernel!Scopes :
                  BeginScan(bound, maxEntries, scope)
             \/ LeftRange \/ TurnRight \/ RightRange \/ VisitorThrows
    BY <2>3, ScanStepShows
  <2>4. CASE \E bound \in Bounds : ScanRejected(bound)
    BY <2>4, ScanRejectedShows
  <2>5. CASE EndScan
    BY <2>5, EndScanShows
  <2>6. CASE UNCHANGED vars
    BY <2>6, CursorStutter
  <2> QED BY <2>1, <2>2, <2>3, <2>4, <2>5, <2>6 DEF Next
<1> QED BY <1>1, <1>2, PTL DEF Spec, ImplementsProjectionCursor, Projection!Spec
=============================================================================
