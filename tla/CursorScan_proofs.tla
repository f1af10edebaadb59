-------------------------- MODULE CursorScan_proofs --------------------------
(***************************************************************************)
(* What reset_cursor, the clamp and one scan return, for every sorted      *)
(* table, query, bound, quantum and region capacity.                       *)
(***************************************************************************)
EXTENDS CursorScan, WellFoundedInduction, TLAPS

USE CursorScanAssumption

\* A nonempty set of naturals has a least element; the library's principle is
\* about an operator, this one is about a set and can be cited.
LEMMA LeastNatural ==
  ASSUME NEW T \in SUBSET Nat, T # {}
  PROVE  \E x \in T : \A y \in T : x <= y
<1> DEFINE below == {p \in Nat \X Nat : p[1] < p[2]}
<1>1. IsWellFoundedOn(below, Nat)
  <2>1. OpToRel(<, Nat) = below
    BY DEF OpToRel
  <2> QED  BY <2>1, NatLessThanWellFounded
<1>2. PICK x \in T : \A y \in T : ~ (<<y, x>> \in below)
  <2> HIDE DEF below
  <2> QED  BY <1>1, WFMin
<1>3. \A y \in T : ~(y < x)
  BY <1>2
<1> QED  BY <1>3

\* LowerBound splits the table into values below the query and the rest.
LEMMA LowerBoundSplits ==
  ASSUME NEW table, IsSortedTable(table), NEW query \in Int
  PROVE  LET p == LowerBound(table, query)
         IN  /\ p \in 1 .. EntryCount + 1
             /\ \A i \in 1 .. p - 1 : table[i] < query
             /\ \A i \in p .. EntryCount : table[i] >= query
<1> DEFINE T == {p \in 1 .. EntryCount + 1 : p = EntryCount + 1 \/ table[p] >= query}
           p == LowerBound(table, query)
<1>1. table \in [Position -> Int]
  BY DEF IsSortedTable
<1>2. EntryCount + 1 \in T /\ T \subseteq Nat
  OBVIOUS
<1>3. PICK x \in T : \A y \in T : x <= y
  <2> HIDE DEF T
  <2> QED  BY <1>2, LeastNatural
<1>4. \A i \in 1 .. x - 1 : table[i] < query
  BY <1>1, <1>3 DEF Position
<1>5. /\ p \in 1 .. EntryCount + 1
      /\ \A i \in 1 .. p - 1 : table[i] < query
      /\ p <= EntryCount => table[p] >= query
  <2>1. x \in 1 .. EntryCount + 1 /\ (x <= EntryCount => table[x] >= query)
    BY <1>3
  <2> HIDE DEF T
  <2> QED  BY <1>4, <2>1 DEF LowerBound
<1>6. \A i \in p .. EntryCount : table[i] >= query
  <2> HIDE DEF p
  <2> SUFFICES ASSUME NEW i \in p .. EntryCount PROVE table[i] >= query
    OBVIOUS
  <2>1. p \in Position /\ i \in Position /\ table[p] \in Int /\ table[i] \in Int
        /\ table[p] >= query
    BY <1>1, <1>5 DEF Position
  <2>2. table[p] <= table[i]
    BY <1>5, <2>1 DEF IsSortedTable
  <2> QED  BY <2>1, <2>2
<1> QED  BY <1>5, <1>6

\* The clamp returns the longest inside prefix of the offered range.
LEMMA ClampIsLongestPrefix ==
  ASSUME NEW table, NEW query, NEW first \in Int, NEW step \in {-1, 1},
         NEW available \in Nat, NEW bound
  PROVE  LET count == ClampToWindow(table, query, first, step, available, bound)
         IN  /\ count \in 0 .. available
             /\ \A j \in 0 .. count - 1 : Inside(table, query, first + step * j, bound)
             /\ count < available => ~Inside(table, query, first + step * count, bound)
<1> DEFINE In(j) == Inside(table, query, first + step * j, bound)
           T == {c \in 0 .. available : c = available \/ ~In(c)}
<1> HIDE DEF In
<1>1. available \in T /\ T \subseteq Nat
  OBVIOUS
<1>2. PICK x \in T : \A y \in T : x <= y
  <2> HIDE DEF T
  <2> QED  BY <1>1, LeastNatural
<1>3. x \in 0 .. available /\ (\A j \in 0 .. x - 1 : In(j)) /\ (x < available => ~In(x))
  BY <1>2
<1> QED  BY <1>3 DEF ClampToWindow, In

-----------------------------------------------------------------------------
\* A reset cursor is well placed: nothing is delivered and no side is blocked.
LEMMA ResetIsWellPlaced ==
  ASSUME NEW table, IsSortedTable(table), NEW query \in Int
  PROVE  /\ WellPlaced(table, ResetCursor(table, query))
         /\ ResetCursor(table, query).right = ResetCursor(table, query).left + 1
         /\ ResetCursor(table, query).lastBound = Unbounded
<1> DEFINE p == LowerBound(table, query)
<1>1. /\ p \in 1 .. EntryCount + 1
      /\ \A i \in 1 .. p - 1 : table[i] < query
      /\ \A i \in p .. EntryCount : table[i] >= query
  BY LowerBoundSplits
<1>2. ResetCursor(table, query) =
        [query |-> query, left |-> p - 1, right |-> p,
         leftBlocked |-> FALSE, rightBlocked |-> FALSE, lastBound |-> Unbounded]
  BY DEF ResetCursor
<1> HIDE DEF p
<1> QED  BY <1>1, <1>2 DEF WellPlaced, CursorRecord, Unbounded

\* Widening keeps the cursor well placed: what was inside stays inside, and a
\* side that stays blocked does so at an unchanged bound.
LEMMA ResetBoundedSidesIsWellPlaced ==
  ASSUME NEW table, IsSortedTable(table), NEW c, WellPlaced(table, c),
         NEW bound \in Nat, bound >= c.lastBound
  PROVE  LET d == ResetBoundedSides(c, bound)
         IN  /\ WellPlaced(table, d) /\ d.lastBound = bound
             /\ d.query = c.query /\ d.left = c.left /\ d.right = c.right
<1>1. c \in CursorRecord /\ c.lastBound \in Int
  BY DEF WellPlaced, CursorRecord, Unbounded
<1>2. CASE bound > c.lastBound
  <2> DEFINE d == [c EXCEPT !.leftBlocked = FALSE, !.rightBlocked = FALSE, !.lastBound = bound]
  <2>1. ResetBoundedSides(c, bound) = d
    BY <1>2 DEF ResetBoundedSides
  <2>2. /\ d \in CursorRecord /\ d.lastBound = bound /\ d.query = c.query
        /\ d.left = c.left /\ d.right = c.right /\ ~d.leftBlocked /\ ~d.rightBlocked
    BY <1>1 DEF CursorRecord
  <2>3. \A i \in c.left + 1 .. c.right - 1 : Inside(table, c.query, i, bound)
    <3> SUFFICES ASSUME NEW i \in c.left + 1 .. c.right - 1
                 PROVE  Inside(table, c.query, i, bound)
      OBVIOUS
    <3>1. Inside(table, c.query, i, c.lastBound)
      BY DEF WellPlaced
    <3>2. i \in Position /\ table[i] \in Int /\ c.query \in Int
      BY <1>1 DEF IsSortedTable, CursorRecord, Position
    <3> QED  BY <1>1, <1>2, <3>1, <3>2 DEF Inside, Difference
  <2> HIDE DEF d
  <2> QED  BY <2>1, <2>2, <2>3 DEF WellPlaced
<1>3. CASE bound = c.lastBound
  BY <1>1, <1>3 DEF ResetBoundedSides
<1> QED  BY <1>1, <1>2, <1>3

\* Integer division by a region capacity.
LEMMA RegionArithmetic ==
  ASSUME NEW x \in Nat, NEW k \in Nat \ {0}
  PROVE  /\ x % k \in 0 .. x
         /\ ((x \div k) + 1) * k \in Nat
         /\ ((x \div k) + 1) * k > x
<1>1. x \div k \in Nat /\ x % k \in 0 .. k - 1
  OBVIOUS
<1>2. x = (x \div k) * k + (x % k)
  OBVIOUS
<1>3. (x \div k) * k \in Nat
  BY <1>1
<1>4. ((x \div k) + 1) * k = (x \div k) * k + k
  BY <1>1
<1> DEFINE m == (x \div k) * k
           r == x % k
<1> HIDE DEF m, r
<1>5. x = m + r /\ r \in 0 .. k - 1 /\ m \in Nat /\ ((x \div k) + 1) * k = m + k
  BY <1>1, <1>2, <1>3, <1>4 DEF m, r
<1>6. r \in 0 .. x /\ m + k \in Nat /\ m + k > x
  BY <1>5
<1> QED  BY <1>5, <1>6 DEF r

\* Offers stay inside the table, and are positive when the limit is.
LEMMA OffersFit ==
  ASSUME NEW c \in CursorRecord, NEW limit \in Nat, NEW scope \in Scopes
  PROVE  /\ c.left > 0 =>
              /\ LeftOffer(c, limit, scope) \in 0 .. c.left
              /\ LeftOffer(c, limit, scope) <= limit
              /\ limit > 0 => LeftOffer(c, limit, scope) > 0
         /\ c.right <= EntryCount =>
              /\ RightOffer(c, limit, scope) \in 0 .. EntryCount - c.right + 1
              /\ RightOffer(c, limit, scope) <= limit
              /\ limit > 0 => RightOffer(c, limit, scope) > 0
<1>1. ASSUME c.left > 0
      PROVE  RegionLeft(c.left) \in 1 .. c.left
  <2>1. c.left \in Nat /\ c.left - 1 \in Nat
    BY <1>1 DEF CursorRecord
  <2>2. (c.left - 1) % RegionCapacity \in 0 .. c.left - 1
    BY <2>1, RegionArithmetic
  <2> DEFINE r == (c.left - 1) % RegionCapacity
  <2>3. RegionLeft(c.left) = r + 1
    BY DEF RegionLeft
  <2> HIDE DEF r
  <2>4. r \in 0 .. c.left - 1
    BY <2>2 DEF r
  <2> QED  BY <2>1, <2>3, <2>4
<1>2. ASSUME c.right <= EntryCount
      PROVE  RegionRight(c.right) \in 1 .. EntryCount - c.right + 1
  <2> DEFINE e == (((c.right - 1) \div RegionCapacity) + 1) * RegionCapacity
  <2>1. c.right \in Nat \ {0} /\ c.right - 1 \in Nat
    BY <1>2 DEF CursorRecord
  <2>2. e \in Nat /\ e > c.right - 1
    BY <2>1, RegionArithmetic
  <2>3. RegionRight(c.right) = SmallerOf(EntryCount, e) - c.right + 1
    BY DEF RegionRight
  <2> HIDE DEF e
  <2> QED  BY <1>2, <2>1, <2>2, <2>3 DEF SmallerOf
<1> QED  BY <1>1, <1>2 DEF LeftOffer, RightOffer, Available, SmallerOf, CursorRecord

\* One side of a scan: the left cursor moves over the inside entries it
\* delivers and blocks in front of the first entry outside.
LEMMA LeftSide ==
  ASSUME NEW table, IsSortedTable(table), NEW c, WellPlaced(table, c),
         NEW limit \in Nat, NEW scope \in Scopes
  PROVE  LET l == LeftCount(table, c, limit, scope)
             d == MoveLeft(c, l, LeftOffer(c, limit, scope))
         IN  /\ l \in 0 .. c.left /\ l <= limit
             /\ WellPlaced(table, d)
             /\ d.lastBound = c.lastBound /\ d.query = c.query /\ d.right = c.right
             /\ d.left = c.left - l /\ d.rightBlocked = c.rightBlocked
             /\ limit > 0 /\ l = 0 => d.left = 0 \/ d.leftBlocked
<1>1. c \in CursorRecord
  BY DEF WellPlaced
<1> DEFINE l == LeftCount(table, c, limit, scope)
           o == LeftOffer(c, limit, scope)
           d == MoveLeft(c, l, o)
<1>2. /\ d.lastBound = c.lastBound /\ d.query = c.query /\ d.right = c.right
      /\ d.left = c.left - l /\ d.rightBlocked = c.rightBlocked
      /\ d.leftBlocked = (c.leftBlocked \/ (LeftActive(c) /\ l < o))
      /\ (l \in 0 .. c.left => d \in CursorRecord)
  <2> HIDE DEF l, o
  <2> DEFINE x == c.left - l
             b == c.leftBlocked \/ (LeftActive(c) /\ l < o)
  <2>1. d = [c EXCEPT !.left = x, !.leftBlocked = b]
    BY DEF MoveLeft
  <2>2. b \in BOOLEAN
    OBVIOUS
  <2>3. l \in 0 .. c.left => x \in 0 .. EntryCount
    BY <1>1 DEF CursorRecord
  <2> HIDE DEF x, b, d
  <2>4. /\ d.lastBound = c.lastBound /\ d.query = c.query /\ d.right = c.right
        /\ d.left = x /\ d.rightBlocked = c.rightBlocked /\ d.leftBlocked = b
    BY <1>1, <2>1 DEF CursorRecord
  <2>5. x \in 0 .. EntryCount => d \in CursorRecord
    BY <1>1, <2>1, <2>2 DEF CursorRecord
  <2> QED  BY <2>3, <2>4, <2>5 DEF x, b
<1>3. CASE ~LeftActive(c)
  <2>1. l = 0
    BY <1>3 DEF LeftCount
  <2>2. d.left = c.left /\ d.leftBlocked = c.leftBlocked
    BY <1>1, <1>2, <1>3, <2>1 DEF CursorRecord
  <2> HIDE DEF l, d
  <2>3. c.left = 0 \/ c.leftBlocked
    BY <1>1, <1>3 DEF LeftActive, CursorRecord
  <2>4. l \in 0 .. c.left /\ l <= limit
    BY <1>1, <2>1 DEF CursorRecord
  <2> QED  BY <1>1, <1>2, <2>1, <2>2, <2>3, <2>4 DEF WellPlaced, l, d
<1>4. CASE LeftActive(c)
  <2>1. c.left > 0 /\ ~c.leftBlocked
    BY <1>4 DEF LeftActive
  <2>2. o \in 0 .. c.left /\ o <= limit /\ (limit > 0 => o > 0)
    BY <1>1, <2>1, OffersFit
  <2>3. l = ClampToWindow(table, c.query, c.left, -1, o, c.lastBound)
    BY <1>4 DEF LeftCount
  <2> HIDE DEF l, o, d
  <2>4. /\ l \in 0 .. o
        /\ \A j \in 0 .. l - 1 : Inside(table, c.query, c.left + (-1) * j, c.lastBound)
        /\ l < o => ~Inside(table, c.query, c.left + (-1) * l, c.lastBound)
    <3>1. o \in Nat /\ c.left \in Int
      BY <1>1, <2>2 DEF CursorRecord
    <3> QED  BY <2>3, <3>1, ClampIsLongestPrefix
  <2>5. \A i \in d.left + 1 .. d.right - 1 : Inside(table, c.query, i, c.lastBound)
    <3> SUFFICES ASSUME NEW i \in c.left - l + 1 .. c.right - 1
                 PROVE  Inside(table, c.query, i, c.lastBound)
      BY <1>2
    <3>1. CASE i > c.left
      BY <1>1, <3>1 DEF WellPlaced, CursorRecord
    <3>2. CASE i <= c.left
      <4>1. c.left - i \in 0 .. l - 1 /\ c.left + (-1) * (c.left - i) = i
        BY <1>1, <2>2, <2>4, <3>2 DEF CursorRecord
      <4> QED  BY <2>4, <4>1
    <3> QED  BY <1>1, <2>2, <2>4, <3>1, <3>2 DEF CursorRecord
  <2>6. l < o => d.left > 0 /\ ~Inside(table, c.query, d.left, c.lastBound)
    <3>1. c.left + (-1) * l = c.left - l
      BY <1>1, <2>2, <2>4 DEF CursorRecord
    <3> QED  BY <1>1, <1>2, <2>2, <2>4, <3>1 DEF CursorRecord
  <2>7. l \in 0 .. c.left /\ l <= limit /\ d \in CursorRecord /\ d.left <= c.left
    BY <1>1, <1>2, <2>2, <2>4 DEF CursorRecord
  <2>8. d.leftBlocked = (l < o)
    BY <1>2, <1>4, <2>1, <2>2, <2>4
  <2>9. \A i \in 1 .. d.left : table[i] < d.query
    BY <1>1, <1>2, <2>7 DEF WellPlaced, CursorRecord
  <2>10. WellPlaced(table, d)
    BY <1>1, <1>2, <2>5, <2>6, <2>7, <2>8, <2>9 DEF WellPlaced, CursorRecord
  <2>11. limit > 0 /\ l = 0 => d.left = 0 \/ d.leftBlocked
    BY <2>2, <2>4, <2>8
  <2> QED  BY <1>2, <2>7, <2>10, <2>11 DEF l, d, o
<1> QED  BY <1>3, <1>4

\* The mirror image for the right cursor.
LEMMA RightSide ==
  ASSUME NEW table, IsSortedTable(table), NEW c, WellPlaced(table, c),
         NEW limit \in Nat, NEW scope \in Scopes
  PROVE  LET r == RightCount(table, c, limit, scope)
             e == MoveRight(c, r, RightOffer(c, limit, scope))
         IN  /\ r \in 0 .. EntryCount - c.right + 1 /\ r <= limit
             /\ WellPlaced(table, e)
             /\ e.lastBound = c.lastBound /\ e.query = c.query /\ e.left = c.left
             /\ e.right = c.right + r /\ e.leftBlocked = c.leftBlocked
             /\ limit > 0 /\ r = 0 => e.right = EntryCount + 1 \/ e.rightBlocked
<1>1. c \in CursorRecord
  BY DEF WellPlaced
<1> DEFINE r == RightCount(table, c, limit, scope)
           o == RightOffer(c, limit, scope)
           e == MoveRight(c, r, o)
<1>2. /\ e.lastBound = c.lastBound /\ e.query = c.query /\ e.left = c.left
      /\ e.right = c.right + r /\ e.leftBlocked = c.leftBlocked
      /\ e.rightBlocked = (c.rightBlocked \/ (RightActive(c) /\ r < o))
      /\ (r \in 0 .. EntryCount - c.right + 1 => e \in CursorRecord)
  <2> HIDE DEF r, o
  <2> DEFINE x == c.right + r
             b == c.rightBlocked \/ (RightActive(c) /\ r < o)
  <2>1. e = [c EXCEPT !.right = x, !.rightBlocked = b]
    BY DEF MoveRight
  <2>2. b \in BOOLEAN
    OBVIOUS
  <2>3. r \in 0 .. EntryCount - c.right + 1 => x \in 1 .. EntryCount + 1
    BY <1>1 DEF CursorRecord
  <2> HIDE DEF x, b, e
  <2>4. /\ e.lastBound = c.lastBound /\ e.query = c.query /\ e.left = c.left
        /\ e.right = x /\ e.leftBlocked = c.leftBlocked /\ e.rightBlocked = b
    BY <1>1, <2>1 DEF CursorRecord
  <2>5. x \in 1 .. EntryCount + 1 => e \in CursorRecord
    BY <1>1, <2>1, <2>2 DEF CursorRecord
  <2> QED  BY <2>3, <2>4, <2>5 DEF x, b
<1>3. CASE ~RightActive(c)
  <2>1. r = 0
    BY <1>3 DEF RightCount
  <2>2. e.right = c.right /\ e.rightBlocked = c.rightBlocked
    BY <1>1, <1>2, <1>3, <2>1 DEF CursorRecord
  <2> HIDE DEF r, e
  <2>3. c.right = EntryCount + 1 \/ c.rightBlocked
    BY <1>1, <1>3 DEF RightActive, CursorRecord
  <2>4. r \in 0 .. EntryCount - c.right + 1 /\ r <= limit
    BY <1>1, <2>1 DEF CursorRecord
  <2> QED  BY <1>1, <1>2, <2>1, <2>2, <2>3, <2>4 DEF WellPlaced, r, e
<1>4. CASE RightActive(c)
  <2>1. c.right <= EntryCount /\ ~c.rightBlocked
    BY <1>4 DEF RightActive
  <2>2. o \in 0 .. EntryCount - c.right + 1 /\ o <= limit /\ (limit > 0 => o > 0)
    BY <1>1, <2>1, OffersFit
  <2>3. r = ClampToWindow(table, c.query, c.right, 1, o, c.lastBound)
    BY <1>4 DEF RightCount
  <2> HIDE DEF r, o, e
  <2>4. /\ r \in 0 .. o
        /\ \A j \in 0 .. r - 1 : Inside(table, c.query, c.right + 1 * j, c.lastBound)
        /\ r < o => ~Inside(table, c.query, c.right + 1 * r, c.lastBound)
    <3>1. o \in Nat /\ c.right \in Int
      BY <1>1, <2>2 DEF CursorRecord
    <3> QED  BY <2>3, <3>1, ClampIsLongestPrefix
  <2>5. \A i \in e.left + 1 .. e.right - 1 : Inside(table, c.query, i, c.lastBound)
    <3> SUFFICES ASSUME NEW i \in e.left + 1 .. e.right - 1
                 PROVE  Inside(table, c.query, i, c.lastBound)
      OBVIOUS
    <3>0. i \in c.left + 1 .. c.right + r - 1
      BY <1>1, <1>2, <2>2, <2>4 DEF CursorRecord
    <3>1. CASE i < c.right
      BY <1>1, <3>0, <3>1 DEF WellPlaced, CursorRecord
    <3>2. CASE i >= c.right
      <4>1. i - c.right \in 0 .. r - 1 /\ c.right + 1 * (i - c.right) = i
        BY <1>1, <2>2, <2>4, <3>0, <3>2 DEF CursorRecord
      <4> QED  BY <2>4, <4>1
    <3> QED  BY <1>1, <2>2, <2>4, <3>0, <3>1, <3>2 DEF CursorRecord
  <2>6. r < o => e.right <= EntryCount /\ ~Inside(table, c.query, e.right, c.lastBound)
    <3>1. c.right + 1 * r = c.right + r
      BY <1>1, <2>2, <2>4 DEF CursorRecord
    <3> QED  BY <1>1, <1>2, <2>2, <2>4, <3>1 DEF CursorRecord
  <2>7. r \in 0 .. EntryCount - c.right + 1 /\ r <= limit /\ e \in CursorRecord
        /\ e.right >= c.right
    BY <1>1, <1>2, <2>2, <2>4 DEF CursorRecord
  <2>8. e.rightBlocked = (r < o)
    BY <1>2, <1>4, <2>1, <2>2, <2>4
  <2>9. \A i \in e.right .. EntryCount : table[i] >= e.query
    BY <1>1, <1>2, <2>7 DEF WellPlaced, CursorRecord
  <2>10. WellPlaced(table, e)
    BY <1>1, <1>2, <2>5, <2>6, <2>7, <2>8, <2>9 DEF WellPlaced, CursorRecord
  <2>11. limit > 0 /\ r = 0 => e.right = EntryCount + 1 \/ e.rightBlocked
    BY <2>2, <2>4, <2>8
  <2> QED  BY <1>2, <2>7, <2>10, <2>11 DEF r, e, o
<1> QED  BY <1>3, <1>4

\* A well-placed cursor whose both sides are done has no inside entry left.
LEMMA ClosedWindowIsComplete ==
  ASSUME NEW table, IsSortedTable(table), NEW c, WellPlaced(table, c),
         WindowExhausted(c), NEW i \in Position
  PROVE  Inside(table, c.query, i, c.lastBound) <=> c.left < i /\ i < c.right
<1>1. /\ c \in CursorRecord /\ c.left < c.right
      /\ c.query \in Int /\ c.lastBound \in Int
      /\ c.left \in 0 .. EntryCount /\ c.right \in 1 .. EntryCount + 1
  BY DEF WellPlaced, CursorRecord, Unbounded
<1>2. \A k \in Position : table[k] \in Int
  BY DEF IsSortedTable
<1>3. CASE c.left < i /\ i < c.right
  BY <1>1, <1>3 DEF WellPlaced, Position
<1>4. CASE i <= c.left
  <2>1. c.leftBlocked /\ c.left \in Position /\ table[c.left] < c.query
        /\ ~Inside(table, c.query, c.left, c.lastBound)
    BY <1>1, <1>4 DEF WindowExhausted, WellPlaced, Position
  <2>2. table[i] <= table[c.left]
    <3>1. i = c.left \/ i < c.left
      BY <1>1, <1>4 DEF Position
    <3> QED  BY <1>2, <2>1, <3>1 DEF IsSortedTable
  <2>3. ~Inside(table, c.query, i, c.lastBound)
    BY <1>1, <1>2, <2>1, <2>2 DEF Inside, Difference
  <2> QED  BY <1>1, <1>4, <2>3 DEF Position
<1>5. CASE i >= c.right
  <2>1. c.rightBlocked /\ c.right \in Position /\ table[c.right] >= c.query
        /\ ~Inside(table, c.query, c.right, c.lastBound)
    BY <1>1, <1>5 DEF WindowExhausted, WellPlaced, Position
  <2>2. table[c.right] <= table[i]
    <3>1. i = c.right \/ c.right < i
      BY <1>1, <1>5 DEF Position
    <3> QED  BY <1>2, <2>1, <3>1 DEF IsSortedTable
  <2>3. ~Inside(table, c.query, i, c.lastBound)
    BY <1>1, <1>2, <2>1, <2>2 DEF Inside, Difference
  <2> QED  BY <1>1, <1>5, <2>3 DEF Position
<1> QED  BY <1>1, <1>3, <1>4, <1>5 DEF Position

-----------------------------------------------------------------------------
LEMMA LimitsFit ==
  ASSUME NEW maxEntries \in Nat \ {0}, NEW scope \in Scopes
  PROVE  /\ LeftLimit(maxEntries, scope) \in 1 .. maxEntries
         /\ \A visited \in 0 .. LeftLimit(maxEntries, scope) :
              /\ RightLimit(maxEntries, scope, visited) \in 0 .. maxEntries
              /\ visited = 0 => RightLimit(maxEntries, scope, visited) > 0
              /\ scope = "quantum" =>
                   visited + RightLimit(maxEntries, scope, visited) <= maxEntries
<1>1. CASE scope = "range"
  BY <1>1 DEF LeftLimit, RightLimit
<1>2. CASE scope = "quantum"
  <2>1. /\ (maxEntries + 1) \div 2 \in 1 .. maxEntries
        /\ maxEntries \div 2 \in 0 .. maxEntries
        /\ (maxEntries + 1) \div 2 + maxEntries \div 2 = maxEntries
    OBVIOUS
  <2> DEFINE a == (maxEntries + 1) \div 2
             b == maxEntries \div 2
  <2>2. LeftLimit(maxEntries, scope) = a
        /\ \A v : RightLimit(maxEntries, scope, v) = IF b = 0 THEN maxEntries - v ELSE b
    BY <1>2 DEF LeftLimit, RightLimit
  <2>3. a \in 1 .. maxEntries /\ b \in 0 .. maxEntries /\ a + b = maxEntries
    BY <2>1
  <2> HIDE DEF a, b
  <2> QED  BY <2>2, <2>3
<1> QED  BY <1>1, <1>2 DEF Scopes

\* The delivered positions: l of them outward from a, then r outward from p.
LEMMA HitSequence ==
  ASSUME NEW a \in 0 .. EntryCount, NEW p \in 1 .. EntryCount + 1, a < p,
         NEW l \in 0 .. a, NEW r \in 0 .. EntryCount - p + 1
  PROVE  LET hits == OutwardPositions(a, l, p, r)
         IN  /\ hits \in Seq(Position) /\ Len(hits) = l + r
             /\ \A j, k \in DOMAIN hits : hits[j] = hits[k] => j = k
             /\ \A i \in Position :
                  (\E j \in DOMAIN hits : hits[j] = i) <=>
                     (a - l < i /\ i <= a) \/ (p <= i /\ i < p + r)
<1> DEFINE hits == OutwardPositions(a, l, p, r)
<1>1. \A j \in 1 .. l + r : (IF j <= l THEN a - j + 1 ELSE p + (j - l) - 1) \in Position
  BY DEF Position
<1>2. hits \in [1 .. l + r -> Position] /\ l + r \in Nat
  BY <1>1 DEF OutwardPositions
<1>3. \A j \in 1 .. l + r : hits[j] = IF j <= l THEN a - j + 1 ELSE p + (j - l) - 1
  BY DEF OutwardPositions
<1> HIDE DEF hits
<1>4. hits \in Seq(Position) /\ Len(hits) = l + r /\ DOMAIN hits = 1 .. l + r
  BY <1>2
<1>5. \A j, k \in 1 .. l + r : hits[j] = hits[k] => j = k
  <2> SUFFICES ASSUME NEW j \in 1 .. l + r, NEW k \in 1 .. l + r, hits[j] = hits[k]
               PROVE  j = k
    OBVIOUS
  <2>1. \A m \in {j, k} : \/ m <= l /\ hits[m] = a - m + 1
                          \/ ~(m <= l) /\ hits[m] = p + (m - l) - 1
    BY <1>3
  <2>2. CASE j <= l /\ k <= l
    BY <2>1, <2>2
  <2>3. CASE j <= l /\ ~(k <= l)
    BY <2>1, <2>3
  <2>4. CASE ~(j <= l) /\ k <= l
    BY <2>1, <2>4
  <2>5. CASE ~(j <= l) /\ ~(k <= l)
    BY <2>1, <2>5
  <2> QED  BY <2>2, <2>3, <2>4, <2>5
<1>6. ASSUME NEW i \in Position, NEW j \in 1 .. l + r, hits[j] = i
      PROVE  (a - l < i /\ i <= a) \/ (p <= i /\ i < p + r)
  <2>1. i = (IF j <= l THEN a - j + 1 ELSE p + (j - l) - 1)
    BY <1>3, <1>6
  <2> QED  BY <2>1 DEF Position
<1>7. ASSUME NEW i \in Position, a - l < i, i <= a
      PROVE  \E j \in 1 .. l + r : hits[j] = i
  <2>1. a - i + 1 \in 1 .. l + r /\ a - i + 1 <= l /\ a - (a - i + 1) + 1 = i
    BY <1>7 DEF Position
  <2>2. hits[a - i + 1] = i
    BY <1>3, <2>1
  <2> QED  BY <2>1, <2>2
<1>8. ASSUME NEW i \in Position, p <= i, i < p + r
      PROVE  \E j \in 1 .. l + r : hits[j] = i
  <2>1. PICK j \in 1 .. l + r : j = l + (i - p) + 1
    BY <1>8 DEF Position
  <2>2. ~(j <= l) /\ p + (j - l) - 1 = i
    BY <1>8, <2>1 DEF Position
  <2>3. hits[j] = i
    BY <1>3, <2>2
  <2> QED  BY <2>3
<1> QED  BY <1>4, <1>5, <1>6, <1>7, <1>8 DEF hits

\* One scan of a well-placed cursor at a bound that does not decrease: the
\* cursor stays well placed at that bound and only moves outward; the hits are
\* exactly the positions it moved over, each once; a quantum is not exceeded;
\* and a scan without hits closes the window.
THEOREM ScanIsCorrect ==
  ASSUME NEW table, IsSortedTable(table), NEW c, WellPlaced(table, c),
         NEW bound \in Nat, bound >= c.lastBound,
         NEW maxEntries \in Nat \ {0}, NEW scope \in Scopes
  PROVE  LET s == ScanCursor(table, c, bound, maxEntries, scope)
             e == s.cursor
         IN  /\ WellPlaced(table, e) /\ e.lastBound = bound /\ e.query = c.query
             /\ e.left <= c.left /\ e.right >= c.right
             /\ s.hits \in Seq(Position)
             /\ Len(s.hits) = (c.left - e.left) + (e.right - c.right)
             /\ \A j, k \in DOMAIN s.hits : s.hits[j] = s.hits[k] => j = k
             /\ \A i \in Position :
                  (\E j \in DOMAIN s.hits : s.hits[j] = i) <=>
                     (e.left < i /\ i <= c.left) \/ (c.right <= i /\ i < e.right)
             /\ scope = "quantum" => Len(s.hits) <= maxEntries
             /\ Len(s.hits) = 0 => WindowExhausted(e)
             /\ s.windowExhausted = WindowExhausted(e)
             /\ s.tableExhausted = TableExhausted(e)
<1> DEFINE b == ResetBoundedSides(c, bound)
           leftLimit == LeftLimit(maxEntries, scope)
           l == LeftCount(table, b, leftLimit, scope)
           d == MoveLeft(b, l, LeftOffer(b, leftLimit, scope))
           rightLimit == RightLimit(maxEntries, scope, l)
           r == RightCount(table, d, rightLimit, scope)
           e == MoveRight(d, r, RightOffer(d, rightLimit, scope))
           hits == OutwardPositions(b.left, l, b.right, r)
           s == ScanCursor(table, c, bound, maxEntries, scope)
<1>1. /\ WellPlaced(table, b) /\ b.lastBound = bound
      /\ b.query = c.query /\ b.left = c.left /\ b.right = c.right
  BY ResetBoundedSidesIsWellPlaced
<1>2. leftLimit \in 1 .. maxEntries
  BY LimitsFit
<1>3. /\ l \in 0 .. b.left /\ l <= leftLimit
      /\ WellPlaced(table, d)
      /\ d.lastBound = b.lastBound /\ d.query = b.query /\ d.right = b.right
      /\ d.left = b.left - l /\ d.rightBlocked = b.rightBlocked
      /\ l = 0 => d.left = 0 \/ d.leftBlocked
  <2> HIDE DEF b, leftLimit
  <2>1. leftLimit \in Nat /\ leftLimit > 0
    BY <1>2
  <2>2. /\ l \in 0 .. b.left /\ l <= leftLimit
        /\ WellPlaced(table, d)
        /\ d.lastBound = b.lastBound /\ d.query = b.query /\ d.right = b.right
        /\ d.left = b.left - l /\ d.rightBlocked = b.rightBlocked
        /\ leftLimit > 0 /\ l = 0 => d.left = 0 \/ d.leftBlocked
    BY <1>1, <2>1, LeftSide
  <2> HIDE DEF l, d
  <2> QED  BY <2>1, <2>2
<1>4. b.left \in 0 .. EntryCount /\ b.right \in 1 .. EntryCount + 1 /\ b.left < b.right
  BY <1>1 DEF WellPlaced, CursorRecord
<1>5. /\ rightLimit \in 0 .. maxEntries
      /\ l = 0 => rightLimit > 0
      /\ scope = "quantum" => l + rightLimit <= maxEntries
  <2>1. l \in 0 .. leftLimit
    BY <1>2, <1>3, <1>4
  <2> HIDE DEF l
  <2> QED  BY <2>1, LimitsFit
<1>6. /\ r \in 0 .. EntryCount - d.right + 1 /\ r <= rightLimit
      /\ WellPlaced(table, e)
      /\ e.lastBound = d.lastBound /\ e.query = d.query /\ e.left = d.left
      /\ e.right = d.right + r /\ e.leftBlocked = d.leftBlocked
      /\ rightLimit > 0 /\ r = 0 => e.right = EntryCount + 1 \/ e.rightBlocked
  <2> HIDE DEF d, rightLimit
  <2>1. rightLimit \in Nat
    BY <1>5
  <2> QED  BY <1>3, <2>1, RightSide
<1>7. /\ s.cursor = e /\ s.hits = hits
      /\ s.windowExhausted = WindowExhausted(e) /\ s.tableExhausted = TableExhausted(e)
  <2> HIDE DEF b, leftLimit, l, d, rightLimit, r, e
  <2> QED  BY DEF ScanCursor, b, leftLimit, l, d, rightLimit, r, e
<1> HIDE DEF b, leftLimit, l, d, rightLimit, r, e, s
<1>8. /\ l \in 0 .. b.left /\ r \in 0 .. EntryCount - b.right + 1
      /\ e.left = b.left - l /\ e.right = b.right + r
      /\ e.leftBlocked = d.leftBlocked
  BY <1>3, <1>6
<1>9. /\ hits \in Seq(Position) /\ Len(hits) = l + r
      /\ \A j, k \in DOMAIN hits : hits[j] = hits[k] => j = k
      /\ \A i \in Position :
           (\E j \in DOMAIN hits : hits[j] = i) <=>
              (b.left - l < i /\ i <= b.left) \/ (b.right <= i /\ i < b.right + r)
  BY <1>4, <1>8, HitSequence
<1> HIDE DEF hits
<1>10. Len(hits) = (b.left - e.left) + (e.right - b.right)
       /\ e.left <= b.left /\ e.right >= b.right
  <2> DEFINE x == b.left
             y == b.right
  <2> HIDE DEF x, y
  <2>1. /\ x \in Int /\ y \in Int /\ l \in Nat /\ r \in Nat
        /\ e.left = x - l /\ e.right = y + r /\ Len(hits) = l + r
    BY <1>4, <1>8, <1>9 DEF x, y
  <2>2. Len(hits) = (x - e.left) + (e.right - y) /\ e.left <= x /\ e.right >= y
    BY <2>1
  <2> QED  BY <2>2 DEF x, y
<1>11. scope = "quantum" => Len(hits) <= maxEntries
  <2>1. l \in Nat /\ r \in Nat /\ r <= rightLimit /\ rightLimit \in Int
        /\ Len(hits) = l + r
    BY <1>4, <1>5, <1>6, <1>8, <1>9
  <2> QED  BY <1>5, <2>1
<1>12. Len(hits) = 0 => WindowExhausted(e)
  <2> SUFFICES ASSUME l + r = 0 PROVE WindowExhausted(e)
    BY <1>9
  <2>1. l = 0 /\ r = 0
    BY <1>4, <1>8
  <2>2. rightLimit > 0
    BY <1>5, <2>1
  <2> QED  BY <1>3, <1>6, <2>1, <2>2 DEF WindowExhausted
<1> QED
  <2>1. /\ WellPlaced(table, e) /\ e.lastBound = bound /\ e.query = c.query
        /\ e.left <= c.left /\ e.right >= c.right
        /\ Len(hits) = (c.left - e.left) + (e.right - c.right)
    BY <1>1, <1>3, <1>6, <1>10
  <2>2. \A i \in Position :
          (\E j \in DOMAIN hits : hits[j] = i) <=>
             (e.left < i /\ i <= c.left) \/ (c.right <= i /\ i < e.right)
    BY <1>1, <1>8, <1>9
  <2> HIDE DEF e
  <2> QED  BY <1>7, <1>9, <1>11, <1>12, <2>1, <2>2 DEF s
=============================================================================
