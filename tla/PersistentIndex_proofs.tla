------------------------ MODULE PersistentIndex_proofs -----------------------
(***************************************************************************)
(* What holds of a persistent index, whatever its size and whoever uses    *)
(* its path.                                                               *)
(*                                                                         *)
(* First of its file (IndexFile), for words of any width, any limits and   *)
(* any number of damages: Open accepts what Build wrote, and a file Open   *)
(* accepts is read inside its bounds and has whole tables.                 *)
(*                                                                         *)
(* Then of its path (IndexPublish): an index at the path is whole and a    *)
(* finished Build lasts, for any number of builders, readers, names and    *)
(* crashes.  What holds of a temporary file and of the path by the steps   *)
(* alone is proved of Spec.  That the path leads to whole indexes needs    *)
(* one thing of the environment, NamesToPublishAreDistinct: the clean-up   *)
(* unlinks a name that a rename may have freed, and mkstemp may have given *)
(* it to others since.  It is a hypothesis of those theorems and no part   *)
(* of Spec; for two builders it is proved as well.                         *)
(***************************************************************************)
EXTENDS IndexPublish, IndexFile, FiniteSetTheorems, SequenceTheorems, WellFoundedInduction, TLAPS

-----------------------------------------------------------------------------
(* Numbers and words.                                                       *)

LEMMA LeastNatural ==
  ASSUME NEW T \in SUBSET Nat, T # {}
  PROVE  \E x \in T : \A y \in T : x <= y
<1> DEFINE below == {p \in Nat \X Nat : p[1] < p[2]}
<1>1. IsWellFoundedOn(below, Nat)
  <2>1. OpToRel(<, Nat) = below
    BY DEF OpToRel
  <2> QED  BY <2>1, NatLessThanWellFounded
<1>2. PICK x \in T : \A y \in T : ~ (<<y, x>> \in below)
  <2> HIDE DEF below
  <2> QED  BY <1>1, WFMin
<1>3. \A y \in T : ~(y < x)
  BY <1>2
<1> QED  BY <1>3

LEMMA FileConstants ==
  /\ Bits \in Nat \ {0} /\ HeaderBytes \in Nat \ {0} /\ RootBytes \in Nat \ {0}
  /\ CoordinateBytes \in Nat \ {0} /\ EntryBytes \in Nat \ {0} /\ PageHeaderBytes \in Nat \ {0}
  /\ ChildBytes \in Nat \ {0} /\ MinPage \in Nat \ {0} /\ MaxPage \in Nat \ {0}
  /\ PageUnit \in Nat \ {0} /\ MaxPoints \in Nat \ {0} /\ MaxDimensions \in Nat \ {0}
  /\ MaxTables \in Nat \ {0} /\ MaxDamages \in Nat
BY IndexFileAssumption

LEMMA PowersOfTwo ==
  ASSUME NEW m \in Nat, NEW n \in Nat, m <= n
  PROVE  2^m \in Nat \ {0} /\ 2^n \in Nat \ {0} /\ 2^m <= 2^n
<1>1. /\ IsFiniteSet(1 .. m) /\ Cardinality(1 .. m) = m
      /\ IsFiniteSet(1 .. n) /\ Cardinality(1 .. n) = n
  BY FS_Interval
<1> DEFINE M == SUBSET (1 .. m)
           N == SUBSET (1 .. n)
<1>2. /\ IsFiniteSet(M) /\ Cardinality(M) = 2^m
      /\ IsFiniteSet(N) /\ Cardinality(N) = 2^n
  BY <1>1, FS_SUBSET
<1>3. M \subseteq N /\ M # {} /\ N # {}
  <2>1. 1 .. m \subseteq 1 .. n
    OBVIOUS
  <2>2. {} \in M /\ {} \in N
    OBVIOUS
  <2> QED  BY <2>1, <2>2, Zenon
<1> HIDE DEF M, N
<1> QED  BY <1>2, <1>3, FS_Subset, FS_CardinalityType, FS_EmptySet

LEMMA Words ==
  MaxWord \in Nat /\ MaxOffset \in Nat /\ MaxOffset <= MaxWord
<1>1. Bits - 1 \in Nat /\ Bits \in Nat /\ Bits - 1 <= Bits
  BY FileConstants
<1>2. 2^(Bits - 1) \in Nat \ {0} /\ 2^Bits \in Nat \ {0} /\ 2^(Bits - 1) <= 2^Bits
  BY <1>1, PowersOfTwo
<1> DEFINE a == 2^(Bits - 1)
           b == 2^Bits
<1>3. MaxWord = b - 1 /\ MaxOffset = a - 1
  BY DEF MaxWord, MaxOffset
<1> HIDE DEF a, b
<1>4. a \in Nat \ {0} /\ b \in Nat \ {0} /\ a <= b
  BY <1>2 DEF a, b
<1> QED  BY <1>3, <1>4

\* Checked operations do not wrap around.
LEMMA CheckedProduct ==
  ASSUME NEW a \in Nat, NEW b \in Nat, MultiplyFits(a, b)
  PROVE  a * b \in 0 .. MaxWord /\ Multiply(a, b) = a * b
<1> DEFINE w == MaxWord
<1>1. w \in Nat /\ (a = 0 \/ b <= w \div a) /\ Multiply(a, b) = (a * b) % (w + 1)
  BY Words DEF MultiplyFits, Multiply
<1> HIDE DEF w
<1>2. a * b \in Nat
  OBVIOUS
<1>3. a * b <= w
  <2>1. CASE a = 0
    BY <1>1, <2>1
  <2>2. CASE a # 0
    <3> DEFINE q == w \div a
    <3>1. q \in Nat /\ a * q <= w
      BY <1>1, <2>2
    <3>2. b <= q
      BY <1>1, <2>2
    <3> HIDE DEF q
    <3>3. a * b <= a * q
      BY <3>1, <3>2
    <3> QED  BY <1>1, <1>2, <3>1, <3>3
  <2> QED  BY <2>1, <2>2
<1> DEFINE x == a * b
<1>4. x \in Nat /\ x <= w
  BY <1>2, <1>3
<1> HIDE DEF x
<1>5. x % (w + 1) = x
  BY <1>1, <1>4
<1> QED  BY <1>1, <1>4, <1>5 DEF x, w

LEMMA CheckedSum ==
  ASSUME NEW a \in Nat, NEW b \in Nat, AddFits(a, b)
  PROVE  a + b \in 0 .. MaxWord /\ Add(a, b) = a + b
<1> DEFINE w == MaxWord
<1>1. w \in Nat /\ b <= w - a /\ Add(a, b) = (a + b) % (w + 1)
  BY Words DEF AddFits, Add
<1> HIDE DEF w
<1>2. a + b \in 0 .. w
  BY <1>1
<1>3. (a + b) % (w + 1) = a + b
  BY <1>1, <1>2
<1> QED  BY <1>1, <1>2, <1>3 DEF w

\* and are not refused where the result is a word.
LEMMA FittingProduct ==
  ASSUME NEW a \in Nat, NEW b \in Nat, a * b <= MaxWord
  PROVE  MultiplyFits(a, b) /\ Multiply(a, b) = a * b
<1> DEFINE w == MaxWord
<1>1. w \in Nat
  BY Words
<1>2. a * b <= w
  OBVIOUS
<1> HIDE DEF w
<1>3. a # 0 => b <= w \div a
  <2> SUFFICES ASSUME a # 0 PROVE b <= w \div a
    OBVIOUS
  <2> DEFINE q == w \div a
  <2>1. q \in Nat /\ w < a * q + a
    BY <1>1
  <2> HIDE DEF q
  <2>2. a * b < a * (q + 1)
    BY <1>1, <1>2, <2>1
  <2>3. b < q + 1
    <3> SUFFICES ASSUME q + 1 <= b PROVE FALSE
      BY <2>1
    <3>1. a * (q + 1) <= a * b
      BY <2>1
    <3> QED  BY <2>1, <2>2, <3>1
  <2> QED  BY <2>1, <2>3 DEF q
<1>4. MultiplyFits(a, b)
  BY <1>3 DEF MultiplyFits, w
<1> QED  BY <1>4, CheckedProduct

LEMMA FittingSum ==
  ASSUME NEW a \in Nat, NEW b \in Nat, a + b <= MaxWord
  PROVE  AddFits(a, b) /\ Add(a, b) = a + b
<1>1. b <= MaxWord - a
  BY Words
<1> QED  BY <1>1, CheckedSum DEF AddFits

-----------------------------------------------------------------------------
FileEntry == [value : Int, id : Nat]

FileHeader == [layout : {"tree", "array"}, points : Nat, dimensions : Nat, tables : Nat,
               page : Nat, roots : Nat, projections : Nat, data : Nat, pages : Nat, size : Nat]

FileTyped ==
  /\ header \in FileHeader /\ size \in Nat /\ base \in Nat /\ roots \in Seq(Nat)
  /\ header.layout = "tree" => tables = <<>>
  /\ header.layout = "array" =>
       \E T, P \in Nat \ {0} : tables \in [1 .. T -> [1 .. P -> FileEntry]]

FileTypeOK ==
  /\ phase \in {"none", "not built", "built", "open", "refused"}
  /\ damages \in Nat
  /\ phase \in {"built", "open", "refused"} => FileTyped

\* A file no damage was done to is what Build wrote.
Pristine ==
  \E c \in Configs :
    /\ HeaderOf(c).size <= MaxOffset
    /\ header = HeaderOf(c) /\ size = HeaderOf(c).size
    /\ roots = RootsOf(c) /\ base = HeaderOf(c).data
    /\ \E value \in [0 .. c.points - 1 -> ValueRange] : tables \in WrittenTables(c, value)

FileInv ==
  /\ FileTypeOK
  /\ phase = "open" => Accepted
  /\ phase = "built" /\ damages = 0 => Pristine
  /\ phase = "refused" => damages > 0

\* A flipped bit of a natural number leaves a natural number.
LEMMA FlipNat ==
  ASSUME NEW n \in Nat, NEW bit \in 0 .. Bits - 1
  PROVE  Flip(n, bit) \in Nat
<1> DEFINE b == 2^bit
<1>1. b \in Nat \ {0}
  BY PowersOfTwo, FileConstants
<1>2. Flip(n, bit) = IF (n \div b) % 2 = 0 THEN n + b ELSE n - b
  BY DEF Flip
<1> HIDE DEF b
<1>3. (n \div b) % 2 # 0 => n >= b
  <2>1. n < b => n \div b = 0
    BY <1>1
  <2> QED  BY <1>1, <2>1
<1> QED  BY <1>1, <1>2, <1>3

LEMMA QuotientBelow ==
  ASSUME NEW a \in Nat, NEW b \in Nat \ {0}, NEW n \in Nat, a < b * n
  PROVE  a \div b \in 0 .. n - 1
<1> DEFINE q == a \div b
<1>1. q \in Nat /\ b * q <= a
  OBVIOUS
<1> HIDE DEF q
<1>2. q < n
  <2> SUFFICES ASSUME n <= q PROVE FALSE
    BY <1>1
  <2>1. b * n <= b * q
    BY <1>1
  <2> QED  BY <1>1, <2>1
<1> QED  BY <1>1, <1>2 DEF q

LEMMA FileEntryAt ==
  ASSUME NEW T \in Nat \ {0}, NEW P \in Nat \ {0}, tables \in [1 .. T -> [1 .. P -> FileEntry]],
         base \in Nat, NEW offset \in Int
  PROVE  EntryAt(offset) \in FileEntry
<1>1. Len(tables) = T /\ Len(tables[1]) = P
  <2>1. tables \in Seq([1 .. P -> FileEntry]) /\ Len(tables) = T
    OBVIOUS
  <2>2. tables[1] \in [1 .. P -> FileEntry]
    OBVIOUS
  <2> QED  BY <2>1, <2>2
<1>2. Junk \in FileEntry
  BY DEF Junk, FileEntry
<1> DEFINE place == (offset - base) \div EntryBytes
<1>3. CASE offset >= base /\ (offset - base) % EntryBytes = 0 /\ place < P * T
  <2>1. place \in Nat
    BY <1>3, FileConstants
  <2>2. place < P * T
    BY <1>3
  <2> HIDE DEF place
  <2>3. place \div P \in 0 .. T - 1
    BY <2>1, <2>2, QuotientBelow
  <2>4. place % P \in 0 .. P - 1
    BY <2>1
  <2>5. tables[(place \div P) + 1][(place % P) + 1] \in FileEntry
    BY <2>3, <2>4
  <2> QED  BY <1>1, <1>3, <2>5 DEF EntryAt, place
<1>4. CASE ~(offset >= base /\ (offset - base) % EntryBytes = 0 /\ place < P * T)
  BY <1>1, <1>2, <1>4 DEF EntryAt
<1> QED  BY <1>3, <1>4

LEMMA KeyLessOrder ==
  /\ \A e \in FileEntry : ~KeyLess(e, e)
  /\ \A e, f, g \in FileEntry : KeyLess(e, f) /\ KeyLess(f, g) => KeyLess(e, g)
BY DEF FileEntry, KeyLess

\* Neighbours in order: all in order.
LEMMA NeighboursInOrder ==
  ASSUME NEW n \in Nat, NEW table \in [1 .. n -> FileEntry],
         \A i \in DOMAIN table \ {1} : KeyLess(table[i - 1], table[i])
  PROVE  \A i, j \in 1 .. n : i < j => KeyLess(table[i], table[j])
<1> SUFFICES ASSUME NEW i \in 1 .. n,
                    \E j \in 1 .. n : i < j /\ ~KeyLess(table[i], table[j])
             PROVE  FALSE
  OBVIOUS
<1> DEFINE Bad == {j \in 1 .. n : i < j /\ ~KeyLess(table[i], table[j])}
<1>1. PICK j \in Bad : \A k \in Bad : j <= k
  <2>1. Bad \in SUBSET Nat /\ Bad # {}
    OBVIOUS
  <2> HIDE DEF Bad
  <2> QED  BY <2>1, LeastNatural
<1>2. j - 1 \in 1 .. n /\ j \in 2 .. n /\ i <= j - 1 /\ ~ (j - 1 \in Bad)
  BY <1>1
<1>3. KeyLess(table[j - 1], table[j])
  BY <1>2
<1>4. j - 1 = i \/ KeyLess(table[i], table[j - 1])
  BY <1>2
<1>5. table[i] \in FileEntry /\ table[j - 1] \in FileEntry /\ table[j] \in FileEntry
  BY <1>2
<1> QED  BY <1>1, <1>3, <1>4, <1>5, KeyLessOrder

\* As many different numbers below n as there are: all of them.
LEMMA AllBelow ==
  ASSUME NEW n \in Nat, NEW id \in [1 .. n -> 0 .. n - 1],
         \A i, j \in 1 .. n : id[i] = id[j] => i = j
  PROVE  {id[i] : i \in 1 .. n} = 0 .. n - 1
<1> DEFINE A == 1 .. n
           B == 0 .. n - 1
<1>1. IsFiniteSet(A) /\ Cardinality(A) = n /\ IsFiniteSet(B) /\ Cardinality(B) = n
  <2>1. Cardinality(A) = n
    BY FS_Interval
  <2>2. Cardinality(B) = n
    <3>1. CASE n = 0
      <4>1. B = {}
        BY <3>1
      <4> QED  BY <4>1, <3>1, FS_EmptySet
    <3>2. CASE n # 0
      <4>1. n - 1 \in Int /\ 0 \in Int /\ ~(0 > n - 1) /\ n - 1 - 0 + 1 = n
        BY <3>2
      <4> QED  BY <4>1, FS_Interval
    <3> QED  BY <3>1, <3>2
  <2> QED  BY <2>1, <2>2, FS_Interval
<1>2. id \in Injection(A, B)
  BY DEF Injection, IsInjective
<1> HIDE DEF A, B
<1>3. id \in Surjection(A, B)
  BY <1>1, <1>2, FS_Injection
<1>4. id \in [A -> B] /\ \A b \in B : \E a \in A : id[a] = b
  BY <1>3 DEF Surjection
<1> QED  BY <1>4 DEF A, B

-----------------------------------------------------------------------------
\* What Open checked of the places, in true arithmetic.
LEMMA AcceptedPlaces ==
  ASSUME FileTyped, Accepted
  PROVE  /\ header.size = size
         /\ header.tables \in Nat \ {0} /\ header.points \in Nat \ {0} /\ header.page \in Nat \ {0}
         /\ header.data \in Nat /\ header.pages \in Nat /\ header.dimensions \in Nat
         /\ header.data >= HeaderBytes + header.tables * RootBytes
                           + (header.tables * header.dimensions) * CoordinateBytes
<1> DEFINE tb == header.tables
           dm == header.dimensions
           pj == header.projections
<1>1. /\ tb \in Nat /\ dm \in Nat /\ pj \in Nat /\ header.data \in Nat /\ header.points \in Nat
      /\ header.page \in Nat /\ header.pages \in Nat
  BY DEF FileTyped, FileHeader
<1>2. EnvelopeOK
  BY DEF Accepted
<1>3. /\ header.size = size /\ tb # 0 /\ header.points # 0 /\ header.page # 0
  BY <1>1, <1>2, FileConstants DEF EnvelopeOK, LimitsOK, InRange
<1>4. /\ MultiplyFits(tb, RootBytes) /\ MultiplyFits(tb, dm)
      /\ MultiplyFits(Multiply(tb, dm), CoordinateBytes)
      /\ AddFits(HeaderBytes, Multiply(tb, RootBytes))
      /\ AddFits(pj, Multiply(Multiply(tb, dm), CoordinateBytes))
      /\ pj = Add(HeaderBytes, Multiply(tb, RootBytes))
      /\ Add(pj, Multiply(Multiply(tb, dm), CoordinateBytes)) <= header.data
  BY <1>2 DEF EnvelopeOK, OffsetsOK, Coordinates, ProjectionsEnd
<1> HIDE DEF tb, dm, pj
<1>5. tb * RootBytes \in Nat /\ Multiply(tb, RootBytes) = tb * RootBytes
  BY <1>1, <1>4, CheckedProduct, FileConstants
<1>6. tb * dm \in Nat /\ Multiply(tb, dm) = tb * dm
  BY <1>1, <1>4, CheckedProduct
<1>7. /\ (tb * dm) * CoordinateBytes \in Nat
      /\ Multiply(tb * dm, CoordinateBytes) = (tb * dm) * CoordinateBytes
  BY <1>4, <1>6, CheckedProduct, FileConstants
<1>8. pj = HeaderBytes + tb * RootBytes
  BY <1>4, <1>5, CheckedSum, FileConstants
<1>9. pj + (tb * dm) * CoordinateBytes <= header.data
  BY <1>1, <1>4, <1>6, <1>7, CheckedSum
<1> QED  BY <1>1, <1>3, <1>8, <1>9 DEF tb, dm, pj

LEMMA AcceptedReads ==
  ASSUME FileTyped, Accepted
  PROVE  LET behind == HeaderBytes + header.tables * (RootBytes + header.dimensions * CoordinateBytes)
         IN  /\ header.data >= behind
             /\ IF header.layout = "tree"
                  THEN header.data + header.pages * header.page <= size
                  ELSE \A t \in 1 .. header.tables :
                         /\ roots[t] >= behind
                         /\ roots[t] + header.points * EntryBytes <= size
<1> DEFINE behind == HeaderBytes + header.tables * (RootBytes + header.dimensions * CoordinateBytes)
           tb == header.tables
           dm == header.dimensions
           dt == header.data
           pt == header.points
<1>1. /\ header.size = size /\ tb \in Nat \ {0} /\ pt \in Nat \ {0} /\ dt \in Nat /\ dm \in Nat
      /\ header.pages \in Nat /\ header.page \in Nat
      /\ dt >= HeaderBytes + tb * RootBytes + (tb * dm) * CoordinateBytes
  BY AcceptedPlaces
<1>2. behind = HeaderBytes + tb * (RootBytes + dm * CoordinateBytes)
  OBVIOUS
<1> HIDE DEF behind, tb, dm, dt, pt
<1>3. tb * (RootBytes + dm * CoordinateBytes) = tb * RootBytes + (tb * dm) * CoordinateBytes
  BY <1>1, FileConstants
<1>4. behind \in Nat /\ dt >= behind
  BY <1>1, <1>2, <1>3, FileConstants
<1>5. ASSUME header.layout = "tree"
      PROVE  dt + header.pages * header.page <= size
  <2>1. TreeEnvelopeOK
    BY <1>5 DEF Accepted, EnvelopeOK
  <2>2. Multiply(header.pages, header.page) = header.pages * header.page
    BY <1>1, <2>1, CheckedProduct DEF TreeEnvelopeOK
  <2>3. header.pages * header.page \in Nat
    BY <1>1
  <2>4. Add(dt, header.pages * header.page) = dt + header.pages * header.page
    BY <1>1, <2>1, <2>2, <2>3, CheckedSum DEF TreeEnvelopeOK, dt
  <2>5. header.size = Add(dt, Multiply(header.pages, header.page))
    BY <2>1 DEF TreeEnvelopeOK, dt
  <2> QED  BY <1>1, <2>2, <2>3, <2>4, <2>5
<1>6. ASSUME header.layout = "array", NEW t \in 1 .. tb
      PROVE  roots[t] >= behind /\ roots[t] + pt * EntryBytes <= size
  <2>1. LoadArray
    BY <1>6 DEF Accepted
  <2>2. roots[t] = dt + (t - 1) * pt * EntryBytes /\ roots[t] + pt * EntryBytes <= size
    BY <1>1, <1>6, <2>1 DEF LoadArray, tb, dt, pt
  <2>3. (t - 1) * pt * EntryBytes \in Nat
    <3>1. t - 1 \in Nat
      BY <1>1
    <3>2. (t - 1) * pt \in Nat
      BY <1>1, <3>1
    <3> QED  BY <3>2, FileConstants
  <2> QED  BY <1>1, <1>4, <2>2, <2>3
<1>7. header.layout \in {"tree", "array"}
  BY DEF FileTyped, FileHeader
<1> QED  BY <1>4, <1>5, <1>6, <1>7 DEF behind, tb, dt, pt, dm

\* What Open checked of the tables.
LEMMA AcceptedTables ==
  ASSUME FileTyped, Accepted, header.layout = "array", NEW t \in 1 .. header.tables
  PROVE  /\ {OpenTable(t)[i].id : i \in 1 .. header.points} = 0 .. header.points - 1
         /\ \A i, j \in 1 .. header.points : i < j => KeyLess(OpenTable(t)[i], OpenTable(t)[j])
<1> DEFINE n == header.points
           table == OpenTable(t)
<1>1. n \in Nat
  BY DEF FileTyped, FileHeader
<1>2. PICK T, P \in Nat \ {0} : tables \in [1 .. T -> [1 .. P -> FileEntry]]
  BY DEF FileTyped
<1>3. RootsAreRead /\ IsTable(table)
  BY DEF Accepted, LoadArray
<1>4. table \in [1 .. n -> FileEntry]
  <2>1. roots[t] \in Nat
    <3>1. roots \in Seq(Nat) /\ header.tables \in Nat /\ Len(roots) \in Nat
      BY DEF FileTyped, FileHeader
    <3>2. t \in 1 .. Len(roots)
      BY <1>3, <3>1 DEF RootsAreRead
    <3> QED  BY <3>1, <3>2
  <2>2. ASSUME NEW i \in 1 .. n PROVE EntryAt(roots[t] + (i - 1) * EntryBytes) \in FileEntry
    <3>1. roots[t] + (i - 1) * EntryBytes \in Int
      BY <1>1, <2>1, FileConstants
    <3>2. base \in Nat
      BY DEF FileTyped
    <3> QED  BY <1>2, <3>1, <3>2, FileEntryAt
  <2> QED  BY <2>2 DEF OpenTable
<1> HIDE DEF table
<1>5. \A i, j \in 1 .. n : i < j => KeyLess(table[i], table[j])
  <2>1. \A i \in DOMAIN table \ {1} : KeyLess(table[i - 1], table[i])
    BY <1>3 DEF IsTable
  <2> HIDE DEF n
  <2> QED  BY <1>1, <1>4, <2>1, NeighboursInOrder
<1>6. {table[i].id : i \in 1 .. n} = 0 .. n - 1
  <2> DEFINE id == [i \in 1 .. n |-> table[i].id]
  <2>1. DOMAIN table = 1 .. n
    BY <1>4
  <2>2. id \in [1 .. n -> 0 .. n - 1]
    <3>1. ASSUME NEW i \in 1 .. n PROVE table[i].id \in 0 .. n - 1
      <4>1. table[i].id \in Nat
        BY <1>4 DEF FileEntry
      <4>2. 0 <= table[i].id /\ table[i].id <= n - 1
        BY <1>3, <2>1 DEF IsTable, InRange
      <4> QED  BY <1>1, <4>1, <4>2
    <3> QED  BY <3>1
  <2>3. \A i, j \in 1 .. n : id[i] = id[j] => i = j
    BY <1>3, <2>1 DEF IsTable
  <2>4. {id[i] : i \in 1 .. n} = {table[i].id : i \in 1 .. n}
    OBVIOUS
  <2>5. {id[i] : i \in 1 .. n} = 0 .. n - 1
    <3> HIDE DEF id, n
    <3> QED  BY <1>1, <2>2, <2>3, AllBelow
  <2> QED  BY <2>4, <2>5
<1> QED  BY <1>5, <1>6 DEF table
-----------------------------------------------------------------------------
LEMMA PageCapacities ==
  ASSUME NEW page \in MinPage .. MaxPage
  PROVE  /\ page \in Nat \ {0}
         /\ RegionCapacity(page) \in Nat \ {0}
         /\ InternalCapacity(page) \in Nat /\ InternalCapacity(page) >= 2
<1> DEFINE low == MinPage - PageHeaderBytes
           high == page - PageHeaderBytes
<1>1. page \in Nat \ {0} /\ low \in Int /\ high \in Int /\ low <= high
  BY FileConstants
<1>2. low \div EntryBytes > 0 /\ low \div ChildBytes > 1
  BY IndexFileAssumption
<1> HIDE DEF low, high
<1>3. /\ high \div EntryBytes \in Int /\ low \div EntryBytes <= high \div EntryBytes
      /\ low \div EntryBytes \in Int
  BY <1>1, FileConstants
<1>4. /\ high \div ChildBytes \in Int /\ low \div ChildBytes <= high \div ChildBytes
      /\ low \div ChildBytes \in Int
  BY <1>1, FileConstants
<1> QED  BY <1>1, <1>2, <1>3, <1>4 DEF RegionCapacity, InternalCapacity, high

LEMMA CeilingBounds ==
  ASSUME NEW a \in Nat \ {0}, NEW b \in Nat \ {0}
  PROVE  /\ Ceiling(a, b) \in 1 .. a
         /\ Ceiling(a, b) = ((a - 1) \div b) + 1
         /\ a >= 2 /\ b >= 2 => Ceiling(a, b) \in 1 .. a - 1
<1> DEFINE q == (a - 1) \div b
<1>1. (a + b - 1) \div b = q + 1
  <2>1. a + b - 1 = (a - 1) + b
    OBVIOUS
  <2> DEFINE r == a - 1
  <2>2. r \in Nat
    OBVIOUS
  <2> HIDE DEF r
  <2>3. (r + b) \div b = (r \div b) + 1
    BY <2>2
  <2> QED  BY <2>1, <2>3 DEF r
<1>2. q \in Nat /\ b * q <= a - 1
  OBVIOUS
<1>3. Ceiling(a, b) = q + 1
  BY <1>1 DEF Ceiling
<1> HIDE DEF q
<1>4. q <= b * q /\ (b >= 2 => 2 * q <= b * q)
  BY <1>2
<1>5. Ceiling(a, b) \in 1 .. a
  BY <1>2, <1>3, <1>4
<1>6. a >= 2 /\ b >= 2 => Ceiling(a, b) \in 1 .. a - 1
  <2> SUFFICES ASSUME a >= 2, b >= 2 PROVE q + 1 \in 1 .. a - 1
    BY <1>3
  <2>1. 2 * q <= a - 1
    BY <1>2, <1>4
  <2> QED  BY <1>2, <2>1
<1> QED  BY <1>3, <1>5, <1>6 DEF q

LEMMA CeilingDrops ==
  ASSUME NEW a \in Nat, NEW b \in Nat, a >= 2, b >= 2
  PROVE  Ceiling(a, b) \in 1 .. a - 1
<1> a \in Nat \ {0} /\ b \in Nat \ {0}
  OBVIOUS
<1> QED  BY CeilingBounds

\* The levels of a tree: the recursion on page counts is well-founded.
LEMMA TreeLevels ==
  ASSUME NEW L \in Nat \ {0}, NEW K \in Nat, K >= 2
  PROVE  \A n \in 1 .. L : \E g \in [1 .. n -> Nat \ {0}] : \A count \in 1 .. n :
           g[count] = IF count = 1 THEN 1 ELSE count + g[Ceiling(count, K)]
<1> DEFINE Levels(g, n) == \A count \in 1 .. n :
             g[count] = IF count = 1 THEN 1 ELSE count + g[Ceiling(count, K)]
           Bad == {n \in 1 .. L : ~ \E g \in [1 .. n -> Nat \ {0}] : Levels(g, n)}
<1> SUFFICES ASSUME Bad # {} PROVE FALSE
  OBVIOUS
<1>1. PICK n \in Bad : \A k \in Bad : n <= k
  <2>1. Bad \in SUBSET Nat
    OBVIOUS
  <2> HIDE DEF Bad
  <2> QED  BY <2>1, LeastNatural
<1>2. n \in 1 .. L /\ ~ \E g \in [1 .. n -> Nat \ {0}] : Levels(g, n)
  BY <1>1
<1>3. CASE n = 1
  <2> DEFINE g == [count \in 1 .. 1 |-> 1]
  <2>1. g \in [1 .. n -> Nat \ {0}] /\ Levels(g, n)
    BY <1>3
  <2> QED  BY <1>2, <2>1
<1>4. CASE n # 1
  <2>1. n - 1 \in 1 .. L /\ n - 1 \notin Bad
    <3>1. n - 1 \in 1 .. L
      BY <1>2, <1>4
    <3>2. n - 1 \in Bad => n <= n - 1
      BY <1>1
    <3> HIDE DEF Bad
    <3> QED  BY <1>2, <3>1, <3>2
  <2>2. PICK h \in [1 .. n - 1 -> Nat \ {0}] : Levels(h, n - 1)
    BY <2>1
  <2>3. Ceiling(n, K) \in 1 .. n - 1
    <3>1. n \in Nat /\ n >= 2
      BY <1>2, <1>4
    <3> QED  BY <3>1, CeilingDrops
  <2> DEFINE g == [count \in 1 .. n |-> IF count = n THEN n + h[Ceiling(n, K)] ELSE h[count]]
  <2>4. g \in [1 .. n -> Nat \ {0}]
    <3>1. n + h[Ceiling(n, K)] \in Nat \ {0}
      BY <1>2, <2>3
    <3>2. \A count \in 1 .. n : count # n => h[count] \in Nat \ {0}
      BY <1>2
    <3> QED  BY <3>1, <3>2
  <2>5. ASSUME NEW count \in 1 .. n
        PROVE  g[count] = IF count = 1 THEN 1 ELSE count + g[Ceiling(count, K)]
    <3>1. CASE count = n
      <4>1. g[n] = n + h[Ceiling(n, K)]
        BY <1>2
      <4>2. g[Ceiling(n, K)] = h[Ceiling(n, K)]
        BY <1>2, <2>3
      <4> HIDE DEF g
      <4> QED  BY <1>4, <3>1, <4>1, <4>2
    <3>2. CASE count # n
      <4>1. count \in 1 .. n - 1
        BY <1>2, <3>2
      <4>2. g[count] = h[count]
        BY <3>2
      <4>3. h[count] = IF count = 1 THEN 1 ELSE count + h[Ceiling(count, K)]
        BY <2>2, <4>1
      <4>4. count # 1 => g[Ceiling(count, K)] = h[Ceiling(count, K)]
        <5> SUFFICES ASSUME count # 1 PROVE g[Ceiling(count, K)] = h[Ceiling(count, K)]
          OBVIOUS
        <5>1. Ceiling(count, K) \in 1 .. count - 1
          <6>1. count \in Nat /\ count >= 2
            BY <1>2, <4>1
          <6> QED  BY <6>1, CeilingDrops
        <5>2. Ceiling(count, K) \in 1 .. n /\ Ceiling(count, K) # n
          BY <1>2, <4>1, <5>1
        <5> QED  BY <5>2
      <4> HIDE DEF g
      <4> QED  BY <4>2, <4>3, <4>4
    <3> QED  BY <3>1, <3>2
  <2>6. Levels(g, n)
    BY <2>5
  <2> QED  BY <1>2, <2>4, <2>6
<1> QED  BY <1>3, <1>4

\* A tree has pages.
LEMMA TreeHasPages ==
  ASSUME NEW L \in Nat \ {0}, NEW page, InternalCapacity(page) \in Nat, InternalCapacity(page) >= 2
  PROVE  TreePages(L, page) \in Nat \ {0}
<1> DEFINE K == InternalCapacity(page)
           pages[count \in 1 .. L] ==
             IF count = 1 THEN 1 ELSE count + pages[Ceiling(count, InternalCapacity(page))]
<1>1. PICK g \in [1 .. L -> Nat \ {0}] : \A count \in 1 .. L :
        g[count] = IF count = 1 THEN 1 ELSE count + g[Ceiling(count, K)]
  <2>1. K \in Nat /\ K >= 2 /\ L \in 1 .. L
    OBVIOUS
  <2> HIDE DEF K
  <2> QED  BY <2>1, TreeLevels
<1>2. g = [count \in 1 .. L |-> IF count = 1 THEN 1 ELSE count + g[Ceiling(count, K)]]
  BY <1>1
<1>3. pages = [count \in 1 .. L |-> IF count = 1 THEN 1 ELSE count + pages[Ceiling(count, K)]]
  BY <1>2
<1>4. TreePages(L, page) = pages[L]
  BY DEF TreePages
<1> HIDE DEF pages
<1> DEFINE Bad == {count \in 1 .. L : pages[count] \notin Nat \ {0}}
<1>5. Bad = {}
  <2> SUFFICES ASSUME Bad # {} PROVE FALSE
    OBVIOUS
  <2>1. PICK n \in Bad : \A k \in Bad : n <= k
    <3>1. Bad \in SUBSET Nat
      OBVIOUS
    <3> HIDE DEF Bad
    <3> QED  BY <3>1, LeastNatural
  <2>2. pages[n] = IF n = 1 THEN 1 ELSE n + pages[Ceiling(n, K)]
    BY <1>3, <2>1
  <2>3. n # 1 => Ceiling(n, K) \in 1 .. n - 1
    <3> SUFFICES ASSUME n # 1 PROVE Ceiling(n, K) \in 1 .. n - 1
      OBVIOUS
    <3>1. n \in Nat /\ n >= 2 /\ K \in Nat /\ K >= 2
      BY <2>1
    <3> HIDE DEF K
    <3> QED  BY <3>1, CeilingDrops
  <2>4. n # 1 => pages[Ceiling(n, K)] \in Nat \ {0}
    BY <2>1, <2>3
  <2> HIDE DEF K
  <2> QED  BY <2>1, <2>2, <2>4
<1> QED  BY <1>4, <1>5
-----------------------------------------------------------------------------
LEMMA AlignUpBounds ==
  ASSUME NEW v \in Nat, NEW a \in Nat \ {0}
  PROVE  AlignUp(v, a) \in Nat /\ AlignUp(v, a) >= v /\ AlignUp(v, a) % a = 0
<1> DEFINE r == v % a
           q == v \div a
<1>1. r \in 0 .. a - 1 /\ q \in Nat /\ v = a * q + r
  OBVIOUS
<1>2. AlignUp(v, a) = IF r = 0 THEN v ELSE v + (a - r)
  BY DEF AlignUp
<1> HIDE DEF r, q
<1>3. CASE r = 0
  BY <1>1, <1>2, <1>3 DEF r
<1>4. CASE r # 0
  <2>1. v + (a - r) = a * (q + 1)
    BY <1>1
  <2>2. (a * (q + 1)) % a = 0
    BY <1>1
  <2> QED  BY <1>1, <1>2, <1>4, <2>1, <2>2
<1> QED  BY <1>3, <1>4

LEMMA ConfigNumbers ==
  ASSUME NEW c \in Configs
  PROVE  /\ c.layout \in {"tree", "array"}
         /\ c.points \in Nat \ {0} /\ c.points <= MaxPoints
         /\ c.dimensions \in Nat \ {0} /\ c.dimensions <= MaxDimensions
         /\ c.tables \in Nat \ {0} /\ c.tables <= MaxTables
         /\ c.page \in Nat \ {0} /\ c.page \in MinPage .. MaxPage /\ c.page % PageUnit = 0
BY ConfigsAssumption, FileConstants DEF IsConfig

LEMMA TablePages ==
  ASSUME NEW c \in Configs
  PROVE  /\ PagesPerTable(c) \in Nat \ {0}
         /\ c.layout = "array" =>
              /\ PagesPerTable(c) = ((c.points - 1) \div RegionCapacity(c.page)) + 1
              /\ PagesPerTable(c) <= c.points
<1> DEFINE regions == Ceiling(c.points, RegionCapacity(c.page))
<1>1. /\ RegionCapacity(c.page) \in Nat \ {0}
      /\ InternalCapacity(c.page) \in Nat /\ InternalCapacity(c.page) >= 2
  BY ConfigNumbers, PageCapacities
<1>2. /\ regions \in 1 .. c.points
      /\ regions = ((c.points - 1) \div RegionCapacity(c.page)) + 1
  BY <1>1, ConfigNumbers, CeilingBounds
<1>3. PagesPerTable(c) = IF c.layout = "array" THEN regions ELSE TreePages(regions, c.page)
  BY DEF PagesPerTable
<1> HIDE DEF regions
<1>4. regions \in Nat \ {0}
  BY <1>2, ConfigNumbers
<1>5. TreePages(regions, c.page) \in Nat \ {0}
  BY <1>1, <1>4, TreeHasPages
<1>6. c.points \in Nat
  BY ConfigNumbers
<1> QED  BY <1>2, <1>3, <1>4, <1>5, <1>6

\* The places Build gives to the regions.
LEMMA BuiltPlaces ==
  ASSUME NEW c \in Configs
  PROVE  LET h == HeaderOf(c)
             coordinates == (c.tables * c.dimensions) * CoordinateBytes
         IN  /\ h \in FileHeader
             /\ h.layout = c.layout /\ h.points = c.points /\ h.dimensions = c.dimensions
             /\ h.tables = c.tables /\ h.page = c.page /\ h.roots = HeaderBytes
             /\ c.tables * RootBytes \in Nat /\ c.tables * c.dimensions \in Nat
             /\ coordinates \in Nat
             /\ h.projections = HeaderBytes + c.tables * RootBytes
             /\ h.projections + coordinates <= h.data /\ h.data % c.page = 0
             /\ h.pages = 1 + c.tables * PagesPerTable(c) /\ c.tables * PagesPerTable(c) \in Nat \ {0}
             /\ c.layout = "array" => h.size = h.data + (c.points * c.tables) * EntryBytes
             /\ c.layout = "tree" => h.size = h.data + h.pages * c.page
<1> DEFINE m == c.tables
           n == c.points
           d == c.dimensions
           g == c.page
           ppt == PagesPerTable(c)
           proj == HeaderBytes + m * RootBytes
           co == (m * d) * CoordinateBytes
           data == AlignUp(proj + co, g)
           total == IF c.layout = "array" THEN n * m * EntryBytes ELSE (1 + m * ppt) * g
<1>1. /\ m \in Nat \ {0} /\ n \in Nat \ {0} /\ d \in Nat \ {0} /\ g \in Nat \ {0}
      /\ ppt \in Nat \ {0} /\ c.layout \in {"tree", "array"}
  BY ConfigNumbers, TablePages
<1>2. HeaderOf(c) =
        [layout |-> c.layout, points |-> n, dimensions |-> d, tables |-> m, page |-> g,
         roots |-> HeaderBytes, projections |-> proj, data |-> data,
         pages |-> 1 + m * ppt, size |-> data + total]
  BY DEF HeaderOf, PageCount, DataBytes
<1> HIDE DEF m, n, d, g, ppt
<1>3. m * RootBytes \in Nat /\ m * d \in Nat
  BY <1>1, FileConstants
<1>4. co \in Nat
  BY <1>3, FileConstants
<1>5. proj \in Nat
  BY <1>3, FileConstants
<1> HIDE DEF proj, co
<1>6. data \in Nat /\ data >= proj + co /\ data % g = 0
  BY <1>1, <1>4, <1>5, AlignUpBounds
<1>7. m * ppt \in Nat \ {0}
  BY <1>1
<1>8. total \in Nat
  <2>1. n * m \in Nat
    BY <1>1
  <2>2. n * m * EntryBytes \in Nat
    BY <2>1, FileConstants
  <2>3. (1 + m * ppt) * g \in Nat
    <3>1. 1 + m * ppt \in Nat
      BY <1>7
    <3> QED  BY <1>1, <3>1
  <2> QED  BY <2>2, <2>3
<1> HIDE DEF data
<1>9. /\ c.layout = "array" => total = (n * m) * EntryBytes
      /\ c.layout = "tree" => total = (1 + m * ppt) * g
  BY <1>1
<1> HIDE DEF total
<1>10. HeaderOf(c) \in FileHeader
  BY <1>1, <1>2, <1>5, <1>6, <1>7, <1>8, FileConstants DEF FileHeader
<1> USE DEF m, n, d, g, ppt, proj, co
<1> QED  BY <1>1, <1>2, <1>3, <1>4, <1>6, <1>7, <1>9, <1>10

LEMMA BuiltRoots ==
  ASSUME NEW c \in Configs
  PROVE  RootsOf(c) \in Seq(Nat) /\ Len(RootsOf(c)) = c.tables
<1>1. c.tables \in Nat /\ c.points \in Nat /\ PagesPerTable(c) \in Nat /\ HeaderOf(c).data \in Nat
  BY ConfigNumbers, TablePages, BuiltPlaces DEF FileHeader
<1>2. RootsOf(c) \in [1 .. c.tables -> Nat]
  <2>1. ASSUME NEW t \in 1 .. c.tables
        PROVE  /\ t * PagesPerTable(c) \in Nat
               /\ HeaderOf(c).data + (t - 1) * c.points * EntryBytes \in Nat
    <3>1. t \in Nat /\ t - 1 \in Nat
      BY <1>1
    <3>2. t * PagesPerTable(c) \in Nat /\ (t - 1) * c.points \in Nat
      BY <1>1, <3>1
    <3>3. (t - 1) * c.points * EntryBytes \in Nat
      BY <3>2, FileConstants
    <3> QED  BY <1>1, <3>2, <3>3
  <2> QED  BY <2>1 DEF RootsOf
<1> HIDE DEF RootsOf
<1> QED  BY <1>1, <1>2

LEMMA BuiltTables ==
  ASSUME NEW c \in Configs, c.layout = "array",
         NEW value \in [0 .. c.points - 1 -> ValueRange],
         NEW tb \in WrittenTables(c, value)
  PROVE  /\ tb \in [1 .. c.tables -> [1 .. c.points -> FileEntry]]
         /\ \A t \in 1 .. c.tables : \A i, j \in 1 .. c.points :
              /\ tb[t][i].id \in 0 .. c.points - 1
              /\ i < j => KeyLess(tb[t][i], tb[t][j])
              /\ tb[t][i].id = tb[t][j].id => i = j
<1> DEFINE n == c.points
           S(t) == {[value |-> value[(p + t) % n], id |-> p] : p \in 0 .. n - 1}
<1>1. n \in Nat \ {0} /\ c.tables \in Nat
  BY ConfigNumbers
<1>2. DOMAIN value = 0 .. n - 1
  OBVIOUS
<1>3. DOMAIN tb = 1 .. c.tables /\ \A t \in 1 .. c.tables : tb[t] \in InOrder(S(t))
  BY <1>2 DEF WrittenTables
<1>4. ASSUME NEW t \in 1 .. c.tables
      PROVE  /\ S(t) \in SUBSET FileEntry /\ Cardinality(S(t)) = n
             /\ \A e \in S(t) : e.id \in 0 .. n - 1
             /\ \A e, f \in S(t) : e.id = f.id => e = f
  <2> DEFINE B == 0 .. n - 1
             f == [p \in B |-> [value |-> value[(p + t) % n], id |-> p]]
  <2>1. ASSUME NEW p \in B PROVE (p + t) % n \in B
    BY <1>1
  <2>2. S(t) \in SUBSET FileEntry
    <3>1. ASSUME NEW p \in B PROVE [value |-> value[(p + t) % n], id |-> p] \in FileEntry
      <4>1. value[(p + t) % n] \in Int
        BY <2>1, ConfigsAssumption
      <4> QED  BY <4>1 DEF FileEntry
    <3> QED  BY <3>1
  <2>3. f \in Bijection(B, S(t))
    BY DEF Bijection, Injection, Surjection, IsInjective
  <2>4. IsFiniteSet(B) /\ Cardinality(B) = n
    <3>1. n - 1 \in Int /\ ~(0 > n - 1) /\ n - 1 - 0 + 1 = n
      BY <1>1
    <3> QED  BY <3>1, FS_Interval
  <2>5. Cardinality(S(t)) = n
    <3> DEFINE T == S(t)
    <3>1. ExistsBijection(B, T)
      BY <2>3 DEF ExistsBijection
    <3> HIDE DEF T, B
    <3>2. Cardinality(T) = n
      BY <2>4, <3>1, FS_Bijection
    <3> QED  BY <3>2 DEF T
  <2> QED  BY <2>2, <2>5
<1> HIDE DEF S
<1>5. ASSUME NEW t \in 1 .. c.tables
      PROVE  /\ tb[t] \in [1 .. n -> FileEntry]
             /\ \A i, j \in 1 .. n : i < j => KeyLess(tb[t][i], tb[t][j])
             /\ \A i \in 1 .. n : tb[t][i] \in S(t)
  <2>1. /\ tb[t] \in [1 .. n -> S(t)]
        /\ \A i, j \in DOMAIN tb[t] : i < j => KeyLess(tb[t][i], tb[t][j])
    BY <1>3, <1>4 DEF InOrder
  <2> QED  BY <1>4, <2>1
<1>6. tb \in [1 .. c.tables -> [1 .. n -> FileEntry]]
  <2>1. tb = [t \in 1 .. c.tables |-> tb[t]]
    BY <1>3 DEF WrittenTables
  <2> QED  BY <1>5, <2>1
<1>7. ASSUME NEW t \in 1 .. c.tables, NEW i \in 1 .. n, NEW j \in 1 .. n
      PROVE  /\ tb[t][i].id \in 0 .. n - 1
             /\ i < j => KeyLess(tb[t][i], tb[t][j])
             /\ tb[t][i].id = tb[t][j].id => i = j
  <2>1. tb[t][i] \in S(t) /\ tb[t][j] \in S(t) /\ tb[t][i] \in FileEntry
    BY <1>5
  <2>2. tb[t][i].id = tb[t][j].id => tb[t][i] = tb[t][j]
    BY <1>4, <2>1
  <2>3. ~KeyLess(tb[t][i], tb[t][i])
    BY <2>1, KeyLessOrder
  <2>4. i < j \/ j < i \/ i = j
    OBVIOUS
  <2>5. (i < j => KeyLess(tb[t][i], tb[t][j])) /\ (j < i => KeyLess(tb[t][j], tb[t][i]))
    BY <1>5
  <2>6. tb[t][i].id \in 0 .. n - 1
    BY <1>4, <2>1
  <2> QED  BY <2>2, <2>3, <2>4, <2>5, <2>6
<1> QED  BY <1>6, <1>7
-----------------------------------------------------------------------------
\* The entry Build wrote at a place is the one that is read from there.
LEMMA WrittenEntryIsRead ==
  ASSUME NEW m \in Nat \ {0}, NEW n \in Nat \ {0}, tables \in [1 .. m -> [1 .. n -> FileEntry]],
         base \in Nat, NEW t \in 1 .. m, NEW i \in 1 .. n
  PROVE  EntryAt(base + (t - 1) * n * EntryBytes + (i - 1) * EntryBytes) = tables[t][i]
<1> DEFINE k == (t - 1) * n + (i - 1)
           offset == base + (t - 1) * n * EntryBytes + (i - 1) * EntryBytes
<1>1. Len(tables) = m /\ Len(tables[1]) = n
  <2>1. tables \in Seq([1 .. n -> FileEntry]) /\ Len(tables) = m
    OBVIOUS
  <2>2. tables[1] \in [1 .. n -> FileEntry]
    OBVIOUS
  <2> QED  BY <2>1, <2>2
<1>2. t - 1 \in Nat /\ i - 1 \in Nat /\ i - 1 < n /\ t - 1 <= m - 1
  OBVIOUS
<1>3. (t - 1) * n \in Nat /\ (t - 1) * n <= (m - 1) * n
  BY <1>2
<1>4. k \in Nat /\ k < n * m
  <2> DEFINE x == (t - 1) * n
  <2>1. (m - 1) * n = n * m - n /\ n * m \in Nat
    OBVIOUS
  <2>2. x \in Nat /\ x <= n * m - n /\ k = x + (i - 1)
    BY <1>3, <2>1
  <2> HIDE DEF x, k
  <2> QED  BY <1>2, <2>1, <2>2
<1>5. k \div n = t - 1 /\ k % n = i - 1
  <2> DEFINE a == t - 1
             r == i - 1
  <2>1. a \in Nat /\ r \in Nat /\ r < n
    BY <1>2
  <2> HIDE DEF a, r
  <2>2. (a * n + r) \div n = a /\ (a * n + r) % n = r
    BY <2>1
  <2> QED  BY <2>2 DEF a, r
<1>6. offset - base = k * EntryBytes
  <2> DEFINE a == t - 1
             r == i - 1
  <2>1. a \in Nat /\ r \in Nat /\ EntryBytes \in Nat
    BY <1>2, FileConstants
  <2> HIDE DEF a, r
  <2>2. (base + a * n * EntryBytes + r * EntryBytes) - base = (a * n + r) * EntryBytes
    BY <2>1
  <2> QED  BY <2>2, Zenon DEF a, r
<1> HIDE DEF k
<1>7. (k * EntryBytes) \div EntryBytes = k /\ (k * EntryBytes) % EntryBytes = 0
  BY <1>4, FileConstants
<1>8. k * EntryBytes \in Nat
  BY <1>4, FileConstants
<1>9. offset >= base
  <2>1. offset \in Int
    <3>1. (t - 1) * n * EntryBytes \in Int /\ (i - 1) * EntryBytes \in Int
      BY <1>2, <1>3, FileConstants
    <3> QED  BY <3>1
  <2> HIDE DEF offset
  <2> QED  BY <1>6, <1>8, <2>1
<1> HIDE DEF offset
<1>10. EntryAt(offset) = tables[(k \div n) + 1][(k % n) + 1]
  BY <1>1, <1>4, <1>6, <1>7, <1>9 DEF EntryAt
<1>11. EntryAt(offset) = tables[t][i]
  BY <1>5, <1>10
<1> QED  BY <1>11 DEF offset

LEMMA PristineLimits ==
  ASSUME NEW c \in Configs, header = HeaderOf(c)
  PROVE  LimitsOK
BY ConfigNumbers, BuiltPlaces DEF LimitsOK, InRange

LEMMA PristineOffsets ==
  ASSUME NEW c \in Configs, header = HeaderOf(c), header.size <= MaxWord
  PROVE  OffsetsOK
<1> DEFINE m == c.tables
           d == c.dimensions
           co == (m * d) * CoordinateBytes
           pj == header.projections
           dt == header.data
           sz == header.size
<1>1. /\ header.tables = m /\ header.dimensions = d /\ header.page = c.page
      /\ header.roots = HeaderBytes
      /\ m * RootBytes \in Nat /\ m * d \in Nat /\ co \in Nat
      /\ pj = HeaderBytes + m * RootBytes
      /\ pj + co <= dt /\ dt % c.page = 0
  BY BuiltPlaces
<1>2. m \in Nat \ {0} /\ d \in Nat \ {0}
  BY ConfigNumbers
<1>3. dt \in Nat /\ sz \in Nat /\ dt <= sz
  <2>1. header \in FileHeader
    BY BuiltPlaces
  <2>2. dt \in Nat /\ sz \in Nat
    BY <2>1 DEF FileHeader
  <2>3. c.points * c.tables \in Nat /\ header.pages * c.page \in Nat
    <3>1. c.points \in Nat /\ c.tables \in Nat /\ c.page \in Nat /\ header.pages \in Nat
      BY <2>1, ConfigNumbers DEF FileHeader
    <3> QED  BY <3>1
  <2>4. (c.points * c.tables) * EntryBytes \in Nat
    BY <2>3, FileConstants
  <2>5. \/ sz = dt + (c.points * c.tables) * EntryBytes
        \/ sz = dt + header.pages * c.page
    BY BuiltPlaces, ConfigNumbers
  <2> HIDE DEF dt, sz
  <2> QED  BY <2>2, <2>3, <2>4, <2>5
<1> HIDE DEF m, d, co, pj, dt, sz
<1>4. sz <= MaxWord /\ MaxWord \in Nat
  BY Words DEF sz
<1>5. m * d <= co
  BY <1>1, FileConstants DEF co
<1>6. /\ m * RootBytes <= MaxWord /\ m * d <= MaxWord /\ co <= MaxWord
      /\ HeaderBytes + m * RootBytes <= MaxWord /\ pj + co <= MaxWord /\ pj \in Nat
  BY <1>1, <1>3, <1>4, <1>5, FileConstants
<1>7. MultiplyFits(m, RootBytes) /\ Multiply(m, RootBytes) = m * RootBytes
  BY <1>2, <1>6, FittingProduct, FileConstants
<1>8. MultiplyFits(m, d) /\ Multiply(m, d) = m * d
  BY <1>2, <1>6, FittingProduct
<1>9. MultiplyFits(m * d, CoordinateBytes) /\ Multiply(m * d, CoordinateBytes) = co
  BY <1>1, <1>6, FittingProduct, FileConstants DEF co
<1>10. /\ AddFits(HeaderBytes, m * RootBytes)
       /\ Add(HeaderBytes, m * RootBytes) = HeaderBytes + m * RootBytes
  BY <1>1, <1>6, FittingSum, FileConstants
<1>11. AddFits(pj, co) /\ Add(pj, co) = pj + co
  BY <1>1, <1>6, FittingSum
<1> QED  BY <1>1, <1>3, <1>7, <1>8, <1>9, <1>10, <1>11
         DEF OffsetsOK, Coordinates, ProjectionsEnd, pj, dt, sz

LEMMA PristineArrayEnvelope ==
  ASSUME NEW c \in Configs, header = HeaderOf(c), header.size <= MaxWord, c.layout = "array"
  PROVE  ArrayEnvelopeOK
<1> DEFINE m == c.tables
           n == c.points
           r == PagesPerTable(c)
           dt == header.data
           sz == header.size
<1>1. /\ header.tables = m /\ header.points = n /\ header.page = c.page
      /\ header.pages = 1 + m * r /\ m * r \in Nat \ {0}
      /\ sz = dt + (n * m) * EntryBytes
  BY BuiltPlaces
<1>2. header \in FileHeader /\ dt \in Nat /\ sz \in Nat
  BY BuiltPlaces DEF FileHeader
<1>3. /\ m \in Nat \ {0} /\ n \in Nat \ {0} /\ r \in Nat \ {0} /\ r <= n
      /\ r = ((n - 1) \div RegionCapacity(c.page)) + 1
  BY ConfigNumbers, TablePages
<1>4. dt >= 1
  <2>1. /\ HeaderBytes + c.tables * RootBytes + (c.tables * c.dimensions) * CoordinateBytes <= dt
        /\ c.tables * RootBytes \in Nat /\ (c.tables * c.dimensions) * CoordinateBytes \in Nat
    BY BuiltPlaces
  <2> HIDE DEF dt
  <2> QED  BY <1>2, <2>1, FileConstants
<1>5. sz <= MaxWord /\ MaxWord \in Nat
  BY Words
<1> HIDE DEF m, n, r, dt, sz
<1>6. n * m \in Nat /\ r * m \in Nat /\ r * m <= n * m /\ r * m = m * r
  BY <1>3
<1> DEFINE total == n * m
           bytes == total * EntryBytes
<1>7. total \in Nat /\ bytes \in Nat /\ total <= bytes
  BY <1>6, FileConstants
<1>8. sz = dt + bytes
  BY <1>1
<1>9. r * m <= total
  BY <1>6
<1> HIDE DEF total, bytes
<1>10. total <= MaxWord /\ bytes <= MaxWord /\ r * m <= MaxWord /\ r * m + 1 <= MaxWord
       /\ dt + bytes <= MaxWord
  BY <1>2, <1>4, <1>5, <1>6, <1>7, <1>8, <1>9
<1>11. MultiplyFits(n, m) /\ Multiply(n, m) = total
  BY <1>3, <1>10, FittingProduct DEF total
<1>12. MultiplyFits(total, EntryBytes) /\ Multiply(total, EntryBytes) = bytes
  BY <1>7, <1>10, FittingProduct, FileConstants DEF bytes
<1>13. MultiplyFits(r, m) /\ Multiply(r, m) = r * m
  BY <1>3, <1>10, FittingProduct
<1>14. AddFits(r * m, 1) /\ Add(r * m, 1) = r * m + 1
  BY <1>6, <1>10, FittingSum
<1>15. AddFits(dt, bytes) /\ Add(dt, bytes) = dt + bytes
  BY <1>2, <1>7, <1>10, FittingSum
<1>16. header.pages = Add(r * m, 1)
  BY <1>1, <1>6, <1>14
<1>17. r = ((header.points - 1) \div RegionCapacity(header.page)) + 1
  BY <1>1, <1>3
<1> QED  BY <1>1, <1>8, <1>11, <1>12, <1>13, <1>15, <1>16, <1>17 DEF ArrayEnvelopeOK, dt, sz

LEMMA PristineTreeEnvelope ==
  ASSUME NEW c \in Configs, header = HeaderOf(c), header.size <= MaxWord, c.layout = "tree"
  PROVE  TreeEnvelopeOK
<1> DEFINE g == c.page
           k == header.pages
           dt == header.data
           sz == header.size
<1>1. header.page = g /\ k = 1 + c.tables * PagesPerTable(c) /\ sz = dt + k * g
  BY BuiltPlaces
<1>2. dt \in Nat /\ sz \in Nat /\ g \in Nat \ {0}
  BY BuiltPlaces, ConfigNumbers DEF FileHeader
<1>3. c.tables * PagesPerTable(c) \in Nat \ {0}
  BY BuiltPlaces
<1>4. sz <= MaxWord /\ MaxWord \in Nat
  BY Words
<1> HIDE DEF g, k, dt, sz
<1>5. k \in Nat /\ k > 1
  BY <1>1, <1>3
<1>6. k * g \in Nat
  BY <1>2, <1>5
<1>7. k * g <= MaxWord /\ dt + k * g <= MaxWord
  BY <1>1, <1>2, <1>4, <1>6
<1>8. MultiplyFits(k, g) /\ Multiply(k, g) = k * g
  BY <1>2, <1>5, <1>7, FittingProduct
<1>9. AddFits(dt, k * g) /\ Add(dt, k * g) = dt + k * g
  BY <1>2, <1>6, <1>7, FittingSum
<1> QED  BY <1>1, <1>5, <1>8, <1>9 DEF TreeEnvelopeOK, k, dt, sz

LEMMA PristineArrayLoads ==
  ASSUME NEW c \in Configs, header = HeaderOf(c), roots = RootsOf(c), base = header.data,
         c.layout = "array", NEW value \in [0 .. c.points - 1 -> ValueRange],
         tables \in WrittenTables(c, value)
  PROVE  LoadArray
<1> DEFINE m == c.tables
           n == c.points
           dt == header.data
           sz == header.size
<1>1. /\ header.tables = m /\ header.points = n
      /\ sz = dt + (n * m) * EntryBytes
  BY BuiltPlaces
<1>2. header \in FileHeader /\ dt \in Nat /\ sz \in Nat
  BY BuiltPlaces DEF FileHeader
<1>3. m \in Nat \ {0} /\ n \in Nat \ {0}
  BY ConfigNumbers
<1>4. RootsAreRead
  BY <1>1, <1>3, BuiltRoots DEF RootsAreRead
<1>5. ASSUME NEW t \in 1 .. m
      PROVE  roots[t] = dt + (t - 1) * n * EntryBytes
  BY DEF RootsOf
<1>6. /\ tables \in [1 .. m -> [1 .. n -> FileEntry]]
      /\ \A t \in 1 .. m : \A i, j \in 1 .. n :
              /\ tables[t][i].id \in 0 .. n - 1
              /\ i < j => KeyLess(tables[t][i], tables[t][j])
              /\ tables[t][i].id = tables[t][j].id => i = j
  BY BuiltTables
<1>7. base = dt
  OBVIOUS
<1> HIDE DEF m, n, dt, sz
<1>8. ASSUME NEW t \in 1 .. m
      PROVE  dt + (t - 1) * n * EntryBytes + n * EntryBytes <= sz
  <2> DEFINE a == t - 1
             b == m - 1
  <2>1. a \in Nat /\ b \in Nat /\ a <= b
    BY <1>3
  <2>2. m = b + 1
    BY <1>3
  <2> HIDE DEF a, b
  <2>3. a * n \in Nat /\ b * n \in Nat /\ a * n <= b * n
    BY <1>3, <2>1
  <2> DEFINE x == a * n
             y == b * n
  <2>4. n * m = y + n
    BY <1>3, <2>1, <2>2
  <2>5. x \in Nat /\ y \in Nat /\ x <= y
    BY <2>3
  <2> HIDE DEF x, y
  <2>6. x * EntryBytes \in Nat /\ y * EntryBytes \in Nat /\ x * EntryBytes <= y * EntryBytes
    BY <2>5, FileConstants
  <2>7. n * EntryBytes \in Nat /\ (y + n) * EntryBytes = y * EntryBytes + n * EntryBytes
    BY <1>3, <2>5, FileConstants
  <2>8. dt + x * EntryBytes + n * EntryBytes <= sz
    BY <1>1, <1>2, <2>4, <2>6, <2>7
  <2> QED  BY <2>8 DEF x, a
<1>9. ASSUME NEW t \in 1 .. m
      PROVE  OpenTable(t) = tables[t]
  <2>1. ASSUME NEW i \in 1 .. n PROVE EntryAt(roots[t] + (i - 1) * EntryBytes) = tables[t][i]
    <3>1. base \in Nat /\ roots[t] = base + (t - 1) * n * EntryBytes
      BY <1>2, <1>5, <1>7
    <3>2. EntryAt(base + (t - 1) * n * EntryBytes + (i - 1) * EntryBytes) = tables[t][i]
      BY <1>3, <1>6, <3>1, WrittenEntryIsRead, ZenonT(60)
    <3> QED  BY <3>1, <3>2, Zenon
  <2>2. OpenTable(t) = [i \in 1 .. n |-> EntryAt(roots[t] + (i - 1) * EntryBytes)]
    BY <1>1 DEF OpenTable
  <2>3. OpenTable(t) = [i \in 1 .. n |-> tables[t][i]]
    BY <2>1, <2>2
  <2>4. tables[t] \in [1 .. n -> FileEntry]
    BY <1>6
  <2> QED  BY <2>3, <2>4
<1>10. ASSUME NEW t \in 1 .. m
       PROVE  IsTable(tables[t])
  <2>1. DOMAIN tables[t] = 1 .. n
    BY <1>6
  <2>2. ASSUME NEW i \in 1 .. n PROVE InRange(tables[t][i].id, 0, n - 1)
    <3>1. tables[t][i].id \in 0 .. n - 1
      BY <1>6
    <3> QED  BY <1>3, <3>1 DEF InRange
  <2>3. ASSUME NEW i \in (1 .. n) \ {1} PROVE KeyLess(tables[t][i - 1], tables[t][i])
    <3>1. i - 1 \in 1 .. n /\ i \in 1 .. n /\ i - 1 < i
      BY <1>3
    <3> QED  BY <1>6, <3>1
  <2> QED  BY <1>1, <1>6, <2>1, <2>2, <2>3 DEF IsTable
<1>11. dt + m * n * EntryBytes = sz
  <2>1. m * n = n * m
    BY <1>3
  <2> QED  BY <1>1, <2>1
<1>12. ASSUME NEW t \in 1 .. m
       PROVE  /\ roots[t] = dt + (t - 1) * n * EntryBytes
              /\ roots[t] + n * EntryBytes <= sz
              /\ IsTable(OpenTable(t))
  BY <1>5, <1>8, <1>9, <1>10
<1> QED  BY <1>1, <1>4, <1>11, <1>12 DEF LoadArray, dt, sz

LEMMA PristineTreeLoads ==
  ASSUME NEW c \in Configs, header = HeaderOf(c), roots = RootsOf(c), size = header.size,
         size <= MaxWord, c.layout = "tree"
  PROVE  LoadTree
<1> DEFINE m == c.tables
           r == PagesPerTable(c)
           g == c.page
           k == header.pages
           dt == header.data
<1>1. /\ header.tables = m /\ header.page = g
      /\ k = 1 + m * r /\ size = dt + k * g
  BY BuiltPlaces
<1>2. header \in FileHeader /\ dt \in Nat /\ k \in Nat /\ size \in Nat
  BY BuiltPlaces DEF FileHeader
<1>3. m \in Nat \ {0} /\ r \in Nat \ {0} /\ g \in Nat \ {0}
  BY ConfigNumbers, TablePages
<1>4. RootsAreRead
  BY <1>1, <1>3, BuiltRoots DEF RootsAreRead
<1>5. \A t \in 1 .. m : roots[t] = t * r
  BY DEF RootsOf
<1>6. MaxWord \in Nat
  BY Words
<1> HIDE DEF m, r, g, k, dt
<1>7. ASSUME NEW t \in 1 .. m PROVE InRange(roots[t], 1, k - 1)
  <2>1. t \in Nat \ {0} /\ t <= m
    BY <1>3
  <2>2. t * r \in Nat \ {0} /\ t * r <= m * r /\ m * r \in Nat
    BY <1>3, <2>1
  <2> QED  BY <1>1, <1>5, <2>2 DEF InRange
<1>8. ASSUME NEW p \in 1 .. k - 1 PROVE PageIsRead(p)
  <2>1. p \in Nat /\ p <= k - 1
    BY <1>2
  <2>2. p * g \in Nat /\ p * g <= (k - 1) * g
    BY <1>2, <1>3, <2>1
  <2>3. (k - 1) * g = k * g - g /\ k * g \in Nat
    BY <1>2, <1>3
  <2> DEFINE x == p * g
             y == k * g
  <2>4. x \in Nat /\ y \in Nat /\ x <= y - g /\ size = dt + y
    BY <1>1, <2>2, <2>3
  <2> HIDE DEF x, y
  <2>5. x <= MaxWord /\ dt + x <= MaxWord /\ dt + x <= size /\ g <= size - (dt + x)
    BY <1>2, <1>3, <1>6, <2>4
  <2>6. MultiplyFits(p, g) /\ Multiply(p, g) = x
    BY <1>3, <2>1, <2>5, FittingProduct DEF x
  <2>7. AddFits(dt, x) /\ Add(dt, x) = dt + x
    BY <1>2, <2>4, <2>5, FittingSum
  <2> QED  BY <1>1, <2>5, <2>6, <2>7 DEF PageIsRead, dt
<1> QED  BY <1>1, <1>4, <1>7, <1>8 DEF LoadTree, k

LEMMA PristineIsAccepted ==
  ASSUME Pristine
  PROVE  Accepted
<1>1. PICK c \in Configs :
        /\ HeaderOf(c).size <= MaxOffset
        /\ header = HeaderOf(c) /\ size = HeaderOf(c).size
        /\ roots = RootsOf(c) /\ base = HeaderOf(c).data
        /\ \E value \in [0 .. c.points - 1 -> ValueRange] : tables \in WrittenTables(c, value)
  BY DEF Pristine
<1>2. PICK value \in [0 .. c.points - 1 -> ValueRange] : tables \in WrittenTables(c, value)
  BY <1>1
<1>3. header \in FileHeader /\ header.layout = c.layout /\ c.layout \in {"tree", "array"}
  BY <1>1, BuiltPlaces, ConfigNumbers
<1>4. header.size = size /\ size <= MaxWord
  <2>1. size \in Nat
    BY <1>1, <1>3 DEF FileHeader
  <2> QED  BY <1>1, <2>1, Words
<1>5. LimitsOK
  BY <1>1, PristineLimits
<1>6. OffsetsOK
  BY <1>1, <1>4, PristineOffsets
<1>7. size >= HeaderBytes
  <2> DEFINE dt == header.data
             pj == header.projections
             x == c.tables * RootBytes
             y == (c.tables * c.dimensions) * CoordinateBytes
  <2>1. x \in Nat /\ y \in Nat /\ pj = HeaderBytes + x /\ pj + y <= dt
    BY <1>1, BuiltPlaces
  <2>2. dt \in Nat /\ size \in Nat
    BY <1>1, <1>3 DEF FileHeader
  <2>3. dt <= size
    BY <1>4, <1>6 DEF OffsetsOK
  <2> HIDE DEF dt, pj, x, y
  <2> QED  BY <2>1, <2>2, <2>3, FileConstants
<1>8. CASE c.layout = "array"
  <2>1. ArrayEnvelopeOK
    BY <1>1, <1>4, <1>8, PristineArrayEnvelope
  <2>2. LoadArray
    BY <1>1, <1>2, <1>8, PristineArrayLoads
  <2> QED  BY <1>3, <1>4, <1>5, <1>6, <1>7, <1>8, <2>1, <2>2 DEF Accepted, EnvelopeOK
<1>9. CASE c.layout = "tree"
  <2>1. TreeEnvelopeOK
    BY <1>1, <1>4, <1>9, PristineTreeEnvelope
  <2>2. LoadTree
    BY <1>1, <1>4, <1>9, PristineTreeLoads
  <2> QED  BY <1>3, <1>4, <1>5, <1>6, <1>7, <1>9, <2>1, <2>2 DEF Accepted, EnvelopeOK
<1> QED  BY <1>3, <1>8, <1>9

-----------------------------------------------------------------------------
LEMMA BuildKeepsFileInv ==
  ASSUME FileInv, NEW c \in Configs, Build(c)
  PROVE  FileInv'
<1>1. CASE HeaderOf(c).size > MaxOffset
  <2>1. phase' = "not built" /\ damages' = damages
    BY <1>1 DEF Build
  <2>2. damages \in Nat
    BY DEF FileInv, FileTypeOK
  <2> QED  BY <2>1, <2>2 DEF FileInv, FileTypeOK
<1>2. CASE ~(HeaderOf(c).size > MaxOffset)
  <2>1. /\ phase' = "built" /\ damages' = damages
        /\ header' = HeaderOf(c) /\ size' = HeaderOf(c).size
        /\ roots' = RootsOf(c) /\ base' = HeaderOf(c).data
    BY <1>2 DEF Build
  <2>2. PICK value \in [0 .. c.points - 1 -> ValueRange] : tables' \in WrittenTables(c, value)
    BY <1>2 DEF Build
  <2>3. /\ HeaderOf(c) \in FileHeader /\ HeaderOf(c).size \in Nat /\ HeaderOf(c).data \in Nat
        /\ HeaderOf(c).layout = c.layout
    BY BuiltPlaces DEF FileHeader
  <2>4. roots' \in Seq(Nat)
    BY <2>1, BuiltRoots
  <2>5. ASSUME c.layout = "tree" PROVE tables' = <<>>
    BY <2>2, <2>5 DEF WrittenTables
  <2>6. ASSUME c.layout = "array"
        PROVE  \E T, P \in Nat \ {0} : tables' \in [1 .. T -> [1 .. P -> FileEntry]]
    <3>1. tables' \in [1 .. c.tables -> [1 .. c.points -> FileEntry]]
      BY <2>2, <2>6, BuiltTables
    <3>2. c.tables \in Nat \ {0} /\ c.points \in Nat \ {0}
      BY ConfigNumbers
    <3> QED  BY <3>1, <3>2
  <2>7. FileTyped'
    BY <2>1, <2>3, <2>4, <2>5, <2>6 DEF FileTyped
  <2>8. HeaderOf(c).size <= MaxOffset
    BY <1>2, <2>3, Words
  <2>9. Pristine'
    BY <2>1, <2>2, <2>8 DEF Pristine
  <2>10. damages' \in Nat
    BY <2>1 DEF FileInv, FileTypeOK
  <2> QED  BY <2>1, <2>7, <2>9, <2>10 DEF FileInv, FileTypeOK
<1> QED  BY <1>1, <1>2

LEMMA DamageKeepsFileInv ==
  ASSUME FileInv, DamageFile
  PROVE  FileInv'
<1>1. phase = "built" /\ FileTyped /\ damages \in Nat
  <2>1. phase = "built"
    BY DEF DamageFile, FlipInHeader, FlipInRoots, Resize, ExchangeEntries, ChangeEntry, Damage
  <2> QED  BY <2>1 DEF FileInv, FileTypeOK
<1>2. phase' = "built" /\ damages' = damages + 1 /\ base' = base
  BY <1>1 DEF DamageFile, FlipInHeader, FlipInRoots, Resize, ExchangeEntries, ChangeEntry, Damage
<1>3. ASSUME NEW bit \in 0 .. Bits - 1, NEW field \in NumberFields, FlipInHeader(field, bit)
      PROVE  FileTyped'
  <2>1. header \in FileHeader
    BY <1>1 DEF FileTyped
  <2>2. /\ header' = [header EXCEPT ![field] = Flip(header[field], bit)]
        /\ size' = size /\ roots' = roots /\ tables' = tables
    BY <1>3 DEF FlipInHeader
  <2>3. header[field] \in Nat
    BY <1>3, <2>1 DEF NumberFields, FileHeader
  <2>4. Flip(header[field], bit) \in Nat
    BY <1>3, <2>3, FlipNat
  <2> DEFINE x == Flip(header[field], bit)
  <2> HIDE DEF x
  <2>5. header' = [header EXCEPT ![field] = x] /\ x \in Nat
    BY <2>2, <2>4 DEF x
  <2>6. header' \in FileHeader /\ header'.layout = header.layout
    BY <1>3, <2>1, <2>5 DEF NumberFields, FileHeader
  <2> QED  BY <1>1, <1>2, <2>2, <2>6 DEF FileTyped
<1>4. ASSUME NEW bit \in 0 .. Bits - 1, NEW t \in DOMAIN roots, FlipInRoots(t, bit)
      PROVE  FileTyped'
  <2>1. /\ roots' = [roots EXCEPT ![t] = Flip(roots[t], bit)]
        /\ header' = header /\ size' = size /\ tables' = tables
    BY <1>4 DEF FlipInRoots
  <2>2. roots \in Seq(Nat)
    BY <1>1 DEF FileTyped
  <2>3. roots[t] \in Nat
    BY <1>4, <2>2
  <2>4. Flip(roots[t], bit) \in Nat
    BY <1>4, <2>3, FlipNat
  <2>5. roots' \in Seq(Nat)
    BY <1>4, <2>1, <2>2, <2>4
  <2> QED  BY <1>1, <1>2, <2>1, <2>5 DEF FileTyped
<1>5. ASSUME NEW bytes \in 0 .. MaxOffset, Resize(bytes)
      PROVE  FileTyped'
  <2>1. size' = bytes /\ header' = header /\ roots' = roots /\ tables' = tables
    BY <1>5 DEF Resize
  <2>2. bytes \in Nat
    BY Words
  <2> QED  BY <1>1, <1>2, <2>1, <2>2 DEF FileTyped
<1>6. ASSUME NEW t \in DOMAIN tables, NEW i \in DOMAIN tables[t], NEW j \in DOMAIN tables[t],
             ExchangeEntries(t, i, j)
      PROVE  FileTyped'
  <2>1. /\ tables' = [tables EXCEPT ![t] =
                        [tables[t] EXCEPT ![i] = tables[t][j], ![j] = tables[t][i]]]
        /\ header' = header /\ size' = size /\ roots' = roots
    BY <1>6 DEF ExchangeEntries
  <2>2. header.layout = "array"
    BY <1>1, <1>6 DEF FileTyped, FileHeader
  <2>3. PICK T, P \in Nat \ {0} : tables \in [1 .. T -> [1 .. P -> FileEntry]]
    BY <1>1, <2>2 DEF FileTyped
  <2>4. tables' \in [1 .. T -> [1 .. P -> FileEntry]]
    BY <1>6, <2>1, <2>3
  <2> QED  BY <1>1, <1>2, <2>1, <2>2, <2>4 DEF FileTyped
<1>7. ASSUME NEW t \in DOMAIN tables, NEW i \in DOMAIN tables[t],
             NEW value \in ValueRange, NEW id \in 0 .. Len(tables[t]),
             ChangeEntry(t, i, [value |-> value, id |-> id])
      PROVE  FileTyped'
  <2> DEFINE e == [value |-> value, id |-> id]
  <2>1. /\ tables' = [tables EXCEPT ![t] = [tables[t] EXCEPT ![i] = e]]
        /\ header' = header /\ size' = size /\ roots' = roots
    BY <1>7 DEF ChangeEntry
  <2>2. header.layout = "array"
    BY <1>1, <1>7 DEF FileTyped, FileHeader
  <2>3. PICK T, P \in Nat \ {0} : tables \in [1 .. T -> [1 .. P -> FileEntry]]
    BY <1>1, <2>2 DEF FileTyped
  <2>4. e \in FileEntry
    <3>1. tables[t] \in [1 .. P -> FileEntry]
      BY <1>7, <2>3
    <3>2. Len(tables[t]) = P
      BY <3>1
    <3>3. id \in Nat
      BY <3>2
    <3> QED  BY <3>3, ConfigsAssumption DEF FileEntry
  <2> HIDE DEF e
  <2>5. tables' \in [1 .. T -> [1 .. P -> FileEntry]]
    BY <1>7, <2>1, <2>3, <2>4
  <2> QED  BY <1>1, <1>2, <2>1, <2>2, <2>5 DEF FileTyped
<1>8. FileTyped'
  BY <1>3, <1>4, <1>5, <1>6, <1>7 DEF DamageFile
<1> QED  BY <1>1, <1>2, <1>8 DEF FileInv, FileTypeOK

\* Open looks at nothing but the file.
LEMMA SameFileSameVerdict ==
  ASSUME UNCHANGED <<header, size, roots, tables, base>>
  PROVE  Accepted' <=> Accepted
<1>1. LimitsOK' <=> LimitsOK
  BY DEF LimitsOK
<1>2. ArrayEnvelopeOK' <=> ArrayEnvelopeOK
  BY DEF ArrayEnvelopeOK
<1>3. TreeEnvelopeOK' <=> TreeEnvelopeOK
  BY DEF TreeEnvelopeOK
<1>4. OffsetsOK' <=> OffsetsOK
  BY DEF OffsetsOK, Coordinates, ProjectionsEnd
<1>5. EnvelopeOK' <=> EnvelopeOK
  BY <1>1, <1>2, <1>3, <1>4 DEF EnvelopeOK
<1>6. RootsAreRead' <=> RootsAreRead
  BY DEF RootsAreRead
<1>7. \A t : OpenTable(t)' = OpenTable(t)
  BY DEF OpenTable, EntryAt
<1>8. \A t : IsTable(OpenTable(t))' <=> IsTable(OpenTable(t))
  BY <1>7 DEF IsTable
<1>9. LoadArray' <=> LoadArray
  BY <1>6, <1>8 DEF LoadArray
<1>10. \A p : PageIsRead(p)' <=> PageIsRead(p)
  BY DEF PageIsRead
<1>11. LoadTree' <=> LoadTree
  BY <1>6, <1>10 DEF LoadTree
<1> QED  BY <1>5, <1>9, <1>11 DEF Accepted

LEMMA OpenKeepsFileInv ==
  ASSUME FileInv, Open
  PROVE  FileInv'
<1>1. /\ phase = "built" /\ phase' = IF Accepted THEN "open" ELSE "refused"
      /\ UNCHANGED <<header, size, roots, tables, base, damages>>
  BY DEF Open
<1>2. FileTyped /\ damages \in Nat
  BY <1>1 DEF FileInv, FileTypeOK
<1>3. FileTyped'
  BY <1>1, <1>2 DEF FileTyped
<1>4. Accepted' <=> Accepted
  BY <1>1, SameFileSameVerdict
<1>5. ~Accepted => damages > 0
  BY <1>1, <1>2, PristineIsAccepted DEF FileInv
<1> QED  BY <1>1, <1>2, <1>3, <1>4, <1>5 DEF FileInv, FileTypeOK

\* Whatever is damaged and opened, an index that is open passed every check, and
\* a file nothing was done to is the one Build wrote.
THEOREM FilesKeepInv == FileSpec => []FileInv
<1>1. InitFile => FileInv
  BY DEF InitFile, FileInv, FileTypeOK
<1>2. FileInv /\ [NextFile]_fileVars => FileInv'
  <2> SUFFICES ASSUME FileInv, [NextFile]_fileVars PROVE FileInv'
    OBVIOUS
  <2>1. ASSUME NEW c \in Configs, Build(c) PROVE FileInv'
    BY <2>1, BuildKeepsFileInv
  <2>2. CASE DamageFile
    BY <2>2, DamageKeepsFileInv
  <2>3. CASE Open
    BY <2>3, OpenKeepsFileInv
  <2>4. CASE UNCHANGED fileVars
    <3>1. UNCHANGED <<phase, header, size, roots, tables, base, damages>>
      BY <2>4 DEF fileVars
    <3>2. Accepted' <=> Accepted
      BY <3>1, SameFileSameVerdict
    <3>3. FileTyped' <=> FileTyped
      BY <3>1 DEF FileTyped
    <3>4. Pristine' <=> Pristine
      BY <3>1 DEF Pristine
    <3> QED  BY <3>1, <3>2, <3>3, <3>4 DEF FileInv, FileTypeOK
  <2> QED  BY <2>1, <2>2, <2>3, <2>4 DEF NextFile
<1> QED  BY <1>1, <1>2, PTL DEF FileSpec

\* Nothing Build wrote is refused: what it computes of the places of things
\* (HeaderOf, RootsOf, the order of the entries) is what Open computes again.
THEOREM BuiltIsAccepted == FileSpec => []BuiltFileIsAccepted
<1>1. FileInv => BuiltFileIsAccepted
  BY DEF FileInv, BuiltFileIsAccepted
<1> QED  BY <1>1, FilesKeepInv, PTL

\* The numbers of an accepted file, whatever was done to it, lead no read out of
\* the file: no product or sum that Open compares wrapped around.
THEOREM AcceptedFileIsReadInside == FileSpec => []ReadsStayInFile
<1>1. FileInv => ReadsStayInFile
  <2> SUFFICES ASSUME FileInv, phase = "open"
               PROVE  LET behind == HeaderBytes
                             + header.tables * (RootBytes + header.dimensions * CoordinateBytes)
                      IN  /\ header.data >= behind
                          /\ IF header.layout = "tree"
                               THEN header.data + header.pages * header.page <= size
                               ELSE \A t \in 1 .. header.tables :
                                      /\ roots[t] >= behind
                                      /\ roots[t] + header.points * EntryBytes <= size
    BY DEF ReadsStayInFile
  <2>1. FileTyped /\ Accepted
    BY DEF FileInv, FileTypeOK
  <2> QED  BY <2>1, AcceptedReads
<1> QED  BY <1>1, FilesKeepInv, PTL

\* The tables of an accepted sorted array are those of some set of points, in the
\* order cursors rely on, whatever was done to the entries.
THEOREM AcceptedTablesAreWhole == FileSpec => []OpenTablesAreWhole
<1>1. FileInv => OpenTablesAreWhole
  <2> SUFFICES ASSUME FileInv, phase = "open", header.layout = "array",
                      NEW t \in 1 .. header.tables
               PROVE  /\ {OpenTable(t)[i].id : i \in 1 .. header.points} = 0 .. header.points - 1
                      /\ \A i, j \in 1 .. header.points : i < j =>
                           KeyLess(OpenTable(t)[i], OpenTable(t)[j])
    BY DEF OpenTablesAreWhole, KeyLess
  <2>1. FileTyped /\ Accepted
    BY DEF FileInv, FileTypeOK
  <2> QED  BY <2>1, AcceptedTables
<1> QED  BY <1>1, FilesKeepInv, PTL

-----------------------------------------------------------------------------
(* The path.                                                                *)

USE IndexPublishAssumption

Place == {"idle", "writing", "closed", "linked", "published", "cleanup",
          "succeeded", "failed", "killed"}

ReaderState == [pc : {"idle", "opening", "open", "failed"},
                magic : Layout \cup {NoFile}, file : Builder \cup {NoFile}]

TypeOK ==
    /\ overwrite \in [Builder -> BOOLEAN] /\ layout \in [Builder -> Layout]
    /\ pc \in [Builder -> Place]
    /\ chunks \in [Builder -> 0 .. Chunks] /\ flushed \in [Builder -> BOOLEAN]
    /\ name \in [Builder -> Name \cup {NoFile}]
    /\ temp \in [Name -> Builder \cup {NoFile}]
    /\ dest \in Builder \cup {NoFile} /\ onDisk \subseteq Builder \cup {NoFile}
    /\ published \in Seq(Builder)
    /\ stuck \subseteq Builder /\ crashes \in Nat
    /\ reader \in [Reader -> ReaderState]

\* Between mkstemp and the end of Build.
Live(b) == pc[b] \notin Ended \cup {"idle"}

\* A file has at most the name its builder was given, and none once it has been
\* published whole or its builder has come to an end that removed it.
NamesInv ==
    /\ \A n \in Name : temp[n] # NoFile => name[temp[n]] = n /\ pc[temp[n]] # "idle"
    /\ \A b \in Builder : Live(b) => name[b] \in Name
    /\ \A b \in Builder : pc[b] \in {"published", "succeeded"} => \A n \in Name : temp[n] # b
    /\ TemporaryIsRemoved

\* Between mkstemp and the rename or link.
Unpublished(b) == pc[b] \in {"writing", "closed"}

\* mkstemp gives no name under which a builder has still to publish.
NamesToPublishAreDistinct ==
    \A b, c \in Builder : Unpublished(b) /\ Unpublished(c) /\ name[b] = name[c] => b = c

\* A builder's name leads to its own file, or nowhere if a clean-up took it away,
\* until it is published, and the file is whole from the fsync on.
PlaceInv ==
    /\ \A b \in Builder : Unpublished(b) => Named(b) \in {b, NoFile}
    /\ \A b \in Builder : pc[b] \in {"closed", "linked", "published", "succeeded"} => Whole(b)

\* Who came to the path is there or was followed by who is.
OrderInv ==
    /\ dest \in onDisk
    /\ \A b \in Builder : pc[b] \in {"linked", "published", "succeeded"} =>
          /\ \E i \in DOMAIN published : published[i] = b
          /\ dest = b \/ PublishedBefore(b, dest)

OpenHasFile == \A r \in Reader : reader[r].pc = "open" => reader[r].file \in Builder

PathInv ==
    /\ PlaceInv
    /\ OrderInv
    /\ PathLeadsToWholeIndex
    /\ OpenHasFile /\ OpenedIndexIsWhole
    /\ SuccessIsDurable

-----------------------------------------------------------------------------
\* What a reader's steps make of its state.
LEMMA ReaderGoesOn ==
  ASSUME NEW v \in ReaderState
  PROVE  /\ [v EXCEPT !.pc = "failed"] \in ReaderState
         /\ \A l \in Layout : [v EXCEPT !.pc = "opening", !.magic = l] \in ReaderState
         /\ \A f \in Builder : [v EXCEPT !.pc = "open", !.file = f] \in ReaderState
BY Zenon DEF ReaderState

\* At the start nothing is written, named or published.
LEMMA InitTypes == Init => TypeOK /\ NamesInv /\ PathInv
BY DEF Init, TypeOK, Place, ReaderState, NewReader, NamesInv, Live, Ended, PathInv, PlaceInv, Unpublished, OrderInv, OpenHasFile,
       PathLeadsToWholeIndex, OpenedIndexIsWhole, SuccessIsDurable, TemporaryIsRemoved

\* Every step keeps the types; that a live builder has a name is needed for what
\* that name leads to.
LEMMA TypesKept ==
  ASSUME TypeOK, NamesInv, Next
  PROVE  TypeOK'
<1>1. ASSUME NEW b \in Builder, CreateTemporary(b) PROVE TypeOK'
  BY <1>1 DEF TypeOK, Place, CreateTemporary, GoTo, options, path
<1>2. ASSUME NEW b \in Builder, WriteChunk(b) PROVE TypeOK'
  BY <1>2 DEF TypeOK, WriteChunk, MoreToWrite, options, path
<1>3. ASSUME NEW b \in Builder, FlushFile(b) PROVE TypeOK'
  BY <1>3 DEF TypeOK, Place, FlushFile, Flushed, GoTo, options, path
<1>4. ASSUME NEW b \in Builder, pc[b] = "closed"
      PROVE  Named(b) \in Builder \cup {NoFile}
  BY <1>4 DEF TypeOK, NamesInv, Live, Ended, Named
<1>5. ASSUME NEW f \in Builder \cup {NoFile}, ComesToPath(f)
      PROVE  /\ dest' \in Builder \cup {NoFile} /\ onDisk' \subseteq Builder \cup {NoFile}
             /\ published' \in Seq(Builder)
  BY <1>5, AppendProperties DEF TypeOK, ComesToPath
<1>6. ASSUME NEW b \in Builder, Rename(b) PROVE TypeOK'
  BY <1>4, <1>5, <1>6 DEF TypeOK, Place, Rename, GoTo, options, files
<1>7. ASSUME NEW b \in Builder, Link(b) PROVE TypeOK'
  BY <1>4, <1>5, <1>7 DEF TypeOK, Place, Link, GoTo, options, files
<1>8. ASSUME NEW b \in Builder, Unlink(b) PROVE TypeOK'
  BY <1>8 DEF TypeOK, Place, Unlink, Removed, GoTo, options, files, path
<1>9. ASSUME NEW b \in Builder, FlushDirectory(b) PROVE TypeOK'
  BY <1>9 DEF TypeOK, Place, FlushDirectory, DirectoryFlushed, GoTo, options, files
<1>10. ASSUME NEW b \in Builder, Fail(b) PROVE TypeOK'
  BY <1>10 DEF TypeOK, Place, Fail, GoTo, options, files
<1>11. ASSUME NEW b \in Builder, CleanUp(b) PROVE TypeOK'
  BY <1>11 DEF TypeOK, Place, CleanUp, Removed, GoTo, options, files, path
<1>12. ASSUME NEW b \in Builder, Kill(b) PROVE TypeOK'
  BY <1>12 DEF TypeOK, Place, Kill, GoTo, options, files, path
<1>13. ASSUME NEW r \in Reader, ReaderStep(r) PROVE TypeOK'
  <2>1. ASSUME NEW v \in ReaderState, reader' = [reader EXCEPT ![r] = v],
               UNCHANGED <<options, pc, files, temp, path, stuck, crashes>>
        PROVE  TypeOK'
    BY <2>1 DEF TypeOK, options, files, path
  <2>2. reader[r] \in ReaderState /\ NewReader \in ReaderState
    BY DEF TypeOK, ReaderState, NewReader
  <2>3. CASE ReadMagic(r)
    BY <2>1, <2>2, <2>3, ReaderGoesOn DEF ReadMagic, TypeOK
  <2>4. CASE OpenLayout(r)
    BY <2>1, <2>2, <2>4, ReaderGoesOn DEF OpenLayout, TypeOK
  <2>5. CASE CloseIndex(r)
    BY <2>1, <2>2, <2>5 DEF CloseIndex
  <2> QED  BY <1>13, <2>3, <2>4, <2>5 DEF ReaderStep
<1>14. ASSUME Crash PROVE TypeOK'
  BY <1>14 DEF TypeOK, Place, Crash, ReaderState, NewReader, options
<1> QED  BY <1>1, <1>2, <1>3, <1>6, <1>7, <1>8, <1>9, <1>10, <1>11, <1>12, <1>13, <1>14
         DEF Next, BuilderStep

\* The names: given by mkstemp when free, freed by rename and unlink.
LEMMA NamesKept ==
  ASSUME TypeOK, TypeOK', NamesInv, Next
  PROVE  NamesInv'
<1> USE DEF NamesInv, Live, Ended, TemporaryIsRemoved
<1>1. ASSUME NEW b \in Builder, CreateTemporary(b) PROVE NamesInv'
  BY <1>1 DEF TypeOK, CreateTemporary, GoTo, path, options
<1>2. ASSUME NEW b \in Builder, WriteChunk(b) PROVE NamesInv'
  BY <1>2 DEF TypeOK, WriteChunk, options, path
<1>3. ASSUME NEW b \in Builder, FlushFile(b) PROVE NamesInv'
  BY <1>3 DEF TypeOK, FlushFile, GoTo, options, path
<1>4. ASSUME NEW b \in Builder, Rename(b) PROVE NamesInv'
  BY <1>4 DEF TypeOK, Rename, ComesToPath, GoTo, options, files
<1>5. ASSUME NEW b \in Builder, Link(b) PROVE NamesInv'
  BY <1>5 DEF TypeOK, Link, ComesToPath, GoTo, options, files
<1>6. ASSUME NEW b \in Builder, Unlink(b) PROVE NamesInv'
  BY <1>6 DEF TypeOK, Unlink, Removed, GoTo, options, files, path
<1>7. ASSUME NEW b \in Builder, FlushDirectory(b) PROVE NamesInv'
  BY <1>7 DEF TypeOK, FlushDirectory, GoTo, options, files
<1>8. ASSUME NEW b \in Builder, Fail(b) PROVE NamesInv'
  BY <1>8 DEF TypeOK, Fail, GoTo, options, files
<1>9. ASSUME NEW b \in Builder, CleanUp(b) PROVE NamesInv'
  <2>1. name[b] \in Name /\ pc' = [pc EXCEPT ![b] = "failed"] /\ UNCHANGED name
    BY <1>9 DEF TypeOK, CleanUp, GoTo, files
  <2>2. CASE temp' = Removed(b) /\ UNCHANGED stuck
    BY <2>1, <2>2 DEF TypeOK, Removed
  <2>3. CASE stuck' = stuck \cup {b} /\ UNCHANGED temp
    <3>1. ASSUME NEW n \in Name, temp[n] # NoFile
          PROVE  temp[n] \in Builder /\ name[temp[n]] = n /\ pc'[temp[n]] # "idle"
      BY <2>1, <3>1 DEF TypeOK
    <3>2. ASSUME NEW c \in Builder, pc'[c] \in {"published", "succeeded"}
          PROVE  c # b /\ pc'[c] = pc[c]
      BY <2>1, <3>2 DEF TypeOK
    <3>3. ASSUME NEW c \in Builder, pc'[c] = "failed"
          PROVE  c \in stuck' \/ pc[c] = "failed"
      BY <2>1, <2>3, <3>3 DEF TypeOK
    <3>4. ASSUME NEW c \in Builder, pc'[c] \notin Ended \cup {"idle"}
          PROVE  name[c] \in Name
      BY <2>1, <3>4 DEF TypeOK
    <3> QED  BY <2>1, <2>3, <3>1, <3>2, <3>3, <3>4
  <2> QED  BY <1>9, <2>2, <2>3 DEF CleanUp
<1>10. ASSUME NEW b \in Builder, Kill(b) PROVE NamesInv'
  BY <1>10 DEF TypeOK, Kill, GoTo, options, files, path
<1>11. ASSUME NEW r \in Reader, ReaderStep(r) PROVE NamesInv'
  BY <1>11 DEF TypeOK, ReaderStep, ReadMagic, OpenLayout, CloseIndex, files
<1>12. ASSUME Crash PROVE NamesInv'
  BY <1>12, SMTT(30) DEF TypeOK, Crash
<1> QED  BY <1>1, <1>2, <1>3, <1>4, <1>5, <1>6, <1>7, <1>8, <1>9, <1>10, <1>11, <1>12
         DEF Next, BuilderStep

\* A whole file stays whole: nobody writes to it, and a crash takes nothing
\* from what was flushed.
LEMMA WholeStays ==
  ASSUME TypeOK, Next, NEW b \in Builder, Whole(b)
  PROVE  Whole(b)'
<1>1. ASSUME NEW c \in Builder, WriteChunk(c) PROVE Whole(b)'
  BY <1>1 DEF TypeOK, Whole, WriteChunk, MoreToWrite
<1>2. ASSUME NEW c \in Builder, FlushFile(c) PROVE Whole(b)'
  BY <1>2 DEF TypeOK, Whole, FlushFile, Flushed
<1>3. CASE Crash
  BY <1>3 DEF TypeOK, Whole, Crash
<1>4. ASSUME UNCHANGED <<chunks, flushed>> PROVE Whole(b)'
  BY <1>4 DEF Whole
<1> QED  BY <1>1, <1>2, <1>3, <1>4
         DEF Next, BuilderStep, ReaderStep, CreateTemporary, Rename, Link, Unlink,
             FlushDirectory, Fail, CleanUp, Kill, ReadMagic, OpenLayout, CloseIndex, files

\* How a builder comes to be where it is.
LEMMA Transitions ==
  ASSUME TypeOK, Next, NEW b \in Builder
  PROVE  /\ pc'[b] = "writing" => pc[b] = "writing" \/ CreateTemporary(b)
         /\ pc'[b] = "closed" => pc[b] = "closed" \/ FlushFile(b)
         /\ pc'[b] = "linked" => pc[b] = "linked" \/ Link(b)
         /\ pc'[b] = "published" => pc[b] = "published" \/ Rename(b) \/ Unlink(b)
         /\ pc'[b] = "succeeded" => pc[b] = "succeeded" \/ FlushDirectory(b)
<1>1. ASSUME NEW c \in Builder, BuilderStep(c), c # b PROVE pc'[b] = pc[b]
  BY <1>1 DEF TypeOK, BuilderStep, CreateTemporary, WriteChunk, FlushFile, Rename, Link, Unlink,
              FlushDirectory, Fail, CleanUp, Kill, GoTo
<1>2. ASSUME NEW r \in Reader, ReaderStep(r) PROVE pc'[b] = pc[b]
  BY <1>2 DEF ReaderStep, ReadMagic, OpenLayout, CloseIndex
<1>3. CASE Crash
  BY <1>3 DEF TypeOK, Crash
<1>4. CASE BuilderStep(b)
  <2>1. CASE WriteChunk(b)
    BY <2>1 DEF WriteChunk
  <2>2. CASE Fail(b) \/ CleanUp(b) \/ Kill(b)
    BY <2>2 DEF TypeOK, Fail, CleanUp, Kill, GoTo
  <2>3. CASE CreateTemporary(b)
    BY <2>3 DEF TypeOK, CreateTemporary, GoTo
  <2>4. CASE FlushFile(b)
    BY <2>4 DEF TypeOK, FlushFile, GoTo
  <2>5. CASE Rename(b)
    BY <2>5 DEF TypeOK, Rename, GoTo
  <2>6. CASE Link(b)
    BY <2>6 DEF TypeOK, Link, GoTo
  <2>7. CASE Unlink(b)
    BY <2>7 DEF TypeOK, Unlink, GoTo
  <2>8. CASE FlushDirectory(b)
    BY <2>8 DEF TypeOK, FlushDirectory, GoTo
  <2> QED  BY <1>4, <2>1, <2>2, <2>3, <2>4, <2>5, <2>6, <2>7, <2>8 DEF BuilderStep
<1> QED  BY <1>1, <1>2, <1>3, <1>4 DEF Next

\* While the names to publish are distinct nobody puts another file in the place
\* of a builder's own before it has come to the path.
LEMMA PlaceKept ==
  ASSUME TypeOK, NamesInv, NamesToPublishAreDistinct', PlaceInv, Next
  PROVE  PlaceInv'
<1>1. ASSUME NEW b \in Builder, pc'[b] \in {"closed", "linked", "published", "succeeded"}
      PROVE  Whole(b)'
  <2>1. pc[b] \in {"closed", "linked", "published", "succeeded"} \/ FlushFile(b)
    BY <1>1, Transitions DEF Link, Rename, Unlink, FlushDirectory
  <2>2. CASE pc[b] \in {"closed", "linked", "published", "succeeded"}
    BY <2>2, WholeStays DEF PlaceInv
  <2>3. CASE FlushFile(b)
    BY <2>3 DEF TypeOK, FlushFile, Flushed, MoreToWrite, Whole
  <2> QED  BY <2>1, <2>2, <2>3
<1>2. ASSUME NEW b \in Builder, Unpublished(b)' PROVE Named(b)' \in {b, NoFile}
  <2>1. CASE CreateTemporary(b)
    BY <2>1, SMTT(30) DEF TypeOK, CreateTemporary, Named
  <2>2. CASE ~CreateTemporary(b)
    <3>1. pc[b] \in {"writing", "closed"}
      BY <1>2, <2>2, Transitions DEF FlushFile, Unpublished
    <3>2. name[b] \in Name /\ temp[name[b]] \in {b, NoFile}
      BY <3>1 DEF NamesInv, Live, Ended, PlaceInv, Named, Unpublished
    <3>3. CASE UNCHANGED <<name, temp>>
      BY <3>2, <3>3 DEF Named
    <3>4. ASSUME NEW c \in Builder, CreateTemporary(c) PROVE Named(b)' \in {b, NoFile}
      <4>1. PICK n \in Name : /\ temp[n] = NoFile
                              /\ name' = [name EXCEPT ![c] = n]
                              /\ temp' = [temp EXCEPT ![n] = c]
        BY <3>4 DEF CreateTemporary
      <4>2. c # b
        BY <3>1, <3>4 DEF CreateTemporary
      <4>3. Unpublished(c)' /\ name'[c] = n /\ name'[b] = name[b]
        BY <3>4, <4>1, <4>2 DEF TypeOK, CreateTemporary, GoTo, Unpublished
      <4>4. n # name[b]
        BY <1>2, <4>2, <4>3 DEF NamesToPublishAreDistinct
      <4> QED  BY <3>2, <4>1, <4>3, <4>4 DEF TypeOK, Named
    <3>5. ASSUME NEW c \in Builder, UNCHANGED name, temp' = [temp EXCEPT ![name[c]] = NoFile]
          PROVE  Named(b)' \in {b, NoFile}
      BY <3>2, <3>5 DEF TypeOK, Named
    <3> QED  BY <3>3, <3>4, <3>5
             DEF Next, BuilderStep, ReaderStep, WriteChunk, FlushFile, Rename, Link, Unlink,
                 FlushDirectory, Fail, CleanUp, Kill, ReadMagic, OpenLayout, CloseIndex, Crash,
                 Removed, files
  <2> QED  BY <2>1, <2>2
<1> QED  BY <1>1, <1>2 DEF PlaceInv

\* rename and link bring the builder's own file to the path, and it is whole.
LEMMA OwnFileComesToPath ==
  ASSUME PlaceInv, NEW b \in Builder, Rename(b) \/ Link(b)
  PROVE  /\ dest' = b /\ onDisk' = onDisk \cup {b} /\ published' = Append(published, b)
         /\ Whole(b)
BY DEF PlaceInv, Unpublished, Rename, Link, ComesToPath

\* The history of the path only grows.
LEMMA HistoryGrows ==
  ASSUME TypeOK, NEW b \in Builder, published' = Append(published, b)
  PROVE  /\ \A i \in DOMAIN published : i \in DOMAIN published' /\ published'[i] = published[i]
         /\ \A a \in Builder : (\E i \in DOMAIN published : published[i] = a) => PublishedBefore(a, b)'
         /\ \A a, d \in Builder \cup {NoFile} : PublishedBefore(a, d) => PublishedBefore(a, d)'
         /\ \E i \in DOMAIN published' : published'[i] = b
<1> DEFINE n == Len(published)
<1>1. /\ published \in Seq(Builder) /\ n \in Nat /\ DOMAIN published = 1 .. n
      /\ DOMAIN published' = 1 .. n + 1
      /\ published'[n + 1] = b
      /\ \A i \in 1 .. n : published'[i] = published[i]
  BY LenProperties, AppendProperties DEF TypeOK
<1> HIDE DEF n
<1>2. ASSUME NEW i \in 1 .. n, NEW j \in 1 .. n + 1, i < j,
             NEW a, NEW d, published[i] = a, published'[j] = d
      PROVE  PublishedBefore(a, d)'
  BY <1>1, <1>2 DEF PublishedBefore
<1>3. ASSUME NEW a \in Builder, NEW i \in 1 .. n, published[i] = a
      PROVE  PublishedBefore(a, b)'
  <2>1. n + 1 \in 1 .. n + 1 /\ i < n + 1
    BY <1>1
  <2> QED  BY <1>1, <1>2, <1>3, <2>1
<1>4. ASSUME NEW a \in Builder \cup {NoFile}, NEW d \in Builder \cup {NoFile},
             PublishedBefore(a, d)
      PROVE  PublishedBefore(a, d)'
  <2>1. PICK i, j \in 1 .. n : i < j /\ published[i] = a /\ published[j] = d
    BY <1>1, <1>4 DEF PublishedBefore
  <2> QED  BY <1>1, <1>2, <2>1
<1> QED  BY <1>1, <1>3, <1>4

\* A step that leaves the path alone, and may synchronise the directory, or a
\* crash that leaves what is on disk.
LEMMA PathSettles ==
  ASSUME TypeOK, PathInv, Next, UNCHANGED published,
         dest' \in onDisk, dest' \in onDisk', onDisk' \subseteq onDisk,
         dest' = dest \/ \A b \in Builder : pc'[b] \notin {"linked", "published"}
  PROVE  OrderInv' /\ PathLeadsToWholeIndex' /\ SuccessIsDurable'
<1>1. ASSUME NEW b \in onDisk' \ {NoFile} PROVE Whole(b)'
  BY <1>1, WholeStays DEF TypeOK, PathInv, PathLeadsToWholeIndex
<1>2. ASSUME NEW a, NEW d PROVE PublishedBefore(a, d)' <=> PublishedBefore(a, d)
  BY DEF PublishedBefore
<1>3. ASSUME NEW b \in Builder, FlushDirectory(b)
      PROVE  \A d \in onDisk' : d = b \/ PublishedBefore(b, d)
  BY <1>3 DEF FlushDirectory, DirectoryFlushed, PathInv, OrderInv
<1>4. ASSUME NEW b \in Builder, pc'[b] = "succeeded"
      PROVE  \A d \in onDisk' : d = b \/ PublishedBefore(b, d)
  BY <1>3, <1>4, Transitions DEF PathInv, SuccessIsDurable
<1>5. ASSUME NEW b \in Builder, pc'[b] \in {"linked", "published", "succeeded"}, ~Link(b), ~Rename(b)
      PROVE  pc[b] \in {"linked", "published", "succeeded"}
  BY <1>5, Transitions DEF Unlink, FlushDirectory
<1>6. ASSUME NEW b \in Builder PROVE ~Link(b) /\ ~Rename(b)
  <2>1. published' # Append(published, b)
    BY AppendProperties, LenProperties DEF TypeOK
  <2> QED  BY <2>1, OwnFileComesToPath DEF PathInv
<1>7. ASSUME NEW b \in Builder, pc'[b] \in {"linked", "published", "succeeded"}
      PROVE  /\ \E i \in DOMAIN published' : published'[i] = b
             /\ dest' = b \/ PublishedBefore(b, dest')
  BY <1>4, <1>5, <1>6, <1>7, SMTT(30) DEF PathInv, OrderInv
<1> QED  BY <1>1, <1>2, <1>4, <1>7 DEF OrderInv, PathLeadsToWholeIndex, SuccessIsDurable

\* What is on the disk is whole and follows whoever came to the path before.
LEMMA PathKept ==
  ASSUME TypeOK, TypeOK', PathInv, Next
  PROVE  OrderInv' /\ PathLeadsToWholeIndex' /\ SuccessIsDurable'
<1>1. ASSUME NEW b \in Builder, Rename(b) \/ Link(b)
      PROVE  OrderInv' /\ PathLeadsToWholeIndex' /\ SuccessIsDurable'
  <2>1. /\ dest' = b /\ onDisk' = onDisk \cup {b} /\ published' = Append(published, b)
        /\ Whole(b)
    BY <1>1, OwnFileComesToPath DEF PathInv
  <2>2. ASSUME NEW d \in onDisk' \ {NoFile} PROVE Whole(d)'
    BY <2>1, WholeStays DEF TypeOK, PathInv, PathLeadsToWholeIndex
  <2>3. ASSUME NEW c \in Builder, c # b
        PROVE  pc'[c] = pc[c]
    BY <1>1, <2>3 DEF TypeOK, Rename, Link, GoTo
  <2>4. pc'[b] # "succeeded"
    BY <1>1 DEF TypeOK, Rename, Link, GoTo
  <2>5. ASSUME NEW c \in Builder, c # b, pc'[c] \in {"linked", "published", "succeeded"}
        PROVE  (\E i \in DOMAIN published' : published'[i] = c) /\ PublishedBefore(c, b)'
    BY <2>1, <2>3, <2>5, HistoryGrows DEF PathInv, OrderInv
  <2>6. ASSUME NEW c \in Builder, pc'[c] = "succeeded", NEW d \in onDisk'
        PROVE  d = c \/ PublishedBefore(c, d)'
    <3>1. c # b /\ pc[c] = "succeeded"
      BY <2>3, <2>4, <2>6
    <3>2. CASE d = b
      BY <2>5, <2>6, <3>1, <3>2
    <3>3. CASE d \in onDisk
      <4>1. d \in Builder \cup {NoFile} /\ (d = c \/ PublishedBefore(c, d))
        BY <3>1, <3>3 DEF TypeOK, PathInv, SuccessIsDurable
      <4> QED  BY <2>1, <4>1, HistoryGrows
    <3> QED  BY <2>1, <2>6, <3>2, <3>3
  <2> QED  BY <2>1, <2>2, <2>5, <2>6, HistoryGrows
           DEF OrderInv, PathLeadsToWholeIndex, SuccessIsDurable
<1>2. ASSUME UNCHANGED path
      PROVE  OrderInv' /\ PathLeadsToWholeIndex' /\ SuccessIsDurable'
  BY <1>2, PathSettles DEF path, PathInv, OrderInv
<1>3. ASSUME NEW b \in Builder, FlushDirectory(b) \/ Fail(b)
      PROVE  OrderInv' /\ PathLeadsToWholeIndex' /\ SuccessIsDurable'
  BY <1>3, PathSettles DEF FlushDirectory, DirectoryFlushed, Fail, PathInv, OrderInv
<1>4. CASE Crash
  BY <1>4, PathSettles DEF Crash, TypeOK, Place
<1> QED  BY <1>1, <1>2, <1>3, <1>4
         DEF Next, BuilderStep, ReaderStep, CreateTemporary, WriteChunk, FlushFile, Unlink,
             CleanUp, Kill, ReadMagic, OpenLayout, CloseIndex

\* A reader opens what the path leads to, and finds in it the magic it expects.
LEMMA OpenedKept ==
  ASSUME TypeOK, PathInv, Next
  PROVE  OpenHasFile' /\ OpenedIndexIsWhole'
<1>1. UNCHANGED layout
  BY DEF Next, BuilderStep, ReaderStep, CreateTemporary, WriteChunk, FlushFile, Rename, Link,
         Unlink, FlushDirectory, Fail, CleanUp, Kill, ReadMagic, OpenLayout, CloseIndex, Crash,
         options
<1> SUFFICES ASSUME NEW r \in Reader, reader'[r].pc = "open", NEW f, f = reader'[r].file
             PROVE  f \in Builder /\ Whole(f)' /\ layout[f] = reader'[r].magic
  BY <1>1 DEF OpenHasFile, OpenedIndexIsWhole, Whole
<1>2. CASE reader'[r] = reader[r]
  BY <1>2, WholeStays DEF PathInv, OpenHasFile, OpenedIndexIsWhole
<1>3. CASE OpenLayout(r)
  <2>1. /\ dest # NoFile /\ MagicMatches(r)
        /\ reader'[r] = [reader[r] EXCEPT !.pc = "open", !.file = dest]
    BY <1>3 DEF OpenLayout, TypeOK, ReaderState
  <2>2. reader'[r].file = dest /\ reader'[r].magic = reader[r].magic
    BY <2>1 DEF TypeOK, ReaderState
  <2>3. dest \in Builder /\ Whole(dest)
    BY <2>1 DEF TypeOK, PathInv, OrderInv, PathLeadsToWholeIndex
  <2>4. \A b \in Builder : Whole(b) => Whole(b)'
    BY WholeStays
  <2> QED  BY <2>1, <2>2, <2>3, <2>4 DEF MagicMatches
<1>4. CASE ReadMagic(r)
  BY <1>4 DEF ReadMagic, TypeOK, ReaderState
<1>5. CASE CloseIndex(r)
  BY <1>5 DEF CloseIndex, TypeOK, NewReader
<1>6. CASE Crash
  BY <1>6 DEF Crash, NewReader
<1>7. ASSUME NEW q \in Reader, ReaderStep(q), q # r PROVE reader'[r] = reader[r]
  BY <1>7 DEF ReaderStep, ReadMagic, OpenLayout, CloseIndex, TypeOK
<1>8. ASSUME NEW b \in Builder, BuilderStep(b) PROVE reader'[r] = reader[r]
  BY <1>8 DEF BuilderStep, CreateTemporary, WriteChunk, FlushFile, Rename, Link, Unlink,
              FlushDirectory, Fail, CleanUp, Kill
<1> QED  BY <1>2, <1>3, <1>4, <1>5, <1>6, <1>7, <1>8 DEF Next, ReaderStep

-----------------------------------------------------------------------------
\* A stuttering step keeps everything.
LEMMA StutteringKeeps ==
  ASSUME UNCHANGED vars
  PROVE  /\ TypeOK /\ NamesInv => TypeOK' /\ NamesInv'
         /\ PathInv => PathInv'
BY DEF vars, options, files, path, TypeOK, NamesInv, Live, TemporaryIsRemoved, PathInv, PlaceInv,
       OrderInv, PathLeadsToWholeIndex, OpenHasFile, OpenedIndexIsWhole, SuccessIsDurable,
       Named, Whole, PublishedBefore, Unpublished

\* The types, and who has which temporary name, hold by the steps alone
\* (mkstemp, rename and unlink in Build).
THEOREM NamesAlwaysKept == Spec => [](TypeOK /\ NamesInv)
<1>1. Init => TypeOK /\ NamesInv
  BY InitTypes
<1>2. TypeOK /\ NamesInv /\ [Next]_vars => TypeOK' /\ NamesInv'
  BY TypesKept, NamesKept, StutteringKeeps
<1> QED  BY <1>1, <1>2, PTL DEF Spec

\* However a build ends, its temporary file is gone, unless unlink failed or the
\* process died (the catch block of Build, and the unlink after a link).
THEOREM TemporaryIsAlwaysRemoved == Spec => []TemporaryIsRemoved
<1>1. NamesInv => TemporaryIsRemoved
  BY DEF NamesInv
<1> QED  BY <1>1, NamesAlwaysKept, PTL

\* Only a builder asked to overwrite replaces an index, and only a crash makes
\* one disappear (PublishIndexFile: link refuses, rename replaces).
THEOREM IndexIsNeverClobbered == Spec => NeverClobbered
<1> DEFINE Kept == dest # NoFile /\ dest' # dest /\ crashes' = crashes =>
                     dest' # NoFile /\ \E b \in Builder : overwrite[b] /\ pc'[b] # pc[b]
<1>1. ASSUME TypeOK, Next PROVE Kept
  <2>1. ASSUME NEW b \in Builder, Rename(b) PROVE Kept
    <3>1. dest' # NoFile /\ overwrite[b] /\ pc[b] = "closed" /\ pc'[b] = "published"
      BY <1>1, <2>1 DEF Rename, ComesToPath, GoTo, TypeOK
    <3> QED  BY <3>1
  <2>2. ASSUME NEW b \in Builder, Link(b) PROVE dest = NoFile
    BY <2>2 DEF Link, PathIsFree
  <2>3. CASE Crash
    <3>1. crashes' # crashes
      BY <1>1, <2>3 DEF Crash, TypeOK
    <3> QED  BY <3>1
  <2>4. CASE dest' = dest
    BY <2>4
  <2> QED  BY <1>1, <2>1, <2>2, <2>3, <2>4
           DEF Next, BuilderStep, ReaderStep, CreateTemporary, WriteChunk, FlushFile, Unlink,
               FlushDirectory, Fail, CleanUp, Kill, ReadMagic, OpenLayout, CloseIndex, path
<1>2. TypeOK /\ [Next]_vars => [Kept]_vars
  BY <1>1
<1>3. TypeOK /\ NamesInv => TypeOK
  OBVIOUS
<1> QED  BY <1>2, <1>3, NamesAlwaysKept, PTL DEF Spec, NeverClobbered

\* The inductive invariant of the path: each builder's file is its own, whole and
\* in order from the fsync to the return of Build.
THEOREM PathAlwaysKept == Spec /\ []NamesToPublishAreDistinct => []PathInv
<1>1. Init => PathInv
  BY InitTypes
<1>2. ASSUME TypeOK, TypeOK', NamesInv, NamesToPublishAreDistinct', PathInv, [Next]_vars
      PROVE  PathInv'
  <2>1. CASE Next
    <3>1. PlaceInv'
      BY <1>2, <2>1, PlaceKept DEF PathInv
    <3>2. OrderInv' /\ PathLeadsToWholeIndex' /\ SuccessIsDurable'
      BY <1>2, <2>1, PathKept
    <3>3. OpenHasFile' /\ OpenedIndexIsWhole'
      BY <1>2, <2>1, OpenedKept
    <3> QED  BY <3>1, <3>2, <3>3 DEF PathInv
  <2> QED  BY <1>2, <2>1, StutteringKeeps
<1> QED  BY <1>1, <1>2, NamesAlwaysKept, PTL DEF Spec

\* Two builders cannot come into each other's way: while one is idle nobody has
\* taken the other's name away, and it publishes once (Build, PublishIndexFile).
THEOREM TwoBuildersNamesAreDistinct ==
  ASSUME NEW x, NEW y, Builder = {x, y}
  PROVE  Spec => []NamesToPublishAreDistinct
<1> DEFINE Alone == \A b, c \in Builder : Unpublished(b) /\ pc[c] = "idle" => Named(b) = b
           Inv == Alone /\ NamesToPublishAreDistinct
<1>1. Init => Inv
  BY DEF Init, Unpublished, NamesToPublishAreDistinct
<1>2. ASSUME TypeOK, NamesInv, Inv, Next PROVE Inv'
  <2>1. ASSUME NEW b \in Builder, NEW c \in Builder, Unpublished(b)', pc'[c] = "idle"
        PROVE  Named(b)' = b
    <3>1. pc[c] = "idle"
      BY <1>2, <2>1, ZenonT(60) DEF TypeOK, Next, BuilderStep, ReaderStep, CreateTemporary, WriteChunk,
              FlushFile, Rename, Link, Unlink, FlushDirectory, Fail, CleanUp, Kill, ReadMagic,
              OpenLayout, CloseIndex, Crash, GoTo
    <3>2. b # c
      BY <2>1 DEF Unpublished
    <3>3. ~BuilderStep(c)
      BY <1>2, <2>1, <3>1 DEF TypeOK, BuilderStep, CreateTemporary, WriteChunk, FlushFile, Rename,
              Link, Unlink, FlushDirectory, Fail, CleanUp, Kill, GoTo, Ended
    <3>4. CASE CreateTemporary(b)
      BY <1>2, <3>4 DEF TypeOK, CreateTemporary, Named
    <3>5. CASE ~CreateTemporary(b)
      <4>1. Unpublished(b) /\ Named(b) = b
        BY <1>2, <2>1, <3>1, <3>5, Transitions DEF FlushFile, Unpublished
      <4>2. ~Crash
        BY <2>1 DEF Crash, Unpublished
      <4>3. BuilderStep(b) => UNCHANGED <<name, temp>>
        BY <1>2, <2>1, <3>5 DEF TypeOK, BuilderStep, WriteChunk, FlushFile, Rename, Link, Unlink,
                FlushDirectory, Fail, CleanUp, Kill, GoTo, Unpublished, files
      <4>4. UNCHANGED <<name, temp>>
        <5>1. \A d \in Builder : d = b \/ d = c
          BY <3>2
        <5>2. ASSUME NEW r \in Reader, ReaderStep(r) PROVE UNCHANGED <<name, temp>>
          BY <5>2 DEF ReaderStep, ReadMagic, OpenLayout, CloseIndex, files
        <5> QED  BY <1>2, <3>3, <4>2, <4>3, <5>1, <5>2 DEF Next
      <4> QED  BY <4>1, <4>4 DEF Named
    <3> QED  BY <3>4, <3>5
  <2>2. ASSUME NEW b \in Builder, NEW c \in Builder, Unpublished(b)', Unpublished(c)',
               name'[b] = name'[c]
        PROVE  b = c
    <3>1. ASSUME NEW d \in Builder, NEW e \in Builder, d # e, CreateTemporary(d),
                 Unpublished(e)', name'[d] = name'[e]
          PROVE  FALSE
      <4>1. pc[d] = "idle" /\ pc'[e] = pc[e] /\ name'[e] = name[e] /\ temp[name'[d]] = NoFile
        BY <1>2, <3>1 DEF TypeOK, CreateTemporary, GoTo
      <4>2. Named(e) = e
        BY <1>2, <3>1, <4>1 DEF Unpublished
      <4> QED  BY <3>1, <4>1, <4>2 DEF Named
    <3>2. CASE ~CreateTemporary(b) /\ ~CreateTemporary(c)
      <4>1. Unpublished(b) /\ Unpublished(c)
        BY <1>2, <2>2, <3>2, Transitions DEF FlushFile, Unpublished
      <4>2. name'[b] = name[b] /\ name'[c] = name[c]
        BY <1>2, <3>2, ZenonT(60) DEF TypeOK, Next, BuilderStep, ReaderStep, CreateTemporary, WriteChunk,
                FlushFile, Rename, Link, Unlink, FlushDirectory, Fail, CleanUp, Kill, ReadMagic,
                OpenLayout, CloseIndex, Crash, files
      <4> QED  BY <1>2, <2>2, <4>1, <4>2 DEF NamesToPublishAreDistinct
    <3> QED  BY <2>2, <3>1, <3>2
  <2> QED  BY <2>1, <2>2 DEF NamesToPublishAreDistinct
<1>3. ASSUME Inv, UNCHANGED vars PROVE Inv'
  BY <1>3 DEF vars, files, Named, Unpublished, NamesToPublishAreDistinct
<1>4. TypeOK /\ NamesInv /\ Inv /\ [Next]_vars => Inv'
  BY <1>2, <1>3
<1>5. Inv => NamesToPublishAreDistinct
  OBVIOUS
<1> QED  BY <1>1, <1>4, <1>5, NamesAlwaysKept, PTL DEF Spec

\* Whatever fails, whoever is killed, and after a crash too, the path never leads
\* to a part of an index: fsync comes before rename and link in Build.
THEOREM PathAlwaysLeadsToWholeIndex ==
  Spec /\ []NamesToPublishAreDistinct => []PathLeadsToWholeIndex
<1>1. PathInv => PathLeadsToWholeIndex
  BY DEF PathInv
<1> QED  BY <1>1, PathAlwaysKept, PTL

\* An open index is whole and used as the layout it has, though
\* PersistentIndex::Open looks the path up twice.
THEOREM OpenedIndexIsAlwaysWhole ==
  Spec /\ []NamesToPublishAreDistinct => []OpenedIndexIsWhole
<1>1. PathInv => OpenedIndexIsWhole
  BY DEF PathInv
<1> QED  BY <1>1, PathAlwaysKept, PTL

\* When Build has returned no crash takes the index back (the fsync of the
\* directory at the end of PublishIndexFile).
THEOREM SuccessIsAlwaysDurable ==
  Spec /\ []NamesToPublishAreDistinct => []SuccessIsDurable
<1>1. PathInv => SuccessIsDurable
  BY DEF PathInv
<1> QED  BY <1>1, PathAlwaysKept, PTL

\* The same for the two builders of the model checked: nothing is asked of the
\* names mkstemp gives (Build, PublishIndexFile, PersistentIndex::Open).
THEOREM TwoBuildersKeepPathWhole ==
  ASSUME NEW x, NEW y, Builder = {x, y}
  PROVE  Spec => [](PathLeadsToWholeIndex /\ OpenedIndexIsWhole /\ SuccessIsDurable)
<1>1. Spec => []NamesToPublishAreDistinct
  BY TwoBuildersNamesAreDistinct
<1>2. PathInv => PathLeadsToWholeIndex /\ OpenedIndexIsWhole /\ SuccessIsDurable
  BY DEF PathInv
<1> QED  BY <1>1, <1>2, PathAlwaysKept, PTL
=============================================================================
