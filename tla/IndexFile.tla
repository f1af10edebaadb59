------------------------------ MODULE IndexFile ------------------------------
(***************************************************************************)
(* The file of a persistent index (src/qalsh.cc): where Build puts its     *)
(* regions, and what Open accepts.  A file is                              *)
(*                                                                         *)
(*    header | roots or table offsets | projection vectors | padding |     *)
(*    pages of the B+ tree, or the tables of the sorted array              *)
(*                                                                         *)
(* The numbers that say where these are depend on each other, and Open     *)
(* computes with numbers it has just read, in words of Bits bits.  Between *)
(* Build and Open a bit of a number may flip, the file be cut or padded,   *)
(* and entries change.  What the pages of a tree hold is the subject of    *)
(* BPlusTree; here only their places matter.  The host has 64 bits, so a   *)
(* size_t is a word.                                                       *)
(*                                                                         *)
(* An operator named Slip... is a plausible mistake in the definition that *)
(* follows it, kept to show that some property notices it.                 *)
(***************************************************************************)
EXTENDS Integers, Sequences, FiniteSets

CONSTANTS
    Bits,           \* width of a word
    HeaderBytes, RootBytes, CoordinateBytes, EntryBytes, PageHeaderBytes, ChildBytes,
    MinPage, MaxPage, PageUnit,             \* what page sizes may be
    MaxPoints, MaxDimensions, MaxTables,    \* kMaxReasonable...
    Configs,        \* what is built
    ValueRange,     \* projected values
    MaxDamages      \* bound: damages to a file

ASSUME IndexFileAssumption ==
    /\ {Bits, HeaderBytes, RootBytes, CoordinateBytes, EntryBytes, PageHeaderBytes, ChildBytes,
        MinPage, MaxPage, PageUnit, MaxPoints, MaxDimensions, MaxTables} \subseteq Nat \ {0}
    /\ (MinPage - PageHeaderBytes) \div EntryBytes > 0
    /\ (MinPage - PageHeaderBytes) \div ChildBytes > 1
    /\ MaxDamages \in Nat

\* What both Builds ask of what they are given, and ValidateConfig.
IsConfig(c) ==
    /\ c.layout \in {"tree", "array"}
    /\ c.points \in 1 .. MaxPoints
    /\ c.dimensions \in 1 .. MaxDimensions
    /\ c.tables \in 1 .. MaxTables
    /\ c.page \in MinPage .. MaxPage /\ c.page % PageUnit = 0

ASSUME ConfigsAssumption ==
    /\ \A c \in Configs : IsConfig(c)
    /\ ValueRange \subseteq Int

VARIABLES
    phase,      \* none, not built, built, open or refused
    header,     \* DiskFileHeader: the fields that say where things are
    size,       \* the size the file system reports
    roots,      \* of each table: its root page, or the offset of its entries
    tables,     \* of a sorted array: the entries written
    base,       \* where the first of them was written
    damages

fileVars == <<phase, header, size, roots, tables, base, damages>>

MaxWord == 2^Bits - 1
MaxOffset == 2^(Bits - 1) - 1

MultiplyFits(a, b) == a = 0 \/ b <= MaxWord \div a
AddFits(a, b) == b <= MaxWord - a

Multiply(a, b) == (a * b) % (MaxWord + 1)
Add(a, b) == (a + b) % (MaxWord + 1)

-----------------------------------------------------------------------------
\* Slip: the tables follow the projection vectors at once.
SlipNotAligned(value, alignment) == value
AlignUp(value, alignment) ==
    IF value % alignment = 0 THEN value ELSE value + (alignment - (value % alignment))

Ceiling(a, b) == (a + b - 1) \div b
RegionCapacity(page) == (page - PageHeaderBytes) \div EntryBytes
InternalCapacity(page) == (page - PageHeaderBytes) \div ChildBytes

\* Pages of a tree with so many leaves: a level at a time up to a single root.
TreePages(leaves, page) ==
    LET pages[count \in 1 .. leaves] ==
          IF count = 1 THEN 1 ELSE count + pages[Ceiling(count, InternalCapacity(page))]
    IN  pages[leaves]

PagesPerTable(c) ==
    LET regions == Ceiling(c.points, RegionCapacity(c.page))
    IN  IF c.layout = "array" THEN regions ELSE TreePages(regions, c.page)

\* Page 0 of a tree is the null link and has a place; a sorted array counts it.
PageCount(c) == 1 + c.tables * PagesPerTable(c)

DataBytes(c) == IF c.layout = "array" THEN c.points * c.tables * EntryBytes
                ELSE PageCount(c) * c.page

HeaderOf(c) ==
    LET projections == HeaderBytes + c.tables * RootBytes
        data == AlignUp(projections + c.tables * c.dimensions * CoordinateBytes, c.page)
    IN  [layout |-> c.layout, points |-> c.points, dimensions |-> c.dimensions,
         tables |-> c.tables, page |-> c.page,
         roots |-> HeaderBytes, projections |-> projections, data |-> data,
         pages |-> PageCount(c), size |-> data + DataBytes(c)]

\* The last page of each table is its root; the tables of an array follow each
\* other.
RootsOf(c) ==
    [t \in 1 .. c.tables |->
        IF c.layout = "tree" THEN t * PagesPerTable(c)
        ELSE HeaderOf(c).data + (t - 1) * c.points * EntryBytes]

\* Slip: entries are ordered by their values.
SlipByValue(e, f) == e.value <= f.value
KeyLess(e, f) == e.value < f.value \/ (e.value = f.value /\ e.id < f.id)

\* The orders std::sort may leave a set of entries in.
InOrder(S) ==
    {s \in [1 .. Cardinality(S) -> S] : \A i, j \in DOMAIN s : i < j => KeyLess(s[i], s[j])}

\* The entries of each table, sorted; a tree keeps its own in pages.
WrittenTables(c, value) ==
    LET entries(t) == {[value |-> value[(p + t) % c.points], id |-> p] : p \in DOMAIN value}
        order == UNION {InOrder(entries(t)) : t \in 1 .. c.tables}
    IN  IF c.layout = "tree" THEN {<<>>}
        ELSE {f \in [1 .. c.tables -> order] : \A t \in 1 .. c.tables : f[t] \in InOrder(entries(t))}

InitFile ==
    /\ phase = "none" /\ damages = 0
    /\ header = <<>> /\ size = 0 /\ roots = <<>> /\ tables = <<>> /\ base = 0

\* BPlusTreeIndex::Build or SortedArrayIndex::Build with no failing call; a file
\* whose size is no file offset is refused before it is made.
Build(c) ==
    /\ phase = "none"
    /\ IF HeaderOf(c).size > MaxOffset
         THEN phase' = "not built" /\ UNCHANGED <<header, size, roots, tables, base>>
         ELSE /\ phase' = "built"
              /\ header' = HeaderOf(c) /\ size' = HeaderOf(c).size
              /\ roots' = RootsOf(c) /\ base' = HeaderOf(c).data
              /\ \E value \in [0 .. c.points - 1 -> ValueRange] : tables' \in WrittenTables(c, value)
    /\ UNCHANGED damages

-----------------------------------------------------------------------------
\* The file is not what was written.
Damage ==
    /\ phase = "built" /\ damages < MaxDamages
    /\ damages' = damages + 1
    /\ UNCHANGED <<phase, base>>

Flip(n, bit) == IF (n \div 2^bit) % 2 = 0 THEN n + 2^bit ELSE n - 2^bit

FlipInHeader(field, bit) ==
    /\ Damage
    /\ header' = [header EXCEPT ![field] = Flip(@, bit)]
    /\ UNCHANGED <<size, roots, tables>>

FlipInRoots(t, bit) ==
    /\ Damage
    /\ roots' = [roots EXCEPT ![t] = Flip(@, bit)]
    /\ UNCHANGED <<header, size, tables>>

Resize(bytes) ==
    /\ Damage
    /\ bytes # size /\ size' = bytes
    /\ UNCHANGED <<header, roots, tables>>

ExchangeEntries(t, i, j) ==
    /\ Damage
    /\ tables' = [tables EXCEPT ![t] = [@ EXCEPT ![i] = tables[t][j], ![j] = tables[t][i]]]
    /\ UNCHANGED <<header, size, roots>>

ChangeEntry(t, i, e) ==
    /\ Damage
    /\ tables' = [tables EXCEPT ![t] = [@ EXCEPT ![i] = e]]
    /\ UNCHANGED <<header, size, roots>>

-----------------------------------------------------------------------------
InRange(n, low, high) == low <= n /\ n <= high

LimitsOK ==
    /\ InRange(header.points, 1, MaxPoints)
    /\ InRange(header.dimensions, 1, MaxDimensions)
    /\ InRange(header.tables, 1, MaxTables)
    /\ InRange(header.page, MinPage, MaxPage) /\ header.page % PageUnit = 0

\* Region counts, sizes and the size of the file agree.
ArrayEnvelopeOK ==
    LET total == Multiply(header.points, header.tables)
        bytes == Multiply(total, EntryBytes)
        regions == ((header.points - 1) \div RegionCapacity(header.page)) + 1
    IN  /\ MultiplyFits(header.points, header.tables) /\ MultiplyFits(total, EntryBytes)
        /\ MultiplyFits(regions, header.tables)
        /\ header.pages = Add(Multiply(regions, header.tables), 1)
        /\ AddFits(header.data, bytes) /\ header.size = Add(header.data, bytes)

TreeEnvelopeOK ==
    /\ header.pages > 1
    /\ MultiplyFits(header.pages, header.page)
    /\ AddFits(header.data, Multiply(header.pages, header.page))
    /\ header.size = Add(header.data, Multiply(header.pages, header.page))

Coordinates == Multiply(header.tables, header.dimensions)

\* Slip: a projection vector has one coordinate.
SlipOneCoordinate == Add(header.projections, Multiply(header.tables, CoordinateBytes))
ProjectionsEnd == Add(header.projections, Multiply(Coordinates, CoordinateBytes))

\* The regions follow each other, and the last starts at a multiple of a page.
OffsetsOK ==
    /\ MultiplyFits(header.tables, RootBytes)
    /\ MultiplyFits(header.tables, header.dimensions)
    /\ MultiplyFits(Coordinates, CoordinateBytes)
    /\ AddFits(HeaderBytes, Multiply(header.tables, RootBytes))
    /\ AddFits(header.projections, Multiply(Coordinates, CoordinateBytes))
    /\ header.roots = HeaderBytes
    /\ header.projections = Add(HeaderBytes, Multiply(header.tables, RootBytes))
    /\ ProjectionsEnd <= header.data
    /\ header.data % header.page = 0
    /\ header.data <= header.size

EnvelopeOK ==
    /\ size >= HeaderBytes
    /\ LimitsOK
    /\ IF header.layout = "array" THEN ArrayEnvelopeOK ELSE TreeEnvelopeOK
    /\ header.size = size
    /\ OffsetsOK

Junk == [value |-> 0, id |-> 0]

\* The entry that is read at an offset; bytes that hold something else are junk.
EntryAt(offset) ==
    LET place == (offset - base) \div EntryBytes
        points == Len(tables[1])
    IN  IF offset >= base /\ (offset - base) % EntryBytes = 0 /\ place < points * Len(tables)
          THEN tables[(place \div points) + 1][(place % points) + 1] ELSE Junk

OpenTable(t) == [i \in 1 .. header.points |-> EntryAt(roots[t] + (i - 1) * EntryBytes)]

IsTable(table) ==
    /\ \A i \in DOMAIN table : InRange(table[i].id, 0, header.points - 1)
    /\ \A i \in DOMAIN table \ {1} : KeyLess(table[i - 1], table[i])
    /\ \A i, j \in DOMAIN table : table[i].id = table[j].id => i = j

\* Roots beyond those written are coordinates, which name no place.
RootsAreRead == header.tables <= Len(roots)

\* SortedArrayIndex::load_header: contiguous tables that fill the file, each
\* with every point once, in order.
LoadArray ==
    /\ RootsAreRead
    /\ \A t \in 1 .. header.tables :
         /\ roots[t] = header.data + (t - 1) * header.points * EntryBytes
         /\ roots[t] + header.points * EntryBytes <= header.size
         /\ IsTable(OpenTable(t))
    /\ header.data + header.tables * header.points * EntryBytes = header.size

\* BPlusTreeIndex::read_page
PageIsRead(p) ==
    LET offset == Add(header.data, Multiply(p, header.page))
    IN  /\ MultiplyFits(p, header.page) /\ AddFits(header.data, Multiply(p, header.page))
        /\ offset <= size /\ header.page <= size - offset

\* BPlusTreeIndex::load_header up to what it finds in the pages.
LoadTree ==
    /\ RootsAreRead
    /\ \A t \in 1 .. header.tables : InRange(roots[t], 1, header.pages - 1)
    /\ \A p \in 1 .. header.pages - 1 : PageIsRead(p)

Accepted == EnvelopeOK /\ IF header.layout = "array" THEN LoadArray ELSE LoadTree

Open ==
    /\ phase = "built"
    /\ phase' = IF Accepted THEN "open" ELSE "refused"
    /\ UNCHANGED <<header, size, roots, tables, base, damages>>

NumberFields == {"points", "dimensions", "tables", "page", "roots", "projections", "data",
                 "pages", "size"}

DamageFile ==
    \/ \E bit \in 0 .. Bits - 1 :
         \/ \E field \in NumberFields : FlipInHeader(field, bit)
         \/ \E t \in DOMAIN roots : FlipInRoots(t, bit)
    \/ \E bytes \in 0 .. MaxOffset : Resize(bytes)
    \/ \E t \in DOMAIN tables : \E i \in DOMAIN tables[t] :
         \/ \E j \in DOMAIN tables[t] : i < j /\ ExchangeEntries(t, i, j)
         \/ \E value \in ValueRange, id \in 0 .. Len(tables[t]) :
              ChangeEntry(t, i, [value |-> value, id |-> id])

NextFile == (\E c \in Configs : Build(c)) \/ DamageFile \/ Open

FileSpec == InitFile /\ [][NextFile]_fileVars

-----------------------------------------------------------------------------
\* What Build writes Open accepts: both compute the places of things by formulas
\* of their own.
BuiltFileIsAccepted == phase = "refused" => damages > 0

\* Whatever numbers a file has that Open accepts: in true arithmetic, every page
\* and every entry a query can ask for lies inside the file, behind the regions
\* before it.
ReadsStayInFile ==
    phase = "open" =>
        LET behind == HeaderBytes + header.tables * (RootBytes + header.dimensions * CoordinateBytes)
        IN  /\ header.data >= behind
            /\ IF header.layout = "tree"
                 THEN header.data + header.pages * header.page <= size
                 ELSE \A t \in 1 .. header.tables :
                        /\ roots[t] >= behind
                        /\ roots[t] + header.points * EntryBytes <= size

\* Every table of an open sorted array has each point once, by value and then by
\* id, so that cursors on it deliver what cursors in memory would.
OpenTablesAreWhole ==
    phase = "open" /\ header.layout = "array" =>
        \A t \in 1 .. header.tables :
            /\ {OpenTable(t)[i].id : i \in 1 .. header.points} = 0 .. header.points - 1
            /\ \A i, j \in 1 .. header.points : i < j =>
                 LET e == OpenTable(t)[i]  f == OpenTable(t)[j]
                 IN  e.value < f.value \/ (e.value = f.value /\ e.id < f.id)
=============================================================================
