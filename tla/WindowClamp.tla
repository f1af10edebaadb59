---------------------------- MODULE WindowClamp ----------------------------
(***************************************************************************)
(* The search inside ClampToWindow (src/window_clamp.h): how many entries  *)
(* of a range that goes outward from the query lie inside the window.      *)
(* CursorScan states what it returns; here is how it finds it, with the    *)
(* block probes of the SSE2 build or without.                              *)
(*                                                                         *)
(* The entries are sorted, so the inside ones are the first `prefix` of    *)
(* the range.  The range fills the memory places 1 .. count; a reverse     *)
(* range begins at the last of them.                                       *)
(*                                                                         *)
(* An operator named Slip... is a plausible mistake in the definition that *)
(* follows it, kept to show that some property notices it.                 *)
(***************************************************************************)
EXTENDS Integers

CONSTANT MaxCount      \* bound: entries in a range

ASSUME WindowClampAssumption == MaxCount \in Nat

Lanes == 4

VARIABLES
    count, reverse,     \* the HitRange
    prefix,             \* how many of its entries are inside
    sse2,               \* which build
    pc, lo, hi,         \* the search
    read                \* the places the last step has read

input == <<count, reverse, prefix, sse2>>
clampVars == <<input, pc, lo, hi, read>>

InitClamp ==
    /\ count \in 0 .. MaxCount
    /\ prefix \in 0 .. count
    /\ reverse \in BOOLEAN
    /\ sse2 \in BOOLEAN
    /\ pc = "farEnd"
    /\ lo = 0 /\ hi = 0
    /\ read = {}

-----------------------------------------------------------------------------
\* The place of a logical position, and whether the entry at a place is inside.
Place(p) == IF reverse THEN count - p ELSE p + 1
InsideAt(m) == (IF reverse THEN count - m ELSE m - 1) < prefix

\* 128-bit registers of four words.  Each load covers two entries; an entry's
\* value is named by its place and its point id is 0.
LoadPair(m) == <<m, 0, m + 1, 0>>
Shuffle(r, d, c, b, a) == <<r[a + 1], r[b + 1], r[c + 1], r[d + 1]>>
UnpackLow(r, s) == <<r[1], r[2], s[1], s[2]>>

LoadFourForward(m) ==
    UnpackLow(Shuffle(LoadPair(m), 2, 0, 2, 0), Shuffle(LoadPair(m + 2), 2, 0, 2, 0))

\* Slip: the pairs are not turned around.
SlipUnreversed(m) ==
    UnpackLow(Shuffle(LoadPair(m - 1), 2, 0, 2, 0), Shuffle(LoadPair(m - 3), 2, 0, 2, 0))

LoadFourReverse(m) ==
    LET first == Shuffle(LoadPair(m - 1), 2, 0, 2, 0)
        second == Shuffle(LoadPair(m - 3), 2, 0, 2, 0)
    IN  UnpackLow(Shuffle(first, 0, 1, 0, 1), Shuffle(second, 0, 1, 0, 1))

LoadFour(p) == IF reverse THEN LoadFourReverse(Place(p)) ELSE LoadFourForward(Place(p))

\* The lanes that are inside, and the first that is not.
InsideMask(p) == {l \in 0 .. Lanes - 1 : InsideAt(LoadFour(p)[l + 1])}
FirstZero(mask) ==
    CHOOSE l \in 0 .. Lanes - 1 : l \notin mask /\ \A j \in 0 .. l - 1 : j \in mask

Middle == lo + (hi - lo) \div 2

\* Slip: the block is placed around the middle without a look at the end.
SlipBlockAtMiddle == Middle
BlockStart == IF Middle <= hi - Lanes THEN Middle ELSE hi - Lanes

Return(n) == pc' = "done" /\ lo' = n /\ hi' = n

\* The empty range and the whole range inside.
FarEnd ==
    /\ pc = "farEnd"
    /\ read' = IF count = 0 THEN {} ELSE {Place(count - 1)}
    /\ IF count = 0 \/ InsideAt(Place(count - 1))
         THEN Return(count)
         ELSE pc' = "firstEntry" /\ UNCHANGED <<lo, hi>>
    /\ UNCHANGED input

FirstEntry ==
    /\ pc = "firstEntry"
    /\ read' = {Place(0)}
    /\ IF InsideAt(Place(0))
         THEN pc' = "blocks" /\ lo' = 1 /\ hi' = count
         ELSE Return(0)
    /\ UNCHANGED input

\* One block of the SSE2 loop.
ProbeBlock ==
    /\ pc = "blocks"
    /\ sse2 /\ hi - lo > Lanes
    /\ LET start == BlockStart
           mask == InsideMask(start)
       IN  /\ read' = {LoadFour(start)[l] : l \in 1 .. Lanes}
           /\ \/ /\ mask = 0 .. Lanes - 1
                 /\ lo' = start + Lanes
                 /\ UNCHANGED <<pc, hi>>
              \/ /\ mask = {}
                 /\ hi' = start
                 /\ UNCHANGED <<pc, lo>>
              \/ /\ mask \notin {{}, 0 .. Lanes - 1}
                 /\ Return(start + FirstZero(mask))
    /\ UNCHANGED input

LeaveBlocks ==
    /\ pc = "blocks"
    /\ ~(sse2 /\ hi - lo > Lanes)
    /\ pc' = "halving"
    /\ read' = {}
    /\ UNCHANGED <<input, lo, hi>>

\* Slip: the probed entry is kept as a candidate, which may not shrink hi - lo.
SlipAfterInside(p) == p
AfterInside(p) == p + 1

\* One step of the binary search.
ProbeEntry ==
    /\ pc = "halving"
    /\ lo < hi
    /\ read' = {Place(Middle)}
    /\ IF InsideAt(Place(Middle))
         THEN lo' = AfterInside(Middle) /\ UNCHANGED hi
         ELSE hi' = Middle /\ UNCHANGED lo
    /\ UNCHANGED <<input, pc>>

LeaveHalving ==
    /\ pc = "halving"
    /\ ~(lo < hi)
    /\ Return(lo)
    /\ read' = {}
    /\ UNCHANGED input

NextClamp == FarEnd \/ FirstEntry \/ ProbeBlock \/ LeaveBlocks \/ ProbeEntry \/ LeaveHalving

ClampSpec == InitClamp /\ [][NextClamp]_clampVars

\* Straight-line code on the caller's thread.
FairClampSpec == ClampSpec /\ WF_clampVars(NextClamp)

-----------------------------------------------------------------------------
ClampTypeOK ==
    /\ count \in 0 .. MaxCount
    /\ prefix \in 0 .. count
    /\ reverse \in BOOLEAN /\ sse2 \in BOOLEAN
    /\ pc \in {"farEnd", "firstEntry", "blocks", "halving", "done"}
    /\ lo \in 0 .. count /\ hi \in 0 .. count /\ lo <= hi
    /\ read \subseteq Int

\* ClampToWindow finds the longest inside prefix, in both directions and both
\* builds: what CursorScan assumes of it.
FindsLongestPrefix == pc = "done" => lo = prefix

\* No probe reads beyond the supplied range.
ReadsWithinRange == read \subseteq 1 .. count

\* The search ends.
ClampReturns == <>(pc = "done")
=============================================================================
