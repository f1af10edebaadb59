--------------------------- MODULE MCQueryScratch ---------------------------
(* Two nested searches, indexes of one and two points at two addresses,     *)
(* three index objects so that an address is used again, cursor vectors     *)
(* that grow and shrink, and an epoch that wraps around after two searches. *)
EXTENDS QueryScratch, TLC

MCObjects == 1 .. 3
MCSymmetry == Permutations(Address) \cup Permutations(Queries)
MCPointCounts == {1, 2}
=============================================================================
