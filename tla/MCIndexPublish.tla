--------------------------- MODULE MCIndexPublish ---------------------------
(* Two builders and a reader, overwriting or not, of the same layout or of  *)
(* two; files of two pieces, so that a file may be cut in two; one crash.   *)
EXTENDS IndexPublish, TLC

MCSymmetry == Permutations(Builder) \cup Permutations(Layout) \cup Permutations(Name)
=============================================================================
