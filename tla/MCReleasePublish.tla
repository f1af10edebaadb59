-------------------------- MODULE MCReleasePublish --------------------------
(* Three runs of one or two commits; pages of one release and at most three *)
(* of them, so that a list may be empty, short, just full or too long.      *)
EXTENDS ReleasePublish, TLC

MCSymmetry == Permutations(Run) \cup Permutations(Commit)
=============================================================================
