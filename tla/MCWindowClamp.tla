--------------------------- MODULE MCWindowClamp ---------------------------
(* Every range of up to 24 entries, every prefix, both directions and both  *)
(* builds: up to three blocks are probed, at the ends of the range too.     *)
EXTENDS WindowClamp
=============================================================================
