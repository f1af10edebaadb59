------------------------- MODULE MCProjectionCursor -------------------------
(* Every sorted table of four entries over the values 0..3, every query in  *)
(* that range, bounds 0..2: ties, tables wholly on one side of the query,   *)
(* windows that close before, at and after a leaf end all occur.            *)
EXTENDS ProjectionCursor

MCValues == 0 .. 3
MCBounds == 0 .. 2
MCQuanta == 1 .. 4
=============================================================================
