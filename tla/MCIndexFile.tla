----------------------------- MODULE MCIndexFile -----------------------------
(* Words of 6 bits: some files are as large as an offset allows, and the    *)
(* product of a damaged page count and a page size passes the word.  Pages  *)
(* hold 2 or 6 entries: tables of one and of two regions, trees of one and  *)
(* of two levels.                                                           *)
EXTENDS IndexFile

MCConfigs == [layout : {"tree", "array"}, points : {1, 2, 3}, dimensions : {1, 2},
              tables : {1, 2}, page : {4, 8}]
=============================================================================
