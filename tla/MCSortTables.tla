---------------------------- MODULE MCSortTables ----------------------------
(* Four tables and three workers: workers race for the tables, find none    *)
(* left, and thread creation fails with none or one thread at work.         *)
EXTENDS SortTables
=============================================================================
