------------------------ MODULE MCTableScanSchedule ------------------------
(* Small instance of TableScanSchedule: three tables of two entries and two *)
(* radius advances, so that tables are exhausted at different times, in     *)
(* different windows, and a window may be left before it is complete.       *)
EXTENDS TableScanSchedule
=============================================================================
