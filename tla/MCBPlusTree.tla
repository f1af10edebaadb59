----------------------------- MODULE MCBPlusTree -----------------------------
(* Pages of the least capacities that group: leaves of two, parents of two   *)
(* or three.  Two tables of up to 13 points, 7 leaves and three levels, one  *)
(* with the points in rising and one in falling order, each of three values  *)
(* in every proportion.  For damages one table of three leaves, and two      *)
(* tables of one leaf.  For cursors seven points: four leaves, two parents   *)
(* and a root, values that repeat across leaves, quanta that end before, at  *)
(* and after the end of a leaf, and ones longer than the table.              *)
EXTENDS BPlusTreeCursor

Rising(n) == {[p \in 1 .. n |-> (IF p > a THEN 1 ELSE 0) + (IF p > b THEN 1 ELSE 0)] :
                a, b \in 0 .. n}
Falling(f) == [p \in DOMAIN f |-> f[Len(f) + 1 - p]]

MCInputs ==
    UNION {{<<f, Falling(f)>> : f \in Rising(n)} : n \in 1 .. 13 \ {7}}
    \cup {<<f>> : f \in Rising(5) \cup Rising(7)}
=============================================================================
