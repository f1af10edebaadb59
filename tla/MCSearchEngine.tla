--------------------------- MODULE MCSearchEngine ---------------------------
(* Two tables over three points and a strategy that may ask for anything.  *)
(* The entries lie 0 to 2 from the query: radius 1 cuts both tables,       *)
(* radius 2 cuts none, radius 8 is not representable.  Two points tie.     *)
(* Six actions are enough to exhaust both tables; k = 1 and 2, bounded     *)
(* distances or not.                                                       *)
EXTENDS SearchEngine, TLC

MCProblem(k, bounded) ==
    [values |-> (0 :> <<-1, 0, 2>> @@ 1 :> <<1, 1, 2>>),
     points |-> (0 :> <<2, 0, 1>> @@ 1 :> <<0, 2, 1>>),
     query |-> [t \in Table |-> 0],
     distance |-> (0 :> 1 @@ 1 :> 2 @@ 2 :> 1),
     k |-> k, quantum |-> 2, bounded |-> bounded, maxSteps |-> 6]

MCProblems == {MCProblem(1, TRUE), MCProblem(2, TRUE), MCProblem(2, FALSE)}
=============================================================================
