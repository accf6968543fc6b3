------------------------------ MODULE MCSweep ------------------------------
(* Two actions without a condition in common; one deletes, at its end, the *)
(* goal that the other achieves.                                           *)
EXTENDS TemporalHeuristic, MCDomains

MCFacts == {"shine", "swept"}
Sweep  == [Idle EXCEPT !.endAdd = {"swept"}, !.endDel = {"shine"}]
Polish == [Idle EXCEPT !.endAdd = {"shine"}]
MCOp == [sweep |-> Sweep, polish |-> Polish]
MCActions == DOMAIN MCOp
MCPredicate == [shine |-> 1, swept |-> 2]
MCArguments == [f \in MCFacts |-> <<>>]
MCMinDuration == [sweep |-> 80, polish |-> 20]
MCGoals == MCFacts
MCTILs == <<>>
MCHeaders == {<<>>}
=============================================================================
