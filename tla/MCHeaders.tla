----------------------------- MODULE MCHeaders -----------------------------
(* The plans of search nodes, as the temporal heuristic gives them to KK.  *)
EXTENDS MCSearchNode

(* The comparison of facts has no part in it: it matters for the links     *)
(* that are kept, once all conditions have a support.                      *)
KK == INSTANCE Deordering
         WITH Predicate <- [f \in Facts |-> 0], Arguments <- [f \in Facts |-> <<>>]

(* KK can order the plan of every state that search evaluates; otherwise   *)
(* HRelax aborts on "logical issues determining an ordering".              *)
PlanCanBeOrdered == pending = Evaluated => KK!OrderingSucceeds(plan)
=============================================================================
