---------------------------- MODULE MCExecution ----------------------------
(* Scheduling and executing what the transformer records for the workshop  *)
(* problem.  Times count in EPSILON, so the durations are those of very    *)
(* short actions: the two literals come early enough to cut some of them   *)
(* off, pack may be too short to contain the others.                       *)
EXTENDS ScheduledExecution, ExecutionTheorems, MCDomains

MCFacts   == WorkshopFacts
MCActions == DOMAIN Workshop
MCOp      == [Workshop EXCEPT !.pack.endAdd = {"done"}]
MCDurative == MCActions \ {"strip"}
MCGoals   == {"lamp"}
MCInit    == {"tool", "token"}
MCTILs    == <<[at |-> 8,  adds |-> {"tool"}, dels |-> {"part"}],
               [at |-> 16, adds |-> {},       dels |-> {"lamp"}]>>
MCMinDuration == [load |-> 3, fit |-> 3, watch |-> 5, pack |-> 2, spend |-> 5]
MCMaxDuration == [load |-> 3, fit |-> 5, watch |-> 9, pack |-> 2, spend |-> 5]
MCEndOneShots == [a \in MCActions |-> {}]

(* The problem is one of those that the theorems are about, and has the    *)
(* idiom of a fact that is held throughout and deleted at the end.         *)
ASSUME ProblemAssumption ==
    /\ StartsKeepInvariants /\ TokensAreSpentOnce /\ NegativesIgnoreEarlyDeletes
    /\ EndNegativesStayFalse /\ EarlyDeletesStayDeleted
    /\ Scrubbed = {"token"}
=============================================================================
