------------------------- MODULE ScheduledExecution -------------------------
(***************************************************************************)
(* Search nodes that have been tested and scheduled, and the execution of  *)
(* their plans: only an open node's plan is ever handed over.              *)
(***************************************************************************)
EXTENDS PlanExecution, NodeScheduling

ScheduledInit == SchedulingInit /\ executing = FALSE /\ done = {} /\ world = InitFacts

SearchOn == ~executing /\ SchedulingNext /\ UNCHANGED execVars
HandOverOpenNode ==
    /\ stage = "open" /\ HandOver
    /\ UNCHANGED <<nodeVars, soundnessVars, schedulingVars>>
ExecuteStep ==
    /\ \E k \in PlanSteps : Execute(k)
    /\ UNCHANGED <<nodeVars, soundnessVars, schedulingVars>>

ScheduledNext == SearchOn \/ HandOverOpenNode \/ (executing /\ ExecuteStep)
ScheduledSpec ==
    ScheduledInit /\ [][ScheduledNext]_<<allSchedulingVars, execVars>>
=============================================================================
