--------------------------- MODULE PlanExecution ---------------------------
(***************************************************************************)
(* What the orderings are for.  The search may hand the steps it recorded  *)
(* to an executor at any point; the executor runs them in any order that   *)
(* the recorded orderings allow, with the semantics of PDDL: a snap-action *)
(* needs its own conditions when it runs, a running action needs its       *)
(* over-all conditions in between, effects happen when the step runs.  The *)
(* transformer is right if every such run goes through and ends in the     *)
(* facts of the search state.                                              *)
(***************************************************************************)
EXTENDS TotalOrderTransformer

VARIABLES
    executing,   \* the plan has been handed over
    done,        \* steps the executor has run
    world        \* facts that are true for the executor

execVars == <<executing, done, world>>

ExecInit == Init /\ executing = FALSE /\ done = {} /\ world = InitFacts

Search  == ~executing /\ Next /\ UNCHANGED execVars
HandOver == ~executing /\ executing' = TRUE /\ UNCHANGED <<vars, done, world>>

(* The end of a running action that is not compression safe is recorded    *)
(* when the action starts, but is part of the plan only once it is applied.*)
PlanSteps ==
    {applied[i] : i \in DOMAIN applied} \cup
    {PendingEnd(applied[i]) : i \in {j \in DOMAIN applied : SkippedStart(applied[j])}}
Ready(k) ==
    /\ k \in PlanSteps \ done
    /\ \A edge \in stepsBefore : edge[2] = k => edge[1] \in done

OwnConditions(st) ==
    IF st.spec = "START" THEN Range(Op[st.act].startPre) ELSE Conditions(st)
OwnNegatives(st) ==
    CASE st.spec = "TIL" -> {}
      [] st.spec = "END" -> Op[st.act].endNeg
      [] OTHER           -> Op[st.act].startNeg

Execute(k) ==
    /\ executing /\ Ready(k)
    /\ done' = done \cup {k}
    /\ world' = (world \ Deletes(StepOf(k))) \cup Additions(StepOf(k))
    /\ UNCHANGED <<vars, executing>>

ExecNext == Search \/ HandOver \/ (executing /\ \E k \in PlanSteps : Execute(k))
ExecSpec == ExecInit /\ [][ExecNext]_<<vars, execVars>>

-----------------------------------------------------------------------------
(* Whatever order the executor picks, a step it may run next has its       *)
(* conditions, although the search tested them in one order only, and with *)
(* the effects of compression-safe ends applied early.                     *)
ReadyStepsAreApplicable ==
    executing => \A k \in PlanSteps :
        Ready(k) => /\ OwnConditions(StepOf(k)) \subseteq world
                    /\ OwnNegatives(StepOf(k)) \cap world = {}

(* Whatever order the executor picks, no step breaks an over-all condition *)
(* of an action that is running.                                           *)
OverAllConditionsHold ==
    \A k \in done :
        (StepOf(k).spec = "START" /\ PendingEnd(k) \notin done)
        => Range(Op[StepOf(k).act].inv) \subseteq world

(* Every run of the whole plan ends in the facts the search believed in.   *)
RunsEndInTheSearchState ==
    (executing /\ PlanSteps \subseteq done) => world = first

(* The executor always has a step to run until the plan is finished.       *)
NeverStuck ==
    (executing /\ ~(PlanSteps \subseteq done)) => \E k \in PlanSteps : Ready(k)
=============================================================================
