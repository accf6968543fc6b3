----------------------------- MODULE SearchNode -----------------------------
(***************************************************************************)
(* A node of the search space: the state, the queue of start events that   *)
(* ExtendedMinimalState adds to it, and the plan to reach it.  An edge of  *)
(* the search space is FF::applyActionToState, which makes the child and   *)
(* queues its start event, followed by FF::evaluateStateAndUpdatePlan on   *)
(* that child, which writes the plan and settles the queue.  The two are   *)
(* steps of their own: the child exists, unevaluated, in between.          *)
(***************************************************************************)
EXTENDS TotalOrderTransformer, SequencesExt

CONSTANT MinDuration      \* shortest duration of a durative action
ASSUME DurationAssumption == MinDuration \in [Durative -> Nat]

VARIABLES
    startEventQueue,      \* list<StartEvent>
    plan,                 \* SearchQueueItem::plan, a list<FFEvent>
    pending               \* the snap-action applied but not yet evaluated

nodeVars == <<startEventQueue, plan, pending>>

Evaluated == [timeSpec |-> "NONE"]
EventInEffect(timeSpec, ref, pair, duration, effects) ==   \* broken: no withholding
    [timeSpec |-> timeSpec, ref |-> ref, pairWithStep |-> pair,
     minDuration |-> duration, getEffects |-> TRUE]
Event(timeSpec, ref, pair, duration, effects) ==
    [timeSpec |-> timeSpec, ref |-> ref, pairWithStep |-> pair,
     minDuration |-> duration, getEffects |-> effects]

(* A new entry of the queue.  What it keeps of time, and of the ends that  *)
(* its own has to wait for, is used by checkTemporalSoundness.             *)
StartEvent(a, step) ==
    [actID |-> a, stepID |-> step, minDuration |-> MinDuration[a],
     elapsed |-> 0, advancingDuration |-> MinDuration[a],
     endComesAfter |-> {}, terminated |-> FALSE]

(* entriesForAction, the places of an action's entries in the queue, is    *)
(* rebuilt whenever a child is made; an end takes the one at the front.    *)
EntriesForAction(a) == {i \in DOMAIN startEventQueue : startEventQueue[i].actID = a}
FrontEntry(a) == Min(EntriesForAction(a))

NodeInit == Init /\ startEventQueue = <<>> /\ plan = <<>> /\ pending = Evaluated

-----------------------------------------------------------------------------
(* applyActionToState.  The duration check that may discard the child and  *)
(* the numeric invariants are left out: every child is kept.               *)
Child == pending = Evaluated /\ UNCHANGED plan

ChildOfTIL ==
    /\ Child /\ ApplyTIL
    /\ pending' = [timeSpec |-> "AT", ref |-> nextTIL + 1]
    /\ UNCHANGED startEventQueue

ChildOfInstant(a) ==
    /\ Child /\ ApplyInstant(a)
    /\ pending' = [timeSpec |-> "AT_START", ref |-> a]
    /\ UNCHANGED startEventQueue

ChildOfStart(a) ==
    /\ Child
    /\ StartAction(a) \/ StartSkippable(a)
    /\ startEventQueue' = Append(startEventQueue, StartEvent(a, planLength' - 2))
    /\ pending' = [timeSpec |-> "AT_START", ref |-> a]

ChildOfEnd(a) ==
    /\ Child /\ EndAction(a)
    /\ startEventQueue' = [startEventQueue EXCEPT ![FrontEntry(a)].terminated = TRUE]
    /\ pending' = [timeSpec |-> "AT_END", ref |-> a]

-----------------------------------------------------------------------------
(* evaluateStateAndUpdatePlan.  An instantaneous action too takes its      *)
(* durations from the back of the queue: those of another action, or, of   *)
(* an empty list, whatever is there.                                       *)
OldestEvent == Head(startEventQueue)   \* broken: the wrong end of the queue
NewestEvent == Last(startEventQueue)
BackDurations ==
    IF startEventQueue = <<>> THEN {MinDuration[a] : a \in Durative}
    ELSE {NewestEvent.minDuration}

Evaluate == UNCHANGED vars /\ pending' = Evaluated

EvaluateTIL ==
    /\ pending.timeSpec = "AT" /\ Evaluate
    /\ plan' = Append(plan, Event("AT", pending.ref, -1, -1, TRUE))
    /\ UNCHANGED startEventQueue

EvaluateInstant ==
    /\ pending.timeSpec = "AT_START" /\ pending.ref \notin Durative /\ Evaluate
    /\ \E d \in BackDurations :
          plan' = Append(plan, Event("AT_START", pending.ref, -1, d, TRUE))
    /\ UNCHANGED startEventQueue

(* The end joins the plan with the start; only a compression-safe end has  *)
(* its effects, and only such an action leaves the queue at once.          *)
EvaluateStart ==
    /\ pending.timeSpec = "AT_START" /\ pending.ref \in Durative /\ Evaluate
    /\ LET a == pending.ref
           d == NewestEvent.minDuration
       IN /\ plan' = plan \o
                <<Event("AT_START", a, planLength - 1, d, TRUE),
                  Event("AT_END", a, planLength - 2, d, CanSkipToEnd(a))>>
          /\ startEventQueue' = IF CanSkipToEnd(a) THEN Front(startEventQueue)
                                ELSE startEventQueue

EvaluateEnd ==
    /\ pending.timeSpec = "AT_END" /\ Evaluate
    /\ LET i == FrontEntry(pending.ref)
       IN /\ plan' = [plan EXCEPT ![startEventQueue[i].stepID + 2].getEffects = TRUE]
          /\ startEventQueue' = RemoveAt(startEventQueue, i)

NodeNext ==
    \/ ChildOfTIL
    \/ \E a \in Actions : ChildOfInstant(a) \/ ChildOfStart(a) \/ ChildOfEnd(a)
    \/ EvaluateTIL \/ EvaluateInstant \/ EvaluateStart \/ EvaluateEnd

NodeSpec == NodeInit /\ [][NodeNext]_<<vars, nodeVars>>

-----------------------------------------------------------------------------
(* The queue and the transformer keep separate records of what is running, *)
(* and each picks which instance an end belongs to; they always pick the   *)
(* same one.                                                               *)
QueueMatchesState ==
    pending = Evaluated =>
        \A a \in Actions :
            /\ {PendingEnd(startEventQueue[i].stepID) : i \in EntriesForAction(a)}
                  = startedActions[a]
            /\ startedActions[a] # {} =>
                  PendingEnd(startEventQueue[FrontEntry(a)].stepID)
                      = Earliest(startedActions[a])

(* Step numbers of the state index the plan, and the plan takes the effects*)
(* of exactly the steps that are not ends of running actions.              *)
PlanMatchesState ==
    pending = Evaluated =>
        /\ Len(plan) = planLength
        /\ \A k \in StepIDs :
              LET event == plan[k + 1]
              IN /\ StepOf(k).spec = "TIL" <=> event.timeSpec = "AT"
                 /\ event.timeSpec = "AT_END" =>
                       /\ event.ref = StepOf(k).act
                       /\ plan[event.pairWithStep + 1].pairWithStep = k
                       /\ <<event.pairWithStep, k>> \in stepsBefore
                 /\ event.getEffects = ~(\E a \in Actions : k \in startedActions[a])

(* A start and its end carry the duration of their own action, although    *)
(* they read it from the back of the queue.                                *)
PairsCarryTheirDuration ==
    \A k \in DOMAIN plan :
        plan[k].timeSpec = "AT_END" =>
            /\ plan[k].minDuration = MinDuration[plan[k].ref]
            /\ plan[plan[k].pairWithStep + 1].minDuration = plan[k].minDuration

(* planLength - actionsExecuting, by which HTrio ranks states, is the      *)
(* number of snap-actions applied to reach the state: a compression-safe   *)
(* action counts once, others at their start and again at their end.       *)
RankCountsAppliedSteps == planLength - actionsExecuting = Len(applied)
=============================================================================
