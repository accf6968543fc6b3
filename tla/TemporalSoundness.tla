------------------------- MODULE TemporalSoundness -------------------------
(***************************************************************************)
(* FF::checkTemporalSoundness: the test of a child before it is scheduled  *)
(* and evaluated.  It keeps a lower bound on the time since each running   *)
(* action started and on the time of the state, rejects the child if one   *)
(* of them cannot be met, and orders the ends of running actions among     *)
(* themselves and after the pending ends they rely on.  Times count in     *)
(* EPSILON.                                                                *)
(***************************************************************************)
EXTENDS SearchNode

CONSTANTS
    MaxDuration,      \* longest duration of a durative action
    EndOneShots       \* end conditions that, once lost, cannot come back
ASSUME SoundnessAssumption ==
    /\ MaxDuration \in [Durative -> Nat]
    /\ \A a \in Durative : 1 <= MinDuration[a] /\ MinDuration[a] <= MaxDuration[a]
    /\ EndOneShots \in [Actions -> SUBSET Facts]

VARIABLES
    stage,            \* where the node is on its way to being expanded
    timeStamp,        \* a lower bound on the time of the state
    stepBeforeTIL     \* steps below this number precede the last TIL

soundnessVars == <<stage, timeStamp, stepBeforeTIL>>

SoundnessInit == stage = "open" /\ timeStamp = 0 /\ stepBeforeTIL = -1

-----------------------------------------------------------------------------
Running(queue) == {q \in Range(queue) : ~q.terminated}
EndStep(q) == PendingEnd(q.stepID)

(* An entry, "by" later; "advance" is what its end has come nearer by.     *)
Aged(q, by, advance) ==
    IF q.terminated THEN q
    ELSE [q EXCEPT !.elapsed = @ + by, !.advancingDuration = @ - advance]
Overdue(queue) ==
    \E q \in Running(queue) : q.elapsed > MaxDuration[q.actID]
TooLateForTIL(now) == nextTIL < Len(TILs) /\ TILs[nextTIL + 1].at < now

(* An end waits for the pending ends that add its conditions again, along  *)
(* with the step just applied.                                             *)
JustAdded(a) ==
    IF pending.timeSpec = "AT_END" THEN Op[a].endAdd
    ELSE Op[a].startAdd \cup {f \in Op[a].endAdd : CanSkipToEnd(a)}
EndsAwaitingPendingEnds(a) ==
    UNION {{<<e, EndStep(q)>> :
              e \in Awaited(firstAnnotations,
                            Range(Op[q.actID].endPre) \cap JustAdded(a) \cap first)
                    \ {EndStep(q)}} :
           q \in {r \in Running(startEventQueue) : ~CanSkipToEnd(r.actID)}}

-----------------------------------------------------------------------------
(* The child passes with its queue, its time and more orderings, or fails. *)
Pass(queue, now, orderings) ==
    /\ stage' = "sound"
    /\ startEventQueue' = queue /\ timeStamp' = now
    /\ stepsBefore' = stepsBefore \cup orderings
    /\ epsilonBefore' = epsilonBefore \cup orderings
Fail ==
    /\ stage' = "unsound"
    /\ UNCHANGED <<startEventQueue, timeStamp, stepsBefore, epsilonBefore, stepBeforeTIL>>

(* Facts a timed literal deletes for good                                  *)
PermanentNegativeEffects(t) ==
    {f \in TILs[t].dels :
        /\ \A a \in Actions : f \notin Adds(a)
        /\ \A u \in t..Len(TILs) : f \notin TILs[u].adds}
(* A literal must come before the action can end, and takes what it needs. *)
DoomedByTIL(a, finish) ==
    \E t \in nextTIL + 1..Len(TILs) :
        /\ TILs[t].at < finish
        /\ \/ PermanentNegativeEffects(t) \cap Range(Op[a].endPre) # {}
           \/ TILs[t].dels \cap Range(Op[a].inv) # {}

(* The new action, last in the queue, and an older one q that runs: which  *)
(* end has to come first.                                                  *)
LongInsideShort(new, q) ==
    /\ new.minDuration - new.elapsed >= 1
    /\ MaxDuration[q.actID] - q.elapsed < new.minDuration - new.elapsed
EndNeeds(a) == Range(Op[a].inv) \cup EndOneShots[a]
EndDisturbs(a, b) == Op[a].endDel \cap EndNeeds(b) # {}

StartedQueue(queue) ==
    LET new == Last(queue)
        older == Running(Front(queue))
        sooner == {q \in older : LongInsideShort(new, q)
                                 \/ EndDisturbs(new.actID, q.actID)}
        later == {q \in older : EndDisturbs(q.actID, new.actID)}
    IN [i \in DOMAIN queue |->
          IF queue[i] = new
          THEN [new EXCEPT !.endComesAfter = {q.stepID : q \in sooner}]
          ELSE IF queue[i] \in later
          THEN [queue[i] EXCEPT !.endComesAfter = @ \cup {new.stepID}]
          ELSE queue[i]]
OrderingsOfStart(queue) ==
    LET new == Last(queue)
        waits == [q \in Range(queue) |-> {PendingEnd(s) : s \in q.endComesAfter}]
    IN {<<e, EndStep(new)>> : e \in waits[new]} \cup
       {<<EndStep(new), EndStep(q)>> :
            q \in {r \in Range(queue) : EndStep(new) \in waits[r]}}
OrderingsOfSkippable(queue) ==
    LET new == Last(queue)
    IN {<<EndStep(new), EndStep(q)>> :
            q \in {r \in Running(Front(queue)) :
                      Op[r.actID].endDel \cap Range(Op[new.actID].inv) # {}}}

CheckStart ==
    LET a == pending.ref
        queue == [i \in DOMAIN startEventQueue |-> Aged(startEventQueue[i], 1, 1)]
        now == timeStamp + 1
        finish == now + (IF a \in Durative THEN Last(queue).advancingDuration ELSE 0)
        kept == IF a \in Durative /\ ~CanSkipToEnd(a) THEN StartedQueue(queue)
                ELSE queue
        orderings == CASE a \notin Durative -> {}
                       [] CanSkipToEnd(a) -> OrderingsOfSkippable(queue)
                       [] OTHER -> OrderingsOfStart(kept)
    IN /\ pending.timeSpec = "AT_START"
       /\ \/ /\ ~Overdue(queue) /\ ~TooLateForTIL(now) /\ ~DoomedByTIL(a, finish)
             /\ Pass(kept, now, orderings \cup EndsAwaitingPendingEnds(a))
             /\ UNCHANGED stepBeforeTIL
          \/ /\ Overdue(queue) \/ TooLateForTIL(now) \/ DoomedByTIL(a, finish)
             /\ Fail

(* An end may not come before one it waits for.  The time to it has passed *)
(* for the actions that started before its own; for those that started     *)
(* later only EPSILON is sure.                                             *)
AgedByEndAlike(paired, extra) ==   \* broken: as much time for the younger
    [i \in DOMAIN startEventQueue |-> Aged(startEventQueue[i], extra, extra)]
AgedByEnd(paired, extra) ==
    [i \in DOMAIN startEventQueue |->
        Aged(startEventQueue[i],
             IF startEventQueue[i].stepID < paired.stepID THEN extra ELSE 1, extra)]
CheckEnd ==
    LET paired == startEventQueue[FrontEntry(pending.ref)]
        extra == Max({paired.advancingDuration, 1})
        queue == AgedByEnd(paired, extra)
        now == timeStamp + extra
        freed == [i \in DOMAIN queue |->
                    [queue[i] EXCEPT !.endComesAfter = @ \ {paired.stepID}]]
    IN /\ pending.timeSpec = "AT_END"
       /\ \/ /\ paired.endComesAfter = {}
             /\ ~Overdue(queue) /\ ~TooLateForTIL(now)
             /\ Pass(freed, now, EndsAwaitingPendingEnds(pending.ref))
             /\ UNCHANGED stepBeforeTIL
          \/ /\ paired.endComesAfter # {} \/ Overdue(queue) \/ TooLateForTIL(now)
             /\ Fail

(* The time up to the literal has passed for what started before the last  *)
(* one.                                                                    *)
CheckTIL ==
    LET at == TILs[pending.ref].at
        advance == at - timeStamp
        queue == [i \in DOMAIN startEventQueue |->
                    Aged(startEventQueue[i],
                         IF startEventQueue[i].stepID < stepBeforeTIL THEN advance
                         ELSE 1, advance)]
    IN /\ pending.timeSpec = "AT"
       /\ \/ /\ ~Overdue(queue) /\ Pass(queue, at, {})
             /\ stepBeforeTIL' = planLength
          \/ Overdue(queue) /\ Fail

CheckTemporalSoundness ==
    /\ stage = "child"
    /\ CheckStart \/ CheckEnd \/ CheckTIL
    /\ UNCHANGED <<first, firstAnnotations, invariants, startedActions,
                   mostRecentStep, planLength, actionsExecuting, nextTIL,
                   steps, applied, plan, pending>>
=============================================================================
