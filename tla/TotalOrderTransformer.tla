------------------------ MODULE TotalOrderTransformer ------------------------
(***************************************************************************)
(* The search state (MinimalState with its TemporalConstraints) and the    *)
(* state transformer built with TOTALORDERSTATES.  Snap-actions are        *)
(* applied one by one; each application is a step, and the steps get       *)
(* ordering constraints that the scheduler must respect.  The steps that   *)
(* are applied form a chain.  The end of a compression-safe action is not  *)
(* applied: its effects are added to the state when the action starts, and *)
(* the facts are annotated with the pending end, so that a later step that *)
(* meets one of them can be ordered after it.                              *)
(***************************************************************************)
EXTENDS TemporalDomain, Annotations

CONSTANT MaxPlanLength   \* bound: steps a state may record
ASSUME BoundAssumption == MaxPlanLength \in Nat

VARIABLES
    first,              \* facts that hold
    firstAnnotations,   \* fact -> ends pending on it: first, those that add
                        \* it; second, those whose invariant it is
    invariants,         \* fact -> how many running, not compression-safe
                        \* actions have an invariant on it
    startedActions,     \* action -> end steps of its running instances
    stepsBefore,        \* <<b, a>>: step b comes before step a
    epsilonBefore,      \* those of stepsBefore that are epsilon apart
    mostRecentStep, planLength, actionsExecuting, nextTIL,
    steps,              \* history: the snap-action of each step
    applied             \* history: the steps in the order of application

stateVars == <<first, firstAnnotations, invariants, startedActions,
               stepsBefore, epsilonBefore, mostRecentStep, planLength,
               actionsExecuting, nextTIL>>
vars == <<stateVars, steps, applied>>

StepRecords == [spec : {"TIL"}, til : DOMAIN TILs] \cup
               [spec : {"INSTANT", "START", "END"}, act : Actions]

Init ==
    /\ first = InitFacts
    /\ firstAnnotations = [f \in Facts |-> Unannotated]
    /\ invariants = [f \in Facts |-> 0]
    /\ startedActions = [a \in Actions |-> {}]
    /\ stepsBefore = {} /\ epsilonBefore = {}
    /\ mostRecentStep = -1
    /\ planLength = 0 /\ actionsExecuting = 0 /\ nextTIL = 0
    /\ steps = <<>> /\ applied = <<>>

-----------------------------------------------------------------------------
(* New steps: an application numbers the snap-actions it brings in.        *)
RecordOne(recs) ==   \* broken: a start that takes one number, not two
    /\ planLength + Len(recs) <= MaxPlanLength
    /\ planLength' = planLength + 1
    /\ steps' = steps \o recs
Record(recs) ==
    /\ planLength + Len(recs) <= MaxPlanLength
    /\ planLength' = planLength + Len(recs)
    /\ steps' = steps \o recs

(* Step k comes epsilon after the pending ends it met and after the most   *)
(* recent step; "more" are the other orderings it brings.                  *)
OrderLastAfter(k, pre, dels, adds, more) ==   \* broken: last step after k
    LET met  == PendingEndsMet(firstAnnotations, pre, dels, adds)
        new  == {<<b, k>> : b \in met} \cup {<<k, b>> : b \in {mostRecentStep} \ {-1}}
    IN /\ stepsBefore' = stepsBefore \cup new \cup more
       /\ epsilonBefore' = epsilonBefore \cup new
       /\ mostRecentStep' = k
       /\ applied' = Append(applied, k)
Order(k, pre, dels, adds, more) ==
    LET met  == PendingEndsMet(firstAnnotations, pre, dels, adds)
        new  == {<<b, k>> : b \in met \cup ({mostRecentStep} \ {-1})}
    IN /\ stepsBefore' = stepsBefore \cup new \cup more
       /\ epsilonBefore' = epsilonBefore \cup new
       /\ mostRecentStep' = k
       /\ applied' = Append(applied, k)

BreaksInvariant(f) == invariants[f] > 0

(* A timed initial literal: findApplicableActions offers the next one only *)
ApplyTIL ==
    LET til == TILs[nextTIL + 1]
    IN /\ nextTIL < Len(TILs)
       /\ Record(<<[spec |-> "TIL", til |-> nextTIL + 1]>>)
       /\ \A f \in til.dels : ~BreaksInvariant(f)
       /\ first' = (first \ til.dels) \cup til.adds
       /\ firstAnnotations' = Reannotated(firstAnnotations, <<>>, til.dels, til.adds)
       /\ Order(planLength, <<>>, til.dels, til.adds, {})
       /\ nextTIL' = nextTIL + 1
       /\ UNCHANGED <<invariants, startedActions, actionsExecuting>>

IsInteresting(a) ==
    HasCriterion(a) =>
        /\ Adds(a) # {}
        /\ Criterion(a) \notin first
        /\ startedActions[a] = {}

(* testApplicability and stepNeedsToHaveFinished, for a start              *)
StartApplicable(a) ==
    /\ NoSelfOverlaps => startedActions[a] = {}
    /\ IsInteresting(a)
    /\ Range(ProcessedStartPre(a)) \subseteq first
    /\ ProcessedStartNeg(a) \cap first = {}
    /\ \A f \in Op[a].startDel : ~BreaksInvariant(f)

StartedFacts(a) == (first \ Op[a].startDel) \cup Op[a].startAdd
StartedAnnotations(a, pre) ==
    Reannotated(firstAnnotations, pre, Op[a].startDel, Op[a].startAdd)

ApplyInstant(a) ==
    /\ a \notin Durative
    /\ Record(<<[spec |-> "INSTANT", act |-> a]>>)
    /\ StartApplicable(a)
    /\ first' = StartedFacts(a)
    /\ firstAnnotations' = StartedAnnotations(a, Op[a].startPre)
    /\ Order(planLength, Op[a].startPre, Op[a].startDel, Op[a].startAdd, {})
    /\ UNCHANGED <<invariants, startedActions, actionsExecuting, nextTIL>>

(* What the two kinds of durative start share: two steps, start and end    *)
RecordStart(a) ==
    /\ Record(<<[spec |-> "START", act |-> a], [spec |-> "END", act |-> a]>>)
    /\ StartApplicable(a)
    /\ Order(planLength, ProcessedStartPre(a), Op[a].startDel, Op[a].startAdd,
             {<<planLength, planLength + 1>>})
    /\ actionsExecuting' = actionsExecuting + 1
    /\ UNCHANGED nextTIL

StartAction(a) ==
    /\ a \in Durative /\ ~CanSkipToEnd(a)
    /\ RecordStart(a)
    /\ first' = StartedFacts(a)
    /\ firstAnnotations' = StartedAnnotations(a, ProcessedStartPre(a))
    /\ invariants' = [f \in Facts |-> IF f \in Range(Op[a].inv)
                                      THEN invariants[f] + 1 ELSE invariants[f]]
    /\ startedActions' = [startedActions EXCEPT ![a] = @ \cup {planLength + 1}]

(* A compression-safe action also annotates its invariants with its end,   *)
(* applies its end deletes, scrubbing the annotations of those facts, and  *)
(* makes its end adds true, pending on its end.                            *)
AnnotateUnscrubbed(ann, a, e) ==   \* broken: keeps annotations of end deletes
    [f \in Facts |->
        [first  |-> ann[f].first \cup {x \in {e} : f \in Op[a].endAdd},
         second |-> ann[f].second \cup {x \in {e} : f \in Range(Op[a].inv)}]]
AnnotateSkipped(ann, a, e) ==
    LET scrubbed(f) == f \in Op[a].endDel
        held(f)     == {x \in {e} : f \in Range(Op[a].inv)}
        added(f)    == {x \in {e} : f \in Op[a].endAdd}
    IN [f \in Facts |->
          [first  |-> (IF scrubbed(f) THEN {} ELSE ann[f].first) \cup added(f),
           second |-> IF scrubbed(f) THEN {} ELSE ann[f].second \cup held(f)]]

StartSkippable(a) ==
    /\ CanSkipToEnd(a)
    /\ RecordStart(a)
    /\ first' = (StartedFacts(a) \ Op[a].endDel) \cup Op[a].endAdd
    /\ firstAnnotations' = AnnotateSkipped(StartedAnnotations(a, ProcessedStartPre(a)),
                                           a, planLength + 1)
    /\ UNCHANGED <<invariants, startedActions>>

(* The end of the instance of a that started first                         *)
Latest(ends) == CHOOSE e \in ends : \A x \in ends : x <= e   \* broken
Earliest(ends) == CHOOSE e \in ends : \A x \in ends : e <= x
EndApplicable(a) ==
    /\ startedActions[a] # {}
    /\ Range(Op[a].endPre) \subseteq first
    /\ Op[a].endNeg \cap first = {}
    /\ \A f \in Op[a].endDel :
          BreaksInvariant(f) => invariants[f] = 1 /\ f \in Range(Op[a].inv)

(* The instance of a whose end is e no longer runs.                        *)
DeregisterStart(a, e) ==   \* broken: forgets the end, keeps what it counted
    /\ startedActions' = [startedActions EXCEPT ![a] = @ \ {e}]
    /\ UNCHANGED <<invariants, actionsExecuting>>
Deregister(a, e) ==
    /\ invariants' = [f \in Facts |-> IF f \in Range(Op[a].inv)
                                      THEN invariants[f] - 1 ELSE invariants[f]]
    /\ startedActions' = [startedActions EXCEPT ![a] = @ \ {e}]
    /\ actionsExecuting' = actionsExecuting - 1

EndAction(a) ==
    LET e == Earliest(startedActions[a])
    IN /\ EndApplicable(a)
       /\ first' = (first \ Op[a].endDel) \cup Op[a].endAdd
       /\ firstAnnotations' = Reannotated(firstAnnotations, Op[a].endPre,
                                          Op[a].endDel, Op[a].endAdd)
       /\ Order(e, Op[a].endPre, Op[a].endDel, Op[a].endAdd, {})
       /\ Deregister(a, e)
       /\ UNCHANGED <<planLength, nextTIL, steps>>

Next ==
    \/ ApplyTIL
    \/ \E a \in Actions : \/ ApplyInstant(a)
                          \/ StartAction(a)
                          \/ StartSkippable(a)
                          \/ EndAction(a)

Spec == Init /\ [][Next]_vars

-----------------------------------------------------------------------------
(* Vocabulary of the properties                                            *)
StepIDs == 0..planLength - 1
StepOf(k) == steps[k + 1]
SkippedStart(k) == StepOf(k).spec = "START" /\ CanSkipToEnd(StepOf(k).act)
PendingEnd(k) == k + 1        \* the end step of the start at step k

Conditions(st) ==
    CASE st.spec = "TIL"     -> {}
      [] st.spec = "INSTANT" -> Range(Op[st.act].startPre)
      [] st.spec = "START"   -> Range(ProcessedStartPre(st.act))
      [] OTHER               -> Range(Op[st.act].endPre)
Deletes(st) ==
    CASE st.spec = "TIL" -> TILs[st.til].dels
      [] st.spec = "END" -> Op[st.act].endDel
      [] OTHER           -> Op[st.act].startDel
Additions(st) ==
    CASE st.spec = "TIL" -> TILs[st.til].adds
      [] st.spec = "END" -> Op[st.act].endAdd
      [] OTHER           -> Op[st.act].startAdd

(* A step concerns a compression-safe action a if it uses or changes what  *)
(* the end of a adds, or deletes what a holds throughout.  Facts that some *)
(* compression-safe action end-deletes are left out: the start of such an  *)
(* action drops their annotations.                                         *)
Concerns(st, a) ==
    \/ (Conditions(st) \cup Deletes(st) \cup Additions(st))
          \cap (Op[a].endAdd \ Scrubbed) # {}
    \/ Deletes(st) \cap (Range(Op[a].inv) \ Scrubbed) # {}

-----------------------------------------------------------------------------
(* The state is of the shape the code declares.                            *)
TypeOK ==
    /\ first \subseteq Facts
    /\ firstAnnotations \in [Facts -> [first : SUBSET Nat, second : SUBSET Nat]]
    /\ invariants \in [Facts -> Int]
    /\ startedActions \in [Actions -> SUBSET Nat]
    /\ epsilonBefore \subseteq stepsBefore
    /\ stepsBefore \subseteq StepIDs \X StepIDs
    /\ mostRecentStep \in {-1} \cup StepIDs
    /\ planLength \in Nat
    /\ actionsExecuting \in Int
    /\ nextTIL \in 0..Len(TILs)
    /\ steps \in Seq(StepRecords) /\ Len(steps) = planLength
    /\ applied \in Seq(StepIDs)

(* An ordering is only ever added from what was applied earlier (or the    *)
(* pending end of what was) to the step being applied, or from a start to  *)
(* its own end: the constraints have no cycle.                             *)
EarlierThan(b, i) ==
    \E j \in 1..i - 1 :
        \/ b = applied[j]
        \/ SkippedStart(applied[j]) /\ b = PendingEnd(applied[j])
OrderingsFollowApplication ==
    \A edge \in stepsBefore :
        \/ StepOf(edge[1]).spec = "START" /\ edge[2] = PendingEnd(edge[1])
        \/ \E i \in DOMAIN applied : edge[2] = applied[i] /\ EarlierThan(edge[1], i)

(* Applied steps are totally ordered, each epsilon after the one before.   *)
AppliedStepsAreAChain ==
    \A i \in DOMAIN applied \ {1} : <<applied[i - 1], applied[i]>> \in epsilonBefore

(* A step that concerns a compression-safe action started before it cannot *)
(* be scheduled before the end of that action: the end was ordered before  *)
(* it, or before an earlier step of the chain.                             *)
PendingEndsRespected ==
    \A i, j \in DOMAIN applied :
        (i < j /\ SkippedStart(applied[i])
               /\ Concerns(StepOf(applied[j]), StepOf(applied[i]).act))
        => \E m \in i + 1..j :
              <<PendingEnd(applied[i]), applied[m]>> \in epsilonBefore

(* The counter of a fact is the number of running actions that need it,    *)
(* whatever the order in which instances start and end.                    *)
RunningEnds == UNION {{<<a, e>> : e \in startedActions[a]} : a \in Actions}
CountersMatchRunningActions ==
    \A f \in Facts :
        invariants[f] =
            Cardinality({r \in RunningEnds : f \in Range(Op[r[1]].inv)})

(* An annotation is about a pending end that adds the fact, or has it as   *)
(* an invariant, and the annotated fact is true.                           *)
PendsOn(e, f, facts(_)) ==
    \E i \in DOMAIN applied :
        /\ SkippedStart(applied[i]) /\ e = PendingEnd(applied[i])
        /\ f \in facts(StepOf(applied[i]).act)
AnnotationsAreAccurate ==
    \A f \in Facts :
        /\ \A e \in firstAnnotations[f].first :
              f \in first /\ PendsOn(e, f, LAMBDA a : Op[a].endAdd)
        /\ \A e \in firstAnnotations[f].second :
              f \in first /\ PendsOn(e, f, LAMBDA a : Range(Op[a].inv))

-----------------------------------------------------------------------------
(* What a message of the code promises and the code does not keep.         *)

(* stepNeedsToHaveFinished: nothing can "skip past invariants ... owned by *)
(* executing non-compression-safe actions".                                *)
RunningInvariantsHold ==
    \A f \in Facts : BreaksInvariant(f) => f \in first
=============================================================================
