----------------------- MODULE ScheduledExecution_proofs -----------------------
(***************************************************************************)
(* The execution theorems for the plans that are really handed over: those *)
(* of nodes which FF::checkTemporalSoundness has tested and the scheduler  *)
(* has accepted.  The test adds orderings of its own, between the ends of  *)
(* running actions, so the nodes are not nodes of the execution model: in  *)
(* some of them fewer orders are left.  What has to be shown is that the   *)
(* orderings left do not rule out all orders.  An ordering into the end of *)
(* a running action comes from a step that has been applied, or from an    *)
(* end that the queue entry of the action waits for, and an end is applied *)
(* only once its entry waits for nothing.                                  *)
(***************************************************************************)
EXTENDS ScheduledExecution, ExecutionTheorems, SearchNodeTheorems

IsLong(i) == ~CanSkipToEnd(startEventQueue[i].actID)
WaitsFor(i, e) == \E s \in startEventQueue[i].endComesAfter : e = PendingEnd(s)

(* The step applied last, of a child that is yet to be evaluated           *)
PendingIsRecent ==
    /\ (pending.timeSpec = "AT_START" /\ pending.ref \in Durative) =>
          /\ mostRecentStep = planLength - 2
          /\ StepOf(mostRecentStep) = [spec |-> "START", act |-> pending.ref]
    /\ \A i \in Entries : EndPending(i) => mostRecentStep = EndOf(i)
EntriesWaitForSteps ==
    \A i \in Entries : \A s \in startEventQueue[i].endComesAfter : PendingEnd(s) \in StepIDs
(* Past the test, an action that has ended waited for nothing.             *)
TestedEndsWaitForNothing ==
    stage = "sound" =>
        \A i \in Entries : EndPending(i) => startEventQueue[i].endComesAfter = {}
(* A start that is yet to be tested has made its entry wait for nothing.   *)
NewEntryWaitsForNothing ==
    (stage = "child" /\ pending.timeSpec = "AT_START" /\ pending.ref \in Durative) =>
        startEventQueue[Len(startEventQueue)].endComesAfter = {}
IntoRunningEnd(edge) ==
    \E i \in Entries :
        /\ IsLong(i) /\ edge[2] = EndOf(i)
        /\ \/ WaitsFor(i, edge[1])
           \/ ~startEventQueue[i].terminated /\ edge[1] \in PlanSteps
OrderingsAreEnforced == \A edge \in stepsBefore : Follows(edge) \/ IntoRunningEnd(edge)

StageInv ==
    /\ timeStamp \in Int
    /\ pending.timeSpec = "AT" => pending.ref \in DOMAIN TILs
    /\ stage = "open" => pending = Evaluated
    /\ executing => stage = "open"
    /\ PendingIsRecent /\ NewEntryWaitsForNothing
    /\ EntriesWaitForSteps /\ TestedEndsWaitForNothing
    /\ OrderingsAreEnforced
NodesInv == PlanInv /\ StageInv

-----------------------------------------------------------------------------
(* A step that adds orderings, and leaves the state as it is otherwise,    *)
(* takes away nothing that is known of its history.                        *)
AddsOrderings(more) ==
    /\ more \subseteq StepIDs \X StepIDs
    /\ stepsBefore' = stepsBefore \cup more
    /\ epsilonBefore' = epsilonBefore \cup more
    /\ UNCHANGED <<first, firstAnnotations, invariants, startedActions, mostRecentStep,
                   planLength, actionsExecuting, nextTIL, steps, applied>>

LEMMA OrderingsKeepTypes ==
    ASSUME TypeInv, NEW more, AddsOrderings(more)
    PROVE  /\ TypeInv' /\ StepIDs' = StepIDs /\ PlanSteps' = PlanSteps
           /\ \A k : /\ StepOf(k)' = StepOf(k)
                     /\ SkippedStart(k)' <=> SkippedStart(k)
           /\ \A edge : Follows(edge)' <=> Follows(edge)
<1>1. /\ StepIDs' = StepIDs /\ stepsBefore' \subseteq (StepIDs \X StepIDs)'
      /\ epsilonBefore' \subseteq stepsBefore'
  BY DEF AddsOrderings, StepIDs, TypeInv, TypeOK
<1>2. \A k : /\ StepOf(k)' = StepOf(k)
             /\ SkippedStart(k)' <=> SkippedStart(k)
  BY DEF AddsOrderings, StepOf, SkippedStart
<1>3. UNCHANGED <<first, firstAnnotations, invariants, startedActions, mostRecentStep,
                  planLength, actionsExecuting, nextTIL, steps, applied>>
  BY DEF AddsOrderings
<1>4. TypeInv'
  BY <1>1, <1>2, <1>3 DEF TypeInv, TypeOK, EndsAreSteps
<1>5. PlanSteps' = PlanSteps
  BY <1>2, <1>3 DEF PlanSteps, PendingEnd
<1>6. \A edge : Follows(edge)' <=> Follows(edge)
  BY <1>2, <1>3 DEF Follows, EarlierThan, PendingEnd
<1> QED BY <1>1, <1>2, <1>4, <1>5, <1>6

LEMMA OrderingsKeepTracking ==
    ASSUME TrackInv, NEW more, AddsOrderings(more)
    PROVE  TrackInv'
<1>1. TypeInv' /\ \A k : StepOf(k)' = StepOf(k) /\ (SkippedStart(k)' <=> SkippedStart(k))
  BY OrderingsKeepTypes DEF TrackInv
<1>2. /\ UNCHANGED <<firstAnnotations, mostRecentStep, applied>>
      /\ epsilonBefore \subseteq epsilonBefore'
  BY DEF AddsOrderings
<1>3. LastIsMostRecent' /\ AppliedStepsAreAChain' /\ AnnotatedEndsArePending'
  BY <1>1, <1>2 DEF TrackInv, LastIsMostRecent, AppliedStepsAreAChain,
     AnnotatedEndsArePending, PendingEnds, PendingEnd
<1>4. \A i, j : Awaits(i, j) => Awaits(i, j)'
  BY <1>2 DEF Awaits, PendingEnd
<1>5. PendingEndsAreTracked'
  <2>1. PendingEndsAreTracked
    BY DEF TrackInv
  <2> QED BY <1>1, <1>2, <1>4, <2>1 DEF PendingEndsAreTracked, PendingEnd
<1>6. PendingEndsRespected'
  <2>1. PendingEndsRespected
    BY DEF TrackInv
  <2>2. \A st, a : Concerns(st, a)' <=> Concerns(st, a)
    BY DEF Concerns, Conditions, Deletes, Additions
  <2> QED BY <1>1, <1>2, <2>1, <2>2 DEF PendingEndsRespected, PendingEnd
<1> QED BY <1>1, <1>3, <1>5, <1>6 DEF TrackInv

LEMMA OrderingsKeepHistory ==
    ASSUME HistoryInv, NEW more, AddsOrderings(more)
    PROVE  HistoryInv'
<1>1. /\ TrackInv' /\ TypeInv' /\ StepIDs' = StepIDs
      /\ \A k : StepOf(k)' = StepOf(k)
  BY OrderingsKeepTypes, OrderingsKeepTracking DEF HistoryInv, TrackInv
<1>2. /\ UNCHANGED <<first, invariants, startedActions, steps, applied>>
      /\ stepsBefore \subseteq stepsBefore'
  BY DEF AddsOrderings
<1>3. CounterInv'
  BY <1>1, <1>2 DEF HistoryInv, CounterInv, RunningOn, RunningEnds
<1>4. \A n : FactsAt(n)' = FactsAt(n)
  BY <1>2 DEF FactsAt, StepAt, StepOf
<1>5. FactsAreRemembered' /\ StepsWereApplicable'
  BY <1>2, <1>4 DEF HistoryInv, FactsAreRemembered, StepsWereApplicable, StepAt, StepOf
<1>6. StartsComeFirst'
  BY <1>1, <1>2 DEF HistoryInv, StartsComeFirst, IsStarting, PendingEnd
<1>7. /\ PairsAreRecorded' /\ NoStepIsAppliedTwice' /\ EndsFollowStarts'
      /\ RunningEndsAwaitApplication' /\ StartedActionsRunOrEnd' /\ InvariantsAreGuarded'
  BY <1>1, <1>2 DEF HistoryInv, PairsAreRecorded, NoStepIsAppliedTwice, EndsFollowStarts,
     RunningEndsAwaitApplication, StartedActionsRunOrEnd, InvariantsAreGuarded,
     IsStarting, IsLongStart, StepAt, StepOf, PendingEnd
<1> QED BY <1>1, <1>3, <1>5, <1>6, <1>7 DEF HistoryInv

(* Before a plan is handed over, its history is all there is to know.      *)
LEMMA NothingRunsYet ==
    HistoryInv /\ done = {} /\ world = InitFacts => RunInv /\ ExecInv
<1> SUFFICES ASSUME HistoryInv, done = {}, world = InitFacts PROVE RunInv /\ ExecInv
  OBVIOUS
<1>1. /\ DoneUpTo(0) /\ WorldFollows(0) /\ world \subseteq Facts
      /\ HeldConditionsRemain /\ EndNegativesAreFalse /\ EarlyDeletesRemain
  BY NothingHasRun
<1>2. RunInv
  BY <1>1 DEF RunInv, NothingIsSkipped
<1> QED BY <1>1, <1>2 DEF ExecInv

LEMMA OrderingsKeepRuns ==
    ASSUME RunInv, ~executing, NEW more, AddsOrderings(more), UNCHANGED execVars
    PROVE  RunInv' /\ ExecInv'
<1>1. HistoryInv' /\ done' = {} /\ world' = InitFacts
  BY OrderingsKeepHistory DEF RunInv, execVars
<1>2. HistoryInv' /\ (done = {})' /\ (world = InitFacts)' => RunInv' /\ ExecInv'
  BY NothingRunsYet, PTL
<1> QED BY <1>1, <1>2

-----------------------------------------------------------------------------
(* What the test makes of the queue and the orderings.                     *)
KeepsEntries(queue, more) ==
    /\ queue \in Seq(EventRecords) /\ Len(queue) = Len(startEventQueue)
    /\ \A i \in Entries :
          /\ queue[i].actID = startEventQueue[i].actID
          /\ queue[i].stepID = startEventQueue[i].stepID
          /\ queue[i].minDuration = startEventQueue[i].minDuration
          /\ queue[i].terminated = startEventQueue[i].terminated
          /\ \A s \in queue[i].endComesAfter : PendingEnd(s) \in StepIDs
          /\ \A s \in startEventQueue[i].endComesAfter :
                \/ s \in queue[i].endComesAfter
                \/ ~startEventQueue[i].terminated /\ PendingEnd(s) \in PlanSteps
    /\ more \subseteq StepIDs \X StepIDs
    /\ \A edge \in more : \E i \in Entries :
          /\ IsLong(i) /\ edge[2] = EndOf(i)
          /\ \/ \E s \in queue[i].endComesAfter : edge[1] = PendingEnd(s)
             \/ ~startEventQueue[i].terminated /\ edge[1] \in PlanSteps
Retimed(queue, now, more) ==
    /\ KeepsEntries(queue, more) /\ AddsOrderings(more) /\ now \in Int
    /\ startEventQueue' = queue /\ timeStamp' = now
    /\ stage' \in {"sound", "unsound"}
    /\ stage' = "sound" =>
          \A i \in Entries : EndPending(i) => queue[i].endComesAfter = {}
    /\ UNCHANGED <<plan, pending>>

LEMMA ListOfRecords ==
    ASSUME NEW S, NEW n \in Nat, NEW q \in [1..n -> S]
    PROVE  q \in Seq(S) /\ Len(q) = n
OBVIOUS

LEMMA AgedEntry ==
    ASSUME NEW q \in EventRecords, NEW by \in Int, NEW advance \in Int
    PROVE  LET r == Aged(q, by, advance)
           IN /\ r \in EventRecords /\ r.actID = q.actID /\ r.stepID = q.stepID
              /\ r.minDuration = q.minDuration /\ r.terminated = q.terminated
              /\ r.endComesAfter = q.endComesAfter
<1>1. CASE q.terminated
  BY <1>1 DEF Aged
<1>2. CASE ~q.terminated
  <2> DEFINE older == [q EXCEPT !.elapsed = q.elapsed + by]
             r == [older EXCEPT !.advancingDuration = q.advancingDuration - advance]
  <2>1. /\ older \in EventRecords /\ older.actID = q.actID /\ older.stepID = q.stepID
        /\ older.minDuration = q.minDuration /\ older.terminated = q.terminated
        /\ older.endComesAfter = q.endComesAfter
    BY DEF EventRecords
  <2>2. q.advancingDuration - advance \in Int
    BY DEF EventRecords
  <2>3. r = Aged(q, by, advance)
    BY <1>2, Zenon DEF Aged
  <2> HIDE DEF older
  <2>4. /\ r \in EventRecords /\ r.actID = q.actID /\ r.stepID = q.stepID
        /\ r.minDuration = q.minDuration /\ r.terminated = q.terminated
        /\ r.endComesAfter = q.endComesAfter
    BY <2>1, <2>2 DEF EventRecords
  <2> QED BY <2>3, <2>4
<1> QED BY <1>1, <1>2

(* The pending ends that an end is made to wait for are part of the plan.  *)
LEMMA AwaitedOrderings ==
    ASSUME HistoryInv, PlanInv, first \subseteq Facts, NEW a
    PROVE  \A edge \in EndsAwaitingPendingEnds(a) :
              /\ edge \in StepIDs \X StepIDs /\ edge[1] \in PlanSteps
              /\ \E i \in Entries : /\ IsLong(i) /\ edge[2] = EndOf(i)
                                    /\ ~startEventQueue[i].terminated
<1>1. /\ firstAnnotations \in AnnotationsOver(Facts, StepIDs)
      /\ firstAnnotations \in AnnotationsOver(Facts, PendingEnds)
      /\ EntriesAreOrdered
  BY DEF HistoryInv, TrackInv, TypeInv, EndsAreSteps, AnnotatedEndsArePending, PlanInv, QueueInv
<1>2. PendingEnds \subseteq PlanSteps
  BY DEF PendingEnds, PlanSteps
<1>3. \A fs \in SUBSET Facts : /\ Awaited(firstAnnotations, fs) \subseteq StepIDs
                               /\ Awaited(firstAnnotations, fs) \subseteq PlanSteps
  BY <1>1, <1>2 DEF AnnotationsOver, Awaited
<1>4. ASSUME NEW edge \in EndsAwaitingPendingEnds(a)
      PROVE  /\ edge \in StepIDs \X StepIDs /\ edge[1] \in PlanSteps
             /\ \E i \in Entries : /\ IsLong(i) /\ edge[2] = EndOf(i)
                                   /\ ~startEventQueue[i].terminated
  <2>1. PICK q \in {r \in Running(startEventQueue) : ~CanSkipToEnd(r.actID)} :
           edge \in {<<e, EndStep(q)>> :
                        e \in Awaited(firstAnnotations,
                                      Range(Op[q.actID].endPre) \cap JustAdded(a) \cap first)
                              \ {EndStep(q)}}
    BY DEF EndsAwaitingPendingEnds
  <2>2. PICK i \in Entries : startEventQueue[i] = q
    BY DEF Running, Range, Entries
  <2>3. /\ IsLong(i) /\ ~startEventQueue[i].terminated /\ EndStep(q) = EndOf(i)
        /\ EndOf(i) \in StepIDs
    BY <1>1, <2>2 DEF IsLong, Running, EndStep, EndOf, EntriesAreOrdered
  <2>4. Range(Op[q.actID].endPre) \cap JustAdded(a) \cap first \in SUBSET Facts
    OBVIOUS
  <2>5. PICK e : edge = <<e, EndStep(q)>> /\ e \in StepIDs /\ e \in PlanSteps
    BY <1>3, <2>1, <2>4
  <2> QED BY <2>3, <2>5
<1> QED BY <1>4

(* A child that fails the test is left as it was made.                     *)
LEMMA FailingKeeps ==
    ASSUME NodesInv, HistoryInv, CheckTemporalSoundness, Fail
    PROVE  Retimed(startEventQueue, timeStamp, {})
<1>1. NodeTypes /\ StageInv
  BY DEF NodesInv, PlanInv, QueueInv
<1>2. KeepsEntries(startEventQueue, {})
  BY <1>1 DEF KeepsEntries, NodeTypes, StageInv, EntriesWaitForSteps
<1>3. AddsOrderings({})
  BY DEF AddsOrderings, Fail, CheckTemporalSoundness
<1> QED BY <1>1, <1>2, <1>3 DEF Retimed, Fail, CheckTemporalSoundness, StageInv

LEMMA LargerOf ==
    ASSUME NEW x \in Int, NEW y \in Int
    PROVE  Max({x, y}) \in Int
<1>1. CASE x >= y
  <2>1. \A z \in {x, y} : x >= z
    BY <1>1
  <2> QED BY <2>1 DEF Max
<1>2. CASE ~(x >= y)
  <2>1. \A z \in {x, y} : y >= z
    BY <1>2
  <2> QED BY <2>1 DEF Max
<1> QED BY <1>1, <1>2

LEMMA RecentIsPlanned ==
    ASSUME HistoryInv, mostRecentStep # -1
    PROVE  /\ mostRecentStep \in PlanSteps
           /\ SkippedStart(mostRecentStep) => PendingEnd(mostRecentStep) \in PlanSteps
<1>1. applied # <<>> /\ mostRecentStep = applied[Len(applied)]
  BY DEF HistoryInv, TrackInv, LastIsMostRecent
<1>2. Len(applied) \in DOMAIN applied
  <2>1. applied \in Seq(StepIDs)
    BY DEF HistoryInv, TrackInv, TypeInv, TypeOK
  <2> QED BY <1>1, <2>1, EmptySeq, LenProperties
<1> QED BY <1>1, <1>2 DEF PlanSteps

(* The entries age, and are otherwise what they were.                      *)
LEMMA AgedQueue ==
    ASSUME NodeTypes, NEW queue, NEW by \in [Entries -> Int], NEW advance \in Int,
           queue = [i \in DOMAIN startEventQueue |-> Aged(startEventQueue[i], by[i], advance)]
    PROVE  /\ queue \in Seq(EventRecords) /\ Len(queue) = Len(startEventQueue)
           /\ \A i \in Entries :
                 /\ queue[i] \in EventRecords
                 /\ queue[i].actID = startEventQueue[i].actID
                 /\ queue[i].stepID = startEventQueue[i].stepID
                 /\ queue[i].minDuration = startEventQueue[i].minDuration
                 /\ queue[i].terminated = startEventQueue[i].terminated
                 /\ queue[i].endComesAfter = startEventQueue[i].endComesAfter
<1>1. /\ Len(startEventQueue) \in Nat /\ Entries = 1..Len(startEventQueue)
      /\ \A i \in Entries : startEventQueue[i] \in EventRecords
  BY QueueShape
<1>2. queue = [i \in Entries |-> Aged(startEventQueue[i], by[i], advance)]
  BY DEF Entries
<1> HIDE DEF EventRecords, Aged, Entries
<1>3. ASSUME NEW i \in Entries
      PROVE  /\ queue[i] \in EventRecords
             /\ queue[i].actID = startEventQueue[i].actID
             /\ queue[i].stepID = startEventQueue[i].stepID
             /\ queue[i].minDuration = startEventQueue[i].minDuration
             /\ queue[i].terminated = startEventQueue[i].terminated
             /\ queue[i].endComesAfter = startEventQueue[i].endComesAfter
  <2>1. queue[i] = Aged(startEventQueue[i], by[i], advance) /\ by[i] \in Int
    BY <1>2
  <2> QED BY <1>1, <2>1, AgedEntry
<1>4. queue \in [1..Len(startEventQueue) -> EventRecords]
  BY <1>1, <1>2, <1>3
<1> QED BY <1>1, <1>3, <1>4, ListOfRecords

LEMMA RewaitingEntry ==
    ASSUME NEW q \in EventRecords, NEW waits \in SUBSET Nat,
           NEW r, r = [q EXCEPT !.endComesAfter = waits]
    PROVE  /\ r \in EventRecords /\ r.actID = q.actID /\ r.stepID = q.stepID
           /\ r.minDuration = q.minDuration /\ r.terminated = q.terminated
           /\ r.endComesAfter = waits
BY DEF EventRecords

-----------------------------------------------------------------------------
(* The test, by the kind of step that made the child.                      *)
LEMMA PassingKeeps ==
    ASSUME CheckTemporalSoundness, NEW queue, NEW now \in Int, NEW more,
           KeepsEntries(queue, more), Pass(queue, now, more),
           \A i \in Entries : EndPending(i) => queue[i].endComesAfter = {}
    PROVE  Retimed(queue, now, more)
<1>1. AddsOrderings(more)
  BY DEF AddsOrderings, KeepsEntries, Pass, CheckTemporalSoundness
<1> QED BY <1>1 DEF Retimed, Pass, CheckTemporalSoundness

LEMMA TILRetimes ==
    ASSUME NodesInv, HistoryInv, CheckTemporalSoundness, CheckTIL
    PROVE  \E queue, now, more : Retimed(queue, now, more)
<1>1. /\ NodeTypes /\ StageInv /\ pending.timeSpec = "AT" /\ pending.ref \in DOMAIN TILs
  BY DEF NodesInv, PlanInv, QueueInv, StageInv, CheckTIL
<1>2. TILs[pending.ref].at \in Nat /\ timeStamp \in Int
  <2> DEFINE Literals == [at : Nat, adds : SUBSET Facts, dels : SUBSET Facts]
  <2>1. TILs \in Seq(Literals)
    BY DomainAssumption
  <2> HIDE DEF Literals
  <2>2. TILs[pending.ref] \in Literals
    BY <1>1, <2>1, ElementOfSeq, LenProperties
  <2> QED BY <1>1, <2>2 DEF StageInv, Literals
<1> DEFINE at == TILs[pending.ref].at
           advance == at - timeStamp
           by == [i \in Entries |-> IF startEventQueue[i].stepID < stepBeforeTIL THEN advance
                                    ELSE 1]
           queue == [i \in DOMAIN startEventQueue |-> Aged(startEventQueue[i], by[i], advance)]
<1>3. \/ Pass(queue, at, {})
      \/ Fail
  <2>1. queue = [i \in DOMAIN startEventQueue |->
                    Aged(startEventQueue[i],
                         IF startEventQueue[i].stepID < stepBeforeTIL THEN advance
                         ELSE 1, advance)]
    BY Zenon DEF Entries
  <2> HIDE DEF queue
  <2> QED BY <2>1, Zenon DEF CheckTIL
<1>4. advance \in Int /\ by \in [Entries -> Int]
  BY <1>2
<1> HIDE DEF advance, by
<1>5. PICK q : q = queue
  OBVIOUS
<1>6. /\ q \in Seq(EventRecords) /\ Len(q) = Len(startEventQueue)
      /\ \A i \in Entries :
            /\ q[i].actID = startEventQueue[i].actID
            /\ q[i].stepID = startEventQueue[i].stepID
            /\ q[i].minDuration = startEventQueue[i].minDuration
            /\ q[i].terminated = startEventQueue[i].terminated
            /\ q[i].endComesAfter = startEventQueue[i].endComesAfter
  BY <1>1, <1>4, <1>5, AgedQueue
<1>7. KeepsEntries(q, {})
  BY <1>1, <1>6 DEF KeepsEntries, StageInv, EntriesWaitForSteps
<1>8. \A i \in Entries : ~EndPending(i)
  BY <1>1 DEF EndPending
<1>9. Pass(q, at, {}) => Retimed(q, at, {})
  BY <1>2, <1>7, <1>8, PassingKeeps
<1>10. Fail => Retimed(startEventQueue, timeStamp, {})
  BY FailingKeeps
<1> HIDE DEF queue, at
<1> QED BY <1>3, <1>5, <1>9, <1>10

(* The others no longer wait for the end that is applied: it comes before  *)
(* theirs in the plan.                                                     *)
LEMMA EndRetimes ==
    ASSUME NodesInv, HistoryInv, CheckTemporalSoundness, CheckEnd
    PROVE  \E queue, now, more : Retimed(queue, now, more)
<1>1. /\ NodeTypes /\ StageInv /\ QueueInv /\ PlanInv /\ TypeInv
      /\ pending.timeSpec = "AT_END" /\ timeStamp \in Int
  BY DEF NodesInv, PlanInv, QueueInv, StageInv, CheckEnd
<1>f. PICK f : f = FrontEntry(pending.ref)
  OBVIOUS
<1>2. f \in Entries /\ EndPending(f) /\ \A i \in Entries : EndPending(i) => i = f
  BY <1>1, <1>f, EndedEntryIsOldest
<1>3. /\ Len(startEventQueue) \in Nat /\ Entries = 1..Len(startEventQueue)
      /\ \A i \in Entries : startEventQueue[i] \in EventRecords
  BY <1>1, QueueShape
<1> DEFINE paired == startEventQueue[f]
           extra == Max({paired.advancingDuration, 1})
           by == [i \in Entries |-> IF startEventQueue[i].stepID < paired.stepID THEN extra ELSE 1]
           aged == [i \in DOMAIN startEventQueue |-> Aged(startEventQueue[i], by[i], extra)]
           now == timeStamp + extra
           freed == [i \in DOMAIN aged |->
                       [aged[i] EXCEPT !.endComesAfter = @ \ {paired.stepID}]]
           more == EndsAwaitingPendingEnds(pending.ref)
<1>4. \/ paired.endComesAfter = {} /\ Pass(freed, now, more)
      \/ Fail
  <2>1. aged = AgedByEnd(paired, extra)
    BY Zenon DEF Entries, AgedByEnd
  <2>2. \/ /\ paired.endComesAfter = {}
           /\ Pass([i \in DOMAIN AgedByEnd(paired, extra) |->
                      [AgedByEnd(paired, extra)[i] EXCEPT !.endComesAfter = @ \ {paired.stepID}]],
                   now, more)
        \/ Fail
    BY <1>f, Zenon DEF CheckEnd
  <2> HIDE DEF aged, paired, extra, now, more
  <2> QED BY <2>1, <2>2
<1>5. extra \in Int /\ now \in Int
  <2>1. paired.advancingDuration \in Int
    BY <1>2, <1>3 DEF EventRecords
  <2>2. extra \in Int
    BY <2>1, LargerOf
  <2> HIDE DEF extra
  <2> QED BY <1>1, <2>2
<1> HIDE DEF extra, now
<1>6. by \in [Entries -> Int]
  BY <1>5
<1> HIDE DEF by
<1>q. PICK queue : queue = aged
  OBVIOUS
<1>7. /\ queue \in Seq(EventRecords) /\ Len(queue) = Len(startEventQueue)
      /\ \A i \in Entries :
            /\ queue[i] \in EventRecords
            /\ queue[i].actID = startEventQueue[i].actID
            /\ queue[i].stepID = startEventQueue[i].stepID
            /\ queue[i].minDuration = startEventQueue[i].minDuration
            /\ queue[i].terminated = startEventQueue[i].terminated
            /\ queue[i].endComesAfter = startEventQueue[i].endComesAfter
  BY <1>1, <1>5, <1>6, <1>q, AgedQueue
<1>8. freed = [i \in Entries |-> [queue[i] EXCEPT !.endComesAfter =
                                    queue[i].endComesAfter \ {paired.stepID}]]
  BY <1>q DEF Entries
<1> HIDE DEF aged
<1>l. PICK last : last = freed
  OBVIOUS
<1> HIDE DEF freed, EventRecords
<1>9. ASSUME NEW i \in Entries
      PROVE  /\ last[i] \in EventRecords
             /\ last[i].actID = startEventQueue[i].actID
             /\ last[i].stepID = startEventQueue[i].stepID
             /\ last[i].minDuration = startEventQueue[i].minDuration
             /\ last[i].terminated = startEventQueue[i].terminated
             /\ last[i].endComesAfter = startEventQueue[i].endComesAfter \ {paired.stepID}
  <2>1. queue[i].endComesAfter \in SUBSET Nat
    BY <1>7 DEF EventRecords
  <2>2. PICK waits \in SUBSET Nat : waits = queue[i].endComesAfter \ {paired.stepID}
    BY <2>1
  <2>3. last[i] = [queue[i] EXCEPT !.endComesAfter = waits]
    BY <1>8, <1>l, <2>2
  <2>q. PICK q : q = queue[i]
    OBVIOUS
  <2>r. PICK r : r = last[i]
    OBVIOUS
  <2>4. q \in EventRecords
    BY <1>7, <2>q
  <2>5. r = [q EXCEPT !.endComesAfter = waits]
    BY <2>3, <2>q, <2>r
  <2>6. /\ r \in EventRecords /\ r.actID = q.actID /\ r.stepID = q.stepID
        /\ r.minDuration = q.minDuration /\ r.terminated = q.terminated
        /\ r.endComesAfter = waits
    BY <2>4, <2>5, RewaitingEntry
  <2> QED BY <1>7, <2>2, <2>6, <2>q, <2>r
<1>10. last \in Seq(EventRecords) /\ Len(last) = Len(startEventQueue)
  <2>1. last \in [1..Len(startEventQueue) -> EventRecords]
    BY <1>3, <1>8, <1>9, <1>l
  <2> QED BY <1>3, <2>1, ListOfRecords
<1>11. \A i \in Entries : /\ startEventQueue[i].terminated <=> i = f
                          /\ \A s \in startEventQueue[i].endComesAfter : PendingEnd(s) \in StepIDs
  BY <1>1, <1>2 DEF QueueInv, OthersArePending, StageInv, EntriesWaitForSteps
<1>12. PendingEnd(paired.stepID) \in PlanSteps
  <2>1. mostRecentStep = EndOf(f) /\ EndOf(f) \in Nat
    BY <1>1, <1>2, EndsDiffer DEF QueueInv, StageInv, PendingIsRecent
  <2>2. mostRecentStep \in PlanSteps
    BY <2>1, RecentIsPlanned
  <2> QED BY <2>1, <2>2 DEF EndOf
<1>13. /\ more \subseteq StepIDs \X StepIDs
       /\ \A edge \in more : \E i \in Entries :
             /\ IsLong(i) /\ edge[2] = EndOf(i)
             /\ ~startEventQueue[i].terminated /\ edge[1] \in PlanSteps
  BY <1>1, AwaitedOrderings DEF TypeInv, TypeOK
<1> HIDE DEF more
<1>14. ASSUME paired.endComesAfter = {}
       PROVE  /\ KeepsEntries(last, more)
              /\ \A i \in Entries : EndPending(i) => last[i].endComesAfter = {}
  <2>1. \A i \in Entries : \A s \in startEventQueue[i].endComesAfter :
           \/ s \in last[i].endComesAfter
           \/ ~startEventQueue[i].terminated /\ PendingEnd(s) \in PlanSteps
    BY <1>9, <1>11, <1>12, <1>14
  <2>2. KeepsEntries(last, more)
    BY <1>9, <1>10, <1>11, <1>13, <2>1 DEF KeepsEntries
  <2> QED BY <1>2, <1>9, <1>14, <2>2
<1> HIDE DEF paired
<1>15. paired.endComesAfter = {} /\ Pass(last, now, more) => Retimed(last, now, more)
  BY <1>5, <1>14, PassingKeeps
<1>16. Fail => Retimed(startEventQueue, timeStamp, {})
  BY FailingKeeps
<1> QED BY <1>4, <1>l, <1>15, <1>16

(* A queue is what it was but for the times and what the ends wait for.    *)
SameEntries(queue) ==
    /\ queue \in Seq(EventRecords) /\ Len(queue) = Len(startEventQueue)
    /\ \A i \in Entries :
          /\ queue[i] \in EventRecords
          /\ queue[i].actID = startEventQueue[i].actID
          /\ queue[i].stepID = startEventQueue[i].stepID
          /\ queue[i].minDuration = startEventQueue[i].minDuration
          /\ queue[i].terminated = startEventQueue[i].terminated

LEMMA MoreOrderings ==
    ASSUME NEW queue, NEW more, NEW others, KeepsEntries(queue, more),
           \A edge \in others :
              /\ edge \in StepIDs \X StepIDs /\ edge[1] \in PlanSteps
              /\ \E i \in Entries : /\ IsLong(i) /\ edge[2] = EndOf(i)
                                    /\ ~startEventQueue[i].terminated
    PROVE  KeepsEntries(queue, more \cup others)
BY DEF KeepsEntries

(* A durative action starts: its entry is the last of the queue, and the   *)
(* step applied last.                                                      *)
LEMMA StartedEntry ==
    ASSUME NodesInv, HistoryInv,
           pending.timeSpec = "AT_START", pending.ref \in Durative
    PROVE  LET n == Len(startEventQueue)
           IN /\ n \in Entries /\ Entries = 1..n
              /\ startEventQueue[n].actID = pending.ref
              /\ \A i \in Entries : /\ i < n => IsLong(i)
                                    /\ ~startEventQueue[i].terminated
                                    /\ ~EndPending(i)
              /\ CanSkipToEnd(pending.ref) => EndOf(n) \in PlanSteps
<1> DEFINE n == Len(startEventQueue)
<1>1. /\ NodeTypes /\ OthersArePending /\ NewEntryIsLast /\ PendingIsRecent
      /\ planLength \in Nat
  BY DEF NodesInv, PlanInv, QueueInv, StageInv, TypeInv, TypeOK
<1>2. startEventQueue # <<>> /\ startEventQueue[n].actID = pending.ref
      /\ startEventQueue[n].stepID = planLength - 2
  BY <1>1 DEF NewEntryIsLast
<1>3. n \in Entries /\ Entries = 1..n /\ startEventQueue[n].stepID \in Nat
  BY <1>1, <1>2, QueueShape, EmptySeq DEF NodeTypes
<1>4. \A i \in Entries : ~EndPending(i)
  BY DEF EndPending
<1>5. \A i \in Entries : /\ i < n => IsLong(i)
                         /\ ~startEventQueue[i].terminated
  <2>1. \A i \in Entries : i < n => i # n
    BY <1>3
  <2> QED BY <1>1, <1>4, <2>1 DEF OthersArePending, SkipPending, IsLong
<1>6. ASSUME CanSkipToEnd(pending.ref)
      PROVE  EndOf(n) \in PlanSteps
  <2>1. /\ mostRecentStep = planLength - 2
        /\ StepOf(mostRecentStep) = [spec |-> "START", act |-> pending.ref]
    BY <1>1 DEF PendingIsRecent
  <2>2. SkippedStart(mostRecentStep) /\ mostRecentStep # -1
    BY <1>2, <1>3, <1>6, <2>1 DEF SkippedStart
  <2>3. PendingEnd(mostRecentStep) \in PlanSteps
    BY <2>2, RecentIsPlanned
  <2> QED BY <1>2, <2>1, <2>3 DEF EndOf
<1> QED BY <1>2, <1>3, <1>4, <1>5, <1>6

(* The older ends wait for the new one that deletes what they hold: it is  *)
(* part of the plan.                                                       *)
LEMMA SkippableKeeps ==
    ASSUME NodesInv, HistoryInv, NEW queue, SameEntries(queue),
           \A i \in Entries : queue[i].endComesAfter = startEventQueue[i].endComesAfter,
           pending.timeSpec = "AT_START", pending.ref \in Durative, CanSkipToEnd(pending.ref)
    PROVE  KeepsEntries(queue, OrderingsOfSkippable(queue))
<1>n. PICK n : n = Len(startEventQueue)
  OBVIOUS
<1>1. /\ n \in Entries /\ Entries = 1..n /\ EndOf(n) \in PlanSteps
      /\ \A i \in Entries : /\ i < n => IsLong(i)
                            /\ ~startEventQueue[i].terminated
  BY <1>n, StartedEntry
<1>2. /\ queue \in Seq(EventRecords) /\ Len(queue) = n
      /\ EndStep(Last(queue)) = EndOf(n)
      /\ \A i \in Entries : EndStep(queue[i]) = EndOf(i)
  BY <1>1, <1>n DEF SameEntries, EndStep, EndOf, Last
<1>3. \A i \in Entries : EndOf(i) \in StepIDs
  BY DEF NodesInv, PlanInv, QueueInv, EntriesAreOrdered
<1>4. /\ Front(queue) \in Seq(EventRecords) /\ Len(Front(queue)) = n - 1
      /\ \A j \in 1..n - 1 : Front(queue)[j] = queue[j]
  <2>1. queue # <<>>
    BY <1>1, <1>2
  <2> HIDE DEF EventRecords
  <2> QED BY <1>2, <2>1, FrontProperties
<1>5. \A r \in Running(Front(queue)) : \E i \in Entries : r = queue[i] /\ i < n
  <2>1. DOMAIN Front(queue) = 1..n - 1 /\ n \in Nat
    <3> HIDE DEF EventRecords
    <3> QED BY <1>2, <1>4, LenProperties
  <2>2. \A j \in 1..n - 1 : j \in Entries /\ j < n
    BY <1>1, <2>1
  <2> QED BY <1>4, <2>1, <2>2 DEF Running, Range
<1>6. ASSUME NEW edge \in OrderingsOfSkippable(queue)
      PROVE  /\ edge \in StepIDs \X StepIDs
             /\ \E i \in Entries : /\ IsLong(i) /\ edge[2] = EndOf(i)
                                   /\ ~startEventQueue[i].terminated /\ edge[1] \in PlanSteps
  <2>1. PICK r \in Running(Front(queue)) : edge = <<EndStep(Last(queue)), EndStep(r)>>
    BY DEF OrderingsOfSkippable
  <2>2. PICK i \in Entries : r = queue[i] /\ i < n
    BY <1>5, <2>1
  <2>3. edge = <<EndOf(n), EndOf(i)>>
    BY <1>2, <2>1, <2>2
  <2> QED BY <1>1, <1>3, <2>2, <2>3
<1>7. \A i \in Entries : \A s \in queue[i].endComesAfter : PendingEnd(s) \in StepIDs
  BY DEF NodesInv, StageInv, EntriesWaitForSteps
<1> QED BY <1>6, <1>7 DEF KeepsEntries, SameEntries

(* What the ends wait for once the new action has been compared with the   *)
(* older ones: what they waited for, and ends of the queue.                *)
NowWaits(queue, i, waits) ==
    /\ StartedQueue(queue)[i] = [queue[i] EXCEPT !.endComesAfter = waits]
    /\ i < Len(startEventQueue) => queue[i].endComesAfter \subseteq waits
    /\ \A s \in waits : \/ i < Len(startEventQueue) /\ s \in queue[i].endComesAfter
                        \/ \E j \in Entries : s = startEventQueue[j].stepID

LEMMA StartedEntries ==
    ASSUME NodeTypes, EntriesAreOrdered, startEventQueue # <<>>, NEW queue, SameEntries(queue)
    PROVE  \A i \in Entries : \E waits \in SUBSET Nat : NowWaits(queue, i, waits)
<1>n. PICK n : n = Len(startEventQueue)
  OBVIOUS
<1> DEFINE new == Last(queue)
           older == Running(Front(queue))
           sooner == {q \in older : LongInsideShort(new, q) \/ EndDisturbs(new.actID, q.actID)}
           later == {q \in older : EndDisturbs(q.actID, new.actID)}
           firstOnes == {q.stepID : q \in sooner}
<1>1. /\ n \in Nat /\ n \in Entries /\ Entries = 1..n
      /\ \A i \in Entries : startEventQueue[i].stepID \in Nat
  BY <1>n, QueueShape, EmptySeq DEF NodeTypes
<1>2. /\ queue \in Seq(EventRecords) /\ Len(queue) = n /\ new = queue[n]
      /\ DOMAIN queue = Entries
      /\ \A i \in Entries : /\ queue[i] \in EventRecords
                            /\ queue[i].stepID = startEventQueue[i].stepID
  <2> HIDE DEF EventRecords
  <2> QED BY <1>1, <1>n, LenProperties DEF SameEntries, Last
<1>3. \A i \in Entries : queue[i].endComesAfter \in SUBSET Nat
  BY <1>2 DEF EventRecords
<1>4. \A i \in Entries : queue[i] = new <=> i = n
  <2>1. \A i \in Entries : i # n => startEventQueue[i].stepID < startEventQueue[n].stepID
    BY <1>1 DEF EntriesAreOrdered
  <2> QED BY <1>1, <1>2, <2>1
<1>5. \A r \in older : \E j \in Entries : r.stepID = startEventQueue[j].stepID
  <2>1. queue # <<>>
    BY <1>1, <1>2
  <2>2. /\ Front(queue) \in Seq(EventRecords) /\ Len(Front(queue)) = n - 1
        /\ \A j \in 1..n - 1 : Front(queue)[j] = queue[j]
    <3> HIDE DEF EventRecords, new
    <3> QED BY <1>2, <2>1, FrontProperties
  <2>3. DOMAIN Front(queue) = 1..n - 1
    <3> HIDE DEF EventRecords
    <3> QED BY <2>2, LenProperties
  <2>4. \A j \in 1..n - 1 : j \in Entries
    BY <1>1
  <2>5. \A r \in older : \E j \in Entries : r = queue[j]
    BY <2>2, <2>3, <2>4 DEF Running, Range
  <2> HIDE DEF older
  <2> QED BY <1>2, <2>5
<1>6. StartedQueue(queue) =
         [i \in Entries |-> IF queue[i] = new
                            THEN [new EXCEPT !.endComesAfter = firstOnes]
                            ELSE IF queue[i] \in later
                            THEN [queue[i] EXCEPT !.endComesAfter =
                                    queue[i].endComesAfter \cup {new.stepID}]
                            ELSE queue[i]]
  BY <1>2, Zenon DEF StartedQueue
<1>7. \A s \in firstOnes : \E j \in Entries : s = startEventQueue[j].stepID
  <2> HIDE DEF older
  <2> QED BY <1>5
<1>8. new.stepID = startEventQueue[n].stepID
  BY <1>1, <1>2
<1> HIDE DEF new, firstOnes, later, EventRecords
<1> SUFFICES ASSUME NEW i \in Entries
             PROVE  \E waits \in SUBSET Nat : NowWaits(queue, i, waits)
  OBVIOUS
<1>9. CASE i = n
  <2>1. StartedQueue(queue)[i] = [queue[i] EXCEPT !.endComesAfter = firstOnes]
    BY <1>2, <1>4, <1>6, <1>9
  <2>2. firstOnes \in SUBSET Nat
    BY <1>1, <1>7
  <2>3. ~(i < n)
    BY <1>1, <1>9
  <2>4. NowWaits(queue, i, firstOnes)
    BY <1>7, <1>n, <2>1, <2>3 DEF NowWaits
  <2> QED BY <2>2, <2>4
<1>10. CASE i # n /\ queue[i] \in later
  <2>1. StartedQueue(queue)[i] =
           [queue[i] EXCEPT !.endComesAfter = queue[i].endComesAfter \cup {new.stepID}]
    BY <1>4, <1>6, <1>10
  <2>2. queue[i].endComesAfter \cup {new.stepID} \in SUBSET Nat
    BY <1>1, <1>3, <1>8
  <2>3. i < n
    BY <1>1, <1>10
  <2>4. NowWaits(queue, i, queue[i].endComesAfter \cup {new.stepID})
    BY <1>1, <1>8, <1>n, <2>1, <2>3 DEF NowWaits
  <2> QED BY <2>2, <2>4
<1>11. CASE i # n /\ queue[i] \notin later
  <2>1. StartedQueue(queue)[i] = queue[i]
    BY <1>4, <1>6, <1>11
  <2>2. queue[i] = [queue[i] EXCEPT !.endComesAfter = queue[i].endComesAfter]
    BY <1>2 DEF EventRecords
  <2>3. i < n
    BY <1>1, <1>11
  <2>4. NowWaits(queue, i, queue[i].endComesAfter)
    BY <1>n, <2>1, <2>2, <2>3 DEF NowWaits
  <2> QED BY <1>3, <2>4
<1> QED BY <1>9, <1>10, <1>11

LEMMA LongStartKeeps ==
    ASSUME NodesInv, HistoryInv, NEW queue, SameEntries(queue), stage = "child",
           \A i \in Entries : queue[i].endComesAfter = startEventQueue[i].endComesAfter,
           pending.timeSpec = "AT_START", pending.ref \in Durative, ~CanSkipToEnd(pending.ref)
    PROVE  KeepsEntries(StartedQueue(queue), OrderingsOfStart(StartedQueue(queue)))
<1>n. PICK n : n = Len(startEventQueue)
  OBVIOUS
<1>k. PICK kept : kept = StartedQueue(queue)
  OBVIOUS
<1>1. /\ n \in Entries /\ Entries = 1..n /\ startEventQueue[n].actID = pending.ref
      /\ \A i \in Entries : /\ i < n => IsLong(i)
                            /\ ~startEventQueue[i].terminated
  BY <1>n, StartedEntry
<1>2. \A i \in Entries : IsLong(i)
  <2>1. n \in Nat
    BY <1>n, QueueShape DEF NodesInv, PlanInv, QueueInv
  <2>2. \A i \in Entries : i < n \/ i = n
    BY <1>1, <2>1
  <2> QED BY <1>1, <2>2 DEF IsLong
<1>3. /\ NodeTypes /\ EntriesAreOrdered /\ startEventQueue # <<>>
      /\ n \in Nat /\ startEventQueue[n].endComesAfter = {}
      /\ \A i \in Entries : \A s \in startEventQueue[i].endComesAfter : PendingEnd(s) \in StepIDs
      /\ \A i \in Entries : EndOf(i) \in StepIDs
  <2>1. NodeTypes /\ EntriesAreOrdered /\ NewEntryIsLast /\ NewEntryWaitsForNothing
        /\ EntriesWaitForSteps
    BY DEF NodesInv, PlanInv, QueueInv, StageInv
  <2>2. n \in Nat
    BY <1>n, <2>1, QueueShape
  <2> QED BY <1>n, <2>1, <2>2
          DEF NewEntryIsLast, NewEntryWaitsForNothing, EntriesWaitForSteps, EntriesAreOrdered
<1>4. ASSUME NEW i \in Entries
      PROVE  /\ kept[i] \in EventRecords
             /\ kept[i].actID = startEventQueue[i].actID
             /\ kept[i].stepID = startEventQueue[i].stepID
             /\ kept[i].minDuration = startEventQueue[i].minDuration
             /\ kept[i].terminated = startEventQueue[i].terminated
             /\ \A s \in kept[i].endComesAfter : PendingEnd(s) \in StepIDs
             /\ startEventQueue[i].endComesAfter \subseteq kept[i].endComesAfter
  <2>0. PICK waits \in SUBSET Nat : NowWaits(queue, i, waits)
    BY <1>3, StartedEntries
  <2>1. /\ kept[i] = [queue[i] EXCEPT !.endComesAfter = waits]
        /\ i < n => queue[i].endComesAfter \subseteq waits
        /\ \A s \in waits : \/ i < n /\ s \in queue[i].endComesAfter
                            \/ \E j \in Entries : s = startEventQueue[j].stepID
    BY <1>k, <1>n, <2>0 DEF NowWaits
  <2>q. PICK q : q = queue[i]
    OBVIOUS
  <2>r. PICK r : r = kept[i]
    OBVIOUS
  <2>e. q \in EventRecords
    BY <2>q DEF SameEntries
  <2>2. /\ q.actID = startEventQueue[i].actID
        /\ q.stepID = startEventQueue[i].stepID
        /\ q.minDuration = startEventQueue[i].minDuration
        /\ q.terminated = startEventQueue[i].terminated
    BY <2>q DEF SameEntries
  <2>3. r = [q EXCEPT !.endComesAfter = waits]
    BY <2>1, <2>q, <2>r
  <2> HIDE DEF EventRecords
  <2>4. /\ r \in EventRecords /\ r.actID = q.actID /\ r.stepID = q.stepID
        /\ r.minDuration = q.minDuration /\ r.terminated = q.terminated
        /\ r.endComesAfter = waits
    BY <2>e, <2>3, RewaitingEntry
  <2>5. \A s \in waits : PendingEnd(s) \in StepIDs
    BY <1>3, <2>1 DEF EndOf
  <2>6. startEventQueue[i].endComesAfter \subseteq waits
    <3>1. i < n \/ i = n
      BY <1>1, <1>3
    <3> QED BY <1>3, <2>1, <3>1
  <2> QED BY <2>2, <2>4, <2>5, <2>6, <2>r
<1>5. kept \in Seq(EventRecords) /\ Len(kept) = n /\ DOMAIN kept = Entries
  <2>1. DOMAIN queue = Entries
    <3> HIDE DEF EventRecords
    <3> QED BY <1>1, <1>n, LenProperties DEF SameEntries
  <2>2. kept = [i \in Entries |-> kept[i]]
    BY <1>k, <2>1, Zenon DEF StartedQueue
  <2> HIDE DEF EventRecords
  <2>3. kept \in [1..n -> EventRecords]
    BY <1>1, <1>4, <2>2
  <2>4. kept \in Seq(EventRecords) /\ Len(kept) = n
    BY <1>3, <2>3, ListOfRecords
  <2> QED BY <1>1, <2>3, <2>4
<1>6. ASSUME NEW edge \in OrderingsOfStart(kept)
      PROVE  /\ edge \in StepIDs \X StepIDs
             /\ \E i \in Entries : /\ edge[2] = EndOf(i)
                                   /\ \E s \in kept[i].endComesAfter : edge[1] = PendingEnd(s)
  <2> DEFINE new == Last(kept)
             waits == [q \in Range(kept) |-> {PendingEnd(s) : s \in q.endComesAfter}]
  <2>1. new = kept[n] /\ new \in Range(kept)
    BY <1>1, <1>5 DEF Last, Range
  <2>2. \A i \in Entries : EndStep(kept[i]) = EndOf(i)
    BY <1>4 DEF EndStep, EndOf
  <2>3. \A r \in Range(kept) : \E i \in Entries : r = kept[i]
    BY <1>5 DEF Range
  <2>4. \/ \E e \in waits[new] : edge = <<e, EndStep(new)>>
        \/ \E r \in Range(kept) : EndStep(new) \in waits[r] /\ edge = <<EndStep(new), EndStep(r)>>
    BY Zenon DEF OrderingsOfStart
  <2>5. \A r \in Range(kept) : waits[r] = {PendingEnd(s) : s \in r.endComesAfter}
    OBVIOUS
  <2> HIDE DEF new, waits
  <2>6. CASE \E e \in waits[new] : edge = <<e, EndStep(new)>>
    <3>1. PICK e \in waits[new] : edge = <<e, EndStep(new)>>
      BY <2>6
    <3>2. PICK s \in kept[n].endComesAfter : e = PendingEnd(s)
      BY <2>1, <2>5, <3>1
    <3>3. edge = <<PendingEnd(s), EndOf(n)>>
      BY <1>1, <2>1, <2>2, <3>1, <3>2
    <3> QED BY <1>1, <1>3, <1>4, <3>2, <3>3
  <2>7. CASE \E r \in Range(kept) : EndStep(new) \in waits[r] /\ edge = <<EndStep(new), EndStep(r)>>
    <3>1. PICK r \in Range(kept) : EndStep(new) \in waits[r] /\ edge = <<EndStep(new), EndStep(r)>>
      BY <2>7
    <3>2. PICK i \in Entries : r = kept[i]
      BY <2>3, <3>1
    <3>3. PICK s \in kept[i].endComesAfter : EndStep(new) = PendingEnd(s)
      BY <2>5, <3>1, <3>2
    <3>4. edge = <<PendingEnd(s), EndOf(i)>>
      BY <2>2, <3>1, <3>2, <3>3
    <3> QED BY <1>3, <1>4, <3>3, <3>4
  <2> QED BY <2>4, <2>6, <2>7
<1>7. KeepsEntries(kept, OrderingsOfStart(kept))
  BY <1>2, <1>4, <1>5, <1>6, <1>n DEF KeepsEntries
<1> QED BY <1>7, <1>k

LEMMA AgedByOne ==
    ASSUME NodeTypes, NEW queue,
           queue = [i \in DOMAIN startEventQueue |-> Aged(startEventQueue[i], 1, 1)]
    PROVE  /\ SameEntries(queue)
           /\ \A i \in Entries : queue[i].endComesAfter = startEventQueue[i].endComesAfter
<1> DEFINE by == [i \in Entries |-> 1]
<1>1. queue = [i \in DOMAIN startEventQueue |-> Aged(startEventQueue[i], by[i], 1)]
  BY Zenon DEF Entries
<1>2. by \in [Entries -> Int] /\ 1 \in Int
  OBVIOUS
<1> HIDE DEF by, EventRecords
<1>3. /\ queue \in Seq(EventRecords) /\ Len(queue) = Len(startEventQueue)
      /\ \A i \in Entries :
            /\ queue[i] \in EventRecords
            /\ queue[i].actID = startEventQueue[i].actID
            /\ queue[i].stepID = startEventQueue[i].stepID
            /\ queue[i].minDuration = startEventQueue[i].minDuration
            /\ queue[i].terminated = startEventQueue[i].terminated
            /\ queue[i].endComesAfter = startEventQueue[i].endComesAfter
  BY <1>1, <1>2, AgedQueue
<1> QED BY <1>3 DEF SameEntries

LEMMA StartRetimes ==
    ASSUME NodesInv, HistoryInv, CheckTemporalSoundness, CheckStart
    PROVE  \E queue, now, more : Retimed(queue, now, more)
<1>1. /\ NodeTypes /\ StageInv /\ stage = "child" /\ first \subseteq Facts
      /\ pending.timeSpec = "AT_START" /\ timeStamp + 1 \in Int
  BY DEF NodesInv, PlanInv, QueueInv, StageInv, CheckStart, CheckTemporalSoundness,
         TypeInv, TypeOK
<1> DEFINE a == pending.ref
<1>q. PICK queue : queue = [i \in DOMAIN startEventQueue |-> Aged(startEventQueue[i], 1, 1)]
  OBVIOUS
<1> DEFINE kept == IF a \in Durative /\ ~CanSkipToEnd(a) THEN StartedQueue(queue)
                   ELSE queue
           orderings == CASE a \notin Durative -> {}
                          [] CanSkipToEnd(a) -> OrderingsOfSkippable(queue)
                          [] OTHER -> OrderingsOfStart(kept)
           more == orderings \cup EndsAwaitingPendingEnds(a)
<1>3. Pass(kept, timeStamp + 1, more) \/ Fail
  BY <1>q, Zenon DEF CheckStart
<1>2. /\ SameEntries(queue)
      /\ \A i \in Entries : queue[i].endComesAfter = startEventQueue[i].endComesAfter
  BY <1>1, <1>q, AgedByOne
<1>4. KeepsEntries(kept, orderings)
  <2>1. CASE a \notin Durative
    <3>3. ~CanSkipToEnd(a)
      BY <2>1, DomainAssumption DEF CanSkipToEnd
    <3>1. kept = queue /\ orderings = {}
      BY <2>1, <3>3
    <3>2. KeepsEntries(queue, {})
      <4>1. \A i \in Entries : \A s \in startEventQueue[i].endComesAfter : PendingEnd(s) \in StepIDs
        BY <1>1 DEF StageInv, EntriesWaitForSteps
      <4> HIDE DEF EventRecords, a, kept, orderings
      <4> QED BY <1>2, <4>1 DEF KeepsEntries, SameEntries
    <3> QED BY <3>1, <3>2
  <2>2. CASE a \in Durative /\ CanSkipToEnd(a)
    <3>1. kept = queue /\ orderings = OrderingsOfSkippable(queue)
      BY <2>2
    <3> QED BY <1>1, <1>2, <2>2, <3>1, SkippableKeeps
  <2>3. CASE a \in Durative /\ ~CanSkipToEnd(a)
    <3>1. kept = StartedQueue(queue) /\ orderings = OrderingsOfStart(kept)
      BY <2>3
    <3> QED BY <1>1, <1>2, <2>3, <3>1, LongStartKeeps
  <2> QED BY <2>1, <2>2, <2>3
<1> HIDE DEF kept, orderings
<1>5. KeepsEntries(kept, more)
  <2>1. \A edge \in EndsAwaitingPendingEnds(a) :
              /\ edge \in StepIDs \X StepIDs /\ edge[1] \in PlanSteps
              /\ \E i \in Entries : /\ IsLong(i) /\ edge[2] = EndOf(i)
                                    /\ ~startEventQueue[i].terminated
    BY <1>1, AwaitedOrderings DEF NodesInv
  <2> QED BY <1>4, <2>1, MoreOrderings
<1> HIDE DEF more
<1>6. \A i \in Entries : ~EndPending(i)
  BY <1>1 DEF EndPending
<1>7. Pass(kept, timeStamp + 1, more) => Retimed(kept, timeStamp + 1, more)
  BY <1>1, <1>5, <1>6, PassingKeeps
<1>8. Fail => Retimed(startEventQueue, timeStamp, {})
  BY FailingKeeps
<1> QED BY <1>3, <1>7, <1>8

LEMMA TestRetimes ==
    ASSUME NodesInv, HistoryInv, CheckTemporalSoundness
    PROVE  \E queue, now, more : Retimed(queue, now, more)
<1>1. CheckStart \/ CheckEnd \/ CheckTIL
  BY DEF CheckTemporalSoundness
<1> QED BY <1>1, StartRetimes, EndRetimes, TILRetimes

LEMMA RetimedShape ==
    ASSUME NodeTypes, TypeInv, NEW queue, NEW now, NEW more, Retimed(queue, now, more)
    PROVE  /\ Entries' = Entries /\ startEventQueue' = queue
           /\ \A i \in Entries :
                 /\ startEventQueue'[i].actID = startEventQueue[i].actID
                 /\ startEventQueue'[i].stepID = startEventQueue[i].stepID
                 /\ startEventQueue'[i].minDuration = startEventQueue[i].minDuration
                 /\ startEventQueue'[i].terminated = startEventQueue[i].terminated
                 /\ EndOf(i)' = EndOf(i) /\ (IsLong(i)' <=> IsLong(i))
                 /\ (Runs(i)' <=> Runs(i)) /\ (EndPending(i)' <=> EndPending(i))
                 /\ (SkipPending(i)' <=> SkipPending(i))
           /\ StepIDs' = StepIDs /\ PlanSteps' = PlanSteps /\ TypeInv'
           /\ \A k : StepOf(k)' = StepOf(k)
           /\ \A edge : Follows(edge)' <=> Follows(edge)
<1>1. /\ KeepsEntries(queue, more) /\ AddsOrderings(more) /\ startEventQueue' = queue
      /\ pending' = pending
  BY DEF Retimed
<1>2. /\ queue \in Seq(EventRecords) /\ Len(queue) = Len(startEventQueue)
      /\ \A i \in Entries :
            /\ queue[i].actID = startEventQueue[i].actID
            /\ queue[i].stepID = startEventQueue[i].stepID
            /\ queue[i].minDuration = startEventQueue[i].minDuration
            /\ queue[i].terminated = startEventQueue[i].terminated
  BY <1>1 DEF KeepsEntries
<1>3. Entries' = Entries
  <2>1. Entries = 1..Len(startEventQueue)
    BY QueueShape
  <2>2. DOMAIN queue = 1..Len(queue)
    <3> HIDE DEF EventRecords
    <3> QED BY <1>2, LenProperties
  <2> QED BY <1>1, <1>2, <2>1, <2>2 DEF Entries
<1>4. /\ StepIDs' = StepIDs /\ PlanSteps' = PlanSteps /\ TypeInv'
      /\ \A k : StepOf(k)' = StepOf(k)
      /\ \A edge : Follows(edge)' <=> Follows(edge)
  BY <1>1, OrderingsKeepTypes
<1>5. ASSUME NEW i \in Entries
      PROVE  /\ EndOf(i)' = EndOf(i) /\ (IsLong(i)' <=> IsLong(i))
             /\ (Runs(i)' <=> Runs(i)) /\ (SkipPending(i)' <=> SkipPending(i))
  BY <1>1, <1>2 DEF EndOf, IsLong, Runs, SkipPending
<1>6. \A i \in Entries : EndPending(i)' <=> EndPending(i)
  BY <1>1, <1>2, <1>3 DEF EndPending
<1> QED BY <1>1, <1>2, <1>3, <1>4, <1>5, <1>6

LEMMA RetimedKeepsPlan ==
    ASSUME PlanInv, NEW queue, NEW now, NEW more, Retimed(queue, now, more)
    PROVE  PlanInv'
<1>1. /\ QueueInv /\ NodeTypes /\ TypeInv /\ EntriesAreOrdered /\ EntriesAreRunning
      /\ OthersArePending /\ NewEntryIsLast /\ EndedEntryIsThere
  BY DEF PlanInv, QueueInv
<1>2. /\ Entries' = Entries /\ startEventQueue' = queue
      /\ \A i \in Entries :
            /\ startEventQueue'[i].actID = startEventQueue[i].actID
            /\ startEventQueue'[i].stepID = startEventQueue[i].stepID
            /\ startEventQueue'[i].minDuration = startEventQueue[i].minDuration
            /\ startEventQueue'[i].terminated = startEventQueue[i].terminated
            /\ EndOf(i)' = EndOf(i) /\ (Runs(i)' <=> Runs(i))
            /\ (EndPending(i)' <=> EndPending(i))
            /\ (SkipPending(i)' <=> SkipPending(i))
      /\ StepIDs' = StepIDs /\ TypeInv' /\ \A k : StepOf(k)' = StepOf(k)
  BY <1>1, RetimedShape
<1>3. /\ plan' = plan /\ pending' = pending /\ planLength' = planLength
      /\ startedActions' = startedActions /\ stepsBefore \subseteq stepsBefore'
      /\ queue \in Seq(EventRecords) /\ Len(queue) = Len(startEventQueue)
  BY DEF Retimed, KeepsEntries, AddsOrderings
<1>4. NodeTypes'
  BY <1>1, <1>2, <1>3 DEF NodeTypes
<1>5. EntriesAreOrdered'
  <2>1. \A i \in Entries : StepOf(EndOf(i))' = StepOf(EndOf(i))
    BY <1>2 DEF StepOf
  <2> QED BY <1>1, <1>2, <2>1 DEF EntriesAreOrdered
<1>6. EntriesAreRunning'
  BY <1>1, <1>2, <1>3 DEF EntriesAreRunning
<1>7. OthersArePending' /\ EndedEntryIsThere'
  BY <1>1, <1>2, <1>3 DEF OthersArePending, EndedEntryIsThere
<1>8. NewEntryIsLast'
  <2> SUFFICES ASSUME pending.timeSpec = "AT_START", pending.ref \in Durative
               PROVE  /\ queue # <<>> /\ queue[Len(queue)].actID = pending.ref
                      /\ queue[Len(queue)].stepID = planLength - 2
    BY <1>2, <1>3 DEF NewEntryIsLast
  <2>1. /\ startEventQueue # <<>> /\ Len(startEventQueue) \in Entries
        /\ startEventQueue[Len(startEventQueue)].actID = pending.ref
        /\ startEventQueue[Len(startEventQueue)].stepID = planLength - 2
    BY <1>1, QueueShape, EmptySeq DEF NewEntryIsLast, NodeTypes
  <2>2. queue # <<>>
    BY <1>2, <2>1 DEF Entries
  <2> QED BY <1>2, <1>3, <2>1, <2>2
<1>9. QueueInv'
  BY <1>2, <1>4, <1>5, <1>6, <1>7, <1>8 DEF QueueInv
<1>10. Unwritten' = Unwritten /\ NewSteps'
  <2>1. NewSteps
    BY DEF PlanInv
  <2> QED BY <1>2, <1>3, <2>1 DEF Unwritten, NewSteps, StepOf
<1>11. ASSUME NEW k \in 0..Len(plan) - 1 PROVE EventMatches(k)'
  <2>1. EventMatches(k)
    BY DEF PlanInv
  <2>2. Withheld(k)' <=> Withheld(k)
    BY <1>2 DEF Withheld
  <2> QED BY <1>2, <1>3, <2>1, <2>2 DEF EventMatches
<1>12. Len(plan)' = planLength' - Unwritten'
  BY <1>3, <1>10 DEF PlanInv
<1> QED BY <1>3, <1>9, <1>10, <1>11, <1>12 DEF PlanInv

LEMMA RetimedKeepsStage ==
    ASSUME NodesInv, NEW queue, NEW now, NEW more, Retimed(queue, now, more), ~executing'
    PROVE  StageInv'
<1>1. /\ NodeTypes /\ TypeInv /\ StageInv
  BY DEF NodesInv, PlanInv, QueueInv
<1>2. /\ Entries' = Entries /\ startEventQueue' = queue
      /\ \A i \in Entries :
            /\ startEventQueue'[i].terminated = startEventQueue[i].terminated
            /\ EndOf(i)' = EndOf(i) /\ (IsLong(i)' <=> IsLong(i))
            /\ (EndPending(i)' <=> EndPending(i))
      /\ StepIDs' = StepIDs /\ PlanSteps' = PlanSteps
      /\ \A k : StepOf(k)' = StepOf(k)
      /\ \A edge : Follows(edge)' <=> Follows(edge)
  BY <1>1, RetimedShape
<1>3. /\ KeepsEntries(queue, more) /\ timeStamp' = now /\ now \in Int
      /\ stepsBefore' = stepsBefore \cup more
      /\ pending' = pending /\ mostRecentStep' = mostRecentStep /\ planLength' = planLength
      /\ stage' # "open" /\ stage' # "child"
      /\ stage' = "sound" =>
            \A i \in Entries : EndPending(i) => queue[i].endComesAfter = {}
  BY DEF Retimed, AddsOrderings
<1>4. PendingIsRecent'
  <2>1. StepOf(mostRecentStep)' = StepOf(mostRecentStep)
    BY <1>3 DEF Retimed, AddsOrderings, StepOf
  <2> QED BY <1>1, <1>2, <1>3, <2>1 DEF StageInv, PendingIsRecent
<1>5. EntriesWaitForSteps' /\ TestedEndsWaitForNothing' /\ NewEntryWaitsForNothing'
  BY <1>2, <1>3 DEF KeepsEntries, EntriesWaitForSteps, TestedEndsWaitForNothing,
                    NewEntryWaitsForNothing, PendingEnd
<1>6. ASSUME NEW i \in Entries, NEW e, WaitsFor(i, e)
      PROVE  WaitsFor(i, e)' \/ (~startEventQueue[i].terminated /\ e \in PlanSteps)
  <2>1. PICK s \in startEventQueue[i].endComesAfter : e = PendingEnd(s)
    BY <1>6 DEF WaitsFor
  <2>2. \/ s \in queue[i].endComesAfter
        \/ ~startEventQueue[i].terminated /\ PendingEnd(s) \in PlanSteps
    BY <1>3, <2>1 DEF KeepsEntries
  <2> QED BY <1>2, <2>1, <2>2 DEF WaitsFor, PendingEnd
<1>7. OrderingsAreEnforced'
  <2> SUFFICES ASSUME NEW edge \in stepsBefore \cup more, ~Follows(edge)
               PROVE  IntoRunningEnd(edge)'
    BY <1>2, <1>3 DEF OrderingsAreEnforced
  <2>1. CASE edge \in more
    <3>1. PICK i \in Entries :
             /\ IsLong(i) /\ edge[2] = EndOf(i)
             /\ \/ \E s \in queue[i].endComesAfter : edge[1] = PendingEnd(s)
                \/ ~startEventQueue[i].terminated /\ edge[1] \in PlanSteps
      BY <1>3, <2>1 DEF KeepsEntries
    <3> QED BY <1>2, <3>1 DEF IntoRunningEnd, WaitsFor, PendingEnd
  <2>2. CASE edge \in stepsBefore
    <3>1. PICK i \in Entries :
             /\ IsLong(i) /\ edge[2] = EndOf(i)
             /\ \/ WaitsFor(i, edge[1])
                \/ ~startEventQueue[i].terminated /\ edge[1] \in PlanSteps
      BY <1>1, <2>2 DEF StageInv, OrderingsAreEnforced, IntoRunningEnd
    <3>2. WaitsFor(i, edge[1])' \/ (~startEventQueue[i].terminated /\ edge[1] \in PlanSteps)
      BY <1>6, <3>1
    <3> QED BY <1>2, <3>1, <3>2 DEF IntoRunningEnd
  <2> QED BY <2>1, <2>2
<1> QED BY <1>1, <1>3, <1>4, <1>5, <1>7 DEF StageInv

-----------------------------------------------------------------------------
(* Making a child.  The end that is applied is in the plan from now on, and*)
(* comes after all that was in the plan.                                   *)
KeepsWaiting(k) ==
    \A i \in Entries :
        /\ i \in Entries'
        /\ startEventQueue'[i].actID = startEventQueue[i].actID
        /\ startEventQueue'[i].stepID = startEventQueue[i].stepID
        /\ startEventQueue'[i].endComesAfter = startEventQueue[i].endComesAfter
        /\ startEventQueue'[i].terminated => startEventQueue[i].terminated \/ EndOf(i) = k

LEMMA ApplyingKeepsEnforced ==
    ASSUME TrackInv, OrderingsAreEnforced,
           NEW k, NEW pre, NEW dels, NEW adds, NEW more, NEW recs,
           Applies(k, pre, dels, adds, more, recs), KeepsWaiting(k)
    PROVE  OrderingsAreEnforced'
<1>n. PICK n : n = Len(applied)
  OBVIOUS
<1>1. /\ n \in Nat /\ DOMAIN applied = 1..n /\ DOMAIN applied' = 1..n + 1
      /\ applied'[n + 1] = k
      /\ \A i \in DOMAIN applied : /\ applied[i] \in StepIDs
                                   /\ applied'[i] = applied[i]
                                   /\ steps'[applied[i] + 1] = steps[applied[i] + 1]
  BY <1>n, Appending DEF TrackInv
<1>2. /\ \A edge \in stepsBefore : Follows(edge) => Follows(edge)'
      /\ \A edge \in stepsBefore' : edge \in stepsBefore \/ Follows(edge)'
  BY AppliesKeepsFollowing
<1>3. \A i \in DOMAIN applied : /\ i \in DOMAIN applied' /\ i \in 1..(n + 1) - 1
                                /\ SkippedStart(applied[i])' <=> SkippedStart(applied[i])
  BY <1>1 DEF SkippedStart, StepOf
<1>4. \A e \in PlanSteps : e \in PlanSteps' /\ EarlierThan(e, n + 1)'
  <2> SUFFICES ASSUME NEW e \in PlanSteps
               PROVE  e \in PlanSteps' /\ EarlierThan(e, n + 1)'
    OBVIOUS
  <2>1. PICK i \in DOMAIN applied :
           e = applied[i] \/ (SkippedStart(applied[i]) /\ e = PendingEnd(applied[i]))
    BY DEF PlanSteps
  <2>2. /\ i \in DOMAIN applied' /\ i \in 1..(n + 1) - 1
        /\ \/ e = applied'[i]
           \/ SkippedStart(applied[i])' /\ e = PendingEnd(applied'[i])
    BY <1>1, <1>3, <2>1
  <2>3. EarlierThan(e, n + 1)'
    BY <1>1, <1>3, <2>2 DEF EarlierThan, PendingEnd
  <2>4. e \in PlanSteps'
    BY <1>1, <1>3, <2>2 DEF PlanSteps, PendingEnd
  <2> QED BY <2>3, <2>4
<1>5. n + 1 \in DOMAIN applied'
  BY <1>1
<1> SUFFICES ASSUME NEW edge \in stepsBefore, ~Follows(edge)
             PROVE  Follows(edge)' \/ IntoRunningEnd(edge)'
  BY <1>2 DEF OrderingsAreEnforced
<1>6. PICK i \in Entries :
         /\ IsLong(i) /\ edge[2] = EndOf(i)
         /\ \/ WaitsFor(i, edge[1])
            \/ ~startEventQueue[i].terminated /\ edge[1] \in PlanSteps
  BY DEF OrderingsAreEnforced, IntoRunningEnd
<1>7. /\ i \in Entries' /\ IsLong(i)' /\ edge[2] = EndOf(i)'
      /\ WaitsFor(i, edge[1]) => WaitsFor(i, edge[1])'
      /\ startEventQueue'[i].terminated => startEventQueue[i].terminated \/ EndOf(i) = k
  BY <1>6 DEF KeepsWaiting, IsLong, EndOf, WaitsFor, PendingEnd
<1>8. CASE WaitsFor(i, edge[1])
  BY <1>7, <1>8 DEF IntoRunningEnd
<1>9. CASE edge[1] \in PlanSteps /\ ~startEventQueue'[i].terminated
  BY <1>4, <1>7, <1>9 DEF IntoRunningEnd
<1>10. CASE edge[1] \in PlanSteps /\ EndOf(i) = k
  <2>1. edge[2] = applied'[n + 1] /\ EarlierThan(edge[1], n + 1)'
    BY <1>1, <1>4, <1>6, <1>10
  <2> QED BY <1>5, <2>1 DEF Follows
<1> QED BY <1>6, <1>7, <1>8, <1>9, <1>10

(* What holds of the new child, however it was made.                       *)
LEMMA ChildStage ==
    ASSUME NodesInv, HistoryInv, pending = Evaluated, ~executing',
           stage' = "child", UNCHANGED timeStamp,
           NEW k, NEW pre, NEW dels, NEW adds, NEW more, NEW recs,
           Applies(k, pre, dels, adds, more, recs), KeepsWaiting(k),
           \A i \in Entries' : i \in Entries \/ startEventQueue'[i].endComesAfter = {},
           pending'.timeSpec = "AT" => pending'.ref \in DOMAIN TILs,
           PendingIsRecent', NewEntryWaitsForNothing'
    PROVE  StageInv'
<1>1. OrderingsAreEnforced'
  BY ApplyingKeepsEnforced DEF NodesInv, StageInv, HistoryInv
<1>2. EntriesWaitForSteps'
  <2>1. StepIDs \subseteq StepIDs'
    BY ApplyingKeepsSteps DEF HistoryInv, TrackInv
  <2>2. EntriesWaitForSteps
    BY DEF NodesInv, StageInv
  <2>3. ASSUME NEW i \in Entries', NEW s \in startEventQueue'[i].endComesAfter
        PROVE  s + 1 \in StepIDs'
    <3>1. i \in Entries /\ s \in startEventQueue[i].endComesAfter
      BY <2>3 DEF KeepsWaiting
    <3> QED BY <2>1, <2>2, <3>1 DEF EntriesWaitForSteps, PendingEnd
  <2> QED BY <2>3 DEF EntriesWaitForSteps, PendingEnd
<1>3. TestedEndsWaitForNothing'
  BY DEF TestedEndsWaitForNothing
<1>4. timeStamp' \in Int
  BY DEF NodesInv, StageInv
<1> QED BY <1>1, <1>2, <1>3, <1>4 DEF StageInv

LEMMA SingleChildStage ==
    ASSUME NodesInv, HistoryInv, ~executing', stage' = "child", UNCHANGED timeStamp,
           ChildOfTIL \/ \E a \in Actions : ChildOfInstant(a)
    PROVE  StageInv'
<1>1. pending = Evaluated /\ UNCHANGED startEventQueue
  BY DEF ChildOfTIL, ChildOfInstant, Child
<1>2. \A k : KeepsWaiting(k)
  BY <1>1 DEF KeepsWaiting, Entries
<1>3. \A i \in Entries' : i \in Entries
  BY <1>1 DEF Entries
<1>4. /\ pending'.timeSpec # "AT_END"
      /\ pending'.timeSpec = "AT_START" => pending'.ref \notin Durative
      /\ pending'.timeSpec = "AT" => pending'.ref \in DOMAIN TILs
  <2>1. CASE ChildOfTIL
    <3>1. nextTIL + 1 \in DOMAIN TILs
      BY <2>1, LenProperties, DomainAssumption
         DEF NodesInv, PlanInv, QueueInv, TypeInv, TypeOK, ApplyTIL, ChildOfTIL
    <3> QED BY <2>1, <3>1 DEF ChildOfTIL
  <2>2. CASE \E a \in Actions : ChildOfInstant(a)
    BY <2>2 DEF ChildOfInstant, ApplyInstant
  <2> QED BY <2>1, <2>2
<1>5. PendingIsRecent' /\ NewEntryWaitsForNothing'
  BY <1>4 DEF PendingIsRecent, NewEntryWaitsForNothing, EndPending
<1>6. \E k, pre, dels, adds, more, recs : Applies(k, pre, dels, adds, more, recs)
  <2>1. TypeInv
    BY DEF HistoryInv, TrackInv
  <2> QED BY <2>1, TILApplies, InstantApplies DEF ChildOfTIL, ChildOfInstant
<1> QED BY <1>1, <1>2, <1>3, <1>4, <1>5, <1>6, ChildStage

LEMMA StartChildStage ==
    ASSUME NodesInv, HistoryInv, ~executing', stage' = "child", UNCHANGED timeStamp,
           NEW a \in Actions, ChildOfStart(a)
    PROVE  StageInv'
<1>n. PICK n : n = Len(startEventQueue)
  OBVIOUS
<1>p. PICK p : p = planLength
  OBVIOUS
<1>e. PICK entry : entry = StartEvent(a, p)
  OBVIOUS
<1>1. /\ StartAction(a) \/ StartSkippable(a)
      /\ pending = Evaluated
      /\ startEventQueue' = Append(startEventQueue, StartEvent(a, planLength' - 2))
      /\ pending' = [timeSpec |-> "AT_START", ref |-> a]
  BY DEF ChildOfStart, Child
<1>2. TypeInv /\ NodeTypes
  BY DEF NodesInv, PlanInv, QueueInv
<1>3. a \in Durative
  BY <1>1, DomainAssumption DEF StartAction, StartSkippable, CanSkipToEnd
<1>4. Applies(p, ProcessedStartPre(a), Op[a].startDel, Op[a].startAdd,
              {<<p, p + 1>>}, StartRecords(a))
  BY <1>1, <1>2, <1>p, StartApplies
<1>5. /\ p \in Nat /\ planLength' = p + 2 /\ mostRecentStep' = p
      /\ steps'[p + 1] = [spec |-> "START", act |-> a]
  <2>1. steps'[p + 1] = [spec |-> "START", act |-> a]
    BY <1>2, <1>4, <1>p, StartRecordsEnd
  <2>2. planLength' = planLength + Len(StartRecords(a)) /\ mostRecentStep' = p
    BY <1>4, <1>p DEF Applies, Order
  <2> QED BY <1>2, <2>1, <2>2, <1>p DEF TypeInv, TypeOK, StartRecords
<1>6. entry \in EventRecords /\ entry.endComesAfter = {}
  BY <1>3, <1>5, <1>e, DurationAssumption DEF StartEvent, EventRecords
<1>7. startEventQueue' = Append(startEventQueue, entry)
  <2>1. planLength' - 2 = p
    BY <1>5
  <2> QED BY <1>1, <1>e, <2>1
<1>8. n \in Nat /\ Entries = 1..n /\ startEventQueue \in Seq(EventRecords)
  BY <1>2, <1>n, QueueShape DEF NodeTypes
<1> HIDE DEF EventRecords
<1>9. /\ startEventQueue' \in Seq(EventRecords)
      /\ Len(startEventQueue') = n + 1
      /\ \A i \in 1..n : startEventQueue'[i] = startEventQueue[i]
      /\ startEventQueue'[n + 1] = entry
  BY <1>6, <1>7, <1>8, <1>n, AppendProperties
<1>10. Entries' = 1..n + 1
  BY <1>9, LenProperties DEF Entries
<1>11. /\ \A i \in Entries : i \in Entries' /\ startEventQueue'[i] = startEventQueue[i]
       /\ \A i \in Entries' : i \in Entries \/ i = n + 1
  BY <1>8, <1>9, <1>10
<1>12. KeepsWaiting(p)
  BY <1>11 DEF KeepsWaiting
<1>13. PendingIsRecent'
  <2>1. planLength' - 2 = p
    BY <1>5
  <2>2. \A i \in Entries' : ~EndPending(i)'
    BY <1>1 DEF EndPending
  <2> QED BY <1>1, <1>5, <2>1, <2>2 DEF PendingIsRecent, StepOf
<1>14. NewEntryWaitsForNothing'
  BY <1>6, <1>9 DEF NewEntryWaitsForNothing
<1>15. \A i \in Entries' : i \in Entries \/ startEventQueue'[i].endComesAfter = {}
  BY <1>6, <1>9, <1>11
<1>16. pending'.timeSpec # "AT"
  BY <1>1
<1> QED BY <1>1, <1>4, <1>12, <1>13, <1>14, <1>15, <1>16, ChildStage

LEMMA EndChildStage ==
    ASSUME NodesInv, HistoryInv, ~executing', stage' = "child", UNCHANGED timeStamp,
           NEW a \in Actions, ChildOfEnd(a)
    PROVE  StageInv'
<1>n. PICK n : n = FrontEntry(a)
  OBVIOUS
<1>e. PICK e : e = Earliest(startedActions[a])
  OBVIOUS
<1>1. /\ EndAction(a) /\ pending = Evaluated
      /\ startEventQueue' = [startEventQueue EXCEPT ![n].terminated = TRUE]
      /\ pending' = [timeSpec |-> "AT_END", ref |-> a]
  BY <1>n DEF ChildOfEnd, Child
<1>2. TypeInv /\ NodeTypes /\ QueueInv
  BY DEF NodesInv, PlanInv, QueueInv
<1>3. startedActions[a] # {}
  BY <1>1 DEF EndAction, EndApplicable
<1>4. /\ n \in Entries /\ EndOf(n) = e /\ startEventQueue[n].actID = a
      /\ \A j \in Entries : startEventQueue[j].actID = a => n <= j
  BY <1>1, <1>2, <1>3, <1>n, <1>e, EvaluatedMatches
<1>5. Applies(e, Op[a].endPre, Op[a].endDel, Op[a].endAdd, {}, <<>>)
  BY <1>1, <1>2, <1>e, EndApplies
<1>6. /\ startEventQueue \in Seq(EventRecords) /\ Entries = 1..Len(startEventQueue)
      /\ \A i \in Entries : startEventQueue[i] \in EventRecords /\ i \in Nat
      /\ \A i \in Entries : Runs(i)
  BY <1>1, <1>2, QueueShape, EvaluatedRuns DEF NodeTypes
<1>r. PICK r : r = [startEventQueue[n] EXCEPT !.terminated = TRUE]
  OBVIOUS
<1>7. /\ r \in EventRecords /\ r.actID = startEventQueue[n].actID
      /\ r.stepID = startEventQueue[n].stepID
      /\ r.endComesAfter = startEventQueue[n].endComesAfter
  BY <1>4, <1>6, <1>r DEF EventRecords
<1>8. startEventQueue' = [startEventQueue EXCEPT ![n] = r]
  BY <1>1, <1>r
<1> HIDE DEF EventRecords
<1>9. /\ startEventQueue' \in Seq(EventRecords) /\ Len(startEventQueue') = Len(startEventQueue)
      /\ \A i \in Entries : startEventQueue'[i] = IF i = n THEN r ELSE startEventQueue[i]
  BY <1>4, <1>6, <1>7, <1>8, ExceptSeq
<1>10. Entries' = Entries
  BY <1>6, <1>9, LenProperties DEF Entries
<1>11. KeepsWaiting(e)
  <2> SUFFICES ASSUME NEW i \in Entries
               PROVE  /\ startEventQueue'[i].actID = startEventQueue[i].actID
                      /\ startEventQueue'[i].stepID = startEventQueue[i].stepID
                      /\ startEventQueue'[i].endComesAfter = startEventQueue[i].endComesAfter
                      /\ startEventQueue'[i].terminated =>
                            startEventQueue[i].terminated \/ EndOf(i) = e
    BY <1>10 DEF KeepsWaiting
  <2> QED BY <1>4, <1>7, <1>9
<1>12. PendingIsRecent'
  <2>1. mostRecentStep' = e
    BY <1>5 DEF Applies, Order
  <2>2. ASSUME NEW i \in Entries', EndPending(i)' PROVE e = EndOf(i)'
    <3>1. \A j \in Entries : startEventQueue'[j].actID = startEventQueue[j].actID
                             /\ startEventQueue'[j].stepID = startEventQueue[j].stepID
      BY <1>11 DEF KeepsWaiting
    <3>2. i \in Entries /\ i <= n /\ startEventQueue[i].actID = a
      BY <1>1, <1>4, <1>10, <2>2, <3>1 DEF EndPending
    <3>3. i = n
      BY <1>4, <1>6, <3>2
    <3> QED BY <1>4, <3>1, <3>3 DEF EndOf
  <2> QED BY <1>1, <2>1, <2>2 DEF PendingIsRecent
<1>13. NewEntryWaitsForNothing' /\ pending'.timeSpec # "AT"
  BY <1>1 DEF NewEntryWaitsForNothing
<1> QED BY <1>1, <1>5, <1>10, <1>11, <1>12, <1>13, ChildStage

-----------------------------------------------------------------------------
(* Evaluating a child.  The entry that is removed is compression safe, or  *)
(* has ended and waits for nothing: no ordering was left to it.            *)
LEMMA EvaluatedStage ==
    ASSUME NodesInv, ~executing', UNCHANGED <<vars, timeStamp>>, pending' = Evaluated,
           stage' # "child", stage' # "sound",
           \A i \in Entries' : \E j \in Entries : startEventQueue'[i] = startEventQueue[j],
           \A j \in Entries :
              \/ \E i \in Entries' : startEventQueue'[i] = startEventQueue[j]
              \/ ~IsLong(j)
              \/ startEventQueue[j].terminated /\ startEventQueue[j].endComesAfter = {}
    PROVE  StageInv'
<1>1. StageInv
  BY DEF NodesInv
<1>2. pending'.timeSpec = "NONE"
  BY DEF Evaluated
<1>3. /\ StepIDs' = StepIDs /\ PlanSteps' = PlanSteps /\ stepsBefore' = stepsBefore
      /\ \A edge : Follows(edge)' <=> Follows(edge)
  BY DEF vars, stateVars, StepIDs, PlanSteps, SkippedStart, PendingEnd, StepOf,
         Follows, EarlierThan
<1>4. PendingIsRecent' /\ NewEntryWaitsForNothing' /\ TestedEndsWaitForNothing'
  BY <1>2 DEF PendingIsRecent, NewEntryWaitsForNothing, TestedEndsWaitForNothing, EndPending
<1>5. EntriesWaitForSteps'
  BY <1>1, <1>3 DEF StageInv, EntriesWaitForSteps, PendingEnd
<1>6. OrderingsAreEnforced'
  <2> SUFFICES ASSUME NEW edge \in stepsBefore, ~Follows(edge)
               PROVE  IntoRunningEnd(edge)'
    BY <1>3 DEF OrderingsAreEnforced
  <2>1. PICK j \in Entries :
           /\ IsLong(j) /\ edge[2] = EndOf(j)
           /\ \/ WaitsFor(j, edge[1])
              \/ ~startEventQueue[j].terminated /\ edge[1] \in PlanSteps
    BY <1>1 DEF StageInv, OrderingsAreEnforced, IntoRunningEnd
  <2>2. PICK i \in Entries' : startEventQueue'[i] = startEventQueue[j]
    BY <2>1 DEF WaitsFor
  <2>3. /\ IsLong(i)' /\ edge[2] = EndOf(i)'
        /\ WaitsFor(j, edge[1]) => WaitsFor(i, edge[1])'
    BY <2>1, <2>2 DEF IsLong, EndOf, WaitsFor, PendingEnd
  <2> QED BY <1>3, <2>1, <2>2, <2>3 DEF IntoRunningEnd
<1>7. timeStamp' \in Int
  BY <1>1 DEF StageInv
<1> QED BY <1>2, <1>4, <1>5, <1>6, <1>7 DEF StageInv

LEMMA EvaluateStage ==
    ASSUME NodesInv, ~executing', EvaluateChild
    PROVE  StageInv'
<1>1. /\ stage = "sound" /\ stage' # "child" /\ stage' # "sound" /\ UNCHANGED timeStamp
  BY DEF EvaluateChild, ScheduleChild
<1>2. UNCHANGED vars /\ pending' = Evaluated
  BY DEF EvaluateChild, EvaluateTIL, EvaluateInstant, EvaluateStart, EvaluateEnd, Evaluate
<1>3. /\ QueueInv /\ NodeTypes /\ NewSteps /\ StageInv
      /\ startEventQueue \in Seq(EventRecords)
  BY DEF NodesInv, PlanInv, QueueInv, NodeTypes
<1>4. CASE UNCHANGED startEventQueue
  <2>1. Entries' = Entries
    BY <1>4 DEF Entries
  <2> QED BY <1>1, <1>2, <1>4, <2>1, EvaluatedStage
<1>n. PICK l : l = Len(startEventQueue)
  OBVIOUS
<1>5. l \in Nat /\ Entries = 1..l
  BY <1>3, <1>n, QueueShape
<1>6. CASE EvaluateStart /\ CanSkipToEnd(pending.ref)
  <2>1. /\ l \in Entries /\ startEventQueue[l].actID = pending.ref
        /\ startEventQueue' = Front(startEventQueue)
    BY <1>3, <1>6, <1>n, StartReadsItsOwnEntry DEF EvaluateStart
  <2>2. ~IsLong(l) /\ startEventQueue # <<>>
    BY <1>5, <1>6, <1>n, <2>1 DEF IsLong
  <2>3. /\ startEventQueue' \in Seq(EventRecords) /\ Len(startEventQueue') = l - 1
        /\ \A j \in 1..l - 1 : startEventQueue'[j] = startEventQueue[j]
    <3> HIDE DEF EventRecords
    <3> QED BY <1>3, <1>n, <2>1, <2>2, FrontProperties
  <2>4. Entries' = 1..l - 1
    <3> HIDE DEF EventRecords
    <3> QED BY <2>3, LenProperties DEF Entries
  <2>5. /\ \A i \in Entries' : i \in Entries
        /\ \A j \in Entries : j \in Entries' \/ j = l
    BY <1>5, <2>4
  <2>6. \A i \in Entries' : \E j \in Entries : startEventQueue'[i] = startEventQueue[j]
    BY <2>3, <2>4, <2>5
  <2>7. \A j \in Entries : \/ \E i \in Entries' : startEventQueue'[i] = startEventQueue[j]
                           \/ ~IsLong(j)
    BY <2>2, <2>3, <2>4, <2>5
  <2> QED BY <1>1, <1>2, <2>6, <2>7, EvaluatedStage
<1>7. CASE EvaluateEnd
  <2>f. PICK f : f = FrontEntry(pending.ref)
    OBVIOUS
  <2>1. pending.timeSpec = "AT_END" /\ startEventQueue' = RemoveAt(startEventQueue, f)
    BY <1>7, <2>f DEF EvaluateEnd
  <2>2. f \in Entries /\ EndPending(f)
    BY <1>3, <2>1, <2>f, EndedEntryIsOldest
  <2>3. startEventQueue[f].terminated /\ startEventQueue[f].endComesAfter = {}
    BY <1>1, <1>3, <2>2 DEF QueueInv, OthersArePending, StageInv, TestedEndsWaitForNothing
  <2>4. /\ startEventQueue' \in Seq(EventRecords) /\ Len(startEventQueue') = l - 1
        /\ \A j \in 1..l - 1 : startEventQueue'[j] = IF j < f THEN startEventQueue[j]
                                                     ELSE startEventQueue[j + 1]
    <3> HIDE DEF EventRecords
    <3> QED BY <1>3, <1>5, <1>n, <2>1, <2>2, RemoveAtProperties
  <2>5. Entries' = 1..l - 1 /\ f \in 1..l
    <3> HIDE DEF EventRecords
    <3> QED BY <1>5, <2>2, <2>4, LenProperties DEF Entries
  <2>6. \A i \in Entries' : \E j \in Entries : startEventQueue'[i] = startEventQueue[j]
    <3>1. \A i \in 1..l - 1 : i \in 1..l /\ i + 1 \in 1..l
      BY <1>5
    <3> QED BY <1>5, <2>4, <2>5, <3>1
  <2>7. \A j \in Entries : \/ \E i \in Entries' : startEventQueue'[i] = startEventQueue[j]
                           \/ j = f
    <3> SUFFICES ASSUME NEW j \in Entries, j # f
                 PROVE  \E i \in Entries' : startEventQueue'[i] = startEventQueue[j]
      OBVIOUS
    <3>1. CASE j < f
      <4>1. j \in 1..l - 1
        BY <1>5, <2>5, <3>1
      <4> QED BY <2>4, <2>5, <3>1, <4>1
    <3>2. CASE f < j
      <4>1. j - 1 \in 1..l - 1 /\ ~(j - 1 < f) /\ (j - 1) + 1 = j
        BY <1>5, <2>5, <3>2
      <4>2. startEventQueue'[j - 1] = startEventQueue[j]
        BY <2>4, <4>1
      <4> QED BY <2>5, <4>1, <4>2
    <3> QED BY <1>5, <2>5, <3>1, <3>2
  <2>8. \A j \in Entries :
           \/ \E i \in Entries' : startEventQueue'[i] = startEventQueue[j]
           \/ ~IsLong(j)
           \/ startEventQueue[j].terminated /\ startEventQueue[j].endComesAfter = {}
    BY <2>3, <2>7
  <2> QED BY <1>1, <1>2, <2>6, <2>8, EvaluatedStage
<1> QED BY <1>4, <1>6, <1>7
        DEF EvaluateChild, EvaluateTIL, EvaluateInstant, EvaluateStart

-----------------------------------------------------------------------------
(* All that a node goes through.                                           *)
LEMMA StutterKeepsStage ==
    ASSUME StageInv, UNCHANGED <<vars, nodeVars, soundnessVars>>, executing' => stage = "open"
    PROVE  StageInv'
<1>1. /\ UNCHANGED <<startEventQueue, pending, stage, timeStamp, mostRecentStep, planLength,
                     steps, applied, stepsBefore>>
  BY DEF vars, stateVars, nodeVars, soundnessVars
<1>2. /\ StepIDs' = StepIDs /\ PlanSteps' = PlanSteps /\ Entries' = Entries
      /\ \A edge : Follows(edge)' <=> Follows(edge)
      /\ \A k : StepOf(k)' = StepOf(k)
      /\ \A i : EndOf(i)' = EndOf(i) /\ (IsLong(i)' <=> IsLong(i))
  BY <1>1 DEF StepIDs, PlanSteps, Entries, SkippedStart, PendingEnd, StepOf,
              Follows, EarlierThan, EndOf, IsLong
<1>3. \A i : EndPending(i)' <=> EndPending(i)
  BY <1>1, <1>2 DEF EndPending
<1>4. PendingIsRecent'
  <2>1. StepOf(mostRecentStep)' = StepOf(mostRecentStep)
    BY <1>1 DEF StepOf
  <2> QED BY <1>1, <1>2, <1>3, <2>1 DEF StageInv, PendingIsRecent
<1>5. NewEntryWaitsForNothing' /\ EntriesWaitForSteps' /\ TestedEndsWaitForNothing'
  BY <1>1, <1>2, <1>3 DEF StageInv, NewEntryWaitsForNothing, EntriesWaitForSteps,
                          TestedEndsWaitForNothing, PendingEnd
<1>6. \A edge : IntoRunningEnd(edge)' <=> IntoRunningEnd(edge)
  BY <1>1, <1>2 DEF IntoRunningEnd, WaitsFor, PendingEnd
<1>7. OrderingsAreEnforced'
  BY <1>1, <1>2, <1>6 DEF StageInv, OrderingsAreEnforced
<1> QED BY <1>1, <1>4, <1>5, <1>7 DEF StageInv

LEMMA InitNodes == ScheduledInit => NodesInv /\ ExecInit
<1> SUFFICES ASSUME ScheduledInit PROVE NodesInv /\ ExecInit
  OBVIOUS
<1>1. /\ NodeInit /\ SoundnessInit /\ executing = FALSE /\ done = {} /\ world = InitFacts
  BY DEF ScheduledInit, SchedulingInit
<1>2. PlanInv /\ ExecInit
  BY <1>1, InitPlan DEF NodeInit, ExecInit
<1>3. /\ startEventQueue = <<>> /\ stepsBefore = {} /\ pending = Evaluated
      /\ pending.timeSpec = "NONE" /\ stage = "open" /\ timeStamp = 0
  BY <1>1 DEF NodeInit, SoundnessInit, Init, Evaluated
<1>4. Entries = {}
  BY <1>3 DEF Entries
<1>5. StageInv
  BY <1>1, <1>3, <1>4 DEF StageInv, PendingIsRecent, NewEntryWaitsForNothing,
     EntriesWaitForSteps, TestedEndsWaitForNothing, OrderingsAreEnforced
<1> QED BY <1>2, <1>5 DEF NodesInv

LEMMA MakingKeepsNodes ==
    ASSUME NodesInv, HistoryInv, ~executing', MakeChild
    PROVE  NodesInv'
<1>1. /\ stage' = "child" /\ UNCHANGED timeStamp
      /\ \/ ChildOfTIL
         \/ \E a \in Actions : ChildOfInstant(a) \/ ChildOfStart(a) \/ ChildOfEnd(a)
  BY DEF MakeChild
<1>2. PlanInv'
  BY <1>1, ChildKeepsPlan DEF NodesInv
<1>3. StageInv'
  BY <1>1, SingleChildStage, StartChildStage, EndChildStage
<1> QED BY <1>2, <1>3 DEF NodesInv

LEMMA EvaluatingKeepsNodes ==
    ASSUME NodesInv, ~executing', EvaluateChild
    PROVE  NodesInv'
<1>1. PlanInv'
  BY SingleKeepsPlan, StartKeepsPlan, EndKeepsPlan DEF NodesInv, EvaluateChild
<1> QED BY <1>1, EvaluateStage DEF NodesInv

LEMMA NextNodes ==
    ASSUME NodesInv, HistoryInv, [ScheduledNext]_<<allSchedulingVars, execVars>>
    PROVE  NodesInv'
<1>1. PlanInv /\ StageInv
  BY DEF NodesInv
<1>2. CASE SearchOn
  <2>1. ~executing' /\ (MakeChild \/ CheckChild \/ EvaluateChild)
    BY <1>2 DEF SearchOn, SchedulingNext, execVars
  <2>2. CASE CheckChild
    <3>1. CheckTemporalSoundness
      BY <2>2 DEF CheckChild
    <3>2. PICK queue, now, more : Retimed(queue, now, more)
      BY <3>1, TestRetimes
    <3>3. PlanInv' /\ StageInv'
      BY <1>1, <2>1, <3>2, RetimedKeepsPlan, RetimedKeepsStage
    <3> QED BY <3>3 DEF NodesInv
  <2> QED BY <2>1, <2>2, MakingKeepsNodes, EvaluatingKeepsNodes
<1>3. CASE HandOverOpenNode \/ (executing /\ ExecuteStep)
           \/ UNCHANGED <<allSchedulingVars, execVars>>
  <2>1. UNCHANGED <<vars, nodeVars, soundnessVars>> /\ (executing' => stage = "open")
    BY <1>1, <1>3 DEF HandOverOpenNode, HandOver, ExecuteStep, Execute, StageInv,
                      allSchedulingVars, execVars
  <2> QED BY <1>1, <2>1, StutterKeepsPlan, StutterKeepsStage DEF NodesInv
<1> QED BY <1>2, <1>3 DEF ScheduledNext

(* To the execution model it is a step of its own, or adds orderings.      *)
LEMMA ScheduledMoves ==
    ASSUME NodesInv, HistoryInv, [ScheduledNext]_<<allSchedulingVars, execVars>>
    PROVE  \/ [ExecNext]_<<vars, execVars>>
           \/ ~executing /\ UNCHANGED execVars /\ \E more : AddsOrderings(more)
<1>1. CASE SearchOn /\ MakeChild
  <2>1. Next
    BY <1>1 DEF MakeChild, ChildOfTIL, ChildOfInstant, ChildOfStart, ChildOfEnd, Next
  <2> QED BY <1>1, <2>1 DEF SearchOn, Search, ExecNext
<1>2. CASE SearchOn /\ CheckChild
  <2>1. \E queue, now, more : Retimed(queue, now, more)
    BY <1>2, TestRetimes DEF CheckChild
  <2> QED BY <1>2, <2>1 DEF SearchOn, Retimed
<1>3. CASE SearchOn /\ EvaluateChild
  <2>1. UNCHANGED vars
    BY <1>3 DEF EvaluateChild, EvaluateTIL, EvaluateInstant, EvaluateStart, EvaluateEnd,
                Evaluate
  <2> QED BY <1>3, <2>1 DEF SearchOn
<1>4. CASE HandOverOpenNode
  BY <1>4 DEF HandOverOpenNode, ExecNext
<1>5. CASE executing /\ ExecuteStep
  BY <1>5 DEF ExecuteStep, ExecNext
<1>6. CASE UNCHANGED <<allSchedulingVars, execVars>>
  BY <1>6 DEF allSchedulingVars
<1> QED BY <1>1, <1>2, <1>3, <1>4, <1>5, <1>6 DEF ScheduledNext, SearchOn, SchedulingNext

ScheduledInv == NodesInv /\ RunInv

LEMMA InitScheduled == ScheduledInit => ScheduledInv /\ ExecInv
BY InitNodes, InitRun, InitExec DEF ScheduledInv

LEMMA NextScheduled ==
    ScheduledInv /\ [ScheduledNext]_<<allSchedulingVars, execVars>> => ScheduledInv'
<1> SUFFICES ASSUME ScheduledInv, [ScheduledNext]_<<allSchedulingVars, execVars>>
             PROVE  ScheduledInv'
  OBVIOUS
<1>1. NodesInv /\ RunInv /\ HistoryInv
  BY DEF ScheduledInv, RunInv
<1>2. NodesInv'
  BY <1>1, NextNodes
<1>3. RunInv'
  BY <1>1, ScheduledMoves, NextRun, OrderingsKeepRuns
<1> QED BY <1>2, <1>3 DEF ScheduledInv

LEMMA NextScheduledRun ==
    ASSUME StartsKeepInvariants, NegativesIgnoreEarlyDeletes, EndNegativesStayFalse
    PROVE  ScheduledInv /\ ExecInv /\ [ScheduledNext]_<<allSchedulingVars, execVars>>
           => ExecInv'
<1> SUFFICES ASSUME ScheduledInv, ExecInv, [ScheduledNext]_<<allSchedulingVars, execVars>>
             PROVE  ExecInv'
  OBVIOUS
<1>1. NodesInv /\ RunInv /\ HistoryInv
  BY DEF ScheduledInv, RunInv
<1> QED BY <1>1, ScheduledMoves, NextExec, OrderingsKeepRuns

(* In an open node the ends that orderings lead into, other than from what *)
(* was applied before, are those of running actions: not part of the plan. *)
LEMMA OpenPlansFollow ==
    ASSUME NodesInv, HistoryInv, stage = "open"
    PROVE  PlanOrderingsFollow
<1>1. /\ QueueInv /\ pending = Evaluated /\ OrderingsAreEnforced
      /\ RunningEndsAwaitApplication
  BY DEF NodesInv, PlanInv, StageInv, HistoryInv
<1>2. /\ NodeTypes /\ \A i \in Entries : startEventQueue[i].actID \in Actions
  BY <1>1, QueueShape, DomainAssumption DEF QueueInv
<1>3. \A j \in DOMAIN applied : applied[j] \in Nat
  <2>1. applied \in Seq(StepIDs) /\ planLength \in Nat
    BY DEF HistoryInv, TrackInv, TypeInv, TypeOK
  <2>2. applied \in [1..Len(applied) -> StepIDs]
    BY <2>1, LenProperties
  <2>3. StepIDs \subseteq Nat
    BY <2>1 DEF StepIDs
  <2> QED BY <2>2, <2>3
<1>4. ASSUME NEW i \in Entries PROVE EndOf(i) \notin PlanSteps
  <2>1. EndOf(i) \in startedActions[startEventQueue[i].actID]
    BY <1>1, <1>2, EvaluatedMatches
  <2>2. \A j \in DOMAIN applied : applied[j] # EndOf(i)
    BY <1>1, <1>2, <2>1 DEF RunningEndsAwaitApplication
  <2>3. PICK m \in DOMAIN applied : IsLongStart(applied[m]) /\ EndOf(i) = PendingEnd(applied[m])
    BY <1>1, <1>2, <2>1 DEF RunningEndsAwaitApplication
  <2>4. ASSUME NEW j \in DOMAIN applied, SkippedStart(applied[j]), EndOf(i) = PendingEnd(applied[j])
        PROVE  FALSE
    <3>1. applied[m] \in Nat /\ applied[j] \in Nat
      BY <1>3
    <3>2. applied[m] = applied[j]
      BY <2>3, <2>4, <3>1 DEF PendingEnd
    <3> QED BY <2>3, <2>4, <3>2 DEF IsLongStart, SkippedStart
  <2> QED BY <2>2, <2>4 DEF PlanSteps
<1>5. \A edge : IntoRunningEnd(edge) => edge[2] \notin PlanSteps
  BY <1>4 DEF IntoRunningEnd
<1> QED BY <1>1, <1>5 DEF OrderingsAreEnforced, PlanOrderingsFollow

-----------------------------------------------------------------------------
(* The plan of an open node never leaves its executor without a step to    *)
(* run, although checkTemporalSoundness orders ends of running actions by  *)
(* durations and conditions, against the order in which they started: no   *)
(* such ordering into an end is left over when the end is applied.         *)
THEOREM ScheduledPlansGoOn == ScheduledSpec => []NeverStuck
<1>1. ScheduledInv => NeverStuck
  <2> SUFFICES ASSUME ScheduledInv, executing PROVE NeverStuck
    BY DEF NeverStuck
  <2>1. NodesInv /\ RunInv /\ HistoryInv /\ stage = "open"
    BY DEF ScheduledInv, NodesInv, StageInv, RunInv
  <2> QED BY <2>1, OpenPlansFollow, OrderedPlansGoOn
<1> QED BY InitScheduled, NextScheduled, <1>1, PTL DEF ScheduledSpec

(* Whatever step of the plan of an open node is run next has its           *)
(* conditions: the orderings added by the test rule out orders, and allow  *)
(* no new one.                                                             *)
THEOREM ScheduledPlansAreApplicable ==
    ASSUME StartsKeepInvariants, TokensAreSpentOnce, NegativesIgnoreEarlyDeletes,
           EndNegativesStayFalse
    PROVE  ScheduledSpec => []ReadyStepsAreApplicable
<1>1. ExecInv => ReadyStepsAreApplicable
  BY ReadyIsApplicable DEF ReadyStepsAreApplicable
<1> QED BY InitScheduled, NextScheduled, NextScheduledRun, <1>1, PTL DEF ScheduledSpec

(* No order in which the plan of an open node is run breaks an over-all    *)
(* condition of an action that is running.                                 *)
THEOREM ScheduledPlansKeepInvariants ==
    ASSUME StartsKeepInvariants, TokensAreSpentOnce, NegativesIgnoreEarlyDeletes,
           EndNegativesStayFalse
    PROVE  ScheduledSpec => []OverAllConditionsHold
<1>1. ExecInv => OverAllConditionsHold
  BY OverAllConditionsAreMet
<1> QED BY InitScheduled, NextScheduled, NextScheduledRun, <1>1, PTL DEF ScheduledSpec

(* All orders of the plan of an open node end in the facts of that node.   *)
THEOREM ScheduledPlansEndAlike ==
    ASSUME StartsKeepInvariants, NegativesIgnoreEarlyDeletes, EndNegativesStayFalse,
           EarlyDeletesStayDeleted
    PROVE  ScheduledSpec => []RunsEndInTheSearchState
BY InitScheduled, NextScheduled, NextScheduledRun, RunsEndAlike, PTL DEF ScheduledSpec

-----------------------------------------------------------------------------
(* The test keeps the start events in step with the state, although it     *)
(* writes every entry anew: what is planned, paired and still to be ended  *)
(* is right for the nodes of the real search as for untested ones.         *)
THEOREM ScheduledNodesMatch ==
    ScheduledSpec => [](QueueMatchesState /\ PlanMatchesState /\ PairsCarryTheirDuration)
<1>1. ScheduledInv => QueueMatchesState /\ PlanMatchesState /\ PairsCarryTheirDuration
  BY QueuesAgree, PlansAgree, PairsAgree DEF ScheduledInv, NodesInv
<1> QED BY InitScheduled, NextScheduled, <1>1, PTL DEF ScheduledSpec
=============================================================================
