--------------------------- MODULE NodeScheduling ---------------------------
(***************************************************************************)
(* A node of the search from child to open node: it is tested, its plan is *)
(* written, and the simple temporal problem of the plan is solved, by      *)
(* adding the child's edges to the network of its parent.  The options are *)
(* the default ones (temporal soundness tested, STP before LP), and there  *)
(* is nothing numeric that an LP would have to decide.  The bounds that    *)
(* TemporalAnalysis may derive for an action are 0 and infinity.           *)
(***************************************************************************)
EXTENDS TemporalSoundness, SimpleTemporalProblem

VARIABLES
    stamps,     \* the steps' lpMinTimestamp and lpMaxTimestamp
    edges,      \* temporaryEdges of the last ParentData, then ChildData
    missed      \* history: some edge was stored but never propagated

schedulingVars == <<stamps, edges, missed>>

NoTimes == [k \in {} |-> 0]
SchedulingInit ==
    /\ NodeInit /\ SoundnessInit
    /\ stamps = [min |-> NoTimes, max |-> NoTimes] /\ edges = {} /\ missed = FALSE

OwnPair(e) == StepOf(e[1]).spec = "START" /\ e[2] = PendingEnd(e[1])
RunningEntries == SelectSeq(startEventQueue, LAMBDA q : ~q.terminated)

(* LPScheduler::prime: what children know of the network of this node      *)
PrimedEdges ==
    {e \in stepsBefore : ~OwnPair(e)} \cup
    {<<mostRecentStep, EndStep(q)>> :
        q \in {r \in Running(startEventQueue) : mostRecentStep \notin {-1, r.stepID}}} \cup
    UNION {{<<PendingEnd(s), EndStep(q)>> : s \in q.endComesAfter} :
           q \in Running(startEventQueue)}

(* stateHasProgressedBeyondItsParent, for starts and instantaneous actions *)
HasProgressed(a) == first' \ first # {} \/ Op[a].endAdd # {}

MakeChild ==
    /\ stage = "open" /\ stage' = "child"
    /\ \/ ChildOfTIL
       \/ \E a \in Actions : \/ ChildOfInstant(a) /\ HasProgressed(a)
                             \/ ChildOfStart(a) /\ HasProgressed(a)
                             \/ ChildOfEnd(a)
    /\ edges' = PrimedEdges
    /\ UNCHANGED <<timeStamp, stepBeforeTIL, stamps, missed>>

CheckChild == CheckTemporalSoundness /\ UNCHANGED schedulingVars

-----------------------------------------------------------------------------
(* ParentData::spawnChildData                                              *)
StepsWithRecords == 0..Len(steps) - 1
Durations ==
    [s \in {k \in StepsWithRecords : StepOf(k).spec = "START"} |->
        [min |-> MinDuration[StepOf(s).act], max |-> MaxDuration[StepOf(s).act]]]

Network(earliest, latest, known) ==
    [consistent |-> TRUE, earliest |-> earliest, latest |-> latest,
     edges |-> known, durations |-> Durations]
Inconsistent == [consistent |-> FALSE]

Predecessors(k) == {e[1] : e \in {x \in stepsBefore : x[2] = k}}
Ascending(set) == SetToSortSeq(set, <)
OrderingEdge(b, a) == BFEdge(b, a, 1, NoLimit)
EdgesFrom(bs, k) == [i \in DOMAIN bs |-> OrderingEdge(bs[i], k)]
EdgesTo(k, qs) == [i \in DOMAIN qs |-> OrderingEdge(k, EndStep(qs[i]))]

(* The end of a running action is applied: its step is there already.      *)
SpawnEnd ==
    LET e == mostRecentStep
        openEnds == {EndStep(q) : q \in Running(startEventQueue)}
        newAfter == SelectSeq(RunningEntries, LAMBDA q : <<e, EndStep(q)>> \notin edges)
        newBefore == {b \in Predecessors(e) : <<b, e>> \notin edges} \ {e - 1}
    IN IF \E o \in openEnds : <<o, e>> \in edges THEN Inconsistent
       ELSE PropagateNewEdges(Network(stamps.min, stamps.max, edges),
                EdgesTo(e, newAfter) \o EdgesFrom(Ascending(newBefore), e))

(* The first step of a start or instantaneous action, and the second of a  *)
(* durative one, go where their predecessors allow.                        *)
EarliestAfter(preds) ==
    Max({0} \cup {(IF b \in DOMAIN stamps.min THEN stamps.min[b] ELSE 0) + 1 : b \in preds})
SpawnStart ==
    LET s == mostRecentStep
        a == pending.ref
        others == SelectSeq(RunningEntries, LAMBDA q : q.stepID # s)
        endMin == Max({EarliestAfter(Predecessors(s + 1)),
                       EarliestAfter(Predecessors(s)) + MinDuration[a]})
        startMin == Max({EarliestAfter(Predecessors(s)), endMin - MaxDuration[a]})
        afterEnd == SelectSeq(others, LAMBDA q : s + 1 \in Predecessors(EndStep(q)))
    IN PropagateNewEdges(
          Network(stamps.min @@ (s :> startMin) @@ (s + 1 :> endMin),
                  stamps.max @@ (s :> NoLimit) @@ (s + 1 :> NoLimit), edges),
          EdgesTo(s, others)
          \o EdgesFrom(Ascending(Predecessors(s)), s)
          \o EdgesFrom(Ascending(Predecessors(s + 1) \ {s}), s + 1)
          \o EdgesTo(s + 1, afterEnd))
SpawnInstant ==
    LET s == mostRecentStep
    IN PropagateNewEdges(
          Network(stamps.min @@ (s :> EarliestAfter(Predecessors(s))),
                  stamps.max @@ (s :> NoLimit), edges),
          EdgesTo(s, RunningEntries) \o EdgesFrom(Ascending(Predecessors(s)), s))

(* A timed literal is fixed: ends that are to come move behind it, steps   *)
(* that could come too late move before it.                                *)
SpawnTIL ==
    LET s == mostRecentStep
        at == TILs[pending.ref].at
        behind(q) == <<BFEdge(-1, EndStep(q), at + 1, stamps.max[EndStep(q)]),
                       OrderingEdge(s, EndStep(q))>>
        early == {b \in Predecessors(s) : stamps.max[b] <= at - 1}
        before(b) == <<BFEdge(-1, b, stamps.min[b], at - 1), OrderingEdge(b, s)>>
        preds == Ascending(Predecessors(s) \ early)
    IN IF \E b \in Predecessors(s) : stamps.min[b] > at - 1 THEN Inconsistent
       ELSE PropagateNewEdges(
              Network(stamps.min @@ (s :> at), stamps.max @@ (s :> at),
                      edges \cup {<<b, s>> : b \in early}),
              FlattenSeq([i \in DOMAIN RunningEntries |-> behind(RunningEntries[i])])
              \o FlattenSeq([i \in DOMAIN preds |-> before(preds[i])]))

(* The steps' times are copied back if the problem is solved, or else the  *)
(* node is a dead end.                                                     *)
ScheduleChild(child) ==
    /\ stage = "sound"
    /\ stage' = IF child.consistent THEN "open" ELSE "unschedulable"
    /\ stamps' = IF child.consistent THEN [min |-> child.earliest, max |-> child.latest]
                 ELSE stamps
    /\ edges' = IF child.consistent THEN child.edges ELSE edges
    /\ missed' = (missed \/ (child.consistent /\ \E e \in stepsBefore :
                                ~OwnPair(e) /\ e \notin child.edges))
    /\ UNCHANGED <<timeStamp, stepBeforeTIL>>

EvaluateChild ==
    \/ EvaluateTIL /\ ScheduleChild(SpawnTIL)
    \/ EvaluateInstant /\ ScheduleChild(SpawnInstant)
    \/ EvaluateStart /\ ScheduleChild(SpawnStart)
    \/ EvaluateEnd /\ ScheduleChild(SpawnEnd)

SchedulingNext == MakeChild \/ CheckChild \/ EvaluateChild
allSchedulingVars == <<vars, nodeVars, soundnessVars, schedulingVars>>
SchedulingSpec == SchedulingInit /\ [][SchedulingNext]_allSchedulingVars

-----------------------------------------------------------------------------
(* The network from scratch: all orderings, durations and timed literals,  *)
(* and the step applied last before all ends of running actions.  Each     *)
(* round passes the earliest times on along every edge.                    *)
Orderings ==
    stepsBefore \cup {<<mostRecentStep, EndStep(q)>> :
                         q \in {r \in Running(startEventQueue) : mostRecentStep # -1}}
NotBefore(times, k) ==
    Max({IF StepOf(k).spec = "TIL" THEN TILs[StepOf(k).til].at ELSE 0}
        \cup {times[e[1]] + 1 : e \in {x \in Orderings : x[2] = k}}
        \cup {times[s] + Durations[s].min : s \in {k - 1} \cap DOMAIN Durations}
        \cup {times[s + 1] - Durations[s].max : s \in {k} \cap DOMAIN Durations})
Late(times) == {k \in StepIDs : times[k] < NotBefore(times, k)}
Round(times) == [k \in Late(times) |-> NotBefore(times, k)] @@ times
EarliestTimes ==
    FoldLeft(LAMBDA times, i : Round(times), [k \in StepIDs |-> 0], steps)
Consistent ==
    LET times == EarliestTimes
    IN /\ Late(times) = {}
       /\ \A k \in StepIDs : StepOf(k).spec = "TIL" => times[k] = TILs[StepOf(k).til].at

(* checkTemporalSoundness discards no child that has a schedule: what it   *)
(* rejects is inconsistent, or has missed the next timed literal, or       *)
(* cannot end the action it starts before a literal that takes its         *)
(* conditions.  It reckons with times of its own, not those of the STP.    *)
SoundnessCheckIsSafe ==
    stage = "unsound" =>
        \/ ~Consistent
        \/ /\ nextTIL < Len(TILs)
           /\ EarliestTimes[mostRecentStep] >= TILs[nextTIL + 1].at
        \/ /\ pending.timeSpec = "AT_START" /\ pending.ref \in Durative
           /\ DoomedByTIL(pending.ref, EarliestTimes[mostRecentStep + 1])

(* The incremental propagation calls a node a dead end just when its       *)
(* orderings, durations and literals have no schedule.                     *)
VerdictIsExact ==
    ~missed => /\ stage = "open" => Consistent
               /\ stage = "unschedulable" => ~Consistent

(* The earliest times it gives are the earliest there are (the assertion   *)
(* that paranoid scheduling compares with Floyd's algorithm).              *)
StampsAreExact ==
    (stage = "open" /\ ~missed) => stamps.min = EarliestTimes

-----------------------------------------------------------------------------
(* The assertion of the scheduler that the network of a child contains all *)
(* orderings recorded for it.                                              *)
ContainsAllTheseEdges == ~missed
=============================================================================
