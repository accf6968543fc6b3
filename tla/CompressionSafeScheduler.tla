---------------------- MODULE CompressionSafeScheduler ----------------------
(***************************************************************************)
(* CompressionSafeScheduler::assignTimestamps, run on every state the      *)
(* search evaluates when all the actions of the problem are compression    *)
(* safe: a topological sweep of the ordering constraints that gives each   *)
(* step its earliest time.  The steps of the header keep the timestamps of *)
(* the parent's sweep and are swept again.  Time is counted in epsilons.   *)
(***************************************************************************)
EXTENDS TotalOrderTransformer, FiniteSetsExt

CONSTANT MinDuration     \* getOpDuration: at least 0.001, one epsilon
ASSUME DurationAssumption == MinDuration \in [Durative -> Nat \ {0}]

VARIABLES
    sweeping,      \* assignTimestamps is running
    visit,         \* list<int>: steps all of whose predecessors were visited
    fanIn,         \* step -> predecessors not yet visited
    lpTimestamp    \* step -> FFEvent::lpTimestamp, -1 before the first sweep

schedVars == <<sweeping, visit, fanIn, lpTimestamp>>

(* canUseThisScheduler                                                     *)
SafeToUseThis == \A a \in Actions : CanSkipToEnd(a)

StepsBefore(k) == {edge[1] : edge \in {x \in stepsBefore : x[2] = k}}
FanOut(k)      == {edge[2] : edge \in {x \in stepsBefore : x[1] = k}}
Ascending(ks)  ==
    CHOOSE s \in [1..Cardinality(ks) -> ks] :
        \A i, j \in 1..Cardinality(ks) : i < j => s[i] < s[j]

SchedInit ==
    /\ Init /\ SafeToUseThis
    /\ sweeping = FALSE
    /\ visit = <<>> /\ fanIn = <<>> /\ lpTimestamp = <<>>

(* A step of search: the new steps (now) join the header, unscheduled, and *)
(* the counts and the first steps to visit are set up.                     *)
BeginSweep ==
    /\ ~sweeping /\ Next
    /\ sweeping' = TRUE
    /\ lpTimestamp' = lpTimestamp \o [i \in 1..planLength' - planLength |-> -1]
    /\ LET before(k) == {b \in 0..planLength' - 1 : <<b, k>> \in stepsBefore'}
       IN /\ fanIn' = [i \in 1..planLength' |-> Cardinality(before(i - 1))]
          /\ visit' = Ascending({k \in 0..planLength' - 1 : before(k) = {}})

(* A step without predecessors is put at time 0.  Otherwise its timestamp  *)
(* is only ever pushed later: past its predecessors, and, for an end, to   *)
(* the minimum duration after the step it is paired with.                  *)
Unpaired(k) == {}   \* broken: an end does not wait for its duration
PairedAndApart(k) ==   \* broken: an epsilon on top of the duration
    IF StepOf(k).spec = "END"
    THEN {lpTimestamp[k] + MinDuration[StepOf(k).act] + 1} ELSE {}
AfterPairedStart(k) ==
    IF StepOf(k).spec = "END"
    THEN {lpTimestamp[k] + MinDuration[StepOf(k).act]} ELSE {}
EarliestAfter(k) ==
    LET gap(b) == IF <<b, k>> \in epsilonBefore THEN 1 ELSE 0
        bounds == {lpTimestamp[k + 1]}
                  \cup {lpTimestamp[b + 1] + gap(b) : b \in StepsBefore(k)}
                  \cup AfterPairedStart(k)
    IN Max(bounds)

UnlockedLate(k) == {a \in FanOut(k) : fanIn[a + 1] = 0}   \* broken: off by one
Unlocked(k) == {a \in FanOut(k) : fanIn[a + 1] = 1}
VisitStep ==
    /\ sweeping /\ visit # <<>>
    /\ LET k == Head(visit)
       IN /\ lpTimestamp' = [lpTimestamp EXCEPT
                ![k + 1] = IF StepsBefore(k) = {} THEN 0 ELSE EarliestAfter(k)]
          /\ fanIn' = [i \in DOMAIN fanIn |->
                IF i - 1 \in FanOut(k) THEN fanIn[i] - 1 ELSE fanIn[i]]
          /\ visit' = Tail(visit) \o Ascending(Unlocked(k))
    /\ UNCHANGED <<vars, sweeping>>

EndSweep ==
    /\ sweeping /\ visit = <<>>
    /\ sweeping' = FALSE
    /\ UNCHANGED <<vars, visit, fanIn, lpTimestamp>>

SchedNext == BeginSweep \/ VisitStep \/ EndSweep
(* The sweep is a loop of a single-threaded program: once begun it runs.   *)
SchedSpec == SchedInit /\ [][SchedNext]_<<vars, schedVars>>
                       /\ WF_<<vars, schedVars>>(VisitStep \/ EndSweep)

-----------------------------------------------------------------------------
Scheduled == ~sweeping
Time(k) == lpTimestamp[k + 1]

(* The timestamps of a finished sweep satisfy every ordering and every     *)
(* minimum duration.                                                       *)
ScheduleIsConsistent ==
    Scheduled =>
        /\ \A edge \in stepsBefore :
              Time(edge[1]) + (IF edge \in epsilonBefore THEN 1 ELSE 0) <= Time(edge[2])
        /\ \A k \in StepIDs : StepOf(k).spec = "START" =>
              Time(PendingEnd(k)) >= Time(k) + MinDuration[StepOf(k).act]

(* No step could come earlier: each is at 0 or held back by something.     *)
ScheduleIsEarliest ==
    Scheduled =>
        \A k \in StepIDs :
            \/ Time(k) = 0
            \/ \E b \in StepsBefore(k) :
                  Time(k) = Time(b) + (IF <<b, k>> \in epsilonBefore THEN 1 ELSE 0)
            \/ /\ StepOf(k).spec = "END"
               /\ Time(k) = Time(k - 1) + MinDuration[StepOf(k).act]

(* Later steps never move a step that an ancestor of the state scheduled,  *)
(* although every sweep assigns all the timestamps again.                  *)
HeaderKeepsItsTimes ==
    [][\A i \in DOMAIN lpTimestamp :
          lpTimestamp[i] # -1 => lpTimestamp'[i] = lpTimestamp[i]]_lpTimestamp

(* In the schedule, a step that concerns a compression-safe action started *)
(* before it is strictly after the end of that action.                     *)
ScheduleRespectsPendingEnds ==
    Scheduled =>
        \A i, j \in DOMAIN applied :
            (i < j /\ SkippedStart(applied[i])
                   /\ Concerns(StepOf(applied[j]), StepOf(applied[i]).act))
            => Time(PendingEnd(applied[i])) < Time(applied[j])

(* Every sweep ends with a timestamp for every step: there is no cycle in  *)
(* which steps wait for each other to be visited.                          *)
SweepsReachEveryStep == sweeping ~> (Scheduled /\ \A k \in StepIDs : Time(k) >= 0)
=============================================================================
