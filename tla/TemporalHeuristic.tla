-------------------------- MODULE TemporalHeuristic --------------------------
(***************************************************************************)
(* TRH::getHeuristic and HRelax::getHeuristic.  A child planner solves the *)
(* problem without the times of its timed literals; its plan is put after  *)
(* the plan of the state (the header), deordered, and made a temporal      *)
(* network.  When the times of the literals return, the network may become *)
(* inconsistent: durations are then relaxed, conflict by conflict, and the *)
(* value of the state is how much they had to be.                          *)
(***************************************************************************)
EXTENDS DeorderedExecution, RelaxedPlanReader, TemporalNetwork

CONSTANTS
    Headers,        \* plans of states that search may evaluate
    MaxLines,       \* bound on the answer of the child planner
    LineTimes,      \* start times in it
    MaxIterations,  \* the work of the relaxation loop is counted so far
    Slacks          \* amounts by which a duration may be relaxed

ASSUME HeuristicAssumption ==
    /\ \A p \in Headers : p \in Seq(Events) /\ PairsMatch(p)
    /\ \A k \in DOMAIN TILs : TILs[k].at < MaxSeparation
    /\ LineTimes \subseteq Nat /\ Slacks \subseteq Nat

VARIABLES
    pc,
    header,             \* the state's plan
    lines,              \* the answer of the child planner
    reader,             \* what has been read of it
    misread,            \* history: its steps were not listed in order of time
    relaxedLength,      \* getRelaxedPlanLength
    earlyTermination,   \* option of HRelax
    net, vertices,      \* the network: its edges, its vertices
    toAdd,              \* what makeColinSTN has still to add
    search,             \* the search for a negative cycle
    rows,               \* constraintRows: the conflicts found
    relaxHist,          \* what the relaxed edges weighed at first
    work,               \* itrs, total_edges_in_conflict, accumulative_relax
    matrix, rounds,     \* Floyd-Warshall, and its rounds so far
    value,              \* the value returned, in units of Accuracy
    solution            \* workingBestSolution

networkVars == <<net, vertices, toAdd, search, rows, relaxHist, work>>
resultVars == <<matrix, rounds, value, solution>>
readingVars == <<lines, reader, misread, relaxedLength>>
heuristicVars == <<pc, header, earlyTermination, readingVars>>
allVars == <<execVars, heuristicVars, networkVars, resultVars>>

Steps == 0..Len(plan)
NoValue == -1
NothingToAdd == [pairs |-> {}, causal |-> {}, ascending |-> TRUE]
NoSolution == [plan |-> <<>>, links |-> {}, at |-> <<>>, found |-> FALSE]

(* The facts after a header, whose steps take effect in their order.       *)
FactsAfter(p) ==
    FoldLeft(LAMBDA f, e : (f \ Effects(e, FALSE)) \cup Effects(e, TRUE), InitFacts, p)

HeuristicInit ==
    /\ header \in Headers /\ earlyTermination \in BOOLEAN
    /\ lines = <<>> /\ reader = Unread /\ misread = FALSE /\ relaxedLength = 0
    /\ plan = header /\ links = {} /\ orderings = {} /\ performed = {} /\ facts = FactsAfter(header)
    /\ net = <<>> /\ vertices = <<>> /\ toAdd = NothingToAdd
    /\ search = StartSearch({InitialEvent}) /\ matrix = <<>> /\ rounds = 0
    /\ rows = {} /\ relaxHist = <<>>
    /\ work = [iterations |-> 0, edgesInConflict |-> 0, accumulated |-> 0]
    /\ value = NoValue /\ solution = NoSolution
    /\ pc = "child"

-----------------------------------------------------------------------------
(* External: the child planner.  Any valid plan of its problem, in which   *)
(* timed literals are actions that happen once, in their order, and all    *)
(* of them.  Its goals are taken to be whatever the plan makes true.       *)
Unfolded(answer) ==
    FoldLeft(LAMBDA p, line :
        IF line.op = NoOperator THEN Append(p, Snap("AT", line.til, -1, line.at))
        ELSE IF line.op \notin Durative
        THEN Append(p, Snap("AT_START", line.op, -1, line.at))
        ELSE p \o <<Snap("AT_START", line.op, Len(p) + 1, line.at),
                    Snap("AT_END", line.op, Len(p), line.at + line.duration)>>,
        <<>>, answer)

Literal(p) == SelectSeq(p, LAMBDA e : e.timeSpec = "AT")
LiteralsInOrder(answer) ==
    LET til == Literal(Unfolded(answer))
    IN \A k \in DOMAIN til :
          /\ til[k].ref = Len(Literal(header)) + k
          /\ k > 1 => til[k - 1].at + Epsilon <= til[k].at

ValidAnswer(answer) ==
    LET p == Unfolded(answer)
    IN /\ LiteralsInOrder(answer)
       /\ Executable(p, [i \in DOMAIN p |-> p[i].at], facts)

Lasts(op) == IF op \in Durative THEN {MinDuration[op], MaxDuration[op]} ELSE {0}
AnswerLines ==
    {line \in [op : Actions \cup {NoOperator}, til : {NoLiteral} \cup DOMAIN TILs,
               at : LineTimes, duration : {0} \cup UNION {Lasts(a) : a \in Durative}] :
        /\ line.duration \in Lasts(line.op)
        /\ line.op = NoOperator <=> line.til # NoLiteral}

(* It adds a step where its start is applicable, as a forward search does. *)
Applicable(line) ==
    LET p == Unfolded(lines)
        Held(l, x) == HoldsBefore(p, [i \in DOMAIN p |-> p[i].at], facts, l, x)
        start == Snap("AT_START", line.op, -1, line.at)
    IN line.op # NoOperator =>
          /\ \A l \in OwnConditions(start) : Held(l, line.at)
          /\ \A l \in OverAllConditions(line.op) : Held(l, line.at + 1)

ChildAdds(line) ==
    /\ Len(lines) < MaxLines
    /\ lines # <<>> => Last(lines).at <= line.at
    /\ Applicable(line)
    /\ lines' = Append(lines, line)
    /\ LiteralsInOrder(lines')
    /\ UNCHANGED <<execVars, pc, header, reader, misread, relaxedLength,
                   earlyTermination, networkVars, resultVars>>

ChildFails ==   \* no plan, or no child: the two look the same
    /\ pc = "child" /\ lines = <<>> /\ pc' = "done"
    /\ UNCHANGED <<execVars, header, readingVars, earlyTermination,
                   networkVars, resultVars>>

(* getRelaxedPlan: before a line is read, the ends that are due by then    *)
(* leave the backlog; after the last line, the others.                     *)
ChildAnswers ==
    /\ pc = "child" /\ ValidAnswer(lines)
    /\ Len(Literal(header)) + Len(Literal(Unfolded(lines))) = Len(TILs)
    /\ pc' = "reading"
    /\ UNCHANGED <<execVars, header, readingVars, earlyTermination,
                   networkVars, resultVars>>

Reading ==
    /\ pc = "reading"
    /\ UNCHANGED <<execVars, pc, header, misread, relaxedLength, earlyTermination,
                   networkVars, resultVars>>
MoveDueEnd ==
    /\ Reading /\ lines # <<>>
    /\ \E n \in Due(reader, Head(lines)) :
          IsFirst(n, Due(reader, Head(lines))) /\ reader' = EndMoved(reader, n)
    /\ UNCHANGED lines
TakeLine ==
    /\ Reading /\ lines # <<>> /\ Due(reader, Head(lines)) = {}
    /\ reader' = ReadLine(reader, Head(lines))
    /\ lines' = Tail(lines)
MoveLeftEnd ==
    /\ Reading /\ lines = <<>> /\ reader.backlog # <<>>
    /\ reader' = EndMoved(reader, 1)
    /\ UNCHANGED lines

InOrderOfTime(events) == \A i, j \in DOMAIN events : i < j => events[i].at <= events[j].at
JoinPlans ==
    /\ pc = "reading" /\ lines = <<>> /\ reader.backlog = <<>>
    /\ plan' = AddRelaxedPlan(header, reader.events)
    /\ relaxedLength' = reader.length
    /\ misread' = ~InOrderOfTime(reader.events)
    /\ facts' = InitFacts /\ reader' = Unread /\ pc' = "order"
    /\ UNCHANGED <<lines, links, orderings, performed, header, earlyTermination,
                   networkVars, resultVars>>

-----------------------------------------------------------------------------
(* HRelax.  The network is made edge by edge.  Each of the later phases is *)
(* followed by isConsistent, which starts a search; a step of the search   *)
(* takes a vertex from the queue or follows an edge.                       *)
GoesOn(from, to) ==
    /\ pc = from /\ pc' = to
    /\ UNCHANGED <<plan, performed, facts, header, readingVars, earlyTermination>>
Phase(from, to) == GoesOn(from, to) /\ UNCHANGED <<links, orderings>>

OrderPlan ==
    /\ OrderingSucceeds(plan)
    /\ GoesOn("order", "ordered")
    /\ links' \in ValidationStructures(plan)
    /\ orderings' = OrderingConstraints(plan, links')
    /\ UNCHANGED <<networkVars, resultVars>>

MakeNetwork ==
    /\ Phase("ordered", "making")
    /\ \E ascending \in BOOLEAN :
          toAdd' = [pairs |-> Paired(plan), causal |-> orderings, ascending |-> ascending]
    /\ net' = <<>> /\ vertices' = <<>>
    /\ UNCHANGED <<search, rows, relaxHist, work, resultVars>>

Making ==
    /\ Phase("making", "making")
    /\ UNCHANGED <<search, rows, relaxHist, work, resultVars>>
AddDuration(i) ==
    /\ IsFirst(i, toAdd.pairs) /\ Making
    /\ net' = EdgeAdded(net, DurationEdge(plan, i))
    /\ vertices' = EndsAdded(vertices, net, DurationEdge(plan, i))
    /\ toAdd' = [toAdd EXCEPT !.pairs = @ \ {i}]
AddCausalLink(o) ==
    /\ toAdd.pairs = {} /\ FirstOrdering(o, toAdd.causal, toAdd.ascending) /\ Making
    /\ LET half == EdgeAdded(net, NotBefore(o))
       IN /\ net' = EdgeAdded(half, NotLongAfter(o))
          /\ vertices' = EndsAdded(EndsAdded(vertices, net, NotBefore(o)),
                                   half, NotLongAfter(o))
    /\ toAdd' = [toAdd EXCEPT !.causal = @ \ {o}]
NetworkMade ==
    /\ Phase("making", "initial")
    /\ toAdd.pairs = {} /\ toAdd.causal = {}
    /\ search' = StartSearch(Steps) /\ toAdd' = NothingToAdd
    /\ UNCHANGED <<net, vertices, rows, relaxHist, work, resultVars>>

VisitStep ==
    /\ pc \in {"initial", "tightened", "relaxed"} /\ ~search.negativeCycle
    /\ UNCHANGED <<execVars, heuristicVars, net, vertices, toAdd, rows, relaxHist, work,
                   resultVars>>
VisitNext ==
    /\ VisitStep /\ search.queue # <<>> /\ EdgesLeft(search, net) = {}
    /\ search' = NextVertex(search)
VisitEdge ==
    /\ VisitStep
    /\ LET left == EdgesLeft(search, net)
       IN \E k \in left :
             IsFirst(k, left) /\ search' = FollowEdge(search, net, k, Len(vertices))

Consistent == ~Searching(search, net) /\ ~search.negativeCycle
Inconsistent == ~Searching(search, net) /\ search.negativeCycle

TightenLiterals ==
    /\ Consistent /\ Phase("initial", "tightened")
    /\ net' = Tightened(net, plan)
    /\ search' = StartSearch(Steps)
    /\ UNCHANGED <<vertices, toAdd, rows, relaxHist, work, resultVars>>

(* The assertions: KK finds a condition without support, the network is    *)
(* inconsistent from the beginning, there is no conflict to relax; and the *)
(* exit of the executor, when its algorithm does not agree.                *)
NegativeCycleInMatrix == \E i \in DOMAIN matrix : matrix[i][i] < -Accuracy
AssertionFails ==
    CASE pc = "order" -> ~OrderingSucceeds(plan)
      [] pc = "initial" -> Inconsistent
      [] pc \in {"tightened", "relaxed"} -> Inconsistent /\ Conflict(search, vertices) = {}
      [] pc = "timing" -> rounds = Len(vertices) /\ NegativeCycleInMatrix
      [] OTHER -> FALSE
Abort ==
    /\ AssertionFails
    /\ Phase(pc, "aborted")
    /\ UNCHANGED <<networkVars, resultVars>>

(* executePlan, and the update of workingBestSolution by TRH               *)
PlanFits ==
    /\ Consistent /\ (earlyTermination \/ relaxedLength = 0)
    /\ Phase("tightened", "timing")
    /\ matrix' = ToMatrix(net, Steps) /\ rounds' = 0
    /\ UNCHANGED <<networkVars, value, solution>>
TimingRound ==
    /\ Phase("timing", "timing") /\ rounds < Len(vertices)
    /\ matrix' = ThroughVertex(matrix, vertices[rounds + 1])
    /\ rounds' = rounds + 1
    /\ UNCHANGED <<networkVars, value, solution>>
PlanTimed ==
    /\ rounds = Len(vertices) /\ ~NegativeCycleInMatrix
    /\ Phase("timing", "done")
    /\ value' = 0
    /\ solution' = [plan |-> plan, links |-> links, at |-> EventTimings(matrix),
                    found |-> TRUE]
    /\ UNCHANGED <<networkVars, matrix, rounds>>

PlanFitsButSearchOn ==
    /\ Consistent /\ ~earlyTermination /\ relaxedLength > 0
    /\ Phase("tightened", "done")
    /\ value' = Epsilon
    /\ UNCHANGED <<networkVars, matrix, rounds, solution>>

-----------------------------------------------------------------------------
(* TemporalConflictRelaxation.  The only edges that may be relaxed are     *)
(* those between the start and the end of one action.                      *)
RelaxableFromStart(e) ==   \* broken: minimum durations cannot be relaxed
    e[1] \in Paired(plan) /\ plan[e[1]].pairWithStep + 1 = e[2] /\ e[1] < e[2]
Relaxable(e) == e[1] \in Paired(plan) /\ plan[e[1]].pairWithStep + 1 = e[2]
Relaxed == DOMAIN relaxHist
InRows(R) == {e \in UNION R : Relaxable(e)}
FirstWeight(e) == IF e \in Relaxed THEN relaxHist[e] ELSE Weight(net, e[1], e[2])

(* External: the linear program.  Durations grow by as little as possible  *)
(* in total, such that no conflict found so far is left.                   *)
Total(slack) == MapThenSumSet(LAMBDA e : slack[e], DOMAIN slack)
Removes(slack, row) ==
    MapThenSumSet(FirstWeight, row)
        + MapThenSumSet(LAMBDA e : IF e \in DOMAIN slack THEN slack[e] ELSE 0, row) >= 0
Relaxations(R) ==
    {s \in [InRows(R) -> Slacks] : \A row \in R : Removes(s, row)}
CheapestRelaxations(R) ==   \* without a solution nothing changes
    LET all == Relaxations(R)
        least == CHOOSE n \in {Total(s) : s \in all} : \A s \in all : n <= Total(s)
    IN IF all = {} THEN {<<>>} ELSE {s \in all : Total(s) = least}

NewWeight(s, e) == IF e \in DOMAIN s THEN FirstWeight(e) + s[e] ELSE Weight(net, e[1], e[2])
Change(s, e) ==
    LET d == NewWeight(s, e) - Weight(net, e[1], e[2]) IN IF d < 0 THEN -d ELSE d

RelaxConflict ==
    /\ Inconsistent /\ (Phase("tightened", "relaxed") \/ Phase("relaxed", "relaxed"))
    /\ LET conflict == Conflict(search, vertices)
       IN /\ conflict # {}
          /\ rows' = rows \cup {conflict}
          /\ \E s \in CheapestRelaxations(rows') :
                /\ relaxHist' = [e \in Relaxed \cup DOMAIN s |-> FirstWeight(e)]
                /\ net' = WithWeights(net, [k \in DOMAIN net |->
                                  NewWeight(s, <<net[k].from, net[k].to>>)])
                /\ work' = IF work.iterations = MaxIterations THEN work
                           ELSE [iterations |-> work.iterations + 1,
                                 edgesInConflict |->
                                    work.edgesInConflict + Cardinality(conflict),
                                 accumulated |-> work.accumulated
                                    + MapThenSumSet(LAMBDA e : Change(s, e), DOMAIN s)]
    /\ search' = StartSearch(Steps)
    /\ UNCHANGED <<vertices, toAdd, resultVars>>

(* getHeuristicValue is mode 0; the other modes count the work done.       *)
TotalRelaxation ==
    MapThenSumSet(LAMBDA e : Weight(net, e[1], e[2]) - relaxHist[e], Relaxed)
Unit == 10000     \* the value 1, in units of Accuracy
ValueInMode(mode) ==
    CASE mode = 0 -> TotalRelaxation
      [] mode = 1 -> work.iterations * Unit
      [] mode = 2 -> work.edgesInConflict * Unit
      [] mode = 3 -> work.accumulated

PlanRelaxed(mode) ==
    /\ Consistent /\ Phase("relaxed", "done")
    /\ value' = ValueInMode(mode)
    /\ UNCHANGED <<networkVars, matrix, rounds, solution>>

-----------------------------------------------------------------------------
(* External: instead of being timed, the plan is performed in some order.  *)
BeginPerforming ==
    /\ Phase("ordered", "performing")
    /\ UNCHANGED <<networkVars, resultVars>>
PerformStep(k) ==
    /\ pc = "performing" /\ Perform(k)
    /\ UNCHANGED <<heuristicVars, networkVars, resultVars>>

ReadAnswer == MoveDueEnd \/ TakeLine \/ MoveLeftEnd \/ JoinPlans
BuildNetwork ==
    \/ MakeNetwork \/ NetworkMade
    \/ (\E i \in toAdd.pairs : AddDuration(i))
    \/ (\E o \in toAdd.causal : AddCausalLink(o))
Evaluation ==
    \/ OrderPlan \/ BuildNetwork \/ Abort
    \/ VisitNext \/ VisitEdge
    \/ TightenLiterals \/ RelaxConflict
    \/ PlanFits \/ TimingRound \/ PlanTimed \/ PlanFitsButSearchOn
    \/ \E mode \in 0..3 : PlanRelaxed(mode)

HeuristicNext ==
    \/ (pc = "child" /\ \E line \in AnswerLines : ChildAdds(line))
    \/ ChildFails \/ ChildAnswers \/ ReadAnswer
    \/ Evaluation
    \/ BeginPerforming \/ (\E k \in DOMAIN plan : PerformStep(k))

(* Weak fairness of ReadAnswer and Evaluation, written out: reading and    *)
(* evaluating are one thread, and a step is possible in each phase.        *)
Evaluating ==
    pc \in {"reading", "order", "ordered", "making", "initial", "tightened", "relaxed",
           "timing"}
EvaluationGoesOn == []<>~Evaluating \/ []<><<HeuristicNext>>_allVars
HeuristicSpec == HeuristicInit /\ [][HeuristicNext]_allVars /\ EvaluationGoesOn
-----------------------------------------------------------------------------
(* What search is told: the value in thousandths, rounded.                 *)
InHundredths(v) == IF v < 0 THEN v ELSE (v + 50) \div 100   \* broken: two digits
Rounded(v) == IF v < 0 THEN v ELSE (v + 5) \div 10
Returned == Rounded(value)

(* Search takes 0 for a goal and prints the solution kept here.  Whatever  *)
(* the mode, a solution comes with 0, and 0 comes with a solution unless   *)
(* the durations had to be relaxed by less than half a thousandth: then    *)
(* rounding makes a goal of a plan that does not fit.                      *)
LostInRounding(v) == 0 < v /\ v < 5
ZeroMeansSolved ==
    pc = "done" =>
        /\ solution.found => Returned = 0
        /\ Returned = 0 => solution.found \/ LostInRounding(value)

(* The assertions on the plan of the child can only fail when the reader   *)
(* put its steps in an order that is not the order of their times.         *)
AbortsOnlyWhenMisread == pc = "aborted" => misread

(* Starts and ends of the total plan point at each other, header included: *)
(* durations are attached to the right steps.                              *)
PairsPointBack == PairsMatch(plan)

(* Each verdict of the search comes with its reason: distances that fit    *)
(* every edge, or a conflict that is a closed chain of negative length.    *)
Fits(distance) ==
    \A k \in DOMAIN net :
        distance[net[k].to] <= distance[net[k].from] + net[k].weight + Accuracy
NegativeChain(c) ==
    /\ {e[1] : e \in c} = {e[2] : e \in c} /\ Cardinality({e[1] : e \in c}) = Cardinality(c)
    /\ \A e \in c : \E k \in DOMAIN net : Connects(net[k], e[1], e[2])
    /\ MapThenSumSet(LAMBDA e : Weight(net, e[1], e[2]), c) < 0
ConsistentNetworksFit ==
    pc \in {"initial", "tightened", "relaxed"} /\ Consistent => Fits(search.distance)
ConflictsAreNegative ==
    pc \in {"initial", "tightened", "relaxed"} /\ Inconsistent =>
        NegativeChain(Conflict(search, vertices))
VerdictsAreCertified == ConsistentNetworksFit /\ ConflictsAreNegative

(* The value is what the plan needs and no more: there are conflicts that  *)
(* share no duration and need that much together.                          *)
Deficit(row) == -MapThenSumSet(FirstWeight, row)
Independent(D) ==
    \A r, q \in D : r # q => \A e \in r \cap q : ~Relaxable(e)
ValueIsNeededRelaxation ==
    (pc = "done" /\ rows # {}) =>
        \E D \in SUBSET rows :
            Independent(D) /\ MapThenSumSet(Deficit, D) = TotalRelaxation

(* A plan kept as a solution has its durations, and the timed literals at  *)
(* their times.  It can be executed if KK could protect every condition:   *)
(* it sees none that asks a fact to be false, and the set drops links.     *)
NothingMustBeFalse(p) ==
    \A i \in DOMAIN p : p[i].timeSpec # "AT" =>
        \A l \in OwnConditions(p[i]) \cup OverAllConditions(p[i].ref) : l.positive
SolutionIsExecutable ==
    solution.found =>
        /\ DurationsKept(solution.plan, solution.at)
        /\ LiteralsOnTime(solution.plan, solution.at)
        /\ (NothingMustBeFalse(solution.plan) /\ solution.links = Links(solution.plan)) =>
              Executable(solution.plan, solution.at, InitFacts)

(* It reaches the goals, if the plan of the child does: the heuristic      *)
(* calls it "a solution to the original problem".                          *)
SolutionReachesGoals ==
    (solution.found /\ ~misread /\ Goals \subseteq FactsAfter(solution.plan)) =>
        \A f \in Goals :
            HoldsBefore(solution.plan, solution.at, InitFacts,
                        [fact |-> f, positive |-> TRUE], MaxSeparation)

(* Its times fit the network and none could be earlier: from every step a  *)
(* chain of edges that leave no slack leads back to the initial event.     *)
FitExactly(at) ==
    \A k \in DOMAIN net : at[net[k].to] - at[net[k].from] <= net[k].weight
Tight(i, at) ==
    {net[k].to : k \in {k \in DOMAIN net : net[k].from = i
                                       /\ at[i] = at[net[k].to] - net[k].weight}}
Anchored(at) ==
    \A S \in SUBSET Steps :
        (InitialEvent \in S /\ \A i \in Steps : Tight(i, at) \cap S # {} => i \in S)
            => S = Steps
DispatchTimesAreEarliest ==
    solution.found => FitExactly(solution.at) /\ Anchored(solution.at)

(* Every evaluation comes to an end: the relaxation loop too.              *)
RelaxationEnds == pc = "reading" ~> pc \in {"done", "aborted", "performing"}
=============================================================================
