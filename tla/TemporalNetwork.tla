--------------------------- MODULE TemporalNetwork ---------------------------
(***************************************************************************)
(* ColinSTNImpl: the simple temporal network of a plan and its orderings,  *)
(* and the shortest-path algorithms that work on it.  A network is a list  *)
(* of edges; an edge says that its last step is at most weight later than  *)
(* its first.  Steps are those of Deordering, the initial event included.  *)
(***************************************************************************)
EXTENDS TimedPlans, SequencesExt

CONSTANT MaxSeparation     \* MAX_ACTION_SEPARATION: no distance known yet
ASSUME SeparationAssumption == MaxSeparation \in Nat \ {0}

Edge(from, weight, to) == [from |-> from, to |-> to, weight |-> weight]
Connects(edge, from, to) == edge.from = from /\ edge.to = to

(* addEdge: of two constraints between the same steps the first remains.   *)
(* A step comes into the list of vertices with its first edge.             *)
EdgeExists(net, edge) == \E k \in DOMAIN net : Connects(net[k], edge.from, edge.to)
EdgeAdded(net, edge) == IF EdgeExists(net, edge) THEN net ELSE Append(net, edge)
VertexAdded(vertices, v) == IF v \in Range(vertices) THEN vertices ELSE Append(vertices, v)
EndsAdded(vertices, net, edge) ==
    IF EdgeExists(net, edge) THEN vertices
    ELSE VertexAdded(VertexAdded(vertices, edge.from), edge.to)

WithWeights(net, weight) ==
    [k \in DOMAIN net |-> [net[k] EXCEPT !.weight = weight[k]]]

-----------------------------------------------------------------------------
(* makeColinSTN                                                            *)
Paired(p) == {i \in DOMAIN p : p[i].pairWithStep >= 0}
(* Of the two steps of an action each has the place of the other, counted  *)
(* from 0, and the start is listed first.                                  *)
PairsMatch(p) ==
    \A i \in Paired(p) :
        LET j == p[i].pairWithStep + 1
        IN /\ j \in DOMAIN p \ {i} /\ p[i].ref \in Durative
           /\ p[j].pairWithStep + 1 = i /\ p[j].ref = p[i].ref
           /\ IF i < j THEN p[i].timeSpec = "AT_START" /\ p[j].timeSpec = "AT_END"
              ELSE p[j].timeSpec = "AT_START" /\ p[i].timeSpec = "AT_END"
DurationEdge(p, i) ==
    LET other == p[i].pairWithStep + 1
    IN Edge(i, IF p[i].pairWithStep < p[other].pairWithStep
               THEN -MinDuration[p[i].ref] ELSE MaxDuration[p[i].ref], other)

NotBefore(o) == Edge(o[2], IF o[1] = InitialEvent THEN 0 ELSE -Epsilon, o[1])
NotLongAfter(o) == Edge(o[1], MaxSeparation \div 2, o[2])

(* Orderings are taken in the order of the addresses of their events.      *)
AddressBefore(o, q, ascending) ==
    LET Before(i, j) == IF ascending THEN i < j ELSE j < i
    IN Before(o[1], q[1]) \/ (o[1] = q[1] /\ Before(o[2], q[2]))
FirstOrdering(o, orderings, ascending) ==
    o \in orderings /\ \A q \in orderings \ {o} : AddressBefore(o, q, ascending)

-----------------------------------------------------------------------------
(* reAddTemporalConstraintsToTIL                                           *)
Tightened(net, p) ==
    LET IsTIL(v) == v # InitialEvent /\ p[v].timeSpec = "AT"
    IN WithWeights(net, [k \in DOMAIN net |->
          IF net[k].from = InitialEvent /\ IsTIL(net[k].to) THEN TILs[p[net[k].to].ref].at
          ELSE IF net[k].to = InitialEvent /\ IsTIL(net[k].from)
          THEN -TILs[p[net[k].from].ref].at
          ELSE net[k].weight])

-----------------------------------------------------------------------------
(* isConsistent and checkTemporalConsistencySPFA: the same search for a    *)
(* negative cycle, from the initial event.                                 *)
None == -1
StartSearch(steps) ==
    [distance |-> [v \in steps |-> IF v = InitialEvent THEN 0 ELSE MaxSeparation],
     predecessor |-> [v \in steps |-> None],
     timesInQueue |-> [v \in steps |-> IF v = InitialEvent THEN 1 ELSE 0],
     queue |-> <<InitialEvent>>,
     negativeCycle |-> FALSE,
     node |-> None,         \* the vertex that is being visited
     last |-> 0]            \* position of the edge followed last

CutOff(times, vertices) == times > vertices

ImprovesByEpsilon(search, edge) ==   \* broken: the wrong tolerance
    LET d == search.distance
    IN \/ d[edge.to] = MaxSeparation
       \/ d[edge.to] > d[edge.from] + edge.weight + Epsilon
Improves(search, edge) ==
    LET d == search.distance
    IN \/ d[edge.to] = MaxSeparation
       \/ d[edge.to] > d[edge.from] + edge.weight + Accuracy

Follow(search, edge, size) ==
    IF ~Improves(search, edge) THEN search
    ELSE LET v == edge.to
             shorter == [search EXCEPT
                 !.predecessor[v] = edge.from,
                 !.distance[v] = search.distance[edge.from] + edge.weight]
             entered == [shorter EXCEPT !.timesInQueue[v] = @ + 1]
         IN IF v \in Range(search.queue) THEN shorter
            ELSE IF CutOff(entered.timesInQueue[v], size)
            THEN [entered EXCEPT !.negativeCycle = TRUE]
            ELSE [entered EXCEPT !.queue = Append(@, v)]

(* getOutEdges: the positions of the edges that the visit still follows.   *)
EdgesLeft(search, net) ==
    {k \in DOMAIN net : net[k].from = search.node /\ search.last < k}
Searching(search, net) ==
    ~search.negativeCycle /\ (search.queue # <<>> \/ EdgesLeft(search, net) # {})
FollowEdge(search, net, k, size) == Follow([search EXCEPT !.last = k], net[k], size)
NextVertex(search) ==
    [search EXCEPT !.node = Head(search.queue), !.queue = Tail(@), !.last = 0]

(* The conflict: from the first vertex that is not without predecessor n   *)
(* steps back, n the number of vertices, the edges of the cycle reached.   *)
Ancestor(predecessor, v) ==
    LET up[n \in 0..Cardinality(DOMAIN predecessor)] ==
          IF n = 0 THEN v
          ELSE LET w == up[n - 1] IN IF predecessor[w] = None THEN w ELSE predecessor[w]
    IN up
OnCycle(search, v) ==
    LET n == Cardinality(DOMAIN search.distance)
        w == Ancestor(search.predecessor, v)[n]
    IN IF search.predecessor[w] = None THEN {}
       ELSE {Ancestor(search.predecessor, w)[k] : k \in 0..n}
Conflict(search, vertices) ==
    LET cycles == SelectSeq([k \in DOMAIN vertices |-> OnCycle(search, vertices[k])],
                            LAMBDA c : c # {})
    IN IF cycles = <<>> THEN {}
       ELSE {<<search.predecessor[v], v>> : v \in Head(cycles)}

-----------------------------------------------------------------------------
(* PlanExecutor::updateEventTimings: Floyd-Warshall, then the earliest     *)
(* time of each step.                                                      *)
Weight(net, i, j) ==
    IF i = j THEN 0
    ELSE IF \E k \in DOMAIN net : Connects(net[k], i, j)
    THEN net[CHOOSE k \in DOMAIN net : Connects(net[k], i, j)].weight
    ELSE MaxSeparation
ToMatrix(net, steps) == [i \in steps |-> [j \in steps |-> Weight(net, i, j)]]
(* One round; whether it is done in place makes a difference only when     *)
(* d[k][k] is negative.                                                    *)
ThroughVertex(d, k) ==
    [i \in DOMAIN d |-> [j \in DOMAIN d |->
        IF d[i][k] + d[k][j] < d[i][j] THEN d[i][k] + d[k][j] ELSE d[i][j]]]
LatestTimings(d) == [i \in DOMAIN d |-> d[InitialEvent][i]]   \* broken: the other bound
EventTimings(d) == [i \in DOMAIN d |-> -d[i][InitialEvent]]
=============================================================================
