------------------------ MODULE SimpleTemporalProblem ------------------------
(***************************************************************************)
(* Incremental propagation in the simple temporal problem of a plan: the   *)
(* earliest and latest times of the steps, given those from before, after  *)
(* one more edge.  Times count in EPSILON, and every ordering is one       *)
(* EPSILON wide.  An end is the step after its start.                      *)
(*                                                                         *)
(* A network has the orderings (temporaryEdges), the durations of the      *)
(* starts, and the times of all steps; consistent is what Propagation      *)
(* returns.  While an edge is propagated it also has the worklist and the  *)
(* marks of LPQueueSet.                                                    *)
(***************************************************************************)
EXTENDS Integers, Sequences, SequencesExt

CONSTANTS
    NoLimit,          \* DBL_MAX, as a time
    MaxVisits         \* bound: steps visited in the propagation of an edge
ASSUME NetworkAssumption == NoLimit \in Nat /\ MaxVisits \in Nat

BFEdge(from, to, min, max) == [from |-> from, to |-> to, min |-> min, max |-> max]

Starts(net) == DOMAIN net.durations
PairWith(net, u) ==
    {u + 1 : v \in {u} \cap Starts(net)} \cup {v \in Starts(net) : v + 1 = u}

(* The bound that the latest time of u puts on its neighbour v             *)
LatestWithinLongest(net, u, v) ==   \* broken: the start of the longest duration
    CASE u \in Starts(net) /\ v = u + 1 -> net.latest[u] + net.durations[u].max
      [] v \in Starts(net) /\ u = v + 1 -> net.latest[u] - net.durations[v].max
      [] OTHER                          -> net.latest[u] - 1
LatestVia(net, u, v) ==
    CASE u \in Starts(net) /\ v = u + 1 -> net.latest[u] + net.durations[u].max
      [] v \in Starts(net) /\ u = v + 1 -> net.latest[u] - net.durations[v].min
      [] OTHER                          -> net.latest[u] - 1
(* The bound that the earliest time of u puts on its neighbour v           *)
EarliestForward(net, u, v) ==   \* broken: an end does not move its start
    CASE u \in Starts(net) /\ v = u + 1 -> net.earliest[u] + net.durations[u].min
      [] v \in Starts(net) /\ u = v + 1 -> 0
      [] OTHER                          -> net.earliest[u] + 1
EarliestVia(net, u, v) ==
    CASE u \in Starts(net) /\ v = u + 1 -> net.earliest[u] + net.durations[u].min
      [] v \in Starts(net) /\ u = v + 1 -> net.earliest[u] - net.durations[v].max
      [] OTHER                          -> net.earliest[u] + 1

Before(net, u) == {b \in DOMAIN net.latest : <<b, u>> \in net.edges}
After(net, u)  == {a \in DOMAIN net.latest : <<u, a>> \in net.edges}

Pushed(queue, steps) == queue \o SetToSortSeq(steps \ Range(queue), <)

(* NEW: the steps that the new edge joins to u                             *)
AcrossNew(net, u) ==
    {net.new.to : v \in {u} \cap {net.new.from}}
    \cup {net.new.from : v \in {u} \cap {net.new.to}}

(* Pass on the latest time of u.  It is a cycle if a step cannot be in     *)
(* time, or if the new edge is used a second time.                         *)
RelaxLatest(net, u) ==
    LET known == u \in net.UB /\ net.latest[u] # NoLimit
        tighter == {v \in PairWith(net, u) \cup Before(net, u) :
                      known /\ LatestVia(net, u, v) < net.latest[v]}
        used == tighter \cap AcrossNew(net, u)
    IN [net EXCEPT
          !.latest = [v \in tighter |-> LatestVia(net, u, v)] @@ @,
          !.UB = @ \cup tighter, !.UBP = @ \cup used,
          !.queue = Pushed(@, tighter),
          !.consistent = /\ \A v \in tighter : LatestVia(net, u, v) >= net.earliest[v]
                         /\ used \cap net.UBP = {}]

RelaxEarliest(net, u) ==
    LET tighter == {v \in PairWith(net, u) \cup After(net, u) :
                      u \in net.LB /\ EarliestVia(net, u, v) > net.earliest[v]}
        used == tighter \cap AcrossNew(net, u) # {}
    IN [net EXCEPT
          !.earliest = [v \in tighter |-> EarliestVia(net, u, v)] @@ @,
          !.LB = @ \cup tighter, !.LBP = IF used THEN @ \cup {u} ELSE @,
          !.queue = Pushed(@, tighter),
          !.consistent = /\ @
                         /\ \A v \in tighter : EarliestVia(net, u, v) <= net.latest[v]
                         /\ ~(used /\ u \in net.LBP)]

(* One round of the loop; the loop goes on until the worklist is empty or  *)
(* there is a cycle.                                                       *)
Visited(net) ==
    LET u == Head(net.queue)
        popped == [net EXCEPT !.queue = Tail(@)]
        relaxed == RelaxEarliest(RelaxLatest(popped, u), u)
    IN IF net.queue = <<>> \/ ~net.consistent THEN net
       ELSE [relaxed EXCEPT !.UB = @ \ {u}, !.LB = @ \ {u}]
Settled(net) ==
    LET after[n \in 0..MaxVisits] == IF n = 0 THEN net ELSE Visited(after[n - 1])
    IN after[MaxVisits]

(* An edge from time zero (-1) bounds the times of a step; any other one   *)
(* is stored.  Both ends of the edge are visited, in both senses.          *)
Stored(net, e) ==
    IF e.from = -1
    THEN LET lo == Max({net.earliest[e.to], e.min})
             hi == Min({net.latest[e.to], e.max})
         IN [net EXCEPT !.earliest[e.to] = lo, !.latest[e.to] = hi,
                        !.consistent = lo <= hi]
    ELSE [net EXCEPT !.edges = @ \cup {<<e.from, e.to>>}]

Propagation(net, e) ==
    LET ends == {e.from, e.to} \ {-1}
        queue == SelectSeq(<<e.from, e.to>>, LAMBDA u : u # -1)
    IN IF ~net.consistent THEN net
       ELSE Settled(Stored([queue |-> queue, UB |-> ends, LB |-> ends,
                            UBP |-> {}, LBP |-> {}, new |-> e] @@ net, e))

(* ChildData::propagateNewEdges                                            *)
PropagateNewEdges(net, newEdges) == FoldLeft(Propagation, net, newEdges)
=============================================================================
