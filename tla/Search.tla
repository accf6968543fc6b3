------------------------------- MODULE Search -------------------------------
(***************************************************************************)
(* FF::search: enforced hill-climbing (EHC) and, should that fail, best-   *)
(* first search from the beginning.  A state is a member of Bases and the  *)
(* time at which it is reached; how states lead to one another is given as *)
(* a graph.  What the heuristic and the scheduler say of a new state goes  *)
(* with the move to it, as it may depend on the plan: -1 for a dead end.   *)
(* Which of a state's moves comes next, and which of several open states   *)
(* of equal rank, is left open (the code goes by makespan, then by age).   *)
(* Searching on for better plans (-n, off by default) is left out.         *)
(***************************************************************************)
EXTENDS VisitedStates, FiniteSets

CONSTANTS
    Graph,       \* moves a problem may have
    CommandLines,
    RootH,       \* heuristic value of the initial state, neither 0 nor -1
    MaxStates    \* bound: states a search may create

(* A move is applicable and progresses; a TIL happens "by" its own time,   *)
(* any other move takes dt and must be done by then.  TIL moves that leap  *)
(* stand for helpful actions that name the literal after the next.         *)
MoveRecords ==
    [from : Bases, to : Bases, act : STRING, dt : Nat, by : Nat,
     kind : {"INSTANT", "START", "END", "SAFE", "TIL"},
     h : Nat \cup {-1}, est : Nat, helpful : BOOLEAN, leap : BOOLEAN]
Options == [dominance : BOOLEAN, zealous : BOOLEAN, steepest : BOOLEAN,
            helpful : BOOLEAN, skipEHC : BOOLEAN, bestFirst : BOOLEAN, tieBreak : BOOLEAN]

ASSUME SearchAssumption ==
    /\ Graph \subseteq MoveRecords
    /\ CommandLines \subseteq Options
    /\ RootH \in Nat \ {0} /\ MaxStates \in Nat \ {0}

VARIABLES
    moves,       \* those of Graph that this problem has
    phase,       \* "EHC", "BFS", "solved", "unsolvable"
    curr, todo,  \* state being expanded, and its moves not yet tried
    open,        \* searchQueue: both categories
    best,        \* bestHeuristic
    created,     \* states so far, to number them
    sightings    \* history: states visited, as they were when inserted

searchVars == <<moves, phase, curr, todo, open, best, created, sightings>>
allVars == <<options, storeVars, searchVars>>

RootState == [id |-> 0, base |-> Root, back |-> NoAction, time |-> 0]
RootNode == [state |-> RootState, steps |-> 0, h |-> RootH, category |-> 1]
RootBest == [h |-> RootH, est |-> 0]

-----------------------------------------------------------------------------
(* applyActionToState and checkTemporalSoundness.                          *)
Sound(m, time) == time + m.dt <= m.by
Arrival(m, time) == IF m.kind = "TIL" THEN m.by ELSE time + m.dt
Child(m, s) ==
    [id |-> created, base |-> m.to, time |-> Arrival(m, s.time),
     back |-> IF m.kind = "SAFE" THEN m.act ELSE NoAction]

(* The last move that move m stands for: if m leaps, the next literal is   *)
(* applied to the state that m leads to, which is evaluated but not stored.*)
NextTIL(m) == {n \in moves : n.kind = "TIL" /\ n.from = m.to}
Leaps(m) == phase = "EHC" /\ options.helpful /\ m.leap /\ NextTIL(m) # {}
Finals(m) == IF Leaps(m) THEN NextTIL(m) ELSE {m}
FinalState(m, n) ==
    LET s == Child(m, curr.state) IN IF Leaps(m) THEN Child(n, s) ELSE s

Visits(category) ==
    IF phase = "EHC" /\ options.zealous THEN category = 1 ELSE category # 0

(* The successor by m is dropped before it gets to the store: it is not    *)
(* sound, or, for a literal, the state it leads to is not worth a visit, or*)
(* leaping on from there fails.                                            *)
DroppedEarly(m) ==
    \/ ~Sound(m, curr.state.time)
    \/ m.kind = "TIL" /\ \E e \in Lookup(Child(m, curr.state)) :
                             ~Visits(Category(Child(m, curr.state), e))
    \/ Leaps(m) /\ (m.h = -1 \/ \E n \in NextTIL(m) : ~Sound(n, m.by))

NodeWithStart(m, n, category) ==   \* broken: the start stays on the queue
    [state |-> FinalState(m, n),
     steps |-> curr.steps + (IF Leaps(m) THEN 2 ELSE 1),
     h |-> n.h, category |-> IF phase = "EHC" THEN 1 ELSE category]
Node(m, n, category) ==
    [state |-> [FinalState(m, n) EXCEPT !.back = NoAction],
     steps |-> curr.steps + (IF Leaps(m) THEN 2 ELSE 1),
     h |-> n.h, category |-> IF phase = "EHC" THEN 1 ELSE category]

(* EHC goes by the number of steps, WA* by 5h + steps (doubleU).           *)
Rank(node) == IF phase = "EHC" THEN node.steps ELSE 5 * node.h + node.steps
Before(x, y) == \/ x.category < y.category
                \/ x.category = y.category /\ Rank(x) < Rank(y)

Improves(n) ==
    \/ n.h < best.h
    \/ options.tieBreak /\ n.h = best.h /\ n.est < best.est

-----------------------------------------------------------------------------
SearchInit ==
    /\ options \in CommandLines
    /\ moves \in SUBSET Graph
    /\ stored = {Clone} /\ pareto = {Clone} /\ dominated = {}
    /\ phase = "EHC" /\ curr = RootNode /\ todo = {}
    /\ open = IF options.skipEHC THEN {} ELSE {RootNode}
    /\ best = RootBest
    /\ created = 1 /\ sightings = {}

(* The next state to expand; one that has been dominated is discarded.     *)
PopDominatedLate(node) ==   \* broken: a dominated one is discarded unpopped
    /\ phase \in {"EHC", "BFS"} /\ todo = {}
    /\ node \in open /\ \A other \in open : ~Before(other, node)
    /\ IF node.state.id \in dominated THEN UNCHANGED <<open, curr, todo>>
       ELSE /\ open' = open \ {node} /\ curr' = node
            /\ todo' = {m \in moves : m.from = node.state.base /\
                         (phase = "EHC" /\ options.helpful => m.helpful)}
    /\ UNCHANGED <<options, storeVars, moves, phase, best, created, sightings>>
Pop(node) ==
    /\ phase \in {"EHC", "BFS"} /\ todo = {}
    /\ node \in open /\ \A other \in open : ~Before(other, node)
    /\ open' = open \ {node}
    /\ IF node.state.id \in dominated THEN UNCHANGED <<curr, todo>>
       ELSE /\ curr' = node
            /\ todo' = {m \in moves : m.from = node.state.base /\
                         (phase = "EHC" /\ options.helpful => m.helpful)}
    /\ UNCHANGED <<options, storeVars, moves, phase, best, created, sightings>>

Drop(m) ==
    /\ m \in todo /\ DroppedEarly(m)
    /\ todo' = todo \ {m}
    /\ UNCHANGED <<options, storeVars, moves, phase, curr, open, best, created, sightings>>

(* The state that m leads to by way of n, of the given category, is stored *)
(* and, if "visited", evaluated.                                           *)
Store(m, n, e, visited) ==
    LET s == FinalState(m, n)
    IN /\ Insert(s, e, visited, n.h # -1,
                 IF curr.state.id \in dominated THEN {s.id} ELSE {})
       /\ created' = created + 1
       /\ sightings' = sightings \cup
              {[state |-> x, phase |-> phase, live |-> n.h # -1,
                category |-> Category(x, e)] : x \in {y \in {s} : visited}}
       /\ UNCHANGED <<options, moves>>

(* What becomes of the successor.                                          *)
Prune == UNCHANGED <<phase, curr, open, best>>
FindGoal == phase' = "solved" /\ UNCHANGED <<curr, open, best>>
Commit(node, n) ==         \* EHC starts over from the new state
    /\ open' = {node}
    /\ best' = [h |-> n.h, est |-> n.est]
    /\ UNCHANGED <<phase, curr>>
EnqueueAlone(node, n) ==   \* broken: the other states are cleared, too
    /\ open' = {node}
    /\ best' = IF Improves(n) THEN [h |-> n.h, est |-> n.est] ELSE best
    /\ UNCHANGED <<phase, curr>>
Enqueue(node, n) ==
    /\ open' = open \cup {node}
    /\ best' = IF Improves(n) THEN [h |-> n.h, est |-> n.est] ELSE best
    /\ UNCHANGED <<phase, curr>>

Try(m) ==
    /\ m \in todo /\ ~DroppedEarly(m) /\ created < MaxStates
    /\ \E n \in Finals(m) : \E e \in Lookup(FinalState(m, n)) :
          LET category == Category(FinalState(m, n), e)
              visited == Visits(category)
              node == Node(m, n, category)
              commits == phase = "EHC" /\ Improves(n)
          IN /\ Store(m, n, e, visited)
             /\ \/ (~visited \/ n.h = -1) /\ Prune /\ todo' = todo \ {m}
                \/ visited /\ n.h = 0 /\ FindGoal /\ todo' = {}
                \/ visited /\ n.h > 0 /\ commits /\ Commit(node, n)
                   /\ todo' = IF options.steepest THEN todo \ {m} ELSE {}
                \/ visited /\ n.h > 0 /\ ~commits /\ Enqueue(node, n)
                   /\ todo' = todo \ {m}

(* EHC has failed: everything is forgotten but the initial state.          *)
Exhausted == todo = {} /\ open = {}
SwitchKeepingStore ==   \* broken: visitedStates is not cleared
    /\ phase = "EHC" /\ Exhausted /\ options.bestFirst
    /\ phase' = "BFS" /\ open' = {RootNode} /\ best' = RootBest
    /\ UNCHANGED <<options, storeVars, moves, curr, todo, created, sightings>>
SwitchToBestFirst ==
    /\ phase = "EHC" /\ Exhausted /\ options.bestFirst
    /\ phase' = "BFS" /\ open' = {RootNode} /\ best' = RootBest
    /\ stored' = {Clone} /\ pareto' = {Clone}
    /\ UNCHANGED <<options, dominated, moves, curr, todo, created, sightings>>

GiveUp ==
    /\ phase = "BFS" \/ (phase = "EHC" /\ ~options.bestFirst)
    /\ Exhausted
    /\ phase' = "unsolvable"
    /\ UNCHANGED <<options, storeVars, moves, curr, todo, open, best, created, sightings>>

Ended == phase \in {"solved", "unsolvable"}
SearchNext ==
    \/ \E node \in open : Pop(node)
    \/ \E m \in todo : Drop(m) \/ Try(m)
    \/ SwitchToBestFirst \/ GiveUp

SearchSpec == SearchInit /\ [][SearchNext]_allVars /\ WF_allVars(SearchNext)

-----------------------------------------------------------------------------
SearchTypes ==
    /\ options \in CommandLines /\ moves \subseteq Graph
    /\ phase \in {"EHC", "BFS", "solved", "unsolvable"}
    /\ todo \subseteq moves /\ created \in 1 .. MaxStates
    /\ \A e \in stored \cup pareto : e.base \in Bases /\ e.time \in Nat
    /\ \A node \in open : node.h > 0 /\ node.state.back = NoAction
    /\ dominated \subseteq -1 .. created

(* The states, with times, that sound moves lead to, dead ends aside.      *)
Onward(ps) == {q \in moves \X ps : q[1].from = q[2][1] /\ Sound(q[1], q[2][2])
                                     /\ q[1].h > 0}
Within[k \in Nat] ==
    IF k = 0 THEN {<<Root, 0>>}
    ELSE Within[k - 1] \cup
         {<<q[1].to, Arrival(q[1], q[2][2])>> : q \in Onward(Within[k - 1])}
Reachable == Within[Cardinality(Bases)]
Solvable == \E m \in moves : m.h = 0 /\
                \E p \in Reachable : p[1] = m.from /\ Sound(m, p[2])
DeadEndsAreStates ==
    \A m, n \in moves : m.to = n.to /\ m.h = -1 => n.h = -1
GoalsAreStates ==
    \A m \in moves : m.h = 0 =>
        m.to # Root /\ \A n \in moves : m.to = n.to => n.h = 0
UnsolvableIsRight ==
    phase = "unsolvable" /\ options.bestFirst /\ DeadEndsAreStates /\ GoalsAreStates
        => ~Solvable

(* "Problem unsolvable" is right: no sound sequence of moves leads to the  *)
(* goal.  The store may drop a state for an equal one that is not later,   *)
(* if a dead end, or a goal, is one whatever the plan to it; the open lists*)
(* may drop none for good.                                                 *)
VerdictJustified == ~options.dominance => UnsolvableIsRight

(* So it is with dominance, if what dominates a state can move as that can.*)
DominanceIsSimulation ==
    \A m \in moves, b \in Bases : Kin[b] = Kin[m.from] /\ Dominates(b, m.from) =>
        \/ b = m.to
        \/ \E n \in moves : n = [m EXCEPT !.from = b, !.act = n.act]
VerdictJustifiedUnderDominance ==
    options.dominance /\ DominanceIsSimulation => UnsolvableIsRight

(* If every start is kept on the queue until the action ends, search ends: *)
(* a state is not visited for ever by ever longer plans.                   *)
SearchEnds == (\A m \in moves : m.kind # "SAFE") ~> Ended

(* No state is visited again unless reached earlier, except that dead ends *)
(* and states that a compression-safe start leads to are.                  *)
VisitedOnce ==
    \A s, t \in sightings :
        /\ s.state.id < t.state.id /\ s.phase = t.phase
        /\ s.state.base = t.state.base /\ s.live /\ t.live
        /\ \A m \in moves : m.to = s.state.base => m.kind # "SAFE"
        => t.state.time < s.state.time

(* No stored state is better than all undominated ones of its kind, which  *)
(* is why a state new to those is new to the others (asserted).            *)
UndominatedCoverStored ==
    options.dominance =>
        /\ \A e \in stored : \E p \in Rivals(e.base) : ~Beats(e.base, p.base)
        /\ \A p, q \in pareto : Kin[p.base] = Kin[q.base] =>
                                     ~Dominates(p.base, q.base)

(* Best-first search loses no open state but the one expanded and dominated*)
(* ones.  EHC, when it commits itself, loses those not better than where it*)
(* goes on.                                                                *)
LosesNothingBetter ==
    [][\A node \in open \ open' :
          \/ node = curr' \/ node.state.id \in dominated
          \/ /\ phase = "EHC"
             /\ \E other \in open' \ open :
                    other.h < node.h \/ (options.tieBreak /\ other.h = node.h)]_allVars
=============================================================================
