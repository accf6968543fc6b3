---------------------------- MODULE SearchTheorems ----------------------------
(***************************************************************************)
(* What FF::search and the store of visited states keep true for every     *)
(* graph of moves and every command line.  Best-first search without       *)
(* dominance expands, or keeps open, an entry no later than each state it  *)
(* has come across; when it gives up, nothing sound is left to try.        *)
(***************************************************************************)
EXTENDS Search, TLAPS, FiniteSetTheorems, WellFoundedInduction

(* The states that the search refers to are numbered as they are created.  *)
EntryRecords == [id : Nat \cup {-1}, base : Bases, back : STRING \cup {NoAction}, time : Nat]
StateOK(s) == s.base \in Bases /\ s.time \in Nat /\ s.id \in -1..created - 1
NumberedStates ==
    /\ \A e \in stored : e \in EntryRecords
    /\ StateOK(curr.state)
    /\ \A p \in pareto : StateOK(p)
    /\ \A node \in open : StateOK(node.state) /\ node.h \in Nat
    /\ \A x \in sightings : StateOK(x.state)
    /\ best.h \in Nat
Phases ==
    /\ \A x \in sightings : /\ x.phase \in {"EHC", "BFS"}
                            /\ phase = "EHC" => x.phase = "EHC"
    /\ \A m \in todo : m.from = curr.state.base
    /\ Ended => todo = {}
BasicInv == SearchTypes /\ NumberedStates /\ Phases

(* In enforced hill-climbing no open state is better than the best so far. *)
ClimbsFromBest == phase = "EHC" => \A node \in open : best.h <= node.h

(* A state that no compression-safe start leads to has one entry, which is *)
(* no later than any live visit of the phase to that state.                *)
NoSafeWay(b) == \A m \in moves : m.to = b => m.kind # "SAFE"
SingleEntries ==
    \A e \in stored : NoSafeWay(e.base) =>
        e.back = NoAction /\ \A f \in stored : f.base = e.base => f = e
VisitsRecorded ==
    \A x \in sightings : (x.phase = phase /\ x.live /\ NoSafeWay(x.state.base)) =>
        \E e \in stored : e.base = x.state.base /\ e.time <= x.state.time

(* Best-first search without dominance: each entry that is not a dead end  *)
(* is open, at its time or earlier; or every move from there is still to   *)
(* try, or unsound, or led to a dead end or a state that has an entry.     *)
Reached(b, time) == \E e \in stored : e.base = b /\ e.time <= time
Handled(m, time) ==
    Sound(m, time) => m.h # 0 /\ (m.h > 0 => Reached(m.to, Arrival(m, time)))
Alive(e) == e = Clone \/ \A m \in moves : m.to = e.base => m.h # -1
Expanded(e) ==
    \/ \E node \in open : node.state.base = e.base /\ node.state.time <= e.time
    \/ \A m \in moves : m.from = e.base =>
          \/ m \in todo /\ curr.state.time <= e.time
          \/ Handled(m, e.time)
InBestFirst == phase = "BFS" \/ (phase = "unsolvable" /\ options.bestFirst)
AllExpanded ==
    /\ Clone \in stored
    /\ \A e \in stored : \A m \in moves : m.to = e.base => m.h # 0
    /\ \A e \in stored : Alive(e) => Expanded(e)
    /\ phase = "unsolvable" => open = {}
BestFirstInv ==
    (InBestFirst /\ ~options.dominance /\ DeadEndsAreStates /\ GoalsAreStates)
        => AllExpanded
NoneDominated == ~options.dominance => dominated = {}

-----------------------------------------------------------------------------
LEMMA MoveTypes ==
    ASSUME SearchTypes, NEW m \in moves
    PROVE  /\ m.from \in Bases /\ m.to \in Bases /\ m.dt \in Nat /\ m.by \in Nat
           /\ m.h \in Nat \cup {-1} /\ m.act \in STRING
           /\ m.kind \in {"INSTANT", "START", "END", "SAFE", "TIL"}
<1>1. m \in MoveRecords
  BY SearchAssumption DEF SearchTypes
<1> QED BY <1>1 DEF MoveRecords

(* The successor of a state by a move.                                     *)
LEMMA ChildState ==
    ASSUME SearchTypes, NEW m \in moves, NEW s, s.time \in Nat
    PROVE  /\ Child(m, s) \in EntryRecords
           /\ Child(m, s).base = m.to /\ Child(m, s).id = created
           /\ Child(m, s).time = Arrival(m, s.time) /\ Child(m, s).time \in Nat
           /\ m.kind # "SAFE" => Child(m, s).back = NoAction
           /\ [Child(m, s) EXCEPT !.back = NoAction].base = m.to
           /\ [Child(m, s) EXCEPT !.back = NoAction].id = created
           /\ [Child(m, s) EXCEPT !.back = NoAction].time = Arrival(m, s.time)
           /\ [Child(m, s) EXCEPT !.back = NoAction].back = NoAction
<1>1. m.dt \in Nat /\ m.by \in Nat /\ m.to \in Bases /\ m.act \in STRING
  BY MoveTypes
<1>2. Arrival(m, s.time) \in Nat /\ created \in Nat
  BY <1>1 DEF Arrival, SearchTypes
<1> QED BY <1>1, <1>2 DEF Child, EntryRecords

(* Try(m), with what it picks: the last move n, the entry e looked up.     *)
Tries(m, n, e) ==
    LET s == FinalState(m, n)
        category == Category(s, e)
        node == Node(m, n, category)
        commits == phase = "EHC" /\ Improves(n)
    IN /\ m \in todo /\ ~DroppedEarly(m) /\ created < MaxStates
       /\ n \in Finals(m) /\ e \in Lookup(s)
       /\ Store(m, n, e, Visits(category))
       /\ \/ (~Visits(category) \/ n.h = -1) /\ Prune /\ todo' = todo \ {m}
          \/ Visits(category) /\ n.h = 0 /\ FindGoal /\ todo' = {}
          \/ Visits(category) /\ n.h > 0 /\ commits /\ Commit(node, n)
             /\ todo' = IF options.steepest THEN todo \ {m} ELSE {}
          \/ Visits(category) /\ n.h > 0 /\ ~commits /\ Enqueue(node, n)
             /\ todo' = todo \ {m}

LEMMA TryTries ==
    ASSUME NEW m, Try(m)
    PROVE  \E n \in Finals(m) : \E e \in Lookup(FinalState(m, n)) : Tries(m, n, e)
<1>1. PICK n \in Finals(m) : \E e \in Lookup(FinalState(m, n)) :
         LET category == Category(FinalState(m, n), e)
             visited == Visits(category)
             node == Node(m, n, category)
             commits == phase = "EHC" /\ Improves(n)
         IN /\ Store(m, n, e, visited)
            /\ \/ (~visited \/ n.h = -1) /\ Prune /\ todo' = todo \ {m}
               \/ visited /\ n.h = 0 /\ FindGoal /\ todo' = {}
               \/ visited /\ n.h > 0 /\ commits /\ Commit(node, n)
                  /\ todo' = IF options.steepest THEN todo \ {m} ELSE {}
               \/ visited /\ n.h > 0 /\ ~commits /\ Enqueue(node, n)
                  /\ todo' = todo \ {m}
  BY DEF Try
<1> QED BY <1>1 DEF Try, Tries

(* The state that a try reaches, and the node it may open there.           *)
LEMMA FinalStates ==
    ASSUME BasicInv, NEW m, NEW n, NEW e, Tries(m, n, e)
    PROVE  LET s == FinalState(m, n)
               node == Node(m, n, Category(s, e))
           IN /\ m \in moves /\ n \in moves
              /\ s \in EntryRecords
              /\ s.base = n.to /\ s.base \in Bases /\ s.id = created /\ s.time \in Nat
              /\ n.kind # "SAFE" => s.back = NoAction
              /\ ~Leaps(m) => n = m /\ s.time = Arrival(m, curr.state.time)
              /\ node.h = n.h /\ node.state.base = s.base /\ node.state.time = s.time
              /\ node.state.id = created /\ node.state.back = NoAction
<1> DEFINE c == Child(m, curr.state)
<1>1. m \in moves /\ SearchTypes /\ curr.state.time \in Nat
  BY DEF Tries, BasicInv, SearchTypes, NumberedStates, StateOK
<1>2. /\ c \in EntryRecords /\ c.base = m.to /\ c.id = created /\ c.time \in Nat
      /\ c.time = Arrival(m, curr.state.time) /\ (m.kind # "SAFE" => c.back = NoAction)
      /\ [c EXCEPT !.back = NoAction].base = m.to
      /\ [c EXCEPT !.back = NoAction].id = created
      /\ [c EXCEPT !.back = NoAction].time = Arrival(m, curr.state.time)
      /\ [c EXCEPT !.back = NoAction].back = NoAction
  BY <1>1, ChildState
<1> HIDE DEF c
<1>3. n \in Finals(m)
  BY DEF Tries
<1>4. CASE ~Leaps(m)
  <2>1. n = m
    BY <1>3, <1>4 DEF Finals
  <2>2. FinalState(m, n) = c
    BY <1>4 DEF FinalState, c
  <2>3. Node(m, n, Category(c, e)).state = [c EXCEPT !.back = NoAction]
        /\ Node(m, n, Category(c, e)).h = n.h
    BY <2>2 DEF Node
  <2>4. m.to \in Bases
    BY <1>1, MoveTypes
  <2> QED BY <1>1, <1>2, <1>4, <2>1, <2>2, <2>3, <2>4
<1>5. CASE Leaps(m)
  <2>1. n \in moves
    BY <1>3, <1>5 DEF Finals, NextTIL
  <2> DEFINE d == Child(n, c)
  <2>2. /\ d \in EntryRecords /\ d.base = n.to /\ d.id = created /\ d.time \in Nat
        /\ d.time = Arrival(n, c.time) /\ (n.kind # "SAFE" => d.back = NoAction)
        /\ [d EXCEPT !.back = NoAction].base = n.to
        /\ [d EXCEPT !.back = NoAction].id = created
        /\ [d EXCEPT !.back = NoAction].time = Arrival(n, c.time)
        /\ [d EXCEPT !.back = NoAction].back = NoAction
    BY <1>1, <1>2, <2>1, ChildState
  <2>3. FinalState(m, n) = d
    BY <1>5 DEF FinalState, c
  <2> HIDE DEF d
  <2>4. Node(m, n, Category(d, e)).state = [d EXCEPT !.back = NoAction]
        /\ Node(m, n, Category(d, e)).h = n.h
    BY <2>3 DEF Node
  <2>5. n.to \in Bases
    BY <1>1, <2>1, MoveTypes
  <2> QED BY <1>1, <1>5, <2>1, <2>2, <2>3, <2>4, <2>5
<1> QED BY <1>4, <1>5

(* What insertState makes of the store: the entry looked up is the one that *)
(* changes, if the state is visited; or a new one is added.                *)
Inserted(s, e, visited, live) ==
    /\ \A f \in stored' :
          \/ f \in stored /\ (visited => f # e)
          \/ /\ e \notin stored
             /\ f.base = s.base /\ f.time = s.time /\ f.id = s.id
             /\ f.back = IF visited THEN NoAction ELSE s.back
          \/ /\ e \in stored /\ visited
             /\ f.base = s.base /\ f.id = e.id /\ f.back = e.back
             /\ f.time = IF live THEN s.time ELSE e.time
             /\ ~live => f = e
    /\ \A f \in stored : f \in stored' \/ (f = e /\ visited)
    /\ e \notin stored => \E f \in stored' :
          f.base = s.base /\ f.time = s.time /\ f.id = s.id
    /\ (e \in stored /\ visited) => \E f \in stored' :
          f.base = s.base /\ f.id = e.id
          /\ f.time = IF live THEN s.time ELSE e.time
    /\ e \in stored => e.base = s.base /\ e.back = s.back
    /\ e \notin stored => \A f \in stored : f.base # s.base \/ f.back # s.back
    /\ \A f \in stored' : f \in EntryRecords
    /\ \A f, g \in stored' : f \in stored \ {e} \/ g \in stored \ {e} \/ f = g

LEMMA NewEntries ==
    ASSUME \A f \in stored : f \in EntryRecords,
           NEW s \in EntryRecords, NEW e \in Lookup(s), NEW visited \in BOOLEAN,
           NEW live \in BOOLEAN, NEW inherited,
           Insert(s, e, visited, live, inherited)
    PROVE  Inserted(s, e, visited, live)
<1>1. /\ e \in stored => e.base = s.base /\ e.back = s.back
      /\ e \notin stored => \A f \in stored : f.base # s.base \/ f.back # s.back
  BY DEF Lookup, NoEntry, EntryRecords
<1> DEFINE t == [s EXCEPT !.back = IF visited THEN NoAction ELSE @]
           u == Updated(e, s, live)
<1>2. /\ t \in EntryRecords /\ t.base = s.base /\ t.time = s.time /\ t.id = s.id
      /\ t.back = IF visited THEN NoAction ELSE s.back
  BY DEF EntryRecords
<1>3. ASSUME e \in stored
      PROVE  /\ u \in EntryRecords /\ u.base = e.base /\ u.id = e.id /\ u.back = e.back
             /\ u.time = (IF live THEN s.time ELSE e.time) /\ (~live => u = e)
  BY <1>3 DEF EntryRecords, Updated
<1>4. stored' = IF e \notin stored THEN stored \cup {t}
                ELSE IF visited THEN (stored \ {e}) \cup {u} ELSE stored
  BY DEF Insert
<1> HIDE DEF t, u
<1>5. CASE e \notin stored
  <2>1. stored' = stored \cup {t}
    BY <1>4, <1>5
  <2> QED BY <1>1, <1>2, <1>5, <2>1 DEF Inserted
<1>6. CASE e \in stored /\ ~visited
  <2>1. stored' = stored
    BY <1>4, <1>6
  <2> QED BY <1>1, <1>6, <2>1 DEF Inserted
<1>7. CASE e \in stored /\ visited
  <2>1. stored' = (stored \ {e}) \cup {u}
    BY <1>4, <1>7
  <2>2. u.base = s.base
    BY <1>1, <1>3, <1>7
  <2> QED BY <1>1, <1>3, <1>7, <2>1, <2>2 DEF Inserted
<1> QED BY <1>5, <1>6, <1>7

-----------------------------------------------------------------------------
LEMMA InitBasic ==
    ASSUME SearchInit
    PROVE  BasicInv
<1>1. Root \in Bases /\ RootH \in Nat \ {0} /\ MaxStates \in Nat \ {0}
      /\ Graph \subseteq MoveRecords
  BY StoreAssumption, SearchAssumption
<1>2. Clone \in EntryRecords /\ Clone.base = Root /\ Clone.time = 0 /\ Clone.id = -1
  BY <1>1 DEF Clone, EntryRecords
<1>3. /\ RootNode.state.base = Root /\ RootNode.state.time = 0 /\ RootNode.state.id = 0
      /\ RootNode.state.back = NoAction /\ RootNode.h = RootH /\ RootBest.h = RootH
  BY DEF RootNode, RootState, RootBest
<1>4. SearchTypes
  BY <1>1, <1>2, <1>3 DEF SearchInit, SearchTypes
<1>5. NumberedStates
  BY <1>1, <1>2, <1>3 DEF SearchInit, NumberedStates, StateOK
<1>6. Phases
  BY DEF SearchInit, Phases, Ended
<1> QED BY <1>4, <1>5, <1>6 DEF BasicInv

LEMMA PopBasic ==
    ASSUME BasicInv, NEW node \in open, Pop(node)
    PROVE  BasicInv'
<1>1. UNCHANGED <<options, storeVars, moves, phase, best, created, sightings>>
      /\ open' = open \ {node} /\ (Ended => FALSE)
  BY DEF Pop, Ended
<1>2. \/ UNCHANGED <<curr, todo>>
      \/ curr' = node /\ todo' = {m \in moves : m.from = node.state.base /\
                         (phase = "EHC" /\ options.helpful => m.helpful)}
  BY DEF Pop
<1>3. SearchTypes'
  BY <1>1, <1>2 DEF BasicInv, SearchTypes, storeVars
<1>4. NumberedStates'
  BY <1>1, <1>2 DEF BasicInv, NumberedStates, StateOK, storeVars
<1>5. Phases'
  BY <1>1, <1>2 DEF BasicInv, Phases, Ended
<1> QED BY <1>3, <1>4, <1>5 DEF BasicInv

LEMMA DropBasic ==
    ASSUME BasicInv, NEW m, Drop(m)
    PROVE  BasicInv'
<1>1. UNCHANGED <<options, storeVars, moves, phase, curr, open, best, created, sightings>>
      /\ todo' = todo \ {m}
  BY DEF Drop
<1>3. SearchTypes'
  BY <1>1 DEF BasicInv, SearchTypes, storeVars
<1>4. NumberedStates'
  BY <1>1 DEF BasicInv, NumberedStates, StateOK, storeVars
<1>5. Phases'
  BY <1>1 DEF BasicInv, Phases, Ended
<1> QED BY <1>3, <1>4, <1>5 DEF BasicInv

(* What a try does, with what it inserts.                                  *)
Effects(m, n, e, s, visited, node) ==
    /\ phase \in {"EHC", "BFS"} /\ UNCHANGED <<options, moves, curr>>
    /\ created \in Nat /\ created + 1 <= MaxStates /\ created' = created + 1
    /\ todo' \subseteq todo \ {m} /\ m.from = curr.state.base
    /\ sightings' = sightings \cup
           {[state |-> x, phase |-> phase, live |-> n.h # -1,
             category |-> Category(x, e)] : x \in {y \in {s} : visited}}
    /\ Insert(s, e, visited, n.h # -1,
              IF curr.state.id \in dominated THEN {s.id} ELSE {})
    /\ e \in Lookup(s) /\ visited \in BOOLEAN
    /\ phase' = phase \/ (phase' = "solved" /\ todo' = {})
    /\ \/ UNCHANGED <<open, best>>
       \/ n.h > 0 /\ n.h \in Nat /\ open' \subseteq open \cup {node}
          /\ (best' = best \/ best'.h = n.h)

LEMMA TryEffects ==
    ASSUME BasicInv, NEW m, NEW n, NEW e, Tries(m, n, e)
    PROVE  LET s == FinalState(m, n)
               visited == Visits(Category(s, e))
               node == Node(m, n, Category(s, e))
           IN Effects(m, n, e, s, visited, node)
<1> DEFINE s == FinalState(m, n)
           visited == Visits(Category(s, e))
           node == Node(m, n, Category(s, e))
           commits == phase = "EHC" /\ Improves(n)
<1>1. /\ m \in todo /\ created < MaxStates /\ e \in Lookup(s)
      /\ Store(m, n, e, visited)
      /\ \/ (~visited \/ n.h = -1) /\ Prune /\ todo' = todo \ {m}
         \/ visited /\ n.h = 0 /\ FindGoal /\ todo' = {}
         \/ visited /\ n.h > 0 /\ commits /\ Commit(node, n)
            /\ todo' = IF options.steepest THEN todo \ {m} ELSE {}
         \/ visited /\ n.h > 0 /\ ~commits /\ Enqueue(node, n)
            /\ todo' = todo \ {m}
  BY DEF Tries
<1>2. visited \in BOOLEAN
  BY DEF Visits
<1> HIDE DEF s, visited, node, commits
<1>3. todo # {} /\ ~Ended /\ phase \in {"EHC", "BFS"} /\ m.from = curr.state.base
  BY <1>1 DEF BasicInv, Phases, SearchTypes, Ended
<1>4. created \in Nat /\ MaxStates \in Nat /\ created + 1 <= MaxStates
  BY <1>1, SearchAssumption DEF BasicInv, SearchTypes
<1>5. n.h > 0 => n.h \in Nat
  <2>1. n \in moves
    BY FinalStates
  <2> QED BY <2>1, MoveTypes DEF BasicInv
<1>6. /\ UNCHANGED <<options, moves>> /\ created' = created + 1
      /\ sightings' = sightings \cup
             {[state |-> x, phase |-> phase, live |-> n.h # -1,
               category |-> Category(x, e)] : x \in {y \in {s} : visited}}
      /\ Insert(s, e, visited, n.h # -1,
                IF curr.state.id \in dominated THEN {s.id} ELSE {})
  BY <1>1 DEF Store, s
<1>7. /\ UNCHANGED curr /\ todo' \subseteq todo \ {m}
      /\ phase' = phase \/ (phase' = "solved" /\ todo' = {})
      /\ \/ UNCHANGED <<open, best>>
         \/ n.h > 0 /\ open' \subseteq open \cup {node}
            /\ (best' = best \/ best'.h = n.h)
  <2>1. CASE Prune /\ todo' = todo \ {m}
    BY <2>1 DEF Prune
  <2>2. CASE FindGoal /\ todo' = {}
    BY <2>2 DEF FindGoal
  <2>3. CASE n.h > 0 /\ Commit(node, n)
             /\ todo' = IF options.steepest THEN todo \ {m} ELSE {}
    BY <2>3 DEF Commit
  <2>4. CASE n.h > 0 /\ Enqueue(node, n) /\ todo' = todo \ {m}
    BY <2>4 DEF Enqueue
  <2> QED BY <1>1, <2>1, <2>2, <2>3, <2>4
<1>8. Effects(m, n, e, s, visited, node)
  BY <1>1, <1>2, <1>3, <1>4, <1>5, <1>6, <1>7 DEF Effects
<1> QED BY <1>8 DEF s, visited, node

LEMMA TryBasic ==
    ASSUME BasicInv, NEW m, NEW n, NEW e, Tries(m, n, e)
    PROVE  BasicInv'
<1> DEFINE s == FinalState(m, n)
           visited == Visits(Category(s, e))
           node == Node(m, n, Category(s, e))
           inherited == IF curr.state.id \in dominated THEN {s.id} ELSE {}
<1>1. /\ phase \in {"EHC", "BFS"} /\ UNCHANGED <<options, moves, curr>>
      /\ created \in Nat /\ created + 1 <= MaxStates /\ created' = created + 1
      /\ todo' \subseteq todo \ {m} /\ m.from = curr.state.base
      /\ sightings' = sightings \cup
             {[state |-> x, phase |-> phase, live |-> n.h # -1,
               category |-> Category(x, e)] : x \in {y \in {s} : visited}}
      /\ Insert(s, e, visited, n.h # -1, inherited)
      /\ e \in Lookup(s) /\ visited \in BOOLEAN
      /\ phase' = phase \/ (phase' = "solved" /\ todo' = {})
      /\ \/ UNCHANGED <<open, best>>
         \/ n.h > 0 /\ n.h \in Nat /\ open' \subseteq open \cup {node}
            /\ (best' = best \/ best'.h = n.h)
  <2>1. Effects(m, n, e, s, visited, node)
    BY TryEffects
  <2> HIDE DEF s, visited, node
  <2> QED BY <2>1 DEF Effects
<1>2. /\ s \in EntryRecords /\ s.base \in Bases /\ s.id = created /\ s.time \in Nat
      /\ node.h = n.h /\ node.state.base = s.base /\ node.state.time = s.time
      /\ node.state.id = created /\ node.state.back = NoAction
  BY FinalStates
<1> HIDE DEF s, visited, node
<1>0. created \in Nat /\ created' = created + 1
  BY <1>1
<1>3. /\ \A f \in stored' : f \in EntryRecords
  <2>1. \A f \in stored : f \in EntryRecords
    BY DEF BasicInv, NumberedStates
  <2> QED BY <1>1, <1>2, <2>1, NewEntries DEF Inserted
<1>4. \A p \in pareto' : p \in pareto \/ p = s
  BY <1>1 DEF Insert
<1>5. \A d \in dominated' : d \in dominated \/ d = created \/ \E p \in pareto : d = p.id
  BY <1>1, <1>2 DEF Insert, Rivals
<1>6. MaxStates \in Nat
  BY SearchAssumption
<1>7. SearchTypes'
  <2>1. options' \in CommandLines /\ moves' \subseteq Graph /\ todo' \subseteq moves'
        /\ phase' \in {"EHC", "BFS", "solved", "unsolvable"}
    BY <1>1 DEF BasicInv, SearchTypes
  <2>2. created' \in 1 .. MaxStates
    BY <1>1, <1>6
  <2>3. \A f \in stored' \cup pareto' : f.base \in Bases /\ f.time \in Nat
    BY <1>2, <1>3, <1>4 DEF BasicInv, SearchTypes, EntryRecords
  <2>4. \A x \in open' : x.h > 0 /\ x.state.back = NoAction
    BY <1>1, <1>2 DEF BasicInv, SearchTypes
  <2>5. dominated' \subseteq -1 .. created'
    <3>1. \A d \in dominated : d \in -1 .. created
      BY DEF BasicInv, SearchTypes
    <3>2. \A p \in pareto : p.id \in -1 .. created - 1
      BY DEF BasicInv, NumberedStates, StateOK
    <3>3. \A d \in -1 .. created : d \in -1 .. created'
      BY <1>0
    <3>4. \A d \in -1 .. created - 1 : d \in -1 .. created'
      BY <1>0
    <3>5. created \in -1 .. created'
      BY <1>0
    <3> QED BY <1>5, <3>1, <3>2, <3>3, <3>4, <3>5
  <2> QED BY <2>1, <2>2, <2>3, <2>4, <2>5 DEF SearchTypes
<1>8. NumberedStates'
  <2> DEFINE NextOK(x) == x.base \in Bases /\ x.time \in Nat /\ x.id \in -1..created' - 1
  <2>1. \A x : StateOK(x) => NextOK(x)
    <3>1. \A d \in -1 .. created - 1 : d \in -1 .. created' - 1
      BY <1>0
    <3> QED BY <3>1 DEF StateOK
  <2>2. NextOK(s) /\ NextOK(node.state)
    <3>1. created \in -1 .. created' - 1
      BY <1>0
    <3> QED BY <1>2, <3>1
  <2> HIDE DEF NextOK
  <2>3. NextOK(curr'.state)
    BY <1>1, <2>1 DEF BasicInv, NumberedStates
  <2>4. \A p \in pareto' : NextOK(p)
    BY <1>4, <2>1, <2>2 DEF BasicInv, NumberedStates
  <2>5. \A x \in open' : NextOK(x.state) /\ x.h \in Nat
    <3>1. \A x \in open : NextOK(x.state) /\ x.h \in Nat
      BY <2>1 DEF BasicInv, NumberedStates
    <3> QED BY <1>1, <1>2, <2>2, <3>1
  <2>6. \A x \in sightings' : NextOK(x.state)
    <3>1. \A x \in sightings : NextOK(x.state)
      BY <2>1 DEF BasicInv, NumberedStates
    <3> QED BY <1>1, <2>2, <3>1
  <2>7. best'.h \in Nat
    BY <1>1 DEF BasicInv, NumberedStates
  <2> QED BY <1>3, <2>3, <2>4, <2>5, <2>6, <2>7 DEF NumberedStates, StateOK, NextOK
<1>9. Phases'
  <2>1. \A x \in sightings' : x \in sightings \/ x.phase = phase
    BY <1>1
  <2> QED BY <1>1, <2>1 DEF BasicInv, Phases, Ended
<1> QED BY <1>7, <1>8, <1>9 DEF BasicInv

LEMMA SwitchBasic ==
    ASSUME BasicInv, SwitchToBestFirst
    PROVE  BasicInv'
<1>1. /\ phase' = "BFS" /\ open' = {RootNode} /\ best' = RootBest
      /\ stored' = {Clone} /\ pareto' = {Clone} /\ todo = {}
      /\ UNCHANGED <<options, dominated, moves, curr, todo, created, sightings>>
  BY DEF SwitchToBestFirst, Exhausted
<1>2. Root \in Bases /\ RootH \in Nat \ {0}
  BY StoreAssumption, SearchAssumption
<1>3. Clone \in EntryRecords /\ Clone.base = Root /\ Clone.time = 0 /\ Clone.id = -1
  BY <1>2 DEF Clone, EntryRecords
<1>4. /\ RootNode.state.base = Root /\ RootNode.state.time = 0 /\ RootNode.state.id = 0
      /\ RootNode.state.back = NoAction /\ RootNode.h = RootH /\ RootBest.h = RootH
  BY DEF RootNode, RootState, RootBest
<1>5. SearchTypes'
  BY <1>1, <1>2, <1>3, <1>4 DEF BasicInv, SearchTypes
<1>6. NumberedStates'
  BY <1>1, <1>2, <1>3, <1>4 DEF BasicInv, SearchTypes, NumberedStates, StateOK
<1>7. Phases'
  BY <1>1 DEF BasicInv, Phases, Ended
<1> QED BY <1>5, <1>6, <1>7 DEF BasicInv

LEMMA GiveUpBasic ==
    ASSUME BasicInv, GiveUp
    PROVE  BasicInv'
<1>1. /\ phase' = "unsolvable" /\ todo = {}
      /\ UNCHANGED <<options, storeVars, moves, curr, todo, open, best, created, sightings>>
  BY DEF GiveUp, Exhausted
<1>2. SearchTypes'
  BY <1>1 DEF BasicInv, SearchTypes, storeVars
<1>3. NumberedStates'
  BY <1>1 DEF BasicInv, NumberedStates, StateOK, storeVars
<1>4. Phases'
  BY <1>1 DEF BasicInv, Phases, Ended
<1> QED BY <1>2, <1>3, <1>4 DEF BasicInv

LEMMA NextBasic ==
    ASSUME BasicInv, [SearchNext]_allVars
    PROVE  BasicInv'
<1>1. ASSUME NEW node \in open, Pop(node)  PROVE BasicInv'
  BY <1>1, PopBasic
<1>2. ASSUME NEW m \in todo, Drop(m)  PROVE BasicInv'
  BY <1>2, DropBasic
<1>3. ASSUME NEW m \in todo, Try(m)  PROVE BasicInv'
  BY <1>3, TryTries, TryBasic
<1>4. ASSUME UNCHANGED allVars  PROVE BasicInv'
  BY <1>4 DEF allVars, storeVars, searchVars, BasicInv, SearchTypes, NumberedStates,
              StateOK, Phases, Ended
<1> QED BY <1>1, <1>2, <1>3, <1>4, SwitchBasic, GiveUpBasic DEF SearchNext

(* Whatever the graph and the command line: types.                         *)
THEOREM SearchIsTyped == SearchSpec => []SearchTypes
<1>1. SearchInit => BasicInv
  BY InitBasic
<1>2. BasicInv /\ [SearchNext]_allVars => BasicInv'
  BY NextBasic
<1>3. BasicInv => SearchTypes
  BY DEF BasicInv
<1> QED BY <1>1, <1>2, <1>3, PTL DEF SearchSpec

-----------------------------------------------------------------------------
LEMMA NextClimbs ==
    ASSUME BasicInv, ClimbsFromBest, [SearchNext]_allVars
    PROVE  ClimbsFromBest'
<1>1. ASSUME NEW node \in open, Pop(node)  PROVE ClimbsFromBest'
  BY <1>1 DEF Pop, ClimbsFromBest
<1>2. ASSUME NEW m \in todo, Drop(m)  PROVE ClimbsFromBest'
  BY <1>2 DEF Drop, ClimbsFromBest
<1>3. ASSUME NEW m, NEW n, NEW e, Tries(m, n, e)  PROVE ClimbsFromBest'
  <2> DEFINE node == Node(m, n, Category(FinalState(m, n), e))
  <2>1. /\ node.h = n.h
        /\ n.h \in Nat \cup {-1} /\ best.h \in Nat
    <3>1. n \in moves /\ node.h = n.h
      BY <1>3, FinalStates
    <3>2. n.h \in Nat \cup {-1}
      BY <3>1, MoveTypes DEF BasicInv
    <3> QED BY <3>1, <3>2 DEF BasicInv, NumberedStates
  <2>2. \/ UNCHANGED <<phase, open, best>>
        \/ phase' = "solved"
        \/ Commit(node, n)
        \/ ~(phase = "EHC" /\ Improves(n)) /\ Enqueue(node, n)
    BY <1>3 DEF Tries, Prune, FindGoal
  <2> HIDE DEF node
  <2>3. CASE UNCHANGED <<phase, open, best>>
    BY <2>3 DEF ClimbsFromBest
  <2>4. CASE phase' = "solved"
    BY <2>4 DEF ClimbsFromBest
  <2>5. CASE Commit(node, n)
    BY <2>1, <2>5 DEF Commit, ClimbsFromBest
  <2>6. CASE ~(phase = "EHC" /\ Improves(n)) /\ Enqueue(node, n)
    <3>1. phase = "EHC" => best' = best /\ best.h <= n.h
      BY <2>1, <2>6 DEF Improves, Enqueue
    <3> QED BY <2>1, <2>6, <3>1 DEF Enqueue, ClimbsFromBest
  <2> QED BY <2>2, <2>3, <2>4, <2>5, <2>6
<1>4. ASSUME SwitchToBestFirst \/ GiveUp  PROVE ClimbsFromBest'
  BY <1>4 DEF SwitchToBestFirst, GiveUp, ClimbsFromBest
<1>5. ASSUME UNCHANGED allVars  PROVE ClimbsFromBest'
  BY <1>5 DEF allVars, searchVars, ClimbsFromBest
<1>6. ASSUME NEW m \in todo, Try(m)  PROVE ClimbsFromBest'
  BY <1>3, <1>6, TryTries
<1> QED BY <1>1, <1>2, <1>4, <1>5, <1>6 DEF SearchNext

LEMMA StepLosesNothing ==
    ASSUME BasicInv, ClimbsFromBest, [SearchNext]_allVars,
           NEW node \in open \ open'
    PROVE  \/ node = curr' \/ node.state.id \in dominated
           \/ /\ phase = "EHC"
              /\ \E other \in open' \ open :
                     other.h < node.h \/ (options.tieBreak /\ other.h = node.h)
<1> DEFINE Kept == \/ node = curr' \/ node.state.id \in dominated
                   \/ /\ phase = "EHC"
                      /\ \E other \in open' \ open :
                             other.h < node.h \/ (options.tieBreak /\ other.h = node.h)
<1>1. ASSUME NEW x \in open, Pop(x)  PROVE Kept
  BY <1>1 DEF Pop
<1>2. ASSUME NEW m, NEW n, NEW e, Tries(m, n, e)  PROVE Kept
  <2> DEFINE other == Node(m, n, Category(FinalState(m, n), e))
  <2>1. /\ other.h = n.h /\ other.state.id = created
        /\ n.h \in Nat \cup {-1} /\ best.h \in Nat /\ node.h \in Nat
    <3>1. n \in moves /\ other.h = n.h /\ other.state.id = created
      BY <1>2, FinalStates
    <3>2. n.h \in Nat \cup {-1}
      BY <3>1, MoveTypes DEF BasicInv
    <3> QED BY <3>1, <3>2 DEF BasicInv, NumberedStates
  <2>2. \/ UNCHANGED open
        \/ phase = "EHC" /\ Improves(n) /\ Commit(other, n)
        \/ Enqueue(other, n)
    BY <1>2 DEF Tries, Prune, FindGoal
  <2>3. other \notin open
    <3>1. created \notin -1..created - 1
      BY DEF BasicInv, SearchTypes
    <3> QED BY <2>1, <3>1 DEF BasicInv, NumberedStates, StateOK
  <2> HIDE DEF other
  <2>4. phase = "EHC" /\ Improves(n) /\ Commit(other, n)
    BY <2>2 DEF Enqueue
  <2>5. other \in open' \ open
    BY <2>3, <2>4 DEF Commit
  <2>6. best.h <= node.h
    BY <2>4 DEF ClimbsFromBest
  <2>7. n.h < node.h \/ (options.tieBreak /\ n.h = node.h)
    BY <2>1, <2>4, <2>6 DEF Improves
  <2> QED BY <2>1, <2>4, <2>5, <2>7
<1>3. ASSUME NEW m \in todo, Try(m)  PROVE Kept
  BY <1>2, <1>3, TryTries
<1>4. open' # open
  OBVIOUS
<1>5. ASSUME SwitchToBestFirst  PROVE Kept
  BY <1>5 DEF SwitchToBestFirst, Exhausted
<1>6. ASSUME (\E m \in todo : Drop(m)) \/ GiveUp \/ UNCHANGED allVars  PROVE Kept
  BY <1>4, <1>6 DEF Drop, GiveUp, allVars, searchVars
<1> QED BY <1>1, <1>3, <1>5, <1>6 DEF SearchNext

(* No open state is lost, unless expanded or dominated: hill-climbing gives*)
(* up the others only for a state at least as good as each of them, since  *)
(* bestHeuristic is not above that of any open state.                      *)
THEOREM NothingBetterIsLost == SearchSpec => LosesNothingBetter
<1>1. SearchInit => BasicInv /\ ClimbsFromBest
  <2>1. SearchInit => ClimbsFromBest
    BY SearchAssumption DEF SearchInit, ClimbsFromBest, RootNode, RootBest
  <2> QED BY <2>1, InitBasic
<1>2. BasicInv /\ ClimbsFromBest /\ [SearchNext]_allVars => (BasicInv /\ ClimbsFromBest)'
  BY NextBasic, NextClimbs
<1>3. BasicInv /\ ClimbsFromBest /\ [SearchNext]_allVars =>
        [\A node \in open \ open' :
          \/ node = curr' \/ node.state.id \in dominated
          \/ /\ phase = "EHC"
             /\ \E other \in open' \ open :
                    other.h < node.h \/ (options.tieBreak /\ other.h = node.h)]_allVars
  BY StepLosesNothing
<1> QED BY <1>1, <1>2, <1>3, PTL DEF SearchSpec, LosesNothingBetter

-----------------------------------------------------------------------------
LEMMA LevelsAreIntegers ==
    ASSUME NEW a \in Bases, NEW b \in Bases
    PROVE  /\ DOMAIN Levels[a] = DOMAIN Levels[b]
           /\ \A i \in DOMAIN Levels[b] : Levels[a][i] \in Int
<1>1. Levels[a] \in [DOMAIN Levels[b] -> Int]
  BY StoreAssumption
<1> QED BY <1>1

(* To be no better anywhere is a preorder.                                 *)
LEMMA NoBetterIsReflexive ==
    ASSUME NEW a \in Bases
    PROVE  ~Beats(a, a)
BY LevelsAreIntegers DEF Beats

LEMMA NoBetterIsTransitive ==
    ASSUME NEW a \in Bases, NEW b \in Bases, NEW c \in Bases,
           ~Beats(a, b), ~Beats(b, c)
    PROVE  ~Beats(a, c)
<1>1. DOMAIN Levels[a] = DOMAIN Levels[b]
  BY LevelsAreIntegers
<1> SUFFICES ASSUME NEW i \in DOMAIN Levels[a]
             PROVE  ~(Levels[a][i] > Levels[c][i])
  BY DEF Beats
<1>2. Levels[a][i] \in Int /\ Levels[b][i] \in Int /\ Levels[c][i] \in Int
  BY LevelsAreIntegers
<1>3. ~(Levels[a][i] > Levels[b][i]) /\ ~(Levels[b][i] > Levels[c][i])
  BY <1>1 DEF Beats
<1> QED BY <1>2, <1>3

LEMMA OneCovers ==
    ASSUME pareto = {Clone}, stored = {Clone}
    PROVE  UndominatedCoverStored
<1>1. Clone.base = Root /\ Root \in Bases
  BY StoreAssumption DEF Clone
<1>2. ~Beats(Root, Root)
  BY <1>1, NoBetterIsReflexive
<1> QED BY <1>1, <1>2 DEF UndominatedCoverStored, Rivals, Dominates

(* What becomes of the lists of undominated states on an insertion.        *)
LEMMA InsertCovers ==
    ASSUME \A f \in stored : f \in EntryRecords, \A p \in pareto : p.base \in Bases,
           NEW s \in EntryRecords, NEW e \in Lookup(s), NEW visited \in BOOLEAN,
           NEW live \in BOOLEAN, NEW inherited,
           Insert(s, e, visited, live, inherited),
           options' = options, UndominatedCoverStored
    PROVE  UndominatedCoverStored'
<1> SUFFICES ASSUME options.dominance
             PROVE  /\ \A f \in stored' : \E p \in pareto' :
                          Kin[p.base] = Kin[f.base] /\ ~Beats(f.base, p.base)
                    /\ \A p, q \in pareto' : Kin[p.base] = Kin[q.base] =>
                                                ~Dominates(p.base, q.base)
  BY DEF UndominatedCoverStored, Rivals
<1>1. /\ \A f \in stored : \E p \in pareto :
            Kin[p.base] = Kin[f.base] /\ ~Beats(f.base, p.base)
      /\ \A p, q \in pareto : Kin[p.base] = Kin[q.base] => ~Dominates(p.base, q.base)
  BY DEF UndominatedCoverStored, Rivals
<1>2. \A f \in stored' : f.base = s.base \/ \E g \in stored : g.base = f.base
  BY NewEntries DEF Inserted
<1>3. s.base \in Bases /\ \A f \in stored : f.base \in Bases
  BY DEF EntryRecords
<1>4. CASE PrimaryNew(s.base)
  <2>1. \A p \in pareto : Kin[p.base] = Kin[s.base] => Beats(s.base, p.base)
    BY <1>4 DEF PrimaryNew, Rivals
  <2>2. /\ s \in pareto'
        /\ \A p \in pareto' : p = s \/ (p \in pareto /\
              ~(Kin[p.base] = Kin[s.base] /\ Dominates(s.base, p.base)))
        /\ \A p \in pareto : p \in pareto' \/
              (Kin[p.base] = Kin[s.base] /\ Dominates(s.base, p.base))
    BY <1>4 DEF Insert, Rivals
  <2>3. ~Beats(s.base, s.base)
    BY <1>3, NoBetterIsReflexive
  <2>4. ASSUME NEW f \in stored'
        PROVE  \E p \in pareto' : Kin[p.base] = Kin[f.base] /\ ~Beats(f.base, p.base)
    <3>1. CASE f.base = s.base
      BY <2>2, <2>3, <3>1
    <3>2. CASE \E g \in stored : g.base = f.base
      <4>1. PICK p \in pareto : Kin[p.base] = Kin[f.base] /\ ~Beats(f.base, p.base)
        BY <1>1, <3>2
      <4>2. CASE p \in pareto'
        BY <4>1, <4>2
      <4>3. CASE Kin[p.base] = Kin[s.base] /\ Dominates(s.base, p.base)
        <5>1. ~Beats(p.base, s.base) /\ p.base \in Bases /\ f.base \in Bases
          BY <1>3, <3>2, <4>3 DEF Dominates
        <5>2. ~Beats(f.base, s.base)
          BY <1>3, <4>1, <5>1, NoBetterIsTransitive
        <5> QED BY <2>2, <4>1, <4>3, <5>2
      <4> QED BY <2>2, <4>2, <4>3
    <3> QED BY <1>2, <3>1, <3>2
  <2>5. ASSUME NEW p \in pareto', NEW q \in pareto', Kin[p.base] = Kin[q.base]
        PROVE  ~Dominates(p.base, q.base)
    <3>1. CASE p = s /\ q = s
      BY <2>3, <3>1 DEF Dominates
    <3>2. CASE p = s /\ q # s
      BY <2>2, <2>5, <3>2
    <3>3. CASE p # s /\ q = s
      <4>1. Beats(s.base, p.base)
        BY <2>1, <2>2, <2>5, <3>3
      <4> QED BY <3>3, <4>1 DEF Dominates
    <3>4. CASE p # s /\ q # s
      BY <1>1, <2>2, <2>5, <3>4
    <3> QED BY <3>1, <3>2, <3>3, <3>4
  <2> QED BY <2>4, <2>5
<1>5. CASE ~PrimaryNew(s.base)
  <2>1. pareto' = pareto
    BY <1>5 DEF Insert
  <2>2. \E p \in pareto : Kin[p.base] = Kin[s.base] /\ ~Beats(s.base, p.base)
    BY <1>5 DEF PrimaryNew, Rivals
  <2>3. ASSUME NEW f \in stored'
        PROVE  \E p \in pareto' : Kin[p.base] = Kin[f.base] /\ ~Beats(f.base, p.base)
    BY <1>1, <1>2, <2>1, <2>2
  <2> QED BY <1>1, <2>1, <2>3
<1> QED BY <1>4, <1>5

LEMMA NextCovers ==
    ASSUME BasicInv, UndominatedCoverStored, [SearchNext]_allVars
    PROVE  UndominatedCoverStored'
<1>1. ASSUME UNCHANGED <<options, stored, pareto>>  PROVE UndominatedCoverStored'
  BY <1>1 DEF UndominatedCoverStored, Rivals
<1>2. ASSUME NEW m, NEW n, NEW e, Tries(m, n, e)  PROVE UndominatedCoverStored'
  <2> DEFINE s == FinalState(m, n)
             visited == Visits(Category(s, e))
             inherited == IF curr.state.id \in dominated THEN {s.id} ELSE {}
  <2>1. /\ Insert(s, e, visited, n.h # -1, inherited) /\ options' = options
        /\ e \in Lookup(s) /\ visited \in BOOLEAN
    <3> DEFINE node == Node(m, n, Category(s, e))
    <3>1. Effects(m, n, e, s, visited, node)
      BY <1>2, TryEffects
    <3> HIDE DEF s, visited, node
    <3> QED BY <3>1 DEF Effects
  <2>2. s \in EntryRecords
    BY <1>2, FinalStates
  <2>3. (\A f \in stored : f \in EntryRecords) /\ \A p \in pareto : p.base \in Bases
    BY DEF BasicInv, NumberedStates, SearchTypes
  <2> HIDE DEF s, visited, inherited
  <2> QED BY <2>1, <2>2, <2>3, InsertCovers
<1>3. ASSUME NEW m \in todo, Try(m)  PROVE UndominatedCoverStored'
  BY <1>2, <1>3, TryTries
<1>4. ASSUME SwitchToBestFirst  PROVE UndominatedCoverStored'
  <2>1. pareto' = {Clone} /\ stored' = {Clone}
    BY <1>4 DEF SwitchToBestFirst
  <2>2. Clone.base = Root /\ Root \in Bases
    BY StoreAssumption DEF Clone
  <2>3. ~Beats(Root, Root)
    BY <2>2, NoBetterIsReflexive
  <2> QED BY <2>1, <2>2, <2>3 DEF UndominatedCoverStored, Rivals, Dominates
<1>5. ASSUME \/ \E node \in open : Pop(node)
             \/ \E m \in todo : Drop(m)
             \/ GiveUp \/ UNCHANGED allVars
      PROVE UndominatedCoverStored'
  <2>1. UNCHANGED <<options, stored, pareto>>
    BY <1>5 DEF Pop, Drop, GiveUp, allVars, storeVars
  <2> QED BY <1>1, <2>1
<1> QED BY <1>3, <1>4, <1>5 DEF SearchNext

(* With dominance, no stored state is better, in anything, than all of the *)
(* undominated states of its kind: primaryNewState need walk only those.   *)
THEOREM UndominatedStatesCover == SearchSpec => []UndominatedCoverStored
<1>1. SearchInit => BasicInv /\ UndominatedCoverStored
  <2>1. SearchInit => UndominatedCoverStored
    BY OneCovers DEF SearchInit
  <2> QED BY <2>1, InitBasic
<1>2. BasicInv /\ UndominatedCoverStored /\ [SearchNext]_allVars
        => (BasicInv /\ UndominatedCoverStored)'
  BY NextBasic, NextCovers
<1> QED BY <1>1, <1>2, PTL DEF SearchSpec

-----------------------------------------------------------------------------
(* An equal state is visited only if it is earlier: no entry counts as new *)
(* in the first place.                                                     *)
LEMMA VisitIsEarlier ==
    ASSUME UndominatedCoverStored, NEW s, NEW e \in stored, e.base = s.base,
           Visits(Category(s, e))
    PROVE  s.time < e.time
<1>1. ~PrimaryNew(s.base)
  <2>1. CASE options.dominance
    <3>1. \E p \in Rivals(s.base) : ~Beats(s.base, p.base)
      BY <2>1 DEF UndominatedCoverStored
    <3> QED BY <2>1, <3>1 DEF PrimaryNew
  <2>2. CASE ~options.dominance
    BY <2>2 DEF PrimaryNew
  <2> QED BY <2>1, <2>2
<1>2. Category(s, e) # 0
  BY DEF Visits
<1> QED BY <1>1, <1>2 DEF Category

LEMMA NextSingleEntries ==
    ASSUME BasicInv, SingleEntries, [SearchNext]_allVars
    PROVE  SingleEntries'
<1>1. ASSUME UNCHANGED <<moves, stored>>  PROVE SingleEntries'
  BY <1>1 DEF SingleEntries, NoSafeWay
<1>2. ASSUME NEW m, NEW n, NEW e, Tries(m, n, e)  PROVE SingleEntries'
  <2> DEFINE s == FinalState(m, n)
             visited == Visits(Category(s, e))
             inherited == IF curr.state.id \in dominated THEN {s.id} ELSE {}
  <2>1. /\ Insert(s, e, visited, n.h # -1, inherited) /\ moves' = moves
        /\ e \in Lookup(s) /\ visited \in BOOLEAN
    <3> DEFINE node == Node(m, n, Category(s, e))
    <3>1. Effects(m, n, e, s, visited, node)
      BY <1>2, TryEffects
    <3> HIDE DEF s, visited, node
    <3> QED BY <3>1 DEF Effects
  <2>2. s \in EntryRecords /\ n \in moves /\ s.base = n.to
        /\ (n.kind # "SAFE" => s.back = NoAction)
    BY <1>2, FinalStates
  <2>3. \A f \in stored : f \in EntryRecords
    BY DEF BasicInv, NumberedStates
  <2> HIDE DEF s, visited, inherited
  <2>4. NoSafeWay(s.base) => s.back = NoAction
    BY <2>2 DEF NoSafeWay
  <2>5. \A b : NoSafeWay(b) <=> NoSafeWay(b)'
    BY <2>1 DEF NoSafeWay
  <2>60. Inserted(s, e, visited, n.h # -1)
    BY <2>1, <2>2, <2>3, NewEntries
  <2>6. /\ \A f \in stored' :
                 \/ f \in stored
                 \/ e \notin stored /\ f.base = s.base
                    /\ f.back = IF visited THEN NoAction ELSE s.back
                 \/ e \in stored /\ f.base = s.base /\ f.back = e.back
        /\ e \in stored => e.base = s.base /\ e.back = s.back
        /\ e \notin stored => \A f \in stored : f.base # s.base \/ f.back # s.back
        /\ \A f, g \in stored' : f \in stored \ {e} \/ g \in stored \ {e} \/ f = g
        /\ \A f \in stored' : f \in stored \ {e} \/ f.base = s.base
    BY <2>60 DEF Inserted
  <2>7. ASSUME NEW f \in stored', NoSafeWay(f.base)  PROVE f.back = NoAction
    BY <2>4, <2>6, <2>7 DEF SingleEntries
  <2>8. ASSUME NoSafeWay(s.base), NEW f \in stored, f.base = s.base  PROVE f = e
    BY <2>4, <2>6, <2>8 DEF SingleEntries
  <2>9. ASSUME NEW f \in stored', NEW g \in stored', NoSafeWay(f.base), g.base = f.base
        PROVE  f = g
    <3>1. CASE f.base = s.base
      BY <2>6, <2>8, <2>9, <3>1
    <3>2. CASE f.base # s.base
      BY <2>6, <2>9, <3>2 DEF SingleEntries
    <3> QED BY <3>1, <3>2
  <2> QED BY <2>5, <2>7, <2>9 DEF SingleEntries
<1>3. ASSUME NEW m \in todo, Try(m)  PROVE SingleEntries'
  BY <1>2, <1>3, TryTries
<1>4. ASSUME SwitchToBestFirst  PROVE SingleEntries'
  BY <1>4 DEF SwitchToBestFirst, SingleEntries, NoSafeWay, Clone
<1>5. ASSUME \/ \E node \in open : Pop(node)
             \/ \E m \in todo : Drop(m)
             \/ GiveUp \/ UNCHANGED allVars
      PROVE SingleEntries'
  <2>1. UNCHANGED <<moves, stored>>
    BY <1>5 DEF Pop, Drop, GiveUp, allVars, storeVars, searchVars
  <2> QED BY <1>1, <2>1
<1> QED BY <1>3, <1>4, <1>5 DEF SearchNext

LEMMA NextVisits ==
    ASSUME BasicInv, UndominatedCoverStored, SingleEntries,
           VisitsRecorded, VisitedOnce, [SearchNext]_allVars
    PROVE  VisitsRecorded' /\ VisitedOnce'
<1>1. ASSUME moves' = moves, sightings' = sightings,
             (stored' = stored /\ phase' = phase) \/ Ended' \/ SwitchToBestFirst
      PROVE  VisitsRecorded' /\ VisitedOnce'
  <2>1. VisitedOnce'
    BY <1>1 DEF VisitedOnce
  <2>2. CASE stored' = stored /\ phase' = phase
    BY <1>1, <2>1, <2>2 DEF VisitsRecorded, NoSafeWay
  <2>3. CASE Ended' \/ SwitchToBestFirst
    <3>1. \A x \in sightings' : x.phase # phase'
      BY <1>1, <2>3 DEF BasicInv, Phases, Ended, SwitchToBestFirst
    <3> QED BY <2>1, <3>1 DEF VisitsRecorded
  <2> QED BY <1>1, <2>2, <2>3
<1>2. ASSUME NEW m, NEW n, NEW e, Tries(m, n, e)  PROVE VisitsRecorded' /\ VisitedOnce'
  <2> DEFINE s == FinalState(m, n)
             visited == Visits(Category(s, e))
             inherited == IF curr.state.id \in dominated THEN {s.id} ELSE {}
             v == [state |-> s, phase |-> phase, live |-> n.h # -1,
                   category |-> Category(s, e)]
  <2>1. /\ Insert(s, e, visited, n.h # -1, inherited) /\ moves' = moves
        /\ e \in Lookup(s) /\ visited \in BOOLEAN /\ created \in Nat
        /\ phase' = phase \/ phase' = "solved"
        /\ phase \in {"EHC", "BFS"}
        /\ sightings' = sightings \cup
             {[state |-> x, phase |-> phase, live |-> n.h # -1,
               category |-> Category(x, e)] : x \in {y \in {s} : visited}}
    <3> DEFINE node == Node(m, n, Category(s, e))
    <3>1. Effects(m, n, e, s, visited, node)
      BY <1>2, TryEffects
    <3> HIDE DEF s, visited, node
    <3> QED BY <3>1 DEF Effects
  <2>2. s \in EntryRecords /\ n \in moves /\ s.base = n.to /\ s.id = created
        /\ (n.kind # "SAFE" => s.back = NoAction) /\ s.time \in Nat
    BY <1>2, FinalStates
  <2>3. \A f \in stored : f \in EntryRecords
    BY DEF BasicInv, NumberedStates
  <2>4. v.state = s /\ v.phase = phase /\ (v.live <=> n.h # -1)
    OBVIOUS
  <2>5. \A y \in sightings' : y \in sightings \/ (visited /\ y = v)
    BY <2>1
  <2>6. e \in stored /\ e.base = s.base /\ visited => s.time < e.time
    BY VisitIsEarlier
  <2> HIDE DEF s, visited, inherited, v
  <2>70. Inserted(s, e, visited, n.h # -1)
    BY <2>1, <2>2, <2>3, NewEntries
  <2>7. /\ \A f \in stored : f \in stored' \/ (f = e /\ visited)
        /\ e \notin stored => \E f \in stored' : f.base = s.base /\ f.time = s.time
        /\ (e \in stored /\ visited) => \E f \in stored' :
              f.base = s.base /\ f.time = IF n.h # -1 THEN s.time ELSE e.time
        /\ e \in stored => e.base = s.base /\ e.back = s.back
        /\ e \notin stored => \A f \in stored : f.base # s.base \/ f.back # s.back
    BY <2>70 DEF Inserted
  <2>8. \A f \in stored : f.time \in Int
    BY <2>3 DEF EntryRecords
  <2>9. NoSafeWay(s.base) => s.back = NoAction
    BY <2>2 DEF NoSafeWay
  <2>10. \A b : NoSafeWay(b) <=> NoSafeWay(b)'
    BY <2>1 DEF NoSafeWay
  <2>11. \A y \in sightings : y.state.time \in Int /\ y.state.id < created
    BY <2>1 DEF BasicInv, NumberedStates, StateOK
  (* An entry is replaced by one for the same state that is not later.     *)
  <2>12. \A f \in stored : \E g \in stored' : g.base = f.base /\ g.time <= f.time
    BY <2>2, <2>6, <2>7, <2>8
  <2>13. VisitsRecorded'
    <3> SUFFICES ASSUME NEW y \in sightings', y.phase = phase', y.live,
                        NoSafeWay(y.state.base)'
                 PROVE  \E f \in stored' : f.base = y.state.base /\ f.time <= y.state.time
      BY DEF VisitsRecorded
    <3>1. phase' = phase /\ NoSafeWay(y.state.base)
      BY <2>1, <2>4, <2>5, <2>10 DEF BasicInv, Phases
    <3>2. CASE y \in sightings
      <4>1. PICK f \in stored : f.base = y.state.base /\ f.time <= y.state.time
        BY <3>1, <3>2 DEF VisitsRecorded
      <4>2. PICK g \in stored' : g.base = f.base /\ g.time <= f.time
        BY <2>12
      <4>3. g.time \in Int
        BY <2>70 DEF Inserted, EntryRecords
      <4>4. g.time <= y.state.time
        BY <2>8, <2>11, <3>2, <4>1, <4>2, <4>3
      <4> QED BY <4>1, <4>2, <4>4
    <3>3. CASE visited /\ y = v
      <4>1. \E f \in stored' : f.base = s.base /\ f.time = s.time
        BY <2>4, <2>7, <3>3
      <4>2. s.time <= s.time
        BY <2>2
      <4> QED BY <2>4, <3>3, <4>1, <4>2
    <3> QED BY <2>5, <3>2, <3>3
  <2>14. VisitedOnce'
    <3> SUFFICES ASSUME NEW y \in sightings', NEW z \in sightings',
                        y.state.id < z.state.id, y.phase = z.phase,
                        y.state.base = z.state.base, y.live, z.live,
                        NoSafeWay(y.state.base)'
                 PROVE  z.state.time < y.state.time
      BY DEF VisitedOnce, NoSafeWay
    <3>1. NoSafeWay(y.state.base)
      BY <2>10
    <3>2. CASE y \in sightings /\ z \in sightings
      BY <3>1, <3>2 DEF VisitedOnce, NoSafeWay
    <3>3. CASE y \in sightings /\ visited /\ z = v
      <4>1. PICK f \in stored : f.base = s.base /\ f.time <= y.state.time
        BY <2>4, <3>1, <3>3 DEF VisitsRecorded
      <4>2. f.back = NoAction /\ NoSafeWay(s.base)
        BY <2>4, <3>1, <3>3, <4>1 DEF SingleEntries
      <4>3. e \in stored /\ e = f
        BY <2>7, <2>9, <4>1, <4>2 DEF SingleEntries
      <4>4. s.time < f.time
        BY <2>6, <2>7, <3>3, <4>3
      <4>5. s.time < y.state.time
        BY <2>2, <2>8, <2>11, <3>3, <4>1, <4>4
      <4> QED BY <2>4, <3>3, <4>5
    <3>4. CASE y = v
      <4>1. y.state.id = created
        BY <2>2, <2>4, <3>4
      <4>2. z.state.id <= created
        BY <2>1, <2>2, <2>4, <2>5, <2>11 DEF BasicInv, NumberedStates, StateOK
      <4>3. created \in Int /\ z.state.id \in Int
        BY <2>1, <2>2, <2>4, <2>5 DEF BasicInv, NumberedStates, StateOK
      <4> QED BY <4>1, <4>2, <4>3
    <3> QED BY <2>5, <3>2, <3>3, <3>4
  <2> QED BY <2>13, <2>14
<1>3. ASSUME NEW m \in todo, Try(m)  PROVE VisitsRecorded' /\ VisitedOnce'
  BY <1>2, <1>3, TryTries
<1>4. ASSUME \/ \E node \in open : Pop(node)
             \/ \E m \in todo : Drop(m)
             \/ SwitchToBestFirst \/ GiveUp \/ UNCHANGED allVars
      PROVE VisitsRecorded' /\ VisitedOnce'
  <2>1. moves' = moves /\ sightings' = sightings
        /\ ((stored' = stored /\ phase' = phase) \/ Ended' \/ SwitchToBestFirst)
    BY <1>4 DEF Pop, Drop, GiveUp, SwitchToBestFirst, Ended, allVars, storeVars, searchVars
  <2> QED BY <1>1, <2>1
<1> QED BY <1>3, <1>4 DEF SearchNext

(* No live state is visited again unless it is reached earlier than before,*)
(* compression-safe starts aside: there is one entry to look up, which has *)
(* the time of the last visit.                                             *)
THEOREM StatesAreVisitedOnce == SearchSpec => []VisitedOnce
<1> DEFINE Inv == /\ BasicInv /\ UndominatedCoverStored /\ SingleEntries
                  /\ VisitsRecorded /\ VisitedOnce
<1>1. SearchInit => Inv
  <2>1. SearchInit => UndominatedCoverStored
    BY OneCovers DEF SearchInit
  <2>2. SearchInit => SingleEntries /\ VisitsRecorded /\ VisitedOnce
    BY DEF SearchInit, SingleEntries, VisitsRecorded, VisitedOnce, Clone
  <2> QED BY <2>1, <2>2, InitBasic
<1>2. Inv /\ [SearchNext]_allVars => Inv'
  BY NextBasic, NextCovers, NextSingleEntries, NextVisits
<1>3. Inv => VisitedOnce
  OBVIOUS
<1> HIDE DEF Inv
<1> QED BY <1>1, <1>2, <1>3, PTL DEF SearchSpec

-----------------------------------------------------------------------------
LEMMA InitNoneDominated == SearchInit => NoneDominated
BY DEF SearchInit, NoneDominated

LEMMA NextNoneDominated ==
    ASSUME BasicInv, NoneDominated, [SearchNext]_allVars
    PROVE  NoneDominated'
<1>1. ASSUME NEW m, NEW n, NEW e, Tries(m, n, e)  PROVE NoneDominated'
  <2> DEFINE s == FinalState(m, n)
             visited == Visits(Category(s, e))
             node == Node(m, n, Category(s, e))
  <2>1. Effects(m, n, e, s, visited, node)
    BY <1>1, TryEffects
  <2> HIDE DEF s, visited, node
  <2>2. /\ Insert(s, e, visited, n.h # -1,
                  IF curr.state.id \in dominated THEN {s.id} ELSE {})
        /\ options' = options
    BY <2>1 DEF Effects
  <2> QED BY <2>2 DEF Insert, NoneDominated
<1>2. ASSUME NEW m \in todo, Try(m)  PROVE NoneDominated'
  BY <1>1, <1>2, TryTries
<1>3. ASSUME \/ \E node \in open : Pop(node)
             \/ \E m \in todo : Drop(m)
             \/ SwitchToBestFirst \/ GiveUp \/ UNCHANGED allVars
      PROVE NoneDominated'
  <2>1. UNCHANGED <<options, dominated>>
    BY <1>3 DEF Pop, Drop, GiveUp, SwitchToBestFirst, allVars, storeVars
  <2> QED BY <2>1 DEF NoneDominated
<1> QED BY <1>2, <1>3 DEF SearchNext

(* To be somewhere earlier is never worse.                                 *)
LEMMA EarlierIsNoWorse ==
    ASSUME SearchTypes, NEW m \in moves, NEW t \in Nat, NEW u \in Nat, t <= u
    PROVE  /\ Sound(m, u) => Sound(m, t)
           /\ Arrival(m, t) <= Arrival(m, u)
           /\ Arrival(m, t) \in Nat /\ Arrival(m, u) \in Nat
<1>1. m.dt \in Nat /\ m.by \in Nat
  BY MoveTypes
<1> QED BY <1>1 DEF Sound, Arrival

LEMMA ReachedLater ==
    ASSUME BasicInv, NEW b, NEW t \in Nat, NEW u \in Nat, t <= u, Reached(b, t)
    PROVE  Reached(b, u)
<1>1. PICK e \in stored : e.base = b /\ e.time <= t
  BY DEF Reached
<1>2. e.time \in Nat
  BY DEF BasicInv, SearchTypes
<1>3. e.time <= u
  BY <1>1, <1>2
<1> QED BY <1>1, <1>3 DEF Reached

(* A lookup that says "not worth a visit".                                 *)
LEMMA NotWorthVisiting ==
    ASSUME BasicInv, NEW s \in EntryRecords, NEW e \in Lookup(s),
           ~Visits(Category(s, e)), phase # "EHC"
    PROVE  e \in stored /\ e.base = s.base /\ e.time <= s.time
<1>1. Category(s, e) = 0
  BY DEF Visits
<1>2. e \in stored /\ ~(s.time < e.time)
  BY <1>1 DEF Category
<1>3. e \in EntryRecords /\ e.time \in Nat /\ s.time \in Nat
  BY <1>2 DEF BasicInv, NumberedStates, EntryRecords
<1>4. e.base = s.base
  BY <1>2, <1>3 DEF Lookup, NoEntry, EntryRecords
<1> QED BY <1>2, <1>3, <1>4

(* Popping, dropping, storing: nothing that best-first search has come     *)
(* across gets lost.                                                       *)
LEMMA PopKeepsAll ==
    ASSUME BasicInv, AllExpanded, dominated = {}, phase = "BFS",
           NEW node \in open, Pop(node)
    PROVE  AllExpanded'
<1>1. /\ todo = {} /\ open' = open \ {node} /\ curr' = node
      /\ todo' = {m \in moves : m.from = node.state.base}
      /\ UNCHANGED <<stored, moves, phase>>
  BY DEF Pop, storeVars
<1>2. \A e \in stored : Alive(e) => Alive(e)' /\ Expanded(e)
  BY <1>1 DEF Alive, AllExpanded
<1>3. ASSUME NEW e \in stored, Alive(e)  PROVE Expanded(e)'
  <2>1. \A m, t : Handled(m, t) => Handled(m, t)'
    BY <1>1 DEF Handled, Reached, Sound, Arrival
  <2>2. CASE \E x \in open : x # node /\ x.state.base = e.base /\ x.state.time <= e.time
    BY <1>1, <2>2 DEF Expanded
  <2>3. CASE node.state.base = e.base /\ node.state.time <= e.time
    BY <1>1, <2>3 DEF Expanded
  <2>4. CASE \A m \in moves : m.from = e.base =>
               (m \in todo /\ curr.state.time <= e.time) \/ Handled(m, e.time)
    BY <1>1, <2>1, <2>4 DEF Expanded
  <2> QED BY <1>2, <1>3, <2>2, <2>3, <2>4 DEF Expanded
<1>4. \A e \in stored' : Alive(e)' => e \in stored /\ Alive(e)
  BY <1>1 DEF Alive
<1> QED BY <1>1, <1>3, <1>4 DEF AllExpanded

LEMMA DropKeepsAll ==
    ASSUME BasicInv, AllExpanded, phase = "BFS", NEW m, Drop(m)
    PROVE  AllExpanded'
<1>1. /\ m \in todo /\ m \in moves /\ DroppedEarly(m) /\ todo' = todo \ {m}
      /\ UNCHANGED <<stored, moves, phase, open, curr>>
  BY DEF Drop, storeVars, BasicInv, SearchTypes
<1> DEFINE s == Child(m, curr.state)
           now == curr.state.time
<1>2. now \in Nat /\ SearchTypes
  BY DEF BasicInv, NumberedStates, StateOK
<1>3. s \in EntryRecords /\ s.base = m.to /\ s.time = Arrival(m, now)
  BY <1>1, <1>2, ChildState
<1>4. \/ ~Sound(m, now)
      \/ \E e \in Lookup(s) : ~Visits(Category(s, e))
  BY <1>1 DEF DroppedEarly, Leaps
<1> HIDE DEF s, now
<1>5. Sound(m, now) => m.h # 0 /\ Reached(m.to, Arrival(m, now))
  <2> SUFFICES ASSUME Sound(m, now)
               PROVE  m.h # 0 /\ Reached(m.to, Arrival(m, now))
    OBVIOUS
  <2>1. PICK e \in Lookup(s) : ~Visits(Category(s, e))
    BY <1>4
  <2>2. e \in stored /\ e.base = s.base /\ e.time <= s.time
    BY <1>3, <2>1, NotWorthVisiting
  <2> QED BY <1>1, <1>3, <2>2 DEF AllExpanded, Reached
<1>6. ASSUME NEW t \in Nat, now <= t  PROVE Handled(m, t)
  <2>1. /\ Sound(m, t) => Sound(m, now)
        /\ Arrival(m, now) <= Arrival(m, t)
        /\ Arrival(m, now) \in Nat /\ Arrival(m, t) \in Nat
    BY <1>1, <1>2, <1>6, EarlierIsNoWorse
  <2>2. Reached(m.to, Arrival(m, now)) => Reached(m.to, Arrival(m, t))
    BY <2>1, ReachedLater
  <2> QED BY <1>5, <2>1, <2>2 DEF Handled
<1>7. ASSUME NEW e \in stored, Alive(e)  PROVE Expanded(e)'
  <2>1. e.time \in Nat
    BY DEF BasicInv, SearchTypes
  <2>2. \A k, t : Handled(k, t) => Handled(k, t)'
    BY <1>1 DEF Handled, Reached, Sound, Arrival
  <2>3. Expanded(e)
    BY <1>7 DEF AllExpanded
  <2>4. CASE \E x \in open : x.state.base = e.base /\ x.state.time <= e.time
    BY <1>1, <2>4 DEF Expanded
  <2>5. CASE \A k \in moves : k.from = e.base =>
               (k \in todo /\ now <= e.time) \/ Handled(k, e.time)
    <3>1. ASSUME NEW k \in moves, k.from = e.base
          PROVE  (k \in todo' /\ curr'.state.time <= e.time) \/ Handled(k, e.time)'
      <4>1. CASE k = m /\ now <= e.time
        BY <1>6, <2>1, <2>2, <4>1
      <4>2. CASE k # m /\ k \in todo /\ now <= e.time
        BY <1>1, <4>2 DEF now
      <4>3. CASE Handled(k, e.time)
        BY <2>2, <4>3
      <4> QED BY <2>5, <3>1, <4>1, <4>2, <4>3
    <3> QED BY <1>1, <3>1 DEF Expanded
  <2> QED BY <2>3, <2>4, <2>5 DEF Expanded, now
<1>8. \A e \in stored' : Alive(e)' => e \in stored /\ Alive(e)
  BY <1>1 DEF Alive
<1> QED BY <1>1, <1>7, <1>8 DEF AllExpanded

LEMMA TryKeepsAll ==
    ASSUME BasicInv, AllExpanded, UndominatedCoverStored, GoalsAreStates, phase = "BFS",
           NEW m, NEW n, NEW e, Tries(m, n, e), phase' # "solved"
    PROVE  AllExpanded'
<1> DEFINE s == FinalState(m, n)
           visited == Visits(Category(s, e))
           node == Node(m, n, Category(s, e))
           now == curr.state.time
(* What is done.                                                           *)
<1>1. /\ n = m /\ m \in moves /\ s \in EntryRecords /\ s.base = m.to /\ s.id = created
      /\ s.time = Arrival(m, now) /\ s.time \in Nat
      /\ node.state.base = s.base /\ node.state.time = s.time
  BY FinalStates DEF Leaps
<1>2. /\ UNCHANGED <<moves, curr>> /\ e \in Lookup(s)
      /\ Insert(s, e, visited, n.h # -1,
                IF curr.state.id \in dominated THEN {s.id} ELSE {})
      /\ visited \in BOOLEAN /\ created \in Nat
  <2>1. Effects(m, n, e, s, visited, node)
    BY TryEffects
  <2> HIDE DEF s, visited, node
  <2> QED BY <2>1 DEF Effects
<1>3. /\ phase' = phase /\ todo' = todo \ {m}
      /\ visited => m.h # 0
      /\ (visited /\ m.h > 0) => open' = open \cup {node}
      /\ open \subseteq open'
  BY <1>1 DEF Tries, Prune, FindGoal, Commit, Enqueue
<1>4. Sound(m, now)
  BY DEF Tries, DroppedEarly
<1>5. visited /\ e \in stored /\ e.base = s.base => s.time < e.time
  BY VisitIsEarlier
<1>6. ~visited => e \in stored /\ e.base = s.base /\ e.time <= s.time
  BY <1>1, <1>2, NotWorthVisiting
<1>7. now \in Nat /\ SearchTypes /\ m.h \in Nat \cup {-1} /\ created # 0
      /\ \A f \in stored : f \in EntryRecords /\ f.time \in Nat
  <2>1. now \in Nat /\ SearchTypes
    BY DEF BasicInv, NumberedStates, StateOK
  <2>2. m.h \in Nat \cup {-1}
    BY <1>1, <2>1, MoveTypes
  <2> QED BY <2>1, <2>2 DEF BasicInv, NumberedStates, SearchTypes, EntryRecords
<1> HIDE DEF s, visited, node, now
<1>8. Inserted(s, e, visited, n.h # -1)
  BY <1>1, <1>2, <1>7, NewEntries
<1>9. m.h # 0
  BY <1>1, <1>3, <1>6 DEF AllExpanded
(* The store gets earlier, and holds a state for what the move leads to.   *)
<1>10. /\ \A f \in stored : f \in stored' \/ (f = e /\ visited)
       /\ e \in stored => e.base = s.base
       /\ (e \in stored /\ visited) => \E f \in stored' :
             f.base = s.base /\ f.time = IF m.h # -1 THEN s.time ELSE e.time
       /\ e \notin stored => \E f \in stored' : f.base = s.base /\ f.time = s.time
  BY <1>1, <1>8 DEF Inserted
<1>11. \A f \in stored : \E g \in stored' : g.base = f.base /\ g.time <= f.time
  <2>1. \A f \in stored : f.time <= f.time
    BY <1>7
  <2>2. (e \in stored /\ visited) => \E g \in stored' : g.base = e.base /\ g.time <= e.time
    BY <1>1, <1>5, <1>7, <1>10
  <2> QED BY <1>10, <2>1, <2>2
<1>12. \A f \in stored' : f.time \in Nat
  BY <1>8 DEF Inserted, EntryRecords
<1>13. ASSUME NEW b, NEW t \in Nat, Reached(b, t)  PROVE Reached(b, t)'
  <2>1. PICK f \in stored : f.base = b /\ f.time <= t
    BY <1>13 DEF Reached
  <2>2. PICK g \in stored' : g.base = b /\ g.time <= f.time
    BY <1>11, <2>1
  <2>3. g.time <= t
    BY <1>7, <1>12, <2>1, <2>2
  <2> QED BY <2>2, <2>3 DEF Reached
<1>14. ASSUME NEW k \in moves, NEW t \in Nat, Handled(k, t)  PROVE Handled(k, t)'
  <2>1. Arrival(k, t) \in Nat
    BY <1>7, EarlierIsNoWorse
  <2>2. Reached(k.to, Arrival(k, t)) => Reached(k.to, Arrival(k, t))'
    BY <1>13, <2>1
  <2> QED BY <1>14, <2>2 DEF Handled, Sound, Arrival
<1>15. m.h > 0 => \E f \in stored' : f.base = m.to /\ f.time <= s.time
  <2>1. s.time <= s.time
    BY <1>1
  <2>2. CASE visited \/ e \notin stored
    BY <1>1, <1>6, <1>10, <2>1, <2>2
  <2>3. CASE ~visited
    BY <1>1, <1>6, <1>10, <2>3
  <2> QED BY <1>2, <2>2, <2>3
<1>16. ASSUME NEW t \in Nat, now <= t  PROVE Handled(m, t)'
  <2>1. Arrival(m, now) <= Arrival(m, t) /\ Arrival(m, now) \in Nat /\ Arrival(m, t) \in Nat
    BY <1>1, <1>7, <1>16, EarlierIsNoWorse
  <2>2. ASSUME m.h > 0  PROVE \E f \in stored' : f.base = m.to /\ f.time <= Arrival(m, t)
    <3>1. PICK f \in stored' : f.base = m.to /\ f.time <= s.time
      BY <1>15, <2>2
    <3>2. f.time <= Arrival(m, t)
      BY <1>1, <1>12, <2>1, <3>1
    <3> QED BY <3>1, <3>2
  <2> QED BY <1>9, <2>2 DEF Handled, Reached, Arrival
(* Every entry is expanded, or open.                                       *)
<1>17. ASSUME NEW f \in stored, Alive(f)  PROVE Expanded(f)'
  <2>1. Expanded(f) /\ f.time \in Nat
    BY <1>7, <1>17 DEF AllExpanded
  <2>2. CASE \E x \in open : x.state.base = f.base /\ x.state.time <= f.time
    BY <1>3, <2>2 DEF Expanded
  <2>3. CASE \A k \in moves : k.from = f.base =>
               (k \in todo /\ now <= f.time) \/ Handled(k, f.time)
    <3>1. ASSUME NEW k \in moves, k.from = f.base
          PROVE  (k \in todo' /\ curr'.state.time <= f.time) \/ Handled(k, f.time)'
      <4>1. CASE k = m /\ now <= f.time
        BY <1>16, <2>1, <4>1
      <4>2. CASE k # m /\ k \in todo /\ now <= f.time
        BY <1>2, <1>3, <4>2 DEF now
      <4>3. CASE Handled(k, f.time)
        BY <1>14, <2>1, <4>3
      <4> QED BY <2>3, <3>1, <4>1, <4>2, <4>3
    <3> QED BY <1>2, <3>1 DEF Expanded
  <2> QED BY <2>1, <2>2, <2>3 DEF Expanded, now
<1>18. ASSUME NEW f \in stored', f \notin stored, Alive(f)'  PROVE Expanded(f)'
  <2>1. /\ f.base = s.base
        /\ \/ e \notin stored /\ f.id = s.id /\ f.time = s.time
           \/ e \in stored /\ visited /\ m.h # -1 /\ f.time = s.time
    BY <1>1, <1>8, <1>18 DEF Inserted
  <2>2. CASE e \notin stored /\ f.id = s.id /\ f.time = s.time
    <3>1. f # Clone
      BY <1>1, <1>2, <2>2 DEF Clone
    <3>2. m.h # -1
      BY <1>1, <1>2, <1>18, <2>1, <3>1 DEF Alive, Clone
    <3>3. node \in open' /\ node.state.base = f.base /\ node.state.time = f.time
      BY <1>1, <1>3, <1>6, <1>7, <1>9, <2>1, <2>2, <3>2
    <3>4. f.time <= f.time
      BY <1>12
    <3> QED BY <3>3, <3>4 DEF Expanded
  <2>3. CASE e \in stored /\ visited /\ m.h # -1 /\ f.time = s.time
    <3>1. node \in open' /\ node.state.base = f.base /\ node.state.time = f.time
      BY <1>1, <1>3, <1>7, <1>9, <2>1, <2>3
    <3>2. f.time <= f.time
      BY <1>12
    <3> QED BY <3>1, <3>2 DEF Expanded
  <2> QED BY <2>1, <2>2, <2>3
<1>19. ASSUME NEW f \in stored', Alive(f)'  PROVE Expanded(f)'
  <2>1. f \in stored => Alive(f)
    BY <1>2, <1>19 DEF Alive
  <2> QED BY <1>17, <1>18, <1>19, <2>1
(* The other parts.                                                        *)
<1>20. Clone \in stored'
  <2>1. Clone \in stored /\ Clone.time = 0
    BY DEF AllExpanded, Clone
  <2>2. ~(Clone = e /\ visited)
    BY <1>1, <1>5, <1>10, <2>1
  <2> QED BY <1>10, <2>1, <2>2
<1>21. ASSUME NEW f \in stored', NEW k \in moves, k.to = f.base  PROVE k.h # 0
  <2>1. CASE \E g \in stored : g.base = f.base
    BY <1>21, <2>1 DEF AllExpanded
  <2>2. CASE f.base = m.to
    BY <1>1, <1>9, <1>21, <2>2 DEF GoalsAreStates
  <2> QED BY <1>1, <1>8, <2>1, <2>2 DEF Inserted
<1> QED BY <1>2, <1>3, <1>19, <1>20, <1>21 DEF AllExpanded

LEMMA SwitchKeepsAll ==
    ASSUME BasicInv, GoalsAreStates, SwitchToBestFirst
    PROVE  AllExpanded'
<1>1. /\ stored' = {Clone} /\ open' = {RootNode} /\ phase' = "BFS" /\ moves' = moves
  BY DEF SwitchToBestFirst
<1>2. /\ Clone.base = Root /\ Clone.time = 0
      /\ RootNode.state.base = Root /\ RootNode.state.time = 0
  BY DEF Clone, RootNode, RootState
<1>3. RootNode.state.time <= Clone.time
  BY <1>2
<1>4. Expanded(Clone)'
  BY <1>1, <1>2, <1>3 DEF Expanded
<1>5. \A m \in moves : m.to = Root => m.h # 0
  BY DEF GoalsAreStates
<1> QED BY <1>1, <1>2, <1>4, <1>5 DEF AllExpanded

LEMMA NextBestFirst ==
    ASSUME BasicInv, UndominatedCoverStored, NoneDominated, BestFirstInv,
           [SearchNext]_allVars
    PROVE  BestFirstInv'
<1>1. \/ UNCHANGED <<options, moves>>
      \/ \E m \in todo : Try(m)
  BY DEF SearchNext, Pop, Drop, SwitchToBestFirst, GiveUp, allVars, searchVars
<1>2. UNCHANGED <<options, moves>>
  BY <1>1 DEF Try, Store
<1> SUFFICES ASSUME InBestFirst', ~options.dominance, DeadEndsAreStates, GoalsAreStates
             PROVE  AllExpanded'
  BY <1>2 DEF BestFirstInv, DeadEndsAreStates, GoalsAreStates
<1>3. dominated = {}
  BY DEF NoneDominated
<1>4. InBestFirst => AllExpanded
  BY DEF BestFirstInv
<1>5. ASSUME NEW node \in open, Pop(node)  PROVE AllExpanded'
  <2>1. phase = "BFS"
    BY <1>5 DEF Pop, InBestFirst
  <2> QED BY <1>3, <1>4, <1>5, <2>1, PopKeepsAll DEF InBestFirst
<1>6. ASSUME NEW m \in todo, Drop(m)  PROVE AllExpanded'
  <2>1. phase = "BFS"
    BY <1>6 DEF Drop, InBestFirst, BasicInv, Phases, SearchTypes, Ended
  <2> QED BY <1>4, <1>6, <2>1, DropKeepsAll DEF InBestFirst
<1>7. ASSUME NEW m \in todo, NEW n, NEW e, Tries(m, n, e)  PROVE AllExpanded'
  <2>1. phase' = phase \/ phase' = "solved"
    BY <1>7 DEF Tries, Prune, FindGoal, Commit, Enqueue
  <2>2. phase = "BFS" /\ phase' # "solved"
    BY <1>7, <2>1 DEF InBestFirst, BasicInv, Phases, SearchTypes, Ended
  <2> QED BY <1>4, <1>7, <2>2, TryKeepsAll DEF InBestFirst
<1>8. ASSUME NEW m \in todo, Try(m)  PROVE AllExpanded'
  BY <1>7, <1>8, TryTries
<1>9. ASSUME GiveUp  PROVE AllExpanded'
  <2>1. /\ phase = "BFS" /\ phase' = "unsolvable" /\ open = {}
        /\ UNCHANGED <<stored, moves, open, curr, todo>>
    BY <1>2, <1>9 DEF GiveUp, Exhausted, InBestFirst, storeVars
  <2>2. AllExpanded
    BY <1>4, <2>1 DEF InBestFirst
  <2> QED BY <2>1, <2>2 DEF AllExpanded, Alive, Expanded, Handled, Reached, Sound, Arrival
<1>10. ASSUME UNCHANGED allVars  PROVE AllExpanded'
  <2>1. UNCHANGED <<stored, moves, open, curr, todo, phase, options>>
    BY <1>10 DEF allVars, storeVars, searchVars
  <2>2. AllExpanded
    BY <1>4, <2>1 DEF InBestFirst
  <2> QED BY <2>1, <2>2 DEF AllExpanded, Alive, Expanded, Handled, Reached, Sound, Arrival
<1> QED BY <1>5, <1>6, <1>8, <1>9, <1>10, SwitchKeepsAll DEF SearchNext

-----------------------------------------------------------------------------
(* A set of numbers that is not empty has a least one.                     *)
LEMMA SmallestNumber ==
    ASSUME NEW ns \in SUBSET Nat, ns # {}
    PROVE  \E n \in ns : \A m \in ns : n <= m
<1> DEFINE less == OpToRel(<, Nat)
<1>1. IsWellFoundedOn(less, Nat)
  BY NatLessThanWellFounded
<1>2. \A x, y \in Nat : x < y => <<x, y>> \in less
  BY Zenon DEF OpToRel
<1> HIDE DEF less
<1>3. PICK e \in ns : \A x \in ns : ~(<<x, e>> \in less)
  BY <1>1, WFMin
<1>4. \A x \in ns : ~(x < e)
  BY <1>2, <1>3, Zenon
<1> QED BY <1>4

(* What the verdict says, for a state reached and the time it is reached.  *)
Covered(p) == \E e \in stored : Alive(e) /\ e.base = p[1] /\ e.time <= p[2]
GaveUpRightly ==
    phase = "unsolvable" /\ options.bestFirst /\ ~options.dominance
        /\ DeadEndsAreStates /\ GoalsAreStates
LEMMA NothingLeftToTry ==
    ASSUME BasicInv, BestFirstInv, GaveUpRightly
    PROVE  \A e \in stored : Alive(e) => \A m \in moves : m.from = e.base => Handled(m, e.time)
<1>1. AllExpanded /\ open = {} /\ todo = {}
  BY DEF BestFirstInv, GaveUpRightly, InBestFirst, AllExpanded, BasicInv, Phases, Ended
<1> QED BY <1>1 DEF AllExpanded, Expanded

LEMMA StartIsCovered ==
    ASSUME BasicInv, BestFirstInv, GaveUpRightly
    PROVE  Covered(<<Root, 0>>)
<1>1. Clone \in stored
  BY DEF BestFirstInv, GaveUpRightly, InBestFirst, AllExpanded
<1>2. Clone.base = Root /\ Clone.time <= 0 /\ Alive(Clone)
  BY DEF Clone, Alive
<1> QED BY <1>1, <1>2 DEF Covered

LEMMA MovesAreCovered ==
    ASSUME BasicInv, BestFirstInv, GaveUpRightly,
           NEW p \in Bases \X Nat, Covered(p),
           NEW m \in moves, m.from = p[1], Sound(m, p[2])
    PROVE  /\ m.h # 0
           /\ m.h > 0 => Covered(<<m.to, Arrival(m, p[2])>>)
<1>1. PICK e \in stored : Alive(e) /\ e.base = p[1] /\ e.time <= p[2]
  BY DEF Covered
<1>2. SearchTypes /\ e.time \in Nat /\ p[2] \in Nat
  BY DEF BasicInv, SearchTypes
<1>3. /\ Sound(m, e.time) /\ Arrival(m, e.time) <= Arrival(m, p[2])
      /\ Arrival(m, e.time) \in Nat /\ Arrival(m, p[2]) \in Nat
  BY <1>1, <1>2, EarlierIsNoWorse
<1>4. m.h # 0 /\ (m.h > 0 => Reached(m.to, Arrival(m, e.time)))
  BY <1>1, <1>3, NothingLeftToTry DEF Handled
<1>5. ASSUME m.h > 0  PROVE Covered(<<m.to, Arrival(m, p[2])>>)
  <2>1. Reached(m.to, Arrival(m, p[2]))
    BY <1>3, <1>4, <1>5, ReachedLater
  <2>2. PICK f \in stored : f.base = m.to /\ f.time <= Arrival(m, p[2])
    BY <2>1 DEF Reached
  <2>3. \A k \in moves : k.to = m.to => k.h # -1
    BY <1>5 DEF GaveUpRightly, DeadEndsAreStates
  <2>4. Alive(f)
    BY <2>2, <2>3 DEF Alive
  <2> QED BY <2>2, <2>4 DEF Covered
<1> QED BY <1>4, <1>5

(* A plan: sound moves, one after the other, none to a dead end.           *)
Routes(n) ==
    {r \in [ps : [0..n -> Bases \X Nat], ms : [1..n -> moves]] :
        /\ r.ps[0] = <<Root, 0>>
        /\ \A k \in 1..n :
              /\ r.ms[k].from = r.ps[k - 1][1] /\ Sound(r.ms[k], r.ps[k - 1][2])
              /\ r.ms[k].h > 0
              /\ r.ps[k] = <<r.ms[k].to, Arrival(r.ms[k], r.ps[k - 1][2])>>}
NoRouteToTheGoal ==
    GaveUpRightly => \A n \in Nat : \A r \in Routes(n) :
        \A m \in moves : m.h = 0 /\ m.from = r.ps[n][1] => ~Sound(m, r.ps[n][2])

LEMMA RoutesAreCovered ==
    ASSUME BasicInv, BestFirstInv, GaveUpRightly, NEW n \in Nat, NEW r \in Routes(n)
    PROVE  Covered(r.ps[n])
<1> DEFINE Bad == {k \in 0..n : ~Covered(r.ps[k])}
<1>1. SUFFICES Bad = {}
  BY <1>1
<1>2. SUFFICES ASSUME Bad # {}  PROVE FALSE
  OBVIOUS
<1>3. PICK k \in Bad : \A j \in Bad : k <= j
  <2>1. Bad \subseteq Nat
    OBVIOUS
  <2> QED BY <1>2, <2>1, SmallestNumber
<1>4. r.ps[0] = <<Root, 0>> /\ r.ps \in [0..n -> Bases \X Nat] /\ r.ms \in [1..n -> moves]
  BY DEF Routes
<1>5. k # 0
  BY <1>3, <1>4, StartIsCovered
<1>6. k \in 1..n /\ k - 1 \in 0..n /\ k - 1 < k
  BY <1>3, <1>5
<1>7. Covered(r.ps[k - 1])
  BY <1>3, <1>6
<1>8. /\ r.ms[k].from = r.ps[k - 1][1] /\ Sound(r.ms[k], r.ps[k - 1][2])
      /\ r.ms[k].h > 0
      /\ r.ps[k] = <<r.ms[k].to, Arrival(r.ms[k], r.ps[k - 1][2])>>
  BY <1>6 DEF Routes
<1>9. r.ps[k - 1] \in Bases \X Nat /\ r.ms[k] \in moves
  BY <1>4, <1>6
<1>10. Covered(r.ps[k])
  BY <1>7, <1>8, <1>9, MovesAreCovered
<1> QED BY <1>3, <1>10

(* "Problem unsolvable" is right, without dominance: no sound sequence of  *)
(* moves, however long, leads to the goal.  An entry that a plan passes by *)
(* is reached no later by the search, and its moves have all been tried.   *)
THEOREM NoSolutionIsMissed == SearchSpec => []NoRouteToTheGoal
<1> DEFINE Inv == BasicInv /\ UndominatedCoverStored /\ NoneDominated /\ BestFirstInv
<1>1. SearchInit => Inv
  <2>1. SearchInit => UndominatedCoverStored
    BY OneCovers DEF SearchInit
  <2>2. SearchInit => BestFirstInv
    BY DEF SearchInit, BestFirstInv, InBestFirst
  <2> QED BY <2>1, <2>2, InitBasic, InitNoneDominated
<1>2. Inv /\ [SearchNext]_allVars => Inv'
  BY NextBasic, NextCovers, NextNoneDominated, NextBestFirst
<1>3. Inv => NoRouteToTheGoal
  <2> SUFFICES ASSUME Inv, GaveUpRightly, NEW n \in Nat, NEW r \in Routes(n),
                      NEW m \in moves, m.h = 0, m.from = r.ps[n][1], Sound(m, r.ps[n][2])
               PROVE  FALSE
    BY DEF NoRouteToTheGoal
  <2>1. Covered(r.ps[n])
    BY RoutesAreCovered
  <2>2. r.ps[n] \in Bases \X Nat
    BY DEF Routes
  <2> QED BY <2>1, <2>2, MovesAreCovered
<1> HIDE DEF Inv
<1> QED BY <1>1, <1>2, <1>3, PTL DEF SearchSpec

-----------------------------------------------------------------------------
(* A function may be defined by recursion on a number.                     *)
LEMMA RecursionDefines ==
    ASSUME NEW U, NEW u \in U, NEW step \in [U -> U]
    PROVE  \E f \in [Nat -> U] : f[0] = u /\ \A k \in Nat : f[k + 1] = step[f[k]]
<1> DEFINE Begins(n, g) == /\ g \in [0..n -> U] /\ g[0] = u
                           /\ \A k \in 0..n : k # n => g[k + 1] = step[g[k]]
           Bad == {n \in Nat : \A g : ~Begins(n, g)}
<1>1. Bad = {}
  <2>1. SUFFICES ASSUME Bad # {}  PROVE FALSE
    OBVIOUS
  <2>2. PICK n \in Bad : \A m \in Bad : n <= m
    <3>1. Bad \subseteq Nat
      OBVIOUS
    <3> QED BY <2>1, <3>1, SmallestNumber
  <2>3. n # 0
    <3>1. Begins(0, [k \in 0..0 |-> u])
      OBVIOUS
    <3> QED BY <2>2, <3>1
  <2>4. n - 1 \in Nat /\ n - 1 \notin Bad
    <3>1. n \in Nat
      OBVIOUS
    <3>2. n - 1 \in Nat /\ ~(n <= n - 1)
      BY <2>3, <3>1
    <3> HIDE DEF Bad
    <3> QED BY <2>2, <3>2
  <2>5. PICK g : Begins(n - 1, g)
    <3> HIDE DEF Begins
    <3> QED BY <2>4
  <2> DEFINE h == [k \in 0..n |-> IF k = n THEN step[g[n - 1]] ELSE g[k]]
  <2>6. \A k \in 0..n : k # n => k \in 0..n-1 /\ h[k] = g[k]
    BY <2>2
  <2>7. n \in 0..n /\ h[n] = step[g[n - 1]] /\ g[n - 1] \in U /\ 0 \in 0..n - 1
    BY <2>2, <2>4, <2>5
  <2>8. h \in [0..n -> U]
    BY <2>2, <2>5, <2>6, <2>7
  <2>9. ASSUME NEW k \in 0..n, k # n  PROVE h[k + 1] = step[h[k]]
    <3>1. CASE k = n - 1
      BY <2>2, <2>6, <2>7, <2>9, <3>1
    <3>2. CASE k # n - 1
      <4>1. k \in 0..n - 1 /\ k + 1 \in 0..n /\ k + 1 # n
        BY <2>2, <2>9, <3>2
      <4>2. g[k + 1] = step[g[k]]
        BY <2>5, <3>2, <4>1
      <4> QED BY <2>6, <2>9, <4>1, <4>2
    <3> QED BY <3>1, <3>2
  <2>10. h[0] = u
    <3>1. 0 \in 0..n /\ 0 # n
      BY <2>2, <2>3
    <3> QED BY <2>5, <2>6, <3>1
  <2>11. Begins(n, h)
    BY <2>8, <2>9, <2>10
  <2> QED BY <2>2, <2>11
<1>2. ASSUME NEW n \in Nat, NEW m \in Nat, NEW g, NEW h, Begins(n, g), Begins(m, h)
      PROVE  \A k \in 0..n : k \in 0..m => g[k] = h[k]
  <2> DEFINE Differ == {k \in 0..n : k \in 0..m /\ g[k] # h[k]}
  <2>1. SUFFICES ASSUME Differ # {}  PROVE FALSE
    OBVIOUS
  <2>2. PICK k \in Differ : \A j \in Differ : k <= j
    <3>1. Differ \subseteq Nat
      OBVIOUS
    <3> QED BY <2>1, <3>1, SmallestNumber
  <2>3. k # 0 /\ k \in Nat /\ k <= n /\ k <= m
    BY <1>2, <2>2
  <2>4. k - 1 \in 0..n /\ k - 1 \in 0..m /\ k - 1 # n /\ k - 1 # m /\ k - 1 + 1 = k
        /\ ~(k <= k - 1)
    BY <2>3
  <2>5. g[k - 1] = h[k - 1]
    BY <2>2, <2>4
  <2>6. g[k - 1 + 1] = step[g[k - 1]] /\ h[k - 1 + 1] = step[h[k - 1]]
    BY <1>2, <2>4
  <2> QED BY <2>2, <2>4, <2>5, <2>6
<1> DEFINE part(n) == CHOOSE g : Begins(n, g)
           f == [n \in Nat |-> part(n)[n]]
<1>3. \A n \in Nat : Begins(n, part(n))
  <2>1. \A n \in Nat : \E g : Begins(n, g)
    BY <1>1
  <2> HIDE DEF Begins
  <2> QED BY <2>1
<1>4. \A n \in Nat : part(n) \in [0..n -> U]
  BY <1>3
<1>5. f \in [Nat -> U]
  <2> HIDE DEF part
  <2>1. \A n \in Nat : n \in 0..n
    OBVIOUS
  <2> QED BY <1>4, <2>1
<1>6. f[0] = u
  <2>1. part(0)[0] = u
    BY <1>3
  <2> QED BY <2>1
<1>7. ASSUME NEW k \in Nat  PROVE f[k + 1] = step[f[k]]
  <2>1. k \in 0..k /\ k \in 0..k + 1 /\ k # k + 1 /\ k + 1 \in Nat
    OBVIOUS
  <2>2. Begins(k, part(k)) /\ Begins(k + 1, part(k + 1))
    BY <1>3, <2>1
  <2> HIDE DEF part
  <2>3. part(k)[k] = part(k + 1)[k]
    <3> HIDE DEF Begins
    <3> QED BY <1>2, <2>1, <2>2
  <2>4. part(k + 1)[k + 1] = step[part(k + 1)[k]]
    BY <2>1, <2>2
  <2> QED BY <2>1, <2>3, <2>4
<1> QED BY <1>5, <1>6, <1>7

(* What Within says: the states that up to k moves lead to.                *)
LEMMA WithinSteps ==
    ASSUME SearchTypes
    PROVE  /\ Within \in [Nat -> SUBSET (Bases \X Nat)]
           /\ Within[0] = {<<Root, 0>>}
           /\ \A k \in Nat : \A p \in Within[k + 1] :
                 \/ p \in Within[k]
                 \/ \E m \in moves, o \in Within[k] :
                       /\ m.from = o[1] /\ Sound(m, o[2]) /\ m.h > 0
                       /\ p = <<m.to, Arrival(m, o[2])>>
<1> DEFINE U == SUBSET (Bases \X Nat)
           Next(ps) == ps \cup {<<q[1].to, Arrival(q[1], q[2][2])>> : q \in Onward(ps)}
           step == [ps \in U |-> Next(ps)]
<1>1. \A ps \in U : Next(ps) \in U
  <2> SUFFICES ASSUME NEW ps \in U, NEW q \in Onward(ps)
               PROVE  <<q[1].to, Arrival(q[1], q[2][2])>> \in Bases \X Nat
    OBVIOUS
  <2>1. q[1] \in moves /\ q[2] \in Bases \X Nat
    BY DEF Onward
  <2>2. q[1].to \in Bases /\ q[1].dt \in Nat /\ q[1].by \in Nat
    BY <2>1, MoveTypes
  <2> QED BY <2>1, <2>2 DEF Arrival
<1>2. {<<Root, 0>>} \in U
  BY StoreAssumption
<1> HIDE DEF Next
<1>3. step \in [U -> U]
  BY <1>1
<1>4. PICK f \in [Nat -> U] : f[0] = {<<Root, 0>>} /\ \A k \in Nat : f[k + 1] = step[f[k]]
  <2> DEFINE first == {<<Root, 0>>}
  <2>1. first \in U
    BY <1>2
  <2> HIDE DEF U, step, first
  <2>2. \E f \in [Nat -> U] : f[0] = first /\ \A k \in Nat : f[k + 1] = step[f[k]]
    BY <1>3, <2>1, RecursionDefines
  <2> QED BY <2>2 DEF first
<1> DEFINE Solves(g) == g = [k \in Nat |-> IF k = 0 THEN {<<Root, 0>>} ELSE Next(g[k - 1])]
<1>5. Solves(f)
  <2>1. ASSUME NEW k \in Nat, k # 0  PROVE f[k] = Next(f[k - 1])
    <3>1. k - 1 \in Nat /\ k - 1 + 1 = k
      BY <2>1
    <3>2. f[k - 1 + 1] = step[f[k - 1]]
      BY <1>4, <3>1
    <3> QED BY <1>4, <3>1, <3>2
  <2> QED BY <1>4, <2>1
<1>6. Within = CHOOSE g : Solves(g)
  BY DEF Within, Next
<1>7. Solves(Within)
  <2> HIDE DEF Solves
  <2> QED BY <1>5, <1>6
<1>8. Within[0] = {<<Root, 0>>} /\ \A k \in Nat : Within[k + 1] = Next(Within[k])
  <2>1. Within = [k \in Nat |-> IF k = 0 THEN {<<Root, 0>>} ELSE Next(Within[k - 1])]
    BY <1>7
  <2>2. \A k \in Nat : Within[k] = IF k = 0 THEN {<<Root, 0>>} ELSE Next(Within[k - 1])
    BY <2>1
  <2>3. Within[0] = {<<Root, 0>>}
    BY <2>2
  <2>4. ASSUME NEW k \in Nat  PROVE Within[k + 1] = Next(Within[k])
    <3>1. k + 1 \in Nat /\ k + 1 # 0 /\ k + 1 - 1 = k
      OBVIOUS
    <3> QED BY <2>2, <3>1
  <2> QED BY <2>3, <2>4
<1>9. Within \in [Nat -> U]
  <2> DEFINE Bad == {k \in Nat : Within[k] \notin U}
  <2>1. Bad = {}
    <3>1. SUFFICES ASSUME Bad # {}  PROVE FALSE
      OBVIOUS
    <3>2. PICK k \in Bad : \A j \in Bad : k <= j
      <4>1. Bad \subseteq Nat
        OBVIOUS
      <4> QED BY <3>1, <4>1, SmallestNumber
    <3>3. k # 0
      BY <1>2, <1>8, <3>2
    <3>4. k - 1 \in Nat /\ ~(k <= k - 1) /\ k - 1 + 1 = k
      BY <3>2, <3>3
    <3>5. Within[k - 1] \in U
      BY <3>2, <3>4
    <3>6. Within[k] = Next(Within[k - 1])
      BY <1>8, <3>4
    <3> QED BY <1>1, <3>2, <3>5, <3>6
  <2>2. Within = [k \in Nat |-> IF k = 0 THEN {<<Root, 0>>} ELSE Next(Within[k - 1])]
    BY <1>7
  <2>3. \A k \in Nat : Within[k] \in U
    BY <2>1
  <2> HIDE DEF U
  <2> QED BY <2>2, <2>3
<1>10. ASSUME NEW k \in Nat, NEW p \in Within[k + 1], p \notin Within[k]
       PROVE  \E m \in moves, o \in Within[k] :
                 /\ m.from = o[1] /\ Sound(m, o[2]) /\ m.h > 0
                 /\ p = <<m.to, Arrival(m, o[2])>>
  <2>1. PICK q \in Onward(Within[k]) : p = <<q[1].to, Arrival(q[1], q[2][2])>>
    BY <1>8, <1>10 DEF Next
  <2>2. /\ q[1] \in moves /\ q[2] \in Within[k]
        /\ q[1].from = q[2][1] /\ Sound(q[1], q[2][2]) /\ q[1].h > 0
    BY DEF Onward
  <2> QED BY <2>1, <2>2
<1> QED BY <1>8, <1>9, <1>10

LEMMA ReachableIsCovered ==
    ASSUME BasicInv, BestFirstInv, GaveUpRightly, NEW n \in Nat
    PROVE  \A p \in Within[n] : Covered(p)
<1>0. SearchTypes
  BY DEF BasicInv
<1> DEFINE Bad == {k \in Nat : \E p \in Within[k] : ~Covered(p)}
<1>1. SUFFICES ASSUME Bad # {}  PROVE FALSE
  OBVIOUS
<1>2. PICK k \in Bad : \A j \in Bad : k <= j
  <2>1. Bad \subseteq Nat
    OBVIOUS
  <2> QED BY <1>1, <2>1, SmallestNumber
<1>3. PICK p \in Within[k] : ~Covered(p)
  BY <1>2
<1>4. k # 0
  BY <1>0, <1>3, WithinSteps, StartIsCovered
<1>5. k - 1 \in Nat /\ ~(k <= k - 1) /\ k - 1 + 1 = k
  BY <1>2, <1>4
<1>6. \A o \in Within[k - 1] : Covered(o) /\ o \in Bases \X Nat
  BY <1>0, <1>2, <1>5, WithinSteps
<1>7. \/ p \in Within[k - 1]
      \/ \E m \in moves, o \in Within[k - 1] :
            /\ m.from = o[1] /\ Sound(m, o[2]) /\ m.h > 0
            /\ p = <<m.to, Arrival(m, o[2])>>
  BY <1>0, <1>3, <1>5, WithinSteps
<1> QED BY <1>3, <1>6, <1>7, MovesAreCovered

(* The property that the runs check, which looks at plans no longer than   *)
(* the number of states.                                                   *)
THEOREM VerdictsAreJustified ==
    IsFiniteSet(Bases) => (SearchSpec => []VerdictJustified)
<1> SUFFICES ASSUME IsFiniteSet(Bases)  PROVE SearchSpec => []VerdictJustified
  OBVIOUS
<1> DEFINE Inv == BasicInv /\ UndominatedCoverStored /\ NoneDominated /\ BestFirstInv
<1>1. SearchInit => Inv
  <2>1. SearchInit => UndominatedCoverStored
    BY OneCovers DEF SearchInit
  <2>2. SearchInit => BestFirstInv
    BY DEF SearchInit, BestFirstInv, InBestFirst
  <2> QED BY <2>1, <2>2, InitBasic, InitNoneDominated
<1>2. Inv /\ [SearchNext]_allVars => Inv'
  BY NextBasic, NextCovers, NextNoneDominated, NextBestFirst
<1>3. Inv => VerdictJustified
  <2> SUFFICES ASSUME Inv, GaveUpRightly, NEW m \in moves, m.h = 0,
                      NEW p \in Reachable, p[1] = m.from, Sound(m, p[2])
               PROVE  FALSE
    BY DEF VerdictJustified, UnsolvableIsRight, Solvable, GaveUpRightly
  <2>1. Cardinality(Bases) \in Nat
    BY FS_CardinalityType
  <2>2. Covered(p)
    BY <2>1, ReachableIsCovered DEF Reachable
  <2>3. p \in Bases \X Nat
    BY <2>1, WithinSteps DEF BasicInv, Reachable
  <2> QED BY <2>2, <2>3, MovesAreCovered
<1> HIDE DEF Inv
<1> QED BY <1>1, <1>2, <1>3, PTL DEF SearchSpec
=============================================================================
