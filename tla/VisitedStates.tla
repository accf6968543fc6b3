---------------------------- MODULE VisitedStates ----------------------------
(***************************************************************************)
(* StateHash, the store of visited states.  States are equal in the first  *)
(* place by facts, values, running actions and next timed literal: that is *)
(* a member of Bases.  They are equal altogether if their start event      *)
(* queues are, too.  Since the queue has the running actions in the order  *)
(* of their steps (QueueMatchesState of SearchNode), it can differ only in *)
(* "back", a compression-safe start that is queued until it is evaluated.  *)
(* The store holds states by reference, so an entry changes with its state.*)
(* An interval of values is a point, and time is counted in milliseconds:  *)
(* a step of one exceeds the tolerance of 0.0005.                          *)
(***************************************************************************)
EXTENDS Integers

CONSTANTS
    Bases,
    Kin,         \* base -> its propositions and variables without dominance
    Levels,      \* base -> its variables with dominance, bigger is better
    Root,        \* the initial state
    NoAction

ASSUME StoreAssumption ==
    /\ Root \in Bases
    /\ DOMAIN Kin = Bases
    /\ DOMAIN Levels = Bases
    /\ \A b, c \in Bases : Levels[b] \in [DOMAIN Levels[c] -> Int]
    /\ \A b, c \in Bases : Kin[b] = Kin[c] /\ Levels[b] = Levels[c] => b = c

VARIABLES
    options,     \* the command line
    stored,      \* entries, with the time at which the state was reached
    pareto,      \* those on the lists of undominated states
    dominated    \* hasBeenDominated: ids of the states flagged so

storeVars == <<stored, pareto, dominated>>

NoEntry == [id |-> -2, base |-> Root, back |-> NoAction, time |-> 0]

(* A clone of the initial state is the first entry.                        *)
Clone == [id |-> -1, base |-> Root, back |-> NoAction, time |-> 0]

-----------------------------------------------------------------------------
Beats(b, c) == \E i \in DOMAIN Levels[b] : Levels[b][i] > Levels[c][i]
Dominates(b, c) == Beats(b, c) /\ ~Beats(c, b)
Rivals(b) == {p \in pareto : Kin[p.base] = Kin[b]}

(* primaryNewState.  As no member of the list dominates another, a state   *)
(* that dominates one of them is dominated by none, in whichever order     *)
(* the list is walked.                                                     *)
NewToSomeRival(b) ==   \* broken: better than one, not than each
    IF options.dominance THEN Rivals(b) = {} \/ \E p \in Rivals(b) : Beats(b, p.base)
    ELSE \A e \in stored : e.base # b
PrimaryNew(b) ==
    IF options.dominance THEN \A p \in Rivals(b) : Beats(b, p.base)
    ELSE \A e \in stored : e.base # b

(* The entry a lookup ends at: one of those equal to the state, if any.    *)
Lookup(s) ==
    LET equal == {e \in stored : e.base = s.base /\ e.back = s.back}
    IN IF equal = {} THEN {NoEntry} ELSE equal

(* Whether a state is worth visiting: 1 if it is new in the first place, 2 *)
(* if it is altogether, or is reached earlier than the entry e says, or 0. *)
Category(s, e) ==
    IF PrimaryNew(s.base) THEN 1
    ELSE IF e \notin stored \/ s.time < e.time THEN 2
    ELSE 0

-----------------------------------------------------------------------------
(* insertState of state s, whose lookup ended at e.  If the state is then  *)
(* visited, it is evaluated, which takes a compression-safe start off the  *)
(* queue of the entry, too; and unless that shows a dead end,              *)
(* setTimestampOfThisState lowers the time of an old entry.  The flag of a *)
(* dominated state is copied to its children: "inherited".                 *)
Unchanged(e, s, live) == e   \* broken: the earlier time is not recorded
Updated(e, s, live) == IF live THEN [e EXCEPT !.time = s.time] ELSE e

Insert(s, e, visited, live, inherited) ==
    /\ stored' = IF e \notin stored
                 THEN stored \cup {[s EXCEPT !.back = IF visited THEN NoAction ELSE @]}
                 ELSE IF visited THEN (stored \ {e}) \cup {Updated(e, s, live)}
                 ELSE stored
    /\ LET enters == options.dominance /\ PrimaryNew(s.base)
           beaten == {p \in Rivals(s.base) : enters /\ Dominates(s.base, p.base)}
       IN /\ pareto' = (pareto \ beaten) \cup {p \in {s} : enters}
          /\ dominated' = dominated \cup {p.id : p \in beaten} \cup inherited
=============================================================================
