------------------------- MODULE DeorderedExecution -------------------------
(***************************************************************************)
(* What the orderings of KK are for: the steps of a plan are performed in  *)
(* any order that they permit.  External: this is the semantics of PDDL    *)
(* 2.1, not code of the repository.                                        *)
(***************************************************************************)
EXTENDS Deordering

VARIABLES
    plan,          \* the list of events given to getOrderingConstratints
    links,         \* the validation structure: the causal links it keeps
    orderings,     \* what it answers
    performed,     \* the steps performed so far
    facts          \* the facts that hold now

execVars == <<plan, links, orderings, performed, facts>>

Events ==
    [timeSpec : {"AT"}, ref : DOMAIN TILs, pairWithStep : Int]
    \cup [timeSpec : {"AT_START", "AT_END"}, ref : Actions, pairWithStep : Int]

Holds(l) == l.positive <=> l.fact \in facts

Ready(k) ==
    /\ k \notin performed /\ <<InitialEvent, k>> \in orderings
    /\ \A o \in orderings : o[2] = k => o[1] \in performed \cup {InitialEvent}

Perform(k) ==
    /\ Ready(k)
    /\ performed' = performed \cup {k}
    /\ facts' = (facts \ Effects(plan[k], FALSE)) \cup Effects(plan[k], TRUE)
    /\ UNCHANGED <<plan, links, orderings>>

DeorderedInit ==
    /\ plan \in Seq(Events)
    /\ OrderingSucceeds(plan) /\ links \in ValidationStructures(plan)
    /\ orderings = OrderingConstraints(plan, links)
    /\ performed = {}
    /\ facts = InitFacts

DeorderedNext == \E k \in DOMAIN plan : Perform(k)
DeorderedSpec == DeorderedInit /\ [][DeorderedNext]_execVars

-----------------------------------------------------------------------------
(* Whatever order the constraints of KK leave open in a plan that it could *)
(* order, a step whose predecessors are performed finds its conditions     *)
(* met, the over-all conditions of its action too, except those whose      *)
(* links the set has dropped.                                              *)
Dropped(l, k) == \E x \in Links(plan) \ links : x.literal = l /\ x.consumer = k
ReadyStepsFindTheirConditions ==
    \A k \in DOMAIN plan :
        Ready(k) => \A l \in Conditions(plan[k]) : ~Dropped(l, k) => Holds(l)

(* A step of an action under way that nothing deletes in between keeps the *)
(* over-all conditions of its action whose links are kept at both its      *)
(* ends: what other steps do to them happens before the start or after the *)
(* end.                                                                    *)
UndisturbedInList(l, i, j) == \A k \in i..j - 1 : ~Threatens(plan[k], l)
RunningActionsKeepTheirInvariants ==
    \A s \in performed : \A e \in DOMAIN plan \ performed :
        (/\ plan[s].timeSpec = "AT_START" /\ plan[s].pairWithStep + 1 = e /\ s < e
         /\ plan[e].timeSpec = "AT_END" /\ plan[e].ref = plan[s].ref) =>
            \A l \in Invariants(plan[s].ref) :
                ~Dropped(l, s) /\ ~Dropped(l, e) /\ UndisturbedInList(l, s, e) => Holds(l)
=============================================================================
