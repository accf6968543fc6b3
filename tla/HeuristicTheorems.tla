-------------------------- MODULE HeuristicTheorems --------------------------
(***************************************************************************)
(* What the temporal heuristic does with a plan, from the answer of the    *)
(* child planner to the times of a solution, for every problem, header and *)
(* answer.  In this order:                                                 *)
(* - KK: in whatever order its orderings permit the steps, each finds the  *)
(*   conditions met that KK sees and whose links it keeps.  The argument   *)
(*   follows the causal links: once the supporter of a link is performed   *)
(*   the condition holds until its consumer is, for a threat listed before *)
(*   the supporter is ordered before it, one listed after the consumer is  *)
(*   ordered after it, and none is listed in between;                      *)
(* - the reader: the plan it puts together pairs starts and ends;          *)
(* - the network: each duration and each ordering has its two edges;       *)
(* - the search for a negative cycle: one that ends without has distances  *)
(*   that fit every edge;                                                  *)
(* - the executor: Floyd-Warshall finds the least times that fit;          *)
(* - the solution: its times keep the durations and the literals, and each *)
(*   step finds the conditions of its links at its time.                   *)
(***************************************************************************)
EXTENDS TemporalHeuristic, SequenceTheorems, WellFoundedInduction, TLAPS

(* The link of a condition is one of those that are kept.                  *)
IsKept(p, kept, c, l) == Link(MinimumSupport(p, l, c), l, c) \in kept
Supported(c, l) == MinimumSupport(plan, l, c) \in performed \cup {InitialEvent}

PlanIsOrdered ==
    /\ plan \in Seq(Events) /\ OrderingSucceeds(plan)
    /\ orderings = OrderingConstraints(plan, links)
PerformedInOrder ==
    /\ performed \subseteq DOMAIN plan
    /\ \A o \in orderings : o[2] \in performed => o[1] \in performed \cup {InitialEvent}
SupportedConditionsHold ==
    \A c \in DOMAIN plan \ performed : \A l \in Conditions(plan[c]) :
        IsKept(plan, links, c, l) /\ Supported(c, l) => Holds(l)
LinkInv == PlanIsOrdered /\ PerformedInOrder /\ SupportedConditionsHold

-----------------------------------------------------------------------------
LEMMA LeastElement ==
    ASSUME NEW T, T \subseteq Nat, T # {}
    PROVE  \E x \in T : \A y \in T : x <= y
<1>1. PICK x \in T : \A y \in T : ~(<<y, x>> \in OpToRel(<, Nat))
  BY NatLessThanWellFounded, WFMin, Zenon
<1>2. ASSUME NEW y \in T, y < x PROVE FALSE
  <2>1. <<y, x>> \in Nat \X Nat
    OBVIOUS
  <2>2. <<y, x>> \in OpToRel(<, Nat)
    BY <1>2, <2>1 DEF OpToRel
  <2> QED BY <1>1, <2>2
<1>3. \A y \in T : x \in Nat /\ y \in Nat /\ ~(y < x)
  BY <1>2
<1> QED BY <1>3

LEMMA ConditionsAreLiterals ==
    ASSUME NEW e, NEW l \in Conditions(e)
    PROVE  l \in Literals /\ l.positive = TRUE
BY DEF Conditions, LiteralsOf, Invariants, Literals

(* A condition that is no exception has its link.                          *)
LEMMA LinkOfACondition ==
    ASSUME NEW p, NEW c \in DOMAIN p, NEW l \in Conditions(p[c])
    PROVE  Link(MinimumSupport(p, l, c), l, c) \in Links(p)
<1> DEFINE of(i) == {Link(MinimumSupport(p, k, i), k, i) : k \in Conditions(p[i])}
<1>1. Links(p) = UNION {of(i) : i \in DOMAIN p}
  BY DEF Links
<1>2. Link(MinimumSupport(p, l, c), l, c) \in of(c)
  OBVIOUS
<1> HIDE DEF of
<1>3. of(c) \in {of(i) : i \in DOMAIN p}
  OBVIOUS
<1> QED BY <1>1, <1>2, <1>3

LEMMA NotDropped ==
    ASSUME NEW c \in DOMAIN plan, NEW l \in Conditions(plan[c]), ~Dropped(l, c)
    PROVE  IsKept(plan, links, c, l)
<1> DEFINE x == Link(MinimumSupport(plan, l, c), l, c)
<1>1. x \in Links(plan) /\ x.literal = l /\ x.consumer = c
  BY LinkOfACondition DEF Link
<1> QED BY <1>1 DEF Dropped, IsKept

(* What a link that is kept has ordered.                                   *)
LEMMA KeptLinkOrders ==
    ASSUME NEW p, NEW kept, NEW c, NEW l, IsKept(p, kept, c, l), NEW t
    PROVE  /\ OrderedPair(p, kept, MinimumSupport(p, l, c), c)
           /\ Threatens(p[t], l) => OrderedPair(p, kept, c, t)
           /\ Threatens(p[t], l) => OrderedPair(p, kept, t, MinimumSupport(p, l, c))
<1> DEFINE x == Link(MinimumSupport(p, l, c), l, c)
<1>1. /\ x \in kept /\ x.literal = l /\ x.consumer = c
      /\ x.supporter = MinimumSupport(p, l, c)
  BY DEF IsKept, Link
<1> QED BY <1>1 DEF OrderedPair, SupportExists, ThreatensConsumer, ThreatensProducer

(* What a step may rely on: its support is listed before it, and no threat *)
(* is listed between the two.                                              *)
LEMMA SupportOfACondition ==
    ASSUME NEW p \in Seq(Events), OrderingSucceeds(p),
           NEW c \in DOMAIN p, NEW l \in Conditions(p[c]),
           NEW s, s = MinimumSupport(p, l, c)
    PROVE  \/ /\ s = InitialEvent /\ InitiallySupported(l)
              /\ \A t \in 1..c - 1 : ~Threatens(p[t], l)
           \/ /\ s \in 1..c - 1 /\ Supports(p[s], l)
              /\ \A t \in s + 1..c - 1 : ~Threatens(p[t], l)
<1>1. CASE Supporters(p, l, c) # {}
  <2>1. Supporters(p, l, c) \subseteq Nat
    BY DEF Supporters, Unthreatened
  <2>2. \E j \in Supporters(p, l, c) : \A k \in Supporters(p, l, c) : j <= k
    BY <1>1, <2>1, LeastElement
  <2>3. s \in Supporters(p, l, c)
    BY <1>1, <2>2 DEF MinimumSupport
  <2> QED BY <2>3 DEF Supporters, Unthreatened
<1>2. CASE Supporters(p, l, c) = {}
  <2>1. s # NoSupport
    BY DEF OrderingSucceeds
  <2> QED BY <1>2, <2>1 DEF MinimumSupport
<1> QED BY <1>1, <1>2

LEMMA OrderedSteps ==
    ASSUME NEW p \in Seq(Events), NEW kept, NEW i \in DOMAIN p, NEW j \in DOMAIN p
    PROVE  /\ <<InitialEvent, j>> \in OrderingConstraints(p, kept)
           /\ i < j /\ OrderedPair(p, kept, i, j) =>
                 <<i, j>> \in OrderingConstraints(p, kept)
<1>1. i \in 1..Len(p) /\ j \in 1..Len(p) /\ Len(p) \in Nat
  OBVIOUS
<1>2. /\ <<0, j>> \in (0..Len(p)) \X DOMAIN p
      /\ <<i, j>> \in (0..Len(p)) \X DOMAIN p
  BY <1>1
<1> QED BY <1>1, <1>2 DEF OrderingConstraints, InitialEvent

LEMMA OrderedIsDomain ==
    ASSUME NEW p \in Seq(Events), NEW kept, NEW k,
           <<InitialEvent, k>> \in OrderingConstraints(p, kept)
    PROVE  k \in DOMAIN p
BY DEF OrderingConstraints

-----------------------------------------------------------------------------
(* A step that is ready breaks no link whose support is performed.         *)
LEMMA ReadyStepsThreatenNoLink ==
    ASSUME LinkInv, NEW k, Ready(k),
           NEW c \in DOMAIN plan, c \notin performed, c # k,
           NEW l \in Conditions(plan[c]), IsKept(plan, links, c, l), Supported(c, l)
    PROVE  ~Threatens(plan[k], l)
<1> DEFINE s == MinimumSupport(plan, l, c)
<1>1. SUFFICES ASSUME Threatens(plan[k], l) PROVE FALSE
  OBVIOUS
<1>2. /\ plan \in Seq(Events) /\ orderings = OrderingConstraints(plan, links)
      /\ k \in DOMAIN plan /\ k \notin performed
  BY OrderedIsDomain DEF LinkInv, PlanIsOrdered, Ready
<1>3. DOMAIN plan = 1..Len(plan) /\ Len(plan) \in Nat
  BY <1>2
<1>4. CASE c < k
  <2>1. OrderedPair(plan, links, c, k)
    BY <1>1, KeptLinkOrders
  <2>2. <<c, k>> \in orderings
    BY <1>2, <1>4, <2>1, OrderedSteps
  <2>3. c \in performed \cup {InitialEvent}
    BY <2>2 DEF Ready
  <2> QED BY <2>3, <1>3 DEF InitialEvent
<1>5. CASE k < c
  <2>1. \/ s = InitialEvent /\ \A t \in 1..c - 1 : ~Threatens(plan[t], l)
        \/ s \in 1..c - 1 /\ \A t \in s + 1..c - 1 : ~Threatens(plan[t], l)
    BY SupportOfACondition DEF LinkInv, PlanIsOrdered
  <2>2. k \in 1..c - 1
    BY <1>2, <1>3, <1>5
  <2>3. s \in 1..c - 1 /\ k \notin s + 1..c - 1
    BY <1>1, <2>1, <2>2
  <2>4. s \in performed
    BY <2>3 DEF Supported, InitialEvent
  <2>5. k < s
    BY <1>2, <1>3, <2>2, <2>3, <2>4
  <2>6. OrderedPair(plan, links, k, s)
    BY <1>1, KeptLinkOrders
  <2>7. <<k, s>> \in orderings
    <3>1. k \in DOMAIN plan /\ s \in DOMAIN plan
      BY <1>2, <1>3, <2>3
    <3> QED BY <1>2, <2>5, <2>6, <3>1, OrderedSteps
  <2>8. k \in performed \cup {InitialEvent}
    BY <2>4, <2>7 DEF LinkInv, PerformedInOrder
  <2> QED BY <1>2, <1>3, <2>8 DEF InitialEvent
<1> QED BY <1>2, <1>3, <1>4, <1>5

(* What a step does to a literal.                                          *)
LEMMA LiteralKept ==
    ASSUME NEW k, NEW l \in Literals, Perform(k), Holds(l), ~Threatens(plan[k], l)
    PROVE  Holds(l)'
<1>1. CASE l.positive = TRUE
  BY <1>1 DEF Perform, Holds, Threatens
<1>2. CASE l.positive = FALSE
  BY <1>2 DEF Perform, Holds, Threatens
<1> QED BY <1>1, <1>2 DEF Literals

LEMMA LiteralSupplied ==
    ASSUME NEW k, NEW l \in Literals, l.positive = TRUE, Perform(k), Supports(plan[k], l)
    PROVE  Holds(l)'
BY DEF Perform, Holds, Supports

LEMMA LinkInit == DeorderedInit => LinkInv
<1> SUFFICES ASSUME DeorderedInit PROVE LinkInv
  OBVIOUS
<1>1. PlanIsOrdered /\ performed = {} /\ facts = InitFacts
  BY DEF DeorderedInit, PlanIsOrdered
<1>2. ASSUME NEW c \in DOMAIN plan, NEW l \in Conditions(plan[c]), Supported(c, l)
      PROVE  Holds(l)
  <2>1. MinimumSupport(plan, l, c) = InitialEvent
    BY <1>1, <1>2 DEF Supported
  <2>2. InitiallySupported(l)
    BY <1>1, <1>2, <2>1, SupportOfACondition DEF PlanIsOrdered, InitialEvent
  <2> QED BY <1>1, <2>2 DEF InitiallySupported, Holds
<1> QED BY <1>1, <1>2 DEF LinkInv, PerformedInOrder, SupportedConditionsHold

LEMMA LinkStep ==
    ASSUME LinkInv, NEW k, Perform(k)
    PROVE  LinkInv'
<1>1. /\ plan' = plan /\ links' = links /\ orderings' = orderings
      /\ performed' = performed \cup {k} /\ Ready(k)
  BY DEF Perform
<1>2. PlanIsOrdered'
  BY <1>1 DEF LinkInv, PlanIsOrdered
<1>3. k \in DOMAIN plan /\ k \notin performed /\ plan \in Seq(Events)
  BY <1>1, OrderedIsDomain DEF LinkInv, PlanIsOrdered, Ready
<1>4. PerformedInOrder'
  BY <1>1, <1>3 DEF LinkInv, PerformedInOrder, Ready
<1>5. SUFFICES ASSUME NEW c \in DOMAIN plan \ performed', NEW l \in Conditions(plan[c]),
                      IsKept(plan, links, c, l), Supported(c, l)'
               PROVE  Holds(l)'
  BY <1>1, <1>2, <1>4 DEF LinkInv, SupportedConditionsHold
<1>6. l \in Literals /\ l.positive = TRUE /\ c \notin performed /\ c # k
  BY <1>1, ConditionsAreLiterals
<1>7. CASE Supported(c, l)
  <2>1. Holds(l)
    BY <1>5, <1>6, <1>7 DEF LinkInv, SupportedConditionsHold
  <2>2. ~Threatens(plan[k], l)
    BY <1>1, <1>5, <1>6, <1>7, ReadyStepsThreatenNoLink
  <2> QED BY <1>6, <2>1, <2>2, LiteralKept
<1>8. CASE ~Supported(c, l)
  <2>1. MinimumSupport(plan, l, c) = k
    BY <1>1, <1>5, <1>8 DEF Supported
  <2>2. k # InitialEvent
    BY <1>3 DEF InitialEvent
  <2>3. Supports(plan[k], l)
    BY <1>3, <2>1, <2>2, SupportOfACondition DEF LinkInv, PlanIsOrdered
  <2> QED BY <1>6, <2>3, LiteralSupplied
<1> QED BY <1>7, <1>8

LEMMA LinkInvariant == DeorderedSpec => []LinkInv
<1>1. ASSUME LinkInv, [DeorderedNext]_execVars PROVE LinkInv'
  <2>1. CASE DeorderedNext
    BY <1>1, <2>1, LinkStep DEF DeorderedNext
  <2>2. CASE UNCHANGED execVars
    BY <1>1, <2>2 DEF execVars, LinkInv, PlanIsOrdered, PerformedInOrder,
                      SupportedConditionsHold, Supported, Holds
  <2> QED BY <1>1, <2>1, <2>2
<1> QED BY <1>1, LinkInit, PTL DEF DeorderedSpec

LEMMA LinkInvSuffices == LinkInv => ReadyStepsFindTheirConditions
<1>1. SUFFICES ASSUME LinkInv, NEW k \in DOMAIN plan, Ready(k),
                      NEW l \in Conditions(plan[k]), IsKept(plan, links, k, l)
               PROVE  Holds(l)
  BY NotDropped DEF ReadyStepsFindTheirConditions
<1> DEFINE s == MinimumSupport(plan, l, k)
<1>2. plan \in Seq(Events) /\ OrderingSucceeds(plan) /\ k \notin performed
  BY <1>1 DEF LinkInv, PlanIsOrdered, Ready
<1>3. s = InitialEvent \/ s \in 1..k - 1
  BY <1>2, SupportOfACondition
<1>4. ASSUME s \in 1..k - 1 PROVE s \in performed
  <2>1. s \in DOMAIN plan /\ s < k /\ s # InitialEvent
    BY <1>2, <1>4 DEF InitialEvent
  <2>2. OrderedPair(plan, links, s, k)
    BY <1>1, KeptLinkOrders
  <2>3. <<s, k>> \in orderings
    BY <1>1, <1>2, <2>1, <2>2, OrderedSteps DEF LinkInv, PlanIsOrdered
  <2> QED BY <1>1, <2>1, <2>3 DEF Ready
<1>5. s \in performed \cup {InitialEvent}
  BY <1>3, <1>4
<1> QED BY <1>1, <1>2, <1>5 DEF LinkInv, SupportedConditionsHold, Supported

(* KK's orderings suffice for every condition of a step whose link is      *)
(* kept, its action's over-all conditions included.                        *)
THEOREM DeorderedPlansExecute == DeorderedSpec => []ReadyStepsFindTheirConditions
BY LinkInvariant, LinkInvSuffices, PTL

(* The set keeps every link when of any two facts one is before the other: *)
(* that is so when no two facts of one name have more than one argument.   *)
FactsAreComparable ==
    \A f, g \in Facts : f # g => FactBefore(f, g) \/ FactBefore(g, f)

THEOREM ComparableFactsKeepEveryLink ==
    ASSUME FactsAreComparable, NEW p
    PROVE  ValidationStructures(p) = {Links(p)}
<1>1. ASSUME NEW x \in Links(p), NEW y \in Links(p), TakenForSame(x, y)
      PROVE  x = y
  <2>1. PICK i \in DOMAIN p : \E l \in Conditions(p[i]) : x = Link(MinimumSupport(p, l, i), l, i)
    BY Zenon DEF Links
  <2>2. PICK j \in DOMAIN p : \E l \in Conditions(p[j]) : y = Link(MinimumSupport(p, l, j), l, j)
    BY Zenon DEF Links
  <2>3. PICK l \in Conditions(p[i]) : x = Link(MinimumSupport(p, l, i), l, i)
    BY <2>1
  <2>4. PICK m \in Conditions(p[j]) : y = Link(MinimumSupport(p, m, j), m, j)
    BY <2>2
  <2>5. /\ x.literal = l /\ y.literal = m /\ x.supporter = y.supporter /\ i = j
        /\ ~FactBefore(l.fact, m.fact) /\ ~FactBefore(m.fact, l.fact)
    BY <1>1, <2>3, <2>4 DEF TakenForSame, Link
  <2>6. /\ l \in Literals /\ l.positive = TRUE
        /\ m \in Literals /\ m.positive = TRUE
    BY ConditionsAreLiterals
  <2>7. l = m
    BY <2>5, <2>6 DEF FactsAreComparable, Literals
  <2> QED BY <2>3, <2>4, <2>5, <2>7
<1>2. Confusable(p) = {}
  BY <1>1 DEF Confusable
<1> QED BY <1>2 DEF ValidationStructures

-----------------------------------------------------------------------------
(* A literal on which an action under way relies at both its ends.         *)
LEMMA ReadyStepsThreatenNoInvariant ==
    ASSUME LinkInv, NEW k, Ready(k), NEW s \in performed,
           NEW e \in DOMAIN plan, e \notin performed, e # k, s < e,
           NEW l \in Conditions(plan[s]), l \in Conditions(plan[e]),
           IsKept(plan, links, s, l), IsKept(plan, links, e, l), UndisturbedInList(l, s, e)
    PROVE  ~Threatens(plan[k], l)
<1> DEFINE q == MinimumSupport(plan, l, s)
<1>1. SUFFICES ASSUME Threatens(plan[k], l) PROVE FALSE
  OBVIOUS
<1>2. /\ plan \in Seq(Events) /\ orderings = OrderingConstraints(plan, links)
      /\ OrderingSucceeds(plan)
      /\ k \in DOMAIN plan /\ k \notin performed /\ s \in DOMAIN plan
  BY OrderedIsDomain DEF LinkInv, PlanIsOrdered, PerformedInOrder, Ready
<1>3. DOMAIN plan = 1..Len(plan) /\ Len(plan) \in Nat
  BY <1>2
<1>4. CASE e < k
  <2>1. OrderedPair(plan, links, e, k)
    BY <1>1, KeptLinkOrders
  <2>2. <<e, k>> \in orderings
    BY <1>2, <1>4, <2>1, OrderedSteps
  <2> QED BY <1>3, <2>2 DEF Ready, InitialEvent
<1>5. CASE s < k /\ k < e
  <2>1. k \in s..e - 1
    BY <1>2, <1>3, <1>5
  <2> QED BY <1>1, <2>1 DEF UndisturbedInList
<1>6. CASE k < s
  <2>1. \/ q = InitialEvent /\ \A t \in 1..s - 1 : ~Threatens(plan[t], l)
        \/ q \in 1..s - 1 /\ \A t \in q + 1..s - 1 : ~Threatens(plan[t], l)
    BY <1>2, SupportOfACondition
  <2>2. k \in 1..s - 1
    BY <1>2, <1>3, <1>6
  <2>3. q \in 1..s - 1 /\ k \notin q + 1..s - 1
    BY <1>1, <2>1, <2>2
  <2>4. q \in DOMAIN plan /\ q < s /\ q # InitialEvent
    BY <1>2, <1>3, <2>3 DEF InitialEvent
  <2>5. <<q, s>> \in orderings
    BY <1>2, <2>4, OrderedSteps, KeptLinkOrders
  <2>6. q \in performed
    BY <2>4, <2>5 DEF LinkInv, PerformedInOrder
  <2>7. k < q
    BY <1>2, <1>3, <2>2, <2>3, <2>6
  <2>8. OrderedPair(plan, links, k, q)
    BY <1>1, KeptLinkOrders
  <2>9. <<k, q>> \in orderings
    BY <1>2, <2>4, <2>7, <2>8, OrderedSteps
  <2>10. k \in performed \cup {InitialEvent}
    BY <2>6, <2>9 DEF LinkInv, PerformedInOrder
  <2> QED BY <1>2, <1>3, <2>10 DEF InitialEvent
<1> QED BY <1>2, <1>3, <1>4, <1>5, <1>6

LEMMA InvariantStep ==
    ASSUME LinkInv, RunningActionsKeepTheirInvariants, NEW k, Perform(k)
    PROVE  RunningActionsKeepTheirInvariants'
<1>1. /\ plan' = plan /\ links' = links /\ performed' = performed \cup {k} /\ Ready(k)
      /\ k \in DOMAIN plan
  BY OrderedIsDomain DEF Perform, Ready, LinkInv, PlanIsOrdered
<1>2. SUFFICES ASSUME NEW s \in performed', NEW e \in DOMAIN plan \ performed',
                      plan[s].timeSpec = "AT_START", plan[s].pairWithStep + 1 = e, s < e,
                      plan[e].timeSpec = "AT_END", plan[e].ref = plan[s].ref,
                      NEW l \in Invariants(plan[s].ref), ~Dropped(l, s), ~Dropped(l, e),
                      UndisturbedInList(l, s, e)
               PROVE  Holds(l)'
  BY <1>1 DEF RunningActionsKeepTheirInvariants, UndisturbedInList, Dropped
<1>3. l \in Conditions(plan[s]) /\ l \in Conditions(plan[e])
  BY <1>2 DEF Conditions
<1>4. l \in Literals /\ e \notin performed /\ e # k
  BY <1>1, <1>3, ConditionsAreLiterals
<1>5. IsKept(plan, links, s, l) /\ IsKept(plan, links, e, l)
  <2>1. s \in DOMAIN plan
    BY <1>1, <1>2 DEF LinkInv, PerformedInOrder
  <2> QED BY <1>2, <1>3, <2>1, NotDropped
<1>6. CASE s = k
  <2>1. Holds(l)
    BY <1>1, <1>2, <1>3, <1>6, LinkInvSuffices DEF ReadyStepsFindTheirConditions
  <2>2. k \in k..e - 1
    BY <1>1, <1>2, <1>6 DEF LinkInv, PlanIsOrdered
  <2>3. ~Threatens(plan[k], l)
    BY <1>2, <1>6, <2>2 DEF UndisturbedInList
  <2> QED BY <1>4, <2>1, <2>3, LiteralKept
<1>7. CASE s # k
  <2>1. s \in performed
    BY <1>1, <1>7
  <2>2. Holds(l)
    BY <1>2, <1>4, <2>1 DEF RunningActionsKeepTheirInvariants
  <2>3. ~Threatens(plan[k], l)
    BY <1>1, <1>2, <1>3, <1>4, <1>5, <2>1, ReadyStepsThreatenNoInvariant
  <2> QED BY <1>4, <2>2, <2>3, LiteralKept
<1> QED BY <1>6, <1>7

(* They keep the over-all conditions of an action under way, when the      *)
(* links at both its ends are kept, from steps that the list has before    *)
(* its start or after its end.                                             *)
THEOREM DeorderedInvariantsKept == DeorderedSpec => []RunningActionsKeepTheirInvariants
<1>1. DeorderedInit => RunningActionsKeepTheirInvariants
  BY DEF DeorderedInit, RunningActionsKeepTheirInvariants
<1>2. ASSUME LinkInv, RunningActionsKeepTheirInvariants, [DeorderedNext]_execVars
      PROVE  RunningActionsKeepTheirInvariants'
  <2>1. CASE DeorderedNext
    BY <1>2, <2>1, InvariantStep DEF DeorderedNext
  <2>2. CASE UNCHANGED execVars
    BY <1>2, <2>2 DEF execVars, RunningActionsKeepTheirInvariants, Holds,
                      UndisturbedInList, Dropped
  <2> QED BY <1>2, <2>1, <2>2
<1> QED BY <1>1, <1>2, LinkInvariant, PTL DEF DeorderedSpec

-----------------------------------------------------------------------------
(* The reader.  Every end in the backlog has the place of its start, which *)
(* has no pair yet, and no two have the same.                              *)
TimedEvents ==
    [timeSpec : {"AT"}, ref : DOMAIN TILs, pairWithStep : Int, at : Int]
    \cup [timeSpec : {"AT_START", "AT_END"}, ref : Actions, pairWithStep : Int, at : Int]

EndOf(events, b) ==
    /\ b.timeSpec = "AT_END" /\ b.ref \in Durative
    /\ b.pairWithStep + 1 \in DOMAIN events
    /\ events[b.pairWithStep + 1].timeSpec = "AT_START"
    /\ events[b.pairWithStep + 1].ref = b.ref
    /\ events[b.pairWithStep + 1].pairWithStep = -1

ReaderInv(r) ==
    /\ r.events \in Seq(TimedEvents) /\ r.backlog \in Seq(TimedEvents)
    /\ PairsMatch(r.events)
    /\ \A n \in DOMAIN r.backlog : EndOf(r.events, r.backlog[n])
    /\ \A n, m \in DOMAIN r.backlog :
          r.backlog[n].pairWithStep = r.backlog[m].pairWithStep => n = m

LEMMA WithoutOne ==
    ASSUME NEW S, NEW s \in Seq(S), NEW n \in DOMAIN s
    PROVE  /\ RemoveAt(s, n) \in Seq(S)
           /\ Len(RemoveAt(s, n)) = Len(s) - 1
           /\ \A m \in DOMAIN RemoveAt(s, n) :
                 RemoveAt(s, n)[m] = IF m < n THEN s[m] ELSE s[m + 1]
<1> DEFINE a == SubSeq(s, 1, n - 1)
           b == SubSeq(s, n + 1, Len(s))
<1>1. n \in 1..Len(s) /\ Len(s) \in Nat
  OBVIOUS
<1>2. a \in Seq(S) /\ Len(a) = n - 1 /\ \A m \in 1..n - 1 : a[m] = s[m]
  BY <1>1
<1>3. /\ b \in Seq(S) /\ Len(b) = Len(s) - n
      /\ \A m \in 1..Len(s) - n : b[m] = s[m + n]
  BY <1>1
<1>4. RemoveAt(s, n) = a \o b
  BY DEF RemoveAt
<1> HIDE DEF a, b
<1>5. a \o b \in Seq(S) /\ Len(a \o b) = Len(s) - 1
  BY <1>1, <1>2, <1>3
<1>6. ASSUME NEW m \in 1..Len(s) - 1 PROVE (a \o b)[m] = IF m < n THEN s[m] ELSE s[m + 1]
  <2>1. CASE m < n
    BY <1>1, <1>2, <1>3, <2>1
  <2>2. CASE n <= m
    <3>1. (a \o b)[m] = b[m - (n - 1)]
      BY <1>1, <1>2, <1>3, <2>2
    <3>2. m - (n - 1) \in 1..Len(s) - n /\ m - (n - 1) + n = m + 1
      BY <1>1, <2>2
    <3> QED BY <1>1, <1>3, <2>2, <3>1, <3>2
  <2>3. (m < n \/ n <= m) /\ ~(m < n /\ n <= m)
    BY <1>1
  <2> QED BY <2>1, <2>2, <2>3
<1>7. DOMAIN (a \o b) = 1..Len(s) - 1
  BY <1>5
<1>8. \A m \in DOMAIN (a \o b) : (a \o b)[m] = IF m < n THEN s[m] ELSE s[m + 1]
  BY <1>6, <1>7
<1> QED BY <1>4, <1>5, <1>8, Zenon

LEMMA EndMovedKeepsPairs ==
    ASSUME NEW r, ReaderInv(r), NEW n \in DOMAIN r.backlog
    PROVE  ReaderInv(EndMoved(r, n))
<1> DEFINE end == r.backlog[n]
           s == end.pairWithStep + 1
           old == r.events
           marked == [old EXCEPT ![s].pairWithStep = Len(old)]
           new == EndMoved(r, n)
<1>1. /\ old \in Seq(TimedEvents) /\ r.backlog \in Seq(TimedEvents) /\ end \in TimedEvents
      /\ PairsMatch(old)
  BY DEF ReaderInv
<1>2. /\ EndOf(old, end) /\ s \in DOMAIN old /\ s \in 1..Len(old)
      /\ Len(old) \in Nat /\ end.pairWithStep \in Int
  BY <1>1 DEF ReaderInv, EndOf, TimedEvents
<1>3. /\ marked \in Seq(TimedEvents) /\ Len(marked) = Len(old)
      /\ \A k \in DOMAIN old \ {s} : marked[k] = old[k]
      /\ marked[s].pairWithStep = Len(old) /\ marked[s].timeSpec = "AT_START"
      /\ marked[s].ref = end.ref
  <2>1. old[s] \in TimedEvents
    BY <1>1, <1>2
  <2>2. [old[s] EXCEPT !.pairWithStep = Len(old)] \in TimedEvents
    BY <1>2, <2>1 DEF TimedEvents
  <2> QED BY <1>1, <1>2, <2>1, <2>2 DEF EndOf, TimedEvents
<1>4. /\ new.events = Append(marked, end) /\ new.backlog = RemoveAt(r.backlog, n)
  BY DEF EndMoved
<1> HIDE DEF marked, new
<1>5. /\ new.events \in Seq(TimedEvents) /\ Len(new.events) = Len(old) + 1
      /\ \A k \in 1..Len(old) : new.events[k] = marked[k]
      /\ new.events[Len(old) + 1] = end
  BY <1>1, <1>3, <1>4
<1>6. PairsMatch(new.events)
  <2> DEFINE p == new.events
  <2>1. SUFFICES ASSUME NEW i \in Paired(p), NEW j, j = p[i].pairWithStep + 1
                 PROVE  /\ j \in DOMAIN p \ {i} /\ p[i].ref \in Durative
                        /\ p[j].pairWithStep + 1 = i /\ p[j].ref = p[i].ref
                        /\ IF i < j THEN p[i].timeSpec = "AT_START" /\ p[j].timeSpec = "AT_END"
                           ELSE p[j].timeSpec = "AT_START" /\ p[i].timeSpec = "AT_END"
    BY DEF PairsMatch
  <2>2. DOMAIN p = 1..Len(old) + 1 /\ i \in 1..Len(old) + 1
    BY <1>2, <1>5, <2>1 DEF Paired
  <2>3. CASE i = s
    <3>1. p[i] = marked[s] /\ j = Len(old) + 1 /\ p[j] = end
      BY <1>2, <1>3, <1>5, <2>1, <2>3
    <3>2. end.ref \in Durative /\ end.timeSpec = "AT_END"
      BY <1>2 DEF EndOf
    <3> QED BY <1>2, <1>3, <2>2, <2>3, <3>1, <3>2
  <2>4. CASE i = Len(old) + 1
    <3>1. p[i] = end /\ j = s /\ p[j] = marked[s]
      BY <1>2, <1>3, <1>5, <2>1, <2>4
    <3>2. end.ref \in Durative /\ end.timeSpec = "AT_END"
      BY <1>2 DEF EndOf
    <3> QED BY <1>2, <1>3, <2>2, <2>4, <3>1, <3>2
  <2>5. CASE i # s /\ i # Len(old) + 1
    <3>1. i \in 1..Len(old) /\ p[i] = old[i] /\ i \in Paired(old)
      BY <1>1, <1>2, <1>3, <1>5, <2>1, <2>2, <2>5 DEF Paired
    <3>2. j \in DOMAIN old \ {i} /\ old[j].pairWithStep + 1 = i
      BY <1>1, <2>1, <3>1 DEF PairsMatch
    <3>3. j # s
      BY <1>2, <3>1, <3>2 DEF EndOf
    <3>4. j \in 1..Len(old) /\ p[j] = old[j]
      BY <1>1, <1>2, <1>3, <1>5, <3>2, <3>3
    <3> QED BY <1>1, <1>2, <2>1, <2>2, <3>1, <3>2, <3>4 DEF PairsMatch
  <2> QED BY <2>2, <2>3, <2>4, <2>5
<1>7. /\ new.backlog \in Seq(TimedEvents) /\ Len(new.backlog) = Len(r.backlog) - 1
      /\ \A m \in DOMAIN new.backlog :
            new.backlog[m] = IF m < n THEN r.backlog[m] ELSE r.backlog[m + 1]
  BY <1>1, <1>4, WithoutOne
<1> DEFINE Old(m) == IF m < n THEN m ELSE m + 1
<1>8. \A m \in DOMAIN new.backlog :
         Old(m) \in DOMAIN r.backlog \ {n} /\ new.backlog[m] = r.backlog[Old(m)]
  <2>1. DOMAIN new.backlog = 1..Len(r.backlog) - 1 /\ n \in 1..Len(r.backlog)
    BY <1>1, <1>7
  <2> QED BY <1>1, <1>7, <2>1
<1>9. ASSUME NEW m \in DOMAIN new.backlog PROVE EndOf(new.events, new.backlog[m])
  <2> DEFINE b == new.backlog[m]
  <2>1. /\ EndOf(old, b) /\ b.pairWithStep # end.pairWithStep
        /\ b.pairWithStep \in Int
    BY <1>1, <1>8 DEF ReaderInv, TimedEvents
  <2>2. /\ b.pairWithStep + 1 \in DOMAIN old \ {s}
        /\ b.pairWithStep + 1 \in 1..Len(old)
    <3>1. b.pairWithStep + 1 \in DOMAIN old /\ DOMAIN old = 1..Len(old)
      BY <1>1, <2>1 DEF EndOf
    <3> QED BY <1>2, <2>1, <3>1
  <2>3. new.events[b.pairWithStep + 1] = old[b.pairWithStep + 1]
    BY <1>3, <1>5, <2>2
  <2>4. b.pairWithStep + 1 \in DOMAIN new.events
    BY <1>2, <1>5, <2>2
  <2> QED BY <2>1, <2>3, <2>4 DEF EndOf
<1>10. ASSUME NEW l \in DOMAIN new.backlog, NEW m \in DOMAIN new.backlog,
              new.backlog[l].pairWithStep = new.backlog[m].pairWithStep
       PROVE  l = m
  <2>1. Old(l) = Old(m)
    BY <1>8, <1>10 DEF ReaderInv
  <2>2. l \in Int /\ m \in Int /\ n \in Int
    BY <1>1, <1>7
  <2> QED BY <2>1, <2>2
<1> QED BY <1>5, <1>6, <1>7, <1>9, <1>10 DEF ReaderInv, new

LEMMA LinesOfAnswers ==
    ASSUME NEW line \in AnswerLines
    PROVE  /\ line.op \in Actions \cup {NoOperator}
           /\ line.til \in {NoLiteral} \cup DOMAIN TILs
           /\ line.at \in Int
           /\ line.op \in Durative => line.at + line.duration \in Int
<1>1. line \in [op : Actions \cup {NoOperator}, til : {NoLiteral} \cup DOMAIN TILs,
                at : LineTimes, duration : {0} \cup UNION {Lasts(a) : a \in Durative}]
  BY DEF AnswerLines
<1>2. line.duration \in Lasts(line.op)
  BY Zenon DEF AnswerLines
<1>3. line.at \in LineTimes
  BY <1>1
<1>4. \A t \in LineTimes : t \in Int
  BY HeuristicAssumption
<1>5. line.at \in Int
  BY <1>3, <1>4, Zenon
<1>6. ASSUME line.op \in Durative PROVE line.duration \in Int
  BY <1>2, <1>6, DurationAssumption DEF Lasts
<1> QED BY <1>1, <1>5, <1>6

LEMMA ReadLineKeepsPairs ==
    ASSUME NEW r, ReaderInv(r), NEW line \in AnswerLines
    PROVE  ReaderInv(ReadLine(r, line))
<1> DEFINE old == r.events
           new == ReadLine(r, line)
<1>1. /\ line.op \in Actions \cup {NoOperator} /\ line.til \in {NoLiteral} \cup DOMAIN TILs
      /\ line.at \in Int
      /\ line.op \in Durative => line.at + line.duration \in Int
  BY LinesOfAnswers
<1>2. /\ old \in Seq(TimedEvents) /\ r.backlog \in Seq(TimedEvents) /\ Len(old) \in Nat
      /\ PairsMatch(old)
      /\ \A n \in DOMAIN r.backlog :
            EndOf(old, r.backlog[n]) /\ r.backlog[n].pairWithStep + 1 \in DOMAIN old
  BY DEF ReaderInv, EndOf
<1>3. ASSUME NEW e \in TimedEvents, e.pairWithStep = -1, new.events = Append(old, e)
      PROVE  /\ new.events \in Seq(TimedEvents) /\ PairsMatch(new.events)
             /\ \A n \in DOMAIN r.backlog : EndOf(new.events, r.backlog[n])
  <2> DEFINE p == new.events
  <2>1. /\ p \in Seq(TimedEvents) /\ DOMAIN p = 1..Len(old) + 1 /\ DOMAIN old = 1..Len(old)
        /\ \A k \in 1..Len(old) : p[k] = old[k]
        /\ p[Len(old) + 1] = e
    BY <1>2, <1>3
  <2>2. Paired(p) \subseteq Paired(old)
    BY <1>2, <1>3, <2>1 DEF Paired
  <2>3. PairsMatch(p)
    <3>1. SUFFICES ASSUME NEW i \in Paired(p), NEW j, j = p[i].pairWithStep + 1
                   PROVE  /\ j \in DOMAIN p \ {i} /\ p[i].ref \in Durative
                          /\ p[j].pairWithStep + 1 = i /\ p[j].ref = p[i].ref
                          /\ IF i < j THEN p[i].timeSpec = "AT_START" /\ p[j].timeSpec = "AT_END"
                             ELSE p[j].timeSpec = "AT_START" /\ p[i].timeSpec = "AT_END"
      BY DEF PairsMatch
    <3>2. i \in Paired(old) /\ p[i] = old[i]
      BY <2>1, <2>2 DEF Paired
    <3>3. j \in 1..Len(old) /\ p[j] = old[j] /\ j \in DOMAIN p
      BY <1>2, <2>1, <3>1, <3>2 DEF PairsMatch
    <3> QED BY <1>2, <3>1, <3>2, <3>3 DEF PairsMatch
  <2> HIDE DEF new
  <2>4. ASSUME NEW n \in DOMAIN r.backlog PROVE EndOf(p, r.backlog[n])
    <3>1. r.backlog[n].pairWithStep + 1 \in 1..Len(old)
      BY <1>2, <2>1
    <3>2. p[r.backlog[n].pairWithStep + 1] = old[r.backlog[n].pairWithStep + 1]
      BY <2>1, <3>1
    <3>3. r.backlog[n].pairWithStep + 1 \in DOMAIN p
      BY <1>2, <2>1, <3>1
    <3> QED BY <1>2, <3>2, <3>3, Zenon DEF EndOf
  <2> QED BY <2>1, <2>3, <2>4
<1>4. CASE line.op # NoOperator
  <2> DEFINE start == Snap("AT_START", line.op, -1, line.at)
             end == Snap("AT_END", line.op, Len(old), line.at + line.duration)
  <2>1. start \in TimedEvents /\ start.pairWithStep = -1 /\ new.events = Append(old, start)
    BY <1>1, <1>4 DEF ReadLine, Snap, TimedEvents
  <2>2. CASE line.op \in Durative
    <3>1. end \in TimedEvents /\ new.backlog = Append(r.backlog, end)
      BY <1>1, <1>2, <1>4, <2>2 DEF ReadLine, Snap, TimedEvents
    <3>2. /\ end.pairWithStep = Len(old) /\ end.timeSpec = "AT_END" /\ end.ref = line.op
          /\ start.timeSpec = "AT_START" /\ start.ref = line.op
      BY DEF Snap
    <3>3. /\ new.events \in Seq(TimedEvents) /\ PairsMatch(new.events)
          /\ \A n \in DOMAIN r.backlog : EndOf(new.events, r.backlog[n])
      BY <1>3, <2>1
    <3> HIDE DEF new, start, end
    <3>4. Len(old) + 1 \in DOMAIN new.events /\ new.events[Len(old) + 1] = start
      BY <1>2, <2>1
    <3>5. EndOf(new.events, end)
      BY <2>1, <2>2, <3>2, <3>4 DEF EndOf
    <3>6. /\ new.backlog \in Seq(TimedEvents)
          /\ \A n \in DOMAIN new.backlog :
                \/ n \in DOMAIN r.backlog /\ new.backlog[n] = r.backlog[n]
                \/ n = Len(r.backlog) + 1 /\ new.backlog[n] = end
      BY <1>2, <3>1
    <3>7. \A n \in DOMAIN r.backlog : r.backlog[n].pairWithStep # Len(old)
      BY <1>2
    <3>8. \A n \in DOMAIN new.backlog : EndOf(new.events, new.backlog[n])
      BY <3>3, <3>5, <3>6
    <3>9. \A n, m \in DOMAIN new.backlog :
             new.backlog[n].pairWithStep = new.backlog[m].pairWithStep => n = m
      BY <3>2, <3>6, <3>7 DEF ReaderInv
    <3> QED BY <3>3, <3>6, <3>8, <3>9 DEF ReaderInv, new
  <2>3. CASE line.op \notin Durative
    <3>1. new.backlog = r.backlog
      BY <1>4, <2>3 DEF ReadLine
    <3> QED BY <1>2, <1>3, <2>1, <3>1 DEF ReaderInv
  <2> QED BY <2>2, <2>3
<1>5. CASE line.op = NoOperator /\ line.til # NoLiteral
  <2> DEFINE e == Snap("AT", line.til, -1, line.at)
  <2>1. e \in TimedEvents /\ e.pairWithStep = -1
    BY <1>1, <1>5 DEF Snap, TimedEvents
  <2>2. new.events = Append(old, e) /\ new.backlog = r.backlog
    BY <1>5 DEF ReadLine
  <2> QED BY <1>2, <1>3, <2>1, <2>2 DEF ReaderInv
<1>6. CASE line.op = NoOperator /\ line.til = NoLiteral
  <2>1. new.events = old /\ new.backlog = r.backlog
    BY <1>6 DEF ReadLine
  <2> QED BY <2>1 DEF ReaderInv
<1> QED BY <1>4, <1>5, <1>6

(* The plans joined: the pairs of the answer move with its steps.          *)
LEMMA JoinedPlansKeepPairs ==
    ASSUME NEW h \in Headers, NEW r \in Seq(TimedEvents), PairsMatch(r)
    PROVE  /\ AddRelaxedPlan(h, r) \in Seq(Events)
           /\ PairsMatch(AddRelaxedPlan(h, r))
<1> DEFINE Moved(i) == Untimed(r[i], IF r[i].pairWithStep < 0 THEN 0 ELSE Len(h))
           t == [i \in DOMAIN r |-> Moved(i)]
           p == AddRelaxedPlan(h, r)
<1>1. h \in Seq(Events) /\ PairsMatch(h) /\ Len(h) \in Nat /\ Len(r) \in Nat
  BY HeuristicAssumption
<1>2. ASSUME NEW i \in DOMAIN r PROVE Moved(i) \in Events
  <2>1. r[i] \in TimedEvents
    OBVIOUS
  <2> QED BY <1>1, <2>1 DEF TimedEvents, Events, Untimed
<1>3. t \in Seq(Events) /\ Len(t) = Len(r)
  BY <1>1, <1>2
<1>4. p = h \o t
  BY DEF AddRelaxedPlan
<1>5. \A i \in DOMAIN r : t[i] = Moved(i)
  OBVIOUS
<1>6. \A i \in DOMAIN r :
         /\ r[i].pairWithStep \in Int
         /\ Moved(i).timeSpec = r[i].timeSpec /\ Moved(i).ref = r[i].ref
         /\ Moved(i).pairWithStep = r[i].pairWithStep
               + (IF r[i].pairWithStep < 0 THEN 0 ELSE Len(h))
  <2>1. \A i \in DOMAIN r : r[i] \in TimedEvents
    OBVIOUS
  <2> QED BY <2>1 DEF TimedEvents, Untimed
<1> HIDE DEF t, p, Moved
<1>7. /\ p \in Seq(Events) /\ DOMAIN p = 1..Len(h) + Len(r)
      /\ \A i \in 1..Len(h) : p[i] = h[i]
      /\ \A i \in 1..Len(r) : p[Len(h) + i] = t[i]
  <2>1. p \in Seq(Events) /\ Len(p) = Len(h) + Len(r)
    <3>1. h \o t \in Seq(Events) /\ Len(h \o t) = Len(h) + Len(t)
      BY <1>1, <1>3, ConcatProperties
    <3> QED BY <1>3, <1>4, <3>1
  <2>2. DOMAIN p = 1..Len(h) + Len(r)
    BY <2>1
  <2>3. ASSUME NEW i \in 1..Len(h) PROVE p[i] = h[i]
    <3>1. i \in 1..Len(h) + Len(t) /\ i <= Len(h)
      BY <1>1, <1>3
    <3> QED BY <1>1, <1>3, <1>4, <3>1, ConcatProperties
  <2>4. ASSUME NEW i \in 1..Len(r) PROVE p[Len(h) + i] = t[i]
    <3>1. Len(h) + i \in 1..Len(h) + Len(t) /\ Len(h) + i > Len(h) /\ Len(h) + i - Len(h) = i
      BY <1>1, <1>3
    <3> QED BY <1>1, <1>3, <1>4, <3>1, ConcatProperties
  <2> QED BY <2>1, <2>2, <2>3, <2>4
<1>8. DOMAIN h = 1..Len(h) /\ DOMAIN r = 1..Len(r)
  BY <1>1
<1>9. SUFFICES ASSUME NEW i \in Paired(p), NEW j, j = p[i].pairWithStep + 1
               PROVE  /\ j \in DOMAIN p \ {i} /\ p[i].ref \in Durative
                      /\ p[j].pairWithStep + 1 = i /\ p[j].ref = p[i].ref
                      /\ IF i < j THEN p[i].timeSpec = "AT_START" /\ p[j].timeSpec = "AT_END"
                         ELSE p[j].timeSpec = "AT_START" /\ p[i].timeSpec = "AT_END"
  BY <1>7 DEF PairsMatch, p
<1>10. i \in 1..Len(h) + Len(r) /\ p[i].pairWithStep >= 0
  BY <1>7, <1>9 DEF Paired
<1>11. CASE i <= Len(h)
  <2>1. i \in Paired(h) /\ p[i] = h[i]
    BY <1>1, <1>7, <1>8, <1>10, <1>11 DEF Paired
  <2>2. j \in 1..Len(h) /\ p[j] = h[j] /\ j \in DOMAIN p
    BY <1>1, <1>7, <1>8, <1>9, <2>1 DEF PairsMatch
  <2> QED BY <1>1, <1>9, <2>1, <2>2 DEF PairsMatch
<1>12. CASE i > Len(h)
  <2> DEFINE a == i - Len(h)
             b == r[a].pairWithStep + 1
  <2>1. a \in 1..Len(r) /\ p[i] = t[a] /\ i = Len(h) + a
    BY <1>1, <1>7, <1>10, <1>12
  <2> HIDE DEF a
  <2>2. a \in Paired(r) /\ r[a].pairWithStep >= 0 /\ p[i] = Moved(a)
    BY <1>1, <1>5, <1>6, <1>8, <1>10, <2>1 DEF Paired
  <2>3. j = Len(h) + b /\ r[a].pairWithStep \in Int
    BY <1>1, <1>6, <1>8, <1>9, <2>1, <2>2
  <2>4. /\ b \in DOMAIN r \ {a} /\ r[a].ref \in Durative
        /\ r[b].pairWithStep + 1 = a /\ r[b].ref = r[a].ref
        /\ IF a < b THEN r[a].timeSpec = "AT_START" /\ r[b].timeSpec = "AT_END"
           ELSE r[b].timeSpec = "AT_START" /\ r[a].timeSpec = "AT_END"
    BY <2>2 DEF PairsMatch
  <2> HIDE DEF b
  <2>5. p[j] = Moved(b) /\ j \in DOMAIN p /\ b \in 1..Len(r) /\ r[b].pairWithStep \in Int
    BY <1>1, <1>5, <1>6, <1>7, <1>8, <2>3, <2>4
  <2>6. r[b].pairWithStep >= 0
    BY <2>1, <2>4, <2>5
  <2>7. p[j].pairWithStep + 1 = i
    <3>1. p[j].pairWithStep = r[b].pairWithStep + Len(h)
      BY <1>1, <1>6, <1>8, <2>5, <2>6
    <3>2. /\ r[b].pairWithStep + 1 = a /\ r[b].pairWithStep \in Int /\ a \in Int
          /\ i = Len(h) + a /\ Len(h) \in Int
      BY <1>1, <2>1, <2>4, <2>5
    <3> QED BY <3>1, <3>2
  <2>8. a < b <=> i < j
    BY <1>1, <2>1, <2>3, <2>5
  <2> QED BY <1>1, <1>6, <1>8, <2>1, <2>2, <2>3, <2>4, <2>5, <2>7, <2>8
<1> QED BY <1>10, <1>11, <1>12, <1>1

-----------------------------------------------------------------------------
(* The evaluation.  Most of its steps leave the plan and the reader alone. *)
ReadingInv ==
    /\ header \in Headers /\ lines \in Seq(AnswerLines) /\ ReaderInv(reader)
    /\ plan \in Seq(Events) /\ PairsMatch(plan)

LEMMA ReadingInit == HeuristicInit => ReadingInv
<1> SUFFICES ASSUME HeuristicInit PROVE ReadingInv
  OBVIOUS
<1>1. header \in Headers /\ plan = header /\ lines = <<>> /\ reader = Unread
  BY DEF HeuristicInit
<1>2. ReaderInv(Unread)
  BY DEF ReaderInv, Unread, PairsMatch, Paired
<1> QED BY <1>1, <1>2, HeuristicAssumption DEF ReadingInv

LEMMA QuietSteps ==
    ASSUME [HeuristicNext]_allVars
    PROVE  \/ \E line \in AnswerLines : ChildAdds(line)
           \/ MoveDueEnd \/ TakeLine \/ MoveLeftEnd \/ JoinPlans
           \/ UNCHANGED <<plan, header, lines, reader>>
<1> USE DEF execVars, readingVars, heuristicVars
<1>1. CASE UNCHANGED allVars
  BY <1>1 DEF allVars
<1>2. CASE ChildFails \/ ChildAnswers
  BY <1>2 DEF ChildFails, ChildAnswers
<1>3. CASE BuildNetwork
  BY <1>3 DEF BuildNetwork, MakeNetwork, NetworkMade, AddDuration, AddCausalLink, Making,
              Phase, GoesOn
<1>4. CASE OrderPlan \/ Abort \/ VisitNext \/ VisitEdge
  BY <1>4 DEF OrderPlan, Abort, VisitNext, VisitEdge, VisitStep, Phase, GoesOn
<1>5. CASE TightenLiterals \/ RelaxConflict \/ (\E mode \in 0..3 : PlanRelaxed(mode))
  BY <1>5 DEF TightenLiterals, RelaxConflict, PlanRelaxed, Phase, GoesOn
<1>6. CASE PlanFits \/ TimingRound \/ PlanTimed \/ PlanFitsButSearchOn
  BY <1>6 DEF PlanFits, TimingRound, PlanTimed, PlanFitsButSearchOn, Phase, GoesOn
<1>7. CASE BeginPerforming \/ (\E k \in DOMAIN plan : PerformStep(k))
  BY <1>7 DEF BeginPerforming, PerformStep, Perform, Phase, GoesOn
<1> QED
  BY <1>1, <1>2, <1>3, <1>4, <1>5, <1>6, <1>7 DEF HeuristicNext, Evaluation, ReadAnswer

LEMMA ReadingStep ==
    ASSUME ReadingInv, [HeuristicNext]_allVars
    PROVE  ReadingInv'
<1> USE DEF Reading, execVars, readingVars
<1>1. CASE \E line \in AnswerLines : ChildAdds(line)
  BY <1>1 DEF ReadingInv, ChildAdds
<1>2. CASE MoveDueEnd
  <2>1. PICK n \in DOMAIN reader.backlog : reader' = EndMoved(reader, n)
    BY <1>2 DEF MoveDueEnd, Due
  <2> QED BY <1>2, <2>1, EndMovedKeepsPairs DEF ReadingInv, MoveDueEnd
<1>3. CASE TakeLine
  <2>1. Head(lines) \in AnswerLines /\ Tail(lines) \in Seq(AnswerLines)
    BY <1>3 DEF TakeLine, ReadingInv
  <2> QED BY <1>3, <2>1, ReadLineKeepsPairs DEF ReadingInv, TakeLine
<1>4. CASE MoveLeftEnd
  <2>1. 1 \in DOMAIN reader.backlog
    BY <1>4 DEF MoveLeftEnd, ReadingInv, ReaderInv
  <2> QED BY <1>4, <2>1, EndMovedKeepsPairs DEF ReadingInv, MoveLeftEnd
<1>5. CASE JoinPlans
  <2>1. reader.events \in Seq(TimedEvents) /\ PairsMatch(reader.events)
    BY DEF ReadingInv, ReaderInv
  <2>2. ReaderInv(Unread)
    BY DEF ReaderInv, Unread, PairsMatch, Paired
  <2> QED BY <1>5, <2>1, <2>2, JoinedPlansKeepPairs DEF ReadingInv, JoinPlans
<1>6. CASE UNCHANGED <<plan, header, lines, reader>>
  BY <1>6 DEF ReadingInv
<1> QED BY <1>1, <1>2, <1>3, <1>4, <1>5, <1>6, QuietSteps

LEMMA ReadingInvariant == HeuristicSpec => []ReadingInv
BY ReadingInit, ReadingStep, PTL DEF HeuristicSpec

(* Whatever the child planner answers, the total plan pairs starts and     *)
(* ends as the plan and the answer do.                                     *)
THEOREM TotalPlansPairTheirSteps == HeuristicSpec => []PairsPointBack
<1>1. ReadingInv => PairsPointBack
  BY DEF ReadingInv, PairsPointBack
<1> QED BY <1>1, ReadingInvariant, PTL

-----------------------------------------------------------------------------
(* In an evaluation the steps are performed as in DeorderedExecution.      *)
NotOrdered == orderings = {} /\ performed = {}
OrderInv ==
    /\ NotOrdered \/ (LinkInv /\ RunningActionsKeepTheirInvariants)
    /\ pc \in {"child", "reading", "order"} => NotOrdered
    /\ pc = "order" => facts = InitFacts

LEMMA OrderStep ==
    ASSUME ReadingInv, OrderInv, [HeuristicNext]_allVars
    PROVE  OrderInv'
<1> USE DEF execVars, readingVars, heuristicVars
<1>1. ASSUME UNCHANGED execVars, NotOrdered \/ pc' \notin {"child", "reading", "order"},
             pc' # "order" \/ facts' = InitFacts
      PROVE  OrderInv'
  BY <1>1 DEF OrderInv, NotOrdered, LinkInv, PlanIsOrdered, PerformedInOrder,
              SupportedConditionsHold, Supported, Holds, RunningActionsKeepTheirInvariants,
              UndisturbedInList, Dropped, IsKept
<1>2. ASSUME NotOrdered, NotOrdered', pc' # "order" \/ facts' = InitFacts PROVE OrderInv'
  BY <1>2 DEF OrderInv
<1>3. CASE (pc = "child" /\ \E line \in AnswerLines : ChildAdds(line))
           \/ ChildFails \/ ChildAnswers
  BY <1>1, <1>3 DEF ChildAdds, ChildFails, ChildAnswers, OrderInv
<1>4. CASE ReadAnswer
  BY <1>2, <1>4 DEF ReadAnswer, MoveDueEnd, TakeLine, MoveLeftEnd, JoinPlans, Reading,
                    OrderInv, NotOrdered
<1>5. CASE OrderPlan
  <2>1. DeorderedInit'
    BY <1>5 DEF OrderPlan, GoesOn, DeorderedInit, ReadingInv, OrderInv, NotOrdered
  <2>2. DeorderedInit' => LinkInv'
    BY LinkInit, PTL
  <2>3. RunningActionsKeepTheirInvariants'
    BY <2>1 DEF DeorderedInit, RunningActionsKeepTheirInvariants
  <2>4. pc' = "ordered"
    BY <1>5 DEF OrderPlan, GoesOn
  <2> QED BY <2>1, <2>2, <2>3, <2>4 DEF OrderInv
<1>6. CASE BuildNetwork \/ Abort \/ VisitNext \/ VisitEdge
  BY <1>1, <1>6 DEF BuildNetwork, MakeNetwork, NetworkMade, AddDuration, AddCausalLink,
                    Making, Phase, GoesOn, Abort, VisitNext, VisitEdge, VisitStep, OrderInv
<1>7. CASE TightenLiterals \/ RelaxConflict \/ (\E mode \in 0..3 : PlanRelaxed(mode))
  BY <1>1, <1>7 DEF TightenLiterals, RelaxConflict, PlanRelaxed, Phase, GoesOn, OrderInv
<1>8. CASE PlanFits \/ TimingRound \/ PlanTimed \/ PlanFitsButSearchOn
  BY <1>1, <1>8 DEF PlanFits, TimingRound, PlanTimed, PlanFitsButSearchOn, Phase, GoesOn,
                    OrderInv
<1>9. CASE BeginPerforming
  BY <1>1, <1>9 DEF BeginPerforming, Phase, GoesOn, OrderInv
<1>10. CASE \E k \in DOMAIN plan : PerformStep(k)
  <2>1. PICK k \in DOMAIN plan : Perform(k) /\ pc = "performing" /\ pc' = pc
    BY <1>10 DEF PerformStep
  <2>2. LinkInv /\ RunningActionsKeepTheirInvariants
    BY <2>1 DEF OrderInv, NotOrdered, Perform, Ready
  <2> QED BY <2>1, <2>2, LinkStep, InvariantStep DEF OrderInv
<1>11. CASE UNCHANGED allVars
  BY <1>1, <1>11 DEF allVars, OrderInv
<1> QED
  BY <1>3, <1>4, <1>5, <1>6, <1>7, <1>8, <1>9, <1>10, <1>11 DEF HeuristicNext, Evaluation

LEMMA OrderInvariant == HeuristicSpec => []OrderInv
<1>1. HeuristicInit => OrderInv
  BY DEF HeuristicInit, OrderInv, NotOrdered
<1> QED BY <1>1, OrderStep, ReadingInvariant, PTL DEF HeuristicSpec

(* Of the plan of an evaluation too: in every order that KK permits, each  *)
(* step finds the conditions whose links are kept.                         *)
THEOREM EvaluatedPlansExecute ==
    HeuristicSpec => []ReadyStepsFindTheirConditions
<1>1. OrderInv => ReadyStepsFindTheirConditions
  BY LinkInvSuffices DEF OrderInv, NotOrdered, ReadyStepsFindTheirConditions, Ready
<1> QED BY <1>1, OrderInvariant, PTL

(* And actions under way keep their over-all conditions, when their links  *)
(* are kept at both ends.                                                  *)
THEOREM EvaluatedInvariantsKept ==
    HeuristicSpec => []RunningActionsKeepTheirInvariants
<1>1. OrderInv => RunningActionsKeepTheirInvariants
  BY DEF OrderInv, NotOrdered, RunningActionsKeepTheirInvariants
<1> QED BY <1>1, OrderInvariant, PTL

-----------------------------------------------------------------------------
(* The network.  Its edges connect two different steps, no two the same.   *)
NetEdges ==
    {e \in [from : Steps, to : Steps, weight : Int] :
        /\ e.from # e.to
        /\ e.from = InitialEvent => e.weight < MaxSeparation
        /\ e.to = InitialEvent => e.weight <= 0}
Distinct(n) ==
    \A k, l \in DOMAIN n : Connects(n[k], n[l].from, n[l].to) => k = l
HasEdge(n, from, to) == \E k \in DOMAIN n : Connects(n[k], from, to)
LinkedBothWays(n, o) == HasEdge(n, o[1], o[2]) /\ HasEdge(n, o[2], o[1])
Covered(vs, n) == \A k \in DOMAIN n : {n[k].from, n[k].to} \subseteq Range(vs)

NetPhases == {"making", "initial", "tightened", "relaxed", "timing"}
NetworkInv ==
    /\ pc \in NetPhases \cup {"ordered"} => orderings = OrderingConstraints(plan, links)
    /\ pc \in NetPhases =>
          /\ net \in Seq(NetEdges) /\ Distinct(net)
          /\ vertices \in Seq(Steps) /\ Covered(vertices, net)
          /\ toAdd.pairs \subseteq Paired(plan) /\ toAdd.causal \subseteq orderings
          /\ \A o \in orderings \ toAdd.causal : LinkedBothWays(net, o)
    /\ pc \in NetPhases \ {"making"} => toAdd.causal = {}
    /\ relaxHist \in [DOMAIN relaxHist -> Int]

LEMMA EdgeAddedProperties ==
    ASSUME NEW S, NEW n \in Seq(S), NEW e \in S
    PROVE  /\ EdgeAdded(n, e) \in Seq(S)
           /\ HasEdge(EdgeAdded(n, e), e.from, e.to)
           /\ \A k \in DOMAIN n : k \in DOMAIN EdgeAdded(n, e) /\ EdgeAdded(n, e)[k] = n[k]
           /\ \A k \in DOMAIN EdgeAdded(n, e) :
                 \/ k \in DOMAIN n
                 \/ EdgeAdded(n, e)[k] = e /\ ~EdgeExists(n, e)
           /\ Distinct(n) => Distinct(EdgeAdded(n, e))
<1> DEFINE m == EdgeAdded(n, e)
<1>1. CASE EdgeExists(n, e)
  <2>1. m = n
    BY <1>1 DEF EdgeAdded
  <2> QED BY <1>1, <2>1 DEF EdgeExists, HasEdge
<1>2. CASE ~EdgeExists(n, e)
  <2>1. m = Append(n, e)
    BY <1>2 DEF EdgeAdded
  <2>2. /\ m \in Seq(S) /\ DOMAIN n = 1..Len(n) /\ DOMAIN m = 1..Len(n) + 1
        /\ m[Len(n) + 1] = e /\ \A k \in DOMAIN n : m[k] = n[k]
        /\ Len(n) \in Nat
    BY <2>1
  <2> HIDE DEF m
  <2>3. HasEdge(m, e.from, e.to)
    BY <2>2 DEF HasEdge, Connects
  <2>4. ASSUME Distinct(n), NEW k \in DOMAIN m, NEW l \in DOMAIN m,
               Connects(m[k], m[l].from, m[l].to)
        PROVE  k = l
    <3>1. CASE k \in DOMAIN n /\ l \in DOMAIN n
      BY <2>2, <2>4, <3>1 DEF Distinct
    <3>2. CASE k \in DOMAIN n /\ l = Len(n) + 1
      BY <1>2, <2>2, <2>4, <3>2 DEF EdgeExists
    <3>3. CASE k = Len(n) + 1 /\ l \in DOMAIN n
      BY <1>2, <2>2, <2>4, <3>3 DEF EdgeExists, Connects
    <3> QED BY <2>2, <3>1, <3>2, <3>3
  <2>5. \A k \in DOMAIN n : k \in DOMAIN m
    BY <2>2
  <2>6. \A k \in DOMAIN m : k \in DOMAIN n \/ (m[k] = e /\ ~EdgeExists(n, e))
    BY <1>2, <2>2
  <2> QED BY <2>2, <2>3, <2>4, <2>5, <2>6 DEF Distinct, m
<1> QED BY <1>1, <1>2

LEMMA EdgeAddedOnly ==
    ASSUME NEW S, NEW n \in Seq(S), NEW e \in S, NEW k \in DOMAIN EdgeAdded(n, e)
    PROVE  \/ k \in DOMAIN n /\ EdgeAdded(n, e)[k] = n[k]
           \/ EdgeAdded(n, e)[k] = e /\ ~EdgeExists(n, e)
BY EdgeAddedProperties

LEMMA RangeOfAppend ==
    ASSUME NEW S, NEW s \in Seq(S), NEW x \in S
    PROVE  Append(s, x) \in Seq(S) /\ Range(Append(s, x)) = Range(s) \cup {x}
<1> DEFINE t == Append(s, x)
<1>1. /\ t \in Seq(S) /\ DOMAIN s = 1..Len(s) /\ DOMAIN t = 1..Len(s) + 1
      /\ t[Len(s) + 1] = x /\ \A k \in 1..Len(s) : t[k] = s[k]
      /\ Len(s) \in Nat
  OBVIOUS
<1> HIDE DEF t
<1>2. Range(t) \subseteq Range(s) \cup {x}
  BY <1>1 DEF Range
<1>3. Range(s) \cup {x} \subseteq Range(t)
  BY <1>1 DEF Range
<1> QED BY <1>1, <1>2, <1>3 DEF t

LEMMA EndsAddedCover ==
    ASSUME NEW S, NEW vs \in Seq(S), NEW n, NEW e, e.from \in S, e.to \in S
    PROVE  /\ EndsAdded(vs, n, e) \in Seq(S)
           /\ Range(vs) \subseteq Range(EndsAdded(vs, n, e))
           /\ ~EdgeExists(n, e) => {e.from, e.to} \subseteq Range(EndsAdded(vs, n, e))
<1>1. ASSUME NEW v \in S, NEW us \in Seq(S)
      PROVE  /\ VertexAdded(us, v) \in Seq(S)
             /\ Range(VertexAdded(us, v)) = Range(us) \cup {v}
  BY <1>1, RangeOfAppend DEF VertexAdded
<1> QED BY <1>1 DEF EndsAdded

LEMMA CoverKept ==
    ASSUME NEW S, NEW n \in Seq(S), NEW e \in S, NEW V, NEW vs \in Seq(V), e.from \in V,
           e.to \in V, Covered(vs, n)
    PROVE  Covered(EndsAdded(vs, n, e), EdgeAdded(n, e))
<1> DEFINE m == EdgeAdded(n, e)
           us == EndsAdded(vs, n, e)
<1>1. \A k \in DOMAIN m :
         (k \in DOMAIN n /\ m[k] = n[k]) \/ (m[k] = e /\ ~EdgeExists(n, e))
  BY EdgeAddedProperties
<1>2. /\ Range(vs) \subseteq Range(us)
      /\ ~EdgeExists(n, e) => {e.from, e.to} \subseteq Range(us)
  BY EndsAddedCover
<1> HIDE DEF m, us
<1>3. ASSUME NEW k \in DOMAIN m PROVE {m[k].from, m[k].to} \subseteq Range(us)
  BY <1>1, <1>2 DEF Covered
<1> QED BY <1>3 DEF Covered, m, us

LEMMA HasEdgeKept ==
    ASSUME NEW S, NEW n \in Seq(S), NEW e \in S, NEW i, NEW j, HasEdge(n, i, j)
    PROVE  HasEdge(EdgeAdded(n, e), i, j)
BY EdgeAddedProperties DEF HasEdge

(* Weights change, and nothing else.                                       *)
LEMMA WithWeightsProperties ==
    ASSUME NEW n \in Seq(NetEdges), NEW w, NEW m, m = WithWeights(n, w),
           \A k \in DOMAIN n : /\ w[k] \in Int
                               /\ n[k].from = InitialEvent => w[k] < MaxSeparation
                               /\ n[k].to = InitialEvent => w[k] <= 0
    PROVE  /\ m \in Seq(NetEdges) /\ DOMAIN m = DOMAIN n
           /\ \A k \in DOMAIN n : /\ m[k].from = n[k].from /\ m[k].to = n[k].to
                                  /\ m[k].weight = w[k]
           /\ Distinct(n) => Distinct(m)
           /\ \A i, j : HasEdge(n, i, j) => HasEdge(m, i, j)
           /\ \A vs : Covered(vs, n) => Covered(vs, m)
<1>1. \A k \in DOMAIN n : n[k] \in NetEdges
  OBVIOUS
<1>2. m = [k \in DOMAIN n |-> [n[k] EXCEPT !.weight = w[k]]]
  BY DEF WithWeights
<1>3. \A k \in DOMAIN n : /\ m[k] \in NetEdges /\ m[k].from = n[k].from
                          /\ m[k].to = n[k].to /\ m[k].weight = w[k]
  BY <1>1, <1>2 DEF NetEdges
<1>4. m \in Seq(NetEdges) /\ DOMAIN m = DOMAIN n
  BY <1>2, <1>3
<1> QED BY <1>3, <1>4 DEF Distinct, Connects, HasEdge, Covered

LEMMA HalfSeparation == MaxSeparation \div 2 \in Nat /\ MaxSeparation \div 2 < MaxSeparation
BY SeparationAssumption

LEMMA DurationEdges ==
    ASSUME plan \in Seq(Events), PairsMatch(plan), NEW i \in Paired(plan)
    PROVE  DurationEdge(plan, i) \in NetEdges
<1> DEFINE other == plan[i].pairWithStep + 1
           a == plan[i].ref
<1>1. /\ other \in DOMAIN plan \ {i} /\ i \in DOMAIN plan /\ a \in Durative
      /\ DOMAIN plan = 1..Len(plan) /\ Len(plan) \in Nat
  BY DEF PairsMatch, Paired
<1>2. MinDuration[a] \in Nat /\ MaxDuration[a] \in Nat
  BY <1>1, DurationAssumption
<1> DEFINE w == IF plan[i].pairWithStep < plan[other].pairWithStep
                THEN -MinDuration[a] ELSE MaxDuration[a]
<1>3. w \in Int
  BY <1>2
<1>4. DurationEdge(plan, i) = Edge(i, w, other)
  BY DEF DurationEdge
<1> HIDE DEF w, other
<1> QED BY <1>1, <1>3, <1>4 DEF Edge, NetEdges, Steps, InitialEvent

LEMMA OrderingEdges ==
    ASSUME plan \in Seq(Events), NEW o \in OrderingConstraints(plan, links)
    PROVE  /\ NotBefore(o) \in NetEdges /\ NotLongAfter(o) \in NetEdges
           /\ o[1] \in Steps /\ o[2] \in DOMAIN plan /\ o[1] # o[2]
           /\ NotBefore(o).from = o[2] /\ NotBefore(o).to = o[1]
           /\ NotLongAfter(o).from = o[1] /\ NotLongAfter(o).to = o[2]
<1>1. /\ o[1] \in 0..Len(plan) /\ o[2] \in 1..Len(plan) /\ o[1] # o[2]
      /\ Len(plan) \in Nat /\ DOMAIN plan = 1..Len(plan)
  BY DEF OrderingConstraints, InitialEvent
<1>2. NotBefore(o) \in NetEdges
  BY <1>1 DEF NotBefore, NetEdges, Edge, Steps, InitialEvent, Epsilon
<1>3. NotLongAfter(o) \in NetEdges
  BY <1>1, HalfSeparation DEF NotLongAfter, NetEdges, Edge, Steps, InitialEvent
<1> QED BY <1>1, <1>2, <1>3 DEF NotBefore, NotLongAfter, Edge, Steps

LEMMA LiteralTimes ==
    ASSUME NEW k \in DOMAIN TILs
    PROVE  TILs[k].at \in Nat /\ TILs[k].at < MaxSeparation
<1> DEFINE S == [at : Nat, adds : SUBSET Facts, dels : SUBSET Facts]
<1>1. TILs \in Seq(S)
  BY DomainAssumption
<1> HIDE DEF S
<1>2. TILs[k] \in S
  BY <1>1
<1>3. TILs[k].at < MaxSeparation
  BY HeuristicAssumption
<1> QED BY <1>2, <1>3 DEF S

(* The times of the literals, and weights that are not of edges.           *)
LEMMA TightenedEdges ==
    ASSUME plan \in Seq(Events), net \in Seq(NetEdges)
    PROVE  /\ Tightened(net, plan) \in Seq(NetEdges)
           /\ Distinct(net) => Distinct(Tightened(net, plan))
           /\ \A i, j : HasEdge(net, i, j) => HasEdge(Tightened(net, plan), i, j)
           /\ Covered(vertices, net) => Covered(vertices, Tightened(net, plan))
<1> DEFINE IsTIL(v) == v # InitialEvent /\ plan[v].timeSpec = "AT"
           w == [k \in DOMAIN net |->
                   IF net[k].from = InitialEvent /\ IsTIL(net[k].to)
                   THEN TILs[plan[net[k].to].ref].at
                   ELSE IF net[k].to = InitialEvent /\ IsTIL(net[k].from)
                   THEN -TILs[plan[net[k].from].ref].at
                   ELSE net[k].weight]
<1>1. Tightened(net, plan) = WithWeights(net, w)
  BY DEF Tightened
<1>2. ASSUME NEW v \in Steps, IsTIL(v)
      PROVE  TILs[plan[v].ref].at \in Nat /\ TILs[plan[v].ref].at < MaxSeparation
  <2>1. v \in DOMAIN plan
    BY <1>2 DEF Steps, InitialEvent
  <2>2. plan[v].ref \in DOMAIN TILs
    BY <1>2, <2>1 DEF Events
  <2> QED BY <2>2, LiteralTimes
<1>3. ASSUME NEW k \in DOMAIN net
      PROVE  /\ w[k] \in Int
             /\ net[k].from = InitialEvent => w[k] < MaxSeparation
             /\ net[k].to = InitialEvent => w[k] <= 0
  <2>1. /\ net[k].from \in Steps /\ net[k].to \in Steps /\ net[k].weight \in Int
        /\ net[k].from # net[k].to
        /\ net[k].from = InitialEvent => net[k].weight < MaxSeparation
        /\ net[k].to = InitialEvent => net[k].weight <= 0
    BY DEF NetEdges
  <2>2. CASE net[k].from = InitialEvent /\ IsTIL(net[k].to)
    BY <1>2, <2>1, <2>2
  <2>3. CASE net[k].to = InitialEvent /\ IsTIL(net[k].from) /\ net[k].from # InitialEvent
    <3>1. w[k] = -TILs[plan[net[k].from].ref].at
      BY <2>3
    <3> QED BY <1>2, <2>1, <2>3, <3>1
  <2>4. CASE ~(net[k].from = InitialEvent /\ IsTIL(net[k].to))
             /\ ~(net[k].to = InitialEvent /\ IsTIL(net[k].from))
    <3>1. w[k] = net[k].weight
      BY <2>4
    <3> QED BY <2>1, <3>1
  <2> QED BY <2>2, <2>3, <2>4
<1> HIDE DEF w
<1> QED BY <1>1, <1>3, WithWeightsProperties

LEMMA WeightIsOfAnEdge ==
    ASSUME net \in Seq(NetEdges), NEW k \in DOMAIN net
    PROVE  \E l \in DOMAIN net :
              /\ Connects(net[l], net[k].from, net[k].to)
              /\ Weight(net, net[k].from, net[k].to) = net[l].weight
<1>1. net[k].from # net[k].to
  BY DEF NetEdges
<1>2. Connects(net[k], net[k].from, net[k].to)
  BY DEF Connects
<1> QED BY <1>1, <1>2 DEF Weight

LEMMA WeightIsInteger ==
    ASSUME net \in Seq(NetEdges), NEW i, NEW j
    PROVE  Weight(net, i, j) \in Int
<1>1. \A l \in DOMAIN net : net[l].weight \in Int
  BY DEF NetEdges
<1>2. MaxSeparation \in Int
  BY SeparationAssumption
<1> QED BY <1>1, <1>2 DEF Weight

LEMMA NetworkInit == HeuristicInit => NetworkInv
BY DEF HeuristicInit, NetworkInv, NetPhases

LEMMA AddDurationStep ==
    ASSUME ReadingInv, NetworkInv, NEW i, AddDuration(i)
    PROVE  NetworkInv'
<1> DEFINE e == DurationEdge(plan, i)
<1>1. /\ plan' = plan /\ links' = links /\ orderings' = orderings /\ relaxHist' = relaxHist
      /\ pc = "making" /\ pc' = "making" /\ i \in toAdd.pairs
      /\ net' = EdgeAdded(net, e) /\ vertices' = EndsAdded(vertices, net, e)
      /\ toAdd' = [toAdd EXCEPT !.pairs = @ \ {i}]
  BY DEF AddDuration, Making, Phase, GoesOn, IsFirst
<1>2. /\ orderings = OrderingConstraints(plan, links) /\ net \in Seq(NetEdges) /\ Distinct(net)
      /\ vertices \in Seq(Steps) /\ Covered(vertices, net)
      /\ toAdd.pairs \subseteq Paired(plan) /\ toAdd.causal \subseteq orderings
      /\ \A o \in orderings \ toAdd.causal : LinkedBothWays(net, o)
      /\ relaxHist \in [DOMAIN relaxHist -> Int]
  BY <1>1 DEF NetworkInv, NetPhases
<1>3. e \in NetEdges /\ e.from \in Steps /\ e.to \in Steps
  <2>1. e \in NetEdges
    BY <1>1, <1>2, DurationEdges DEF ReadingInv
  <2> QED BY <2>1 DEF NetEdges
<1> HIDE DEF e
<1>4. /\ net' \in Seq(NetEdges) /\ Distinct(net') /\ vertices' \in Seq(Steps)
      /\ Covered(vertices', net')
  <2>1. net' \in Seq(NetEdges) /\ Distinct(net')
    BY <1>1, <1>2, <1>3, EdgeAddedProperties
  <2>2. vertices' \in Seq(Steps)
    BY <1>1, <1>2, <1>3, EndsAddedCover
  <2>3. Covered(vertices', net')
    BY <1>1, <1>2, <1>3, CoverKept
  <2> QED BY <2>1, <2>2, <2>3
<1>5. ASSUME NEW o \in orderings \ toAdd.causal PROVE LinkedBothWays(net', o)
  BY <1>1, <1>2, <1>3, HasEdgeKept DEF LinkedBothWays
<1>6. toAdd'.pairs \subseteq toAdd.pairs /\ toAdd'.causal = toAdd.causal
  BY <1>1
<1>7. Steps' = Steps /\ NetEdges' = NetEdges
  BY <1>1 DEF Steps, NetEdges
<1> QED BY <1>1, <1>2, <1>4, <1>5, <1>6, <1>7 DEF NetworkInv, NetPhases

LEMMA AddCausalLinkStep ==
    ASSUME ReadingInv, NetworkInv, NEW o, AddCausalLink(o)
    PROVE  NetworkInv'
<1> DEFINE e == NotBefore(o)
           half == EdgeAdded(net, e)
           us == EndsAdded(vertices, net, e)
           f == NotLongAfter(o)
<1>1. /\ plan' = plan /\ links' = links /\ orderings' = orderings /\ relaxHist' = relaxHist
      /\ pc = "making" /\ pc' = "making" /\ o \in toAdd.causal
      /\ net' = EdgeAdded(half, f) /\ vertices' = EndsAdded(us, half, f)
      /\ toAdd' = [toAdd EXCEPT !.causal = @ \ {o}]
  BY DEF AddCausalLink, Making, Phase, GoesOn, FirstOrdering
<1>2. /\ orderings = OrderingConstraints(plan, links) /\ net \in Seq(NetEdges) /\ Distinct(net)
      /\ vertices \in Seq(Steps) /\ Covered(vertices, net)
      /\ toAdd.pairs \subseteq Paired(plan) /\ toAdd.causal \subseteq orderings
      /\ \A q \in orderings \ toAdd.causal : LinkedBothWays(net, q)
      /\ relaxHist \in [DOMAIN relaxHist -> Int]
  BY <1>1 DEF NetworkInv, NetPhases
<1>3. /\ e \in NetEdges /\ e.from \in Steps /\ e.to \in Steps
      /\ f \in NetEdges /\ f.from \in Steps /\ f.to \in Steps
      /\ e.from = o[2] /\ e.to = o[1] /\ f.from = o[1] /\ f.to = o[2]
  <2>1. e \in NetEdges /\ f \in NetEdges
    BY <1>1, <1>2, OrderingEdges DEF ReadingInv
  <2>2. e.from = o[2] /\ e.to = o[1] /\ f.from = o[1] /\ f.to = o[2]
    BY DEF NotBefore, NotLongAfter, Edge
  <2> QED BY <2>1, <2>2 DEF NetEdges
<1> HIDE DEF e, f
<1>4. half \in Seq(NetEdges) /\ Distinct(half) /\ us \in Seq(Steps) /\ Covered(us, half)
  <2>1. half \in Seq(NetEdges) /\ Distinct(half)
    BY <1>2, <1>3, EdgeAddedProperties
  <2>2. us \in Seq(Steps)
    BY <1>2, <1>3, EndsAddedCover
  <2>3. Covered(us, half)
    BY <1>2, <1>3, CoverKept
  <2> QED BY <2>1, <2>2, <2>3
<1>5. HasEdge(half, o[2], o[1])
  BY <1>2, <1>3, EdgeAddedProperties
<1>6. ASSUME NEW q \in orderings \ toAdd.causal PROVE LinkedBothWays(half, q)
  BY <1>2, <1>3, <1>6, HasEdgeKept DEF LinkedBothWays
<1> HIDE DEF half, us
<1>7. /\ net' \in Seq(NetEdges) /\ Distinct(net') /\ vertices' \in Seq(Steps)
      /\ Covered(vertices', net')
  <2>1. net' \in Seq(NetEdges) /\ Distinct(net')
    BY <1>1, <1>3, <1>4, EdgeAddedProperties
  <2>2. vertices' \in Seq(Steps)
    BY <1>1, <1>3, <1>4, EndsAddedCover
  <2>3. Covered(vertices', net')
    BY <1>1, <1>3, <1>4, CoverKept
  <2> QED BY <2>1, <2>2, <2>3
<1>8. LinkedBothWays(net', o)
  <2>1. HasEdge(net', o[1], o[2])
    BY <1>1, <1>3, <1>4, EdgeAddedProperties
  <2>2. HasEdge(net', o[2], o[1])
    BY <1>1, <1>3, <1>4, <1>5, HasEdgeKept
  <2> QED BY <2>1, <2>2 DEF LinkedBothWays
<1>9. ASSUME NEW q \in orderings \ toAdd.causal PROVE LinkedBothWays(net', q)
  BY <1>1, <1>3, <1>4, <1>6, HasEdgeKept DEF LinkedBothWays
<1>10. toAdd'.pairs = toAdd.pairs /\ toAdd'.causal = toAdd.causal \ {o}
  BY <1>1
<1>11. Steps' = Steps /\ NetEdges' = NetEdges
  BY <1>1 DEF Steps, NetEdges
<1>12. /\ toAdd'.pairs \subseteq Paired(plan') /\ toAdd'.causal \subseteq orderings'
       /\ \A q \in orderings' \ toAdd'.causal : LinkedBothWays(net', q)
  BY <1>1, <1>2, <1>8, <1>9, <1>10
<1> QED BY <1>1, <1>2, <1>7, <1>11, <1>12 DEF NetworkInv, NetPhases

(* A relaxation changes only what connects the two steps of an action.     *)
LEMMA NewWeights ==
    ASSUME ReadingInv, NetworkInv, net \in Seq(NetEdges), NEW R,
           NEW s \in CheapestRelaxations(R)
    PROVE  /\ \A e : FirstWeight(e) \in Int
           /\ \A k \in DOMAIN net :
                 LET w == NewWeight(s, <<net[k].from, net[k].to>>)
                 IN /\ w \in Int
                    /\ net[k].from = InitialEvent => w < MaxSeparation
                    /\ net[k].to = InitialEvent => w <= 0
<1>1. ASSUME NEW e PROVE FirstWeight(e) \in Int
  <2>1. Weight(net, e[1], e[2]) \in Int
    BY WeightIsInteger
  <2>2. ASSUME e \in DOMAIN relaxHist PROVE relaxHist[e] \in Int
    BY <2>2 DEF NetworkInv
  <2> QED BY <2>1, <2>2 DEF FirstWeight, Relaxed
<1>2. \A e \in DOMAIN s : s[e] \in Int /\ e \in InRows(R)
  <2>1. CASE Relaxations(R) = {}
    <3>1. s = <<>>
      BY <2>1 DEF CheapestRelaxations
    <3>2. DOMAIN s = {}
      BY <3>1
    <3> QED BY <3>2
  <2>2. CASE Relaxations(R) # {}
    <3>1. s \in Relaxations(R)
      BY <2>2, Zenon DEF CheapestRelaxations
    <3>2. s \in [InRows(R) -> Slacks]
      BY <3>1 DEF Relaxations
    <3>3. Slacks \subseteq Int
      BY HeuristicAssumption
    <3> QED BY <3>2, <3>3
  <2> QED BY <2>1, <2>2
<1>3. \A e \in DOMAIN s : e[1] # InitialEvent /\ e[2] # InitialEvent
  <2>1. SUFFICES ASSUME NEW e \in DOMAIN s
                 PROVE  e[1] # InitialEvent /\ e[2] # InitialEvent
    OBVIOUS
  <2>2. e[1] \in Paired(plan) /\ plan[e[1]].pairWithStep + 1 = e[2]
    BY <1>2 DEF InRows, Relaxable
  <2>3. plan \in Seq(Events) /\ PairsMatch(plan)
    BY DEF ReadingInv
  <2>4. e[1] \in DOMAIN plan /\ e[2] \in DOMAIN plan /\ DOMAIN plan = 1..Len(plan)
    BY <2>2, <2>3 DEF PairsMatch, Paired
  <2> QED BY <2>4 DEF InitialEvent
<1>4. ASSUME NEW k \in DOMAIN net
      PROVE  LET w == NewWeight(s, <<net[k].from, net[k].to>>)
             IN /\ w \in Int
                /\ net[k].from = InitialEvent => w < MaxSeparation
                /\ net[k].to = InitialEvent => w <= 0
  <2> DEFINE e == <<net[k].from, net[k].to>>
             w == NewWeight(s, e)
  <2>1. e[1] = net[k].from /\ e[2] = net[k].to
    OBVIOUS
  <2> HIDE DEF e
  <2>2. CASE e \in DOMAIN s
    <3>1. w = FirstWeight(e) + s[e]
      BY <2>2 DEF NewWeight
    <3>2. w \in Int
      BY <1>1, <1>2, <2>2, <3>1
    <3> QED BY <1>3, <2>1, <2>2, <3>2 DEF e
  <2>3. CASE e \notin DOMAIN s
    <3>1. w = Weight(net, net[k].from, net[k].to)
      BY <2>1, <2>3 DEF NewWeight
    <3>2. PICK l \in DOMAIN net : Connects(net[l], net[k].from, net[k].to) /\ w = net[l].weight
      BY <3>1, WeightIsOfAnEdge
    <3>3. /\ net[l].from = net[k].from /\ net[l].to = net[k].to
          /\ net[l] \in NetEdges /\ w = net[l].weight
      BY <3>2 DEF Connects
    <3> HIDE DEF w
    <3>4. /\ w \in Int
          /\ net[k].from = InitialEvent => w < MaxSeparation
          /\ net[k].to = InitialEvent => w <= 0
      BY <3>3 DEF NetEdges
    <3> QED BY <3>4 DEF w, e
  <2> QED BY <2>2, <2>3
<1> QED BY <1>1, <1>4

LEMMA RelaxConflictStep ==
    ASSUME ReadingInv, NetworkInv, RelaxConflict
    PROVE  NetworkInv'
<1>1. /\ plan' = plan /\ links' = links /\ orderings' = orderings /\ vertices' = vertices /\ toAdd' = toAdd
      /\ pc \in {"tightened", "relaxed"} /\ pc' = "relaxed"
  BY DEF RelaxConflict, Phase, GoesOn
<1>2. /\ orderings = OrderingConstraints(plan, links) /\ net \in Seq(NetEdges) /\ Distinct(net)
      /\ vertices \in Seq(Steps) /\ Covered(vertices, net)
      /\ toAdd.pairs \subseteq Paired(plan) /\ toAdd.causal = {}
      /\ \A q \in orderings \ toAdd.causal : LinkedBothWays(net, q)
      /\ relaxHist \in [DOMAIN relaxHist -> Int]
  BY <1>1 DEF NetworkInv, NetPhases
<1>3. PICK s \in CheapestRelaxations(rows') :
         /\ relaxHist' = [e \in Relaxed \cup DOMAIN s |-> FirstWeight(e)]
         /\ net' = WithWeights(net, [k \in DOMAIN net |->
                                        NewWeight(s, <<net[k].from, net[k].to>>)])
  BY Zenon DEF RelaxConflict
<1>4. /\ \A e : FirstWeight(e) \in Int
      /\ \A k \in DOMAIN net :
            LET w == NewWeight(s, <<net[k].from, net[k].to>>)
            IN /\ w \in Int
               /\ net[k].from = InitialEvent => w < MaxSeparation
               /\ net[k].to = InitialEvent => w <= 0
  BY <1>2, NewWeights
<1> DEFINE w == [k \in DOMAIN net |-> NewWeight(s, <<net[k].from, net[k].to>>)]
<1>5. \A k \in DOMAIN net : /\ w[k] \in Int
                            /\ net[k].from = InitialEvent => w[k] < MaxSeparation
                            /\ net[k].to = InitialEvent => w[k] <= 0
  BY <1>4
<1>6. net' = WithWeights(net, w)
  BY <1>3
<1> HIDE DEF w
<1>7. /\ net' \in Seq(NetEdges) /\ Distinct(net') /\ Covered(vertices, net')
      /\ \A i, j : HasEdge(net, i, j) => HasEdge(net', i, j)
  BY <1>2, <1>5, <1>6, WithWeightsProperties
<1>8. \A q \in orderings : LinkedBothWays(net', q)
  BY <1>2, <1>7 DEF LinkedBothWays
<1>9. relaxHist' \in [DOMAIN relaxHist' -> Int]
  BY <1>3, <1>4
<1>10. Steps' = Steps /\ NetEdges' = NetEdges
  BY <1>1 DEF Steps, NetEdges
<1> QED BY <1>1, <1>2, <1>7, <1>8, <1>9, <1>10 DEF NetworkInv, NetPhases

LEMMA TightenLiteralsStep ==
    ASSUME ReadingInv, NetworkInv, TightenLiterals
    PROVE  NetworkInv'
<1>1. /\ plan' = plan /\ links' = links /\ orderings' = orderings /\ vertices' = vertices /\ toAdd' = toAdd
      /\ pc = "initial" /\ pc' = "tightened" /\ relaxHist' = relaxHist
      /\ net' = Tightened(net, plan)
  BY DEF TightenLiterals, Phase, GoesOn
<1>2. /\ orderings = OrderingConstraints(plan, links) /\ net \in Seq(NetEdges) /\ Distinct(net)
      /\ vertices \in Seq(Steps) /\ Covered(vertices, net)
      /\ toAdd.pairs \subseteq Paired(plan) /\ toAdd.causal = {}
      /\ \A q \in orderings \ toAdd.causal : LinkedBothWays(net, q)
      /\ relaxHist \in [DOMAIN relaxHist -> Int]
  BY <1>1 DEF NetworkInv, NetPhases
<1>3. /\ net' \in Seq(NetEdges) /\ Distinct(net') /\ Covered(vertices, net')
      /\ \A i, j : HasEdge(net, i, j) => HasEdge(net', i, j)
  BY <1>1, <1>2, TightenedEdges DEF ReadingInv
<1>4. \A q \in orderings : LinkedBothWays(net', q)
  BY <1>2, <1>3 DEF LinkedBothWays
<1>5. Steps' = Steps /\ NetEdges' = NetEdges
  BY <1>1 DEF Steps, NetEdges
<1> QED BY <1>1, <1>2, <1>3, <1>4, <1>5 DEF NetworkInv, NetPhases

LEMMA NetworkStep ==
    ASSUME ReadingInv, NetworkInv, [HeuristicNext]_allVars
    PROVE  NetworkInv'
<1> USE DEF execVars, readingVars, heuristicVars, networkVars
<1>1. ASSUME UNCHANGED <<plan, links, orderings, net, vertices, toAdd, relaxHist>>,
             \/ pc' = pc
             \/ {pc, pc'} \subseteq NetPhases \ {"making"}
             \/ pc' \notin NetPhases \cup {"ordered"}
      PROVE  NetworkInv'
  <2>1. Steps' = Steps /\ NetEdges' = NetEdges
    BY <1>1 DEF Steps, NetEdges
  <2> QED BY <1>1, <2>1 DEF NetworkInv, NetPhases
<1>2. ASSUME pc' \notin NetPhases \cup {"ordered"}, relaxHist' = relaxHist PROVE NetworkInv'
  BY <1>2 DEF NetworkInv
<1>3. CASE (pc = "child" /\ \E line \in AnswerLines : ChildAdds(line))
           \/ ChildFails \/ ChildAnswers
  BY <1>2, <1>3 DEF ChildAdds, ChildFails, ChildAnswers, NetPhases
<1>4. CASE ReadAnswer
  BY <1>2, <1>4 DEF ReadAnswer, MoveDueEnd, TakeLine, MoveLeftEnd, JoinPlans, Reading, NetPhases
<1>5. CASE OrderPlan
  <2>1. /\ pc' = "ordered" /\ orderings' = OrderingConstraints(plan', links') /\ relaxHist' = relaxHist
    BY <1>5 DEF OrderPlan, GoesOn
  <2> QED BY <2>1 DEF NetworkInv, NetPhases
<1>6. CASE MakeNetwork
  <2>1. /\ pc = "ordered" /\ pc' = "making" /\ plan' = plan /\ links' = links /\ orderings' = orderings
        /\ net' = <<>> /\ vertices' = <<>> /\ relaxHist' = relaxHist
        /\ toAdd'.pairs = Paired(plan) /\ toAdd'.causal = orderings
    BY <1>6 DEF MakeNetwork, Phase, GoesOn
  <2> QED BY <2>1 DEF NetworkInv, NetPhases, Distinct, Covered
<1>7. CASE NetworkMade
  <2>1. /\ pc = "making" /\ pc' = "initial" /\ plan' = plan /\ links' = links /\ orderings' = orderings
        /\ net' = net /\ vertices' = vertices /\ relaxHist' = relaxHist
        /\ toAdd.causal = {} /\ toAdd'.pairs = {} /\ toAdd'.causal = {}
    BY <1>7 DEF NetworkMade, Phase, GoesOn, NothingToAdd
  <2>2. Steps' = Steps /\ NetEdges' = NetEdges
    BY <2>1 DEF Steps, NetEdges
  <2> QED BY <2>1, <2>2 DEF NetworkInv, NetPhases
<1>8. CASE \E i \in toAdd.pairs : AddDuration(i)
  <2>1. PICK i \in toAdd.pairs : AddDuration(i)
    BY <1>8
  <2> QED BY <2>1, AddDurationStep
<1>18. CASE \E o \in toAdd.causal : AddCausalLink(o)
  <2>1. PICK o \in toAdd.causal : AddCausalLink(o)
    BY <1>18
  <2> QED BY <2>1, AddCausalLinkStep
<1>9. CASE Abort
  BY <1>2, <1>9 DEF Abort, Phase, GoesOn, NetPhases
<1>10. CASE VisitNext \/ VisitEdge
  BY <1>1, <1>10 DEF VisitNext, VisitEdge, VisitStep
<1>11. CASE TightenLiterals \/ RelaxConflict
  BY <1>11, TightenLiteralsStep, RelaxConflictStep
<1>12. CASE PlanFits \/ TimingRound
  BY <1>1, <1>12 DEF PlanFits, TimingRound, Phase, GoesOn, NetPhases
<1>13. CASE PlanTimed \/ PlanFitsButSearchOn \/ (\E mode \in 0..3 : PlanRelaxed(mode))
  BY <1>2, <1>13 DEF PlanTimed, PlanFitsButSearchOn, PlanRelaxed, Phase, GoesOn, NetPhases
<1>14. CASE BeginPerforming
  BY <1>2, <1>14 DEF BeginPerforming, Phase, GoesOn, NetPhases
<1>15. CASE \E k \in DOMAIN plan : PerformStep(k)
  BY <1>2, <1>15 DEF PerformStep, NetPhases
<1>16. CASE UNCHANGED allVars
  <2>1. UNCHANGED <<plan, links, orderings, net, vertices, toAdd, relaxHist, pc>>
    BY <1>16 DEF allVars
  <2> QED BY <1>1, <2>1
<1>17. CASE BuildNetwork
  BY <1>6, <1>7, <1>8, <1>17, <1>18 DEF BuildNetwork
<1> QED
  BY <1>3, <1>4, <1>5, <1>9, <1>10, <1>11, <1>12, <1>13, <1>14, <1>15, <1>16, <1>17
     DEF HeuristicNext, Evaluation

LEMMA NetworkInvariant == HeuristicSpec => []NetworkInv
BY NetworkInit, NetworkStep, ReadingInvariant, PTL DEF HeuristicSpec

-----------------------------------------------------------------------------
(* The search.  Before it begins only the initial event has been reached;  *)
(* the first visit reaches all the other steps.  An edge either still has  *)
(* to be followed or fits the distances.                                   *)
SoundNet(n, steps) ==
    /\ InitialEvent \in steps /\ steps \subseteq Nat /\ DOMAIN n \subseteq Nat \ {0}
    /\ \A k \in DOMAIN n :
          /\ n[k].from \in steps /\ n[k].to \in steps /\ n[k].from # n[k].to
          /\ n[k].weight \in Int
          /\ n[k].from = InitialEvent => n[k].weight < MaxSeparation
          /\ n[k].to = InitialEvent => n[k].weight <= 0
    /\ \A v \in steps \ {InitialEvent} : LinkedBothWays(n, <<InitialEvent, v>>)

Searches(steps) ==
    [distance : [steps -> Int], predecessor : [steps -> Int], timesInQueue : [steps -> Int],
     queue : Seq(steps), negativeCycle : BOOLEAN, node : steps \cup {None}, last : Nat]
NotBegun(s, steps) ==
    /\ s.node = None /\ s.queue = <<InitialEvent>>
    /\ \A v \in steps \ {InitialEvent} : s.distance[v] = MaxSeparation
Begun(s, n, steps) ==
    \A v \in steps :
        \/ s.distance[v] < MaxSeparation
        \/ /\ s.distance[v] = MaxSeparation /\ s.node = InitialEvent
           /\ \E k \in EdgesLeft(s, n) : n[k].to = v
FitsEdge(d, e) == d[e.to] <= d[e.from] + e.weight + Accuracy
Settled(s, n, k) ==
    \/ n[k].from \in Range(s.queue) \/ k \in EdgesLeft(s, n)
    \/ s.distance[n[k].from] = MaxSeparation
    \/ FitsEdge(s.distance, n[k])
SearchInv(s, n, steps) ==
    /\ s \in Searches(steps) /\ s.distance[InitialEvent] <= 0
    /\ NotBegun(s, steps) \/ Begun(s, n, steps)
    /\ ~s.negativeCycle => \A k \in DOMAIN n : Settled(s, n, k)

LEMMA SearchStarts ==
    ASSUME NEW steps, NEW n, SoundNet(n, steps)
    PROVE  SearchInv(StartSearch(steps), n, steps)
<1> DEFINE s == StartSearch(steps)
<1>1. s \in Searches(steps)
  BY SeparationAssumption DEF StartSearch, Searches, SoundNet, None, InitialEvent
<1>2. /\ s.node = None /\ s.queue = <<InitialEvent>> /\ s.distance[InitialEvent] = 0
      /\ \A v \in steps \ {InitialEvent} : s.distance[v] = MaxSeparation
  BY DEF StartSearch, SoundNet
<1> HIDE DEF s
<1>3. ASSUME NEW k \in DOMAIN n PROVE Settled(s, n, k)
  <2>1. CASE n[k].from = InitialEvent
    BY <1>2, <2>1 DEF Settled, Range
  <2>2. CASE n[k].from # InitialEvent
    BY <1>2, <2>2 DEF Settled, SoundNet
  <2> QED BY <2>1, <2>2
<1> QED BY <1>1, <1>2, <1>3 DEF SearchInv, NotBegun, s

LEMMA NextVertexKeepsSearch ==
    ASSUME NEW steps, NEW n, SoundNet(n, steps), NEW s, SearchInv(s, n, steps),
           ~s.negativeCycle, s.queue # <<>>, EdgesLeft(s, n) = {}
    PROVE  SearchInv(NextVertex(s), n, steps)
<1> DEFINE t == NextVertex(s)
<1>1. s \in Searches(steps) /\ s.queue \in Seq(steps) /\ s.last \in Nat
  BY DEF SearchInv, Searches
<1>2. /\ Head(s.queue) \in steps /\ Tail(s.queue) \in Seq(steps)
      /\ Range(s.queue) \subseteq {Head(s.queue)} \cup Range(Tail(s.queue))
  <2>1. /\ Len(s.queue) \in Nat \ {0} /\ DOMAIN s.queue = 1..Len(s.queue)
        /\ DOMAIN Tail(s.queue) = 1..Len(s.queue) - 1
        /\ \A k \in 1..Len(s.queue) - 1 : Tail(s.queue)[k] = s.queue[k + 1]
        /\ Head(s.queue) = s.queue[1]
    BY <1>1
  <2>2. ASSUME NEW k \in 1..Len(s.queue)
        PROVE  s.queue[k] \in {Head(s.queue)} \cup Range(Tail(s.queue))
    <3>1. CASE k = 1
      BY <2>1, <3>1
    <3>2. CASE k # 1
      <4>1. k - 1 \in 1..Len(s.queue) - 1 /\ (k - 1) + 1 = k
        BY <2>1, <3>2
      <4>2. s.queue[k] = Tail(s.queue)[k - 1] /\ k - 1 \in DOMAIN Tail(s.queue)
        BY <2>1, <4>1
      <4> QED BY <4>2 DEF Range
    <3> QED BY <3>1, <3>2
  <2> QED BY <1>1, <2>1, <2>2 DEF Range
<1>3. /\ t \in Searches(steps) /\ t.distance = s.distance /\ t.node = Head(s.queue)
      /\ t.queue = Tail(s.queue) /\ t.last = 0 /\ t.negativeCycle = s.negativeCycle
  BY <1>1, <1>2 DEF NextVertex, Searches
<1> HIDE DEF t
<1>4. \A k \in DOMAIN n : n[k].from = Head(s.queue) => k \in EdgesLeft(t, n)
  BY <1>3 DEF EdgesLeft, SoundNet
<1>5. Begun(t, n, steps)
  <2>1. CASE NotBegun(s, steps)
    <3>1. Head(s.queue) = InitialEvent
      BY <2>1 DEF NotBegun
    <3>2. s.distance[InitialEvent] < MaxSeparation
      BY <1>1, SeparationAssumption DEF SearchInv, Searches, SoundNet
    <3>3. ASSUME NEW v \in steps \ {InitialEvent}
          PROVE  s.distance[v] = MaxSeparation /\ \E k \in EdgesLeft(t, n) : n[k].to = v
      <4>1. PICK k \in DOMAIN n : n[k].from = InitialEvent /\ n[k].to = v
        BY DEF SoundNet, LinkedBothWays, HasEdge, Connects
      <4> QED BY <1>4, <2>1, <3>1, <4>1 DEF NotBegun
    <3> QED BY <1>3, <3>1, <3>2, <3>3 DEF Begun
  <2>2. CASE Begun(s, n, steps)
    BY <1>3, <2>2 DEF Begun
  <2> QED BY <2>1, <2>2 DEF SearchInv
<1>6. ASSUME NEW k \in DOMAIN n PROVE Settled(t, n, k)
  BY <1>2, <1>3, <1>4 DEF Settled, SearchInv
<1> QED BY <1>3, <1>5, <1>6 DEF SearchInv, t

LEMMA EdgeFollowed ==
    ASSUME NEW steps, NEW n, SoundNet(n, steps), NEW s \in Searches(steps), NEW size,
           NEW k \in DOMAIN n, NEW t, t = FollowEdge(s, n, k, size),
           NEW d, d = s.distance, NEW new, new = d[n[k].from] + n[k].weight
    PROVE  /\ t \in Searches(steps) /\ t.node = s.node /\ t.last = k
           /\ Range(s.queue) \subseteq Range(t.queue)
           /\ t.distance = IF Improves(s, n[k]) THEN [d EXCEPT ![n[k].to] = new] ELSE d
           /\ Improves(s, n[k]) /\ ~t.negativeCycle => n[k].to \in Range(t.queue)
<1> DEFINE e == n[k]
           v == e.to
           improves == Improves(s, e)
<1>0. /\ s \in Searches(steps) /\ s.queue \in Seq(steps) /\ d \in [steps -> Int]
      /\ k \in Nat /\ e.from \in steps /\ v \in steps /\ e.weight \in Int
  BY DEF Searches, SoundNet
<1> DEFINE moved == [s EXCEPT !.last = k]
           shorter == [moved EXCEPT !.predecessor[v] = e.from, !.distance[v] = new]
           entered == [shorter EXCEPT !.timesInQueue[v] = @ + 1]
<1>1. moved \in Searches(steps) /\ moved.distance = d /\ moved.queue = s.queue
      /\ moved.node = s.node /\ moved.last = k
  BY <1>0 DEF Searches
<1>2. Improves(moved, e) <=> improves
  BY <1>1 DEF Improves
<1>3. e.from \in Int /\ new \in Int
  <2>1. e.from \in Int
    BY <1>0 DEF SoundNet
  <2>2. d[e.from] \in Int
    BY <1>0
  <2> QED BY <1>0, <2>1, <2>2
<1>4. /\ shorter \in Searches(steps) /\ shorter.distance = [d EXCEPT ![v] = new]
      /\ shorter.queue = s.queue /\ shorter.node = s.node /\ shorter.last = k
  BY <1>0, <1>1, <1>3 DEF Searches
<1>5. /\ entered \in Searches(steps) /\ entered.distance = [d EXCEPT ![v] = new]
      /\ entered.queue = s.queue /\ entered.node = s.node /\ entered.last = k
  <2> HIDE DEF shorter, moved
  <2>1. shorter.timesInQueue \in [steps -> Int]
    BY <1>4 DEF Searches
  <2>2. [shorter.timesInQueue EXCEPT ![v] = @ + 1] \in [steps -> Int]
    BY <1>0, <2>1
  <2> QED BY <1>4, <2>2 DEF Searches
<1>6. t = IF ~Improves(moved, e) THEN moved
          ELSE IF v \in Range(moved.queue) THEN shorter
          ELSE IF CutOff(entered.timesInQueue[v], size)
          THEN [entered EXCEPT !.negativeCycle = TRUE]
          ELSE [entered EXCEPT !.queue = Append(@, v)]
  BY <1>1 DEF FollowEdge, Follow
<1> HIDE DEF moved, shorter, entered
<1>7. CASE ~improves
  BY <1>1, <1>2, <1>6, <1>7
<1>8. CASE improves /\ v \in Range(s.queue)
  BY <1>1, <1>2, <1>4, <1>6, <1>8
<1>9. CASE improves /\ v \notin Range(s.queue) /\ CutOff(entered.timesInQueue[v], size)
  <2>1. t = [entered EXCEPT !.negativeCycle = TRUE]
    BY <1>1, <1>2, <1>6, <1>9
  <2> QED BY <1>5, <1>9, <2>1 DEF Searches
<1>10. CASE improves /\ v \notin Range(s.queue) /\ ~CutOff(entered.timesInQueue[v], size)
  <2>1. t = [entered EXCEPT !.queue = Append(s.queue, v)]
    BY <1>1, <1>2, <1>5, <1>6, <1>10
  <2>2. /\ Append(s.queue, v) \in Seq(steps)
        /\ Range(Append(s.queue, v)) = Range(s.queue) \cup {v}
    BY <1>0, RangeOfAppend
  <2> QED BY <1>5, <1>10, <2>1, <2>2 DEF Searches
<1> QED BY <1>7, <1>8, <1>9, <1>10

LEMMA FollowEdgeKeepsSearch ==
    ASSUME NEW steps, NEW n, SoundNet(n, steps), NEW s, SearchInv(s, n, steps),
           ~s.negativeCycle, NEW k, IsFirst(k, EdgesLeft(s, n)), NEW size
    PROVE  SearchInv(FollowEdge(s, n, k, size), n, steps)
<1> DEFINE t == FollowEdge(s, n, k, size)
           d == s.distance
           e == n[k]
           v == e.to
           new == d[e.from] + e.weight
           improves == d[v] = MaxSeparation \/ d[v] > new + Accuracy
<1>1. /\ s \in Searches(steps) /\ s.queue \in Seq(steps) /\ s.last \in Nat
      /\ d \in [steps -> Int] /\ d[InitialEvent] <= 0
  BY DEF SearchInv, Searches
<1>2. /\ k \in DOMAIN n /\ k \in Nat /\ s.last < k /\ e.from = s.node
      /\ \A l \in EdgesLeft(s, n) : l = k \/ k < l
      /\ e.from \in steps /\ v \in steps /\ e.from # v /\ e.weight \in Int
      /\ e.from = InitialEvent => e.weight < MaxSeparation
      /\ \A l \in DOMAIN n : l \in Nat
  BY DEF IsFirst, EdgesLeft, SoundNet
<1>3. Begun(s, n, steps)
  <2>1. s.node # None
    BY <1>2 DEF SoundNet, None
  <2> QED BY <2>1 DEF SearchInv, NotBegun
<1>4. MaxSeparation \in Nat \ {0}
  BY SeparationAssumption
<1>5. /\ t \in Searches(steps) /\ t.node = s.node /\ t.last = k
      /\ Range(s.queue) \subseteq Range(t.queue)
      /\ t.distance = IF improves THEN [d EXCEPT ![v] = new] ELSE d
      /\ improves /\ ~t.negativeCycle => v \in Range(t.queue)
  <2>1. improves <=> Improves(s, e)
    BY DEF Improves
  <2>2. /\ t \in Searches(steps) /\ t.node = s.node /\ t.last = k
        /\ Range(s.queue) \subseteq Range(t.queue)
        /\ t.distance = IF Improves(s, e) THEN [d EXCEPT ![v] = new] ELSE d
        /\ Improves(s, e) /\ ~t.negativeCycle => v \in Range(t.queue)
    <3>1. /\ s \in Searches(steps) /\ k \in DOMAIN n /\ t = FollowEdge(s, n, k, size)
          /\ d = s.distance /\ new = d[n[k].from] + n[k].weight
      BY <1>1, <1>2
    <3> HIDE DEF t, d, new, improves
    <3> QED BY <3>1, EdgeFollowed
  <2> QED BY <2>1, <2>2
<1> HIDE DEF t
<1>6. \A l \in EdgesLeft(s, n) : l # k => l \in EdgesLeft(t, n)
  BY <1>2, <1>5 DEF EdgesLeft
<1>7. ASSUME improves PROVE new < d[v] /\ new < MaxSeparation
  <2>1. d[e.from] \in Int /\ new \in Int /\ d[v] \in Int
    BY <1>1, <1>2
  <2>2. CASE d[v] = MaxSeparation
    <3>1. e.from = InitialEvent
      BY <1>2, <1>3, <1>4, <2>2 DEF Begun
    <3>2. new < MaxSeparation
      BY <1>1, <1>2, <1>4, <2>1, <3>1
    <3> QED BY <2>2, <3>2
  <2>3. CASE d[v] # MaxSeparation
    <3>1. d[v] < MaxSeparation /\ d[v] > new + 1
      BY <1>2, <1>3, <1>7, <2>3 DEF Begun, Accuracy
    <3> QED BY <1>4, <2>1, <3>1
  <2> QED BY <2>2, <2>3
<1>8. \A u \in steps : /\ d[u] \in Int /\ t.distance[u] \in Int /\ t.distance[u] <= d[u]
                       /\ t.distance[u] = d[u] \/ (u = v /\ improves /\ t.distance[u] = new)
  <2>1. t.distance \in [steps -> Int]
    BY <1>5 DEF Searches
  <2>2. CASE improves
    BY <1>1, <1>2, <1>5, <1>7, <2>1, <2>2
  <2>3. CASE ~improves
    BY <1>1, <1>5, <2>3
  <2> QED BY <2>2, <2>3
<1>9. Begun(t, n, steps)
  <2>1. SUFFICES ASSUME NEW u \in steps, ~(t.distance[u] < MaxSeparation)
                 PROVE  /\ t.distance[u] = MaxSeparation /\ t.node = InitialEvent
                        /\ \E l \in EdgesLeft(t, n) : n[l].to = u
    BY DEF Begun
  <2>2. t.distance[u] = d[u]
    BY <1>7, <1>8, <2>1
  <2>3. d[u] = MaxSeparation /\ s.node = InitialEvent /\ \E l \in EdgesLeft(s, n) : n[l].to = u
    BY <1>3, <2>1, <2>2 DEF Begun
  <2>4. u # v
    <3>1. ASSUME u = v PROVE FALSE
      <4>1. improves
        BY <2>3, <3>1
      <4>2. t.distance[u] = new
        BY <1>1, <1>2, <1>5, <3>1, <4>1
      <4> QED BY <1>7, <2>1, <4>1, <4>2
    <3> QED BY <3>1
  <2> QED BY <1>5, <1>6, <2>2, <2>3, <2>4
<1>10. ASSUME ~t.negativeCycle, NEW l \in DOMAIN n PROVE Settled(t, n, l)
  <2> DEFINE f == n[l]
  <2>1. f.from \in steps /\ f.to \in steps /\ f.weight \in Int
    BY DEF SoundNet
  <2>2. CASE l = k
    <3>1. FitsEdge(t.distance, e)
      <4>1. CASE improves
        <5>1. t.distance[v] = new /\ t.distance[e.from] = d[e.from]
          BY <1>1, <1>2, <1>5, <4>1
        <5> QED BY <1>2, <1>8, <5>1 DEF FitsEdge, Accuracy
      <4>2. CASE ~improves
        <5>1. t.distance = d /\ d[v] \in Int /\ new \in Int
          BY <1>1, <1>2, <1>5, <4>2
        <5>2. d[v] <= new + Accuracy
          BY <4>2, <5>1 DEF Accuracy
        <5> QED BY <5>1, <5>2 DEF FitsEdge
      <4> QED BY <4>1, <4>2
    <3> QED BY <2>2, <3>1 DEF Settled
  <2>3. CASE l # k /\ f.from \in Range(s.queue)
    BY <1>5, <2>3 DEF Settled
  <2>4. CASE l # k /\ l \in EdgesLeft(s, n)
    BY <1>6, <2>4 DEF Settled
  <2>5. CASE improves /\ f.from = v
    BY <1>5, <1>10, <2>5 DEF Settled
  <2>6. CASE ~(improves /\ f.from = v) /\ d[f.from] = MaxSeparation
    BY <1>8, <2>1, <2>6 DEF Settled
  <2>7. CASE ~(improves /\ f.from = v) /\ FitsEdge(d, f)
    <3>1. t.distance[f.from] = d[f.from] /\ t.distance[f.to] <= d[f.to]
      BY <1>8, <2>1, <2>7
    <3>2. d[f.to] <= d[f.from] + f.weight + Accuracy
      BY <2>7 DEF FitsEdge
    <3>3. t.distance[f.to] <= t.distance[f.from] + f.weight + Accuracy
      BY <1>8, <2>1, <3>1, <3>2 DEF Accuracy
    <3> QED BY <3>3 DEF Settled, FitsEdge
  <2> QED BY <2>2, <2>3, <2>4, <2>5, <2>6, <2>7 DEF SearchInv, Settled
<1>11. t.distance[InitialEvent] <= 0
  BY <1>1, <1>8 DEF SoundNet
<1> QED BY <1>5, <1>9, <1>10, <1>11 DEF SearchInv, t

LEMMA SearchEnds ==
    ASSUME NEW steps, NEW n, SoundNet(n, steps), NEW s, SearchInv(s, n, steps),
           ~Searching(s, n), ~s.negativeCycle, NEW k \in DOMAIN n
    PROVE  FitsEdge(s.distance, n[k])
<1>1. s.queue = <<>> /\ EdgesLeft(s, n) = {}
  BY DEF Searching
<1>2. Begun(s, n, steps)
  BY <1>1 DEF SearchInv, NotBegun
<1>3. n[k].from \in steps /\ s.distance[n[k].from] # MaxSeparation
  <2>1. n[k].from \in steps
    BY DEF SoundNet
  <2>2. s.distance[n[k].from] < MaxSeparation /\ MaxSeparation \in Int
    BY <1>1, <1>2, <2>1, SeparationAssumption DEF Begun
  <2> QED BY <2>1, <2>2
<1>4. Range(s.queue) = {}
  BY <1>1 DEF Range
<1> QED BY <1>1, <1>3, <1>4 DEF SearchInv, Settled

SearchPhases == {"initial", "tightened", "relaxed"}
SearchingInv == pc \in SearchPhases => SearchInv(search, net, Steps)
ReadyToSearch == ReadingInv /\ NetworkInv /\ pc \in NetPhases \ {"making"}

LEMMA NetworkIsSound == ReadyToSearch => SoundNet(net, Steps)
<1> SUFFICES ASSUME ReadyToSearch PROVE SoundNet(net, Steps)
  OBVIOUS
<1>1. /\ plan \in Seq(Events) /\ orderings = OrderingConstraints(plan, links)
      /\ net \in Seq(NetEdges) /\ toAdd.causal = {}
      /\ \A o \in orderings \ toAdd.causal : LinkedBothWays(net, o)
  BY DEF ReadyToSearch, ReadingInv, NetworkInv, NetPhases
<1>2. DOMAIN plan = 1..Len(plan) /\ Len(plan) \in Nat
  BY <1>1
<1>3. InitialEvent \in Steps /\ Steps \subseteq Nat /\ Steps \ {InitialEvent} = DOMAIN plan
  BY <1>2 DEF Steps, InitialEvent
<1>4. DOMAIN net \subseteq Nat \ {0}
  BY <1>1
<1>5. ASSUME NEW k \in DOMAIN net
      PROVE  /\ net[k].from \in Steps /\ net[k].to \in Steps /\ net[k].from # net[k].to
             /\ net[k].weight \in Int
             /\ net[k].from = InitialEvent => net[k].weight < MaxSeparation
             /\ net[k].to = InitialEvent => net[k].weight <= 0
  <2>1. net[k] \in NetEdges
    BY <1>1
  <2> QED BY <2>1 DEF NetEdges
<1>6. ASSUME NEW v \in Steps \ {InitialEvent}
      PROVE  LinkedBothWays(net, <<InitialEvent, v>>)
  <2>1. <<InitialEvent, v>> \in orderings
    BY <1>1, <1>3, OrderedSteps
  <2> QED BY <1>1, <2>1
<1> QED BY <1>3, <1>4, <1>5, <1>6 DEF SoundNet

LEMMA SearchingStep ==
    ASSUME ReadingInv, NetworkInv, ReadingInv', NetworkInv', SearchingInv,
           [HeuristicNext]_allVars
    PROVE  SearchingInv'
<1> USE DEF execVars, readingVars, heuristicVars, networkVars
<1>1. ASSUME pc' \notin SearchPhases PROVE SearchingInv'
  BY <1>1 DEF SearchingInv
<1>2. ASSUME UNCHANGED <<pc, plan, net, search>> PROVE SearchingInv'
  BY <1>2 DEF SearchingInv, Steps
<1>3. ASSUME pc' \in SearchPhases, search' = StartSearch(Steps), plan' = plan
      PROVE  SearchingInv'
  <2>1. ReadyToSearch' => SoundNet(net, Steps)'
    BY NetworkIsSound, PTL
  <2>2. SoundNet(net', Steps')
    BY <1>3, <2>1 DEF ReadyToSearch, NetPhases, SearchPhases
  <2>3. Steps' = Steps
    BY <1>3 DEF Steps
  <2> QED BY <1>3, <2>2, <2>3, SearchStarts DEF SearchingInv
<1>4. ASSUME VisitStep
      PROVE  /\ SearchInv(search, net, Steps) /\ SoundNet(net, Steps)
             /\ pc' = pc /\ Steps' = Steps /\ net' = net /\ ~search.negativeCycle
  BY <1>4, NetworkIsSound DEF VisitStep, SearchingInv, SearchPhases, NetPhases,
                              ReadyToSearch, Steps
<1>5. CASE VisitNext
  <2>1. VisitStep /\ search.queue # <<>> /\ EdgesLeft(search, net) = {}
        /\ search' = NextVertex(search)
    BY <1>5 DEF VisitNext
  <2> QED BY <1>4, <2>1, NextVertexKeepsSearch DEF SearchingInv
<1>6. CASE VisitEdge
  <2>1. PICK k : /\ VisitStep /\ IsFirst(k, EdgesLeft(search, net))
                 /\ search' = FollowEdge(search, net, k, Len(vertices))
    BY <1>6 DEF VisitEdge
  <2> QED BY <1>4, <2>1, FollowEdgeKeepsSearch DEF SearchingInv
<1>7. CASE (pc = "child" /\ \E line \in AnswerLines : ChildAdds(line))
           \/ ChildFails \/ ChildAnswers
  BY <1>1, <1>7 DEF ChildAdds, ChildFails, ChildAnswers, SearchPhases
<1>8. CASE ReadAnswer
  BY <1>1, <1>8 DEF ReadAnswer, MoveDueEnd, TakeLine, MoveLeftEnd, JoinPlans, Reading,
                    SearchPhases
<1>9. CASE OrderPlan
  BY <1>1, <1>9 DEF OrderPlan, GoesOn, SearchPhases
<1>10. CASE BuildNetwork
  <2>1. CASE NetworkMade
    BY <1>3, <2>1 DEF NetworkMade, Phase, GoesOn, SearchPhases
  <2>2. CASE ~NetworkMade
    BY <1>1, <1>10, <2>2 DEF BuildNetwork, MakeNetwork, AddDuration, AddCausalLink, Making,
                             Phase, GoesOn, SearchPhases
  <2> QED BY <2>1, <2>2
<1>11. CASE TightenLiterals
  BY <1>3, <1>11 DEF TightenLiterals, Phase, GoesOn, SearchPhases
<1>12. CASE RelaxConflict
  BY <1>3, <1>12 DEF RelaxConflict, Phase, GoesOn, SearchPhases
<1>13. CASE PlanFits \/ TimingRound
  BY <1>1, <1>13 DEF PlanFits, TimingRound, Phase, GoesOn, SearchPhases
<1>14. CASE PlanTimed \/ PlanFitsButSearchOn \/ (\E mode \in 0..3 : PlanRelaxed(mode))
  BY <1>1, <1>14 DEF PlanTimed, PlanFitsButSearchOn, PlanRelaxed, Phase, GoesOn, SearchPhases
<1>15. CASE Abort \/ BeginPerforming \/ (\E k \in DOMAIN plan : PerformStep(k))
  BY <1>1, <1>15 DEF Abort, BeginPerforming, PerformStep, Phase, GoesOn, SearchPhases
<1>16. CASE UNCHANGED allVars
  <2>1. UNCHANGED <<pc, plan, net, search>>
    BY <1>16 DEF allVars
  <2> QED BY <1>2, <2>1
<1> QED
  BY <1>5, <1>6, <1>7, <1>8, <1>9, <1>10, <1>11, <1>12, <1>13, <1>14, <1>15, <1>16
     DEF HeuristicNext, Evaluation

LEMMA SearchingInvariant == HeuristicSpec => []SearchingInv
<1>1. HeuristicInit => SearchingInv
  BY DEF HeuristicInit, SearchingInv, SearchPhases
<1> QED BY <1>1, SearchingStep, ReadingInvariant, NetworkInvariant, PTL DEF HeuristicSpec

(* The distances of every search that ends without a cycle fit every edge  *)
(* of the network: a plan that the heuristic calls consistent has times.   *)
THEOREM ConsistentNetworksHaveTimes ==
    HeuristicSpec => []ConsistentNetworksFit
<1>1. ReadingInv /\ NetworkInv /\ SearchingInv => ConsistentNetworksFit
  <2>1. SUFFICES ASSUME ReadingInv, NetworkInv, SearchingInv, pc \in SearchPhases, Consistent,
                        NEW k \in DOMAIN net
                 PROVE  FitsEdge(search.distance, net[k])
    BY DEF ConsistentNetworksFit, Fits, FitsEdge, SearchPhases
  <2>2. SoundNet(net, Steps)
    BY <2>1, NetworkIsSound DEF ReadyToSearch, NetPhases, SearchPhases
  <2> QED BY <2>1, <2>2, SearchEnds DEF SearchingInv, Consistent
<1> QED BY <1>1, ReadingInvariant, NetworkInvariant, SearchingInvariant, PTL

-----------------------------------------------------------------------------
(* What the edges say until a duration is relaxed: how long an action may  *)
(* last, that one step comes an epsilon after another, when literals are   *)
(* due.  When all of this is in multiples of two units, distances that fit *)
(* within the accuracy fit exactly; an epsilon is ten.                     *)
Even == {2 * n : n \in Int}
EvenTimes ==
    /\ \A a \in Durative : MinDuration[a] \in Even /\ MaxDuration[a] \in Even
    /\ \A k \in DOMAIN TILs : TILs[k].at \in Even
    /\ MaxSeparation \div 2 \in Even

LEMMA EvenSums ==
    /\ \A a \in Even : a \in Int /\ -a \in Even
    /\ \A a, b \in Even : a + b \in Even /\ (a <= b + Accuracy => a <= b)
    /\ 0 \in Even /\ -Epsilon \in Even
<1>1. ASSUME NEW a \in Even PROVE a \in Int /\ -a \in Even
  <2>1. PICK n \in Int : a = 2 * n
    BY DEF Even
  <2>2. -n \in Int /\ -a = 2 * (-n) /\ a \in Int
    BY <2>1
  <2> QED BY <2>2 DEF Even
<1>2. ASSUME NEW a \in Even, NEW b \in Even
      PROVE  a + b \in Even /\ (a <= b + Accuracy => a <= b)
  <2>1. PICK n \in Int : a = 2 * n
    BY DEF Even
  <2>2. PICK m \in Int : b = 2 * m
    BY DEF Even
  <2>3. n + m \in Int /\ a + b = 2 * (n + m)
    BY <2>1, <2>2
  <2>4. a <= b + 1 => a <= b
    BY <2>1, <2>2
  <2> QED BY <2>3, <2>4 DEF Accuracy, Even
<1>3. 0 = 2 * 0 /\ -10 = 2 * (-5) /\ 0 \in Int /\ -5 \in Int
  OBVIOUS
<1> QED BY <1>1, <1>2, <1>3 DEF Epsilon, Even

OfOneAction(p, e) == e.from \in Paired(p) /\ e.to = p[e.from].pairWithStep + 1
AsMade(p, e) ==
    /\ OfOneAction(p, e) => e.weight = DurationEdge(p, e.from).weight
    /\ (InitialEvent < e.to /\ e.to < e.from /\ ~OfOneAction(p, e)) => e.weight = -Epsilon
    /\ EvenTimes => e.weight \in Even
IsLiteral(p, v) == v # InitialEvent /\ p[v].timeSpec = "AT"
OnTime(p, e) ==
    /\ e.from = InitialEvent /\ IsLiteral(p, e.to) => e.weight = TILs[p[e.to].ref].at
    /\ e.to = InitialEvent /\ IsLiteral(p, e.from) => e.weight = -TILs[p[e.from].ref].at

ExactPhases == {"making", "initial", "tightened", "timing"}
MadeInv ==
    /\ pc \in ExactPhases =>
          /\ \A k \in DOMAIN net : AsMade(plan, net[k])
          /\ \A i \in Paired(plan) \ toAdd.pairs : HasEdge(net, i, plan[i].pairWithStep + 1)
    /\ pc \in ExactPhases \ {"making"} => toAdd.pairs = {}
    /\ pc \in {"tightened", "timing"} => \A k \in DOMAIN net : OnTime(plan, net[k])

LEMMA DurationEdgesAsMade ==
    ASSUME plan \in Seq(Events), PairsMatch(plan), NEW i \in Paired(plan)
    PROVE  AsMade(plan, DurationEdge(plan, i)) /\ OfOneAction(plan, DurationEdge(plan, i))
<1> DEFINE e == DurationEdge(plan, i)
           a == plan[i].ref
<1>1. e.from = i /\ e.to = plan[i].pairWithStep + 1
      /\ (e.weight = -MinDuration[a] \/ e.weight = MaxDuration[a])
  BY DEF DurationEdge, Edge
<1>2. a \in Durative
  BY DEF PairsMatch
<1> HIDE DEF e
<1>3. OfOneAction(plan, e) /\ e.weight = DurationEdge(plan, e.from).weight
  BY <1>1 DEF OfOneAction, e
<1>4. EvenTimes => e.weight \in Even
  BY <1>1, <1>2, EvenSums DEF EvenTimes
<1> QED BY <1>3, <1>4 DEF AsMade, e

LEMMA OrderingEdgesAsMade ==
    ASSUME plan \in Seq(Events), NEW o \in OrderingConstraints(plan, links)
    PROVE  /\ ~OfOneAction(plan, NotBefore(o)) => AsMade(plan, NotBefore(o))
           /\ ~OfOneAction(plan, NotLongAfter(o)) => AsMade(plan, NotLongAfter(o))
<1>1. /\ o[1] \in 0..Len(plan) /\ o[2] \in 1..Len(plan) /\ Len(plan) \in Nat
      /\ o[1] = InitialEvent \/ o[1] < o[2]
  BY DEF OrderingConstraints
<1>2. ASSUME ~OfOneAction(plan, NotBefore(o)) PROVE AsMade(plan, NotBefore(o))
  <2>1. /\ NotBefore(o).to = o[1]
        /\ NotBefore(o).weight = IF o[1] = InitialEvent THEN 0 ELSE -Epsilon
    BY DEF NotBefore, Edge
  <2> QED BY <1>1, <1>2, <2>1, EvenSums DEF AsMade, InitialEvent
<1>3. ASSUME ~OfOneAction(plan, NotLongAfter(o)) PROVE AsMade(plan, NotLongAfter(o))
  <2>1. /\ NotLongAfter(o).from = o[1] /\ NotLongAfter(o).to = o[2]
        /\ NotLongAfter(o).weight = MaxSeparation \div 2
    BY DEF NotLongAfter, Edge
  <2>2. ~(InitialEvent < o[2] /\ o[2] < o[1])
    BY <1>1 DEF InitialEvent
  <2> QED BY <1>3, <2>1, <2>2 DEF AsMade, EvenTimes
<1> QED BY <1>2, <1>3

LEMMA MadeStep ==
    ASSUME ReadingInv, NetworkInv, MadeInv, [HeuristicNext]_allVars
    PROVE  MadeInv'
<1> USE DEF execVars, readingVars, heuristicVars, networkVars
<1>1. ASSUME pc' \notin ExactPhases PROVE MadeInv'
  BY <1>1 DEF MadeInv, ExactPhases
<1>2. ASSUME UNCHANGED <<plan, net, toAdd>>,
             pc' = pc \/ (pc = "tightened" /\ pc' = "timing")
      PROVE  MadeInv'
  BY <1>2 DEF MadeInv, ExactPhases
<1>3. CASE MakeNetwork
  <2>1. plan' = plan /\ net' = <<>> /\ pc' = "making" /\ toAdd'.pairs = Paired(plan)
    BY <1>3 DEF MakeNetwork, Phase, GoesOn
  <2>2. DOMAIN net' = {}
    BY <2>1
  <2> QED BY <2>1, <2>2 DEF MadeInv, ExactPhases
<1>4. CASE \E i \in toAdd.pairs : AddDuration(i)
  <2>1. PICK i \in toAdd.pairs : AddDuration(i)
    BY <1>4
  <2> DEFINE e == DurationEdge(plan, i)
  <2>2. /\ plan' = plan /\ pc = "making" /\ pc' = "making" /\ net' = EdgeAdded(net, e)
        /\ toAdd'.pairs = toAdd.pairs \ {i}
    BY <2>1 DEF AddDuration, Making, Phase, GoesOn
  <2>3. /\ net \in Seq(NetEdges) /\ i \in Paired(plan)
        /\ plan \in Seq(Events) /\ PairsMatch(plan)
    BY <2>2 DEF NetworkInv, NetPhases, ReadingInv
  <2>4. e \in NetEdges /\ AsMade(plan, e) /\ e.from = i /\ e.to = plan[i].pairWithStep + 1
    <3>1. e.from = i /\ e.to = plan[i].pairWithStep + 1
      BY DEF DurationEdge, Edge
    <3> QED BY <2>3, <3>1, DurationEdges, DurationEdgesAsMade
  <2> HIDE DEF e
  <2>5. \A k \in DOMAIN net' : (k \in DOMAIN net /\ net'[k] = net[k]) \/ net'[k] = e
    BY <2>2, <2>3, <2>4, EdgeAddedProperties
  <2>6. \A k \in DOMAIN net' : AsMade(plan, net'[k])
    BY <2>2, <2>4, <2>5 DEF MadeInv, ExactPhases
  <2>7. HasEdge(net', i, plan[i].pairWithStep + 1)
    <3>1. HasEdge(net', e.from, e.to)
      BY <2>2, <2>3, <2>4, EdgeAddedProperties
    <3> QED BY <2>4, <3>1
  <2>8. \A j \in Paired(plan) \ toAdd.pairs : HasEdge(net', j, plan[j].pairWithStep + 1)
    BY <2>2, <2>3, <2>4, HasEdgeKept DEF MadeInv, ExactPhases
  <2> QED BY <2>2, <2>6, <2>7, <2>8 DEF MadeInv
<1>5. CASE \E o \in toAdd.causal : AddCausalLink(o)
  <2>1. PICK o \in toAdd.causal : AddCausalLink(o)
    BY <1>5
  <2> DEFINE e == NotBefore(o)
             half == EdgeAdded(net, e)
             f == NotLongAfter(o)
  <2>2. /\ plan' = plan /\ pc = "making" /\ pc' = "making" /\ net' = EdgeAdded(half, f)
        /\ toAdd.pairs = {} /\ toAdd'.pairs = toAdd.pairs
    BY <2>1 DEF AddCausalLink, Making, Phase, GoesOn
  <2>3. /\ net \in Seq(NetEdges) /\ o \in OrderingConstraints(plan, links)
        /\ plan \in Seq(Events) /\ PairsMatch(plan)
    BY <2>2 DEF NetworkInv, NetPhases, ReadingInv
  <2>4. /\ e \in NetEdges /\ f \in NetEdges
        /\ ~OfOneAction(plan, e) => AsMade(plan, e)
        /\ ~OfOneAction(plan, f) => AsMade(plan, f)
    BY <2>3, OrderingEdges, OrderingEdgesAsMade
  <2> HIDE DEF e, f, half
  <2>5. /\ half \in Seq(NetEdges)
        /\ \A k \in DOMAIN half :
              (k \in DOMAIN net /\ half[k] = net[k]) \/ (half[k] = e /\ ~EdgeExists(net, e))
    BY <2>3, <2>4, EdgeAddedProperties DEF half
  <2>6. \A k \in DOMAIN net' :
           (k \in DOMAIN half /\ net'[k] = half[k]) \/ (net'[k] = f /\ ~EdgeExists(half, f))
    <3>1. net' = EdgeAdded(half, f) /\ f \in NetEdges /\ half \in Seq(NetEdges)
      BY <2>2, <2>4, <2>5
    <3> QED BY <3>1, EdgeAddedOnly
  <2>7. \A i \in Paired(plan) : HasEdge(net, i, plan[i].pairWithStep + 1)
    BY <2>2 DEF MadeInv, ExactPhases
  <2>8. \A i \in Paired(plan) : HasEdge(half, i, plan[i].pairWithStep + 1)
    BY <2>3, <2>4, <2>7, HasEdgeKept DEF half
  <2>9. \A i \in Paired(plan) : HasEdge(net', i, plan[i].pairWithStep + 1)
    BY <2>2, <2>4, <2>5, <2>8, HasEdgeKept
  <2>10. /\ OfOneAction(plan, e) => EdgeExists(net, e)
         /\ OfOneAction(plan, f) => EdgeExists(half, f)
    BY <2>7, <2>8 DEF OfOneAction, HasEdge, EdgeExists
  <2>11. \A k \in DOMAIN half : AsMade(plan, half[k])
    BY <2>2, <2>4, <2>5, <2>10 DEF MadeInv, ExactPhases
  <2>12. \A k \in DOMAIN net' : AsMade(plan, net'[k])
    BY <2>4, <2>6, <2>10, <2>11
  <2> QED BY <2>2, <2>9, <2>12 DEF MadeInv
<1>6. CASE NetworkMade
  <2>1. /\ plan' = plan /\ net' = net /\ pc = "making" /\ pc' = "initial"
        /\ toAdd.pairs = {} /\ toAdd'.pairs = {}
    BY <1>6 DEF NetworkMade, Phase, GoesOn, NothingToAdd
  <2> QED BY <2>1 DEF MadeInv, ExactPhases
<1>7. CASE TightenLiterals
  <2>1. /\ plan' = plan /\ net' = Tightened(net, plan) /\ pc = "initial" /\ pc' = "tightened"
        /\ toAdd' = toAdd
    BY <1>7 DEF TightenLiterals, Phase, GoesOn
  <2>2. /\ net \in Seq(NetEdges) /\ plan \in Seq(Events) /\ PairsMatch(plan)
        /\ DOMAIN plan = 1..Len(plan)
    BY <2>1 DEF NetworkInv, NetPhases, ReadingInv
  <2> DEFINE Times(k) == net[k].from = InitialEvent /\ IsLiteral(plan, net[k].to)
             TimesBack(k) == net[k].to = InitialEvent /\ IsLiteral(plan, net[k].from)
             w == [k \in DOMAIN net |->
                     IF Times(k) THEN TILs[plan[net[k].to].ref].at
                     ELSE IF TimesBack(k) THEN -TILs[plan[net[k].from].ref].at
                     ELSE net[k].weight]
  <2>3. net' = [k \in DOMAIN net |-> [net[k] EXCEPT !.weight = w[k]]]
    BY <2>1 DEF Tightened, WithWeights, IsLiteral
  <2>4. \A k \in DOMAIN net : net[k] \in NetEdges
    BY <2>2
  <2>5. DOMAIN net' = DOMAIN net
        /\ \A k \in DOMAIN net : /\ net'[k].from = net[k].from /\ net'[k].to = net[k].to
                                 /\ net'[k].weight = w[k] /\ net[k].from # net[k].to
    BY <2>3, <2>4 DEF NetEdges
  <2>6. ASSUME NEW k \in DOMAIN net' PROVE AsMade(plan, net'[k]) /\ OnTime(plan, net'[k])
    <3>1. k \in DOMAIN net /\ AsMade(plan, net[k]) /\ net[k] \in NetEdges
      BY <2>1, <2>4, <2>5 DEF MadeInv, ExactPhases
    <3>2. Times(k) \/ TimesBack(k) => ~OfOneAction(plan, net[k])
      BY <2>2 DEF OfOneAction, PairsMatch, Paired, InitialEvent
    <3>3. CASE Times(k)
      <4>1. /\ net'[k].weight = TILs[plan[net[k].to].ref].at
            /\ ~(net[k].to = InitialEvent)
        BY <2>5, <3>1, <3>3 DEF IsLiteral
      <4>2. ~(InitialEvent < net[k].to /\ net[k].to < net[k].from)
        BY <3>1, <3>3 DEF NetEdges, Steps, InitialEvent
      <4>3. EvenTimes => net'[k].weight \in Even
        <5>1. plan[net[k].to] \in Events
          BY <2>2, <3>1, <3>3 DEF NetEdges, Steps, IsLiteral, InitialEvent
        <5>2. plan[net[k].to].ref \in DOMAIN TILs
          BY <3>3, <5>1 DEF Events, IsLiteral
        <5> QED BY <4>1, <5>2 DEF EvenTimes
      <4> QED BY <2>5, <3>1, <3>2, <3>3, <4>1, <4>2, <4>3 DEF AsMade, OfOneAction, OnTime
    <3>4. CASE TimesBack(k)
      <4>1. /\ net'[k].weight = -TILs[plan[net[k].from].ref].at
            /\ ~(net[k].from = InitialEvent)
        BY <2>5, <3>1, <3>4 DEF IsLiteral
      <4>2. ~(InitialEvent < net[k].to)
        BY <3>4 DEF InitialEvent
      <4>3. EvenTimes => net'[k].weight \in Even
        <5>1. plan[net[k].from] \in Events
          BY <2>2, <3>1, <3>4 DEF NetEdges, Steps, IsLiteral, InitialEvent
        <5>2. plan[net[k].from].ref \in DOMAIN TILs
          BY <3>4, <5>1 DEF Events, IsLiteral
        <5> QED BY <4>1, <5>2, EvenSums DEF EvenTimes
      <4> QED BY <2>5, <3>1, <3>2, <3>4, <4>1, <4>2, <4>3 DEF AsMade, OfOneAction, OnTime
    <3>5. CASE ~Times(k) /\ ~TimesBack(k)
      <4>1. net'[k].weight = net[k].weight
        BY <2>5, <3>1, <3>5
      <4> QED BY <2>5, <3>1, <3>5, <4>1 DEF AsMade, OfOneAction, OnTime
    <3> QED BY <3>3, <3>4, <3>5
  <2>7. \A i \in Paired(plan) : HasEdge(net', i, plan[i].pairWithStep + 1)
    <3>1. \A i \in Paired(plan) : HasEdge(net, i, plan[i].pairWithStep + 1)
      BY <2>1 DEF MadeInv, ExactPhases
    <3> QED BY <2>1, <2>2, <3>1, TightenedEdges
  <2>8. toAdd'.pairs = {}
    BY <2>1 DEF MadeInv, ExactPhases
  <2> QED BY <2>1, <2>6, <2>7, <2>8 DEF MadeInv
<1>8. CASE (pc = "child" /\ \E line \in AnswerLines : ChildAdds(line))
           \/ ChildFails \/ ChildAnswers
  BY <1>1, <1>8 DEF ChildAdds, ChildFails, ChildAnswers, ExactPhases
<1>9. CASE ReadAnswer
  BY <1>1, <1>9 DEF ReadAnswer, MoveDueEnd, TakeLine, MoveLeftEnd, JoinPlans, Reading,
                    ExactPhases
<1>10. CASE OrderPlan \/ Abort \/ RelaxConflict
  BY <1>1, <1>10 DEF OrderPlan, Abort, RelaxConflict, Phase, GoesOn, ExactPhases
<1>11. CASE VisitNext \/ VisitEdge
  BY <1>2, <1>11 DEF VisitNext, VisitEdge, VisitStep
<1>12. CASE PlanFits \/ TimingRound
  BY <1>2, <1>12 DEF PlanFits, TimingRound, Phase, GoesOn
<1>13. CASE PlanTimed \/ PlanFitsButSearchOn \/ (\E mode \in 0..3 : PlanRelaxed(mode))
  BY <1>1, <1>13 DEF PlanTimed, PlanFitsButSearchOn, PlanRelaxed, Phase, GoesOn, ExactPhases
<1>14. CASE BeginPerforming \/ (\E k \in DOMAIN plan : PerformStep(k))
  BY <1>1, <1>14 DEF BeginPerforming, PerformStep, Phase, GoesOn, ExactPhases
<1>15. CASE UNCHANGED allVars
  <2>1. UNCHANGED <<plan, net, toAdd, pc>>
    BY <1>15 DEF allVars
  <2> QED BY <1>2, <2>1
<1>16. CASE BuildNetwork
  BY <1>3, <1>4, <1>5, <1>6, <1>16 DEF BuildNetwork
<1> QED
  BY <1>7, <1>8, <1>9, <1>10, <1>11, <1>12, <1>13, <1>14, <1>15, <1>16
     DEF HeuristicNext, Evaluation

LEMMA MadeInvariant == HeuristicSpec => []MadeInv
<1>1. HeuristicInit => MadeInv
  BY DEF HeuristicInit, MadeInv, ExactPhases
<1> QED BY <1>1, MadeStep, ReadingInvariant, NetworkInvariant, PTL DEF HeuristicSpec

-----------------------------------------------------------------------------
(* Even weights give whole distances, and those fit exactly.              *)
EvenDistances(s, steps) ==
    \A v \in steps : s.distance[v] = MaxSeparation \/ s.distance[v] \in Even
EvenInv == pc \in {"initial", "tightened"} => EvenDistances(search, Steps)

LEMMA FollowEdgeKeepsEven ==
    ASSUME NEW steps, NEW n, SoundNet(n, steps), NEW s, SearchInv(s, n, steps),
           NEW k, IsFirst(k, EdgesLeft(s, n)), NEW size,
           n[k].weight \in Even, EvenDistances(s, steps)
    PROVE  EvenDistances(FollowEdge(s, n, k, size), steps)
<1> DEFINE t == FollowEdge(s, n, k, size)
           d == s.distance
           new == d[n[k].from] + n[k].weight
<1>1. /\ s \in Searches(steps) /\ k \in DOMAIN n /\ n[k].from = s.node
      /\ n[k].from \in steps /\ d \in [steps -> Int] /\ d[InitialEvent] <= 0
  BY DEF SearchInv, Searches, IsFirst, EdgesLeft, SoundNet
<1>2. Begun(s, n, steps)
  <2>1. s.node # None
    BY <1>1 DEF SoundNet, None
  <2> QED BY <2>1 DEF SearchInv, NotBegun
<1>3. d[n[k].from] # MaxSeparation
  BY <1>1, <1>2, SeparationAssumption DEF Begun
<1>4. new \in Even
  BY <1>1, <1>3, EvenSums DEF EvenDistances
<1>5. t.distance = d \/ t.distance = [d EXCEPT ![n[k].to] = new]
  <2>1. t = FollowEdge(s, n, k, size) /\ d = s.distance /\ new = d[n[k].from] + n[k].weight
    OBVIOUS
  <2> HIDE DEF t, d, new
  <2>2. t.distance = IF Improves(s, n[k]) THEN [d EXCEPT ![n[k].to] = new] ELSE d
    BY <1>1, <2>1, EdgeFollowed
  <2> QED BY <2>2
<1> HIDE DEF t, new
<1>6. \A v \in steps : t.distance[v] = d[v] \/ t.distance[v] = new
  BY <1>1, <1>5
<1> QED BY <1>4, <1>6 DEF EvenDistances, t

LEMMA SearchEndsEven ==
    ASSUME NEW steps, NEW n, SoundNet(n, steps), NEW s, SearchInv(s, n, steps),
           ~Searching(s, n), ~s.negativeCycle, EvenDistances(s, steps),
           NEW k \in DOMAIN n, n[k].weight \in Even
    PROVE  s.distance[n[k].to] - s.distance[n[k].from] <= n[k].weight
<1> DEFINE a == s.distance[n[k].to]
           b == s.distance[n[k].from]
           w == n[k].weight
<1>1. a <= b + w + Accuracy
  BY SearchEnds DEF FitsEdge
<1>2. Begun(s, n, steps) /\ EdgesLeft(s, n) = {}
  BY DEF SearchInv, NotBegun, Searching
<1>3. \A v \in steps : s.distance[v] \in Even
  <2>1. ASSUME NEW v \in steps PROVE s.distance[v] # MaxSeparation
    <3>1. s.distance[v] < MaxSeparation
      BY <1>2 DEF Begun
    <3> QED BY <3>1, SeparationAssumption
  <2> QED BY <2>1 DEF EvenDistances
<1>4. a \in Even /\ b \in Even
  BY <1>3 DEF SoundNet
<1> HIDE DEF a, b, w
<1>5. b + w \in Even /\ a \in Int /\ b \in Int /\ w \in Int
  BY <1>4, EvenSums DEF w
<1>6. a <= b + w
  BY <1>1, <1>4, <1>5, EvenSums
<1> QED BY <1>5, <1>6 DEF a, b, w

LEMMA EvenStep ==
    ASSUME EvenTimes, ReadingInv, NetworkInv, SearchingInv, MadeInv, EvenInv,
           [HeuristicNext]_allVars
    PROVE  EvenInv'
<1> USE DEF execVars, readingVars, heuristicVars, networkVars
<1>1. ASSUME pc' \notin {"initial", "tightened"} PROVE EvenInv'
  BY <1>1 DEF EvenInv
<1>2. ASSUME UNCHANGED <<pc, plan, search>> PROVE EvenInv'
  BY <1>2 DEF EvenInv, Steps
<1>3. ASSUME search' = StartSearch(Steps), plan' = plan PROVE EvenInv'
  <2>1. \A v \in Steps : \/ StartSearch(Steps).distance[v] = MaxSeparation
                         \/ StartSearch(Steps).distance[v] = 0
    BY DEF StartSearch
  <2>2. Steps' = Steps
    BY <1>3 DEF Steps
  <2> QED BY <1>3, <2>1, <2>2, EvenSums DEF EvenInv, EvenDistances
<1>4. CASE VisitNext
  <2>1. search' = NextVertex(search) /\ pc' = pc /\ plan' = plan
    BY <1>4 DEF VisitNext, VisitStep
  <2>2. SearchInv(search, net, Steps) \/ pc \notin {"initial", "tightened"}
    BY DEF SearchingInv, SearchPhases
  <2>3. ASSUME pc \in {"initial", "tightened"} PROVE NextVertex(search).distance = search.distance
    BY <2>2, <2>3 DEF NextVertex, SearchInv, Searches
  <2>4. Steps' = Steps
    BY <2>1 DEF Steps
  <2> QED BY <2>1, <2>3, <2>4 DEF EvenInv, EvenDistances
<1>5. CASE VisitEdge
  <2>1. PICK k : /\ IsFirst(k, EdgesLeft(search, net))
                 /\ search' = FollowEdge(search, net, k, Len(vertices))
                 /\ pc' = pc /\ plan' = plan
    BY <1>5 DEF VisitEdge, VisitStep
  <2>2. Steps' = Steps
    BY <2>1 DEF Steps
  <2>3. SUFFICES ASSUME pc \in {"initial", "tightened"}
                 PROVE  EvenDistances(FollowEdge(search, net, k, Len(vertices)), Steps)
    BY <2>1, <2>2 DEF EvenInv
  <2>4. SoundNet(net, Steps) /\ SearchInv(search, net, Steps) /\ EvenDistances(search, Steps)
    BY <2>3, NetworkIsSound DEF ReadyToSearch, NetPhases, SearchingInv, SearchPhases, EvenInv
  <2>5. k \in DOMAIN net
    BY <2>1 DEF IsFirst, EdgesLeft
  <2>6. net[k].weight \in Even
    BY <2>3, <2>5 DEF MadeInv, ExactPhases, AsMade
  <2> QED BY <2>1, <2>4, <2>6, FollowEdgeKeepsEven
<1>6. CASE TightenLiterals
  BY <1>3, <1>6 DEF TightenLiterals, Phase, GoesOn
<1>7. CASE (pc = "child" /\ \E line \in AnswerLines : ChildAdds(line))
           \/ ChildFails \/ ChildAnswers
  BY <1>1, <1>7 DEF ChildAdds, ChildFails, ChildAnswers
<1>8. CASE ReadAnswer
  BY <1>1, <1>8 DEF ReadAnswer, MoveDueEnd, TakeLine, MoveLeftEnd, JoinPlans, Reading
<1>9. CASE OrderPlan \/ Abort \/ RelaxConflict
  BY <1>1, <1>9 DEF OrderPlan, Abort, RelaxConflict, Phase, GoesOn
<1>10. CASE BuildNetwork
  <2>1. CASE NetworkMade
    BY <1>3, <2>1 DEF NetworkMade, Phase, GoesOn
  <2>2. CASE ~NetworkMade
    BY <1>1, <1>10, <2>2 DEF BuildNetwork, MakeNetwork, AddDuration, AddCausalLink, Making,
                             Phase, GoesOn
  <2> QED BY <2>1, <2>2
<1>11. CASE PlanFits \/ TimingRound
  BY <1>1, <1>11 DEF PlanFits, TimingRound, Phase, GoesOn
<1>12. CASE PlanTimed \/ PlanFitsButSearchOn \/ (\E mode \in 0..3 : PlanRelaxed(mode))
  BY <1>1, <1>12 DEF PlanTimed, PlanFitsButSearchOn, PlanRelaxed, Phase, GoesOn
<1>13. CASE BeginPerforming \/ (\E k \in DOMAIN plan : PerformStep(k))
  BY <1>1, <1>13 DEF BeginPerforming, PerformStep, Phase, GoesOn
<1>14. CASE UNCHANGED allVars
  <2>1. UNCHANGED <<pc, plan, search>>
    BY <1>14 DEF allVars
  <2> QED BY <1>2, <2>1
<1> QED
  BY <1>4, <1>5, <1>6, <1>7, <1>8, <1>9, <1>10, <1>11, <1>12, <1>13, <1>14
     DEF HeuristicNext, Evaluation

LEMMA EvenInvariant == ASSUME EvenTimes PROVE HeuristicSpec => []EvenInv
<1>1. HeuristicInit => EvenInv
  BY DEF HeuristicInit, EvenInv
<1> QED BY <1>1, EvenStep, ReadingInvariant, NetworkInvariant, SearchingInvariant,
           MadeInvariant, PTL DEF HeuristicSpec

-----------------------------------------------------------------------------
(* The executor.  An entry of the matrix is at most the weight of its      *)
(* edge, and at least the separation of its steps in whatever schedule     *)
(* fits the network; the triangles through the vertices done are closed.   *)
FitsAll(n, t) == \A k \in DOMAIN n : t[n[k].to] - t[n[k].from] <= n[k].weight
Bounds(n, steps, M) ==
    /\ M \in [steps -> [steps -> Int]]
    /\ \A i, j \in steps : M[i][j] <= Weight(n, i, j)
    /\ \A t \in [steps -> Int] : FitsAll(n, t) =>
          \A i, j \in steps : t[j] - t[i] <= M[i][j]
Through(steps, M, K) ==
    \A k \in K : \A i, j \in steps : M[i][j] <= M[i][k] + M[k][j]

LEMMA SoundWeights ==
    ASSUME NEW steps, NEW n, SoundNet(n, steps), NEW i \in steps, NEW j \in steps
    PROVE  /\ Weight(n, i, j) \in Int
           /\ \/ i = j /\ Weight(n, i, j) = 0
              \/ /\ i # j /\ i # InitialEvent /\ j # InitialEvent
                 /\ Weight(n, i, j) = MaxSeparation
              \/ \E k \in DOMAIN n : Connects(n[k], i, j) /\ Weight(n, i, j) = n[k].weight
<1>1. CASE i = j
  BY <1>1 DEF Weight
<1>2. CASE i # j /\ \E k \in DOMAIN n : Connects(n[k], i, j)
  <2>1. \E k \in DOMAIN n : Connects(n[k], i, j) /\ Weight(n, i, j) = n[k].weight
    BY <1>2, Zenon DEF Weight
  <2> QED BY <2>1 DEF SoundNet
<1>3. CASE i # j /\ ~\E k \in DOMAIN n : Connects(n[k], i, j)
  <2>1. Weight(n, i, j) = MaxSeparation
    BY <1>3 DEF Weight
  <2>2. i # InitialEvent /\ j # InitialEvent
    BY <1>3 DEF SoundNet, LinkedBothWays, HasEdge
  <2> QED BY <1>3, <2>1, <2>2, SeparationAssumption
<1> QED BY <1>1, <1>2, <1>3

(* A schedule that fits leaves less than MaxSeparation between two steps:  *)
(* both are linked to the initial event.                                   *)
LEMMA MatrixStarts ==
    ASSUME NEW steps, NEW n, SoundNet(n, steps)
    PROVE  Bounds(n, steps, ToMatrix(n, steps))
<1> DEFINE M == ToMatrix(n, steps)
<1>1. \A i, j \in steps : M[i][j] = Weight(n, i, j) /\ M[i][j] \in Int
  BY SoundWeights DEF ToMatrix
<1>2. M \in [steps -> [steps -> Int]]
  BY SoundWeights DEF ToMatrix
<1>3. ASSUME NEW t \in [steps -> Int], FitsAll(n, t), NEW i \in steps, NEW j \in steps
      PROVE  t[j] - t[i] <= Weight(n, i, j)
  <2>1. t[i] \in Int /\ t[j] \in Int
    OBVIOUS
  <2>2. CASE i = j /\ Weight(n, i, j) = 0
    BY <2>1, <2>2
  <2>3. CASE \E k \in DOMAIN n : Connects(n[k], i, j) /\ Weight(n, i, j) = n[k].weight
    BY <1>3, <2>3 DEF FitsAll, Connects
  <2>4. CASE i # InitialEvent /\ j # InitialEvent /\ Weight(n, i, j) = MaxSeparation
    <3>1. PICK k \in DOMAIN n : n[k].from = i /\ n[k].to = InitialEvent
      BY <2>4 DEF SoundNet, LinkedBothWays, HasEdge, Connects
    <3>2. PICK l \in DOMAIN n : n[l].from = InitialEvent /\ n[l].to = j
      BY <2>4 DEF SoundNet, LinkedBothWays, HasEdge, Connects
    <3>3. /\ n[k].weight \in Int /\ n[k].weight <= 0
          /\ n[l].weight \in Int /\ n[l].weight < MaxSeparation /\ t[InitialEvent] \in Int
      BY <3>1, <3>2 DEF SoundNet
    <3>4. /\ t[InitialEvent] - t[i] <= n[k].weight
          /\ t[j] - t[InitialEvent] <= n[l].weight
      BY <1>3, <3>1, <3>2 DEF FitsAll
    <3> QED BY <2>1, <2>4, <3>3, <3>4, SeparationAssumption
  <2> QED BY <2>2, <2>3, <2>4, SoundWeights
<1> HIDE DEF M
<1>4. \A i, j \in steps : M[i][j] <= Weight(n, i, j)
  BY <1>1
<1> QED BY <1>1, <1>2, <1>3, <1>4 DEF Bounds, M

LEMMA DiagonalIsZero ==
    ASSUME NEW steps, NEW n, NEW M, Bounds(n, steps, M),
           NEW t \in [steps -> Int], FitsAll(n, t), NEW i \in steps
    PROVE  M[i][i] = 0
<1>1. t[i] - t[i] <= M[i][i] /\ M[i][i] <= Weight(n, i, i) /\ M[i][i] \in Int /\ t[i] \in Int
  BY DEF Bounds
<1> QED BY <1>1 DEF Weight

(* Of a sum that is taken only where it is less.                           *)
LEMMA MatrixRound ==
    ASSUME NEW steps, NEW n, SoundNet(n, steps), NEW M, Bounds(n, steps, M),
           NEW t \in [steps -> Int], FitsAll(n, t),
           NEW m \in steps, NEW K \in SUBSET steps, Through(steps, M, K)
    PROVE  /\ Bounds(n, steps, ThroughVertex(M, m))
           /\ Through(steps, ThroughVertex(M, m), K \cup {m})
<1> DEFINE N == ThroughVertex(M, m)
<1>1. \A i, j \in steps : M[i][j] \in Int
  BY DEF Bounds
<1>2. DOMAIN M = steps
  BY DEF Bounds
<1>3. N = [i \in steps |-> [j \in steps |->
             IF M[i][m] + M[m][j] < M[i][j] THEN M[i][m] + M[m][j] ELSE M[i][j]]]
  BY <1>2 DEF ThroughVertex
<1>4. N \in [steps -> [steps -> Int]]
  BY <1>1, <1>3
<1>5. ASSUME NEW i \in steps, NEW j \in steps
      PROVE  /\ N[i][j] \in Int /\ N[i][j] <= M[i][j] /\ N[i][j] <= M[i][m] + M[m][j]
             /\ N[i][j] = M[i][j] \/ N[i][j] = M[i][m] + M[m][j]
  <2>1. N[i][j] = IF M[i][m] + M[m][j] < M[i][j] THEN M[i][m] + M[m][j] ELSE M[i][j]
    BY <1>3
  <2>2. M[i][m] \in Int /\ M[m][j] \in Int /\ M[i][j] \in Int
    BY <1>1
  <2> HIDE DEF N
  <2> QED BY <2>1, <2>2
<1> HIDE DEF N
<1>6. M[m][m] = 0
  BY DiagonalIsZero
<1>7. ASSUME NEW i \in steps, NEW j \in steps
      PROVE  /\ N[i][j] <= Weight(n, i, j)
             /\ \A s \in [steps -> Int] : FitsAll(n, s) => s[j] - s[i] <= N[i][j]
  <2>1. N[i][j] <= Weight(n, i, j)
    <3>1. M[i][j] <= Weight(n, i, j)
      BY DEF Bounds
    <3>2. Weight(n, i, j) \in Int
      BY SoundWeights
    <3> QED BY <1>1, <1>5, <3>1, <3>2
  <2>2. ASSUME NEW s \in [steps -> Int], FitsAll(n, s) PROVE s[j] - s[i] <= N[i][j]
    <3>1. /\ s[j] - s[i] <= M[i][j] /\ s[m] - s[i] <= M[i][m] /\ s[j] - s[m] <= M[m][j]
      BY <2>2 DEF Bounds
    <3>2. s[i] \in Int /\ s[j] \in Int /\ s[m] \in Int
      OBVIOUS
    <3> QED BY <1>1, <1>5, <3>1, <3>2
  <2> QED BY <2>1, <2>2
<1>8. Bounds(n, steps, N)
  BY <1>4, <1>7 DEF Bounds
<1>9. ASSUME NEW k \in K \cup {m}, NEW i \in steps, NEW j \in steps
      PROVE  N[i][j] <= N[i][k] + N[k][j]
  <2>1. CASE k = m
    <3>1. N[i][m] = M[i][m] /\ N[m][j] = M[m][j]
      BY <1>1, <1>5, <1>6
    <3> QED BY <1>5, <2>1, <3>1
  <2>2. CASE k \in K
    <3>1. /\ M[i][j] <= M[i][k] + M[k][j] /\ M[m][j] <= M[m][k] + M[k][j]
          /\ M[i][m] <= M[i][k] + M[k][m] /\ M[m][m] <= M[m][k] + M[k][m]
      BY <2>2 DEF Through
    <3>2. k \in steps
      BY <2>2
    <3>3. /\ M[i][j] \in Int /\ M[i][k] \in Int /\ M[k][j] \in Int /\ M[m][j] \in Int
          /\ M[m][k] \in Int /\ M[i][m] \in Int /\ M[k][m] \in Int
      BY <1>1, <3>2
    <3>4. N[i][k] = M[i][k] \/ N[i][k] = M[i][m] + M[m][k]
      BY <1>5, <3>2
    <3>5. N[k][j] = M[k][j] \/ N[k][j] = M[k][m] + M[m][j]
      BY <1>5, <3>2
    <3>6. N[i][j] \in Int /\ N[i][j] <= M[i][j] /\ N[i][j] <= M[i][m] + M[m][j]
      BY <1>5
    <3> QED BY <1>6, <3>1, <3>3, <3>4, <3>5, <3>6
  <2> QED BY <2>1, <2>2
<1>10. Through(steps, N, K \cup {m})
  BY <1>9 DEF Through
<1> QED BY <1>8, <1>10 DEF N

(* The earliest times fit; were a set of steps without a tight chain to    *)
(* the initial event, all of them could come one unit earlier.             *)
LEMMA Earliest ==
    ASSUME NEW steps, NEW n, SoundNet(n, steps), Distinct(n), NEW M, Bounds(n, steps, M),
           Through(steps, M, steps), NEW t \in [steps -> Int], FitsAll(n, t),
           NEW at, at = EventTimings(M)
    PROVE  /\ at \in [steps -> Int] /\ FitsAll(n, at) /\ at[InitialEvent] = 0
           /\ \A s \in [steps -> Int] : FitsAll(n, s) =>
                 \A i \in steps : at[i] <= s[i] - s[InitialEvent]
<1>1. \A i, j \in steps : M[i][j] \in Int
  BY DEF Bounds
<1>2. InitialEvent \in steps /\ DOMAIN M = steps
  BY DEF Bounds, SoundNet
<1>3. at = [i \in steps |-> -M[i][InitialEvent]]
  BY <1>2 DEF EventTimings
<1>4. \A i \in steps : at[i] = -M[i][InitialEvent] /\ at[i] \in Int
  BY <1>1, <1>2, <1>3
<1>5. at \in [steps -> Int]
  BY <1>3, <1>4
<1>6. at[InitialEvent] = 0
  BY <1>2, <1>4, DiagonalIsZero
<1>7. ASSUME NEW k \in DOMAIN n
      PROVE  at[n[k].to] - at[n[k].from] <= n[k].weight
  <2> DEFINE i == n[k].from
             j == n[k].to
  <2>1. i \in steps /\ j \in steps /\ i # j /\ n[k].weight \in Int
    BY DEF SoundNet
  <2>2. Weight(n, i, j) = n[k].weight
    <3>1. Connects(n[k], i, j)
      BY DEF Connects
    <3>2. PICK l \in DOMAIN n : Connects(n[l], i, j) /\ Weight(n, i, j) = n[l].weight
      BY <2>1, <3>1, Zenon DEF Weight
    <3>3. l = k
      BY <3>2 DEF Distinct
    <3> QED BY <3>2, <3>3
  <2> HIDE DEF i, j
  <2>3. /\ M[i][InitialEvent] <= M[i][j] + M[j][InitialEvent]
        /\ M[i][j] <= Weight(n, i, j)
    BY <1>2, <2>1 DEF Through, Bounds
  <2>4. /\ M[i][InitialEvent] \in Int /\ M[i][j] \in Int /\ M[j][InitialEvent] \in Int
        /\ at[i] = -M[i][InitialEvent] /\ at[j] = -M[j][InitialEvent]
    BY <1>1, <1>2, <1>4, <2>1
  <2>5. at[j] - at[i] <= n[k].weight
    BY <2>1, <2>2, <2>3, <2>4
  <2> QED BY <2>5 DEF i, j
<1>8. ASSUME NEW s \in [steps -> Int], FitsAll(n, s), NEW i \in steps
      PROVE  at[i] <= s[i] - s[InitialEvent]
  <2>1. s[InitialEvent] - s[i] <= M[i][InitialEvent]
    BY <1>2, <1>8 DEF Bounds
  <2>2. s[i] \in Int /\ s[InitialEvent] \in Int /\ M[i][InitialEvent] \in Int
    BY <1>1, <1>2
  <2> QED BY <1>4, <2>1, <2>2
<1> QED BY <1>5, <1>6, <1>7, <1>8 DEF FitsAll

LEMMA EarliestIsAnchored ==
    ASSUME SoundNet(net, Steps), NEW at \in [Steps -> Int], FitsAll(net, at),
           \A s \in [Steps -> Int] : FitsAll(net, s) =>
              \A i \in Steps : at[i] <= s[i] - s[InitialEvent],
           at[InitialEvent] = 0
    PROVE  Anchored(at)
<1>1. SUFFICES ASSUME NEW S \in SUBSET Steps, InitialEvent \in S,
                      \A i \in Steps : Tight(i, at) \cap S # {} => i \in S
               PROVE  S = Steps
  BY DEF Anchored
<1> DEFINE s == [i \in Steps |-> IF i \in S THEN at[i] ELSE at[i] - 1]
<1>2. s \in [Steps -> Int]
  OBVIOUS
<1>3. \A i \in Steps : s[i] = IF i \in S THEN at[i] ELSE at[i] - 1
  OBVIOUS
<1> HIDE DEF s
<1>4. ASSUME NEW k \in DOMAIN net
      PROVE  s[net[k].to] - s[net[k].from] <= net[k].weight
  <2> DEFINE i == net[k].from
             j == net[k].to
             w == net[k].weight
  <2>1. i \in Steps /\ j \in Steps /\ w \in Int /\ at[i] \in Int /\ at[j] \in Int
    BY DEF SoundNet
  <2>2. at[j] - at[i] <= w
    BY DEF FitsAll
  <2>3. i \notin S /\ j \in S => at[i] # at[j] - w
    <3>1. at[i] = at[j] - w => j \in Tight(i, at)
      BY DEF Tight
    <3> QED BY <1>1, <2>1, <3>1
  <2>4. /\ s[i] = IF i \in S THEN at[i] ELSE at[i] - 1
        /\ s[j] = IF j \in S THEN at[j] ELSE at[j] - 1
    BY <1>3, <2>1
  <2> HIDE DEF i, j, w
  <2>5. s[j] - s[i] <= w
    BY <2>1, <2>2, <2>3, <2>4
  <2> QED BY <2>5 DEF i, j, w
<1>5. FitsAll(net, s)
  BY <1>4 DEF FitsAll
<1>6. ASSUME NEW i \in Steps PROVE i \in S
  <2>1. InitialEvent \in Steps /\ s[InitialEvent] = 0
    BY <1>1, <1>3
  <2>2. at[i] <= s[i] - 0
    BY <1>2, <1>5, <2>1
  <2>3. at[i] \in Int /\ s[i] = IF i \in S THEN at[i] ELSE at[i] - 1
    BY <1>3
  <2> QED BY <2>2, <2>3
<1> QED BY <1>1, <1>6

(* Every vertex has had its round when all of them have, for a step other  *)
(* than the initial event is linked to it.                                 *)
LEMMA StepsAreVertices ==
    ASSUME SoundNet(net, Steps), Covered(vertices, net)
    PROVE  Steps \subseteq Range(vertices) \/ Steps = {InitialEvent}
<1>1. ASSUME NEW v \in Steps \ {InitialEvent}
      PROVE  {InitialEvent, v} \subseteq Range(vertices)
  <2>1. PICK k \in DOMAIN net : net[k].from = InitialEvent /\ net[k].to = v
    BY DEF SoundNet, LinkedBothWays, HasEdge, Connects
  <2> QED BY <2>1 DEF Covered
<1>2. InitialEvent \in Steps
  BY DEF SoundNet
<1> QED BY <1>1, <1>2

ThroughRounds(r) == {vertices[m] : m \in 1..r}
TimingInv ==
    pc = "timing" =>
        /\ rounds \in 0..Len(vertices)
        /\ search.distance \in [Steps -> Int] /\ FitsAll(net, search.distance)
        /\ Bounds(net, Steps, matrix)
        /\ Through(Steps, matrix, ThroughRounds(rounds))
Times(at) == at \in [Steps -> Int] /\ at[InitialEvent] = 0
SolutionInv ==
    solution.found => /\ pc = "done" /\ Times(solution.at)
                      /\ FitExactly(solution.at) /\ Anchored(solution.at)

LEMMA PlanFitsStep ==
    ASSUME EvenTimes, ReadingInv, NetworkInv, SearchingInv, MadeInv, EvenInv, PlanFits
    PROVE  TimingInv'
<1>1. /\ pc = "tightened" /\ pc' = "timing" /\ plan' = plan /\ net' = net
      /\ vertices' = vertices /\ search' = search /\ Consistent
      /\ matrix' = ToMatrix(net, Steps) /\ rounds' = 0
  BY DEF PlanFits, Phase, GoesOn, networkVars
<1>2. SoundNet(net, Steps) /\ SearchInv(search, net, Steps) /\ EvenDistances(search, Steps)
  BY <1>1, NetworkIsSound DEF ReadyToSearch, NetPhases, SearchingInv, SearchPhases, EvenInv
<1>3. \A k \in DOMAIN net : net[k].weight \in Even
  BY <1>1 DEF MadeInv, ExactPhases, AsMade
<1>4. FitsAll(net, search.distance)
  BY <1>1, <1>2, <1>3, SearchEndsEven DEF FitsAll, Consistent
<1>5. search.distance \in [Steps -> Int]
  BY <1>2 DEF SearchInv, Searches
<1>6. Bounds(net, Steps, matrix')
  BY <1>1, <1>2, MatrixStarts
<1>7. Through(Steps, matrix', ThroughRounds(0))
  BY DEF Through, ThroughRounds
<1>8. Len(vertices) \in Nat
  BY <1>1 DEF NetworkInv, NetPhases
<1>9. Steps' = Steps /\ ThroughRounds(rounds)' = ThroughRounds(0)
  BY <1>1 DEF Steps, ThroughRounds
<1> QED BY <1>1, <1>4, <1>5, <1>6, <1>7, <1>8, <1>9 DEF TimingInv

LEMMA TimingRoundStep ==
    ASSUME ReadingInv, NetworkInv, TimingInv, TimingRound
    PROVE  TimingInv'
<1> DEFINE r == rounds + 1
           m == vertices[r]
<1>1. /\ pc = "timing" /\ pc' = "timing" /\ plan' = plan /\ net' = net
      /\ vertices' = vertices /\ search' = search /\ rounds < Len(vertices)
      /\ matrix' = ThroughVertex(matrix, m) /\ rounds' = r
  BY DEF TimingRound, Phase, GoesOn, networkVars
<1>2. /\ vertices \in Seq(Steps) /\ Len(vertices) \in Nat /\ SoundNet(net, Steps)
      /\ DOMAIN vertices = 1..Len(vertices)
  BY <1>1, NetworkIsSound DEF ReadyToSearch, NetworkInv, NetPhases
<1>3. /\ rounds \in 0..Len(vertices) /\ r \in 1..Len(vertices)
      /\ search.distance \in [Steps -> Int] /\ FitsAll(net, search.distance)
      /\ Bounds(net, Steps, matrix) /\ Through(Steps, matrix, ThroughRounds(rounds))
  BY <1>1, <1>2 DEF TimingInv
<1>4. m \in Steps /\ ThroughRounds(rounds) \in SUBSET Steps
  BY <1>2, <1>3 DEF ThroughRounds
<1>5. ThroughRounds(r) = ThroughRounds(rounds) \cup {m}
  <2>1. 1..r = (1..rounds) \cup {r}
    BY <1>3
  <2> QED BY <2>1 DEF ThroughRounds
<1>6. /\ Bounds(net, Steps, matrix')
      /\ Through(Steps, matrix', ThroughRounds(rounds) \cup {m})
  <2> DEFINE K == ThroughRounds(rounds)
             t == search.distance
  <2>1. /\ matrix' = ThroughVertex(matrix, m) /\ m \in Steps /\ K \in SUBSET Steps
        /\ SoundNet(net, Steps) /\ Bounds(net, Steps, matrix)
        /\ t \in [Steps -> Int] /\ FitsAll(net, t) /\ Through(Steps, matrix, K)
    BY <1>1, <1>2, <1>3, <1>4
  <2> HIDE DEF m, K, t
  <2>2. /\ Bounds(net, Steps, ThroughVertex(matrix, m))
        /\ Through(Steps, ThroughVertex(matrix, m), K \cup {m})
    BY <2>1, MatrixRound
  <2> QED BY <2>1, <2>2 DEF K
<1>7. Steps' = Steps /\ ThroughRounds(rounds)' = ThroughRounds(r)
  BY <1>1 DEF Steps, ThroughRounds
<1>8. r \in 0..Len(vertices)
  BY <1>2, <1>3
<1>9. Through(Steps, matrix', ThroughRounds(r))
  BY <1>5, <1>6
<1> HIDE DEF r, m
<1> QED BY <1>1, <1>3, <1>6, <1>7, <1>8, <1>9 DEF TimingInv

LEMMA PlanTimedStep ==
    ASSUME ReadingInv, NetworkInv, TimingInv, PlanTimed
    PROVE  SolutionInv'
<1>1. /\ pc = "timing" /\ pc' = "done" /\ plan' = plan /\ net' = net
      /\ rounds = Len(vertices) /\ solution'.at = EventTimings(matrix)
  BY DEF PlanTimed, Phase, GoesOn, networkVars
<1>2. /\ vertices \in Seq(Steps) /\ Covered(vertices, net) /\ Distinct(net)
      /\ DOMAIN vertices = 1..Len(vertices) /\ SoundNet(net, Steps)
  BY <1>1, NetworkIsSound DEF ReadyToSearch, NetworkInv, NetPhases
<1>3. /\ search.distance \in [Steps -> Int] /\ FitsAll(net, search.distance)
      /\ Bounds(net, Steps, matrix) /\ Through(Steps, matrix, ThroughRounds(rounds))
  BY <1>1 DEF TimingInv
<1>4. Through(Steps, matrix, Steps)
  <2>1. CASE Steps \subseteq Range(vertices)
    <3>1. Range(vertices) = ThroughRounds(rounds)
      BY <1>1, <1>2, Zenon DEF Range, ThroughRounds
    <3> QED BY <1>3, <2>1, <3>1 DEF Through
  <2>2. CASE Steps = {InitialEvent}
    <3>1. matrix[InitialEvent][InitialEvent] = 0
      BY <1>3, <2>2, DiagonalIsZero
    <3> QED BY <2>2, <3>1 DEF Through
  <2> QED BY <1>2, <2>1, <2>2, StepsAreVertices
<1> DEFINE at == EventTimings(matrix)
<1>5. /\ at \in [Steps -> Int] /\ FitsAll(net, at) /\ at[InitialEvent] = 0
      /\ \A s \in [Steps -> Int] : FitsAll(net, s) =>
            \A i \in Steps : at[i] <= s[i] - s[InitialEvent]
  <2>1. at = EventTimings(matrix)
    OBVIOUS
  <2> HIDE DEF at
  <2> QED BY <1>2, <1>3, <1>4, <2>1, Earliest
<1> HIDE DEF at
<1>6. FitExactly(at) /\ Anchored(at)
  BY <1>2, <1>5, EarliestIsAnchored DEF FitExactly, FitsAll
<1>7. solution'.at = at /\ Steps' = Steps
  BY <1>1 DEF Steps, at
<1>8. FitExactly(solution.at)'
  BY <1>1, <1>6, <1>7 DEF FitExactly
<1>9. Anchored(solution.at)'
  BY <1>1, <1>6, <1>7 DEF Anchored, Tight
<1>10. Times(solution.at)'
  BY <1>5, <1>7 DEF Times
<1> QED BY <1>1, <1>8, <1>9, <1>10 DEF SolutionInv

LEMMA DispatchStep ==
    ASSUME EvenTimes, ReadingInv, NetworkInv, SearchingInv, MadeInv, EvenInv,
           TimingInv, SolutionInv, [HeuristicNext]_allVars
    PROVE  TimingInv' /\ SolutionInv'
<1> USE DEF execVars, readingVars, heuristicVars, networkVars, resultVars
<1>1. ASSUME pc # "timing", pc' # "timing", solution' = solution,
             ~solution.found \/ UNCHANGED <<pc, net, plan>>
      PROVE  TimingInv' /\ SolutionInv'
  <2>1. TimingInv'
    BY <1>1 DEF TimingInv
  <2>2. CASE ~solution.found
    BY <1>1, <2>1, <2>2 DEF SolutionInv
  <2>3. CASE UNCHANGED <<pc, net, plan>>
    <3>1. Steps' = Steps
      BY <2>3 DEF Steps
    <3>2. FitExactly(solution.at) => FitExactly(solution.at)'
      BY <1>1, <2>3 DEF FitExactly
    <3>3. Anchored(solution.at) => Anchored(solution.at)'
      BY <1>1, <2>3, <3>1 DEF Anchored, Tight
    <3>4. Times(solution.at) => Times(solution.at)'
      BY <1>1, <3>1 DEF Times
    <3> QED BY <1>1, <2>1, <2>3, <3>2, <3>3, <3>4 DEF SolutionInv
  <2> QED BY <1>1, <2>2, <2>3
<1>2. pc # "done" => ~solution.found
  BY DEF SolutionInv
<1>3. CASE \/ (pc = "child" /\ \E line \in AnswerLines : ChildAdds(line))
           \/ ChildFails \/ ChildAnswers \/ ReadAnswer
  BY <1>1, <1>2, <1>3 DEF ChildAdds, ChildFails, ChildAnswers, ReadAnswer, MoveDueEnd,
                          TakeLine, MoveLeftEnd, JoinPlans, Reading
<1>4. CASE OrderPlan \/ BuildNetwork
  BY <1>1, <1>2, <1>4 DEF OrderPlan, BuildNetwork, MakeNetwork, AddDuration, AddCausalLink,
                          NetworkMade, Making, Phase, GoesOn
<1>5. CASE Abort
  <2>1. /\ pc \in {"order", "initial", "tightened", "relaxed", "timing"} /\ pc' = "aborted"
        /\ UNCHANGED <<plan, net, solution>>
    BY <1>5 DEF Abort, AssertionFails, Phase, GoesOn
  <2>2. TimingInv' /\ SolutionInv'
    BY <1>2, <2>1 DEF TimingInv, SolutionInv
  <2> QED BY <2>2
<1>6. CASE VisitNext \/ VisitEdge
  BY <1>1, <1>2, <1>6 DEF VisitNext, VisitEdge, VisitStep
<1>7. CASE TightenLiterals \/ RelaxConflict
  BY <1>1, <1>2, <1>7 DEF TightenLiterals, RelaxConflict, Phase, GoesOn
<1>8. CASE PlanFits
  <2>1. pc # "done" /\ solution' = solution
    BY <1>8 DEF PlanFits, Phase, GoesOn
  <2> QED BY <1>2, <1>8, <2>1, PlanFitsStep DEF SolutionInv
<1>9. CASE TimingRound
  <2>1. pc # "done" /\ solution' = solution
    BY <1>9 DEF TimingRound, Phase, GoesOn
  <2> QED BY <1>2, <1>9, <2>1, TimingRoundStep DEF SolutionInv
<1>10. CASE PlanTimed
  <2>1. pc' # "timing"
    BY <1>10 DEF PlanTimed, Phase, GoesOn
  <2> QED BY <1>10, <2>1, PlanTimedStep DEF TimingInv
<1>11. CASE PlanFitsButSearchOn \/ (\E mode \in 0..3 : PlanRelaxed(mode)) \/ BeginPerforming
  BY <1>1, <1>2, <1>11 DEF PlanFitsButSearchOn, PlanRelaxed, BeginPerforming, Phase, GoesOn
<1>12. CASE \E k \in DOMAIN plan : PerformStep(k)
  BY <1>1, <1>2, <1>12 DEF PerformStep
<1>13. CASE UNCHANGED allVars
  <2>1. UNCHANGED <<pc, plan, net, solution, search, vertices, matrix, rounds>>
    BY <1>13 DEF allVars
  <2>2. CASE pc # "timing"
    BY <1>1, <2>1, <2>2
  <2>3. CASE pc = "timing"
    <3>1. Steps' = Steps /\ ThroughRounds(rounds)' = ThroughRounds(rounds)
      BY <2>1 DEF Steps, ThroughRounds
    <3> QED BY <1>2, <2>1, <2>3, <3>1 DEF TimingInv, SolutionInv
  <2> QED BY <2>2, <2>3
<1> QED
  BY <1>3, <1>4, <1>5, <1>6, <1>7, <1>8, <1>9, <1>10, <1>11, <1>12, <1>13
     DEF HeuristicNext, Evaluation

LEMMA DispatchInvariant ==
    ASSUME EvenTimes PROVE HeuristicSpec => [](TimingInv /\ SolutionInv)
<1>1. HeuristicInit => TimingInv /\ SolutionInv
  BY DEF HeuristicInit, TimingInv, SolutionInv, NoSolution
<1> QED BY <1>1, DispatchStep, ReadingInvariant, NetworkInvariant, SearchingInvariant,
           MadeInvariant, EvenInvariant, PTL DEF HeuristicSpec

(* PlanExecutor gives the steps times that fit the network exactly, and no *)
(* schedule that fits it has any step earlier: what the executor computes  *)
(* with Floyd-Warshall is the least solution of the constraints that       *)
(* ColinSTNImpl::isConsistent found consistent with its tolerance.         *)
THEOREM DispatchesAreEarliest ==
    ASSUME EvenTimes
    PROVE  HeuristicSpec => []DispatchTimesAreEarliest
<1>1. SolutionInv => DispatchTimesAreEarliest
  BY DEF SolutionInv, DispatchTimesAreEarliest
<1> QED BY <1>1, DispatchInvariant, PTL

(* The executor never ends the program: its exit for a negative cycle, at  *)
(* PlanExecutor.cpp:61, is unreachable once the search that precedes it    *)
(* has found the network consistent.                                       *)
ExecutorAgrees == pc = "timing" => ~NegativeCycleInMatrix
THEOREM ExecutorNeverExits ==
    ASSUME EvenTimes
    PROVE  HeuristicSpec => []ExecutorAgrees
<1>1. TimingInv => ExecutorAgrees
  <2> SUFFICES ASSUME TimingInv, pc = "timing", NEW i \in DOMAIN matrix
               PROVE  ~(matrix[i][i] < -Accuracy)
    BY DEF ExecutorAgrees, NegativeCycleInMatrix
  <2>1. /\ search.distance \in [Steps -> Int] /\ FitsAll(net, search.distance)
        /\ Bounds(net, Steps, matrix)
    BY DEF TimingInv
  <2>2. i \in Steps
    BY <2>1 DEF Bounds
  <2>3. matrix[i][i] = 0
    BY <2>1, <2>2, DiagonalIsZero
  <2> QED BY <2>3 DEF Accuracy
<1> QED BY <1>1, DispatchInvariant, PTL

-----------------------------------------------------------------------------
(* Times that keep apart what KK orders.  A threat then comes after the    *)
(* consumer, or no later than the supporter.                               *)
Separated(p, kept, at) ==
    \A i, j \in DOMAIN p : i < j /\ OrderedPair(p, kept, i, j) => at[i] < at[j]
IsOrdered(p, kept, at) ==
    /\ p \in Seq(Events) /\ OrderingSucceeds(p)
    /\ at \in [0..Len(p) -> Int] /\ Separated(p, kept, at)

LEMMA SupportComesFirst ==
    ASSUME NEW p, NEW kept, NEW at, IsOrdered(p, kept, at),
           NEW i \in DOMAIN p, NEW l \in Conditions(p[i]), IsKept(p, kept, i, l),
           NEW s, s = MinimumSupport(p, l, i)
    PROVE  \/ s \in DOMAIN p /\ s < i /\ at[s] < at[i] /\ Supports(p[s], l)
           \/ s = InitialEvent /\ InitiallySupported(l)
<1>1. p \in Seq(Events) /\ DOMAIN p = 1..Len(p) /\ Len(p) \in Nat
  BY DEF IsOrdered
<1>2. CASE s \in 1..i - 1
  <2>1. s \in DOMAIN p /\ s < i
    BY <1>1, <1>2
  <2>2. OrderedPair(p, kept, s, i)
    BY KeptLinkOrders
  <2>3. s # InitialEvent
    BY <1>2 DEF InitialEvent
  <2> QED BY <1>1, <2>1, <2>2, <2>3, SupportOfACondition DEF IsOrdered, Separated
<1>3. CASE s \notin 1..i - 1
  BY <1>1, <1>3, SupportOfACondition DEF IsOrdered
<1> QED BY <1>2, <1>3

LEMMA ThreatsStayAway ==
    ASSUME NEW p, NEW kept, NEW at, IsOrdered(p, kept, at),
           NEW i \in DOMAIN p, NEW l \in Conditions(p[i]), IsKept(p, kept, i, l),
           NEW s, s = MinimumSupport(p, l, i), NEW j \in DOMAIN p, j # i, Threatens(p[j], l)
    PROVE  \/ i < j /\ at[i] < at[j]
           \/ s \in DOMAIN p /\ (j = s \/ at[j] < at[s])
<1>1. p \in Seq(Events) /\ DOMAIN p = 1..Len(p) /\ Len(p) \in Nat
  BY DEF IsOrdered
<1>2. CASE i < j
  <2>1. OrderedPair(p, kept, i, j)
    BY KeptLinkOrders
  <2> QED BY <1>2, <2>1 DEF IsOrdered, Separated
<1>3. CASE j < i
  <2>1. j \in 1..i - 1
    BY <1>1, <1>3
  <2>2. s \in 1..i - 1 /\ j \notin s + 1..i - 1
    BY <1>1, <2>1, SupportOfACondition DEF IsOrdered
  <2>3. s \in DOMAIN p /\ (j = s \/ j < s)
    BY <1>1, <2>1, <2>2
  <2>4. OrderedPair(p, kept, j, s)
    BY KeptLinkOrders
  <2> QED BY <2>3, <2>4 DEF IsOrdered, Separated
<1> QED BY <1>1, <1>2, <1>3

LEMMA TouchesOrThreatens ==
    ASSUME NEW e, NEW l, l.positive = TRUE
    PROVE  /\ Touches(e, l.fact) /\ ~Threatens(e, l) => Leaves(e, l)
           /\ Supports(e, l) => Touches(e, l.fact) /\ Leaves(e, l)
BY DEF Touches, Threatens, Supports, Leaves

(* A condition still holds at x when no threat has come since its step.    *)
LEMMA ConditionHoldsBefore ==
    ASSUME NEW p, NEW kept, NEW at, IsOrdered(p, kept, at),
           NEW i \in DOMAIN p, NEW l \in Conditions(p[i]), IsKept(p, kept, i, l),
           NEW x \in Int, at[i] <= x,
           \A j \in DOMAIN p : Threatens(p[j], l) /\ at[j] < x => at[j] < at[i]
    PROVE  HoldsBefore(p, at, InitFacts, l, x)
<1> DEFINE s == MinimumSupport(p, l, i)
           earlier == {j \in Touching(p, l) : at[j] < x}
<1>1. /\ p \in Seq(Events) /\ DOMAIN p = 1..Len(p) /\ Len(p) \in Nat
      /\ l.positive = TRUE /\ \A j \in DOMAIN p : at[j] \in Int
  BY ConditionsAreLiterals DEF IsOrdered
<1>2. \/ s \in DOMAIN p /\ s < i /\ at[s] < at[i] /\ Supports(p[s], l)
      \/ s = InitialEvent /\ InitiallySupported(l)
  BY SupportComesFirst
<1>3. s \in DOMAIN p => s \in earlier
  <2>1. s \in DOMAIN p => s # InitialEvent
    BY <1>1 DEF InitialEvent
  <2>2. s \in DOMAIN p => Touches(p[s], l.fact)
    BY <1>1, <1>2, <2>1, TouchesOrThreatens, Zenon
  <2>3. s \in DOMAIN p => at[s] < x
    BY <1>1, <1>2, <2>1
  <2> QED BY <2>2, <2>3 DEF Touching
<1> HIDE DEF s
<1>4. CASE earlier = {}
  <2>1. l.positive <=> l.fact \in InitFacts
    BY <1>2, <1>3, <1>4 DEF InitiallySupported
  <2> QED BY <1>4, <2>1 DEF HoldsBefore
<1>5. CASE earlier # {}
  <2>1. ASSUME NEW j \in earlier, \A k \in earlier : at[k] <= at[j]
        PROVE  Leaves(p[j], l)
    <3>1. j \in DOMAIN p /\ Touches(p[j], l.fact) /\ at[j] < x
      BY DEF Touching
    <3>2. CASE ~Threatens(p[j], l)
      BY <1>1, <3>1, <3>2, TouchesOrThreatens
    <3>3. CASE Threatens(p[j], l)
      <4>1. at[j] < at[i]
        BY <3>1, <3>3
      <4>2. j # i /\ ~(at[i] < at[j])
        BY <1>1, <3>1, <4>1
      <4>3. s \in DOMAIN p /\ (j = s \/ at[j] < at[s])
        BY <3>1, <3>3, <4>2, ThreatsStayAway DEF s
      <4>4. ~(at[j] < at[s])
        BY <1>1, <1>3, <2>1, <3>1, <4>3
      <4>5. s # InitialEvent
        BY <1>1, <4>3 DEF InitialEvent
      <4> QED BY <1>1, <1>2, <3>1, <4>3, <4>4, <4>5, TouchesOrThreatens
    <3> QED BY <3>2, <3>3
  <2> QED BY <1>5, <2>1 DEF HoldsBefore
<1> QED BY <1>4, <1>5

(* What a plan needs besides: no supporter of a condition comes at the     *)
(* very time of its consumer without being ordered before it, and between  *)
(* the ends of an action the list has no threat to its over-all conditions.*)
DurationsArePositive == \A a \in Durative : MinDuration[a] > 0
SupportsApart(p, at) ==
    \A i \in DOMAIN p : \A l \in OwnConditions(p[i]) :
        \A j \in Touching(p, l) \ {i} : ~Threatens(p[j], l) => at[j] # at[i]
UndisturbedPairs(p) ==
    \A o \in Pairs(p) : \A l \in Invariants(p[o[1]].ref) :
        \A k \in o[1]..o[2] - 1 : ~Threatens(p[k], l)
ConditionsFound(p, kept, at) ==
    \A i \in DOMAIN p : \A l \in Conditions(p[i]) :
        Link(MinimumSupport(p, l, i), l, i) \in kept =>
            /\ HoldsBefore(p, at, InitFacts, l, at[i])
            /\ \A j \in DOMAIN p \ {i} : Threatens(p[j], l) => at[j] # at[i]

(* Where nothing must be false, KK sees every condition.                   *)
LEMMA AllConditionsAreSeen ==
    ASSUME NEW p, NothingMustBeFalse(p), NEW i \in DOMAIN p, p[i] \in Events
    PROVE  /\ OwnConditions(p[i]) \subseteq Conditions(p[i])
           /\ p[i].timeSpec # "AT" => OverAllConditions(p[i].ref) \subseteq Invariants(p[i].ref)
<1>1. ASSUME NEW l \in OwnConditions(p[i]) PROVE l \in Conditions(p[i])
  <2>1. p[i].timeSpec # "AT" /\ l.positive
    BY <1>1 DEF OwnConditions, NothingMustBeFalse
  <2> QED BY <1>1, <2>1 DEF OwnConditions, Conditions, LiteralsOf
<1>2. ASSUME p[i].timeSpec # "AT", NEW l \in OverAllConditions(p[i].ref)
      PROVE  l \in Invariants(p[i].ref)
  <2>1. l.positive
    BY <1>2 DEF NothingMustBeFalse
  <2> QED BY <1>2, <2>1 DEF OverAllConditions, Invariants, LiteralsOf
<1> QED BY <1>1, <1>2

LEMMA PairsAreMatched ==
    ASSUME NEW p \in Seq(Events), PairsMatch(p), NEW o \in Pairs(p)
    PROVE  /\ o[1] \in Paired(p) /\ o[2] \in Paired(p) /\ o[1] \in DOMAIN p /\ o[2] \in DOMAIN p
           /\ o[1] < o[2] /\ p[o[1]].pairWithStep + 1 = o[2] /\ p[o[2]].pairWithStep + 1 = o[1]
           /\ p[o[1]].timeSpec = "AT_START" /\ p[o[2]].timeSpec = "AT_END"
           /\ p[o[2]].ref = p[o[1]].ref /\ p[o[1]].ref \in Durative
<1> DEFINE s == o[1]
           e == o[2]
<1>1. /\ s \in DOMAIN p /\ e \in DOMAIN p /\ p[s].timeSpec = "AT_START"
      /\ p[s].pairWithStep + 1 = e /\ DOMAIN p = 1..Len(p) /\ Len(p) \in Nat
  BY DEF Pairs
<1>2. p[s].pairWithStep \in Int /\ p[e].pairWithStep \in Int
  BY <1>1 DEF Events
<1> HIDE DEF s, e
<1>3. s \in Paired(p)
  BY <1>1, <1>2 DEF Paired
<1>4. /\ e # s /\ p[s].ref \in Durative /\ p[e].pairWithStep + 1 = s /\ p[e].ref = p[s].ref
      /\ IF s < e THEN p[s].timeSpec = "AT_START" /\ p[e].timeSpec = "AT_END"
         ELSE p[e].timeSpec = "AT_START" /\ p[s].timeSpec = "AT_END"
  BY <1>1, <1>3 DEF PairsMatch
<1>5. e \in Paired(p)
  BY <1>1, <1>2, <1>4 DEF Paired
<1> QED BY <1>1, <1>3, <1>4, <1>5 DEF s, e

LEMMA ConditionsAreFound ==
    ASSUME NEW p, NEW kept, NEW at, IsOrdered(p, kept, at)
    PROVE  ConditionsFound(p, kept, at)
<1>1. /\ p \in Seq(Events) /\ DOMAIN p = 1..Len(p) /\ Len(p) \in Nat
      /\ \A j \in DOMAIN p : at[j] \in Int
  BY DEF IsOrdered
<1>2. ASSUME NEW i \in DOMAIN p, NEW l \in Conditions(p[i]), IsKept(p, kept, i, l)
      PROVE  /\ HoldsBefore(p, at, InitFacts, l, at[i])
             /\ \A j \in DOMAIN p \ {i} : Threatens(p[j], l) => at[j] # at[i]
  <2>1. HoldsBefore(p, at, InitFacts, l, at[i])
    BY <1>1, <1>2, ConditionHoldsBefore
  <2>2. ASSUME NEW j \in DOMAIN p \ {i}, Threatens(p[j], l) PROVE at[j] # at[i]
    <3> DEFINE s == MinimumSupport(p, l, i)
    <3>1. \/ i < j /\ at[i] < at[j]
          \/ s \in DOMAIN p /\ (j = s \/ at[j] < at[s])
      BY <1>2, <2>2, ThreatsStayAway
    <3>2. s \in DOMAIN p => at[s] < at[i]
      <4>1. s \in DOMAIN p => s # InitialEvent
        BY <1>1 DEF InitialEvent
      <4> QED BY <1>2, <4>1, SupportComesFirst
    <3> HIDE DEF s
    <3> QED BY <1>1, <3>1, <3>2
  <2> QED BY <2>1, <2>2
<1> QED BY <1>2 DEF ConditionsFound, IsKept

LEMMA AllConditionsAreMet ==
    ASSUME NEW p, NEW at, IsOrdered(p, Links(p), at), NothingMustBeFalse(p),
           SupportsApart(p, at)
    PROVE  ConditionsMet(p, at, InitFacts)
<1>1. SUFFICES ASSUME NEW i \in DOMAIN p, NEW l \in OwnConditions(p[i])
               PROVE  /\ HoldsBefore(p, at, InitFacts, l, at[i])
                      /\ \A j \in Touching(p, l) \ {i} : at[j] # at[i]
  BY DEF ConditionsMet
<1>2. l \in Conditions(p[i])
  BY AllConditionsAreSeen DEF IsOrdered
<1>3. /\ HoldsBefore(p, at, InitFacts, l, at[i])
      /\ \A j \in DOMAIN p \ {i} : Threatens(p[j], l) => at[j] # at[i]
  BY <1>2, LinkOfACondition, ConditionsAreFound DEF ConditionsFound
<1>4. ASSUME NEW j \in Touching(p, l) \ {i} PROVE at[j] # at[i]
  <2>1. j \in DOMAIN p \ {i}
    BY DEF Touching
  <2> QED BY <1>3, <2>1 DEF SupportsApart
<1> QED BY <1>3, <1>4

LEMMA OverAllConditionsAreKept ==
    ASSUME DurationsArePositive, NEW p, NEW at, IsOrdered(p, Links(p), at),
           NothingMustBeFalse(p), PairsMatch(p), DurationsKept(p, at), UndisturbedPairs(p)
    PROVE  InvariantsKept(p, at, InitFacts)
<1>1. /\ p \in Seq(Events) /\ DOMAIN p = 1..Len(p) /\ Len(p) \in Nat
      /\ \A j \in DOMAIN p : at[j] \in Int /\ p[j] \in Events
  BY DEF IsOrdered
<1>2. SUFFICES ASSUME NEW o \in Pairs(p), NEW l \in OverAllConditions(p[o[1]].ref)
      PROVE  /\ HoldsBefore(p, at, InitFacts, l, at[o[1]] + 1)
             /\ \A j \in Touching(p, l) :
                   at[o[1]] < at[j] /\ at[j] < at[o[2]] => Leaves(p[j], l)
  BY DEF InvariantsKept
<1> DEFINE s == o[1]
           e == o[2]
           q == MinimumSupport(p, l, s)
<1>3. /\ s \in DOMAIN p /\ e \in DOMAIN p /\ s < e /\ p[s].ref \in Durative
      /\ p[s].timeSpec = "AT_START" /\ p[e].timeSpec = "AT_END" /\ p[e].ref = p[s].ref
  BY <1>1, PairsAreMatched
<1>4. l \in Invariants(p[s].ref)
  BY <1>1, <1>2, <1>3, AllConditionsAreSeen
<1>5. /\ s \in DOMAIN p /\ e \in DOMAIN p /\ s < e /\ p[s].ref \in Durative
      /\ l \in Conditions(p[s]) /\ l \in Conditions(p[e])
      /\ IsKept(p, Links(p), s, l) /\ IsKept(p, Links(p), e, l) /\ l.positive = TRUE
  <2>1. l \in Conditions(p[s]) /\ l \in Conditions(p[e])
    BY <1>3, <1>4 DEF Conditions
  <2> QED BY <1>3, <2>1, LinkOfACondition, ConditionsAreLiterals DEF IsKept
<1>6. at[s] < at[e]
  <2>1. at[e] - at[s] \in MinDuration[p[s].ref]..MaxDuration[p[s].ref]
    BY DEF DurationsKept
  <2>2. /\ MinDuration[p[s].ref] > 0 /\ MinDuration[p[s].ref] \in Int
        /\ MaxDuration[p[s].ref] \in Int
    BY <1>5, DurationAssumption DEF DurationsArePositive
  <2> QED BY <1>1, <1>5, <2>1, <2>2
<1>7. \A k \in s..e - 1 : ~Threatens(p[k], l)
  BY <1>4 DEF UndisturbedPairs
<1> HIDE DEF s, e, q
<1>8. ASSUME NEW j \in DOMAIN p, Threatens(p[j], l), ~(at[j] < at[s])
      PROVE  s < j /\ at[s] < at[j]
  <2>1. j # s
    BY <1>1, <1>5, <1>7, <1>8
  <2>2. \/ s < j /\ at[s] < at[j]
        \/ q \in DOMAIN p /\ (j = q \/ at[j] < at[q])
    BY <1>5, <1>8, <2>1, ThreatsStayAway DEF q
  <2>3. q \in DOMAIN p => at[q] < at[s]
    <3>1. q \in DOMAIN p => q # InitialEvent
      BY <1>1 DEF InitialEvent
    <3> QED BY <1>5, <3>1, SupportComesFirst DEF q
  <2> QED BY <1>1, <1>5, <1>8, <2>2, <2>3
<1>9. HoldsBefore(p, at, InitFacts, l, at[s] + 1)
  <2>1. ASSUME NEW j \in DOMAIN p, Threatens(p[j], l), at[j] < at[s] + 1
        PROVE  at[j] < at[s]
    BY <1>1, <1>5, <1>8, <2>1
  <2>2. at[s] + 1 \in Int /\ at[s] <= at[s] + 1
    BY <1>1, <1>5
  <2> QED BY <1>5, <2>1, <2>2, ConditionHoldsBefore
<1>10. ASSUME NEW j \in Touching(p, l), at[s] < at[j], at[j] < at[e]
      PROVE  Leaves(p[j], l)
  <2>1. j \in DOMAIN p /\ Touches(p[j], l.fact)
    BY DEF Touching
  <2>2. ASSUME Threatens(p[j], l) PROVE FALSE
    <3>1. s < j
      BY <1>1, <1>5, <1>8, <1>10, <2>1, <2>2
    <3>2. ~(j < e)
      BY <1>1, <1>5, <1>7, <2>1, <2>2, <3>1
    <3>3. j # e
      BY <1>1, <1>5, <1>10
    <3>4. e < j
      BY <1>1, <1>5, <2>1, <3>2, <3>3
    <3>5. OrderedPair(p, Links(p), e, j)
      BY <1>5, <2>2, KeptLinkOrders
    <3>6. at[e] < at[j]
      BY <1>5, <2>1, <3>4, <3>5 DEF IsOrdered, Separated
    <3> QED BY <1>1, <1>5, <1>10, <2>1, <3>6
  <2> QED BY <1>5, <2>1, <2>2, TouchesOrThreatens
<1> QED BY <1>9, <1>10 DEF s, e

(* What times that fit the network mean for its plan.                      *)
FinishedNetwork ==
    /\ ReadyToSearch /\ MadeInv /\ pc = "timing" /\ OrderingSucceeds(plan)

LEMMA FittingTimesSeparate ==
    ASSUME DurationsArePositive, FinishedNetwork, NEW at, Times(at), FitsAll(net, at)
    PROVE  IsOrdered(plan, links, at)
<1>1. /\ plan \in Seq(Events) /\ PairsMatch(plan) /\ OrderingSucceeds(plan)
      /\ DOMAIN plan = 1..Len(plan) /\ Len(plan) \in Nat
      /\ orderings = OrderingConstraints(plan, links) /\ toAdd.causal = {}
      /\ \A o \in orderings \ toAdd.causal : LinkedBothWays(net, o)
      /\ \A k \in DOMAIN net : AsMade(plan, net[k])
  BY DEF FinishedNetwork, ReadyToSearch, ReadingInv, NetworkInv, NetPhases, MadeInv, ExactPhases
<1>2. at \in [0..Len(plan) -> Int]
  BY DEF Times, Steps
<1>3. ASSUME NEW i \in DOMAIN plan, NEW j \in DOMAIN plan, i < j, OrderedPair(plan, links, i, j)
      PROVE  at[i] < at[j]
  <2>1. <<i, j>> \in orderings
    BY <1>1, <1>3, OrderedSteps
  <2>2. PICK k \in DOMAIN net : net[k].from = j /\ net[k].to = i
    BY <1>1, <2>1 DEF LinkedBothWays, HasEdge, Connects
  <2>3. at[i] - at[j] <= net[k].weight /\ AsMade(plan, net[k]) /\ at[i] \in Int /\ at[j] \in Int
    BY <1>1, <1>2, <2>2 DEF FitsAll
  <2>4. CASE OfOneAction(plan, net[k])
    <3>1. j \in Paired(plan) /\ plan[j].pairWithStep + 1 = i
      BY <2>2, <2>4 DEF OfOneAction
    <3>2. plan[i].pairWithStep + 1 = j /\ plan[j].ref \in Durative
      BY <1>1, <3>1 DEF PairsMatch
    <3>3. plan[j].pairWithStep \in Int /\ plan[i].pairWithStep \in Int
      BY <1>1 DEF Events
    <3>4. plan[j].pairWithStep < plan[i].pairWithStep
      BY <1>1, <1>3, <3>1, <3>2, <3>3
    <3>5. net[k].weight = -MinDuration[plan[j].ref]
      BY <2>2, <2>3, <2>4, <3>1, <3>4 DEF AsMade, DurationEdge, Edge
    <3>6. MinDuration[plan[j].ref] \in Int /\ MinDuration[plan[j].ref] > 0
      BY <3>2, DurationAssumption DEF DurationsArePositive
    <3> QED BY <2>3, <3>5, <3>6
  <2>5. CASE ~OfOneAction(plan, net[k])
    <3>1. InitialEvent < i
      BY <1>1 DEF InitialEvent
    <3>2. net[k].weight = -Epsilon
      BY <1>3, <2>2, <2>3, <2>5, <3>1 DEF AsMade
    <3> QED BY <2>3, <3>2 DEF Epsilon
  <2> QED BY <2>4, <2>5
<1> QED BY <1>1, <1>2, <1>3 DEF IsOrdered, Separated

LEMMA FittingTimesKeepDurations ==
    ASSUME FinishedNetwork, NEW at, Times(at), FitsAll(net, at)
    PROVE  DurationsKept(plan, at)
<1>1. /\ plan \in Seq(Events) /\ PairsMatch(plan)
      /\ DOMAIN plan = 1..Len(plan) /\ Len(plan) \in Nat
      /\ \A k \in DOMAIN net : AsMade(plan, net[k])
      /\ \A i \in Paired(plan) : HasEdge(net, i, plan[i].pairWithStep + 1)
  BY DEF FinishedNetwork, ReadyToSearch, ReadingInv, MadeInv, ExactPhases
<1>2. at \in [0..Len(plan) -> Int]
  BY DEF Times, Steps
<1>3. ASSUME NEW i \in Paired(plan), NEW j, j = plan[i].pairWithStep + 1
      PROVE  at[j] - at[i] <= DurationEdge(plan, i).weight
  <2>1. PICK k \in DOMAIN net : net[k].from = i /\ net[k].to = j
    BY <1>1, <1>3 DEF HasEdge, Connects
  <2>2. net[k].weight = DurationEdge(plan, i).weight
    BY <1>1, <1>3, <2>1 DEF AsMade, OfOneAction
  <2> QED BY <2>1, <2>2 DEF FitsAll
<1>4. ASSUME NEW o \in Pairs(plan)
      PROVE  at[o[2]] - at[o[1]] \in MinDuration[plan[o[1]].ref]..MaxDuration[plan[o[1]].ref]
  <2> DEFINE s == o[1]
             e == o[2]
             a == plan[s].ref
  <2>1. /\ s \in Paired(plan) /\ e \in Paired(plan) /\ s \in DOMAIN plan /\ e \in DOMAIN plan
        /\ s < e /\ plan[s].pairWithStep + 1 = e /\ plan[e].pairWithStep + 1 = s
        /\ plan[e].ref = a /\ a \in Durative
    BY <1>1, PairsAreMatched
  <2>2. /\ MinDuration[a] \in Int /\ MaxDuration[a] \in Int
        /\ at[s] \in Int /\ at[e] \in Int
    BY <1>1, <1>2, <2>1, DurationAssumption
  <2> HIDE DEF s, e, a
  <2>3. plan[s].pairWithStep \in Int /\ plan[e].pairWithStep \in Int
    BY <1>1, <2>1 DEF Events
  <2>4. plan[e].pairWithStep < plan[s].pairWithStep
    BY <1>1, <2>1, <2>3
  <2>5. /\ DurationEdge(plan, s).weight = MaxDuration[a]
        /\ DurationEdge(plan, e).weight = -MinDuration[a]
    BY <2>1, <2>3, <2>4 DEF DurationEdge, Edge, a
  <2>6. at[e] - at[s] <= MaxDuration[a] /\ at[s] - at[e] <= -MinDuration[a]
    BY <1>3, <2>1, <2>5
  <2>7. at[e] - at[s] \in MinDuration[a]..MaxDuration[a]
    BY <2>2, <2>6
  <2> QED BY <2>7 DEF s, e, a
<1> QED BY <1>4 DEF DurationsKept

LEMMA FittingTimesKeepLiterals ==
    ASSUME FinishedNetwork, NEW at, Times(at), FitsAll(net, at)
    PROVE  LiteralsOnTime(plan, at)
<1>1. /\ plan \in Seq(Events) /\ SoundNet(net, Steps)
      /\ DOMAIN plan = 1..Len(plan) /\ Len(plan) \in Nat
      /\ \A k \in DOMAIN net : OnTime(plan, net[k])
  BY NetworkIsSound DEF FinishedNetwork, ReadyToSearch, ReadingInv, MadeInv, ExactPhases
<1>2. ASSUME NEW i \in DOMAIN plan, plan[i].timeSpec = "AT"
      PROVE  at[i] = TILs[plan[i].ref].at
  <2>1. i \in Steps \ {InitialEvent} /\ IsLiteral(plan, i)
    BY <1>1, <1>2 DEF Steps, InitialEvent, IsLiteral
  <2>2. PICK k \in DOMAIN net : net[k].from = InitialEvent /\ net[k].to = i
    BY <1>1, <2>1 DEF SoundNet, LinkedBothWays, HasEdge, Connects
  <2>3. PICK l \in DOMAIN net : net[l].from = i /\ net[l].to = InitialEvent
    BY <1>1, <2>1 DEF SoundNet, LinkedBothWays, HasEdge, Connects
  <2>4. /\ net[k].weight = TILs[plan[i].ref].at
        /\ net[l].weight = -TILs[plan[i].ref].at
    BY <1>1, <2>1, <2>2, <2>3 DEF OnTime
  <2>5. /\ at[i] - at[InitialEvent] <= net[k].weight
        /\ at[InitialEvent] - at[i] <= net[l].weight
        /\ at[i] \in Int /\ at[InitialEvent] = 0
    BY <2>1, <2>2, <2>3 DEF FitsAll, Times
  <2>6. TILs[plan[i].ref].at \in Int
    <3>1. plan[i].ref \in DOMAIN TILs
      BY <1>1, <1>2 DEF Events
    <3> QED BY <3>1, LiteralTimes
  <2> QED BY <2>4, <2>5, <2>6
<1> QED BY <1>2 DEF LiteralsOnTime

-----------------------------------------------------------------------------
(* A plan that has been ordered stays one that can be.                     *)
OrderedInv == pc \in NetPhases \cup {"ordered"} => OrderingSucceeds(plan)

LEMMA OrderedInvStep ==
    ASSUME OrderedInv, [HeuristicNext]_allVars
    PROVE  OrderedInv'
<1> USE DEF execVars, readingVars, heuristicVars
<1>1. ASSUME pc' \notin NetPhases \cup {"ordered"} PROVE OrderedInv'
  BY <1>1 DEF OrderedInv
<1>2. ASSUME plan' = plan, pc \in NetPhases \cup {"ordered"} \/ pc' = pc PROVE OrderedInv'
  BY <1>2 DEF OrderedInv
<1>3. CASE \/ (pc = "child" /\ \E line \in AnswerLines : ChildAdds(line))
           \/ ChildFails \/ ChildAnswers \/ ReadAnswer
  BY <1>1, <1>3 DEF ChildAdds, ChildFails, ChildAnswers, ReadAnswer, MoveDueEnd, TakeLine,
                    MoveLeftEnd, JoinPlans, Reading, NetPhases
<1>4. CASE OrderPlan
  BY <1>4 DEF OrderPlan, GoesOn, OrderedInv
<1>5. CASE BuildNetwork
  BY <1>2, <1>5 DEF BuildNetwork, MakeNetwork, NetworkMade, AddDuration, AddCausalLink,
                    Making, Phase, GoesOn, NetPhases
<1>6. CASE Abort
  BY <1>1, <1>6 DEF Abort, Phase, GoesOn, NetPhases
<1>7. CASE VisitNext \/ VisitEdge
  BY <1>2, <1>7 DEF VisitNext, VisitEdge, VisitStep
<1>8. CASE TightenLiterals \/ RelaxConflict \/ PlanFits \/ TimingRound
  BY <1>2, <1>8 DEF TightenLiterals, RelaxConflict, PlanFits, TimingRound, Phase, GoesOn,
                    NetPhases
<1>9. CASE PlanTimed \/ PlanFitsButSearchOn \/ (\E mode \in 0..3 : PlanRelaxed(mode))
  BY <1>1, <1>9 DEF PlanTimed, PlanFitsButSearchOn, PlanRelaxed, Phase, GoesOn, NetPhases
<1>10. CASE BeginPerforming \/ (\E k \in DOMAIN plan : PerformStep(k))
  BY <1>1, <1>10 DEF BeginPerforming, PerformStep, Phase, GoesOn, NetPhases
<1>11. CASE UNCHANGED allVars
  BY <1>2, <1>11 DEF allVars
<1> QED
  BY <1>3, <1>4, <1>5, <1>6, <1>7, <1>8, <1>9, <1>10, <1>11 DEF HeuristicNext, Evaluation

LEMMA OrderedInvariant == HeuristicSpec => []OrderedInv
<1>1. HeuristicInit => OrderedInv
  BY DEF HeuristicInit, OrderedInv, NetPhases
<1> QED BY <1>1, OrderedInvStep, PTL DEF HeuristicSpec

(* A solution, with its plan and its times, as it was kept.                *)
SolutionKeepsItsTimes ==
    solution.found => /\ DurationsKept(solution.plan, solution.at)
                      /\ LiteralsOnTime(solution.plan, solution.at)
SolutionIsOrdered ==
    solution.found => /\ IsOrdered(solution.plan, solution.links, solution.at)
                      /\ PairsMatch(solution.plan)
KeptInv == SolutionKeepsItsTimes /\ (DurationsArePositive => SolutionIsOrdered)

LEMMA SolutionStep ==
    ASSUME ReadingInv, NetworkInv, MadeInv, OrderedInv, KeptInv, SolutionInv',
           [HeuristicNext]_allVars
    PROVE  KeptInv'
<1>1. CASE solution' = solution
  BY <1>1 DEF KeptInv, SolutionKeepsItsTimes, SolutionIsOrdered
<1>2. CASE PlanTimed
  <2> DEFINE at == solution'.at
  <2>1. /\ pc = "timing" /\ plan' = plan /\ net' = net
        /\ solution'.plan = plan /\ solution'.links = links /\ solution'.found
    BY <1>2 DEF PlanTimed, Phase, GoesOn, networkVars
  <2>2. FinishedNetwork
    BY <2>1 DEF FinishedNetwork, ReadyToSearch, NetPhases, OrderedInv
  <2>3. Times(at) /\ FitsAll(net, at)
    <3>1. Times(solution.at)' /\ FitExactly(solution.at)'
      BY <2>1 DEF SolutionInv
    <3>2. Steps' = Steps
      BY <2>1 DEF Steps
    <3> QED BY <2>1, <3>1, <3>2 DEF Times, FitExactly, FitsAll
  <2> HIDE DEF at
  <2>4. DurationsKept(plan, at) /\ LiteralsOnTime(plan, at)
    BY <2>2, <2>3, FittingTimesKeepDurations, FittingTimesKeepLiterals
  <2>5. DurationsArePositive => IsOrdered(plan, links, at)
    BY <2>2, <2>3, FittingTimesSeparate
  <2>6. PairsMatch(plan)
    BY DEF ReadingInv
  <2>7. SolutionKeepsItsTimes'
    BY <2>1, <2>4 DEF SolutionKeepsItsTimes, at
  <2>8. DurationsArePositive => SolutionIsOrdered'
    BY <2>1, <2>5, <2>6 DEF SolutionIsOrdered, at
  <2> QED BY <2>7, <2>8 DEF KeptInv
<1>3. CASE \/ (pc = "child" /\ \E line \in AnswerLines : ChildAdds(line))
           \/ ChildFails \/ ChildAnswers \/ ReadAnswer \/ BeginPerforming
           \/ (\E k \in DOMAIN plan : PerformStep(k))
  BY <1>1, <1>3 DEF ChildAdds, ChildFails, ChildAnswers, ReadAnswer, MoveDueEnd, TakeLine,
                    MoveLeftEnd, JoinPlans, Reading, BeginPerforming, PerformStep, resultVars
<1>4. CASE OrderPlan \/ BuildNetwork \/ Abort \/ VisitNext \/ VisitEdge
  BY <1>1, <1>4 DEF OrderPlan, BuildNetwork, MakeNetwork, NetworkMade, AddDuration,
                    AddCausalLink, Making, Abort, VisitNext, VisitEdge, VisitStep, resultVars
<1>5. CASE TightenLiterals \/ RelaxConflict \/ PlanFits \/ TimingRound
           \/ PlanFitsButSearchOn \/ (\E mode \in 0..3 : PlanRelaxed(mode))
  BY <1>1, <1>5 DEF TightenLiterals, RelaxConflict, PlanFits, TimingRound,
                    PlanFitsButSearchOn, PlanRelaxed, resultVars
<1>6. CASE UNCHANGED allVars
  BY <1>1, <1>6 DEF allVars, resultVars
<1> QED BY <1>2, <1>3, <1>4, <1>5, <1>6 DEF HeuristicNext, Evaluation

LEMMA SolutionInvariant == ASSUME EvenTimes PROVE HeuristicSpec => []KeptInv
<1>1. HeuristicInit => KeptInv
  BY DEF HeuristicInit, KeptInv, SolutionKeepsItsTimes, SolutionIsOrdered, NoSolution
<1> QED BY <1>1, SolutionStep, ReadingInvariant, NetworkInvariant, MadeInvariant,
           OrderedInvariant, DispatchInvariant, PTL DEF HeuristicSpec

(* A plan that the heuristic keeps as the solution gives each action a     *)
(* duration between its bounds, header and answer alike, and each timed    *)
(* literal its own time.                                                   *)
THEOREM SolutionsKeepTheirTimes ==
    ASSUME EvenTimes
    PROVE  HeuristicSpec => []SolutionKeepsItsTimes
<1>1. KeptInv => SolutionKeepsItsTimes
  BY DEF KeptInv
<1> QED BY <1>1, SolutionInvariant, PTL

(* Each of its steps finds the conditions whose links are kept at its      *)
(* time: what the network asks of the times is enough for the causal links *)
(* of KK, no threat comes between a supporter and its consumer or at the   *)
(* time of the consumer.                                                   *)
SolutionFindsItsConditions ==
    solution.found => ConditionsFound(solution.plan, solution.links, solution.at)
THEOREM SolutionsFindTheirConditions ==
    ASSUME EvenTimes, DurationsArePositive
    PROVE  HeuristicSpec => []SolutionFindsItsConditions
<1>1. KeptInv => SolutionFindsItsConditions
  BY ConditionsAreFound DEF KeptInv, SolutionIsOrdered, SolutionFindsItsConditions
<1> QED BY <1>1, SolutionInvariant, PTL

(* And it is executable, if it asks no fact to be false and all its links  *)
(* are kept, where the list has no threat to an action's over-all          *)
(* conditions between its ends and no second supporter coincides with a    *)
(* consumer: KK orders neither of the two.                                 *)
NothingLeftToChance ==
    UndisturbedPairs(solution.plan) /\ SupportsApart(solution.plan, solution.at)
THEOREM SolutionsExecute ==
    ASSUME EvenTimes, DurationsArePositive
    PROVE  HeuristicSpec => [](NothingLeftToChance => SolutionIsExecutable)
<1>1. KeptInv => (NothingLeftToChance => SolutionIsExecutable)
  <2> SUFFICES ASSUME KeptInv, NothingLeftToChance, solution.found
               PROVE  SolutionIsExecutable
    BY DEF SolutionIsExecutable
  <2>1. /\ IsOrdered(solution.plan, solution.links, solution.at)
        /\ PairsMatch(solution.plan)
    BY DEF KeptInv, SolutionIsOrdered
  <2>2. /\ DurationsKept(solution.plan, solution.at)
        /\ LiteralsOnTime(solution.plan, solution.at)
    BY DEF KeptInv, SolutionKeepsItsTimes
  <2>3. ASSUME NothingMustBeFalse(solution.plan), solution.links = Links(solution.plan)
        PROVE  Executable(solution.plan, solution.at, InitFacts)
    <3>1. ConditionsMet(solution.plan, solution.at, InitFacts)
      BY <2>1, <2>3, AllConditionsAreMet DEF NothingLeftToChance
    <3>2. InvariantsKept(solution.plan, solution.at, InitFacts)
      BY <2>1, <2>2, <2>3, OverAllConditionsAreKept DEF NothingLeftToChance
    <3> QED BY <2>2, <3>1, <3>2 DEF Executable
  <2> QED BY <2>2, <2>3 DEF SolutionIsExecutable
<1> QED BY <1>1, SolutionInvariant, PTL
=============================================================================
