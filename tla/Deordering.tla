----------------------------- MODULE Deordering -----------------------------
(***************************************************************************)
(* KK: the ordering constraints of a plan, by the algorithm of Kambhampati *)
(* and Kedar.  Each condition of a step is linked to the step that         *)
(* achieves it first; orderings follow the links and keep away the steps   *)
(* that would break one.  A plan is a list of snap-actions, here numbered  *)
(* from 1; step 0 is the dummy initial event, which adds the facts of the  *)
(* problem's initial state.  Numeric and negative conditions give no       *)
(* literals: KK does not see them.                                         *)
(***************************************************************************)
EXTENDS TemporalDomain

CONSTANTS
    Predicate,     \* the name of a fact, by its rank among the names
    Arguments      \* and its arguments, each by its rank

ASSUME FactAssumption ==
    Predicate \in [Facts -> Nat] /\ Arguments \in [Facts -> Seq(Nat)]

InitialEvent == 0
NoSupport == -1
Literals == [fact : Facts, positive : BOOLEAN]
LiteralsOf(pos, neg) ==
    {l \in Literals : l.fact \in IF l.positive THEN pos ELSE neg}

(* getActionConditions: every snap-action of an action has its over-all    *)
(* conditions too, the start as well as the end.  getConditionLiterals has *)
(* no case for a neg_goal, so what must be false is not among them.        *)
ConditionsWithoutInvariants(e) ==   \* broken: over-all conditions forgotten
    IF e.timeSpec = "AT_START" THEN LiteralsOf(Range(Op[e.ref].startPre), {})
    ELSE IF e.timeSpec = "AT_END" THEN LiteralsOf(Range(Op[e.ref].endPre), {})
    ELSE {}
Invariants(a) == LiteralsOf(Range(Op[a].inv), {})
Conditions(e) ==
    IF e.timeSpec = "AT_START"
    THEN LiteralsOf(Range(Op[e.ref].startPre), {}) \cup Invariants(e.ref)
    ELSE IF e.timeSpec = "AT_END"
    THEN LiteralsOf(Range(Op[e.ref].endPre), {}) \cup Invariants(e.ref)
    ELSE {}

(* getActionEffects                                                        *)
Effects(e, positive) ==
    IF e.timeSpec = "AT"
    THEN IF positive THEN TILs[e.ref].adds ELSE TILs[e.ref].dels
    ELSE IF e.timeSpec = "AT_START"
    THEN IF positive THEN Op[e.ref].startAdd ELSE Op[e.ref].startDel
    ELSE IF positive THEN Op[e.ref].endAdd ELSE Op[e.ref].endDel

Supports(e, l)  == l.fact \in Effects(e, l.positive)
Threatens(e, l) == l.fact \in Effects(e, ~l.positive)
InitiallySupported(l) == l.positive /\ l.fact \in InitFacts

-----------------------------------------------------------------------------
(* findMinimumSupportingAction walks back from the step to the first that  *)
(* threatens the condition, and returns the earliest supporter it met.     *)
Unthreatened(p, l, i) ==
    {j \in 1..i - 1 : \A k \in j + 1..i - 1 : ~Threatens(p[k], l)}
Supporters(p, l, i) == {j \in Unthreatened(p, l, i) : Supports(p[j], l)}
SupportBeforeNeighbour(p, l, i) ==   \* broken: the step before is passed over
    IF Supporters(p, l, i - 1) # {}
    THEN CHOOSE j \in Supporters(p, l, i - 1) : \A k \in Supporters(p, l, i - 1) : j <= k
    ELSE IF InitiallySupported(l) THEN InitialEvent ELSE NoSupport
MinimumSupport(p, l, i) ==
    IF Supporters(p, l, i) # {}
    THEN CHOOSE j \in Supporters(p, l, i) : \A k \in Supporters(p, l, i) : j <= k
    ELSE IF (\A k \in 1..i - 1 : ~Threatens(p[k], l)) /\ InitiallySupported(l)
    THEN InitialEvent
    ELSE NoSupport

(* getActionValidationStructure; a step without conditions gets an empty   *)
(* link, which nothing threatens.                                          *)
OrderingSucceeds(p) ==
    \A i \in DOMAIN p : \A l \in Conditions(p[i]) : MinimumSupport(p, l, i) # NoSupport

Link(supporter, l, consumer) ==
    [supporter |-> supporter, literal |-> l, consumer |-> consumer]
Links(p) ==
    UNION {{Link(MinimumSupport(p, l, i), l, i) : l \in Conditions(p[i])} : i \in DOMAIN p}

(* Proposition::operator<.  It is no strict weak order: of two facts with  *)
(* one name neither is before the other unless all arguments are, and a    *)
(* name that comes later does not keep a fact from being before.           *)
FactBefore(f, g) ==
    LET few == Len(Arguments[f])  many == Len(Arguments[g])
    IN \/ Predicate[f] < Predicate[g]
       \/ Predicate[f] = Predicate[g] /\ few < many
       \/ few = many /\ \A i \in 1..few : Arguments[f][i] < Arguments[g][i]

(* Links that the set cannot tell apart.  What it does with two of them    *)
(* depends on where its search comes by: it drops a link only because one  *)
(* that it takes for the same is there.                                    *)
TakenForSame(x, y) ==
    /\ x.supporter = y.supporter /\ x.consumer = y.consumer
    /\ ~FactBefore(x.literal.fact, y.literal.fact)
    /\ ~FactBefore(y.literal.fact, x.literal.fact)
Confusable(p) == {x \in Links(p) : \E y \in Links(p) \ {x} : TakenForSame(x, y)}
ValidationStructures(p) ==
    {Links(p) \ dropped : dropped \in
        {D \in SUBSET Confusable(p) :
            \A x \in D : \E y \in Links(p) \ D : TakenForSame(x, y)}}

(* getOrderingConstratints, from the links that are kept                   *)
SupportExists(links, i, j) ==
    \E x \in links : x.supporter = i /\ x.consumer = j
ThreatensConsumer(p, links, t, c) ==
    \E x \in links : x.consumer = c /\ Threatens(p[t], x.literal)
ThreatensProducer(p, links, t, s) ==
    \E x \in links : x.supporter = s /\ Threatens(p[t], x.literal)
ConsumersUnprotected(p, links, i, j) ==   \* broken: a threat may come before its consumer
    SupportExists(links, i, j) \/ ThreatensProducer(p, links, i, j)
OrderedPair(p, links, i, j) ==
    \/ SupportExists(links, i, j)
    \/ ThreatensConsumer(p, links, j, i)
    \/ ThreatensProducer(p, links, i, j)
OrderingConstraints(p, links) ==
    {o \in (0..Len(p)) \X DOMAIN p :
        \/ o[1] = InitialEvent
        \/ o[1] > 0 /\ o[1] < o[2] /\ OrderedPair(p, links, o[1], o[2])}
=============================================================================
