--------------------------- MODULE TemporalDomain ---------------------------
(***************************************************************************)
(* The grounded planning problem, as RPGBuilder leaves it for search, and  *)
(* the analyses of it that the state-space search consults: which actions  *)
(* TemporalAnalysis recognises as compression safe and which fact makes an *)
(* action uninteresting.  Numeric variables are left out; what they decide *)
(* about an action is given by the constants SkipCandidates and            *)
(* NoNumericBenefit.                                                       *)
(***************************************************************************)
EXTENDS Integers, Sequences, FiniteSets, Functions

CONSTANTS
    Facts,             \* grounded propositions (Literal::getStateID)
    Actions,           \* non-rogue grounded actions
    Op,                \* their conditions and effects, by snap-action
    Durative,          \* actions with duration expressions (getRPGDEs)
    SkipCandidates,    \* no numeric end condition or effect, invariant,
                       \* gradient or duration dependence
    NoNumericBenefit,  \* actions without a worthwhile numeric effect
    TILs,              \* timed initial literals, in time order
    Goals,             \* propositional goals
    InitFacts,         \* facts of the initial state
    NoSelfOverlaps     \* RPGBuilder::noSelfOverlaps

(* Conditions are lists (helpers walk them in order); effects are sets.    *)
(* An action that is not durative keeps everything at its start, and a     *)
(* domain names an over-all condition of an action once.                   *)
SnapActions ==
    [startPre : Seq(Facts), inv : Seq(Facts), endPre : Seq(Facts),
     startNeg : SUBSET Facts, invNeg : SUBSET Facts, endNeg : SUBSET Facts,
     startAdd : SUBSET Facts, startDel : SUBSET Facts,
     endAdd : SUBSET Facts, endDel : SUBSET Facts]

ASSUME DomainAssumption ==
    /\ Op \in [Actions -> SnapActions]
    /\ \A a \in Actions \ Durative :
          /\ Op[a].inv = <<>> /\ Op[a].endPre = <<>>
          /\ Op[a].invNeg = {} /\ Op[a].endNeg = {}
          /\ Op[a].endAdd = {} /\ Op[a].endDel = {}
    /\ \A a \in Actions : \A i, j \in DOMAIN Op[a].inv :
          Op[a].inv[i] = Op[a].inv[j] => i = j
    /\ Durative \subseteq Actions
    /\ SkipCandidates \subseteq Durative
    /\ NoNumericBenefit \subseteq Actions
    /\ TILs \in Seq([at : Nat, adds : SUBSET Facts, dels : SUBSET Facts])
    /\ Goals \subseteq Facts
    /\ InitFacts \subseteq Facts
    /\ NoSelfOverlaps \in BOOLEAN

-----------------------------------------------------------------------------
(* Invariants are folded into the start unless a start effect meets them.  *)
ProcessedStartPre(a) ==
    LET inv == Op[a].inv
        after[i \in 0..Len(inv)] ==   \* the list after i invariants
          IF i = 0 THEN Op[a].startPre
          ELSE IF inv[i] \in Op[a].startAdd THEN after[i - 1]
          ELSE Append(after[i - 1], inv[i])
    IN after[Len(inv)]

ProcessedStartNeg(a) ==
    Op[a].startNeg \cup (Op[a].invNeg \ Op[a].startDel)

-----------------------------------------------------------------------------
(* Who mentions a fact.                                                    *)
NeededAtStart(f)  == {a \in Actions : f \in Range(Op[a].startPre)}
NeededOverAll(f)  == {a \in Actions : f \in Range(Op[a].inv)}
NeededAtEnd(f)    == {a \in Actions : f \in Range(Op[a].endPre)}
DeletedAtStart(f) == {a \in Actions : f \in Op[a].startDel}
DeletedAtEnd(f)   == {a \in Actions : f \in Op[a].endDel}
AddedByTIL(f)     == \E t \in DOMAIN TILs : f \in TILs[t].adds
DeletedByTIL(f)   == \E t \in DOMAIN TILs : f \in TILs[t].dels

PreconditionFacts ==
    {f \in Facts : NeededAtStart(f) \cup NeededOverAll(f) \cup NeededAtEnd(f) # {}}
NegativePreconditionFacts ==
    UNION {Op[a].startNeg \cup Op[a].invNeg \cup Op[a].endNeg : a \in Actions}

(* recogniseHoldThroughoutDeleteAtEndIdiom: the facts that may be deleted  *)
(* at the end of a compression-safe action although they are conditions.   *)
HoldThroughoutDeleteAtEnd ==
    {f \in Facts :
        /\ ~AddedByTIL(f)
        /\ ~DeletedByTIL(f)
        /\ DeletedAtEnd(f) # {}
        /\ NeededAtEnd(f) \subseteq NeededOverAll(f)
        /\ NeededAtStart(f) \subseteq NeededOverAll(f) \cup DeletedAtStart(f)
        /\ NeededOverAll(f) \subseteq DeletedAtEnd(f)}

NoOverlap(effects, affects, canIgnore) == (effects \ canIgnore) \cap affects = {}

(* TemporalAnalysis::findCompressionSafeActions                            *)
CanSkipToEnd(a) ==
    /\ a \in SkipCandidates
    /\ Range(Op[a].endPre) \subseteq Range(Op[a].inv)
    /\ Op[a].endNeg \subseteq Op[a].invNeg
    /\ NoOverlap(Op[a].endDel, PreconditionFacts \cup Goals, HoldThroughoutDeleteAtEnd)
    /\ NoOverlap(Op[a].endAdd, NegativePreconditionFacts, {})

(* The facts whose annotations the start of a compression-safe action      *)
(* throws away: those it will delete at its end.                           *)
Scrubbed == UNION {Op[a].endDel : a \in {b \in Actions : CanSkipToEnd(b)}}

-----------------------------------------------------------------------------
(* findUninterestingnessCriteria: once nothing an action adds is ever      *)
(* deleted, one of its effects, the last of the list, stands for all.      *)
Adds(a) == Op[a].startAdd \cup Op[a].endAdd
NeverDeleted(f) ==
    DeletedAtStart(f) = {} /\ DeletedAtEnd(f) = {} /\ ~DeletedByTIL(f)
HasCriterion(a) ==
    a \in NoNumericBenefit /\ \A f \in Adds(a) : NeverDeleted(f)
Criterion(a) ==
    CHOOSE f \in Adds(a) : Op[a].endAdd # {} => f \in Op[a].endAdd
=============================================================================
