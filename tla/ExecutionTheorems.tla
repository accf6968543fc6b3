-------------------------- MODULE ExecutionTheorems --------------------------
(***************************************************************************)
(* That every order which the recorded orderings allow can be executed,    *)
(* for every plan of every problem on which applying the effects of        *)
(* compression-safe ends early makes no difference to a condition.         *)
(*                                                                         *)
(* The applied steps are executed in the order in which they were applied, *)
(* so what the executor has run is a prefix of them and some of the        *)
(* pending ends of that prefix.  The executor's facts differ from those    *)
(* the search had after the prefix only by what the other pending ends     *)
(* will add.  A step that could see the difference is ordered after the    *)
(* end that makes it, and so is not ready.                                 *)
(***************************************************************************)
EXTENDS PlanExecution, TotalOrderTransformer_proofs

-----------------------------------------------------------------------------
(* What is assumed of the problem.                                         *)
Added(f) == AddedByTIL(f) \/ \E a \in Actions : f \in Adds(a)

(* No action takes away at its start what it needs throughout: PDDL lets   *)
(* such an action run in no plan.                                          *)
StartsKeepInvariants ==
    \A a \in Actions : Range(Op[a].inv) \cap Op[a].startDel \subseteq Op[a].startAdd
(* No negative condition mentions a fact that a compression-safe end       *)
(* deletes: some step would wait for a deletion that only search has made. *)
NegativesIgnoreEarlyDeletes == Scrubbed \cap NegativePreconditionFacts = {}
(* A condition that a compression-safe end deletes, by the idiom of        *)
(* holding it throughout, is used up: it is never added again, and whoever *)
(* deletes it needs it, and is compression safe if it does so at its end.  *)
TokensAreSpentOnce ==
    \A f \in Scrubbed \cap PreconditionFacts :
        /\ ~Added(f)
        /\ \A a \in Actions :
              /\ f \in Op[a].startDel => f \in Range(Op[a].startPre)
              /\ f \in Op[a].endDel => CanSkipToEnd(a) /\ f \in Range(Op[a].inv)
(* What a compression-safe action needs to be false at its end stays false *)
(* once it is: the annotations protect positive conditions only.           *)
EndNegativesStayFalse ==
    \A a \in Actions : CanSkipToEnd(a) => \A f \in Op[a].endNeg : ~Added(f)
(* What a compression-safe end deletes is not added again.                 *)
EarlyDeletesStayDeleted == \A f \in Scrubbed : ~Added(f)

-----------------------------------------------------------------------------
(* The history of the search, as the applied steps tell it.                *)
StepAt(i) == StepOf(applied[i])
IsStarting(k)  == StepOf(k).spec = "START"
IsLongStart(k) == IsStarting(k) /\ ~CanSkipToEnd(StepOf(k).act)

EarlyAdditions(st) ==
    IF st.spec = "START" /\ CanSkipToEnd(st.act) THEN Op[st.act].endAdd ELSE {}
EarlyDeletes(st) ==
    IF st.spec = "START" /\ CanSkipToEnd(st.act) THEN Op[st.act].endDel ELSE {}
Gives(st) == EarlyAdditions(st) \cup (Additions(st) \ EarlyDeletes(st))
Takes(st) == (Deletes(st) \cup EarlyDeletes(st)) \ Gives(st)
Negatives(st) ==
    CASE st.spec = "TIL" -> {}
      [] st.spec = "END" -> Op[st.act].endNeg
      [] OTHER           -> ProcessedStartNeg(st.act)

(* The facts the search had after the first n applied steps: those given,  *)
(* or true from the start, and not taken since.                            *)
FactsAfter(sts, n) ==
    {f \in Facts :
        \/ f \in InitFacts /\ \A j \in 1..n : f \notin Takes(sts[j])
        \/ \E i \in 1..n : f \in Gives(sts[i]) /\ \A j \in i + 1..n : f \notin Takes(sts[j])}
FactsAt(n) == FactsAfter([i \in DOMAIN applied |-> StepAt(i)], n)

PairsAreRecorded ==
    \A k \in StepIDs : IsStarting(k) =>
        /\ PendingEnd(k) \in StepIDs
        /\ StepOf(PendingEnd(k)) = [spec |-> "END", act |-> StepOf(k).act]
NoStepIsAppliedTwice ==
    \A i, j \in DOMAIN applied : applied[i] = applied[j] => i = j
EndsFollowStarts ==
    \A j \in DOMAIN applied : StepAt(j).spec = "END" =>
        \E i \in 1..j - 1 : /\ IsLongStart(applied[i])
                            /\ applied[j] = PendingEnd(applied[i])
RunningEndsAwaitApplication ==
    \A a \in Actions : \A e \in startedActions[a] :
        /\ \A j \in DOMAIN applied : applied[j] # e
        /\ \E i \in DOMAIN applied : IsLongStart(applied[i]) /\ e = PendingEnd(applied[i])
StartedActionsRunOrEnd ==
    \A i \in DOMAIN applied : IsLongStart(applied[i]) =>
        \/ PendingEnd(applied[i]) \in startedActions[StepAt(i).act]
        \/ \E j \in DOMAIN applied : applied[j] = PendingEnd(applied[i])
StartsComeFirst ==
    \A i \in DOMAIN applied : IsStarting(applied[i]) =>
        <<applied[i], PendingEnd(applied[i])>> \in stepsBefore
FactsAreRemembered == first = FactsAt(Len(applied))
StepsWereApplicable ==
    \A j \in DOMAIN applied :
        /\ Conditions(StepAt(j)) \subseteq FactsAt(j - 1)
        /\ Negatives(StepAt(j)) \cap FactsAt(j - 1) = {}
(* A step that deletes what a running action holds does not come before    *)
(* the end of that action.                                                 *)
InvariantsAreGuarded ==
    \A i, j \in DOMAIN applied : (i < j /\ IsLongStart(applied[i])) =>
        \A f \in Range(Op[StepAt(i).act].inv) \cap Deletes(StepAt(j)) :
            \E m \in i + 1..j : applied[m] = PendingEnd(applied[i])

HistoryInv ==
    /\ TrackInv /\ CounterInv
    /\ PairsAreRecorded /\ NoStepIsAppliedTwice /\ EndsFollowStarts
    /\ RunningEndsAwaitApplication /\ StartedActionsRunOrEnd /\ StartsComeFirst
    /\ FactsAreRemembered /\ StepsWereApplicable /\ InvariantsAreGuarded

-----------------------------------------------------------------------------
(* The executor.                                                           *)
DoneUpTo(p) ==
    /\ p \in 0..Len(applied)
    /\ \A i \in DOMAIN applied : applied[i] \in done <=> i <= p
NothingIsSkipped ==
    /\ done \subseteq PlanSteps
    /\ \A edge \in stepsBefore : edge[2] \in done => edge[1] \in done
(* f is still to be added by the pending end of a step done.               *)
StillToCome(p, f) ==
    \E i \in 1..p : /\ SkippedStart(applied[i]) /\ PendingEnd(applied[i]) \notin done
                    /\ f \in Op[StepAt(i).act].endAdd
WorldFollows(p) ==
    \A f \in Facts \ Scrubbed :
        /\ f \in world => f \in FactsAt(p)
        /\ f \in FactsAt(p) => f \in world \/ StillToCome(p, f)
EndNegativesAreFalse ==
    \A k \in done : SkippedStart(k) => Op[StepOf(k).act].endNeg \cap world = {}
EarlyDeletesRemain ==
    \A f \in Scrubbed : ~Added(f) =>
        (f \in world <=> f \in InitFacts /\ \A k \in done : f \notin Deletes(StepOf(k)))
(* Over-all conditions, but for the tokens: those are as EarlyDeletesRemain*)
(* says, and the plan spends each of them once.                            *)
HeldConditionsRemain ==
    \A k \in done :
        (StepOf(k).spec = "START" /\ PendingEnd(k) \notin done)
        => Range(Op[StepOf(k).act].inv) \ Scrubbed \subseteq world

RunInv ==
    /\ HistoryInv
    /\ executing \/ (done = {} /\ world = InitFacts)
    /\ NothingIsSkipped
    /\ \E p \in Nat : DoneUpTo(p)
(* What a step of the plan waits for comes before it in the application.   *)
PlanOrderingsFollow ==
    \A edge \in stepsBefore : edge[2] \in PlanSteps => Follows(edge)
ExecInv ==
    /\ RunInv /\ world \subseteq Facts
    /\ \E p \in Nat : DoneUpTo(p) /\ WorldFollows(p)
    /\ HeldConditionsRemain /\ EndNegativesAreFalse /\ EarlyDeletesRemain

-----------------------------------------------------------------------------
(* The records of steps.                                                   *)
LEMMA RecordShapes ==
    ASSUME NEW st \in StepRecords
    PROVE  /\ st.spec \in {"TIL", "INSTANT", "START", "END"}
           /\ st.spec = "TIL" => st.til \in DOMAIN TILs
           /\ st.spec # "TIL" => st.act \in Actions
BY DEF StepRecords

LEMMA EffectsAreFacts ==
    ASSUME NEW st \in StepRecords
    PROVE  /\ Additions(st) \subseteq Facts /\ Deletes(st) \subseteq Facts
           /\ EarlyAdditions(st) \subseteq Facts /\ EarlyDeletes(st) \subseteq Facts
           /\ Gives(st) \subseteq Facts
<1>1. CASE st.spec = "TIL"
  <2>1. TILs[st.til].adds \subseteq Facts /\ TILs[st.til].dels \subseteq Facts
    BY <1>1, RecordShapes, RecordTypes
  <2> QED BY <1>1, <2>1 DEF Additions, Deletes, EarlyAdditions, EarlyDeletes, Gives
<1>2. CASE st.spec # "TIL"
  <2>1. st.act \in Actions /\ st.spec \in {"INSTANT", "START", "END"}
    BY <1>2, RecordShapes
  <2>2. /\ Op[st.act].startAdd \subseteq Facts /\ Op[st.act].startDel \subseteq Facts
        /\ Op[st.act].endAdd \subseteq Facts /\ Op[st.act].endDel \subseteq Facts
    BY <2>1, OperatorTypes
  <2> QED BY <2>1, <2>2 DEF Additions, Deletes, EarlyAdditions, EarlyDeletes, Gives
<1> QED BY <1>1, <1>2

(* The facts change by one step at a time, and depend on no later step.    *)
LEMMA FactsAfterOneMore ==
    ASSUME NEW n \in Nat, NEW sts, Gives(sts[n + 1]) \subseteq Facts
    PROVE  FactsAfter(sts, n + 1) =
              (FactsAfter(sts, n) \ Takes(sts[n + 1])) \cup Gives(sts[n + 1])
<1>1. \A i \in 1..n : i \in 1..n + 1 /\ n + 1 \in i + 1..n + 1
  OBVIOUS
<1>2. \A j \in 1..n + 1 : j = n + 1 \/ j \in 1..n
  OBVIOUS
<1>3. \A i \in Nat : /\ \A j \in i + 1..n + 1 : j = n + 1 \/ j \in i + 1..n
                     /\ \A j \in i + 1..n : j \in i + 1..n + 1
  OBVIOUS
<1>4. n + 1 \in 1..n + 1 /\ \A j \in n + 1 + 1..n + 1 : FALSE
  OBVIOUS
<1>5. Takes(sts[n + 1]) \cap Gives(sts[n + 1]) = {}
  BY DEF Takes
<1> SUFFICES ASSUME NEW f \in Facts
             PROVE  f \in FactsAfter(sts, n + 1) <=>
                       \/ f \in FactsAfter(sts, n) /\ f \notin Takes(sts[n + 1])
                       \/ f \in Gives(sts[n + 1])
  BY DEF FactsAfter
<1>6. CASE f \in Gives(sts[n + 1])
  BY <1>4, <1>6 DEF FactsAfter
<1>7. CASE f \notin Gives(sts[n + 1]) /\ f \in Takes(sts[n + 1])
  <2>1. f \notin FactsAfter(sts, n + 1)
    <3>1. ASSUME NEW i \in 1..n + 1, f \in Gives(sts[i])
          PROVE  \E j \in i + 1..n + 1 : f \in Takes(sts[j])
      <4>1. i \in 1..n
        BY <1>2, <1>7, <3>1
      <4> QED BY <1>1, <1>7, <4>1
    <3> QED BY <1>4, <1>7, <3>1 DEF FactsAfter
  <2> QED BY <1>7, <2>1
<1>8. CASE f \notin Gives(sts[n + 1]) /\ f \notin Takes(sts[n + 1])
  <2>1. (\A j \in 1..n + 1 : f \notin Takes(sts[j])) <=> (\A j \in 1..n : f \notin Takes(sts[j]))
    BY <1>1, <1>2, <1>8
  <2>2. ASSUME NEW i \in 1..n
        PROVE  (\A j \in i + 1..n + 1 : f \notin Takes(sts[j]))
                  <=> (\A j \in i + 1..n : f \notin Takes(sts[j]))
    BY <1>3, <1>8
  <2>3. \A i \in 1..n + 1 : f \in Gives(sts[i]) => i \in 1..n
    BY <1>2, <1>8
  <2> QED BY <1>1, <1>8, <2>1, <2>2, <2>3 DEF FactsAfter
<1> QED BY <1>6, <1>7, <1>8

LEMMA FactsAfterDepends ==
    ASSUME NEW n \in Nat, NEW sts, NEW ths, \A i \in 1..n : sts[i] = ths[i]
    PROVE  FactsAfter(sts, n) = FactsAfter(ths, n)
<1>1. \A i \in 1..n : \A j \in i + 1..n : j \in 1..n
  OBVIOUS
<1> QED BY <1>1 DEF FactsAfter

LEMMA FactsAfterNone == ASSUME NEW sts PROVE FactsAfter(sts, 0) = InitFacts
<1>1. InitFacts \subseteq Facts
  BY DomainAssumption
<1>2. \A j \in 1..0 : FALSE
  OBVIOUS
<1> QED BY <1>1, <1>2 DEF FactsAfter

-----------------------------------------------------------------------------
(* What the search tests before it applies a step, and what it changes.    *)
Took(k, st) ==
    /\ st \in StepRecords /\ steps'[k + 1] = st
    /\ first' = (first \ Takes(st)) \cup Gives(st)
    /\ Conditions(st) \subseteq first /\ Negatives(st) \cap first = {}
    /\ \A f \in Deletes(st) : BreaksInvariant(f) =>
          st.spec = "END" /\ invariants[f] = 1 /\ f \in Range(Op[st.act].inv)
    /\ \/ /\ st.spec = "END" /\ k \in startedActions[st.act]
          /\ startedActions' = [startedActions EXCEPT ![st.act] = @ \ {k}]
       \/ /\ st.spec # "END" /\ k = planLength
          /\ startedActions' = IF st.spec = "START" /\ ~CanSkipToEnd(st.act)
                               THEN [startedActions EXCEPT ![st.act] = @ \cup {k + 1}]
                               ELSE startedActions

LEMMA TILTakes ==
    ASSUME TypeInv, ApplyTIL
    PROVE  \E k, pre, dels, adds, more, recs, st :
              Applies(k, pre, dels, adds, more, recs) /\ Took(k, st)
<1> DEFINE r == [spec |-> "TIL", til |-> nextTIL + 1]
           til == TILs[nextTIL + 1]
<1>1. PICK k, recs : k = planLength /\ recs = <<r>>
  OBVIOUS
<1>2. Applies(k, <<>>, til.dels, til.adds, {}, recs)
  BY <1>1, TILApplies
<1>3. steps'[k + 1] = r
  <2>1. recs \in Seq(StepRecords) /\ steps' = steps \o recs
    BY <1>2 DEF Applies
  <2>2. Len(recs) = 1 /\ recs[1] = r
    BY <1>1
  <2>3. Len(recs) >= 1 => steps'[planLength + 1] = recs[1]
    BY <2>1, Recording DEF TypeInv
  <2> QED BY <1>1, <2>2, <2>3
<1>4. r \in StepRecords
  <2>1. nextTIL + 1 \in DOMAIN TILs
    BY LenProperties, DomainAssumption DEF TypeInv, TypeOK, ApplyTIL
  <2> QED BY <2>1 DEF StepRecords
<1>5. /\ Gives(r) = til.adds /\ Takes(r) = til.dels \ til.adds /\ Deletes(r) = til.dels
      /\ Conditions(r) = {} /\ Negatives(r) = {} /\ r.spec = "TIL"
  BY DEF Gives, Takes, EarlyAdditions, EarlyDeletes, Additions, Deletes, Conditions, Negatives
<1>6. /\ first' = (first \ til.dels) \cup til.adds
      /\ \A f \in til.dels : ~BreaksInvariant(f)
      /\ startedActions' = startedActions
  BY DEF ApplyTIL
<1> HIDE DEF r, til
<1>7. Took(k, r)
  BY <1>1, <1>3, <1>4, <1>5, <1>6 DEF Took
<1> QED BY <1>2, <1>7

LEMMA InstantTakes ==
    ASSUME TypeInv, NEW a \in Actions, ApplyInstant(a)
    PROVE  \E k, pre, dels, adds, more, recs, st :
              Applies(k, pre, dels, adds, more, recs) /\ Took(k, st)
<1> DEFINE r == [spec |-> "INSTANT", act |-> a]
<1>1. PICK k, recs : k = planLength /\ recs = <<r>>
  OBVIOUS
<1>2. Applies(k, Op[a].startPre, Op[a].startDel, Op[a].startAdd, {}, recs)
  BY <1>1, InstantApplies
<1>3. steps'[k + 1] = r
  <2>1. recs \in Seq(StepRecords) /\ steps' = steps \o recs
    BY <1>2 DEF Applies
  <2>2. Len(recs) = 1 /\ recs[1] = r
    BY <1>1
  <2>3. Len(recs) >= 1 => steps'[planLength + 1] = recs[1]
    BY <2>1, Recording DEF TypeInv
  <2> QED BY <1>1, <2>2, <2>3
<1>4. r \in StepRecords
  BY DEF StepRecords
<1>5. /\ Gives(r) = Op[a].startAdd /\ Takes(r) = Op[a].startDel \ Op[a].startAdd
      /\ Deletes(r) = Op[a].startDel /\ Conditions(r) = Range(Op[a].startPre)
      /\ Negatives(r) = ProcessedStartNeg(a) /\ r.spec = "INSTANT"
  BY DEF Gives, Takes, EarlyAdditions, EarlyDeletes, Additions, Deletes, Conditions, Negatives
<1>6. /\ first' = (first \ Op[a].startDel) \cup Op[a].startAdd
      /\ StartApplicable(a)
      /\ startedActions' = startedActions
  BY DEF ApplyInstant, StartedFacts
<1>7. /\ Range(Op[a].startPre) \subseteq first
      /\ ProcessedStartNeg(a) \cap first = {}
      /\ \A f \in Op[a].startDel : ~BreaksInvariant(f)
  BY <1>6, ProcessedPreconditions DEF StartApplicable
<1> HIDE DEF r
<1>8. Took(k, r)
  BY <1>1, <1>3, <1>4, <1>5, <1>6, <1>7 DEF Took
<1> QED BY <1>2, <1>8

LEMMA StartTakes ==
    ASSUME TypeInv, NEW a \in Actions, StartAction(a) \/ StartSkippable(a)
    PROVE  \E k, pre, dels, adds, more, recs, st :
              Applies(k, pre, dels, adds, more, recs) /\ Took(k, st)
<1> DEFINE r == [spec |-> "START", act |-> a]
<1>1. PICK k : k = planLength
  OBVIOUS
<1>2. Applies(k, ProcessedStartPre(a), Op[a].startDel, Op[a].startAdd,
              {<<planLength, planLength + 1>>}, StartRecords(a))
  BY <1>1, StartApplies
<1>3. steps'[k + 1] = r
  BY <1>1, <1>2, StartRecordsEnd
<1>4. r \in StepRecords
  BY DEF StepRecords
<1>5. /\ Deletes(r) = Op[a].startDel /\ Additions(r) = Op[a].startAdd
      /\ Conditions(r) = Range(ProcessedStartPre(a))
      /\ Negatives(r) = ProcessedStartNeg(a) /\ r.spec = "START" /\ r.act = a
  BY DEF Additions, Deletes, Conditions, Negatives
<1>6. /\ RecordStart(a) /\ StartApplicable(a)
      /\ ~CanSkipToEnd(a) => first' = StartedFacts(a)
      /\ CanSkipToEnd(a) => first' = (StartedFacts(a) \ Op[a].endDel) \cup Op[a].endAdd
      /\ startedActions' = IF ~CanSkipToEnd(a)
                           THEN [startedActions EXCEPT ![a] = @ \cup {k + 1}]
                           ELSE startedActions
  BY <1>1 DEF StartAction, StartSkippable, RecordStart
<1>7. first' = (first \ Takes(r)) \cup Gives(r)
  <2>1. CASE CanSkipToEnd(a)
    <3>1. EarlyAdditions(r) = Op[a].endAdd /\ EarlyDeletes(r) = Op[a].endDel
      BY <1>5, <2>1 DEF EarlyAdditions, EarlyDeletes
    <3> QED BY <1>5, <1>6, <2>1, <3>1 DEF Gives, Takes, StartedFacts
  <2>2. CASE ~CanSkipToEnd(a)
    <3>1. EarlyAdditions(r) = {} /\ EarlyDeletes(r) = {}
      BY <1>5, <2>2 DEF EarlyAdditions, EarlyDeletes
    <3> QED BY <1>5, <1>6, <2>2, <3>1 DEF Gives, Takes, StartedFacts
  <2> QED BY <2>1, <2>2
<1>8. /\ Range(ProcessedStartPre(a)) \subseteq first
      /\ ProcessedStartNeg(a) \cap first = {}
      /\ \A f \in Op[a].startDel : ~BreaksInvariant(f)
  BY <1>6 DEF StartApplicable
<1> HIDE DEF r
<1>9. Took(k, r)
  BY <1>1, <1>3, <1>4, <1>5, <1>6, <1>7, <1>8 DEF Took
<1> QED BY <1>2, <1>9

LEMMA EndTakes ==
    ASSUME TypeInv, NEW a \in Actions, EndAction(a)
    PROVE  \E k, pre, dels, adds, more, recs, st :
              Applies(k, pre, dels, adds, more, recs) /\ Took(k, st)
<1> DEFINE r == [spec |-> "END", act |-> a]
<1>1. PICK k : k = Earliest(startedActions[a])
  OBVIOUS
<1>2. Applies(k, Op[a].endPre, Op[a].endDel, Op[a].endAdd, {}, <<>>)
  BY <1>1, EndApplies
<1>3. startedActions[a] # {} /\ startedActions[a] \subseteq StepIDs /\ StepIDs \subseteq Nat
  BY DEF EndAction, EndApplicable, TypeInv, TypeOK, EndsAreSteps, StepIDs
<1>4. k \in startedActions[a]
  BY <1>1, <1>3, EarliestIsOne
<1>5. steps'[k + 1] = r
  BY <1>3, <1>4 DEF TypeInv, EndsAreSteps, StepOf, EndAction
<1>6. r \in StepRecords
  BY DEF StepRecords
<1>7. /\ Deletes(r) = Op[a].endDel /\ Additions(r) = Op[a].endAdd
      /\ Gives(r) = Op[a].endAdd /\ Takes(r) = Op[a].endDel \ Op[a].endAdd
      /\ Conditions(r) = Range(Op[a].endPre)
      /\ Negatives(r) = Op[a].endNeg /\ r.spec = "END" /\ r.act = a
  BY DEF Gives, Takes, EarlyAdditions, EarlyDeletes, Additions, Deletes, Conditions, Negatives
<1>8. /\ EndApplicable(a)
      /\ first' = (first \ Op[a].endDel) \cup Op[a].endAdd
      /\ startedActions' = [startedActions EXCEPT ![a] = @ \ {k}]
  BY <1>1 DEF EndAction, Deregister
<1> HIDE DEF r
<1>9. Took(k, r)
  BY <1>4, <1>5, <1>6, <1>7, <1>8 DEF Took, EndApplicable
<1> QED BY <1>2, <1>9

LEMMA EveryStepTakes ==
    ASSUME TypeInv, Next
    PROVE  \E k, pre, dels, adds, more, recs, st :
              Applies(k, pre, dels, adds, more, recs) /\ Took(k, st)
<1> QED BY TILTakes, InstantTakes, StartTakes, EndTakes DEF Next

-----------------------------------------------------------------------------
(* What applying one more step does to the history: the steps applied      *)
(* before are as they were, and the new one is none of them.               *)
Grows(n, k, st) ==
    /\ n \in Nat /\ n = Len(applied) /\ Len(applied') = n + 1
    /\ DOMAIN applied = 1..n /\ DOMAIN applied' = 1..n + 1
    /\ applied'[n + 1] = k /\ steps'[k + 1] = st /\ st \in StepRecords
    /\ \A i \in 1..n : /\ applied[i] \in StepIDs /\ applied'[i] = applied[i]
                       /\ applied[i] # k
                       /\ steps'[applied[i] + 1] = steps[applied[i] + 1]
                       /\ steps[applied[i] + 1] \in StepRecords

LEMMA Growing ==
    ASSUME HistoryInv,
           NEW k, NEW pre, NEW dels, NEW adds, NEW more, NEW recs, NEW st,
           Applies(k, pre, dels, adds, more, recs), Took(k, st)
    PROVE  Grows(Len(applied), k, st)
<1> TypeInv /\ RunningEndsAwaitApplication
  BY DEF HistoryInv, TrackInv
<1>1. /\ Len(applied) \in Nat /\ Len(applied') = Len(applied) + 1
      /\ DOMAIN applied = 1..Len(applied)
      /\ DOMAIN applied' = 1..Len(applied) + 1
      /\ applied'[Len(applied) + 1] = k
      /\ \A i \in DOMAIN applied : /\ applied[i] \in StepIDs
                                   /\ applied'[i] = applied[i]
                                   /\ steps'[applied[i] + 1] = steps[applied[i] + 1]
  BY Appending
<1>2. steps'[k + 1] = st /\ st \in StepRecords
  BY DEF Took
<1>3. \A j \in StepIDs : steps[j + 1] \in StepRecords
  <2>1. steps \in Seq(StepRecords) /\ Len(steps) = planLength /\ planLength \in Nat
    BY DEF TypeInv, TypeOK
  <2> HIDE DEF StepRecords
  <2>2. \A x \in 1..planLength : steps[x] \in StepRecords
    BY <2>1, ElementOfSeq
  <2> QED BY <2>1, <2>2 DEF StepIDs
<1>4. \A i \in DOMAIN applied : applied[i] # k
  <2>1. CASE st.spec = "END"
    <3>1. k \in startedActions[st.act] /\ st.act \in Actions
      BY <2>1, RecordShapes DEF Took
    <3> QED BY <3>1 DEF RunningEndsAwaitApplication
  <2>2. CASE st.spec # "END"
    <3>1. k = planLength /\ planLength \in Nat
      BY <2>2 DEF Took, TypeInv, TypeOK
    <3>2. k \notin StepIDs
      BY <3>1 DEF StepIDs
    <3> QED BY <1>1, <3>2
  <2> QED BY <2>1, <2>2
<1> QED BY <1>1, <1>2, <1>3, <1>4 DEF Grows

(* A step is the end of a running action or new, with the records of its   *)
(* pair if it is a start.                                                  *)
LEMMA NewRecords ==
    ASSUME TypeInv,
           NEW k, NEW pre, NEW dels, NEW adds, NEW more, NEW recs, NEW st,
           Applies(k, pre, dels, adds, more, recs), Took(k, st)
    PROVE  /\ \A j \in StepIDs : j \in StepIDs' /\ steps'[j + 1] = steps[j + 1]
           /\ k \in StepIDs' /\ k \in Nat
           /\ st.spec = "START" =>
                 /\ k = planLength /\ <<k, k + 1>> \in stepsBefore'
                 /\ k + 1 \in StepIDs' /\ steps'[k + 2] = [spec |-> "END", act |-> st.act]
           /\ \A j \in StepIDs' : j \in StepIDs \/ j = k
                                  \/ (st.spec = "START" /\ j = k + 1)
<1> DEFINE after == Reannotated(firstAnnotations, pre, dels, adds)
<1>1. /\ planLength \in Nat /\ planLength' = planLength + Len(recs) /\ Len(recs) \in Nat
      /\ k \in Nat /\ steps'[k + 1] = st
  <2>1. recs \in Seq(StepRecords)
    BY DEF Applies
  <2> HIDE DEF StepRecords
  <2> QED BY <2>1, LenProperties DEF Applies, Took, TypeInv, TypeOK
<1>2. \A j \in StepIDs : steps'[j + 1] = steps[j + 1]
  BY AppliesTypes DEF StepOf
<1>3. \A x : x \in StepIDs <=> x \in 0..planLength - 1
  BY DEF StepIDs
<1>4. \A x : x \in StepIDs' <=> x \in 0..planLength' - 1
  BY DEF StepIDs
<1>5. stepsBefore' = stepsBefore \cup
         {<<b, k>> : b \in PendingEndsMet(firstAnnotations, pre, dels, adds)
                           \cup ({mostRecentStep} \ {-1})} \cup more
  BY DEF Applies, Order
<1>6. \/ IsEnd(k, more, recs, after)
      \/ IsSingle(k, more, recs, after)
      \/ IsStart(k, more, recs, after)
  BY DEF Applies
<1> HIDE DEF after
<1>7. CASE IsEnd(k, more, recs, after)
  <2>1. Len(recs) = 0 /\ k < planLength /\ steps[k + 1].spec = "END"
    BY <1>7 DEF IsEnd, StepOf
  <2>2. k \in StepIDs
    BY <1>1, <1>3, <2>1
  <2>3. st.spec = "END"
    BY <1>1, <1>2, <2>1, <2>2
  <2> QED BY <1>1, <1>2, <1>3, <1>4, <2>1, <2>2, <2>3
<1>8. CASE IsSingle(k, more, recs, after)
  <2>1. PICK r \in StepRecords : recs = <<r>> /\ r.spec # "START"
    BY <1>8 DEF IsSingle
  <2>2. Len(recs) = 1 /\ recs[1] = r /\ k = planLength
    BY <1>8, <2>1 DEF IsSingle
  <2>3. Len(recs) >= 1 => steps'[planLength + 1] = recs[1]
    BY Recording, Zenon DEF Applies, TypeInv
  <2>4. st.spec # "START"
    BY <1>1, <2>1, <2>2, <2>3
  <2> QED BY <1>1, <1>2, <1>3, <1>4, <2>2, <2>4
<1>9. CASE IsStart(k, more, recs, after)
  <2>1. PICK a \in Actions : recs = StartRecords(a)
    BY <1>9 DEF IsStart
  <2>2. k = planLength /\ more = {<<k, k + 1>>}
    BY <1>9 DEF IsStart
  <2>3. /\ steps'[planLength + 1] = [spec |-> "START", act |-> a]
        /\ steps'[planLength + 2] = [spec |-> "END", act |-> a]
    BY <2>1, StartRecordsEnd
  <2>4. Len(recs) = 2
    BY <2>1 DEF StartRecords
  <2>5. st = [spec |-> "START", act |-> a]
    BY <1>1, <2>2, <2>3
  <2>6. <<k, k + 1>> \in stepsBefore'
    BY <1>5, <2>2
  <2> QED BY <1>1, <1>2, <1>3, <1>4, <2>2, <2>3, <2>4, <2>5, <2>6
<1> QED BY <1>6, <1>7, <1>8, <1>9

(* The pairs of steps, and the ends that run.                              *)
LEMMA PairsKept ==
    ASSUME HistoryInv,
           NEW k, NEW pre, NEW dels, NEW adds, NEW more, NEW recs, NEW st,
           Applies(k, pre, dels, adds, more, recs), Took(k, st)
    PROVE  PairsAreRecorded' /\ NoStepIsAppliedTwice' /\ StartsComeFirst'
<1> DEFINE n == Len(applied)
<1>0. TypeInv /\ PairsAreRecorded /\ NoStepIsAppliedTwice /\ StartsComeFirst
  BY DEF HistoryInv, TrackInv
<1>1. Grows(n, k, st)
  BY Growing
<1> HIDE DEF n
<1>2. /\ \A j \in StepIDs : j \in StepIDs' /\ steps'[j + 1] = steps[j + 1]
      /\ k \in Nat
      /\ st.spec = "START" =>
            /\ k = planLength /\ <<k, k + 1>> \in stepsBefore'
            /\ k + 1 \in StepIDs' /\ steps'[k + 2] = [spec |-> "END", act |-> st.act]
      /\ \A j \in StepIDs' : j \in StepIDs \/ j = k \/ (st.spec = "START" /\ j = k + 1)
  BY <1>0, NewRecords
<1>3. steps'[k + 1] = st
  BY DEF Took
<1>4. \A j \in StepIDs : j \in Nat
  BY DEF StepIDs, TypeInv, TypeOK
<1>5. stepsBefore \subseteq stepsBefore'
  BY DEF Applies, Order
<1>6. PairsAreRecorded'
  <2> SUFFICES ASSUME NEW j \in StepIDs', steps'[j + 1].spec = "START"
               PROVE  /\ j + 1 \in StepIDs'
                      /\ steps'[j + 1 + 1] = [spec |-> "END", act |-> steps'[j + 1].act]
    BY DEF PairsAreRecorded, IsStarting, StepOf, PendingEnd
  <2>1. CASE j \in StepIDs
    <3>1. j + 1 \in StepIDs /\ steps[j + 1 + 1] = [spec |-> "END", act |-> steps[j + 1].act]
      BY <1>0, <1>2, <2>1 DEF PairsAreRecorded, IsStarting, StepOf, PendingEnd
    <3> QED BY <1>2, <2>1, <3>1
  <2>2. CASE j = k
    <3>1. k + 1 + 1 = k + 2
      BY <1>2
    <3> QED BY <1>2, <1>3, <2>2, <3>1
  <2>3. CASE st.spec = "START" /\ j = k + 1
    <3>1. k + 1 + 1 = k + 2
      BY <1>2
    <3> QED BY <1>2, <2>3, <3>1
  <2> QED BY <1>2, <2>1, <2>2, <2>3
<1>7. NoStepIsAppliedTwice'
  <2> SUFFICES ASSUME NEW i \in 1..n + 1, NEW j \in 1..n + 1, applied'[i] = applied'[j]
               PROVE  i = j
    BY <1>1 DEF Grows, NoStepIsAppliedTwice
  <2>1. \A x \in 1..n + 1 : x \in 1..n \/ x = n + 1
    BY <1>1 DEF Grows
  <2> QED BY <1>0, <1>1, <2>1 DEF Grows, NoStepIsAppliedTwice
<1>8. StartsComeFirst'
  <2> SUFFICES ASSUME NEW i \in 1..n + 1, steps'[applied'[i] + 1].spec = "START"
               PROVE  <<applied'[i], applied'[i] + 1>> \in stepsBefore'
    BY <1>1 DEF Grows, StartsComeFirst, IsStarting, StepOf, PendingEnd
  <2>1. CASE i \in 1..n
    BY <1>0, <1>1, <1>5, <2>1 DEF Grows, StartsComeFirst, IsStarting, StepOf, PendingEnd
  <2>2. CASE i = n + 1
    BY <1>1, <1>2, <2>2 DEF Grows
  <2>3. i \in 1..n \/ i = n + 1
    BY <1>1 DEF Grows
  <2> QED BY <2>1, <2>2, <2>3
<1> QED BY <1>6, <1>7, <1>8

LEMMA RunningKept ==
    ASSUME HistoryInv,
           NEW k, NEW pre, NEW dels, NEW adds, NEW more, NEW recs, NEW st,
           Applies(k, pre, dels, adds, more, recs), Took(k, st)
    PROVE  EndsFollowStarts' /\ RunningEndsAwaitApplication' /\ StartedActionsRunOrEnd'
<1> DEFINE n == Len(applied)
           Long(s) == s.spec = "START" /\ ~CanSkipToEnd(s.act)
<1>0. TypeInv /\ EndsFollowStarts /\ RunningEndsAwaitApplication /\ StartedActionsRunOrEnd
  BY DEF HistoryInv, TrackInv
<1>1. Grows(n, k, st)
  BY Growing
<1> HIDE DEF n
<1>2. /\ n \in Nat /\ DOMAIN applied = 1..n /\ DOMAIN applied' = 1..n + 1
      /\ applied'[n + 1] = k /\ steps'[k + 1] = st /\ st \in StepRecords
      /\ \A i \in 1..n : /\ applied[i] \in StepIDs /\ applied'[i] = applied[i]
                         /\ applied[i] # k
                         /\ steps'[applied[i] + 1] = steps[applied[i] + 1]
                         /\ steps[applied[i] + 1] \in StepRecords
  BY <1>1 DEF Grows
<1>3. \A i : i \in 1..n + 1 => i \in 1..n \/ i = n + 1
  BY <1>2
<1>4. \A i \in 1..n : i \in 1..n + 1
  BY <1>2
<1>5. n + 1 \in 1..n + 1
  BY <1>2
<1>6. \A x \in StepIDs : x \in Nat /\ x < planLength
  BY <1>0 DEF StepIDs, TypeInv, TypeOK
<1>7. planLength \in Nat
  BY <1>0 DEF TypeInv, TypeOK
<1>8. /\ startedActions \in [Actions -> SUBSET StepIDs]
      /\ \A a \in Actions : \A e \in startedActions[a] :
            /\ \A j \in 1..n : applied[j] # e
            /\ \E i \in 1..n : Long(steps[applied[i] + 1]) /\ e = applied[i] + 1
  BY <1>0, <1>2 DEF TypeInv, EndsAreSteps, RunningEndsAwaitApplication, IsLongStart,
                    IsStarting, StepOf, PendingEnd
<1>e. \A a \in Actions : \A e \in startedActions[a] :
          steps[e + 1] = [spec |-> "END", act |-> a]
  BY <1>0 DEF TypeInv, EndsAreSteps, StepOf
<1>9. \/ /\ st.spec = "END" /\ k \in startedActions[st.act] /\ st.act \in Actions
         /\ startedActions' = [startedActions EXCEPT ![st.act] = @ \ {k}]
      \/ /\ st.spec # "END" /\ k = planLength
         /\ startedActions' = IF st.spec = "START" /\ ~CanSkipToEnd(st.act)
                              THEN [startedActions EXCEPT ![st.act] = @ \cup {k + 1}]
                              ELSE startedActions
  BY RecordShapes DEF Took
<1>10. st.spec = "START" => st.act \in Actions
  BY <1>2, RecordShapes
<1>11. EndsFollowStarts'
  <2> SUFFICES ASSUME NEW j \in 1..n + 1, steps'[applied'[j] + 1].spec = "END"
               PROVE  \E i \in 1..j - 1 : /\ Long(steps'[applied'[i] + 1])
                                          /\ applied'[j] = applied'[i] + 1
    BY <1>2 DEF EndsFollowStarts, IsLongStart, IsStarting, StepOf, PendingEnd, StepAt
  <2>1. CASE j \in 1..n
    <3>1. PICK i \in 1..j - 1 : /\ Long(steps[applied[i] + 1])
                                /\ applied[j] = applied[i] + 1
      BY <1>0, <1>2, <2>1
         DEF EndsFollowStarts, IsLongStart, IsStarting, StepOf, PendingEnd, StepAt
    <3>2. i \in 1..n
      BY <1>2, <2>1
    <3> QED BY <1>2, <2>1, <3>1, <3>2
  <2>2. CASE j = n + 1
    <3>1. st.spec = "END"
      BY <1>2, <2>2
    <3>2. PICK i \in 1..n : Long(steps[applied[i] + 1]) /\ k = applied[i] + 1
      <4>1. k \in startedActions[st.act] /\ st.act \in Actions
        BY <1>9, <3>1
      <4> HIDE DEF Long
      <4> QED BY <1>8, <4>1
    <3>3. i \in 1..j - 1
      BY <1>2, <2>2
    <3> QED BY <1>2, <2>2, <3>2, <3>3
  <2> QED BY <1>3, <2>1, <2>2
<1>12. RunningEndsAwaitApplication'
  <2> SUFFICES ASSUME NEW a \in Actions, NEW e \in startedActions'[a]
               PROVE  /\ \A j \in 1..n + 1 : applied'[j] # e
                      /\ \E i \in 1..n + 1 : Long(steps'[applied'[i] + 1])
                                             /\ e = applied'[i] + 1
    BY <1>2 DEF RunningEndsAwaitApplication, IsLongStart, IsStarting, StepOf, PendingEnd
  <2>1. CASE e \in startedActions[a] /\ e # k
    <3>1. PICK i \in 1..n : Long(steps[applied[i] + 1]) /\ e = applied[i] + 1
      BY <1>8, <2>1
    <3>2. \A j \in 1..n + 1 : applied'[j] # e
      BY <1>2, <1>3, <1>8, <2>1
    <3> QED BY <1>2, <1>4, <3>1, <3>2
  <2>2. CASE st.spec = "START" /\ Long(st) /\ k = planLength /\ e = k + 1
    <3>1. \A j \in 1..n : applied[j] # e
      BY <1>2, <1>6, <1>7, <2>2
    <3>2. \A j \in 1..n + 1 : applied'[j] # e
      BY <1>2, <1>3, <1>7, <2>2, <3>1
    <3> QED BY <1>2, <1>5, <2>2, <3>2
  <2>3. \/ e \in startedActions[a] /\ e # k
        \/ st.spec = "START" /\ Long(st) /\ k = planLength /\ e = k + 1
    <3>1. CASE st.spec = "END"
      <4>1. e \in startedActions[a] /\ ~(a = st.act /\ e = k)
        BY <1>8, <1>9, <3>1
      <4>2. e = k => a = st.act
        <5>1. steps[e + 1] = [spec |-> "END", act |-> a]
          BY <1>e, <4>1
        <5>2. steps[k + 1] = [spec |-> "END", act |-> st.act]
          BY <1>e, <1>9, <3>1
        <5> QED BY <5>1, <5>2
      <4> QED BY <4>1, <4>2
    <3>2. CASE st.spec # "END"
      <4>1. k = planLength
        BY <1>9, <3>2
      <4>2. e \in startedActions[a] => e # k
        BY <1>6, <1>7, <1>8, <4>1
      <4>3. e \in startedActions[a] \/ (Long(st) /\ e = k + 1)
        BY <1>8, <1>9, <1>10, <3>2
      <4> QED BY <4>1, <4>2, <4>3
    <3> QED BY <3>1, <3>2
  <2> QED BY <2>1, <2>2, <2>3
<1>13. StartedActionsRunOrEnd'
  <2> SUFFICES ASSUME NEW i \in 1..n + 1, Long(steps'[applied'[i] + 1])
               PROVE  \/ applied'[i] + 1 \in startedActions'[steps'[applied'[i] + 1].act]
                      \/ \E j \in 1..n + 1 : applied'[j] = applied'[i] + 1
    BY <1>2 DEF StartedActionsRunOrEnd, IsLongStart, IsStarting, StepOf, PendingEnd, StepAt
  <2>1. CASE i \in 1..n
    <3> DEFINE s == steps[applied[i] + 1]
               e == applied[i] + 1
    <3>1. Long(s) /\ s.act \in Actions /\ steps'[applied'[i] + 1] = s /\ applied'[i] + 1 = e
      BY <1>2, <2>1, RecordShapes
    <3>2. e \in startedActions[s.act] \/ \E j \in 1..n : applied[j] = e
      BY <1>0, <1>2, <2>1, <3>1
         DEF StartedActionsRunOrEnd, IsLongStart, IsStarting, StepOf, PendingEnd, StepAt
    <3> HIDE DEF s, e
    <3>3. CASE e = k
      BY <1>2, <1>5, <3>1, <3>3
    <3>4. CASE \E j \in 1..n : applied[j] = e
      BY <1>2, <1>4, <3>1, <3>4
    <3>5. CASE e \in startedActions[s.act] /\ e # k
      <4>1. e \in startedActions'[s.act]
        BY <1>8, <1>9, <1>10, <3>1, <3>5
      <4> QED BY <3>1, <4>1
    <3> QED BY <3>2, <3>3, <3>4, <3>5
  <2>2. CASE i = n + 1
    <3>1. Long(st)
      BY <1>2, <2>2
    <3>2. k + 1 \in startedActions'[st.act]
      BY <1>8, <1>9, <1>10, <3>1
    <3> QED BY <1>2, <2>2, <3>2
  <2> QED BY <1>3, <2>1, <2>2
<1> QED BY <1>11, <1>12, <1>13

(* The facts, and the tests they passed.                                   *)
LEMMA FactsKept ==
    ASSUME HistoryInv,
           NEW k, NEW pre, NEW dels, NEW adds, NEW more, NEW recs, NEW st,
           Applies(k, pre, dels, adds, more, recs), Took(k, st)
    PROVE  FactsAreRemembered' /\ StepsWereApplicable'
<1> DEFINE n == Len(applied)
           old == [i \in DOMAIN applied |-> StepOf(applied[i])]
           new == [i \in DOMAIN applied' |-> steps'[applied'[i] + 1]]
<1>0. FactsAreRemembered /\ StepsWereApplicable
  BY DEF HistoryInv
<1>1. Grows(n, k, st)
  BY Growing
<1>2. Len(applied') = n + 1
  BY <1>1 DEF Grows
<1> HIDE DEF n
<1>3. /\ n \in Nat /\ DOMAIN applied = 1..n /\ DOMAIN applied' = 1..n + 1
      /\ new[n + 1] = st /\ st \in StepRecords
      /\ \A i \in 1..n : i \in 1..n + 1 /\ new[i] = old[i]
  BY <1>1 DEF Grows, StepOf
<1>4. \A m : FactsAt(m) = FactsAfter(old, m)
  BY DEF FactsAt, StepAt
<1>5. \A m : FactsAt(m)' = FactsAfter(new, m)
  BY DEF FactsAt, StepAt, StepOf
<1>6. \A i \in DOMAIN applied : StepAt(i) = old[i]
  BY DEF StepAt
<1>7. \A i \in DOMAIN applied' : StepAt(i)' = new[i]
  BY DEF StepAt, StepOf
<1>8. first = FactsAfter(old, n)
  BY <1>0, <1>4 DEF FactsAreRemembered, n
<1>9. ASSUME NEW m \in Nat, m <= n  PROVE FactsAfter(new, m) = FactsAfter(old, m)
  <2>1. \A i \in 1..m : i \in 1..n
    BY <1>3, <1>9
  <2> HIDE DEF old, new
  <2> QED BY <1>3, <2>1, FactsAfterDepends
<1> HIDE DEF old, new
<1>10. FactsAreRemembered'
  <2>1. FactsAfter(new, n + 1) = (FactsAfter(new, n) \ Takes(st)) \cup Gives(st)
    BY <1>3, FactsAfterOneMore, EffectsAreFacts
  <2>2. first' = FactsAfter(new, n + 1)
    BY <1>3, <1>8, <1>9, <2>1 DEF Took
  <2> QED BY <1>2, <1>5, <2>2 DEF FactsAreRemembered
<1>11. StepsWereApplicable'
  <2> SUFFICES ASSUME NEW j \in 1..n + 1
               PROVE  /\ Conditions(new[j]) \subseteq FactsAfter(new, j - 1)
                      /\ Negatives(new[j]) \cap FactsAfter(new, j - 1) = {}
    BY <1>3, <1>5, <1>7 DEF StepsWereApplicable
  <2>1. CASE j \in 1..n
    <3>1. j - 1 \in Nat /\ j - 1 <= n
      BY <1>3
    <3> QED BY <1>0, <1>3, <1>4, <1>6, <1>9, <2>1, <3>1 DEF StepsWereApplicable
  <2>2. CASE j = n + 1
    <3>1. j - 1 = n /\ n <= n
      BY <1>3, <2>2
    <3> QED BY <1>3, <1>8, <1>9, <2>2, <3>1 DEF Took
  <2> QED BY <1>3, <2>1, <2>2
<1> QED BY <1>10, <1>11

(* Deletes are tested against the counters, so a step deletes what a       *)
(* running action holds only if it is the end of that action, and of no    *)
(* other that holds the fact.                                              *)
LEMMA GuardKept ==
    ASSUME HistoryInv,
           NEW k, NEW pre, NEW dels, NEW adds, NEW more, NEW recs, NEW st,
           Applies(k, pre, dels, adds, more, recs), Took(k, st)
    PROVE  InvariantsAreGuarded'
<1> DEFINE n == Len(applied)
           Long(s) == s.spec = "START" /\ ~CanSkipToEnd(s.act)
           At(i) == steps[applied[i] + 1]
<1>0. /\ TypeInv /\ CounterInv /\ PairsAreRecorded /\ NoStepIsAppliedTwice
      /\ EndsFollowStarts /\ StartedActionsRunOrEnd /\ InvariantsAreGuarded
  BY DEF HistoryInv, TrackInv
<1>1. Grows(n, k, st)
  BY Growing
<1> HIDE DEF n
<1>2. /\ n \in Nat /\ DOMAIN applied = 1..n /\ DOMAIN applied' = 1..n + 1
      /\ applied'[n + 1] = k /\ steps'[k + 1] = st /\ st \in StepRecords
      /\ \A i \in 1..n : /\ applied[i] \in StepIDs /\ applied'[i] = applied[i]
                         /\ steps'[applied[i] + 1] = At(i)
                         /\ At(i) \in StepRecords
  BY <1>1 DEF Grows
<1>3. \A i : i \in 1..n + 1 => i \in 1..n \/ i = n + 1
  BY <1>2
<1> SUFFICES ASSUME NEW i \in 1..n + 1, NEW j \in 1..n + 1, i < j,
                    Long(steps'[applied'[i] + 1]),
                    NEW f \in Range(Op[steps'[applied'[i] + 1].act].inv)
                              \cap Deletes(steps'[applied'[j] + 1])
             PROVE  \E m \in i + 1..j : applied'[m] = applied'[i] + 1
  BY <1>2 DEF InvariantsAreGuarded, IsLongStart, IsStarting, StepOf, PendingEnd, StepAt
<1>4. i \in 1..n /\ j \in Nat
  BY <1>2
<1> DEFINE a == At(i).act
           e == applied[i] + 1
<1>5. Long(At(i)) /\ f \in Range(Op[a].inv) /\ applied'[i] + 1 = e
  BY <1>2, <1>4
<1>6. a \in Actions /\ f \in Facts
  BY <1>2, <1>4, <1>5, RecordShapes, OperatorTypes
<1>7. CASE j \in 1..n
  <2>1. f \in Deletes(At(j))
    BY <1>2, <1>7
  <2>2. PICK m \in i + 1..j : applied[m] = e
    BY <1>0, <1>2, <1>4, <1>5, <1>7, <2>1
       DEF InvariantsAreGuarded, IsLongStart, IsStarting, StepOf, PendingEnd, StepAt
  <2>3. m \in 1..n
    BY <1>2, <1>4, <1>7
  <2> QED BY <1>2, <1>5, <2>2, <2>3
<1>8. CASE j = n + 1
  <2>1. f \in Deletes(st)
    BY <1>2, <1>8
  <2>2. e \in startedActions[a] \/ \E m \in 1..n : applied[m] = e
    BY <1>0, <1>2, <1>4, <1>5
       DEF StartedActionsRunOrEnd, IsLongStart, IsStarting, StepOf, PendingEnd, StepAt
  <2>3. CASE e \in startedActions[a]
    <3>1. <<a, e>> \in RunningOn(f)
      BY <1>5, <1>6, <2>3, RunningEndsAre DEF RunningOn
    <3>2. IsFiniteSet(RunningOn(f)) /\ invariants[f] = Cardinality(RunningOn(f))
      BY <1>0, <1>6 DEF CounterInv
    <3>3. Cardinality(RunningOn(f)) \in Nat /\ Cardinality(RunningOn(f)) # 0
      BY <3>1, <3>2, FS_CardinalityType, FS_EmptySet
    <3>4. BreaksInvariant(f)
      BY <3>2, <3>3 DEF BreaksInvariant
    <3>5. st.spec = "END" /\ invariants[f] = 1 /\ f \in Range(Op[st.act].inv)
      BY <2>1, <3>4 DEF Took
    <3>6. k \in startedActions[st.act] /\ st.act \in Actions
      BY <1>2, <3>5, RecordShapes DEF Took
    <3>7. <<st.act, k>> \in RunningOn(f)
      BY <3>5, <3>6, RunningEndsAre DEF RunningOn
    <3>8. \E x : RunningOn(f) = {x}
      BY <3>2, <3>5, FS_Singleton
    <3>9. k = e
      BY <3>1, <3>7, <3>8
    <3>10. n + 1 \in i + 1..j
      BY <1>2, <1>4, <1>8
    <3> QED BY <1>2, <1>5, <3>9, <3>10
  <2>4. ASSUME NEW m \in 1..n, applied[m] = e
        PROVE  \E x \in i + 1..j : applied'[x] = applied'[i] + 1
    <3>1. steps[e + 1].spec = "END"
      <4>1. applied[i] \in StepIDs /\ steps[applied[i] + 1].spec = "START"
        BY <1>2, <1>4, <1>5
      <4>2. steps[applied[i] + 1 + 1]
               = [spec |-> "END", act |-> steps[applied[i] + 1].act]
        BY <1>0, <4>1 DEF PairsAreRecorded, IsStarting, StepOf, PendingEnd
      <4> QED BY <4>2
    <3>2. PICK x \in 1..m - 1 : applied[m] = applied[x] + 1
      BY <1>0, <1>2, <2>4, <3>1
         DEF EndsFollowStarts, IsLongStart, IsStarting, StepOf, PendingEnd, StepAt
    <3>3. x \in 1..n /\ x < m
      BY <1>2
    <3>4. applied[x] = applied[i]
      <4>1. applied[x] \in Int /\ applied[i] \in Int
        BY <1>2, <1>4, <3>3 DEF StepIDs
      <4> QED BY <2>4, <3>2, <4>1
    <3>5. x = i
      BY <1>0, <1>2, <1>4, <3>3, <3>4 DEF NoStepIsAppliedTwice
    <3>6. m \in i + 1..j
      BY <1>2, <1>8, <3>3, <3>5
    <3> QED BY <1>2, <1>5, <2>4, <3>6
  <2> QED BY <2>2, <2>3, <2>4
<1> QED BY <1>3, <1>7, <1>8

LEMMA InitHistory == Init => HistoryInv
<1> SUFFICES ASSUME Init PROVE HistoryInv
  OBVIOUS
<1>1. TrackInv /\ CounterInv
  BY InitOrder, InitCounters DEF OrderInv
<1>2. /\ StepIDs = {} /\ DOMAIN applied = {} /\ Len(applied) = 0 /\ first = InitFacts
      /\ \A a \in Actions : startedActions[a] = {}
  BY DEF Init, StepIDs
<1>3. FactsAreRemembered
  BY <1>2, FactsAfterNone DEF FactsAreRemembered, FactsAt
<1> QED BY <1>1, <1>2, <1>3
        DEF HistoryInv, PairsAreRecorded, NoStepIsAppliedTwice, EndsFollowStarts,
            RunningEndsAwaitApplication, StartedActionsRunOrEnd, StartsComeFirst,
            StepsWereApplicable, InvariantsAreGuarded

LEMMA NextHistory == HistoryInv /\ [Next]_vars => HistoryInv'
<1> SUFFICES ASSUME HistoryInv, [Next]_vars PROVE HistoryInv'
  OBVIOUS
<1>1. TrackInv' /\ CounterInv'
  BY NextTracking, NextCounters DEF HistoryInv
<1>2. CASE Next
  <2>1. PICK k, pre, dels, adds, more, recs, st :
           Applies(k, pre, dels, adds, more, recs) /\ Took(k, st)
    BY <1>2, EveryStepTakes DEF HistoryInv, TrackInv
  <2> QED BY <1>1, <2>1, PairsKept, RunningKept, FactsKept, GuardKept DEF HistoryInv
<1>3. CASE UNCHANGED vars
  <2>1. UNCHANGED <<first, startedActions, stepsBefore, planLength, steps, applied>>
    BY <1>3 DEF vars, stateVars
  <2>2. \A n : FactsAt(n)' = FactsAt(n)
    BY <2>1 DEF FactsAt, StepAt, StepOf
  <2>3. FactsAreRemembered' /\ StepsWereApplicable'
    BY <2>1, <2>2 DEF HistoryInv, FactsAreRemembered, StepsWereApplicable, StepAt, StepOf
  <2>4. /\ PairsAreRecorded' /\ NoStepIsAppliedTwice' /\ EndsFollowStarts'
        /\ RunningEndsAwaitApplication' /\ StartedActionsRunOrEnd' /\ StartsComeFirst'
        /\ InvariantsAreGuarded'
    BY <2>1 DEF HistoryInv, PairsAreRecorded, NoStepIsAppliedTwice, EndsFollowStarts,
                RunningEndsAwaitApplication, StartedActionsRunOrEnd, StartsComeFirst,
                InvariantsAreGuarded, IsStarting, IsLongStart, StepAt, StepOf, StepIDs,
                PendingEnd
  <2> QED BY <1>1, <2>3, <2>4 DEF HistoryInv
<1> QED BY <1>2, <1>3

-----------------------------------------------------------------------------
(* The plan that is handed over.                                           *)
LEMMA PlanShape ==
    ASSUME HistoryInv
    PROVE  /\ Len(applied) \in Nat /\ DOMAIN applied = 1..Len(applied)
           /\ StepIDs \subseteq Nat /\ stepsBefore \subseteq StepIDs \X StepIDs
           /\ epsilonBefore \subseteq stepsBefore
           /\ \A i \in 1..Len(applied) :
                 /\ applied[i] \in StepIDs /\ StepAt(i) \in StepRecords
                 /\ SkippedStart(applied[i]) =>
                       /\ StepAt(i).act \in Actions
                       /\ <<applied[i], PendingEnd(applied[i])>> \in stepsBefore
                       /\ StepOf(PendingEnd(applied[i])) = [spec |-> "END", act |-> StepAt(i).act]
                       /\ \A j \in 1..Len(applied) : applied[j] # PendingEnd(applied[i])
           /\ \A i \in 2..Len(applied) : <<applied[i - 1], applied[i]>> \in stepsBefore
           /\ \A k : k \in PlanSteps <=>
                 \/ \E i \in 1..Len(applied) : k = applied[i]
                 \/ \E i \in 1..Len(applied) : SkippedStart(applied[i]) /\ k = PendingEnd(applied[i])
<1> DEFINE n == Len(applied)
<1>0. /\ TypeInv /\ AppliedStepsAreAChain /\ PairsAreRecorded /\ EndsFollowStarts
      /\ StartsComeFirst
  BY DEF HistoryInv, TrackInv
<1>1. /\ applied \in Seq(StepIDs) /\ steps \in Seq(StepRecords) /\ Len(steps) = planLength
      /\ planLength \in Nat /\ stepsBefore \subseteq StepIDs \X StepIDs
      /\ epsilonBefore \subseteq stepsBefore
  BY <1>0 DEF TypeInv, TypeOK
<1>2. n \in Nat /\ DOMAIN applied = 1..n /\ \A i \in 1..n : applied[i] \in StepIDs
  BY <1>1, LenProperties, ElementOfSeq
<1>3. StepIDs \subseteq Nat
  BY <1>1 DEF StepIDs
<1>4. \A j \in StepIDs : steps[j + 1] \in StepRecords
  <2> HIDE DEF StepRecords
  <2>1. \A x \in 1..planLength : steps[x] \in StepRecords
    BY <1>1, ElementOfSeq
  <2> QED BY <1>1, <2>1 DEF StepIDs
<1> HIDE DEF n
<1>5. ASSUME NEW i \in 1..n, SkippedStart(applied[i])
      PROVE  /\ StepAt(i).act \in Actions
             /\ <<applied[i], PendingEnd(applied[i])>> \in stepsBefore
             /\ StepOf(PendingEnd(applied[i])) = [spec |-> "END", act |-> StepAt(i).act]
             /\ \A j \in 1..n : applied[j] # PendingEnd(applied[i])
  <2>1. IsStarting(applied[i]) /\ CanSkipToEnd(StepOf(applied[i]).act)
    BY <1>5 DEF SkippedStart, IsStarting
  <2>2. StepAt(i).act \in Actions
    BY <1>2, <1>4, <2>1, RecordShapes DEF IsStarting, StepAt, StepOf
  <2>3. <<applied[i], PendingEnd(applied[i])>> \in stepsBefore
    BY <1>0, <1>2, <2>1 DEF StartsComeFirst
  <2>4. StepOf(PendingEnd(applied[i])) = [spec |-> "END", act |-> StepAt(i).act]
    BY <1>0, <1>2, <2>1 DEF PairsAreRecorded, StepAt
  <2>5. ASSUME NEW j \in 1..n, applied[j] = PendingEnd(applied[i])  PROVE FALSE
    <3>1. StepAt(j).spec = "END"
      BY <2>4, <2>5 DEF StepAt
    <3>2. PICK m \in 1..j - 1 : /\ IsLongStart(applied[m])
                                /\ applied[j] = PendingEnd(applied[m])
      BY <1>0, <1>2, <3>1 DEF EndsFollowStarts
    <3>3. m \in 1..n
      BY <1>2
    <3>4. applied[m] = applied[i]
      <4>1. applied[m] \in Nat /\ applied[i] \in Nat
        BY <1>2, <1>3, <3>3
      <4> QED BY <2>5, <3>2, <4>1 DEF PendingEnd
    <3> QED BY <2>1, <3>2, <3>4 DEF IsLongStart
  <2> QED BY <2>2, <2>3, <2>4, <2>5
<1>6. \A i \in 2..n : <<applied[i - 1], applied[i]>> \in stepsBefore
  <2> SUFFICES ASSUME NEW i \in 2..n  PROVE <<applied[i - 1], applied[i]>> \in epsilonBefore
    BY <1>1
  <2>1. i \in DOMAIN applied \ {1}
    BY <1>2
  <2> QED BY <1>0, <2>1 DEF AppliedStepsAreAChain
<1>7. \A k : k \in PlanSteps <=>
         \/ \E i \in 1..n : k = applied[i]
         \/ \E i \in 1..n : SkippedStart(applied[i]) /\ k = PendingEnd(applied[i])
  BY <1>2 DEF PlanSteps
<1> QED BY <1>1, <1>2, <1>3, <1>4, <1>5, <1>6, <1>7 DEF StepAt, StepOf, n

(* What the executor may run next: the next applied step, or the pending   *)
(* end of a step that it has run.                                          *)
LEMMA ReadyIsNext ==
    ASSUME HistoryInv, NEW p \in Nat, DoneUpTo(p), NEW k, Ready(k)
    PROVE  /\ p + 1 \in Nat /\ p <= Len(applied)
           /\ \/ p + 1 \in 1..Len(applied) /\ k = applied[p + 1]
              \/ \E i \in 1..p : /\ i \in 1..Len(applied) /\ SkippedStart(applied[i])
                                 /\ k = PendingEnd(applied[i])
<1>1. PICK n : n = Len(applied)
  OBVIOUS
<1>2. /\ n \in Nat /\ DOMAIN applied = 1..n
      /\ \A i \in 1..n : SkippedStart(applied[i]) =>
            <<applied[i], PendingEnd(applied[i])>> \in stepsBefore
      /\ \A i \in 2..n : <<applied[i - 1], applied[i]>> \in stepsBefore
      /\ \/ \E i \in 1..n : k = applied[i]
         \/ \E i \in 1..n : SkippedStart(applied[i]) /\ k = PendingEnd(applied[i])
  BY <1>1, PlanShape DEF Ready
<1>3. p \in 0..n /\ \A i \in 1..n : applied[i] \in done <=> i <= p
  BY <1>1, <1>2 DEF DoneUpTo
<1>4. k \notin done /\ \A b : <<b, k>> \in stepsBefore => b \in done
  BY DEF Ready
<1>5. ASSUME NEW i \in 1..n, k = applied[i]  PROVE i = p + 1
  <2>1. i > p
    BY <1>3, <1>4, <1>5
  <2>2. CASE i = 1
    BY <1>3, <2>1, <2>2
  <2>3. CASE i # 1
    <3>1. i \in 2..n /\ i - 1 \in 1..n
      BY <1>2, <2>3
    <3>2. applied[i - 1] \in done
      BY <1>2, <1>4, <1>5, <3>1
    <3> QED BY <1>3, <2>1, <3>1, <3>2
  <2> QED BY <2>2, <2>3
<1>6. ASSUME NEW i \in 1..n, SkippedStart(applied[i]), k = PendingEnd(applied[i])
      PROVE  i \in 1..p
  <2>1. applied[i] \in done
    BY <1>2, <1>4, <1>6
  <2> QED BY <1>3, <2>1
<1> QED BY <1>1, <1>2, <1>3, <1>5, <1>6

(* A step that concerns a compression-safe action is not run before the    *)
(* pending end of that action.                                             *)
LEMMA ConcernedStepsWait ==
    ASSUME HistoryInv, NothingIsSkipped, NEW p \in Nat, DoneUpTo(p),
           NEW i \in 1..Len(applied), NEW j \in 1..Len(applied), i < j,
           j <= p \/ (j = p + 1 /\ Ready(applied[j])),
           SkippedStart(applied[i]), Concerns(StepAt(j), StepAt(i).act)
    PROVE  PendingEnd(applied[i]) \in done
<1>1. PICK n : n = Len(applied)
  OBVIOUS
<1>2. /\ n \in Nat /\ DOMAIN applied = 1..n /\ epsilonBefore \subseteq stepsBefore
      /\ stepsBefore \subseteq StepIDs \X StepIDs
  BY <1>1, PlanShape
<1>3. p \in 0..n /\ \A x \in 1..n : applied[x] \in done <=> x <= p
  BY <1>1, <1>2 DEF DoneUpTo
<1>4. PICK m \in i + 1..j : <<PendingEnd(applied[i]), applied[m]>> \in epsilonBefore
  BY <1>1, <1>2 DEF HistoryInv, TrackInv, PendingEndsRespected, StepAt
<1>5. PICK edge \in stepsBefore : edge[1] = PendingEnd(applied[i]) /\ edge[2] = applied[m]
  BY <1>2, <1>4
<1>6. CASE m <= p
  <2>1. applied[m] \in done
    BY <1>1, <1>2, <1>3, <1>6
  <2> QED BY <1>5, <2>1 DEF NothingIsSkipped
<1>7. CASE m = p + 1
  <2>1. j = p + 1 /\ Ready(applied[j])
    BY <1>2, <1>3, <1>7
  <2> QED BY <1>5, <1>7, <2>1 DEF Ready
<1>8. m <= p \/ m = p + 1
  BY <1>1, <1>2, <1>3
<1> QED BY <1>6, <1>7, <1>8

-----------------------------------------------------------------------------
(* Running a step.                                                         *)
LEMMA UnchangedPlan ==
    ASSUME HistoryInv, UNCHANGED vars
    PROVE  /\ HistoryInv' /\ PlanSteps' = PlanSteps
           /\ stepsBefore' = stepsBefore /\ applied' = applied /\ first' = first
           /\ \A k : StepOf(k)' = StepOf(k) /\ SkippedStart(k)' = SkippedStart(k)
           /\ \A i : StepAt(i)' = StepAt(i)
           /\ \A n : FactsAt(n)' = FactsAt(n)
<1>1. UNCHANGED <<first, stepsBefore, steps, applied>>
  BY DEF vars, stateVars
<1>2. HistoryInv'
  BY NextHistory
<1>3. PlanSteps' = PlanSteps
  BY <1>1 DEF PlanSteps, SkippedStart, StepOf
<1>4. \A n : FactsAt(n)' = FactsAt(n)
  BY <1>1 DEF FactsAt, StepAt, StepOf
<1> QED BY <1>1, <1>2, <1>3, <1>4 DEF StepAt, StepOf, SkippedStart

(* The executor has run the chain up to some step, before and after.       *)
LEMMA RunningMovesOn ==
    ASSUME HistoryInv, NothingIsSkipped, NEW p \in Nat, DoneUpTo(p), NEW k, Execute(k)
    PROVE  /\ NothingIsSkipped'
           /\ p + 1 \in 1..Len(applied) /\ k = applied[p + 1] => DoneUpTo(p + 1)'
           /\ \A i \in 1..p : (/\ i \in 1..Len(applied) /\ SkippedStart(applied[i])
                               /\ k = PendingEnd(applied[i])) => DoneUpTo(p)'
<1>1. /\ UNCHANGED vars /\ Ready(k) /\ done' = done \cup {k}
  BY DEF Execute
<1>2. PICK n : n = Len(applied)
  OBVIOUS
<1>3. /\ n \in Nat /\ DOMAIN applied = 1..n
      /\ \A i \in 1..n : SkippedStart(applied[i]) =>
            \A j \in 1..n : applied[j] # PendingEnd(applied[i])
  BY <1>2, PlanShape
<1>4. /\ PlanSteps' = PlanSteps /\ stepsBefore' = stepsBefore /\ applied' = applied
  BY <1>1, UnchangedPlan
<1>5. p \in 0..n /\ \A i \in 1..n : applied[i] \in done <=> i <= p
  BY <1>2, <1>3 DEF DoneUpTo
<1>6. NothingIsSkipped'
  <2>1. done' \subseteq PlanSteps'
    BY <1>1, <1>4 DEF NothingIsSkipped, Ready
  <2>2. \A edge \in stepsBefore' : edge[2] \in done' => edge[1] \in done'
    BY <1>1, <1>4 DEF NothingIsSkipped, Ready
  <2> QED BY <2>1, <2>2 DEF NothingIsSkipped
<1>7. ASSUME p + 1 \in 1..n, k = applied[p + 1]  PROVE DoneUpTo(p + 1)'
  <2>1. \A i, j \in 1..n : applied[i] = applied[j] => i = j
    BY <1>3 DEF HistoryInv, NoStepIsAppliedTwice
  <2>2. \A i \in 1..n : applied[i] \in done' <=> i <= p + 1
    <3> SUFFICES ASSUME NEW i \in 1..n PROVE applied[i] \in done' <=> i <= p + 1
      OBVIOUS
    <3>1. i <= p + 1 <=> i <= p \/ i = p + 1
      BY <1>5
    <3> QED BY <1>1, <1>5, <1>7, <2>1, <3>1
  <2> QED BY <1>2, <1>3, <1>4, <1>7, <2>2 DEF DoneUpTo
<1>8. ASSUME NEW i \in 1..p, i \in 1..n, SkippedStart(applied[i]), k = PendingEnd(applied[i])
      PROVE  DoneUpTo(p)'
  <2>1. \A j \in 1..n : applied[j] \in done' <=> j <= p
    BY <1>1, <1>3, <1>5, <1>8
  <2> QED BY <1>2, <1>3, <1>4, <1>5, <2>1 DEF DoneUpTo
<1> QED BY <1>2, <1>6, <1>7, <1>8

LEMMA InitRun == ExecInit => RunInv
<1> SUFFICES ASSUME ExecInit PROVE RunInv
  OBVIOUS
<1>1. HistoryInv /\ done = {} /\ world = InitFacts /\ DOMAIN applied = {} /\ Len(applied) = 0
  BY InitHistory DEF ExecInit, Init
<1>2. DoneUpTo(0)
  BY <1>1 DEF DoneUpTo
<1> QED BY <1>1, <1>2 DEF RunInv, NothingIsSkipped

LEMMA NextRun == RunInv /\ [ExecNext]_<<vars, execVars>> => RunInv'
<1> SUFFICES ASSUME RunInv, [ExecNext]_<<vars, execVars>> PROVE RunInv'
  OBVIOUS
<1>0. HistoryInv /\ NothingIsSkipped
  BY DEF RunInv
<1>1. CASE Search
  <2>1. ~executing /\ [Next]_vars /\ done' = {} /\ world' = InitFacts
    BY <1>1 DEF Search, execVars, RunInv
  <2>2. HistoryInv'
    BY <1>0, <2>1, NextHistory
  <2>3. Len(applied') \in Nat /\ DOMAIN applied' = 1..Len(applied')
    <3>1. applied' \in Seq(StepIDs')
      BY <2>2 DEF HistoryInv, TrackInv, TypeInv, TypeOK
    <3> QED BY <3>1, LenProperties
  <2>4. DoneUpTo(0)'
    BY <2>1, <2>3 DEF DoneUpTo
  <2> QED BY <2>1, <2>2, <2>4 DEF RunInv, NothingIsSkipped
<1>2. CASE HandOver \/ UNCHANGED <<vars, execVars>>
  <2>1. UNCHANGED vars /\ done' = done /\ world' = world /\ (executing => executing')
    BY <1>2 DEF HandOver, execVars
  <2>2. /\ HistoryInv' /\ PlanSteps' = PlanSteps
        /\ stepsBefore' = stepsBefore /\ applied' = applied
    BY <1>0, <2>1, UnchangedPlan
  <2>3. PICK p \in Nat : DoneUpTo(p)
    BY DEF RunInv
  <2>4. DoneUpTo(p)'
    BY <2>1, <2>2, <2>3 DEF DoneUpTo
  <2>5. NothingIsSkipped'
    BY <1>0, <2>1, <2>2 DEF NothingIsSkipped
  <2>6. executing' \/ (done' = {} /\ world' = InitFacts)
    BY <2>1 DEF RunInv
  <2> QED BY <2>2, <2>3, <2>4, <2>5, <2>6 DEF RunInv
<1>3. ASSUME executing, NEW k \in PlanSteps, Execute(k)  PROVE RunInv'
  <2>1. PICK p \in Nat : DoneUpTo(p)
    BY DEF RunInv
  <2>2. UNCHANGED <<vars, executing>> /\ Ready(k)
    BY <1>3 DEF Execute
  <2>3. HistoryInv'
    BY <1>0, <2>2, UnchangedPlan
  <2>4. \E q \in Nat : DoneUpTo(q)'
    BY <1>0, <1>3, <2>1, <2>2, ReadyIsNext, RunningMovesOn
  <2>5. NothingIsSkipped'
    BY <1>0, <1>3, <2>1, RunningMovesOn
  <2> QED BY <1>3, <2>2, <2>3, <2>4, <2>5 DEF RunInv
<1> QED BY <1>1, <1>2, <1>3 DEF ExecNext

(* A plan whose orderings have no cycle, and make its steps wait for steps *)
(* of the plan only, can always go on.                                     *)
LEMMA OrderedPlansGoOn ==
    ASSUME RunInv, PlanOrderingsFollow
    PROVE  NeverStuck
<1> SUFFICES ASSUME ~(PlanSteps \subseteq done)
             PROVE  \E k \in PlanSteps : Ready(k)
  BY DEF NeverStuck
<1>1. /\ HistoryInv /\ PlanOrderingsFollow /\ NoStepIsAppliedTwice
      /\ PairsAreRecorded /\ EndsFollowStarts
  BY DEF RunInv, HistoryInv, TrackInv
<1>2. PICK p \in Nat : DoneUpTo(p)
  BY DEF RunInv
<1>3. PICK n : n = Len(applied)
  OBVIOUS
<1>4. /\ n \in Nat /\ DOMAIN applied = 1..n /\ StepIDs \subseteq Nat
      /\ stepsBefore \subseteq StepIDs \X StepIDs
      /\ \A i \in 1..n :
            /\ applied[i] \in StepIDs
            /\ SkippedStart(applied[i]) =>
                  \A j \in 1..n : applied[j] # PendingEnd(applied[i])
      /\ \A k : k \in PlanSteps <=>
            \/ \E i \in 1..n : k = applied[i]
            \/ \E i \in 1..n : SkippedStart(applied[i]) /\ k = PendingEnd(applied[i])
  BY <1>1, <1>3, PlanShape
<1>5. p \in 0..n /\ \A i \in 1..n : applied[i] \in done <=> i <= p
  BY <1>2, <1>3, <1>4 DEF DoneUpTo
<1>6. \A edge \in stepsBefore : edge[1] \in StepIDs /\ edge[1] \in Nat /\ edge[2] \in StepIDs
  BY <1>4
<1>7. ASSUME NEW i \in 1..p, i \in 1..n, SkippedStart(applied[i]),
             PendingEnd(applied[i]) \notin done
      PROVE  PendingEnd(applied[i]) \in PlanSteps /\ Ready(PendingEnd(applied[i]))
  <2>1. PendingEnd(applied[i]) \in PlanSteps
    BY <1>4, <1>7
  <2>2. ASSUME NEW edge \in stepsBefore, edge[2] = PendingEnd(applied[i])
        PROVE  edge[1] \in done
    <3>1. edge[2] = PendingEnd(edge[1])
      BY <1>1, <1>4, <1>7, <2>1, <2>2 DEF PlanOrderingsFollow, Follows
    <3>2. edge[1] \in Nat /\ applied[i] \in Nat
      BY <1>4, <1>6, <1>7
    <3>3. edge[1] = applied[i]
      BY <2>2, <3>1, <3>2 DEF PendingEnd
    <3> QED BY <1>4, <1>5, <1>7, <3>3
  <2> QED BY <1>7, <2>1, <2>2 DEF Ready
<1>8. ASSUME \A i \in 1..p : (i \in 1..n /\ SkippedStart(applied[i]))
                                => PendingEnd(applied[i]) \in done
      PROVE  \E k \in PlanSteps : Ready(k)
  <2>1. PICK k \in PlanSteps : k \notin done
    OBVIOUS
  <2>2. p + 1 \in 1..n
    <3>1. ASSUME NEW i \in 1..n, i > p  PROVE p + 1 \in 1..n
      BY <1>4, <1>5, <3>1
    <3>2. CASE \E i \in 1..n : k = applied[i]
      <4>1. PICK i \in 1..n : k = applied[i]
        BY <3>2
      <4>2. i > p
        BY <1>5, <2>1, <4>1
      <4> QED BY <3>1, <4>2
    <3>3. CASE \E i \in 1..n : SkippedStart(applied[i]) /\ k = PendingEnd(applied[i])
      <4>1. PICK i \in 1..n : SkippedStart(applied[i]) /\ k = PendingEnd(applied[i])
        BY <3>3
      <4>2. i > p
        BY <1>5, <1>8, <2>1, <4>1
      <4> QED BY <3>1, <4>2
    <3> QED BY <1>4, <3>2, <3>3
  <2>3. applied[p + 1] \in PlanSteps /\ applied[p + 1] \notin done
    BY <1>4, <1>5, <2>2
  <2>4. ASSUME NEW edge \in stepsBefore, edge[2] = applied[p + 1]
        PROVE  edge[1] \in done
    <3>1. CASE StepOf(edge[1]).spec = "START" /\ edge[2] = PendingEnd(edge[1])
      <4>1. StepOf(PendingEnd(edge[1])) = [spec |-> "END", act |-> StepOf(edge[1]).act]
        BY <1>1, <1>6, <3>1 DEF PairsAreRecorded, IsStarting
      <4>2. StepAt(p + 1).spec = "END"
        BY <2>4, <3>1, <4>1 DEF StepAt
      <4>3. PICK i \in 1..p + 1 - 1 : applied[p + 1] = PendingEnd(applied[i])
        BY <1>1, <1>4, <2>2, <4>2 DEF EndsFollowStarts
      <4>4. i \in 1..n /\ i <= p
        BY <1>4, <1>5
      <4>5. edge[1] \in Nat /\ applied[i] \in Nat
        BY <1>4, <1>6, <4>4
      <4>6. edge[1] = applied[i]
        <5>1. PendingEnd(edge[1]) = PendingEnd(applied[i])
          BY <2>4, <3>1, <4>3
        <5> QED BY <4>5, <5>1 DEF PendingEnd
      <4> QED BY <1>5, <4>4, <4>6
    <3>2. ASSUME NEW i \in DOMAIN applied, edge[2] = applied[i], EarlierThan(edge[1], i)
          PROVE  edge[1] \in done
      <4>1. i = p + 1
        BY <1>1, <1>4, <2>2, <2>4, <3>2 DEF NoStepIsAppliedTwice
      <4>2. PICK j \in 1..p : \/ edge[1] = applied[j]
                              \/ SkippedStart(applied[j]) /\ edge[1] = PendingEnd(applied[j])
        BY <3>2, <4>1 DEF EarlierThan
      <4>3. j \in 1..n /\ j <= p
        BY <1>4, <1>5
      <4> QED BY <1>5, <1>8, <4>2, <4>3
    <3> QED BY <1>1, <2>3, <2>4, <3>1, <3>2 DEF PlanOrderingsFollow, Follows
  <2> QED BY <2>3, <2>4 DEF Ready
<1> QED BY <1>7, <1>8

(* The orderings never leave the executor without a step to run: they have *)
(* no cycle, and a step waits only for steps of the plan.                  *)
THEOREM ExecutorIsNeverStuck == ExecSpec => []NeverStuck
<1>1. RunInv /\ OrderingsFollowApplication => NeverStuck
  BY OrderedPlansGoOn DEF PlanOrderingsFollow, Follows, OrderingsFollowApplication
<1>2. ExecInit => Init
  BY DEF ExecInit
<1>3. [ExecNext]_<<vars, execVars>> => [Next]_vars
  BY DEF ExecNext, Search, HandOver, Execute
<1> QED BY InitRun, NextRun, InitOrder, NextOrder, <1>1, <1>2, <1>3, PTL
        DEF ExecSpec, OrderInv

-----------------------------------------------------------------------------
(* What the hypotheses say of a step.                                      *)
LEMMA SkippableShape ==
    ASSUME NEW a \in Actions, CanSkipToEnd(a)
    PROVE  /\ Range(Op[a].endPre) \subseteq Range(Op[a].inv)
           /\ Op[a].endNeg \subseteq Op[a].invNeg
           /\ Op[a].endDel \subseteq Scrubbed
BY DEF CanSkipToEnd, Scrubbed

LEMMA ConditionsAreMentioned ==
    ASSUME NEW a \in Actions
    PROVE  /\ Range(Op[a].startPre) \subseteq PreconditionFacts
           /\ Range(Op[a].inv) \subseteq PreconditionFacts
           /\ Range(Op[a].endPre) \subseteq PreconditionFacts
BY OperatorTypes DEF PreconditionFacts, NeededAtStart, NeededOverAll, NeededAtEnd

LEMMA NegativesAreUnscrubbed ==
    ASSUME NegativesIgnoreEarlyDeletes, NEW a \in Actions
    PROVE  /\ Op[a].startNeg \cap Scrubbed = {} /\ Op[a].invNeg \cap Scrubbed = {}
           /\ Op[a].endNeg \cap Scrubbed = {}
<1>1. Op[a].startNeg \cup Op[a].invNeg \cup Op[a].endNeg \subseteq NegativePreconditionFacts
  BY DEF NegativePreconditionFacts
<1> QED BY <1>1 DEF NegativesIgnoreEarlyDeletes

LEMMA OwnIsTested ==
    ASSUME NegativesIgnoreEarlyDeletes, NEW st \in StepRecords
    PROVE  /\ OwnConditions(st) \subseteq Conditions(st)
           /\ OwnConditions(st) \subseteq Facts \cap PreconditionFacts
           /\ OwnNegatives(st) \subseteq Negatives(st)
           /\ OwnNegatives(st) \cap Scrubbed = {}
<1>1. CASE st.spec = "TIL"
  BY <1>1 DEF OwnConditions, Conditions, OwnNegatives, Negatives
<1>2. CASE st.spec # "TIL"
  <2>1. st.act \in Actions
    BY <1>2, RecordShapes
  <2>2. Range(Op[st.act].startPre) \subseteq Range(ProcessedStartPre(st.act))
    BY <2>1, ProcessedPreconditions
  <2>3. Op[st.act].startNeg \subseteq ProcessedStartNeg(st.act)
    BY DEF ProcessedStartNeg
  <2>4. Range(Op[st.act].startPre) \subseteq Facts /\ Range(Op[st.act].endPre) \subseteq Facts
    BY <2>1, OperatorTypes
  <2>5. st.spec \in {"INSTANT", "START", "END"}
    BY <1>2, RecordShapes
  <2> QED BY <2>1, <2>2, <2>3, <2>4, <2>5, ConditionsAreMentioned, NegativesAreUnscrubbed
          DEF OwnConditions, Conditions, OwnNegatives, Negatives
<1> QED BY <1>1, <1>2

LEMMA AdditionsAreAdded ==
    ASSUME NEW st \in StepRecords, NEW f \in Additions(st) \cup EarlyAdditions(st)
    PROVE  Added(f)
<1>1. CASE st.spec = "TIL"
  BY <1>1, RecordShapes DEF Additions, EarlyAdditions, Added, AddedByTIL
<1>2. CASE st.spec # "TIL"
  BY <1>2, RecordShapes DEF Additions, EarlyAdditions, Added, Adds
<1> QED BY <1>1, <1>2

LEMMA EarlyDeletesAreScrubbed ==
    ASSUME NEW st \in StepRecords
    PROVE  EarlyDeletes(st) \subseteq Scrubbed
BY RecordShapes, SkippableShape DEF EarlyDeletes

-----------------------------------------------------------------------------
(* The facts of the search, by steps applied.                              *)
LEMMA FactsAtNext ==
    ASSUME HistoryInv, NEW p \in Nat, p + 1 \in 1..Len(applied)
    PROVE  /\ FactsAt(p + 1) = (FactsAt(p) \ Takes(StepAt(p + 1))) \cup Gives(StepAt(p + 1))
           /\ Conditions(StepAt(p + 1)) \subseteq FactsAt(p)
           /\ Negatives(StepAt(p + 1)) \cap FactsAt(p) = {}
           /\ StepAt(p + 1) \in StepRecords
<1> DEFINE sts == [i \in DOMAIN applied |-> StepAt(i)]
<1>1. /\ DOMAIN applied = 1..Len(applied) /\ StepAt(p + 1) \in StepRecords
      /\ sts[p + 1] = StepAt(p + 1)
  BY PlanShape
<1>2. \A n : FactsAt(n) = FactsAfter(sts, n)
  BY DEF FactsAt
<1> HIDE DEF sts
<1>3. Gives(sts[p + 1]) \subseteq Facts
  BY <1>1, EffectsAreFacts
<1>4. FactsAt(p + 1) = (FactsAt(p) \ Takes(StepAt(p + 1))) \cup Gives(StepAt(p + 1))
  BY <1>1, <1>2, <1>3, FactsAfterOneMore
<1>5. p + 1 - 1 = p
  OBVIOUS
<1> QED BY <1>1, <1>4, <1>5 DEF HistoryInv, StepsWereApplicable

LEMMA FactsAtLast ==
    ASSUME HistoryInv, NEW p \in Nat, p <= Len(applied), NEW f \in Facts, NEW i \in 1..p,
           f \in Gives(StepAt(i)), \A j \in i + 1..p : f \notin Takes(StepAt(j))
    PROVE  f \in FactsAt(p)
<1>1. PICK n : n = Len(applied)
  OBVIOUS
<1>2. n \in Nat /\ DOMAIN applied = 1..n
  BY <1>1, PlanShape
<1>3. i \in 1..n /\ \A j \in i + 1..p : j \in 1..n
  BY <1>1, <1>2
<1> QED BY <1>2, <1>3 DEF FactsAt, FactsAfter

(* What the executor runs next: its record, and what has run.              *)
LEMMA NextStepIsOfChain ==
    ASSUME HistoryInv, NothingIsSkipped, NEW p \in Nat, DoneUpTo(p), WorldFollows(p),
           p + 1 \in 1..Len(applied), Ready(applied[p + 1])
    PROVE  /\ Conditions(StepAt(p + 1)) \ Scrubbed \subseteq world
           /\ (Negatives(StepAt(p + 1)) \ Scrubbed) \cap world \cap Facts = {}
<1>1. PICK n : n = Len(applied)
  OBVIOUS
<1>2. p \in 0..n /\ n \in Nat
  BY <1>1, PlanShape DEF DoneUpTo
<1>3. /\ Conditions(StepAt(p + 1)) \subseteq FactsAt(p)
      /\ Negatives(StepAt(p + 1)) \cap FactsAt(p) = {}
  BY FactsAtNext
<1>4. FactsAt(p) \subseteq Facts
  BY DEF FactsAt, FactsAfter
<1>5. ASSUME NEW f \in Conditions(StepAt(p + 1)), f \notin Scrubbed, f \notin world
      PROVE  FALSE
  <2>1. StillToCome(p, f)
    BY <1>3, <1>4, <1>5 DEF WorldFollows
  <2>2. PICK i \in 1..p : /\ SkippedStart(applied[i]) /\ PendingEnd(applied[i]) \notin done
                          /\ f \in Op[StepAt(i).act].endAdd
    BY <2>1 DEF StillToCome
  <2>3. Concerns(StepAt(p + 1), StepAt(i).act)
    BY <1>5, <2>2 DEF Concerns
  <2>4. i \in 1..n /\ i < p + 1
    BY <1>2
  <2> QED BY <1>1, <2>2, <2>3, <2>4, ConcernedStepsWait
<1>6. (Negatives(StepAt(p + 1)) \ Scrubbed) \cap world \cap Facts = {}
  BY <1>3 DEF WorldFollows
<1> QED BY <1>5, <1>6

(* A pending end that can run: its action runs, and it deletes no fact that*)
(* a condition mentions.                                                   *)
LEMMA NextStepIsPending ==
    ASSUME HistoryInv, NEW p \in Nat, DoneUpTo(p), NEW i \in 1..p, i \in 1..Len(applied),
           SkippedStart(applied[i]), Ready(PendingEnd(applied[i]))
    PROVE  LET a == StepAt(i).act
               st == StepOf(PendingEnd(applied[i]))
           IN /\ a \in Actions /\ CanSkipToEnd(a)
              /\ st \in StepRecords
              /\ Deletes(st) = Op[a].endDel /\ Additions(st) = Op[a].endAdd
              /\ OwnConditions(st) = Range(Op[a].endPre) /\ OwnNegatives(st) = Op[a].endNeg
              /\ applied[i] \in done /\ PendingEnd(applied[i]) \notin done
<1>1. /\ StepAt(i).act \in Actions
      /\ StepOf(PendingEnd(applied[i])) = [spec |-> "END", act |-> StepAt(i).act]
      /\ DOMAIN applied = 1..Len(applied) /\ Len(applied) \in Nat
  BY PlanShape
<1>2. applied[i] \in done
  BY <1>1 DEF DoneUpTo
<1>3. StepOf(PendingEnd(applied[i])) \in StepRecords
  BY <1>1 DEF StepRecords
<1>4. CanSkipToEnd(StepAt(i).act)
  BY DEF SkippedStart, StepAt
<1>5. PendingEnd(applied[i]) \notin done
  BY DEF Ready
<1> QED BY <1>1, <1>2, <1>3, <1>4, <1>5
        DEF Deletes, Additions, OwnConditions, Conditions, OwnNegatives

-----------------------------------------------------------------------------
(* Tokens: facts that compression-safe ends delete and that are conditions.*)
LEMMA NeverAdded ==
    ASSUME HistoryInv, NEW m \in Nat, m <= Len(applied), NEW f \in Facts, ~Added(f)
    PROVE  f \in FactsAt(m) <=>
              /\ f \in InitFacts
              /\ \A j \in 1..m : f \notin Deletes(StepAt(j)) /\ f \notin EarlyDeletes(StepAt(j))
<1>1. PICK n : n = Len(applied)
  OBVIOUS
<1>2. n \in Nat /\ DOMAIN applied = 1..n /\ \A i \in 1..n : StepAt(i) \in StepRecords
  BY <1>1, PlanShape
<1>3. /\ \A j \in 1..m : j \in 1..n
      /\ \A i \in 1..m : \A j \in i + 1..m : j \in 1..n
  BY <1>1, <1>2
<1>4. \A i \in 1..n : f \notin Additions(StepAt(i)) /\ f \notin EarlyAdditions(StepAt(i))
  BY <1>2, AdditionsAreAdded
<1>5. \A i \in 1..n : f \notin Gives(StepAt(i))
  BY <1>4 DEF Gives
<1>6. f \in FactsAt(m) <=> f \in InitFacts /\ \A i \in 1..m : f \notin Takes(StepAt(i))
  BY <1>2, <1>3, <1>5 DEF FactsAt, FactsAfter
<1>7. \A i \in 1..m : f \in Takes(StepAt(i)) <=>
                         f \in Deletes(StepAt(i)) \/ f \in EarlyDeletes(StepAt(i))
  BY <1>3, <1>5 DEF Takes
<1> QED BY <1>6, <1>7

(* What scrubs a condition is the idiom, which no literal deletes and whose*)
(* holders all delete it; under the hypothesis they are compression safe.  *)
LEMMA TokenShape ==
    ASSUME TokensAreSpentOnce, NEW f \in Scrubbed \cap PreconditionFacts
    PROVE  /\ f \in Facts /\ ~Added(f) /\ ~DeletedByTIL(f)
           /\ \A a \in Actions : f \in Range(Op[a].inv) =>
                 f \in Op[a].endDel /\ CanSkipToEnd(a) /\ f \in Range(ProcessedStartPre(a))
           /\ \A a \in Actions : f \in Op[a].startDel => f \in Range(Op[a].startPre)
           /\ \A a \in Actions : f \in Op[a].endDel => CanSkipToEnd(a) /\ f \in Range(Op[a].inv)
<1>1. PICK b \in Actions : CanSkipToEnd(b) /\ f \in Op[b].endDel
  BY DEF Scrubbed
<1>2. f \in HoldThroughoutDeleteAtEnd
  BY <1>1 DEF CanSkipToEnd, NoOverlap
<1>3. f \in Facts /\ ~DeletedByTIL(f) /\ NeededOverAll(f) \subseteq DeletedAtEnd(f)
  BY <1>2 DEF HoldThroughoutDeleteAtEnd
<1>4. /\ ~Added(f)
      /\ \A a \in Actions : f \in Op[a].startDel => f \in Range(Op[a].startPre)
      /\ \A a \in Actions : f \in Op[a].endDel => CanSkipToEnd(a) /\ f \in Range(Op[a].inv)
  BY DEF TokensAreSpentOnce
<1>5. ASSUME NEW a \in Actions, f \in Range(Op[a].inv)
      PROVE  f \in Op[a].endDel /\ CanSkipToEnd(a) /\ f \in Range(ProcessedStartPre(a))
  <2>1. f \in Op[a].endDel
    BY <1>3, <1>5 DEF NeededOverAll, DeletedAtEnd
  <2>2. f \notin Op[a].startAdd
    BY <1>4 DEF Added, Adds
  <2> QED BY <1>4, <1>5, <2>1, <2>2, ProcessedPreconditions
<1> QED BY <1>3, <1>4, <1>5

(* Whoever deletes a token, or will, has it as a condition.                *)
LEMMA TokenIsNeeded ==
    ASSUME TokensAreSpentOnce, HistoryInv, NEW f \in Scrubbed \cap PreconditionFacts,
           NEW j \in 1..Len(applied), f \in Deletes(StepAt(j)) \cup EarlyDeletes(StepAt(j))
    PROVE  f \in Conditions(StepAt(j))
<1> DEFINE st == StepAt(j)
<1>1. st \in StepRecords /\ DOMAIN applied = 1..Len(applied) /\ Len(applied) \in Nat
  BY PlanShape
<1>2. CASE st.spec = "TIL"
  <2>1. f \in TILs[st.til].dels /\ st.til \in DOMAIN TILs
    BY <1>1, <1>2, RecordShapes DEF Deletes, EarlyDeletes
  <2> QED BY <2>1, TokenShape DEF DeletedByTIL
<1>3. CASE st.spec = "INSTANT"
  BY <1>1, <1>3, RecordShapes, TokenShape DEF Deletes, EarlyDeletes, Conditions
<1>4. CASE st.spec = "START"
  <2>1. st.act \in Actions
    BY <1>1, <1>4, RecordShapes
  <2>2. f \in Op[st.act].startDel \/ f \in Op[st.act].endDel
    BY <1>4 DEF Deletes, EarlyDeletes
  <2>3. f \in Range(ProcessedStartPre(st.act))
    BY <2>1, <2>2, TokenShape, ProcessedPreconditions
  <2> QED BY <1>4, <2>3 DEF Conditions
<1>5. CASE st.spec = "END"
  <2>1. st.act \in Actions /\ f \in Op[st.act].endDel
    BY <1>1, <1>5, RecordShapes DEF Deletes, EarlyDeletes
  <2>2. PICK i \in 1..j - 1 : IsLongStart(applied[i]) /\ applied[j] = PendingEnd(applied[i])
    BY <1>1, <1>5 DEF HistoryInv, EndsFollowStarts
  <2>3. i \in 1..Len(applied)
    BY <1>1
  <2>4. st = [spec |-> "END", act |-> StepOf(applied[i]).act]
    <3>1. applied[i] \in StepIDs
      BY <2>3, PlanShape
    <3> QED BY <2>2, <3>1 DEF HistoryInv, PairsAreRecorded, IsLongStart, StepAt
  <2>5. ~CanSkipToEnd(st.act)
    BY <2>2, <2>4 DEF IsLongStart
  <2> QED BY <2>1, <2>5, TokenShape
<1> HIDE DEF st
<1> QED BY <1>1, <1>2, <1>3, <1>4, <1>5, RecordShapes DEF st

(* The plan spends a token once.                                           *)
LEMMA TokenIsSpentOnce ==
    ASSUME TokensAreSpentOnce, HistoryInv, NEW f \in Scrubbed \cap PreconditionFacts,
           NEW i \in 1..Len(applied), NEW j \in 1..Len(applied),
           f \in Deletes(StepAt(i)) \cup EarlyDeletes(StepAt(i)),
           f \in Deletes(StepAt(j)) \cup EarlyDeletes(StepAt(j))
    PROVE  i = j
<1>1. Len(applied) \in Nat /\ DOMAIN applied = 1..Len(applied) /\ f \in Facts /\ ~Added(f)
  BY PlanShape, TokenShape
<1>2. ASSUME NEW x \in 1..Len(applied), NEW y \in 1..Len(applied), x < y,
             f \in Deletes(StepAt(x)) \cup EarlyDeletes(StepAt(x)),
             f \in Deletes(StepAt(y)) \cup EarlyDeletes(StepAt(y))
      PROVE  FALSE
  <2>1. f \in FactsAt(y - 1)
    BY <1>1, <1>2, TokenIsNeeded DEF HistoryInv, StepsWereApplicable
  <2>2. y - 1 \in Nat /\ y - 1 <= Len(applied) /\ x \in 1..y - 1
    BY <1>1, <1>2
  <2> QED BY <1>1, <1>2, <2>1, <2>2, NeverAdded
<1>3. i < j \/ j < i \/ i = j
  BY <1>1
<1> QED BY <1>2, <1>3

(* A token that search still has, the executor has.                        *)
LEMMA TokensAreThere ==
    ASSUME HistoryInv, NothingIsSkipped, EarlyDeletesRemain, NEW p \in Nat, DoneUpTo(p),
           NEW f \in Scrubbed \cap Facts, ~Added(f), f \in FactsAt(p)
    PROVE  f \in world
<1>1. PICK n : n = Len(applied)
  OBVIOUS
<1>2. /\ n \in Nat /\ DOMAIN applied = 1..n
      /\ \A i \in 1..n : /\ StepAt(i) \in StepRecords
                         /\ SkippedStart(applied[i]) =>
                               /\ <<applied[i], PendingEnd(applied[i])>> \in stepsBefore
                               /\ StepOf(PendingEnd(applied[i])) =
                                     [spec |-> "END", act |-> StepAt(i).act]
      /\ \A s : s \in PlanSteps <=>
            \/ \E i \in 1..n : s = applied[i]
            \/ \E i \in 1..n : SkippedStart(applied[i]) /\ s = PendingEnd(applied[i])
  BY <1>1, PlanShape
<1>3. p \in 0..n /\ \A i \in 1..n : applied[i] \in done <=> i <= p
  BY <1>1, <1>2 DEF DoneUpTo
<1>4. /\ f \in InitFacts
      /\ \A j \in 1..p : f \notin Deletes(StepAt(j)) /\ f \notin EarlyDeletes(StepAt(j))
  <2>1. p <= Len(applied)
    BY <1>1, <1>2, <1>3
  <2> QED BY <2>1, NeverAdded
<1>5. ASSUME NEW s \in done  PROVE f \notin Deletes(StepOf(s))
  <2>1. CASE \E i \in 1..n : s = applied[i]
    <3>1. PICK i \in 1..n : s = applied[i]
      BY <2>1
    <3>2. i \in 1..p
      BY <1>2, <1>3, <1>5, <3>1
    <3> QED BY <1>4, <3>1, <3>2 DEF StepAt
  <2>2. CASE \E i \in 1..n : SkippedStart(applied[i]) /\ s = PendingEnd(applied[i])
    <3>1. PICK i \in 1..n : SkippedStart(applied[i]) /\ s = PendingEnd(applied[i])
      BY <2>2
    <3>2. applied[i] \in done
      BY <1>2, <1>5, <3>1 DEF NothingIsSkipped
    <3>3. i \in 1..p
      BY <1>2, <1>3, <3>2
    <3>4. Deletes(StepOf(s)) = EarlyDeletes(StepAt(i))
      <4>1. StepOf(s) = [spec |-> "END", act |-> StepAt(i).act]
        BY <1>2, <3>1
      <4>2. Deletes(StepOf(s)) = Op[StepAt(i).act].endDel
        BY <4>1 DEF Deletes
      <4> QED BY <3>1, <4>2 DEF EarlyDeletes, SkippedStart, StepAt
    <3> QED BY <1>4, <3>3, <3>4
  <2> QED BY <1>2, <1>5, <2>1, <2>2 DEF NothingIsSkipped
<1> QED BY <1>4, <1>5 DEF EarlyDeletesRemain

(* A running action has its tokens until it ends.                          *)
LEMMA TokensAreHeld ==
    ASSUME StartsKeepInvariants, TokensAreSpentOnce,
           HistoryInv, NothingIsSkipped, EarlyDeletesRemain,
           NEW s \in done, StepOf(s).spec = "START", PendingEnd(s) \notin done,
           NEW f \in Range(Op[StepOf(s).act].inv) \cap Scrubbed
    PROVE  f \in world
<1> DEFINE a == StepOf(s).act
<1>1. PICK n : n = Len(applied)
  OBVIOUS
<1>2. /\ n \in Nat /\ DOMAIN applied = 1..n
      /\ \A i \in 1..n : /\ StepAt(i) \in StepRecords
                         /\ SkippedStart(applied[i]) =>
                               StepOf(PendingEnd(applied[i])) =
                                  [spec |-> "END", act |-> StepAt(i).act]
      /\ \A x : x \in PlanSteps <=>
            \/ \E i \in 1..n : x = applied[i]
            \/ \E i \in 1..n : SkippedStart(applied[i]) /\ x = PendingEnd(applied[i])
  BY <1>1, PlanShape
<1>3. PICK i \in 1..n : s = applied[i]
  BY <1>2 DEF NothingIsSkipped
<1>4. StepOf(s) = StepAt(i) /\ a \in Actions
  BY <1>2, <1>3, RecordShapes DEF StepAt
<1>5. f \in Scrubbed \cap PreconditionFacts
  BY <1>4, ConditionsAreMentioned
<1>6. /\ f \in Facts /\ ~Added(f) /\ f \in Op[a].endDel /\ CanSkipToEnd(a)
      /\ f \in Range(ProcessedStartPre(a))
  BY <1>4, <1>5, TokenShape
<1>7. f \in EarlyDeletes(StepAt(i))
  BY <1>4, <1>6 DEF EarlyDeletes
<1>8. \A j \in 1..n : f \in Deletes(StepAt(j)) \cup EarlyDeletes(StepAt(j)) => j = i
  BY <1>1, <1>5, <1>7, TokenIsSpentOnce
<1>9. f \in InitFacts
  <2>1. f \in Conditions(StepAt(i))
    BY <1>4, <1>6 DEF Conditions
  <2>2. f \in FactsAt(i - 1) /\ i - 1 \in Nat /\ i - 1 <= Len(applied)
    BY <1>1, <1>2, <2>1 DEF HistoryInv, StepsWereApplicable
  <2> QED BY <1>6, <2>2, NeverAdded
<1>10. f \notin Op[a].startDel
  <2>1. f \notin Op[a].startAdd
    BY <1>4, <1>6 DEF Added, Adds
  <2> QED BY <1>4, <2>1 DEF StartsKeepInvariants
<1>11. ASSUME NEW x \in done  PROVE f \notin Deletes(StepOf(x))
  <2>1. ASSUME NEW j \in 1..n, x = applied[j]  PROVE f \notin Deletes(StepOf(x))
    <3>1. CASE j = i
      BY <1>3, <1>4, <1>10, <2>1, <3>1 DEF Deletes
    <3>2. CASE j # i
      BY <1>8, <2>1, <3>2 DEF StepAt
    <3> QED BY <3>1, <3>2
  <2>2. ASSUME NEW j \in 1..n, SkippedStart(applied[j]), x = PendingEnd(applied[j])
        PROVE  f \notin Deletes(StepOf(x))
    <3>1. j # i
      BY <1>3, <1>11, <2>2
    <3>2. StepOf(x) = [spec |-> "END", act |-> StepAt(j).act]
      BY <1>2, <2>2
    <3>3. Deletes(StepOf(x)) = Op[StepAt(j).act].endDel
      BY <3>2 DEF Deletes
    <3>4. Deletes(StepOf(x)) = EarlyDeletes(StepAt(j))
      BY <2>2, <3>3 DEF EarlyDeletes, SkippedStart, StepAt
    <3> QED BY <1>8, <3>1, <3>4
  <2> QED BY <1>2, <1>11, <2>1, <2>2 DEF NothingIsSkipped
<1> QED BY <1>6, <1>9, <1>11 DEF EarlyDeletesRemain

LEMMA OverAllConditionsAreMet ==
    ASSUME StartsKeepInvariants, TokensAreSpentOnce, ExecInv
    PROVE  OverAllConditionsHold
<1>1. /\ HistoryInv /\ NothingIsSkipped /\ EarlyDeletesRemain /\ HeldConditionsRemain
  BY DEF ExecInv, RunInv
<1>2. ASSUME NEW s \in done, StepOf(s).spec = "START", PendingEnd(s) \notin done
      PROVE  Range(Op[StepOf(s).act].inv) \subseteq world
  <2>1. Range(Op[StepOf(s).act].inv) \ Scrubbed \subseteq world
    BY <1>1, <1>2 DEF HeldConditionsRemain
  <2>2. Range(Op[StepOf(s).act].inv) \cap Scrubbed \subseteq world
    BY <1>1, <1>2, TokensAreHeld
  <2> QED BY <2>1, <2>2
<1> QED BY <1>2 DEF OverAllConditionsHold

-----------------------------------------------------------------------------
(* Every step that the executor may run has its conditions.                *)
LEMMA ReadyIsApplicable ==
    ASSUME StartsKeepInvariants, TokensAreSpentOnce, NegativesIgnoreEarlyDeletes,
           ExecInv, NEW k, Ready(k)
    PROVE  /\ OwnConditions(StepOf(k)) \subseteq world
           /\ OwnNegatives(StepOf(k)) \cap world = {}
<1>0. /\ HistoryInv /\ NothingIsSkipped /\ world \subseteq Facts
      /\ OverAllConditionsHold /\ EndNegativesAreFalse /\ EarlyDeletesRemain
  BY OverAllConditionsAreMet DEF ExecInv, RunInv
<1>1. PICK p \in Nat : DoneUpTo(p) /\ WorldFollows(p)
  BY DEF ExecInv
<1>2. CASE p + 1 \in 1..Len(applied) /\ k = applied[p + 1]
  <2>1. /\ Conditions(StepAt(p + 1)) \ Scrubbed \subseteq world
        /\ (Negatives(StepAt(p + 1)) \ Scrubbed) \cap world \cap Facts = {}
    BY <1>0, <1>1, <1>2, NextStepIsOfChain
  <2>2. StepAt(p + 1) \in StepRecords /\ Conditions(StepAt(p + 1)) \subseteq FactsAt(p)
    BY <1>0, <1>2, FactsAtNext
  <2>3. StepOf(k) = StepAt(p + 1)
    BY <1>2 DEF StepAt
  <2> HIDE DEF StepRecords
  <2>4. /\ OwnConditions(StepOf(k)) \subseteq Conditions(StepAt(p + 1))
        /\ OwnConditions(StepOf(k)) \subseteq Facts \cap PreconditionFacts
        /\ OwnNegatives(StepOf(k)) \subseteq Negatives(StepAt(p + 1))
        /\ OwnNegatives(StepOf(k)) \cap Scrubbed = {}
    BY <2>2, <2>3, OwnIsTested
  <2>5. ASSUME NEW f \in OwnConditions(StepOf(k)), f \in Scrubbed  PROVE f \in world
    <3>1. f \in Scrubbed \cap PreconditionFacts /\ f \in FactsAt(p)
      BY <2>2, <2>4, <2>5
    <3>2. f \in Facts /\ ~Added(f)
      BY <3>1, TokenShape
    <3> QED BY <1>0, <1>1, <2>5, <3>1, <3>2, TokensAreThere
  <2> QED BY <1>0, <2>1, <2>4, <2>5
<1>3. ASSUME NEW i \in 1..p, i \in 1..Len(applied), SkippedStart(applied[i]),
             k = PendingEnd(applied[i])
      PROVE  /\ OwnConditions(StepOf(k)) \subseteq world
             /\ OwnNegatives(StepOf(k)) \cap world = {}
  <2>1. PICK a : a = StepAt(i).act
    OBVIOUS
  <2>2. /\ a \in Actions /\ CanSkipToEnd(a)
        /\ OwnConditions(StepOf(k)) = Range(Op[a].endPre)
        /\ OwnNegatives(StepOf(k)) = Op[a].endNeg
        /\ applied[i] \in done /\ PendingEnd(applied[i]) \notin done
    BY <1>0, <1>1, <1>3, <2>1, NextStepIsPending
  <2>3. StepOf(applied[i]).spec = "START" /\ StepOf(applied[i]).act = a
    BY <1>3, <2>1 DEF SkippedStart, StepAt
  <2>4. Range(Op[a].inv) \subseteq world
    BY <1>0, <2>2, <2>3 DEF OverAllConditionsHold
  <2>5. Op[a].endNeg \cap world = {}
    BY <1>0, <1>3, <2>2, <2>3 DEF EndNegativesAreFalse
  <2> QED BY <2>2, <2>4, <2>5, SkippableShape
<1> QED BY <1>0, <1>1, <1>2, <1>3, ReadyIsNext

(* The facts of the executor follow those of the search.                   *)
LEMMA ChainStepFollows ==
    ASSUME HistoryInv, NothingIsSkipped, NEW p \in Nat, DoneUpTo(p), WorldFollows(p),
           p + 1 \in 1..Len(applied), Execute(applied[p + 1])
    PROVE  WorldFollows(p + 1)'
<1> DEFINE st == StepAt(p + 1)
           k == applied[p + 1]
<1>1. /\ UNCHANGED vars /\ Ready(k) /\ done' = done \cup {k}
      /\ world' = (world \ Deletes(st)) \cup Additions(st)
  BY DEF Execute, StepAt
<1>2. /\ applied' = applied /\ \A i : StepAt(i)' = StepAt(i)
      /\ \A i : SkippedStart(i)' = SkippedStart(i)
      /\ FactsAt(p + 1)' = FactsAt(p + 1)
  BY <1>1, UnchangedPlan
<1>3. /\ FactsAt(p + 1) = (FactsAt(p) \ Takes(st)) \cup Gives(st)
      /\ st \in StepRecords
  BY FactsAtNext
<1>4. PICK n : n = Len(applied)
  OBVIOUS
<1>5. /\ n \in Nat /\ p \in 0..n
      /\ \A i \in 1..n : applied[i] \in Nat /\
            (SkippedStart(applied[i]) => \A j \in 1..n : applied[j] # PendingEnd(applied[i]))
  BY <1>4, PlanShape DEF DoneUpTo
<1>6. EarlyDeletes(st) \subseteq Scrubbed
  <2> HIDE DEF st, StepRecords
  <2> QED BY <1>3, EarlyDeletesAreScrubbed
<1>7. ASSUME NEW f \in Facts \ Scrubbed
      PROVE  f \in FactsAt(p + 1) <=>
                \/ f \in EarlyAdditions(st) \/ f \in Additions(st)
                \/ f \in FactsAt(p) /\ f \notin Deletes(st)
  BY <1>3, <1>6, <1>7 DEF Gives, Takes
<1> SUFFICES ASSUME NEW f \in Facts \ Scrubbed
             PROVE  /\ f \in world' => f \in FactsAt(p + 1)
                    /\ f \in FactsAt(p + 1) => f \in world' \/ StillToCome(p + 1, f)'
  BY <1>2 DEF WorldFollows
<1>8. f \in world' => f \in FactsAt(p + 1)
  BY <1>1, <1>7 DEF WorldFollows
<1>9. ASSUME NEW i \in 1..p + 1, i \in 1..n, SkippedStart(applied[i]), PendingEnd(applied[i]) \notin done',
             f \in Op[StepAt(i).act].endAdd
      PROVE  StillToCome(p + 1, f)'
  <2>1. PendingEnd(applied[i])' = PendingEnd(applied[i])
    BY <1>2 DEF PendingEnd
  <2> QED BY <1>2, <1>9, <2>1 DEF StillToCome
<1>10. CASE f \in EarlyAdditions(st)
  <2>1. SkippedStart(k) /\ f \in Op[st.act].endAdd
    BY <1>10 DEF EarlyAdditions, SkippedStart, StepAt
  <2>2. PendingEnd(k) \notin done /\ PendingEnd(k) # k
    <3>1. <<k, PendingEnd(k)>> \in stepsBefore /\ k \notin done
      BY <1>1, <2>1, PlanShape DEF Ready
    <3>2. PendingEnd(k) \notin done
      BY <3>1 DEF NothingIsSkipped
    <3>3. PendingEnd(k) # k
      BY <1>4, <1>5 DEF PendingEnd
    <3> QED BY <3>2, <3>3
  <2>3. p + 1 \in 1..p + 1 /\ p + 1 \in 1..n
    BY <1>4, <1>5
  <2> QED BY <1>1, <1>8, <1>9, <2>1, <2>2, <2>3
<1>11. CASE f \in Additions(st)
  BY <1>1, <1>8, <1>11
<1>12. CASE f \in FactsAt(p) /\ f \notin Deletes(st)
  <2>1. CASE f \in world
    BY <1>1, <1>8, <1>12, <2>1
  <2>2. CASE StillToCome(p, f)
    <3>1. PICK i \in 1..p : /\ SkippedStart(applied[i]) /\ PendingEnd(applied[i]) \notin done
                            /\ f \in Op[StepAt(i).act].endAdd
      BY <2>2 DEF StillToCome
    <3>2. i \in 1..n /\ i \in 1..p + 1
      BY <1>5
    <3>3. PendingEnd(applied[i]) # k
      BY <1>4, <1>5, <3>1, <3>2
    <3> QED BY <1>1, <1>8, <1>9, <3>1, <3>2, <3>3
  <2> QED BY <1>12, <2>1, <2>2 DEF WorldFollows
<1> QED BY <1>7, <1>8, <1>10, <1>11, <1>12

LEMMA PendingEndFollows ==
    ASSUME HistoryInv, NothingIsSkipped, NEW p \in Nat, DoneUpTo(p), WorldFollows(p),
           NEW i \in 1..p, i \in 1..Len(applied), SkippedStart(applied[i]),
           Execute(PendingEnd(applied[i]))
    PROVE  WorldFollows(p)'
<1> DEFINE k == PendingEnd(applied[i])
<1>0. PICK a : a = StepAt(i).act
  OBVIOUS
<1>1. /\ UNCHANGED vars /\ Ready(k) /\ done' = done \cup {k}
      /\ world' = (world \ Deletes(StepOf(k))) \cup Additions(StepOf(k))
  BY DEF Execute
<1>2. /\ applied' = applied /\ \A j : StepAt(j)' = StepAt(j)
      /\ \A j : SkippedStart(j)' = SkippedStart(j)
      /\ FactsAt(p)' = FactsAt(p)
  BY <1>1, UnchangedPlan
<1>3. /\ a \in Actions /\ CanSkipToEnd(a)
      /\ Deletes(StepOf(k)) = Op[a].endDel /\ Additions(StepOf(k)) = Op[a].endAdd
      /\ k \notin done
  BY <1>0, <1>1, NextStepIsPending
<1>4. PICK n : n = Len(applied)
  OBVIOUS
<1>5. /\ n \in Nat /\ p \in 0..n
      /\ \A j \in 1..n : applied[j] \in Nat /\ StepAt(j) \in StepRecords
  BY <1>4, PlanShape DEF DoneUpTo
<1>6. Op[a].endDel \subseteq Scrubbed
  BY <1>3, SkippableShape
<1> SUFFICES ASSUME NEW f \in Facts \ Scrubbed
             PROVE  /\ f \in world' => f \in FactsAt(p)
                    /\ f \in FactsAt(p) => f \in world' \/ StillToCome(p, f)'
  BY <1>2 DEF WorldFollows
<1>7. f \in world' <=> f \in world \/ f \in Op[a].endAdd
  BY <1>1, <1>3, <1>6
<1>8. ASSUME f \in Op[a].endAdd  PROVE f \in FactsAt(p)
  <2>1. f \in Gives(StepAt(i))
    BY <1>0, <1>8 DEF Gives, EarlyAdditions, SkippedStart, StepAt
  <2>2. ASSUME NEW j \in i + 1..p, f \in Takes(StepAt(j))  PROVE FALSE
    <3>1. j \in 1..n /\ i < j /\ j <= p
      BY <1>5
    <3>2. EarlyDeletes(StepAt(j)) \subseteq Scrubbed
      BY <1>5, <3>1, EarlyDeletesAreScrubbed
    <3>3. f \in Deletes(StepAt(j))
      BY <2>2, <3>2 DEF Takes
    <3>4. Concerns(StepAt(j), StepAt(i).act)
      BY <1>0, <1>8, <3>3 DEF Concerns
    <3>5. PendingEnd(applied[i]) \in done
      BY <1>4, <3>1, <3>4, ConcernedStepsWait
    <3> QED BY <1>3, <3>5
  <2>3. p <= Len(applied)
    BY <1>4, <1>5
  <2> QED BY <2>1, <2>2, <2>3, FactsAtLast
<1>9. f \in world' => f \in FactsAt(p)
  BY <1>7, <1>8 DEF WorldFollows
<1>10. ASSUME StillToCome(p, f), f \notin Op[a].endAdd  PROVE StillToCome(p, f)'
  <2>1. PICK j \in 1..p : /\ SkippedStart(applied[j]) /\ PendingEnd(applied[j]) \notin done
                          /\ f \in Op[StepAt(j).act].endAdd
    BY <1>10 DEF StillToCome
  <2>2. PendingEnd(applied[j]) # k
    <3>1. j \in 1..n /\ i \in 1..n
      BY <1>5
    <3>2. applied[j] \in Nat /\ applied[i] \in Nat
      BY <1>5, <3>1
    <3>3. PendingEnd(applied[j]) = k => applied[j] = applied[i]
      BY <3>2 DEF PendingEnd
    <3>4. PendingEnd(applied[j]) = k => StepAt(j) = StepAt(i)
      BY <3>3 DEF StepAt
    <3> QED BY <1>0, <1>10, <2>1, <3>4
  <2>3. PendingEnd(applied[j]) \notin done'
    BY <1>1, <2>1, <2>2
  <2>4. PendingEnd(applied[j])' = PendingEnd(applied[j])
    BY <1>2 DEF PendingEnd
  <2> QED BY <1>2, <2>1, <2>3, <2>4 DEF StillToCome
<1> QED BY <1>7, <1>9, <1>10 DEF WorldFollows

-----------------------------------------------------------------------------
(* Over-all conditions, and the negative end conditions of                 *)
(* compression-safe actions.                                               *)
LEMMA ChainStepHolds ==
    ASSUME StartsKeepInvariants, ExecInv,
           NEW p \in Nat, DoneUpTo(p), WorldFollows(p),
           p + 1 \in 1..Len(applied), Execute(applied[p + 1])
    PROVE  HeldConditionsRemain'
<1> DEFINE st == StepAt(p + 1)
           k == applied[p + 1]
<1>0. /\ HistoryInv /\ NothingIsSkipped /\ HeldConditionsRemain /\ InvariantsAreGuarded
  BY DEF ExecInv, RunInv, HistoryInv
<1>1. /\ UNCHANGED vars /\ Ready(k) /\ done' = done \cup {k} /\ StepOf(k) = st
      /\ world' = (world \ Deletes(st)) \cup Additions(st)
  BY DEF Execute, StepAt
<1>2. \A s : StepOf(s)' = StepOf(s)
  BY <1>0, <1>1, UnchangedPlan
<1>3. PICK n : n = Len(applied)
  OBVIOUS
<1>4. /\ n \in Nat /\ DOMAIN applied = 1..n
      /\ \A i \in 1..n : /\ applied[i] \in StepIDs /\ StepAt(i) \in StepRecords
                         /\ SkippedStart(applied[i]) =>
                               StepOf(PendingEnd(applied[i])) =
                                  [spec |-> "END", act |-> StepAt(i).act]
      /\ \A s : s \in PlanSteps <=>
            \/ \E i \in 1..n : s = applied[i]
            \/ \E i \in 1..n : SkippedStart(applied[i]) /\ s = PendingEnd(applied[i])
  BY <1>0, <1>3, PlanShape
<1>5. p \in 0..n /\ \A i \in 1..n : applied[i] \in done <=> i <= p
  BY <1>3, <1>4 DEF DoneUpTo
<1> HIDE DEF st, k
<1>6. ASSUME NEW s \in done', StepOf(s).spec = "START", PendingEnd(s) \notin done',
             NEW f \in Range(Op[StepOf(s).act].inv) \ Scrubbed
      PROVE  f \in world'
  <2> DEFINE a == StepOf(s).act
  <2>1. PICK i \in 1..n : s = applied[i] /\ i <= p + 1
    <3>1. CASE s \in done
      <4>1. s \in PlanSteps
        BY <1>0, <3>1 DEF NothingIsSkipped
      <4>2. PICK i \in 1..n : s = applied[i]
        BY <1>4, <1>6, <4>1
      <4>3. i <= p
        BY <1>5, <3>1, <4>2
      <4>4. i <= p + 1
        BY <1>4, <1>5, <4>3
      <4> QED BY <4>2, <4>4
    <3>2. CASE s = k
      <4>1. p + 1 \in 1..n /\ p + 1 <= p + 1 /\ s = applied[p + 1]
        BY <1>3, <3>2 DEF k
      <4> QED BY <4>1
    <3> QED BY <1>1, <3>1, <3>2
  <2>2. a \in Actions
    <3>1. StepAt(i) \in StepRecords /\ StepOf(s) = StepAt(i)
      BY <1>4, <2>1 DEF StepAt
    <3> QED BY <1>6, <3>1, RecordShapes
  <2>3. f \notin Scrubbed
    BY <1>6
  <2>4. CASE i <= p
    <3>1. s \in done /\ PendingEnd(s) \notin done
      BY <1>1, <1>5, <1>6, <2>1, <2>4
    <3>2. f \in world
      BY <1>0, <1>6, <3>1 DEF HeldConditionsRemain
    <3>3. ASSUME f \in Deletes(st)  PROVE FALSE
      <4>1. p + 1 \in 1..n /\ i < p + 1
        BY <1>3, <1>5, <2>4
      <4>2. CASE CanSkipToEnd(a)
        <5>1. SkippedStart(applied[i]) /\ StepAt(i).act = a
          BY <1>6, <2>1, <4>2 DEF SkippedStart, StepAt
        <5>2. Concerns(StepAt(p + 1), StepAt(i).act)
          BY <1>6, <2>3, <3>3, <5>1 DEF Concerns, st
        <5>3. Ready(applied[p + 1])
          BY <1>1 DEF k
        <5>4. PendingEnd(applied[i]) \in done
          BY <1>0, <1>3, <4>1, <5>1, <5>2, <5>3, ConcernedStepsWait
        <5> QED BY <2>1, <3>1, <5>4
      <4>3. CASE ~CanSkipToEnd(a)
        <5>1. IsLongStart(applied[i]) /\ StepAt(i).act = a
          BY <1>6, <2>1, <4>3 DEF IsLongStart, IsStarting, StepAt
        <5>2. PICK m \in i + 1..p + 1 : applied[m] = PendingEnd(applied[i])
          BY <1>0, <1>4, <1>6, <3>3, <4>1, <5>1 DEF InvariantsAreGuarded, st
        <5>3. m = p + 1 \/ (m \in 1..n /\ m <= p)
          BY <1>4, <1>5, <4>1
        <5>4. applied[m] \in done'
          BY <1>1, <1>5, <5>3 DEF k
        <5> QED BY <1>6, <2>1, <5>2, <5>4
      <4> QED BY <4>2, <4>3
    <3> QED BY <1>1, <3>2, <3>3
  <2>5. CASE i = p + 1
    <3>1. s = k /\ StepOf(s) = st /\ st.spec = "START" /\ st.act = a
      BY <1>1, <1>6, <2>1, <2>5 DEF k
    <3>2. CASE f \in Op[a].startAdd
      BY <1>1, <3>1, <3>2 DEF Additions
    <3>3. CASE f \notin Op[a].startAdd
      <4>1. f \in Range(ProcessedStartPre(a))
        BY <1>6, <2>2, <3>3, ProcessedPreconditions
      <4>2. f \in Conditions(StepAt(p + 1)) \ Scrubbed
        BY <2>3, <3>1, <4>1 DEF Conditions, st
      <4>3. f \in world
        <5>1. Ready(applied[p + 1])
          BY <1>1 DEF k
        <5> QED BY <1>0, <4>2, <5>1, NextStepIsOfChain
      <4>4. f \notin Deletes(st)
        BY <1>6, <2>2, <3>1, <3>3 DEF StartsKeepInvariants, Deletes
      <4> QED BY <1>1, <4>3, <4>4
    <3> QED BY <3>2, <3>3
  <2> QED BY <1>4, <1>5, <2>1, <2>4, <2>5
<1> QED BY <1>2, <1>6 DEF HeldConditionsRemain, PendingEnd

LEMMA PendingEndHolds ==
    ASSUME ExecInv,
           NEW p \in Nat, DoneUpTo(p), NEW i \in 1..p, i \in 1..Len(applied),
           SkippedStart(applied[i]), Execute(PendingEnd(applied[i]))
    PROVE  HeldConditionsRemain'
<1> DEFINE k == PendingEnd(applied[i])
<1>0. HistoryInv /\ NothingIsSkipped /\ HeldConditionsRemain
  BY DEF ExecInv, RunInv
<1>1. /\ UNCHANGED vars /\ Ready(k) /\ done' = done \cup {k}
      /\ world' = (world \ Deletes(StepOf(k))) \cup Additions(StepOf(k))
  BY DEF Execute
<1>2. \A s : StepOf(s)' = StepOf(s)
  BY <1>0, <1>1, UnchangedPlan
<1>3. PICK a : a = StepAt(i).act
  OBVIOUS
<1>4. /\ a \in Actions /\ CanSkipToEnd(a) /\ Deletes(StepOf(k)) = Op[a].endDel
      /\ StepOf(k).spec = "END"
  <2>1. StepOf(k) = [spec |-> "END", act |-> StepAt(i).act]
    BY <1>0, PlanShape
  <2> QED BY <1>0, <1>1, <1>3, <2>1, NextStepIsPending
<1>5. Deletes(StepOf(k)) \subseteq Scrubbed
  BY <1>4, SkippableShape
<1>6. ASSUME NEW s \in done', StepOf(s).spec = "START", PendingEnd(s) \notin done'
      PROVE  Range(Op[StepOf(s).act].inv) \ Scrubbed \subseteq world'
  <2>1. s \in done /\ PendingEnd(s) \notin done
    BY <1>1, <1>4, <1>6
  <2>2. Range(Op[StepOf(s).act].inv) \ Scrubbed \subseteq world
    BY <1>0, <1>6, <2>1 DEF HeldConditionsRemain
  <2> QED BY <1>1, <1>5, <2>2
<1> QED BY <1>2, <1>6 DEF HeldConditionsRemain, PendingEnd

(* What a step of the plan adds, and what is recorded of it.               *)
LEMMA PlanRecords ==
    ASSUME HistoryInv, NEW s \in PlanSteps
    PROVE  StepOf(s) \in StepRecords
<1>1. CASE \E j \in 1..Len(applied) : s = applied[j]
  BY <1>1, PlanShape DEF StepAt
<1>2. CASE \E j \in 1..Len(applied) : SkippedStart(applied[j]) /\ s = PendingEnd(applied[j])
  <2>1. PICK j \in 1..Len(applied) : SkippedStart(applied[j]) /\ s = PendingEnd(applied[j])
    BY <1>2
  <2>2. PICK a \in Actions : StepOf(s) = [spec |-> "END", act |-> a]
    BY <2>1, PlanShape
  <2> QED BY <2>2 DEF StepRecords
<1> QED BY <1>1, <1>2, PlanShape

LEMMA NegativesStayFalse ==
    ASSUME NegativesIgnoreEarlyDeletes, EndNegativesStayFalse, ExecInv, NEW k, Execute(k)
    PROVE  EndNegativesAreFalse'
<1>0. /\ HistoryInv /\ NothingIsSkipped /\ EndNegativesAreFalse /\ world \subseteq Facts
  BY DEF ExecInv, RunInv
<1>1. /\ UNCHANGED vars /\ Ready(k) /\ done' = done \cup {k}
      /\ world' = (world \ Deletes(StepOf(k))) \cup Additions(StepOf(k))
      /\ k \in PlanSteps
  BY DEF Execute, Ready
<1>2. \A s : StepOf(s)' = StepOf(s) /\ SkippedStart(s)' = SkippedStart(s)
  BY <1>0, <1>1, UnchangedPlan
<1>3. \A f \in Additions(StepOf(k)) : Added(f)
  BY <1>0, <1>1, PlanRecords, AdditionsAreAdded
<1>4. ASSUME NEW s \in done', SkippedStart(s), NEW f \in Op[StepOf(s).act].endNeg
      PROVE  f \notin world'
  <2>1. s \in PlanSteps
    BY <1>0, <1>1 DEF NothingIsSkipped
  <2>2. StepOf(s).act \in Actions /\ CanSkipToEnd(StepOf(s).act) /\ StepOf(s).spec = "START"
    BY <1>0, <1>4, <2>1, PlanRecords, RecordShapes DEF SkippedStart
  <2>3. f \notin Additions(StepOf(k))
    BY <1>3, <1>4, <2>2 DEF EndNegativesStayFalse
  <2>4. CASE s \in done
    BY <1>0, <1>1, <1>4, <2>3, <2>4 DEF EndNegativesAreFalse
  <2>5. CASE s = k
    <3> DEFINE a == StepOf(k).act
    <3>1. PICK p \in Nat : DoneUpTo(p) /\ WorldFollows(p)
      BY DEF ExecInv
    <3>2. p + 1 \in 1..Len(applied) /\ k = applied[p + 1]
      <4>1. ASSUME NEW i \in 1..Len(applied), SkippedStart(applied[i]), k = PendingEnd(applied[i])
            PROVE  FALSE
        <5>1. StepOf(k) = [spec |-> "END", act |-> StepAt(i).act]
          BY <1>0, <4>1, PlanShape
        <5> QED BY <2>2, <2>5, <5>1
      <4> QED BY <1>0, <1>1, <3>1, <4>1, ReadyIsNext
    <3>3. StepAt(p + 1) = StepOf(k) /\ Negatives(StepOf(k)) = ProcessedStartNeg(a)
      BY <2>2, <2>5, <3>2 DEF StepAt, Negatives
    <3>4. f \in Op[a].invNeg /\ f \notin Scrubbed
      BY <1>4, <2>2, <2>5, SkippableShape, NegativesAreUnscrubbed
    <3>5. CASE f \in Op[a].startDel
      BY <1>1, <2>2, <2>3, <2>5, <3>5 DEF Deletes
    <3>6. CASE f \notin Op[a].startDel
      <4>1. f \in Negatives(StepAt(p + 1)) \ Scrubbed
        BY <3>3, <3>4, <3>6 DEF ProcessedStartNeg
      <4>2. f \notin world
        BY <1>0, <1>1, <3>1, <3>2, <4>1, NextStepIsOfChain, Zenon
      <4> QED BY <1>1, <2>3, <4>2
    <3> QED BY <3>5, <3>6
  <2> QED BY <1>1, <2>4, <2>5
<1> QED BY <1>2, <1>4 DEF EndNegativesAreFalse

-----------------------------------------------------------------------------
(* The facts that compression-safe ends delete.                            *)
LEMMA EarlyDeletesStay ==
    ASSUME ExecInv, NEW k, Execute(k)
    PROVE  EarlyDeletesRemain'
<1>0. HistoryInv /\ EarlyDeletesRemain
  BY DEF ExecInv, RunInv
<1>1. /\ UNCHANGED vars /\ done' = done \cup {k} /\ k \in PlanSteps
      /\ world' = (world \ Deletes(StepOf(k))) \cup Additions(StepOf(k))
  BY DEF Execute, Ready
<1>2. \A s : Deletes(StepOf(s))' = Deletes(StepOf(s))
  BY <1>0, <1>1, UnchangedPlan DEF Deletes
<1> SUFFICES ASSUME NEW f \in Scrubbed, ~Added(f)
             PROVE  f \in world' <=> f \in InitFacts /\ \A s \in done' : f \notin Deletes(StepOf(s))
  BY <1>2 DEF EarlyDeletesRemain
<1>3. f \notin Additions(StepOf(k))
  BY <1>0, <1>1, PlanRecords, AdditionsAreAdded
<1> QED BY <1>0, <1>1, <1>3 DEF EarlyDeletesRemain

-----------------------------------------------------------------------------
(* Before the plan is handed over nothing has run.                         *)
LEMMA NothingHasRun ==
    ASSUME HistoryInv, done = {}, world = InitFacts
    PROVE  /\ DoneUpTo(0) /\ WorldFollows(0) /\ world \subseteq Facts
           /\ HeldConditionsRemain /\ EndNegativesAreFalse /\ EarlyDeletesRemain
<1>1. Len(applied) \in Nat /\ DOMAIN applied = 1..Len(applied)
  BY PlanShape
<1>2. FactsAt(0) = InitFacts
  BY FactsAfterNone DEF FactsAt
<1>3. InitFacts \subseteq Facts
  BY DomainAssumption
<1> QED BY <1>1, <1>2, <1>3
        DEF DoneUpTo, WorldFollows, HeldConditionsRemain, EndNegativesAreFalse, EarlyDeletesRemain

(* A step of the executor keeps what a run keeps.                          *)
LEMMA ExecuteKeeps ==
    ASSUME StartsKeepInvariants, NegativesIgnoreEarlyDeletes, EndNegativesStayFalse,
           ExecInv, NEW k, Execute(k), RunInv'
    PROVE  ExecInv'
<1>0. HistoryInv /\ NothingIsSkipped /\ world \subseteq Facts
  BY DEF ExecInv, RunInv
<1>1. /\ Ready(k) /\ k \in PlanSteps
      /\ world' = (world \ Deletes(StepOf(k))) \cup Additions(StepOf(k))
  BY DEF Execute, Ready
<1>2. world' \subseteq Facts
  <2>1. StepOf(k) \in StepRecords
    BY <1>0, <1>1, PlanRecords
  <2> QED BY <1>0, <1>1, <2>1, EffectsAreFacts
<1>3. EndNegativesAreFalse' /\ EarlyDeletesRemain'
  BY NegativesStayFalse, EarlyDeletesStay
<1>4. PICK p \in Nat : DoneUpTo(p) /\ WorldFollows(p)
  BY DEF ExecInv
<1>5. CASE p + 1 \in 1..Len(applied) /\ k = applied[p + 1]
  <2>1. DoneUpTo(p + 1)' /\ WorldFollows(p + 1)' /\ p + 1 \in Nat
    BY <1>0, <1>4, <1>5, RunningMovesOn, ChainStepFollows
  <2>2. HeldConditionsRemain'
    BY <1>4, <1>5, ChainStepHolds
  <2>3. \E q \in Nat : DoneUpTo(q)' /\ WorldFollows(q)'
    BY <2>1
  <2> QED BY <1>2, <1>3, <2>2, <2>3 DEF ExecInv
<1>6. ASSUME NEW i \in 1..p, i \in 1..Len(applied), SkippedStart(applied[i]),
             k = PendingEnd(applied[i])
      PROVE  ExecInv'
  <2>1. DoneUpTo(p)' /\ WorldFollows(p)'
    BY <1>0, <1>4, <1>6, RunningMovesOn, PendingEndFollows
  <2>2. HeldConditionsRemain'
    BY <1>4, <1>6, PendingEndHolds
  <2>3. \E q \in Nat : DoneUpTo(q)' /\ WorldFollows(q)'
    BY <2>1
  <2> QED BY <1>2, <1>3, <2>2, <2>3 DEF ExecInv
<1> QED BY <1>0, <1>1, <1>4, <1>5, <1>6, ReadyIsNext

LEMMA InitExec == ExecInit => ExecInv
<1> SUFFICES ASSUME ExecInit PROVE ExecInv
  OBVIOUS
<1>1. RunInv /\ HistoryInv /\ done = {} /\ world = InitFacts
  BY InitRun DEF ExecInit, RunInv
<1> QED BY <1>1, NothingHasRun DEF ExecInv

LEMMA NextExec ==
    ASSUME StartsKeepInvariants, NegativesIgnoreEarlyDeletes, EndNegativesStayFalse
    PROVE  ExecInv /\ [ExecNext]_<<vars, execVars>> => ExecInv'
<1> SUFFICES ASSUME ExecInv, [ExecNext]_<<vars, execVars>> PROVE ExecInv'
  OBVIOUS
<1>0. RunInv /\ HistoryInv /\ RunInv'
  BY NextRun DEF ExecInv, RunInv
<1>1. CASE Search
  <2>1. HistoryInv' /\ done' = {} /\ world' = InitFacts
    BY <1>0, <1>1 DEF RunInv, Search, execVars
  <2>2. DOMAIN applied' = 1..Len(applied') /\ Len(applied') \in Nat
    <3>1. applied' \in Seq(StepIDs')
      BY <2>1 DEF HistoryInv, TrackInv, TypeInv, TypeOK
    <3> QED BY <3>1, LenProperties
  <2>3. FactsAt(0)' = InitFacts
    <3>1. FactsAt(0)' = FactsAfter([i \in DOMAIN applied' |-> StepAt(i)'], 0)
      BY DEF FactsAt, FactsAfter
    <3> QED BY <3>1, FactsAfterNone
  <2>4. DoneUpTo(0)' /\ WorldFollows(0)'
    BY <2>1, <2>2, <2>3 DEF DoneUpTo, WorldFollows
  <2>5. \E q \in Nat : DoneUpTo(q)' /\ WorldFollows(q)'
    BY <2>4
  <2>6. /\ world' \subseteq Facts /\ HeldConditionsRemain' /\ EndNegativesAreFalse'
        /\ EarlyDeletesRemain'
    BY <2>1, DomainAssumption
       DEF HeldConditionsRemain, EndNegativesAreFalse, EarlyDeletesRemain
  <2> QED BY <1>0, <2>5, <2>6 DEF ExecInv
<1>2. CASE HandOver \/ UNCHANGED <<vars, execVars>>
  <2>1. UNCHANGED vars /\ done' = done /\ world' = world
    BY <1>2 DEF HandOver, execVars
  <2>2. /\ applied' = applied /\ \A s : StepOf(s)' = StepOf(s)
        /\ \A s : SkippedStart(s)' = SkippedStart(s)
        /\ \A i : StepAt(i)' = StepAt(i) /\ \A n : FactsAt(n)' = FactsAt(n)
    BY <1>0, <2>1, UnchangedPlan
  <2>3. PICK p \in Nat : DoneUpTo(p) /\ WorldFollows(p)
    BY DEF ExecInv
  <2>4. DoneUpTo(p)'
    BY <2>1, <2>2, <2>3 DEF DoneUpTo
  <2>5. \A f : StillToCome(p, f)' = StillToCome(p, f)
    BY <2>1, <2>2 DEF StillToCome, PendingEnd
  <2>6. WorldFollows(p)'
    BY <2>1, <2>2, <2>3, <2>5 DEF WorldFollows
  <2>7. \E q \in Nat : DoneUpTo(q)' /\ WorldFollows(q)'
    BY <2>4, <2>6
  <2>8. world' \subseteq Facts /\ HeldConditionsRemain' /\ EndNegativesAreFalse'
    BY <2>1, <2>2 DEF ExecInv, HeldConditionsRemain, EndNegativesAreFalse, PendingEnd
  <2>9. \A s : Deletes(StepOf(s))' = Deletes(StepOf(s))
    BY <2>2 DEF Deletes
  <2>10. EarlyDeletesRemain'
    BY <2>1, <2>9 DEF ExecInv, EarlyDeletesRemain
  <2> QED BY <1>0, <2>7, <2>8, <2>10 DEF ExecInv
<1>3. ASSUME NEW k \in PlanSteps, Execute(k)  PROVE ExecInv'
  BY <1>0, <1>3, ExecuteKeeps
<1> QED BY <1>1, <1>2, <1>3 DEF ExecNext

(* Whatever the executor runs next has its conditions, although the search *)
(* tested them in one order, with the ends of compression-safe actions     *)
(* already applied: the annotations order every step that could tell the   *)
(* difference after the end that makes it.                                 *)
THEOREM EveryOrderIsApplicable ==
    ASSUME StartsKeepInvariants, TokensAreSpentOnce, NegativesIgnoreEarlyDeletes,
           EndNegativesStayFalse
    PROVE  ExecSpec => []ReadyStepsAreApplicable
<1>1. ExecInv => ReadyStepsAreApplicable
  BY ReadyIsApplicable DEF ReadyStepsAreApplicable
<1> QED BY InitExec, NextExec, <1>1, PTL DEF ExecSpec

(* No order breaks an over-all condition of an action that is running: the *)
(* counters protect those of actions that the search ends, the annotations *)
(* those of compression-safe actions.                                      *)
THEOREM NoOrderBreaksAnInvariant ==
    ASSUME StartsKeepInvariants, TokensAreSpentOnce, NegativesIgnoreEarlyDeletes,
           EndNegativesStayFalse
    PROVE  ExecSpec => []OverAllConditionsHold
<1>1. ExecInv => OverAllConditionsHold
  BY OverAllConditionsAreMet
<1> QED BY InitExec, NextExec, <1>1, PTL DEF ExecSpec

-----------------------------------------------------------------------------
(* Once the whole plan has run, nothing is still to come.                  *)
LEMMA RunsEndAlike ==
    ASSUME EarlyDeletesStayDeleted
    PROVE  ExecInv => RunsEndInTheSearchState
<1> SUFFICES ASSUME ExecInv, executing, PlanSteps \subseteq done
             PROVE  world = first
  BY DEF RunsEndInTheSearchState
<1>1. /\ HistoryInv /\ NothingIsSkipped /\ world \subseteq Facts /\ FactsAreRemembered
      /\ EarlyDeletesRemain
  BY DEF ExecInv, RunInv, HistoryInv
<1>2. first \subseteq Facts
  BY <1>1 DEF HistoryInv, TrackInv, TypeInv, TypeOK
<1>3. PICK p \in Nat : DoneUpTo(p) /\ WorldFollows(p)
  BY DEF ExecInv
<1>4. PICK n : n = Len(applied)
  OBVIOUS
<1>5. /\ n \in Nat /\ DOMAIN applied = 1..n
      /\ \A i \in 1..n : /\ StepAt(i) \in StepRecords
                         /\ SkippedStart(applied[i]) =>
                               StepOf(PendingEnd(applied[i])) =
                                  [spec |-> "END", act |-> StepAt(i).act]
      /\ \A s : s \in PlanSteps <=>
            \/ \E i \in 1..n : s = applied[i]
            \/ \E i \in 1..n : SkippedStart(applied[i]) /\ s = PendingEnd(applied[i])
  BY <1>1, <1>4, PlanShape
<1>6. done = PlanSteps
  BY <1>1 DEF NothingIsSkipped
<1>7. p = n
  <2>1. p \in 0..n /\ \A i \in 1..n : i <= p
    BY <1>3, <1>4, <1>5, <1>6 DEF DoneUpTo
  <2> QED BY <1>5, <2>1
<1>8. first = FactsAt(n)
  BY <1>1, <1>4 DEF FactsAreRemembered
<1>9. ASSUME NEW f \in Facts \ Scrubbed  PROVE f \in world <=> f \in first
  <2>1. ~StillToCome(p, f)
    <3>1. ASSUME NEW i \in 1..p, SkippedStart(applied[i]), PendingEnd(applied[i]) \notin done
          PROVE  FALSE
      BY <1>5, <1>6, <1>7, <3>1
    <3> QED BY <3>1 DEF StillToCome
  <2> QED BY <1>3, <1>7, <1>8, <1>9, <2>1 DEF WorldFollows
<1>10. ASSUME NEW f \in Scrubbed, f \in Facts  PROVE f \in world <=> f \in first
  <2>1. ~Added(f) /\ n <= Len(applied)
    BY <1>4, <1>5, <1>10 DEF EarlyDeletesStayDeleted
  <2>2. f \in first <=>
           /\ f \in InitFacts
           /\ \A i \in 1..n : f \notin Deletes(StepAt(i)) /\ f \notin EarlyDeletes(StepAt(i))
    BY <1>1, <1>5, <1>8, <1>10, <2>1, NeverAdded
  <2>3. ASSUME NEW i \in 1..n
        PROVE  /\ Deletes(StepAt(i)) = Deletes(StepOf(applied[i]))
               /\ f \in EarlyDeletes(StepAt(i)) <=>
                     SkippedStart(applied[i]) /\ f \in Deletes(StepOf(PendingEnd(applied[i])))
    <3>1. SkippedStart(applied[i]) =>
             Deletes(StepOf(PendingEnd(applied[i]))) = Op[StepAt(i).act].endDel
      BY <1>5 DEF Deletes
    <3>2. EarlyDeletes(StepAt(i)) = IF SkippedStart(applied[i]) THEN Op[StepAt(i).act].endDel
                                    ELSE {}
      BY DEF EarlyDeletes, SkippedStart, StepAt
    <3> QED BY <3>1, <3>2 DEF StepAt
  <2>4. (\A s \in done : f \notin Deletes(StepOf(s))) <=>
           \A i \in 1..n : f \notin Deletes(StepAt(i)) /\ f \notin EarlyDeletes(StepAt(i))
    BY <1>5, <1>6, <2>3
  <2> QED BY <1>1, <1>10, <2>1, <2>2, <2>4 DEF EarlyDeletesRemain
<1> QED BY <1>1, <1>2, <1>9, <1>10

(* All orders of the whole plan end in the same facts, those the search    *)
(* believed in when it stopped.                                            *)
THEOREM EveryOrderEndsAlike ==
    ASSUME StartsKeepInvariants, NegativesIgnoreEarlyDeletes, EndNegativesStayFalse,
           EarlyDeletesStayDeleted
    PROVE  ExecSpec => []RunsEndInTheSearchState
BY InitExec, NextExec, RunsEndAlike, PTL DEF ExecSpec
=============================================================================
