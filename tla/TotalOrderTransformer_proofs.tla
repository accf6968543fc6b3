--------------------- MODULE TotalOrderTransformer_proofs ---------------------
(***************************************************************************)
(* What the total-order transformer keeps, for every problem and every     *)
(* length of plan: the types; the orderings, which keep a step that        *)
(* concerns a compression-safe action after the end of that action; the    *)
(* annotations, by which it finds those ends; and the counters of the      *)
(* invariants of running actions.  All actions apply one snap-action in    *)
(* the same way; Applies says how, the action lemmas show that each action *)
(* does, and the invariants are then proved once, from Applies.            *)
(*                                                                         *)
(* For the orderings a pending end is tracked: until some step is ordered  *)
(* after it, it is annotated on every fact through which a step could      *)
(* concern it.                                                             *)
(***************************************************************************)
EXTENDS TotalOrderTransformer, SequenceTheorems, FiniteSetTheorems,
        WellFoundedInduction, TLAPS

-----------------------------------------------------------------------------
(* What a snap-action may do to the annotations, whatever facts and ends   *)
(* there are.  The three helpers are handled alike: each erases ends only, *)
(* and only ends that it names as met.                                     *)
AnnotationsOver(F, E) == [F -> [first : SUBSET E, second : SUBSET E]]

(* old becomes new by erasing ends that are in met.                        *)
ErasesOnly(old, new, F, met) ==
    \A f \in F : /\ new[f].first \subseteq old[f].first
                 /\ old[f].first \subseteq new[f].first \cup met
                 /\ new[f].second \subseteq old[f].second
                 /\ old[f].second \subseteq new[f].second \cup met

LEMMA ErasingComposes ==
    ASSUME NEW a, NEW b, NEW c, NEW F, NEW s, NEW t,
           ErasesOnly(a, b, F, s), ErasesOnly(b, c, F, t)
    PROVE  ErasesOnly(a, c, F, s \cup t)
BY DEF ErasesOnly

(* Meeting preconditions keeps an end only where it was, so the ends that  *)
(* TOTHelper_meetPreconditions leaves behind are no new ones.              *)
LEMMA MeetingErases ==
    ASSUME NEW F, NEW E, NEW ann \in AnnotationsOver(F, E),
           NEW pre, Range(pre) \subseteq F
    PROVE  /\ MeetPreconditions(ann, pre) \in AnnotationsOver(F, E)
           /\ ErasesOnly(ann, MeetPreconditions(ann, pre), F, Awaited(ann, Range(pre)))
           /\ Awaited(ann, Range(pre)) \subseteq E
<1> DEFINE met == Awaited(ann, Range(pre))
<1>1. \A f \in F : Retained(ann, pre, f) \subseteq ann[f].first
  BY DEF Retained
<1>2. DOMAIN ann = F /\ \A f \in F : ann[f].first \subseteq E /\ ann[f].second \subseteq E
  BY DEF AnnotationsOver
<1>3. MeetPreconditions(ann, pre) =
        [f \in F |-> [first |-> (ann[f].first \ met) \cup Retained(ann, pre, f),
                      second |-> ann[f].second \ met]]
  BY <1>2 DEF MeetPreconditions
<1>4. MeetPreconditions(ann, pre) \in AnnotationsOver(F, E)
  <2> HIDE DEF met
  <2> QED BY <1>1, <1>2, <1>3 DEF AnnotationsOver
<1>5. ErasesOnly(ann, MeetPreconditions(ann, pre), F, met)
  <2> HIDE DEF met
  <2> QED BY <1>1, <1>3 DEF ErasesOnly
<1>6. met \subseteq E
  BY <1>2 DEF Awaited
<1> QED BY <1>4, <1>5, <1>6

(* Deletes erase the entries of the facts they delete.                     *)
LEMMA DeletingErases ==
    ASSUME NEW F, NEW E, NEW ann \in AnnotationsOver(F, E), NEW dels \in SUBSET F
    PROVE  /\ ForgetDeleted(ann, dels) \in AnnotationsOver(F, E)
           /\ ErasesOnly(ann, ForgetDeleted(ann, dels), F, Interested(ann, dels))
           /\ Interested(ann, dels) \subseteq E
           /\ \A f \in dels : /\ ann[f].first \subseteq Interested(ann, dels)
                              /\ ann[f].second \subseteq Interested(ann, dels)
<1> DEFINE met == Interested(ann, dels)
<1>1. DOMAIN ann = F /\ \A f \in F : ann[f].first \subseteq E /\ ann[f].second \subseteq E
  BY DEF AnnotationsOver
<1>2. \A f \in dels : ann[f].first \subseteq met /\ ann[f].second \subseteq met
  BY DEF Interested, Awaited, Holding
<1>3. met \subseteq E
  BY <1>1 DEF Interested, Awaited, Holding
<1>4. ForgetDeleted(ann, dels) =
        [f \in F |-> IF f \in dels THEN Unannotated
                     ELSE [first |-> ann[f].first \ met, second |-> ann[f].second \ met]]
  BY <1>1 DEF ForgetDeleted
<1> HIDE DEF met
<1>5. ForgetDeleted(ann, dels) \in AnnotationsOver(F, E)
  BY <1>1, <1>4 DEF AnnotationsOver, Unannotated
<1>6. ErasesOnly(ann, ForgetDeleted(ann, dels), F, met)
  BY <1>2, <1>4 DEF ErasesOnly, Unannotated
<1> QED BY <1>2, <1>3, <1>5, <1>6 DEF met

(* Adds erase the first-sets of the facts they add.                        *)
LEMMA AddingErases ==
    ASSUME NEW F, NEW E, NEW ann \in AnnotationsOver(F, E), NEW adds \in SUBSET F
    PROVE  /\ ForgetAdded(ann, adds) \in AnnotationsOver(F, E)
           /\ ErasesOnly(ann, ForgetAdded(ann, adds), F, Awaited(ann, adds))
           /\ Awaited(ann, adds) \subseteq E
           /\ \A f \in adds : ann[f].first \subseteq Awaited(ann, adds)
<1> DEFINE met == Awaited(ann, adds)
<1>1. DOMAIN ann = F /\ \A f \in F : ann[f].first \subseteq E /\ ann[f].second \subseteq E
  BY DEF AnnotationsOver
<1>2. \A f \in adds : ann[f].first \subseteq met
  BY DEF Awaited
<1>3. met \subseteq E
  BY <1>1 DEF Awaited
<1>4. ForgetAdded(ann, adds) =
        [f \in F |-> [first |-> IF f \in adds THEN {} ELSE ann[f].first \ met,
                      second |-> ann[f].second \ met]]
  BY <1>1 DEF ForgetAdded
<1> HIDE DEF met
<1>5. ForgetAdded(ann, adds) \in AnnotationsOver(F, E)
  BY <1>1, <1>4 DEF AnnotationsOver
<1>6. ErasesOnly(ann, ForgetAdded(ann, adds), F, met)
  BY <1>2, <1>4 DEF ErasesOnly
<1> QED BY <1>2, <1>3, <1>5, <1>6 DEF met

(* A snap-action erases ends only, each of them met; and it meets every    *)
(* end awaited on a fact that it uses or changes, and every end that holds *)
(* a fact it deletes: nothing the search was told to wait for is lost.     *)
THEOREM SnapActionMeetsWhatItTouches ==
    ASSUME NEW F, NEW E, NEW ann \in AnnotationsOver(F, E),
           NEW pre, Range(pre) \subseteq F,
           NEW dels \in SUBSET F, NEW adds \in SUBSET F
    PROVE  LET met == PendingEndsMet(ann, pre, dels, adds)
               new == Reannotated(ann, pre, dels, adds)
           IN /\ new \in AnnotationsOver(F, E)
              /\ ErasesOnly(ann, new, F, met)
              /\ met \subseteq E
              /\ \A f \in Range(pre) \cup dels \cup adds : ann[f].first \subseteq met
              /\ \A f \in dels : ann[f].second \subseteq met
<1> DEFINE one   == MeetPreconditions(ann, pre)
           two   == ForgetDeleted(one, dels)
           three == ForgetAdded(two, adds)
           byPre == Awaited(ann, Range(pre))
           byDel == Interested(one, dels)
           byAdd == Awaited(two, adds)
           met   == PendingEndsMet(ann, pre, dels, adds)
<1>1. /\ one \in AnnotationsOver(F, E)
      /\ ErasesOnly(ann, one, F, byPre)
      /\ byPre \subseteq E
  BY MeetingErases
<1>2. /\ two \in AnnotationsOver(F, E)
      /\ ErasesOnly(one, two, F, byDel)
      /\ byDel \subseteq E
      /\ \A f \in dels : one[f].first \subseteq byDel /\ one[f].second \subseteq byDel
  <2> HIDE DEF one
  <2> QED BY <1>1, DeletingErases
<1>3. /\ three \in AnnotationsOver(F, E)
      /\ ErasesOnly(two, three, F, byAdd)
      /\ byAdd \subseteq E
      /\ \A f \in adds : two[f].first \subseteq byAdd
  <2> HIDE DEF two
  <2> QED BY <1>2, AddingErases
<1>4. met = byPre \cup byDel \cup byAdd /\ Reannotated(ann, pre, dels, adds) = three
  BY DEF PendingEndsMet, Reannotated
<1>5. \A f \in Range(pre) : ann[f].first \subseteq byPre
  BY DEF Awaited
<1> HIDE DEF one, two, three, byPre, byDel, byAdd, met
<1>6. ErasesOnly(ann, two, F, byPre \cup byDel)
  BY <1>1, <1>2, ErasingComposes
<1>7. ErasesOnly(ann, three, F, met)
  BY <1>3, <1>4, <1>6, ErasingComposes
<1>8. \A f \in dels : ann[f].first \subseteq met /\ ann[f].second \subseteq met
  BY <1>1, <1>2, <1>4 DEF ErasesOnly
<1>9. \A f \in adds : ann[f].first \subseteq met
  BY <1>3, <1>4, <1>6 DEF ErasesOnly
<1> QED BY <1>1, <1>2, <1>3, <1>4, <1>5, <1>7, <1>8, <1>9 DEF met

-----------------------------------------------------------------------------

(* The records of a start: itself and, at the next number, its end.        *)
StartRecords(a) == <<[spec |-> "START", act |-> a], [spec |-> "END", act |-> a]>>

(* What step k is, and what is special about it: it is an end recorded     *)
(* before, a new step of its own, or the start of an action, which leaves  *)
(* annotations behind if the action is compression safe.                   *)
IsEnd(k, more, recs, after) ==
    /\ recs = <<>> /\ more = {} /\ firstAnnotations' = after
    /\ k < planLength /\ StepOf(k).spec = "END"
IsSingle(k, more, recs, after) ==
    /\ k = planLength /\ more = {} /\ firstAnnotations' = after
    /\ \E r \in StepRecords : recs = <<r>> /\ r.spec # "START"
IsStart(k, more, recs, after) ==
    /\ k = planLength /\ more = {<<k, k + 1>>}
    /\ \E a \in Actions :
          /\ recs = StartRecords(a)
          /\ firstAnnotations' = IF CanSkipToEnd(a)
                                 THEN AnnotateSkipped(after, a, k + 1) ELSE after

(* Step k is applied, a snap-action with these conditions and effects,     *)
(* which records recs as new steps and brings the orderings of more.       *)
Applies(k, pre, dels, adds, more, recs) ==
    /\ k \in Nat
    /\ recs \in Seq(StepRecords)
    /\ planLength' = planLength + Len(recs) /\ steps' = steps \o recs
    /\ Range(pre) \subseteq Facts /\ dels \subseteq Facts /\ adds \subseteq Facts
    /\ Order(k, pre, dels, adds, more)
    /\ LET st == steps'[k + 1]
       IN Conditions(st) = Range(pre) /\ Deletes(st) = dels /\ Additions(st) = adds
    /\ LET after == Reannotated(firstAnnotations, pre, dels, adds)
       IN \/ IsEnd(k, more, recs, after)
          \/ IsSingle(k, more, recs, after)
          \/ IsStart(k, more, recs, after)

(* The ends that the state refers to are recorded as steps.                *)
EndsAreSteps ==
    /\ firstAnnotations \in AnnotationsOver(Facts, StepIDs)
    /\ startedActions \in [Actions -> SUBSET StepIDs]
    /\ \A a \in Actions : \A e \in startedActions[a] :
          StepOf(e) = [spec |-> "END", act |-> a]
TypeInv == TypeOK /\ EndsAreSteps

-----------------------------------------------------------------------------
(* The earliest of a set of end steps is one of them.                      *)
LEMMA EarliestIsOne ==
    ASSUME NEW ends \in SUBSET Nat, ends # {}
    PROVE  Earliest(ends) \in ends
<1> DEFINE less == OpToRel(<, Nat)
<1>1. IsWellFoundedOn(less, Nat)
  BY NatLessThanWellFounded
<1>2. \A x, y \in Nat : x < y => <<x, y>> \in less
  BY Zenon DEF OpToRel
<1> HIDE DEF less
<1>3. PICK e \in ends : \A x \in ends : ~(<<x, e>> \in less)
  BY <1>1, WFMin
<1>4. \A x \in ends : ~(x < e)
  BY <1>2, <1>3, Zenon
<1>5. \A x \in ends : e <= x
  BY <1>4
<1> QED BY <1>5 DEF Earliest

LEMMA OperatorTypes ==
    ASSUME NEW a \in Actions
    PROVE  /\ Range(Op[a].startPre) \subseteq Facts /\ Range(Op[a].endPre) \subseteq Facts
           /\ Range(Op[a].inv) \subseteq Facts
           /\ Op[a].startAdd \subseteq Facts /\ Op[a].startDel \subseteq Facts
           /\ Op[a].endAdd \subseteq Facts /\ Op[a].endDel \subseteq Facts
<1>1. Op[a] \in SnapActions
  BY DomainAssumption
<1>2. /\ Op[a].startPre \in Seq(Facts) /\ Op[a].endPre \in Seq(Facts)
      /\ Op[a].inv \in Seq(Facts)
  BY <1>1 DEF SnapActions
<1>3. \A s \in Seq(Facts) : Range(s) \subseteq Facts
  BY ElementOfSeq, LenProperties DEF Range
<1> QED BY <1>1, <1>2, <1>3 DEF SnapActions

LEMMA RecordTypes ==
    /\ \A t \in DOMAIN TILs : /\ <<[spec |-> "TIL", til |-> t]>> \in Seq(StepRecords)
                              /\ TILs[t].adds \subseteq Facts
                              /\ TILs[t].dels \subseteq Facts
    /\ \A a \in Actions :
          /\ <<[spec |-> "INSTANT", act |-> a]>> \in Seq(StepRecords)
          /\ <<[spec |-> "START", act |-> a], [spec |-> "END", act |-> a]>> \in Seq(StepRecords)
    /\ <<>> \in Seq(StepRecords)
<1> DEFINE Literals == [at : Nat, adds : SUBSET Facts, dels : SUBSET Facts]
<1>1. \A t \in DOMAIN TILs : TILs[t] \in Literals
  <2> TILs \in Seq(Literals)
    BY DomainAssumption
  <2> HIDE DEF Literals
  <2> QED BY ElementOfSeq, LenProperties
<1>2. /\ \A t \in DOMAIN TILs : [spec |-> "TIL", til |-> t] \in StepRecords
      /\ \A a \in Actions : /\ [spec |-> "INSTANT", act |-> a] \in StepRecords
                            /\ [spec |-> "START", act |-> a] \in StepRecords
                            /\ [spec |-> "END", act |-> a] \in StepRecords
  BY DEF StepRecords
<1>3. \A r, q \in StepRecords : /\ <<r>> \in Seq(StepRecords)
                                 /\ <<r, q>> \in Seq(StepRecords)
  OBVIOUS
<1>4. <<>> \in Seq(StepRecords)
  OBVIOUS
<1>5. \A t \in DOMAIN TILs : TILs[t].adds \subseteq Facts /\ TILs[t].dels \subseteq Facts
  BY <1>1
<1>6. /\ \A t \in DOMAIN TILs : <<[spec |-> "TIL", til |-> t]>> \in Seq(StepRecords)
      /\ \A a \in Actions :
            /\ <<[spec |-> "INSTANT", act |-> a]>> \in Seq(StepRecords)
            /\ <<[spec |-> "START", act |-> a], [spec |-> "END", act |-> a]>>
                  \in Seq(StepRecords)
  BY <1>2, <1>3
<1> QED BY <1>4, <1>5, <1>6

-----------------------------------------------------------------------------
(* Recording keeps the steps there are and appends the new ones.           *)
LEMMA Recording ==
    ASSUME TypeOK, NEW recs \in Seq(StepRecords), steps' = steps \o recs
    PROVE  /\ steps' \in Seq(StepRecords)
           /\ Len(steps') = planLength + Len(recs)
           /\ \A i \in StepIDs : steps'[i + 1] = steps[i + 1]
           /\ Len(recs) >= 1 => steps'[planLength + 1] = recs[1]
           /\ Len(recs) >= 2 => steps'[planLength + 2] = recs[2]
<1>1. steps \in Seq(StepRecords) /\ Len(steps) = planLength /\ planLength \in Nat
  BY DEF TypeOK
<1>2. Len(recs) \in Nat
  BY LenProperties
<1> HIDE DEF StepRecords
<1>3. /\ steps' \in Seq(StepRecords)
      /\ Len(steps') = planLength + Len(recs)
      /\ \A i \in 1..planLength + Len(recs) :
            steps'[i] = IF i <= planLength THEN steps[i] ELSE recs[i - planLength]
  BY <1>1, ConcatProperties
<1>4. \A i \in StepIDs : steps'[i + 1] = steps[i + 1]
  BY <1>1, <1>2, <1>3 DEF StepIDs
<1>5. /\ Len(recs) >= 1 => steps'[planLength + 1] = recs[1]
      /\ Len(recs) >= 2 => steps'[planLength + 2] = recs[2]
  BY <1>1, <1>2, <1>3
<1> QED BY <1>3, <1>4, <1>5

-----------------------------------------------------------------------------
(* Each action applies one snap-action.                                    *)
LEMMA TILApplies ==
    ASSUME TypeInv, ApplyTIL
    PROVE  Applies(planLength, <<>>, TILs[nextTIL + 1].dels, TILs[nextTIL + 1].adds,
                   {}, <<[spec |-> "TIL", til |-> nextTIL + 1]>>)
<1> DEFINE r == [spec |-> "TIL", til |-> nextTIL + 1]
           til == TILs[nextTIL + 1]
<1>1. nextTIL + 1 \in DOMAIN TILs
  BY LenProperties, DomainAssumption DEF TypeInv, TypeOK, ApplyTIL
<1>2. <<r>> \in Seq(StepRecords) /\ til.dels \subseteq Facts /\ til.adds \subseteq Facts
  BY <1>1, RecordTypes
<1>3. Len(<<r>>) = 1 /\ <<r>>[1] = r /\ Range(<<>>) = {}
  BY DEF Range
<1>4. planLength' = planLength + Len(<<r>>) /\ steps' = steps \o <<r>>
  BY DEF ApplyTIL, Record
<1>5. steps'[planLength + 1] = r
  <2>1. Len(<<r>>) >= 1 => steps'[planLength + 1] = <<r>>[1]
    BY <1>2, <1>4, Recording, Zenon DEF TypeInv
  <2> QED BY <2>1, <1>3
<1>6. /\ Conditions(r) = Range(<<>>)
      /\ Deletes(r) = til.dels
      /\ Additions(r) = til.adds
  BY <1>3 DEF Conditions, Deletes, Additions
<1>7. /\ Order(planLength, <<>>, til.dels, til.adds, {})
      /\ firstAnnotations' = Reannotated(firstAnnotations, <<>>, til.dels, til.adds)
  BY DEF ApplyTIL
<1>8. IsSingle(planLength, {}, <<r>>,
               Reannotated(firstAnnotations, <<>>, til.dels, til.adds))
  <2> r \in StepRecords /\ r.spec # "START"
    BY <1>1 DEF StepRecords
  <2> QED BY <1>7 DEF IsSingle
<1>9. planLength \in Nat
  BY DEF TypeInv, TypeOK
<1> HIDE DEF r, til
<1> QED BY <1>2, <1>3, <1>4, <1>5, <1>6, <1>7, <1>8, <1>9 DEF Applies, r, til

LEMMA InstantApplies ==
    ASSUME TypeInv, NEW a \in Actions, ApplyInstant(a)
    PROVE  Applies(planLength, Op[a].startPre, Op[a].startDel, Op[a].startAdd,
                   {}, <<[spec |-> "INSTANT", act |-> a]>>)
<1> DEFINE r == [spec |-> "INSTANT", act |-> a]
<1>1. /\ planLength' = planLength + Len(<<r>>) /\ steps' = steps \o <<r>>
      /\ Order(planLength, Op[a].startPre, Op[a].startDel, Op[a].startAdd, {})
      /\ firstAnnotations' = StartedAnnotations(a, Op[a].startPre)
  BY DEF ApplyInstant, Record
<1>2. <<r>> \in Seq(StepRecords) /\ Len(<<r>>) = 1 /\ <<r>>[1] = r
  BY RecordTypes
<1>3. steps'[planLength + 1] = r
  <2>1. Len(<<r>>) >= 1 => steps'[planLength + 1] = <<r>>[1]
    BY <1>1, <1>2, Recording, Zenon DEF TypeInv
  <2> QED BY <2>1, <1>2
<1>4. /\ Conditions(r) = Range(Op[a].startPre)
      /\ Deletes(r) = Op[a].startDel
      /\ Additions(r) = Op[a].startAdd
  BY DEF Conditions, Deletes, Additions
<1>5. IsSingle(planLength, {}, <<r>>, StartedAnnotations(a, Op[a].startPre))
  <2> r \in StepRecords /\ r.spec # "START"
    BY DEF StepRecords
  <2> QED BY <1>1 DEF IsSingle
<1>6. planLength \in Nat
  BY DEF TypeInv, TypeOK
<1> HIDE DEF r
<1> QED BY <1>1, <1>2, <1>3, <1>4, <1>5, <1>6, OperatorTypes
        DEF Applies, StartedAnnotations, r

LEMMA StartApplies ==
    ASSUME TypeInv, NEW a \in Actions, StartAction(a) \/ StartSkippable(a)
    PROVE  Applies(planLength, ProcessedStartPre(a), Op[a].startDel, Op[a].startAdd,
                   {<<planLength, planLength + 1>>}, StartRecords(a))
<1> DEFINE r == [spec |-> "START", act |-> a]
           after == StartedAnnotations(a, ProcessedStartPre(a))
<1>1. RecordStart(a)
  BY DEF StartAction, StartSkippable
<1>2. Range(ProcessedStartPre(a)) \subseteq Facts
  BY <1>1 DEF RecordStart, StartApplicable, TypeInv, TypeOK
<1>3. firstAnnotations' = IF CanSkipToEnd(a)
                         THEN AnnotateSkipped(after, a, planLength + 1) ELSE after
  BY DEF StartAction, StartSkippable
<1>4. /\ StartRecords(a) \in Seq(StepRecords)
      /\ Len(StartRecords(a)) = 2
      /\ StartRecords(a)[1] = r
  BY RecordTypes DEF StartRecords
<1>5. /\ planLength' = planLength + Len(StartRecords(a))
      /\ steps' = steps \o StartRecords(a)
      /\ Order(planLength, ProcessedStartPre(a), Op[a].startDel, Op[a].startAdd,
               {<<planLength, planLength + 1>>})
  BY <1>1 DEF RecordStart, Record, StartRecords
<1>6. steps'[planLength + 1] = r
  <2>1. Len(StartRecords(a)) >= 1 => steps'[planLength + 1] = StartRecords(a)[1]
    BY <1>4, <1>5, Recording, Zenon DEF TypeInv
  <2> QED BY <2>1, <1>4
<1>7. /\ Conditions(r) = Range(ProcessedStartPre(a))
      /\ Deletes(r) = Op[a].startDel
      /\ Additions(r) = Op[a].startAdd
  BY DEF Conditions, Deletes, Additions
<1>8. IsStart(planLength, {<<planLength, planLength + 1>>}, StartRecords(a), after)
  BY <1>3 DEF IsStart
<1>9. planLength \in Nat
  BY DEF TypeInv, TypeOK
<1>10. after = Reannotated(firstAnnotations, ProcessedStartPre(a),
                           Op[a].startDel, Op[a].startAdd)
  BY DEF StartedAnnotations
<1> HIDE DEF r, after
<1> QED BY <1>2, <1>4, <1>5, <1>6, <1>7, <1>8, <1>9, <1>10, OperatorTypes DEF Applies

LEMMA EndApplies ==
    ASSUME TypeInv, NEW a \in Actions, EndAction(a)
    PROVE  Applies(Earliest(startedActions[a]), Op[a].endPre, Op[a].endDel, Op[a].endAdd,
                   {}, <<>>)
<1> DEFINE e == Earliest(startedActions[a])
           r == [spec |-> "END", act |-> a]
           after == Reannotated(firstAnnotations, Op[a].endPre, Op[a].endDel, Op[a].endAdd)
<1>1. startedActions[a] # {} /\ startedActions[a] \subseteq StepIDs
  BY DEF EndAction, EndApplicable, TypeInv, EndsAreSteps
<1>2. e \in startedActions[a]
  BY <1>1, EarliestIsOne DEF StepIDs
<1>3. e \in StepIDs /\ steps[e + 1] = r
  BY <1>1, <1>2 DEF TypeInv, EndsAreSteps, StepOf
<1>4. /\ planLength' = planLength + Len(<<>>)
      /\ steps' = steps \o <<>>
      /\ steps' = steps
  BY EmptySeq, ConcatEmptySeq DEF TypeInv, TypeOK, EndAction
<1>5. /\ Conditions(r) = Range(Op[a].endPre)
      /\ Deletes(r) = Op[a].endDel
      /\ Additions(r) = Op[a].endAdd
  BY DEF Conditions, Deletes, Additions
<1>6. firstAnnotations' = after /\ Order(e, Op[a].endPre, Op[a].endDel, Op[a].endAdd, {})
  BY DEF EndAction
<1>7. e \in Nat /\ e < planLength
  BY <1>3 DEF StepIDs, TypeInv, TypeOK
<1>8. IsEnd(e, {}, <<>>, after)
  BY <1>3, <1>6, <1>7 DEF IsEnd, StepOf
<1> HIDE DEF e, r
<1> QED BY <1>3, <1>4, <1>5, <1>6, <1>7, <1>8, RecordTypes, OperatorTypes DEF Applies, e

-----------------------------------------------------------------------------
(* What the start of a compression-safe action leaves annotated.           *)
LEMMA Annotating ==
    ASSUME NEW E, NEW ann \in AnnotationsOver(Facts, E), NEW a, NEW e
    PROVE  /\ AnnotateSkipped(ann, a, e) \in AnnotationsOver(Facts, E \cup {e})
           /\ \A f \in Facts :
                 LET new == AnnotateSkipped(ann, a, e)[f]
                 IN /\ new.first \subseteq ann[f].first \cup {e}
                    /\ new.second \subseteq ann[f].second \cup {e}
                    /\ f \in Op[a].endAdd => e \in new.first
                    /\ f \in Range(Op[a].inv) \ Op[a].endDel => e \in new.second
                    /\ f \notin Op[a].endDel => /\ ann[f].first \subseteq new.first
                                              /\ ann[f].second \subseteq new.second
<1> DEFINE new == AnnotateSkipped(ann, a, e)
<1>1. \A f \in Facts : ann[f].first \subseteq E /\ ann[f].second \subseteq E
  BY DEF AnnotationsOver
<1>2. new = [f \in Facts |->
               [first  |-> (IF f \in Op[a].endDel THEN {} ELSE ann[f].first)
                           \cup {x \in {e} : f \in Op[a].endAdd},
                second |-> IF f \in Op[a].endDel THEN {}
                           ELSE ann[f].second \cup {x \in {e} : f \in Range(Op[a].inv)}]]
  BY DEF AnnotateSkipped
<1> HIDE DEF new
<1>3. new \in AnnotationsOver(Facts, E \cup {e})
  BY <1>1, <1>2 DEF AnnotationsOver
<1>4. \A f \in Facts : /\ new[f].first \subseteq ann[f].first \cup {e}
                       /\ new[f].second \subseteq ann[f].second \cup {e}
                       /\ f \in Op[a].endAdd => e \in new[f].first
                       /\ f \in Range(Op[a].inv) \ Op[a].endDel => e \in new[f].second
                       /\ f \notin Op[a].endDel => /\ ann[f].first \subseteq new[f].first
                                                 /\ ann[f].second \subseteq new[f].second
  BY <1>2
<1> QED BY <1>3, <1>4 DEF new

LEMMA AnnotationsOverMore ==
    ASSUME NEW F, NEW E, NEW D, E \subseteq D
    PROVE  AnnotationsOver(F, E) \subseteq AnnotationsOver(F, D)
BY DEF AnnotationsOver

(* Applying a snap-action keeps the types of what every action changes.    *)
LEMMA AppliesTypes ==
    ASSUME TypeInv, NEW k, NEW pre, NEW dels, NEW adds, NEW more, NEW recs,
           Applies(k, pre, dels, adds, more, recs)
    PROVE  /\ planLength' \in Nat /\ StepIDs \subseteq StepIDs' /\ k \in StepIDs'
           /\ \A i \in StepIDs : StepOf(i)' = StepOf(i)
           /\ steps' \in Seq(StepRecords) /\ Len(steps') = planLength'
           /\ PendingEndsMet(firstAnnotations, pre, dels, adds) \subseteq StepIDs
           /\ firstAnnotations' \in AnnotationsOver(Facts, StepIDs')
           /\ epsilonBefore' \subseteq stepsBefore'
           /\ stepsBefore' \subseteq (StepIDs \X StepIDs)'
           /\ mostRecentStep' = k
           /\ applied' = Append(applied, k) /\ applied' \in Seq(StepIDs')
<1> DEFINE after == Reannotated(firstAnnotations, pre, dels, adds)
           met == PendingEndsMet(firstAnnotations, pre, dels, adds)
<1> HIDE DEF after, met
<1>1. /\ k \in Nat /\ recs \in Seq(StepRecords) /\ Len(recs) \in Nat
      /\ planLength' = planLength + Len(recs) /\ steps' = steps \o recs
  BY LenProperties DEF Applies
<1>2. planLength \in Nat /\ planLength' \in Nat /\ StepIDs \subseteq StepIDs'
  BY <1>1 DEF TypeInv, TypeOK, StepIDs
<1>3. /\ steps' \in Seq(StepRecords) /\ Len(steps') = planLength'
      /\ \A i \in StepIDs : StepOf(i)' = StepOf(i)
  BY <1>1, Recording DEF TypeInv, StepOf
<1>4. /\ after \in AnnotationsOver(Facts, StepIDs)
      /\ met \subseteq StepIDs
  <2>1. /\ Range(pre) \subseteq Facts /\ dels \in SUBSET Facts /\ adds \in SUBSET Facts
        /\ firstAnnotations \in AnnotationsOver(Facts, StepIDs)
    BY DEF Applies, TypeInv, EndsAreSteps
  <2> QED BY <2>1, SnapActionMeetsWhatItTouches, Zenon DEF after, met
<1>5. firstAnnotations' = after => firstAnnotations' \in AnnotationsOver(Facts, StepIDs')
  BY <1>2, <1>4, AnnotationsOverMore
<1>6. \/ IsEnd(k, more, recs, after)
      \/ IsSingle(k, more, recs, after)
      \/ IsStart(k, more, recs, after)
  BY DEF Applies, after
<1>7. /\ k \in StepIDs' /\ more \subseteq (StepIDs \X StepIDs)'
      /\ firstAnnotations' \in AnnotationsOver(Facts, StepIDs')
  <2>1. CASE IsEnd(k, more, recs, after)
    <3>1. k \in StepIDs'
      BY <1>1, <1>2, <2>1 DEF IsEnd, StepIDs
    <3> QED BY <3>1, <2>1, <1>5 DEF IsEnd
  <2>2. CASE IsSingle(k, more, recs, after)
    <3>1. Len(recs) = 1
      BY <2>2 DEF IsSingle
    <3>2. k \in StepIDs'
      BY <1>1, <1>2, <3>1, <2>2 DEF IsSingle, StepIDs
    <3> QED BY <3>2, <2>2, <1>5 DEF IsSingle
  <2>3. CASE IsStart(k, more, recs, after)
    <3>1. PICK a \in Actions :
             /\ recs = StartRecords(a)
             /\ firstAnnotations' = IF CanSkipToEnd(a)
                                    THEN AnnotateSkipped(after, a, k + 1) ELSE after
      BY <2>3 DEF IsStart
    <3>2. Len(recs) = 2
      BY <3>1 DEF StartRecords
    <3>3. k = planLength /\ more = {<<k, k + 1>>}
      BY <2>3 DEF IsStart
    <3>4. k \in StepIDs' /\ k + 1 \in StepIDs'
      BY <1>1, <1>2, <3>2, <3>3 DEF StepIDs
    <3>5. AnnotateSkipped(after, a, k + 1) \in AnnotationsOver(Facts, StepIDs \cup {k + 1})
      BY <1>4, Annotating
    <3>6. AnnotateSkipped(after, a, k + 1) \in AnnotationsOver(Facts, StepIDs')
      BY <1>2, <3>4, <3>5, AnnotationsOverMore
    <3> QED BY <1>5, <3>1, <3>3, <3>4, <3>6
  <2> QED BY <1>6, <2>1, <2>2, <2>3
<1>8. /\ mostRecentStep' = k /\ applied' = Append(applied, k)
      /\ \E new : /\ new \subseteq {<<b, k>> : b \in met \cup ({mostRecentStep} \ {-1})}
                  /\ stepsBefore' = stepsBefore \cup new \cup more
                  /\ epsilonBefore' = epsilonBefore \cup new
  BY DEF Applies, Order, met
<1>9. /\ epsilonBefore \subseteq stepsBefore /\ stepsBefore \subseteq StepIDs \X StepIDs
      /\ mostRecentStep \in {-1} \cup StepIDs /\ applied \in Seq(StepIDs)
  BY DEF TypeInv, TypeOK
<1>10. epsilonBefore' \subseteq stepsBefore' /\ stepsBefore' \subseteq (StepIDs \X StepIDs)'
  BY <1>2, <1>4, <1>7, <1>8, <1>9
<1>11. applied' \in Seq(StepIDs')
  <2>1. applied \in Seq(StepIDs')
    BY <1>2, <1>9
  <2> QED BY <2>1, <1>7, <1>8, AppendProperties
<1> QED BY <1>2, <1>3, <1>4, <1>7, <1>8, <1>10, <1>11 DEF met

-----------------------------------------------------------------------------
(* Types                                                                   *)
LEMMA InitTypes == Init => TypeInv
<1> SUFFICES ASSUME Init PROVE TypeInv
  OBVIOUS
<1>1. firstAnnotations \in AnnotationsOver(Facts, StepIDs)
  BY DEF Init, AnnotationsOver, Unannotated
<1>2. TypeOK
  <2>1. firstAnnotations \in [Facts -> [first : SUBSET Nat, second : SUBSET Nat]]
    BY DEF Init, Unannotated
  <2>2. steps \in Seq(StepRecords) /\ Len(steps) = planLength /\ applied \in Seq(StepIDs)
    BY EmptySeq DEF Init
  <2>3. nextTIL \in 0..Len(TILs)
    BY DomainAssumption, LenProperties DEF Init
  <2> QED BY <2>1, <2>2, <2>3, DomainAssumption DEF Init, TypeOK
<1>3. EndsAreSteps
  BY <1>1 DEF Init, EndsAreSteps
<1> QED BY <1>2, <1>3 DEF TypeInv

(* A start records its end at the next number.                             *)
LEMMA StartRecordsEnd ==
    ASSUME TypeInv, NEW k, NEW pre, NEW dels, NEW adds, NEW more, NEW a \in Actions,
           Applies(k, pre, dels, adds, more, StartRecords(a))
    PROVE  /\ planLength + 1 \in StepIDs'
           /\ steps'[planLength + 1] = [spec |-> "START", act |-> a]
           /\ steps'[planLength + 2] = [spec |-> "END", act |-> a]
<1>1. /\ Len(StartRecords(a)) = 2
      /\ StartRecords(a)[1] = [spec |-> "START", act |-> a]
      /\ StartRecords(a)[2] = [spec |-> "END", act |-> a]
  BY DEF StartRecords
<1>2. planLength \in Nat /\ planLength' = planLength + 2
  BY <1>1 DEF Applies, TypeInv, TypeOK
<1>3. /\ Len(StartRecords(a)) >= 1 => steps'[planLength + 1] = StartRecords(a)[1]
      /\ Len(StartRecords(a)) >= 2 => steps'[planLength + 2] = StartRecords(a)[2]
  BY Recording, Zenon DEF Applies, TypeInv
<1> QED BY <1>1, <1>2, <1>3 DEF StepIDs

LEMMA StepIDsAreNaturals ==
    ASSUME planLength' \in Nat
    PROVE  StepIDs' \subseteq Nat
<1>1. \A n \in Nat : \A i \in 0..n - 1 : i \in Nat
  OBVIOUS
<1> QED BY <1>1 DEF StepIDs

(* What is left to check of a step that applies a snap-action.             *)
LEMMA AppliesKeepsTypes ==
    ASSUME TypeInv, NEW k, NEW pre, NEW dels, NEW adds, NEW more, NEW recs,
           Applies(k, pre, dels, adds, more, recs),
           first' \subseteq Facts, invariants' \in [Facts -> Int],
           actionsExecuting' \in Int, nextTIL' \in 0..Len(TILs),
           startedActions' \in [Actions -> SUBSET StepIDs'],
           \A a \in Actions : \A e \in startedActions'[a] :
              StepOf(e)' = [spec |-> "END", act |-> a]
    PROVE  TypeInv'
<1>1. EndsAreSteps'
  BY AppliesTypes DEF EndsAreSteps
<1>2. /\ firstAnnotations' \in [Facts -> [first : SUBSET Nat, second : SUBSET Nat]]
      /\ startedActions' \in [Actions -> SUBSET Nat]
  <2>1. planLength' \in Nat /\ firstAnnotations' \in AnnotationsOver(Facts, StepIDs')
    BY AppliesTypes
  <2>2. StepIDs' \subseteq Nat
    BY <2>1, StepIDsAreNaturals
  <2>3. firstAnnotations' \in AnnotationsOver(Facts, Nat)
    BY <2>1, <2>2, AnnotationsOverMore
  <2> QED BY <2>1, <2>2, <2>3 DEF AnnotationsOver
<1>3. TypeOK'
  BY <1>2, AppliesTypes DEF TypeOK
<1> QED BY <1>1, <1>3 DEF TypeInv

LEMMA RunningEndsStay ==
    ASSUME TypeInv, NEW k, NEW pre, NEW dels, NEW adds, NEW more, NEW recs,
           Applies(k, pre, dels, adds, more, recs),
           NEW a \in Actions, NEW e \in startedActions[a]
    PROVE  e \in StepIDs' /\ StepOf(e)' = [spec |-> "END", act |-> a]
<1>1. e \in StepIDs /\ StepOf(e) = [spec |-> "END", act |-> a]
  BY DEF TypeInv, EndsAreSteps
<1> QED BY <1>1, AppliesTypes

LEMMA NextTypes == TypeInv /\ [Next]_vars => TypeInv'
<1> SUFFICES ASSUME TypeInv, [Next]_vars PROVE TypeInv'
  OBVIOUS
<1>1. CASE ApplyTIL
  <2> DEFINE til == TILs[nextTIL + 1]
             recs == <<[spec |-> "TIL", til |-> nextTIL + 1]>>
  <2>1. Applies(planLength, <<>>, til.dels, til.adds, {}, recs)
    BY <1>1, TILApplies
  <2>2. first' \subseteq Facts /\ nextTIL' \in 0..Len(TILs)
    <3>1. til.adds \subseteq Facts
      BY <2>1 DEF Applies
    <3>2. Len(TILs) \in Nat
      BY DomainAssumption, LenProperties
    <3> QED BY <1>1, <3>1, <3>2 DEF ApplyTIL, TypeInv, TypeOK
  <2>3. UNCHANGED <<invariants, startedActions, actionsExecuting>>
    BY <1>1 DEF ApplyTIL
  <2> HIDE DEF til, recs
  <2>4. \A a \in Actions : \A e \in startedActions[a] :
           e \in StepIDs' /\ StepOf(e)' = [spec |-> "END", act |-> a]
    BY <2>1, RunningEndsStay
  <2>5. startedActions' \in [Actions -> SUBSET StepIDs']
    BY <2>3, <2>4 DEF TypeInv, TypeOK
  <2>6. invariants' \in [Facts -> Int] /\ actionsExecuting' \in Int
    BY <2>3 DEF TypeInv, TypeOK
  <2> QED BY <2>1, <2>2, <2>3, <2>4, <2>5, <2>6, AppliesKeepsTypes
<1>2. ASSUME NEW a \in Actions, ApplyInstant(a) PROVE TypeInv'
  <2> DEFINE recs == <<[spec |-> "INSTANT", act |-> a]>>
  <2>1. Applies(planLength, Op[a].startPre, Op[a].startDel, Op[a].startAdd, {}, recs)
    BY <1>2, InstantApplies
  <2>2. first' \subseteq Facts
    BY <1>2, OperatorTypes DEF ApplyInstant, StartedFacts, TypeInv, TypeOK
  <2>3. UNCHANGED <<invariants, startedActions, actionsExecuting, nextTIL>>
    BY <1>2 DEF ApplyInstant
  <2> HIDE DEF recs
  <2>4. \A b \in Actions : \A e \in startedActions[b] :
           e \in StepIDs' /\ StepOf(e)' = [spec |-> "END", act |-> b]
    BY <2>1, RunningEndsStay
  <2>5. startedActions' \in [Actions -> SUBSET StepIDs']
    BY <2>3, <2>4 DEF TypeInv, TypeOK
  <2>6. /\ invariants' \in [Facts -> Int] /\ actionsExecuting' \in Int
        /\ nextTIL' \in 0..Len(TILs)
    BY <2>3 DEF TypeInv, TypeOK
  <2> QED BY <2>1, <2>2, <2>3, <2>4, <2>5, <2>6, AppliesKeepsTypes
<1>3. ASSUME NEW a \in Actions, StartAction(a) \/ StartSkippable(a) PROVE TypeInv'
  <2> DEFINE k == planLength
  <2>1. Applies(k, ProcessedStartPre(a), Op[a].startDel, Op[a].startAdd,
                {<<k, k + 1>>}, StartRecords(a))
    BY <1>3, StartApplies
  <2>2. first' \subseteq Facts
    BY <1>3, OperatorTypes DEF StartAction, StartSkippable, StartedFacts, TypeInv, TypeOK
  <2>3. actionsExecuting' = actionsExecuting + 1 /\ nextTIL' = nextTIL
    BY <1>3 DEF StartAction, StartSkippable, RecordStart
  <2>4. \A b \in Actions : \A e \in startedActions[b] :
           e \in StepIDs' /\ StepOf(e)' = [spec |-> "END", act |-> b]
    BY <2>1, RunningEndsStay
  <2>5. k + 1 \in StepIDs' /\ steps'[k + 2] = [spec |-> "END", act |-> a]
    BY <2>1, StartRecordsEnd
  <2>6. \A b \in Actions : startedActions'[b] \subseteq
           startedActions[b] \cup {e \in {k + 1} : b = a}
    BY <1>3 DEF StartAction, StartSkippable, TypeInv, TypeOK
  <2>7. /\ startedActions' \in [Actions -> SUBSET StepIDs']
        /\ \A b \in Actions : \A e \in startedActions'[b] :
              StepOf(e)' = [spec |-> "END", act |-> b]
    <3>1. \A b \in Actions : \A e \in startedActions'[b] :
             e \in StepIDs' /\ StepOf(e)' = [spec |-> "END", act |-> b]
      <4> SUFFICES ASSUME NEW b \in Actions, NEW e \in startedActions'[b]
                   PROVE  e \in StepIDs' /\ StepOf(e)' = [spec |-> "END", act |-> b]
        OBVIOUS
      <4>1. e \in startedActions[b] \/ (e = k + 1 /\ b = a)
        BY <2>6
      <4>2. k \in Nat
        BY DEF TypeInv, TypeOK
      <4>3. CASE e = k + 1 /\ b = a
        <5>1. StepOf(e)' = steps'[k + 2]
          BY <4>2, <4>3 DEF StepOf
        <5> QED BY <5>1, <2>5, <4>3
      <4> QED BY <2>4, <4>1, <4>3
    <3>2. startedActions' = [b \in Actions |-> startedActions'[b]]
      BY <1>3 DEF StartAction, StartSkippable, TypeInv, TypeOK
    <3> QED BY <3>1, <3>2
  <2>8. /\ invariants' \in [Facts -> Int] /\ actionsExecuting' \in Int
        /\ nextTIL' \in 0..Len(TILs)
    BY <1>3, <2>3 DEF StartAction, StartSkippable, TypeInv, TypeOK
  <2> QED BY <2>1, <2>2, <2>7, <2>8, AppliesKeepsTypes
<1>4. ASSUME NEW a \in Actions, EndAction(a) PROVE TypeInv'
  <2> DEFINE e == Earliest(startedActions[a])
  <2>1. Applies(e, Op[a].endPre, Op[a].endDel, Op[a].endAdd, {}, <<>>)
    BY <1>4, EndApplies
  <2>2. first' \subseteq Facts
    BY <1>4, OperatorTypes DEF EndAction, TypeInv, TypeOK
  <2>3. Deregister(a, e) /\ UNCHANGED nextTIL
    BY <1>4 DEF EndAction
  <2> HIDE DEF e
  <2>4. \A b \in Actions : \A x \in startedActions[b] :
           x \in StepIDs' /\ StepOf(x)' = [spec |-> "END", act |-> b]
    BY <2>1, RunningEndsStay
  <2>5. /\ startedActions' = [b \in Actions |-> startedActions'[b]]
        /\ \A b \in Actions : startedActions'[b] \subseteq startedActions[b]
    BY <2>3 DEF Deregister, TypeInv, TypeOK
  <2>6. /\ startedActions' \in [Actions -> SUBSET StepIDs']
        /\ \A b \in Actions : \A x \in startedActions'[b] :
              StepOf(x)' = [spec |-> "END", act |-> b]
    BY <2>4, <2>5
  <2>7. /\ invariants' \in [Facts -> Int] /\ actionsExecuting' \in Int
        /\ nextTIL' \in 0..Len(TILs)
    BY <2>3 DEF Deregister, TypeInv, TypeOK
  <2> QED BY <2>1, <2>2, <2>6, <2>7, AppliesKeepsTypes
<1>5. CASE UNCHANGED vars
  BY <1>5 DEF vars, stateVars, TypeInv, TypeOK, EndsAreSteps, StepIDs, StepOf
<1> QED BY <1>1, <1>2, <1>3, <1>4, <1>5 DEF Next

(* Every state the search can build has the shape the code declares; in    *)
(* particular orderings, annotations and applied steps are about steps     *)
(* that were recorded.                                                     *)
THEOREM StatesAreWellTyped == Spec => []TypeOK
<1>1. Init => TypeInv
  BY InitTypes
<1>2. TypeInv /\ [Next]_vars => TypeInv'
  BY NextTypes
<1>3. TypeInv => TypeOK
  BY DEF TypeInv
<1> QED BY <1>1, <1>2, <1>3, PTL DEF Spec

-----------------------------------------------------------------------------
(* A step among applied[i + 1], ..., applied[j] is ordered after the end   *)
(* of the compression-safe action that applied[i] starts.                  *)
Awaits(i, j) ==
    \E m \in i + 1..j : <<PendingEnd(applied[i]), applied[m]>> \in epsilonBefore

LastIsMostRecent ==
    mostRecentStep = IF applied = <<>> THEN -1 ELSE applied[Len(applied)]

PendingEnds ==
    {PendingEnd(applied[i]) : i \in {j \in DOMAIN applied : SkippedStart(applied[j])}}
AnnotatedEndsArePending == firstAnnotations \in AnnotationsOver(Facts, PendingEnds)

PendingEndsAreTracked ==
    \A i \in DOMAIN applied : \A f \in Facts :
        SkippedStart(applied[i]) =>
            LET a == StepOf(applied[i]).act
                e == PendingEnd(applied[i])
            IN /\ f \in Op[a].endAdd \ Scrubbed =>
                     e \in firstAnnotations[f].first \/ Awaits(i, Len(applied))
               /\ f \in Range(Op[a].inv) \ Scrubbed =>
                     e \in firstAnnotations[f].second \/ Awaits(i, Len(applied))

(* The part that does not mind if others add orderings.                    *)
TrackInv ==
    /\ TypeInv
    /\ LastIsMostRecent
    /\ AppliedStepsAreAChain
    /\ AnnotatedEndsArePending
    /\ PendingEndsAreTracked
    /\ PendingEndsRespected
OrderInv == TrackInv /\ OrderingsFollowApplication

(* An ordering that leads forward in the order of application.             *)
Follows(edge) ==
    \/ StepOf(edge[1]).spec = "START" /\ edge[2] = PendingEnd(edge[1])
    \/ \E i \in DOMAIN applied : edge[2] = applied[i] /\ EarlierThan(edge[1], i)

-----------------------------------------------------------------------------
(* A step is appended to those applied, which keep what they were.         *)
LEMMA Appending ==
    ASSUME TypeInv, NEW k, NEW pre, NEW dels, NEW adds, NEW more, NEW recs,
           Applies(k, pre, dels, adds, more, recs)
    PROVE  /\ Len(applied) \in Nat /\ Len(applied') = Len(applied) + 1
           /\ DOMAIN applied = 1..Len(applied)
           /\ DOMAIN applied' = 1..Len(applied) + 1
           /\ applied'[Len(applied) + 1] = k
           /\ \A i \in DOMAIN applied : /\ applied[i] \in StepIDs
                                        /\ applied'[i] = applied[i]
                                        /\ steps'[applied[i] + 1] = steps[applied[i] + 1]
<1>1. applied \in Seq(StepIDs) /\ applied \in Seq(StepIDs')
  <2>1. applied \in Seq(StepIDs) /\ StepIDs \subseteq StepIDs'
    BY AppliesTypes DEF TypeInv, TypeOK
  <2> QED BY <2>1
<1>2. applied' = Append(applied, k) /\ k \in StepIDs'
  BY AppliesTypes
<1>3. /\ applied' \in Seq(StepIDs')
      /\ Len(applied') = Len(applied) + 1
      /\ \A i \in 1..Len(applied) : applied'[i] = applied[i]
      /\ applied'[Len(applied) + 1] = k
  BY <1>1, <1>2, AppendProperties
<1>4. Len(applied) \in Nat /\ DOMAIN applied = 1..Len(applied)
      /\ DOMAIN applied' = 1..Len(applied')
  BY <1>1, <1>3, LenProperties
<1>5. \A i \in DOMAIN applied : applied[i] \in StepIDs
  BY <1>1, <1>4, ElementOfSeq
<1>6. \A i \in StepIDs : steps'[i + 1] = steps[i + 1]
  BY AppliesTypes DEF StepOf
<1> QED BY <1>3, <1>4, <1>5, <1>6

(* What a step leaves annotated depends on whether it starts a             *)
(* compression-safe action.                                                *)
LEMMA NewAnnotations ==
    ASSUME TypeInv, NEW k, NEW pre, NEW dels, NEW adds, NEW more, NEW recs,
           Applies(k, pre, dels, adds, more, recs)
    PROVE  LET after == Reannotated(firstAnnotations, pre, dels, adds)
               st == steps'[k + 1]
           IN IF st.spec = "START" /\ CanSkipToEnd(st.act)
              THEN st.act \in Actions /\ firstAnnotations' = AnnotateSkipped(after, st.act, k + 1)
              ELSE firstAnnotations' = after
<1> DEFINE after == Reannotated(firstAnnotations, pre, dels, adds)
           st == steps'[k + 1]
<1>1. \/ IsEnd(k, more, recs, after)
      \/ IsSingle(k, more, recs, after)
      \/ IsStart(k, more, recs, after)
  BY DEF Applies
<1> HIDE DEF after
<1>2. CASE IsEnd(k, more, recs, after)
  <2>1. k \in StepIDs
    BY <1>2 DEF IsEnd, Applies, TypeInv, TypeOK, StepIDs
  <2>2. st.spec = "END"
    BY <1>2, <2>1, AppliesTypes DEF IsEnd, StepOf
  <2> QED BY <1>2, <2>2 DEF IsEnd, after
<1>3. CASE IsSingle(k, more, recs, after)
  <2>1. PICK r \in StepRecords : recs = <<r>> /\ r.spec # "START"
    BY <1>3 DEF IsSingle
  <2>2. Len(recs) >= 1 => steps'[planLength + 1] = recs[1]
    BY Recording, Zenon DEF Applies, TypeInv
  <2>3. st.spec # "START"
    BY <1>3, <2>1, <2>2 DEF IsSingle
  <2> QED BY <1>3, <2>3 DEF IsSingle, after
<1>4. CASE IsStart(k, more, recs, after)
  <2>1. PICK a \in Actions :
           /\ recs = StartRecords(a)
           /\ firstAnnotations' = IF CanSkipToEnd(a)
                                  THEN AnnotateSkipped(after, a, k + 1) ELSE after
    BY <1>4 DEF IsStart
  <2>2. st = [spec |-> "START", act |-> a]
    BY <1>4, <2>1, StartRecordsEnd DEF IsStart
  <2> QED BY <2>1, <2>2 DEF after
<1> QED BY <1>1, <1>2, <1>3, <1>4

(* A step that applies a snap-action sets no ordering that leads back.     *)
LEMMA NewOrderings ==
    ASSUME TypeInv, NEW k, NEW pre, NEW dels, NEW adds, NEW more, NEW recs,
           Applies(k, pre, dels, adds, more, recs)
    PROVE  LET met == PendingEndsMet(firstAnnotations, pre, dels, adds)
           IN /\ epsilonBefore \subseteq epsilonBefore'
              /\ \A b \in met \cup ({mostRecentStep} \ {-1}) : <<b, k>> \in epsilonBefore'
              /\ \A edge \in stepsBefore' :
                    \/ edge \in stepsBefore
                    \/ edge[2] = k /\ edge[1] \in met \cup ({mostRecentStep} \ {-1})
                    \/ edge[2] = edge[1] + 1 /\ steps'[edge[1] + 1].spec = "START"
<1> DEFINE met == PendingEndsMet(firstAnnotations, pre, dels, adds)
           new == {<<b, k>> : b \in met \cup ({mostRecentStep} \ {-1})}
<1>1. /\ stepsBefore' = stepsBefore \cup new \cup more
      /\ epsilonBefore' = epsilonBefore \cup new
  BY DEF Applies, Order
<1>2. \A edge \in more : edge[2] = edge[1] + 1 /\ steps'[edge[1] + 1].spec = "START"
  <2>1. more = {} \/ \E a \in Actions :
           k = planLength /\ more = {<<k, k + 1>>} /\ recs = StartRecords(a)
    BY DEF Applies, IsEnd, IsSingle, IsStart
  <2>2. ASSUME NEW a \in Actions,
               k = planLength, more = {<<k, k + 1>>}, recs = StartRecords(a)
        PROVE  \A edge \in more : edge[2] = edge[1] + 1 /\ steps'[edge[1] + 1].spec = "START"
    <3>1. steps'[k + 1] = [spec |-> "START", act |-> a]
      BY <2>2, StartRecordsEnd
    <3> QED BY <2>2, <3>1
  <2> QED BY <2>1, <2>2
<1>3. \A edge \in new : edge[2] = k /\ edge[1] \in met \cup ({mostRecentStep} \ {-1})
  OBVIOUS
<1> HIDE DEF met
<1>4. \A b \in met \cup ({mostRecentStep} \ {-1}) : <<b, k>> \in new
  OBVIOUS
<1> HIDE DEF new
<1> QED BY <1>1, <1>2, <1>3, <1>4 DEF met

-----------------------------------------------------------------------------
(* The facts about applying a snap-action, under the names the proof of    *)
(* preservation uses: n steps were applied, step k is the next.            *)
LEMMA AppliesKeepsOrder ==
    ASSUME TrackInv, NEW k, NEW pre, NEW dels, NEW adds, NEW more, NEW recs,
           Applies(k, pre, dels, adds, more, recs)
    PROVE  /\ LastIsMostRecent' /\ AppliedStepsAreAChain' /\ AnnotatedEndsArePending'
           /\ PendingEndsAreTracked' /\ PendingEndsRespected'
<1> DEFINE n     == Len(applied)
           met   == PendingEndsMet(firstAnnotations, pre, dels, adds)
           after == Reannotated(firstAnnotations, pre, dels, adds)
           st    == steps'[k + 1]
           skipped == st.spec = "START" /\ CanSkipToEnd(st.act)
<1>1. TypeInv
  BY DEF TrackInv
<1>2. /\ n \in Nat /\ Len(applied') = n + 1
      /\ DOMAIN applied = 1..n /\ DOMAIN applied' = 1..n + 1
      /\ applied'[n + 1] = k
      /\ \A i \in 1..n : /\ applied[i] \in StepIDs
                         /\ applied'[i] = applied[i]
                         /\ steps'[applied[i] + 1] = steps[applied[i] + 1]
  <2>1. DOMAIN applied = 1..n
    BY <1>1, Appending
  <2> QED BY <1>1, <2>1, Appending
<1>3. IF skipped
      THEN st.act \in Actions /\ firstAnnotations' = AnnotateSkipped(after, st.act, k + 1)
      ELSE firstAnnotations' = after
  BY <1>1, NewAnnotations
<1>4. /\ epsilonBefore \subseteq epsilonBefore'
      /\ \A b \in met \cup ({mostRecentStep} \ {-1}) : <<b, k>> \in epsilonBefore'
      /\ \A edge \in stepsBefore' :
            \/ edge \in stepsBefore
            \/ edge[2] = k /\ edge[1] \in met \cup ({mostRecentStep} \ {-1})
            \/ edge[2] = edge[1] + 1 /\ steps'[edge[1] + 1].spec = "START"
  BY <1>1, NewOrderings
<1>5. /\ after \in AnnotationsOver(Facts, PendingEnds) /\ met \subseteq PendingEnds
      /\ ErasesOnly(firstAnnotations, after, Facts, met)
      /\ \A f \in Range(pre) \cup dels \cup adds : firstAnnotations[f].first \subseteq met
      /\ \A f \in dels : firstAnnotations[f].second \subseteq met
  <2>1. /\ Range(pre) \subseteq Facts /\ dels \in SUBSET Facts /\ adds \in SUBSET Facts
        /\ firstAnnotations \in AnnotationsOver(Facts, PendingEnds)
    BY DEF Applies, TrackInv, AnnotatedEndsArePending
  <2> QED BY <2>1, SnapActionMeetsWhatItTouches, Zenon
<1>6. mostRecentStep' = k /\ k \in Nat
  BY <1>1, AppliesTypes DEF Applies
<1>7. /\ Range(pre) \subseteq Facts /\ dels \subseteq Facts /\ adds \subseteq Facts
      /\ Conditions(st) = Range(pre) /\ Deletes(st) = dels /\ Additions(st) = adds
  BY DEF Applies
<1> HIDE DEF n, met, after, st
<1>8. \A i \in 1..n : /\ SkippedStart(applied[i])' <=> SkippedStart(applied[i])
                      /\ PendingEnd(applied[i])' = PendingEnd(applied[i])
                      /\ StepOf(applied[i])' = StepOf(applied[i])
  BY <1>2 DEF SkippedStart, PendingEnd, StepOf
<1>9. \A i : i = n + 1 => /\ SkippedStart(applied[i])' <=> skipped
                          /\ PendingEnd(applied[i])' = k + 1
                          /\ StepOf(applied[i])' = st
  BY <1>2 DEF SkippedStart, PendingEnd, StepOf, st

<1>10. LastIsMostRecent'
  <2>1. applied' # <<>>
    BY <1>2
  <2> QED BY <1>2, <1>6, <2>1 DEF LastIsMostRecent
<1>11. AppliedStepsAreAChain'
  <2> SUFFICES ASSUME NEW i \in 1..n + 1, i # 1
               PROVE  <<applied'[i - 1], applied'[i]>> \in epsilonBefore'
    BY <1>2 DEF AppliedStepsAreAChain
  <2>1. CASE i \in 1..n
    <3>1. <<applied[i - 1], applied[i]>> \in epsilonBefore
      BY <1>2, <2>1 DEF TrackInv, AppliedStepsAreAChain
    <3> QED BY <1>2, <1>4, <2>1, <3>1
  <2>2. CASE i = n + 1
    <3>1. applied # <<>> /\ n \in 1..n
      BY <1>2, <2>2
    <3>2. mostRecentStep = applied[n] /\ applied[n] \in StepIDs
      BY <1>2, <3>1 DEF TrackInv, LastIsMostRecent, n
    <3>3. applied[n] # -1
      BY <1>1, <3>2 DEF StepIDs, TypeInv, TypeOK
    <3> QED BY <1>2, <1>4, <2>2, <3>1, <3>2, <3>3
  <2> QED BY <1>2, <2>1, <2>2
<1>12. AnnotatedEndsArePending'
  <2>1. PendingEnds \subseteq PendingEnds'
    <3> SUFFICES ASSUME NEW i \in 1..n, SkippedStart(applied[i])
                 PROVE  PendingEnd(applied[i]) \in PendingEnds'
      BY <1>2 DEF PendingEnds
    <3>1. /\ i \in DOMAIN applied' /\ SkippedStart(applied[i])'
          /\ PendingEnd(applied[i])' = PendingEnd(applied[i])
      BY <1>2, <1>8
    <3> QED BY <3>1 DEF PendingEnds
  <2>2. CASE ~skipped
    BY <1>3, <1>5, <2>1, <2>2, AnnotationsOverMore DEF AnnotatedEndsArePending
  <2>3. CASE skipped
    <3>1. k + 1 \in PendingEnds'
      <4>1. PICK i : i = n + 1
        OBVIOUS
      <4>2. /\ i \in DOMAIN applied' /\ SkippedStart(applied[i])'
            /\ PendingEnd(applied[i])' = k + 1
        BY <1>2, <1>9, <2>3, <4>1
      <4> QED BY <4>2 DEF PendingEnds
    <3>2. firstAnnotations' \in AnnotationsOver(Facts, PendingEnds \cup {k + 1})
      BY <1>3, <1>5, <2>3, Annotating
    <3>3. PendingEnds \cup {k + 1} \subseteq PendingEnds'
      BY <2>1, <3>1
    <3> QED BY <3>2, <3>3, AnnotationsOverMore DEF AnnotatedEndsArePending
  <2> QED BY <2>2, <2>3
(* A tracked end stays tracked, or step k is ordered after it.             *)
<1>14. ASSUME NEW i \in 1..n, SkippedStart(applied[i]), NEW f \in Facts, NEW q, q = n + 1
       PROVE  LET a == StepOf(applied[i]).act
                  e == PendingEnd(applied[i])
              IN /\ f \in Op[a].endAdd \ Scrubbed =>
                       e \in firstAnnotations'[f].first \/ Awaits(i, q)'
                 /\ f \in Range(Op[a].inv) \ Scrubbed =>
                       e \in firstAnnotations'[f].second \/ Awaits(i, q)'
  <2> DEFINE a == StepOf(applied[i]).act
             e == PendingEnd(applied[i])
  <2>1. /\ f \in Op[a].endAdd \ Scrubbed =>
              e \in firstAnnotations[f].first \/ Awaits(i, n)
        /\ f \in Range(Op[a].inv) \ Scrubbed =>
              e \in firstAnnotations[f].second \/ Awaits(i, n)
    BY <1>2, <1>14 DEF TrackInv, PendingEndsAreTracked, n
  <2>2. Awaits(i, n) => Awaits(i, q)'
    <3> SUFFICES ASSUME NEW m \in i + 1..n,
                        <<PendingEnd(applied[i]), applied[m]>> \in epsilonBefore
                 PROVE  Awaits(i, q)'
      BY DEF Awaits
    <3>1. m \in 1..n /\ m \in i + 1..q
      BY <1>2, <1>14
    <3> QED BY <1>2, <1>4, <1>8, <3>1 DEF Awaits, PendingEnd
  <2>3. e \in met => Awaits(i, q)'
    <3> SUFFICES ASSUME e \in met PROVE Awaits(i, q)'
      OBVIOUS
    <3>1. <<e, k>> \in epsilonBefore'
      BY <1>4
    <3>2. q \in i + 1..q /\ applied'[q] = k
      BY <1>2, <1>14
    <3>3. <<PendingEnd(applied[i])', applied'[q]>> \in epsilonBefore'
      BY <1>8, <3>1, <3>2
    <3> QED BY <3>2, <3>3 DEF Awaits
  <2>4. f \notin Scrubbed => /\ after[f].first \subseteq firstAnnotations'[f].first
                            /\ after[f].second \subseteq firstAnnotations'[f].second
    <3>1. CASE ~skipped
      BY <1>3, <3>1
    <3>2. CASE skipped
      <4>1. f \notin Scrubbed => f \notin Op[st.act].endDel
        BY <1>3, <3>2 DEF Scrubbed
      <4>2. f \notin Op[st.act].endDel =>
               LET new == AnnotateSkipped(after, st.act, k + 1)[f]
               IN after[f].first \subseteq new.first /\ after[f].second \subseteq new.second
        BY <1>5, Annotating, Zenon
      <4>3. firstAnnotations' = AnnotateSkipped(after, st.act, k + 1)
        BY <1>3, <3>2
      <4> QED BY <4>1, <4>2, <4>3
    <3> QED BY <3>1, <3>2
  <2>5. /\ firstAnnotations[f].first \subseteq after[f].first \cup met
        /\ firstAnnotations[f].second \subseteq after[f].second \cup met
    BY <1>5 DEF ErasesOnly
  <2> HIDE DEF a, e
  <2>6. /\ f \in Op[a].endAdd \ Scrubbed =>
              e \in firstAnnotations'[f].first \/ Awaits(i, q)'
        /\ f \in Range(Op[a].inv) \ Scrubbed =>
              e \in firstAnnotations'[f].second \/ Awaits(i, q)'
    BY <2>1, <2>2, <2>3, <2>4, <2>5
  <2> QED BY <2>6 DEF a, e
<1>15. PendingEndsAreTracked'
  <2> SUFFICES ASSUME NEW i \in 1..n + 1, NEW f \in Facts, SkippedStart(applied[i])'
               PROVE  LET a == StepOf(applied[i])'.act
                          e == PendingEnd(applied[i])'
                      IN /\ f \in Op[a].endAdd \ Scrubbed =>
                               e \in firstAnnotations'[f].first \/ Awaits(i, Len(applied))'
                         /\ f \in Range(Op[a].inv) \ Scrubbed =>
                               e \in firstAnnotations'[f].second \/ Awaits(i, Len(applied))'
    BY <1>2 DEF PendingEndsAreTracked
  <2>1. PICK q : q = n + 1
    OBVIOUS
  <2>2. Awaits(i, q)' => Awaits(i, Len(applied))'
    BY <1>2, <2>1 DEF Awaits
  <2>3. CASE i \in 1..n
    BY <1>8, <1>14, <2>1, <2>2, <2>3
  <2>4. CASE i = n + 1
    <3>1. StepOf(applied[i])' = st /\ PendingEnd(applied[i])' = k + 1 /\ skipped
      BY <1>9, <2>4
    <3>2. st.act \in Actions /\ firstAnnotations' = AnnotateSkipped(after, st.act, k + 1)
      BY <1>3, <3>1
    <3>3. Op[st.act].endDel \subseteq Scrubbed
      BY <3>1, <3>2 DEF Scrubbed
    <3>4. /\ f \in Op[st.act].endAdd => k + 1 \in firstAnnotations'[f].first
          /\ f \in Range(Op[st.act].inv) \ Op[st.act].endDel =>
                k + 1 \in firstAnnotations'[f].second
      BY <1>5, <3>2, Annotating
    <3> QED BY <3>1, <3>3, <3>4
  <2> QED BY <1>2, <2>3, <2>4

(* Step k meets the tracked ends of the actions it concerns.               *)
<1>16. PendingEndsRespected'
  <2> SUFFICES ASSUME NEW i \in 1..n + 1, NEW j \in 1..n + 1, i < j,
                      SkippedStart(applied[i])',
                      Concerns(StepOf(applied[j]), StepOf(applied[i]).act)'
               PROVE  Awaits(i, j)'
    BY <1>2 DEF PendingEndsRespected, Awaits
  <2>1. i \in 1..n
    BY <1>2
  <2>2. SkippedStart(applied[i]) /\ StepOf(applied[i])' = StepOf(applied[i])
    BY <1>8, <2>1
  <2>3. CASE j \in 1..n
    <3>1. Concerns(StepOf(applied[j]), StepOf(applied[i]).act)
      BY <1>8, <2>1, <2>2, <2>3 DEF Concerns, Conditions, Deletes, Additions
    <3>2. PICK m \in i + 1..j : <<PendingEnd(applied[i]), applied[m]>> \in epsilonBefore
      BY <1>2, <2>1, <2>2, <2>3, <3>1 DEF TrackInv, PendingEndsRespected
    <3>3. m \in 1..n
      BY <1>2, <2>1, <2>3
    <3> QED BY <1>2, <1>4, <1>8, <2>1, <3>2, <3>3 DEF Awaits, PendingEnd
  <2>4. CASE j = n + 1
    <3> DEFINE a == StepOf(applied[i]).act
               e == PendingEnd(applied[i])
    <3>1. StepOf(applied[j])' = st
      BY <1>9, <2>4
    <3>2. \/ (Range(pre) \cup dels \cup adds) \cap (Op[a].endAdd \ Scrubbed) # {}
          \/ dels \cap (Range(Op[a].inv) \ Scrubbed) # {}
      BY <1>7, <2>2, <3>1 DEF Concerns
    <3>3. e \in met \/ Awaits(i, n)
      <4>1. ASSUME NEW f \in (Range(pre) \cup dels \cup adds) \cap (Op[a].endAdd \ Scrubbed)
            PROVE  e \in met \/ Awaits(i, n)
        <5>1. e \in firstAnnotations[f].first \/ Awaits(i, n)
          BY <1>2, <1>7, <2>1, <2>2, <4>1 DEF TrackInv, PendingEndsAreTracked, n
        <5> QED BY <1>5, <4>1, <5>1
      <4>2. ASSUME NEW f \in dels \cap (Range(Op[a].inv) \ Scrubbed)
            PROVE  e \in met \/ Awaits(i, n)
        <5>1. e \in firstAnnotations[f].second \/ Awaits(i, n)
          BY <1>2, <1>7, <2>1, <2>2, <4>2 DEF TrackInv, PendingEndsAreTracked, n
        <5> QED BY <1>5, <4>2, <5>1
      <4> QED BY <3>2, <4>1, <4>2
    <3>4. CASE e \in met
      <4>1. <<e, k>> \in epsilonBefore' /\ applied'[j] = k /\ PendingEnd(applied[i])' = e
        BY <1>2, <1>4, <1>8, <2>1, <2>4, <3>4
      <4>2. j \in i + 1..j
        BY <1>2
      <4> HIDE DEF e
      <4> QED BY <4>1, <4>2 DEF Awaits
    <3>5. CASE Awaits(i, n)
      <4>1. PICK m \in i + 1..n : <<PendingEnd(applied[i]), applied[m]>> \in epsilonBefore
        BY <3>5 DEF Awaits
      <4>2. m \in 1..n /\ m \in i + 1..j
        BY <1>2, <2>1, <2>4
      <4> QED BY <1>2, <1>4, <1>8, <2>1, <4>1, <4>2 DEF Awaits, PendingEnd
    <3> QED BY <3>3, <3>4, <3>5
  <2> QED BY <1>2, <2>3, <2>4
<1> QED BY <1>10, <1>11, <1>12, <1>15, <1>16

(* The orderings that a step brings lead forward, those that led forward   *)
(* still do.                                                               *)
LEMMA AppliesKeepsFollowing ==
    ASSUME TrackInv, NEW k, NEW pre, NEW dels, NEW adds, NEW more, NEW recs,
           Applies(k, pre, dels, adds, more, recs)
    PROVE  /\ \A edge \in stepsBefore : Follows(edge) => Follows(edge)'
           /\ \A edge \in stepsBefore' : edge \in stepsBefore \/ Follows(edge)'
<1> DEFINE n   == Len(applied)
           met == PendingEndsMet(firstAnnotations, pre, dels, adds)
<1>1. TypeInv
  BY DEF TrackInv
<1>2. /\ n \in Nat /\ DOMAIN applied = 1..n /\ DOMAIN applied' = 1..n + 1
      /\ applied'[n + 1] = k
      /\ \A i \in 1..n : /\ applied'[i] = applied[i]
                         /\ steps'[applied[i] + 1] = steps[applied[i] + 1]
  <2>1. DOMAIN applied = 1..n
    BY <1>1, Appending
  <2> QED BY <1>1, <2>1, Appending
<1>3. met \subseteq PendingEnds
  <2>1. /\ Range(pre) \subseteq Facts /\ dels \in SUBSET Facts /\ adds \in SUBSET Facts
        /\ firstAnnotations \in AnnotationsOver(Facts, PendingEnds)
    BY DEF Applies, TrackInv, AnnotatedEndsArePending
  <2> QED BY <2>1, SnapActionMeetsWhatItTouches, Zenon
<1>4. \A edge \in stepsBefore' :
         \/ edge \in stepsBefore
         \/ edge[2] = k /\ edge[1] \in met \cup ({mostRecentStep} \ {-1})
         \/ edge[2] = edge[1] + 1 /\ steps'[edge[1] + 1].spec = "START"
  BY <1>1, NewOrderings
<1> HIDE DEF n, met
<1>5. \A i \in 1..n : /\ SkippedStart(applied[i])' <=> SkippedStart(applied[i])
                      /\ PendingEnd(applied[i])' = PendingEnd(applied[i])
  BY <1>2 DEF SkippedStart, PendingEnd, StepOf
<1>6. ASSUME NEW edge \in stepsBefore, Follows(edge) PROVE Follows(edge)'
  <2>1. edge[1] \in StepIDs
    BY <1>1 DEF TypeInv, TypeOK
  <2>2. steps'[edge[1] + 1] = steps[edge[1] + 1]
    BY <1>1, <2>1, AppliesTypes DEF StepOf
  <2>3. CASE StepOf(edge[1]).spec = "START" /\ edge[2] = PendingEnd(edge[1])
    BY <2>2, <2>3 DEF Follows, StepOf, PendingEnd
  <2>4. ASSUME NEW i \in DOMAIN applied, edge[2] = applied[i], EarlierThan(edge[1], i)
        PROVE  Follows(edge)'
    <3>1. PICK j \in 1..i - 1 :
             \/ edge[1] = applied[j]
             \/ SkippedStart(applied[j]) /\ edge[1] = PendingEnd(applied[j])
      BY <2>4 DEF EarlierThan
    <3>2. i \in 1..n /\ j \in 1..n /\ i \in DOMAIN applied'
      BY <1>2
    <3>3. EarlierThan(edge[1], i)'
      BY <1>2, <1>5, <3>1, <3>2 DEF EarlierThan
    <3> QED BY <1>2, <2>4, <3>2, <3>3 DEF Follows
  <2> QED BY <1>6, <2>3, <2>4 DEF Follows
<1>7. ASSUME NEW edge, edge[2] = k, edge[1] \in met \cup ({mostRecentStep} \ {-1})
      PROVE  Follows(edge)'
  <2>1. PICK i : i = n + 1
    OBVIOUS
  <2>2. i \in DOMAIN applied' /\ applied'[i] = k
    BY <1>2, <2>1
  <2>3. ASSUME edge[1] \in met PROVE EarlierThan(edge[1], i)'
    <3>1. PICK j \in 1..n : SkippedStart(applied[j]) /\ edge[1] = PendingEnd(applied[j])
      BY <1>2, <1>3, <2>3 DEF PendingEnds
    <3>2. j \in 1..i - 1
      BY <1>2, <2>1
    <3> QED BY <1>5, <3>1, <3>2 DEF EarlierThan
  <2>4. ASSUME edge[1] \in {mostRecentStep} \ {-1} PROVE EarlierThan(edge[1], i)'
    <3>1. applied # <<>> /\ edge[1] = applied[n]
      BY <2>4 DEF TrackInv, LastIsMostRecent, n
    <3>2. n \in 1..n /\ n \in 1..i - 1
      BY <1>2, <2>1, <3>1
    <3>3. edge[1] = applied'[n]
      BY <1>2, <3>1, <3>2
    <3> QED BY <3>2, <3>3 DEF EarlierThan
  <2> QED BY <1>7, <2>2, <2>3, <2>4 DEF Follows
<1>8. ASSUME NEW edge, edge[2] = edge[1] + 1, steps'[edge[1] + 1].spec = "START"
      PROVE  Follows(edge)'
  BY <1>8 DEF Follows, StepOf, PendingEnd
<1> QED BY <1>4, <1>6, <1>7, <1>8

-----------------------------------------------------------------------------
LEMMA InitOrder == Init => OrderInv
<1> SUFFICES ASSUME Init PROVE OrderInv
  OBVIOUS
<1>1. TypeInv
  BY InitTypes
<1>2. DOMAIN applied = {} /\ applied = <<>> /\ stepsBefore = {} /\ mostRecentStep = -1
  BY DEF Init
<1>3. AnnotatedEndsArePending
  BY DEF Init, AnnotatedEndsArePending, AnnotationsOver, Unannotated
<1>4. LastIsMostRecent /\ AppliedStepsAreAChain /\ OrderingsFollowApplication
      /\ PendingEndsAreTracked /\ PendingEndsRespected
  BY <1>2 DEF LastIsMostRecent, AppliedStepsAreAChain, OrderingsFollowApplication,
              PendingEndsAreTracked, PendingEndsRespected
<1> QED BY <1>1, <1>3, <1>4 DEF OrderInv, TrackInv

(* Every step of the transformer applies a snap-action.                    *)
LEMMA EveryStepApplies ==
    ASSUME TypeInv, Next
    PROVE  \E k, pre, dels, adds, more, recs : Applies(k, pre, dels, adds, more, recs)
<1>1. CASE ApplyTIL
  BY <1>1, TILApplies
<1>2. ASSUME NEW a \in Actions, ApplyInstant(a)
      PROVE  \E k, pre, dels, adds, more, recs : Applies(k, pre, dels, adds, more, recs)
  BY <1>2, InstantApplies
<1>3. ASSUME NEW a \in Actions, StartAction(a) \/ StartSkippable(a)
      PROVE  \E k, pre, dels, adds, more, recs : Applies(k, pre, dels, adds, more, recs)
  BY <1>3, StartApplies
<1>4. ASSUME NEW a \in Actions, EndAction(a)
      PROVE  \E k, pre, dels, adds, more, recs : Applies(k, pre, dels, adds, more, recs)
  BY <1>4, EndApplies
<1> QED BY <1>1, <1>2, <1>3, <1>4 DEF Next

LEMMA NextTracking == TrackInv /\ [Next]_vars => TrackInv'
<1> SUFFICES ASSUME TrackInv, [Next]_vars PROVE TrackInv'
  OBVIOUS
<1>1. TypeInv'
  BY NextTypes DEF TrackInv
<1>2. CASE Next
  <2>1. PICK k, pre, dels, adds, more, recs : Applies(k, pre, dels, adds, more, recs)
    BY <1>2, EveryStepApplies DEF TrackInv
  <2> QED BY <1>1, <2>1, AppliesKeepsOrder DEF TrackInv
<1>3. CASE UNCHANGED vars
  BY <1>1, <1>3
     DEF vars, stateVars, TrackInv, LastIsMostRecent, AppliedStepsAreAChain,
         AnnotatedEndsArePending, PendingEnds, PendingEndsAreTracked, Awaits,
         PendingEndsRespected, SkippedStart, PendingEnd, StepOf, Concerns, Conditions,
         Deletes, Additions
<1> QED BY <1>2, <1>3

LEMMA NextOrder == OrderInv /\ [Next]_vars => OrderInv'
<1> SUFFICES ASSUME OrderInv, [Next]_vars PROVE OrderInv'
  OBVIOUS
<1>1. TrackInv'
  BY NextTracking DEF OrderInv
<1>2. CASE Next
  <2>1. PICK k, pre, dels, adds, more, recs : Applies(k, pre, dels, adds, more, recs)
    BY <1>2, EveryStepApplies DEF OrderInv, TrackInv
  <2>2. \A edge \in stepsBefore : Follows(edge)
    BY DEF OrderInv, OrderingsFollowApplication, Follows
  <2>3. /\ \A edge \in stepsBefore : Follows(edge) => Follows(edge)'
        /\ \A edge \in stepsBefore' : edge \in stepsBefore \/ Follows(edge)'
    BY <2>1, AppliesKeepsFollowing DEF OrderInv
  <2>4. \A edge \in stepsBefore' : Follows(edge)'
    BY <2>2, <2>3
  <2>5. OrderingsFollowApplication'
    BY <2>4 DEF OrderingsFollowApplication, Follows
  <2> QED BY <1>1, <2>5 DEF OrderInv
<1>3. CASE UNCHANGED vars
  BY <1>1, <1>3
     DEF vars, stateVars, OrderInv, OrderingsFollowApplication, EarlierThan, SkippedStart,
         PendingEnd, StepOf
<1> QED BY <1>2, <1>3

(* addOrdering is only called from what was applied earlier, or the pending*)
(* end of what was, to the step being applied, or from a start to its end: *)
(* the orderings the search builds have no cycle.                          *)
THEOREM OrderingsHaveNoCycle == Spec => []OrderingsFollowApplication
<1>1. OrderInv => OrderingsFollowApplication
  BY DEF OrderInv, TrackInv
<1> QED BY InitOrder, NextOrder, <1>1, PTL DEF Spec

(* With TOTALORDERSTATES the applied steps are epsilon apart, in the order *)
(* in which the search applied them.                                       *)
THEOREM AppliedStepsAreOrdered == Spec => []AppliedStepsAreAChain
<1>1. OrderInv => AppliedStepsAreAChain
  BY DEF OrderInv, TrackInv
<1> QED BY InitOrder, NextOrder, <1>1, PTL DEF Spec

(* A step that uses or changes what the end of a compression-safe action   *)
(* adds, or deletes what that action holds, is ordered after that end, or  *)
(* after a step that is: applying the end's effects early loses no order.  *)
THEOREM ConcernedStepsAwaitPendingEnds == Spec => []PendingEndsRespected
<1>1. OrderInv => PendingEndsRespected
  BY DEF OrderInv, TrackInv
<1> QED BY InitOrder, NextOrder, <1>1, PTL DEF Spec

-----------------------------------------------------------------------------
(* What a scheduler can make of the orderings.  Times are counted in       *)
(* epsilons.                                                               *)
Satisfies(ts) ==
    \A edge \in stepsBefore :
        ts[edge[1]] + (IF edge \in epsilonBefore THEN 1 ELSE 0) <= ts[edge[2]]

TimesIncrease ==
    \A ts \in [Nat -> Int] : Satisfies(ts) =>
        \A i, j \in DOMAIN applied : i < j => ts[applied[i]] < ts[applied[j]]

EveryScheduleRespectsPendingEnds ==
    \A ts \in [Nat -> Int] : Satisfies(ts) =>
        \A i, j \in DOMAIN applied :
            (i < j /\ SkippedStart(applied[i])
                   /\ Concerns(StepOf(applied[j]), StepOf(applied[i]).act))
            => ts[PendingEnd(applied[i])] < ts[applied[j]]

LEMMA AppliesKeepsTimes ==
    ASSUME OrderInv, OrderInv', TimesIncrease,
           NEW k, NEW pre, NEW dels, NEW adds, NEW more, NEW recs,
           Applies(k, pre, dels, adds, more, recs)
    PROVE  TimesIncrease'
<1> DEFINE n == Len(applied)
<1>1. /\ n \in Nat /\ DOMAIN applied = 1..n /\ DOMAIN applied' = 1..n + 1
      /\ \A i \in 1..n : applied[i] \in StepIDs /\ applied'[i] = applied[i]
      /\ applied'[n + 1] = k
  BY Appending DEF OrderInv, TrackInv
<1>2. /\ stepsBefore \subseteq stepsBefore' /\ epsilonBefore \subseteq epsilonBefore'
      /\ epsilonBefore \subseteq stepsBefore /\ epsilonBefore' \subseteq stepsBefore'
      /\ stepsBefore \subseteq StepIDs \X StepIDs
  BY DEF Applies, Order, OrderInv, TrackInv, TypeInv, TypeOK
<1>3. StepIDs \subseteq Nat /\ k \in Nat
  BY DEF OrderInv, TrackInv, TypeInv, TypeOK, StepIDs, Applies
<1> SUFFICES ASSUME NEW ts \in [Nat -> Int], Satisfies(ts)',
                    NEW i \in 1..n + 1, NEW j \in 1..n + 1, i < j
             PROVE  ts[applied'[i]] < ts[applied'[j]]
  BY <1>1 DEF TimesIncrease
<1> HIDE DEF n
<1>4. Satisfies(ts)
  <2> SUFFICES ASSUME NEW edge \in stepsBefore
               PROVE  ts[edge[1]] + (IF edge \in epsilonBefore THEN 1 ELSE 0) <= ts[edge[2]]
    BY DEF Satisfies
  <2>1. ts[edge[1]] + (IF edge \in epsilonBefore' THEN 1 ELSE 0) <= ts[edge[2]]
    BY <1>2 DEF Satisfies
  <2>2. ts[edge[1]] \in Int /\ ts[edge[2]] \in Int
    BY <1>2, <1>3
  <2> QED BY <1>2, <2>1, <2>2
<1>5. \A p, q \in 1..n : p < q => ts[applied[p]] < ts[applied[q]]
  BY <1>1, <1>4 DEF TimesIncrease
<1>6. CASE j \in 1..n
  <2>1. i \in 1..n
    BY <1>1, <1>6
  <2> QED BY <1>1, <1>5, <1>6, <2>1
<1>7. CASE j = n + 1
  <2>1. i \in 1..n /\ n \in 1..n /\ n + 1 # 1 /\ n + 1 \in 1..n + 1
    BY <1>1, <1>7
  <2>2. <<applied'[n], applied'[n + 1]>> \in epsilonBefore'
    <3>1. \A x \in DOMAIN applied' \ {1} : <<applied'[x - 1], applied'[x]>> \in epsilonBefore'
      BY DEF OrderInv, TrackInv, AppliedStepsAreAChain
    <3>2. PICK x : x = n + 1
      OBVIOUS
    <3>3. x \in DOMAIN applied' \ {1} /\ x - 1 = n
      BY <1>1, <2>1, <3>2
    <3> QED BY <3>1, <3>2, <3>3
  <2>3. ts[applied[n]] + 1 <= ts[k]
    BY <1>1, <1>2, <2>1, <2>2 DEF Satisfies
  <2>4. ts[applied[i]] \in Int /\ ts[applied[n]] \in Int /\ ts[k] \in Int
    BY <1>1, <1>3, <2>1
  <2>5. ts[applied[i]] <= ts[applied[n]]
    BY <1>5, <2>1, <2>4
  <2> QED BY <1>1, <1>7, <2>1, <2>3, <2>4, <2>5
<1> QED BY <1>1, <1>6, <1>7

(* Whatever scheduler assigns the times, and whatever the durations: if it *)
(* satisfies the orderings, a step that concerns a compression-safe action *)
(* started before it comes strictly after the end of that action.          *)
THEOREM SchedulesRespectPendingEnds == Spec => []EveryScheduleRespectsPendingEnds
<1>1. Init => TimesIncrease
  BY DEF Init, TimesIncrease
<1>2. OrderInv /\ OrderInv' /\ TimesIncrease /\ [Next]_vars => TimesIncrease'
  <2> SUFFICES ASSUME OrderInv, OrderInv', TimesIncrease, [Next]_vars
               PROVE  TimesIncrease'
    OBVIOUS
  <2>1. CASE Next
    <3>1. PICK k, pre, dels, adds, more, recs : Applies(k, pre, dels, adds, more, recs)
      BY <2>1, EveryStepApplies DEF OrderInv, TrackInv
    <3> QED BY <3>1, AppliesKeepsTimes
  <2>2. CASE UNCHANGED vars
    BY <2>2 DEF vars, stateVars, TimesIncrease, Satisfies
  <2> QED BY <2>1, <2>2
<1>3. OrderInv /\ TimesIncrease => EveryScheduleRespectsPendingEnds
  <2> SUFFICES ASSUME OrderInv, TimesIncrease, NEW ts \in [Nat -> Int], Satisfies(ts),
                      NEW i \in DOMAIN applied, NEW j \in DOMAIN applied, i < j,
                      SkippedStart(applied[i]),
                      Concerns(StepOf(applied[j]), StepOf(applied[i]).act)
               PROVE  ts[PendingEnd(applied[i])] < ts[applied[j]]
    BY DEF EveryScheduleRespectsPendingEnds
  <2>1. /\ applied \in Seq(StepIDs) /\ epsilonBefore \subseteq stepsBefore
        /\ stepsBefore \subseteq StepIDs \X StepIDs /\ StepIDs \subseteq Nat
    <3>1. planLength \in Nat /\ \A n \in Nat : \A x \in 0..n - 1 : x \in Nat
      BY DEF OrderInv, TrackInv, TypeInv, TypeOK
    <3>2. StepIDs \subseteq Nat
      BY <3>1 DEF StepIDs
    <3> QED BY <3>2 DEF OrderInv, TrackInv, TypeInv, TypeOK
  <2>2. DOMAIN applied = 1..Len(applied) /\ Len(applied) \in Nat
        /\ \A m \in 1..Len(applied) : applied[m] \in StepIDs
    BY <2>1, LenProperties, ElementOfSeq
  <2>3. PICK m \in i + 1..j : <<PendingEnd(applied[i]), applied[m]>> \in epsilonBefore
    BY DEF OrderInv, TrackInv, PendingEndsRespected
  <2>4. m \in DOMAIN applied /\ m <= j
    BY <2>2
  <2> DEFINE e == PendingEnd(applied[i])
  <2> HIDE DEF e
  <2>5. ts[e] + 1 <= ts[applied[m]] /\ e \in Nat
    BY <2>1, <2>3 DEF Satisfies, e
  <2>6. m = j \/ ts[applied[m]] < ts[applied[j]]
    <3>1. \A x, y \in DOMAIN applied : x < y => ts[applied[x]] < ts[applied[y]]
      BY DEF TimesIncrease
    <3>2. m = j \/ m < j
      BY <2>2, <2>4
    <3> QED BY <2>4, <3>1, <3>2
  <2>7. ts[e] \in Int /\ ts[applied[m]] \in Int /\ ts[applied[j]] \in Int
    BY <2>1, <2>2, <2>4, <2>5
  <2> QED BY <2>5, <2>6, <2>7 DEF e
<1> QED BY InitOrder, NextOrder, <1>1, <1>2, <1>3, PTL DEF Spec

-----------------------------------------------------------------------------
(* The annotations. An end that a fact awaits is that of a compression-    *)
(* safe action that adds the fact, one that holds a fact that of an action *)
(* with it as an invariant.                                                *)
AwaitedFor(e, f) ==
    \E i \in DOMAIN applied : /\ SkippedStart(applied[i]) /\ e = PendingEnd(applied[i])
                              /\ f \in Op[StepOf(applied[i]).act].endAdd
HeldFor(e, f) ==
    \E i \in DOMAIN applied : /\ SkippedStart(applied[i]) /\ e = PendingEnd(applied[i])
                              /\ f \in Range(Op[StepOf(applied[i]).act].inv)

LEMMA AccurateAnnotations ==
    AnnotationsAreAccurate <=>
        \A f \in Facts :
            /\ \A e \in firstAnnotations[f].first  : f \in first /\ AwaitedFor(e, f)
            /\ \A e \in firstAnnotations[f].second : f \in first /\ HeldFor(e, f)
BY DEF AnnotationsAreAccurate, PendsOn, AwaitedFor, HeldFor

(* What is left of the annotations before new ones are made is about facts *)
(* that hold and were not deleted.                                         *)
StillAccurate(ann, dels) ==
    \A f \in Facts :
        /\ \A e \in ann[f].first  : f \in first \ dels /\ AwaitedFor(e, f)'
        /\ \A e \in ann[f].second : f \in first \ dels /\ HeldFor(e, f)'

LEMMA AccuracyKept ==
    ASSUME TypeInv, AnnotationsAreAccurate,
           NEW k, NEW pre, NEW dels, NEW adds, NEW more, NEW recs,
           Applies(k, pre, dels, adds, more, recs)
    PROVE  StillAccurate(Reannotated(firstAnnotations, pre, dels, adds), dels)
<1> DEFINE met   == PendingEndsMet(firstAnnotations, pre, dels, adds)
           one   == MeetPreconditions(firstAnnotations, pre)
           two   == ForgetDeleted(one, dels)
           after == Reannotated(firstAnnotations, pre, dels, adds)
<1>1. Range(pre) \subseteq Facts /\ dels \in SUBSET Facts /\ adds \in SUBSET Facts
      /\ firstAnnotations \in AnnotationsOver(Facts, StepIDs)
  BY DEF Applies, TypeInv, EndsAreSteps
<1>2. ErasesOnly(firstAnnotations, after, Facts, met)
  BY <1>1, SnapActionMeetsWhatItTouches
<1>3. \A f \in dels : after[f].first = {} /\ after[f].second = {}
  <2>1. one \in AnnotationsOver(Facts, StepIDs)
    BY <1>1, MeetingErases
  <2> HIDE DEF one
  <2>2. two \in AnnotationsOver(Facts, StepIDs)
    BY <1>1, <2>1, DeletingErases
  <2>3. DOMAIN one = Facts
    BY <2>1 DEF AnnotationsOver
  <2>4. \A f \in dels : two[f] = Unannotated
    BY <1>1, <2>3 DEF ForgetDeleted
  <2> HIDE DEF two
  <2>5. ErasesOnly(two, ForgetAdded(two, adds), Facts, Awaited(two, adds))
    BY <1>1, <2>2, AddingErases
  <2>6. after = ForgetAdded(two, adds)
    BY DEF Reannotated, two, one
  <2> HIDE DEF after
  <2> QED BY <1>1, <2>4, <2>5, <2>6 DEF ErasesOnly, Unannotated
<1> HIDE DEF met, after
<1>4. ASSUME NEW e, NEW f
      PROVE  /\ AwaitedFor(e, f) => AwaitedFor(e, f)'
             /\ HeldFor(e, f) => HeldFor(e, f)'
  <2>1. \A i \in DOMAIN applied :
           /\ i \in DOMAIN applied' /\ applied'[i] = applied[i]
           /\ steps'[applied[i] + 1] = steps[applied[i] + 1]
    BY Appending
  <2> QED BY <2>1 DEF AwaitedFor, HeldFor, SkippedStart, StepOf
<1>5. ASSUME NEW f \in Facts
      PROVE  /\ \A e \in after[f].first  : f \in first \ dels /\ AwaitedFor(e, f)'
             /\ \A e \in after[f].second : f \in first \ dels /\ HeldFor(e, f)'
  <2>1. /\ \A e \in firstAnnotations[f].first  : f \in first /\ AwaitedFor(e, f)
        /\ \A e \in firstAnnotations[f].second : f \in first /\ HeldFor(e, f)
    BY AccurateAnnotations
  <2>2. after[f].first \subseteq firstAnnotations[f].first
        /\ after[f].second \subseteq firstAnnotations[f].second
    BY <1>2 DEF ErasesOnly
  <2> QED BY <1>3, <1>4, <2>1, <2>2
<1> QED BY <1>5 DEF StillAccurate, after

(* A step that only takes annotations away leaves them accurate.           *)
LEMMA OrdinaryStepIsAccurate ==
    ASSUME TypeInv, AnnotationsAreAccurate,
           NEW k, NEW pre, NEW dels, NEW adds, NEW more, NEW recs,
           Applies(k, pre, dels, adds, more, recs),
           firstAnnotations' = Reannotated(firstAnnotations, pre, dels, adds),
           first \ dels \subseteq first'
    PROVE  AnnotationsAreAccurate'
<1>1. StillAccurate(firstAnnotations', dels)
  BY AccuracyKept
<1>2. \A f \in Facts :
         /\ \A e \in firstAnnotations'[f].first  : f \in first' /\ AwaitedFor(e, f)'
         /\ \A e \in firstAnnotations'[f].second : f \in first' /\ HeldFor(e, f)'
  BY <1>1 DEF StillAccurate
<1> QED BY <1>2 DEF AnnotationsAreAccurate, PendsOn, AwaitedFor, HeldFor

(* No compression-safe action takes away at its start what it needs        *)
(* throughout, unless its end takes it anyway. (RPGBuilder accepts such an *)
(* action, but PDDL lets it run in no plan.)                               *)
InvariantsSurviveStarts ==
    \A a \in Actions : CanSkipToEnd(a) =>
        Range(Op[a].inv) \cap Op[a].startDel \subseteq Op[a].startAdd \cup Op[a].endDel

(* A set of numbers has a least one.                                       *)
LEMMA SmallestNumber ==
    ASSUME NEW ns \in SUBSET Nat, ns # {}
    PROVE  \E n \in ns : \A m \in ns : n <= m
<1> DEFINE less == OpToRel(<, Nat)
<1>1. IsWellFoundedOn(less, Nat)
  BY NatLessThanWellFounded
<1>2. \A x, y \in Nat : x < y => <<x, y>> \in less
  BY Zenon DEF OpToRel
<1> HIDE DEF less
<1>3. PICK n \in ns : \A x \in ns : ~(<<x, n>> \in less)
  BY <1>1, WFMin
<1>4. \A x \in ns : ~(x < n)
  BY <1>2, <1>3, Zenon
<1> QED BY <1>4

(* The processed preconditions of a start hold its preconditions and the   *)
(* invariants that it does not add: these are pushed one by one, and none  *)
(* is dropped.                                                             *)
LEMMA ProcessedPreconditions ==
    ASSUME NEW a \in Actions,
           NEW f \in Range(Op[a].startPre) \cup (Range(Op[a].inv) \ Op[a].startAdd)
    PROVE  f \in Range(ProcessedStartPre(a))
<1> DEFINE inv == Op[a].inv
           pre == Op[a].startPre
           add == Op[a].startAdd
           n == Len(inv)
           After(g, i) == IF i = 0 THEN pre
                          ELSE IF inv[i] \in add THEN g[i - 1] ELSE Append(g[i - 1], inv[i])
           Begins(m, g) == g = [i \in 0..m |-> After(g, i)]
<1>1. /\ inv \in Seq(Facts) /\ pre \in Seq(Facts) /\ n \in Nat
      /\ DOMAIN inv = 1..n /\ \A i \in 1..n : inv[i] \in Facts
  <2>1. inv \in Seq(Facts) /\ pre \in Seq(Facts)
    BY DomainAssumption DEF SnapActions
  <2> HIDE DEF inv
  <2> QED BY <2>1, LenProperties, ElementOfSeq
<1>2. PICK p \in 0..n : IF p = 0 THEN f \in Range(pre) ELSE inv[p] = f /\ f \notin add
  <2>1. CASE f \in Range(pre)
    BY <1>1, <2>1
  <2>2. CASE f \in Range(inv) \ add
    <3>1. PICK q \in 1..n : inv[q] = f
      BY <1>1, <2>2 DEF Range
    <3>2. q \in 0..n /\ q # 0
      BY <1>1, <3>1
    <3> QED BY <2>2, <3>1, <3>2
  <2> QED BY <2>1, <2>2
<1> HIDE DEF inv, pre, add
<1> HIDE DEF n
<1>4. \E g : Begins(n, g)
  <2> DEFINE Bad == {m \in Nat : ~\E g : Begins(m, g)}
  <2>1. SUFFICES ASSUME Bad # {}  PROVE FALSE
    BY <1>1
  <2>2. PICK m \in Bad : \A j \in Bad : m <= j
    <3>1. Bad \in SUBSET Nat
      OBVIOUS
    <3> HIDE DEF Bad
    <3> QED BY <2>1, <3>1, SmallestNumber
  <2>3. m # 0
    <3> DEFINE g == [i \in 0..0 |-> pre]
    <3>1. Begins(0, g)
      OBVIOUS
    <3> HIDE DEF Begins, g
    <3> QED BY <2>2, <3>1
  <2>4. m \in Nat /\ m - 1 \in Nat /\ ~(m <= m - 1)
    BY <2>2, <2>3
  <2>5. PICK g : Begins(m - 1, g)
    BY <2>2, <2>4
  <2> DEFINE h == [i \in 0..m |-> IF i = m THEN After(g, i) ELSE g[i]]
  <2>6. Begins(m, h)
    <3>1. \A i \in 0..m : i # m => i \in 0..m - 1 /\ g[i] = After(g, i)
      <4>1. \A i \in 0..m : i # m => i \in 0..m - 1
        BY <2>4
      <4>2. \A i \in 0..m - 1 : g[i] = After(g, i)
        BY <2>5
      <4> QED BY <4>1, <4>2
    <3>2. \A i \in 0..m : i # 0 => i - 1 \in 0..m /\ i - 1 # m /\ h[i - 1] = g[i - 1]
      BY <2>4
    <3>3. \A i \in 0..m : After(h, i) = After(g, i)
      BY <3>2
    <3>4. \A i \in 0..m : h[i] = After(h, i)
      BY <3>1, <3>3
    <3> QED BY <3>4
  <2> HIDE DEF Begins, h
  <2> QED BY <2>2, <2>6
<1> DEFINE after == CHOOSE g : Begins(n, g)
<1>5. ProcessedStartPre(a) = after[n]
  BY DEF ProcessedStartPre, inv, pre, add, n
<1>6. \A i \in 0..n : after[i] = After(after, i)
  <2>1. Begins(n, after)
    <3> HIDE DEF Begins
    <3> QED BY <1>4
  <2> HIDE DEF after
  <2> QED BY <2>1
<1> HIDE DEF after
<1>7. \A i \in 0..n : after[i] \in Seq(Facts)
  <2> DEFINE Bad == {i \in 0..n : after[i] \notin Seq(Facts)}
  <2>1. SUFFICES ASSUME Bad # {}  PROVE FALSE
    OBVIOUS
  <2>2. PICK i \in Bad : \A j \in Bad : i <= j
    <3>1. Bad \in SUBSET Nat
      BY <1>1
    <3> HIDE DEF Bad
    <3> QED BY <2>1, <3>1, SmallestNumber
  <2>3. i # 0 /\ i \in 1..n
    BY <1>1, <1>6, <2>2
  <2>4. i - 1 \in 0..n /\ ~(i <= i - 1)
    BY <1>1, <2>3
  <2>5. after[i - 1] \in Seq(Facts)
    BY <2>2, <2>4
  <2>6. Append(after[i - 1], inv[i]) \in Seq(Facts)
    BY <1>1, <2>3, <2>5, AppendProperties
  <2> QED BY <1>6, <2>2, <2>3, <2>5, <2>6
<1>8. ASSUME NEW i \in 1..n,
             f \in Range(after[i - 1]) \/ (inv[i] = f /\ f \notin add)
      PROVE  f \in Range(after[i])
  <2>1. i \in 0..n /\ i - 1 \in 0..n /\ i # 0
    BY <1>1
  <2>2. after[i - 1] \in Seq(Facts) /\ inv[i] \in Facts
    BY <1>1, <1>7, <2>1
  <2>3. CASE inv[i] \in add
    BY <1>6, <1>8, <2>1, <2>3
  <2>4. CASE inv[i] \notin add
    <3> DEFINE old == after[i - 1]
               new == Append(old, inv[i])
    <3>1. after[i] = new
      BY <1>6, <2>1, <2>4
    <3> HIDE DEF old
    <3>2. /\ Len(old) \in Nat /\ DOMAIN old = 1..Len(old)
          /\ DOMAIN new = 1..Len(old) + 1
          /\ \A x \in 1..Len(old) : new[x] = old[x]
          /\ new[Len(old) + 1] = inv[i]
      BY <2>2, LenProperties, AppendProperties DEF old
    <3> HIDE DEF new
    <3>3. CASE inv[i] = f
      BY <3>1, <3>2, <3>3 DEF Range
    <3>4. CASE f \in Range(old)
      BY <3>1, <3>2, <3>4 DEF Range
    <3> QED BY <1>8, <3>3, <3>4 DEF old
  <2> QED BY <2>3, <2>4
<1>9. \A i \in p..n : f \in Range(after[i])
  <2> DEFINE Bad == {i \in p..n : f \notin Range(after[i])}
  <2>1. SUFFICES ASSUME Bad # {}  PROVE FALSE
    OBVIOUS
  <2>2. PICK i \in Bad : \A j \in Bad : i <= j
    <3>1. Bad \in SUBSET Nat
      BY <1>1
    <3> HIDE DEF Bad
    <3> QED BY <2>1, <3>1, SmallestNumber
  <2>3. i # 0
    <3>1. i = 0 => p = 0 /\ 0 \in 0..n
      BY <1>1, <2>2
    <3>2. p = 0 => f \in Range(after[0])
      BY <1>1, <1>2, <1>6
    <3> QED BY <2>2, <3>1, <3>2
  <2>4. i \in 1..n /\ i >= p /\ ~(i <= i - 1) /\ (i # p => i - 1 \in p..n)
    BY <1>1, <2>2, <2>3
  <2>5. (inv[i] = f /\ f \notin add) \/ f \in Range(after[i - 1])
    BY <1>2, <2>2, <2>3, <2>4
  <2> QED BY <1>8, <2>2, <2>4, <2>5
<1> QED BY <1>1, <1>5, <1>9

(* The start of a compression-safe action annotates only what it makes or  *)
(* leaves true: what its end adds, and what it holds throughout.           *)
LEMMA SkippableStepIsAccurate ==
    ASSUME InvariantsSurviveStarts, TypeInv, AnnotationsAreAccurate,
           NEW a \in Actions, StartSkippable(a)
    PROVE  AnnotationsAreAccurate'
<1> DEFINE pre == ProcessedStartPre(a)
           dels == Op[a].startDel
           adds == Op[a].startAdd
           after == Reannotated(firstAnnotations, pre, dels, adds)
<1>1. PICK k : k = planLength
  OBVIOUS
<1>2. Applies(k, pre, dels, adds, {<<planLength, planLength + 1>>}, StartRecords(a))
  BY <1>1, StartApplies
<1>3. /\ CanSkipToEnd(a) /\ RecordStart(a)
      /\ first' = (StartedFacts(a) \ Op[a].endDel) \cup Op[a].endAdd
      /\ firstAnnotations' = AnnotateSkipped(after, a, k + 1)
  BY <1>1 DEF StartSkippable, StartedAnnotations
<1>4. Range(pre) \subseteq first
  BY <1>3 DEF RecordStart, StartApplicable
<1> HIDE DEF pre
<1>5. StillAccurate(after, dels)
  <2> HIDE DEF dels, adds
  <2> QED BY <1>2, AccuracyKept
<1>6. steps'[k + 1] = [spec |-> "START", act |-> a]
  <2> HIDE DEF dels, adds
  <2> QED BY <1>1, <1>2, StartRecordsEnd
<1>7. Len(applied) + 1 \in DOMAIN applied' /\ applied'[Len(applied) + 1] = k
  <2> HIDE DEF dels, adds
  <2> QED BY <1>2, Appending
<1>8. ASSUME NEW f
      PROVE  /\ f \in Op[a].endAdd => AwaitedFor(k + 1, f)'
             /\ f \in Range(Op[a].inv) => HeldFor(k + 1, f)'
  BY <1>3, <1>6, <1>7 DEF AwaitedFor, HeldFor, SkippedStart, StepOf, PendingEnd
<1> HIDE DEF after
<1>9. ASSUME NEW f \in Facts
      PROVE  /\ \A e \in firstAnnotations'[f].first  : f \in first' /\ AwaitedFor(e, f)'
             /\ \A e \in firstAnnotations'[f].second : f \in first' /\ HeldFor(e, f)'
  <2>1. /\ \A e \in after[f].first  : f \in first \ dels /\ AwaitedFor(e, f)'
        /\ \A e \in after[f].second : f \in first \ dels /\ HeldFor(e, f)'
    BY <1>5 DEF StillAccurate
  <2>2. f \in first \ dels /\ f \notin Op[a].endDel => f \in first'
    BY <1>3 DEF StartedFacts
  <2>3. f \in Op[a].endAdd => f \in first'
    BY <1>3
  <2>4. f \in Range(Op[a].inv) /\ f \notin Op[a].endDel => f \in first'
    <3>1. SUFFICES ASSUME f \in Range(Op[a].inv), f \notin Op[a].endDel  PROVE f \in first'
      OBVIOUS
    <3>2. CASE f \in adds
      BY <1>3, <3>1, <3>2 DEF StartedFacts
    <3>3. CASE f \notin adds
      <4>1. f \in first
        BY <1>4, <3>1, <3>3, ProcessedPreconditions DEF pre
      <4>2. f \notin dels
        BY <1>3, <3>1, <3>3 DEF InvariantsSurviveStarts
      <4> QED BY <2>2, <3>1, <4>1, <4>2
    <3> QED BY <3>2, <3>3
  <2>5. firstAnnotations'[f] =
          [first  |-> (IF f \in Op[a].endDel THEN {} ELSE after[f].first)
                      \cup {x \in {k + 1} : f \in Op[a].endAdd},
           second |-> IF f \in Op[a].endDel THEN {}
                      ELSE after[f].second \cup {x \in {k + 1} : f \in Range(Op[a].inv)}]
    BY <1>3 DEF AnnotateSkipped
  <2> HIDE DEF dels, adds
  <2>6. ASSUME NEW e \in firstAnnotations'[f].first
        PROVE  f \in first' /\ AwaitedFor(e, f)'
    <3>1. \/ f \notin Op[a].endDel /\ e \in after[f].first
          \/ f \in Op[a].endAdd /\ e = k + 1
      BY <2>5, <2>6
    <3> QED BY <1>8, <2>1, <2>2, <2>3, <3>1
  <2>7. ASSUME NEW e \in firstAnnotations'[f].second
        PROVE  f \in first' /\ HeldFor(e, f)'
    <3>1. /\ f \notin Op[a].endDel
          /\ \/ e \in after[f].second
             \/ f \in Range(Op[a].inv) /\ e = k + 1
      BY <2>5, <2>7
    <3> QED BY <1>8, <2>1, <2>2, <2>4, <3>1
  <2> QED BY <2>6, <2>7
<1> QED BY <1>9 DEF AnnotationsAreAccurate, PendsOn, AwaitedFor, HeldFor

(* What firstAnnotations says is true of the state: an annotated fact      *)
(* holds, and the end pending on it adds it, or has it as an invariant. It *)
(* is so as long as no compression-safe action takes its own invariant     *)
(* away at its start.                                                      *)
THEOREM AnnotatedFactsHold ==
    ASSUME InvariantsSurviveStarts
    PROVE  Spec => []AnnotationsAreAccurate
<1> DEFINE Inv == TypeInv /\ AnnotationsAreAccurate
<1>1. Init => Inv
  <2>1. Init => AnnotationsAreAccurate
    <3>1. Init => \A f \in Facts : /\ firstAnnotations[f].first = {}
                                   /\ firstAnnotations[f].second = {}
      BY DEF Init, Unannotated
    <3> QED BY <3>1 DEF AnnotationsAreAccurate
  <2> QED BY <2>1, InitTypes
<1>2. Inv /\ [Next]_vars => Inv'
  <2> SUFFICES ASSUME Inv, [Next]_vars  PROVE AnnotationsAreAccurate'
    BY NextTypes
  <2>1. CASE ApplyTIL
    <3> DEFINE til == TILs[nextTIL + 1]
    <3>1. PICK dels, adds : dels = til.dels /\ adds = til.adds
      OBVIOUS
    <3>2. /\ first \ dels \subseteq first'
          /\ firstAnnotations' = Reannotated(firstAnnotations, <<>>, dels, adds)
      BY <2>1, <3>1 DEF ApplyTIL
    <3>3. PICK k, recs : Applies(k, <<>>, dels, adds, {}, recs)
      BY <2>1, <3>1, TILApplies
    <3> QED BY <3>2, <3>3, OrdinaryStepIsAccurate
  <2>2. ASSUME NEW a \in Actions, ApplyInstant(a)  PROVE AnnotationsAreAccurate'
    <3>1. PICK dels, adds : dels = Op[a].startDel /\ adds = Op[a].startAdd
      OBVIOUS
    <3>2. /\ first \ dels \subseteq first'
          /\ firstAnnotations' = Reannotated(firstAnnotations, Op[a].startPre, dels, adds)
      BY <2>2, <3>1 DEF ApplyInstant, StartedFacts, StartedAnnotations
    <3>3. PICK k, recs : Applies(k, Op[a].startPre, dels, adds, {}, recs)
      BY <2>2, <3>1, InstantApplies
    <3> QED BY <3>2, <3>3, OrdinaryStepIsAccurate
  <2>3. ASSUME NEW a \in Actions, StartAction(a)  PROVE AnnotationsAreAccurate'
    <3>1. PICK dels, adds : dels = Op[a].startDel /\ adds = Op[a].startAdd
      OBVIOUS
    <3>2. /\ first \ dels \subseteq first'
          /\ firstAnnotations' = Reannotated(firstAnnotations, ProcessedStartPre(a), dels, adds)
      BY <2>3, <3>1 DEF StartAction, StartedFacts, StartedAnnotations
    <3>3. PICK k, more, recs : Applies(k, ProcessedStartPre(a), dels, adds, more, recs)
      BY <2>3, <3>1, StartApplies
    <3> QED BY <3>2, <3>3, OrdinaryStepIsAccurate
  <2>4. ASSUME NEW a \in Actions, StartSkippable(a)  PROVE AnnotationsAreAccurate'
    BY <2>4, SkippableStepIsAccurate
  <2>5. ASSUME NEW a \in Actions, EndAction(a)  PROVE AnnotationsAreAccurate'
    <3>1. PICK dels, adds : dels = Op[a].endDel /\ adds = Op[a].endAdd
      OBVIOUS
    <3>2. /\ first \ dels \subseteq first'
          /\ firstAnnotations' = Reannotated(firstAnnotations, Op[a].endPre, dels, adds)
      BY <2>5, <3>1 DEF EndAction
    <3>3. PICK k : Applies(k, Op[a].endPre, dels, adds, {}, <<>>)
      BY <2>5, <3>1, EndApplies
    <3> QED BY <3>2, <3>3, OrdinaryStepIsAccurate
  <2>6. CASE UNCHANGED vars
    BY <2>6 DEF vars, stateVars, AnnotationsAreAccurate, PendsOn, SkippedStart, PendingEnd,
                StepOf
  <2> QED BY <2>1, <2>2, <2>3, <2>4, <2>5, <2>6 DEF Next
<1>3. Inv => AnnotationsAreAccurate
  OBVIOUS
<1> HIDE DEF Inv
<1> QED BY <1>1, <1>2, <1>3, PTL DEF Spec
-----------------------------------------------------------------------------
(* The counters. Instances of an action may overlap and end in any order,  *)
(* and ends of different actions may free the same fact: the inductive     *)
(* invariant counts running instances as a finite set.                     *)

(* The running, not compression-safe instances that have f as an invariant *)
RunningOn(f) == {r \in RunningEnds : f \in Range(Op[r[1]].inv)}

CounterInv ==
    /\ TypeInv
    /\ \A f \in Facts : IsFiniteSet(RunningOn(f)) /\ invariants[f] = Cardinality(RunningOn(f))

LEMMA RunningEndsAre ==
    \A r : r \in RunningEnds <=> \E a \in Actions : \E e \in startedActions[a] : r = <<a, e>>
BY DEF RunningEnds

LEMMA InitCounters == Init => CounterInv
<1> SUFFICES ASSUME Init PROVE CounterInv
  OBVIOUS
<1>1. RunningEnds = {}
  BY RunningEndsAre DEF Init
<1>2. \A f \in Facts : RunningOn(f) = {} /\ invariants[f] = 0
  BY <1>1 DEF RunningOn, Init
<1> QED BY <1>2, InitTypes, FS_EmptySet DEF CounterInv

(* The end of a new instance is a new step, so it is not counted yet.      *)
LEMMA StartCounts ==
    ASSUME CounterInv, NEW a \in Actions, StartAction(a), NEW f \in Facts
    PROVE  IsFiniteSet(RunningOn(f))' /\ invariants'[f] = Cardinality(RunningOn(f))'
<1> DEFINE r == <<a, planLength + 1>>
<1>1. /\ startedActions \in [Actions -> SUBSET StepIDs] /\ planLength \in Nat
      /\ invariants \in [Facts -> Int]
  BY DEF CounterInv, TypeInv, TypeOK, EndsAreSteps
<1>2. startedActions' = [startedActions EXCEPT ![a] = @ \cup {planLength + 1}]
  BY DEF StartAction
<1>3. \A q : q \in RunningEnds' <=> q \in RunningEnds \/ q = r
  BY <1>1, <1>2 DEF RunningEnds
<1>4. r \notin RunningEnds
  <2>1. planLength + 1 \notin startedActions[a]
    BY <1>1 DEF StepIDs
  <2> QED BY <2>1, RunningEndsAre
<1>5. invariants'[f] = IF f \in Range(Op[a].inv) THEN invariants[f] + 1 ELSE invariants[f]
  BY DEF StartAction
<1>6. IsFiniteSet(RunningOn(f)) /\ invariants[f] = Cardinality(RunningOn(f))
  BY DEF CounterInv
<1>7. r[1] = a
  OBVIOUS
<1> HIDE DEF r
<1>8. CASE f \in Range(Op[a].inv)
  <2>1. RunningOn(f)' = RunningOn(f) \cup {r} /\ r \notin RunningOn(f)
    BY <1>3, <1>4, <1>7, <1>8 DEF RunningOn
  <2> QED BY <1>5, <1>6, <1>8, <2>1, FS_AddElement
<1>9. CASE f \notin Range(Op[a].inv)
  <2>1. RunningOn(f)' = RunningOn(f)
    BY <1>3, <1>7, <1>9 DEF RunningOn
  <2> QED BY <1>5, <1>6, <1>9, <2>1
<1> QED BY <1>8, <1>9

LEMMA EndCounts ==
    ASSUME CounterInv, NEW a \in Actions, EndAction(a), NEW f \in Facts
    PROVE  IsFiniteSet(RunningOn(f))' /\ invariants'[f] = Cardinality(RunningOn(f))'
<1> DEFINE e == Earliest(startedActions[a])
           r == <<a, e>>
<1>1. /\ startedActions \in [Actions -> SUBSET Nat] /\ startedActions[a] # {}
      /\ invariants \in [Facts -> Int]
  BY DEF CounterInv, TypeInv, TypeOK, EndAction, EndApplicable
<1>2. e \in startedActions[a]
  BY <1>1, EarliestIsOne
<1>3. /\ startedActions' = [startedActions EXCEPT ![a] = @ \ {e}]
      /\ invariants'[f] = IF f \in Range(Op[a].inv) THEN invariants[f] - 1 ELSE invariants[f]
  BY DEF EndAction, Deregister
<1> HIDE DEF e
<1>4. \A q : q \in RunningEnds' <=> q \in RunningEnds /\ q # r
  BY <1>1, <1>2, <1>3 DEF RunningEnds
<1>5. r \in RunningEnds
  BY <1>2, RunningEndsAre
<1>6. IsFiniteSet(RunningOn(f)) /\ invariants[f] = Cardinality(RunningOn(f))
  BY DEF CounterInv
<1>7. r[1] = a
  OBVIOUS
<1> HIDE DEF r
<1>8. CASE f \in Range(Op[a].inv)
  <2>1. RunningOn(f)' = RunningOn(f) \ {r} /\ r \in RunningOn(f)
    BY <1>4, <1>5, <1>7, <1>8 DEF RunningOn
  <2> QED BY <1>3, <1>6, <1>8, <2>1, FS_RemoveElement
<1>9. CASE f \notin Range(Op[a].inv)
  <2>1. RunningOn(f)' = RunningOn(f)
    BY <1>4, <1>7, <1>9 DEF RunningOn
  <2> QED BY <1>3, <1>6, <1>9, <2>1
<1> QED BY <1>8, <1>9

LEMMA NextCounters == CounterInv /\ [Next]_vars => CounterInv'
<1> SUFFICES ASSUME CounterInv, [Next]_vars PROVE CounterInv'
  OBVIOUS
<1>1. TypeInv'
  BY NextTypes DEF CounterInv
<1> SUFFICES ASSUME NEW f \in Facts
             PROVE  IsFiniteSet(RunningOn(f))' /\ invariants'[f] = Cardinality(RunningOn(f))'
  BY <1>1 DEF CounterInv
<1>2. CASE UNCHANGED <<startedActions, invariants>>
  BY <1>2 DEF CounterInv, RunningOn, RunningEnds
<1>3. ASSUME NEW a \in Actions, StartAction(a)
      PROVE  IsFiniteSet(RunningOn(f))' /\ invariants'[f] = Cardinality(RunningOn(f))'
  BY <1>3, StartCounts
<1>4. ASSUME NEW a \in Actions, EndAction(a)
      PROVE  IsFiniteSet(RunningOn(f))' /\ invariants'[f] = Cardinality(RunningOn(f))'
  BY <1>4, EndCounts
<1>5. \/ UNCHANGED <<startedActions, invariants>>
      \/ \E a \in Actions : StartAction(a) \/ EndAction(a)
  BY DEF Next, ApplyTIL, ApplyInstant, StartSkippable, vars, stateVars
<1> QED BY <1>2, <1>3, <1>4, <1>5

(* The counter of a fact, by which deletes are refused, is the number of   *)
(* running actions that hold it.                                           *)
THEOREM CountersAreRight == Spec => []CountersMatchRunningActions
<1>1. CounterInv => CountersMatchRunningActions
  BY DEF CounterInv, CountersMatchRunningActions, RunningOn
<1> QED BY InitCounters, NextCounters, <1>1, PTL DEF Spec
=============================================================================
