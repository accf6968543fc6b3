-------------------------- MODULE SearchNodeTheorems --------------------------
(***************************************************************************)
(* That a node's queue of start events and its plan stay in step with the  *)
(* state, for every problem and plan, although each numbers and pairs the  *)
(* snap-actions for itself.  Between the two halves of an edge of the      *)
(* search they differ: by the entry of a compression-safe action, by the   *)
(* entry of the action just ended, by the events yet to be written.        *)
(***************************************************************************)
EXTENDS SearchNode, TotalOrderTransformer_proofs

EventRecords ==
    [actID : Durative, stepID : Nat, minDuration : Nat, elapsed : Int,
     advancingDuration : Int, endComesAfter : SUBSET Nat, terminated : BOOLEAN]
PlannedEvents ==
    [timeSpec : {"AT", "AT_START", "AT_END"}, ref : Actions \cup Nat,
     pairWithStep : Nat \cup {-1}, minDuration : Nat \cup {-1}, getEffects : BOOLEAN]
Snaps ==
    {Evaluated} \cup [timeSpec : {"AT"}, ref : Nat]
                \cup [timeSpec : {"AT_START"}, ref : Actions]
                \cup [timeSpec : {"AT_END"}, ref : Durative]
NodeTypes ==
    /\ startEventQueue \in Seq(EventRecords)
    /\ plan \in Seq(PlannedEvents)
    /\ pending \in Snaps

Entries == DOMAIN startEventQueue
EndOf(i) == PendingEnd(startEventQueue[i].stepID)

(* The entries are in the order of their steps, and are about steps.       *)
EntriesAreOrdered ==
    /\ \A i, j \in Entries : i < j => startEventQueue[i].stepID < startEventQueue[j].stepID
    /\ \A i \in Entries :
          /\ EndOf(i) \in StepIDs
          /\ StepOf(EndOf(i)) = [spec |-> "END", act |-> startEventQueue[i].actID]
          /\ startEventQueue[i].minDuration = MinDuration[startEventQueue[i].actID]

(* What runs, for the state: the entries neither terminated nor            *)
(* compression safe.                                                       *)
Runs(i) == ~startEventQueue[i].terminated /\ ~CanSkipToEnd(startEventQueue[i].actID)
EntriesAreRunning ==
    \A a \in Actions : \A e \in Nat :
        e \in startedActions[a] <=>
            \E i \in Entries : Runs(i) /\ startEventQueue[i].actID = a /\ EndOf(i) = e
SkipPending(i) ==
    pending.timeSpec = "AT_START" /\ pending.ref = startEventQueue[i].actID
    /\ i = Len(startEventQueue)
EndPending(i) ==
    /\ pending.timeSpec = "AT_END" /\ startEventQueue[i].actID = pending.ref
    /\ \A j \in Entries : startEventQueue[j].actID = pending.ref => i <= j
OthersArePending ==
    \A i \in Entries :
        /\ CanSkipToEnd(startEventQueue[i].actID) => SkipPending(i)
        /\ startEventQueue[i].terminated <=> EndPending(i)
NewEntryIsLast ==
    (pending.timeSpec = "AT_START" /\ pending.ref \in Durative) =>
        /\ startEventQueue # <<>>
        /\ startEventQueue[Len(startEventQueue)].actID = pending.ref
        /\ startEventQueue[Len(startEventQueue)].stepID = planLength - 2
EndedEntryIsThere ==
    pending.timeSpec = "AT_END" => \E i \in Entries : EndPending(i)

QueueInv ==
    /\ TypeInv /\ NodeTypes
    /\ EntriesAreOrdered /\ EntriesAreRunning /\ OthersArePending
    /\ NewEntryIsLast /\ EndedEntryIsThere

(* How many events are yet to be written, and for which steps.             *)
Unwritten ==
    CASE pending.timeSpec = "AT" -> 1
      [] pending.timeSpec = "AT_START" -> IF pending.ref \in Durative THEN 2 ELSE 1
      [] OTHER -> 0
NewSteps ==
    /\ pending.timeSpec = "AT" =>
          planLength > 0 /\ StepOf(planLength - 1).spec = "TIL"
    /\ (pending.timeSpec = "AT_START" /\ pending.ref \notin Durative) =>
          planLength > 0 /\ StepOf(planLength - 1).spec = "INSTANT"
    /\ (pending.timeSpec = "AT_START" /\ pending.ref \in Durative) =>
          /\ planLength > 1
          /\ StepOf(planLength - 2) = [spec |-> "START", act |-> pending.ref]
          /\ StepOf(planLength - 1) = [spec |-> "END", act |-> pending.ref]
          /\ <<planLength - 2, planLength - 1>> \in stepsBefore

(* An event is what its step is; it has its effects unless the queue has   *)
(* an entry whose end it is.                                               *)
Withheld(k) == \E i \in Entries : EndOf(i) = k
EventMatches(k) ==
    LET event == plan[k + 1]
    IN /\ StepOf(k).spec = "TIL" <=> event.timeSpec = "AT"
       /\ event.timeSpec = "AT_END" =>
             /\ event.ref \in Durative /\ event.ref = StepOf(k).act
             /\ event.pairWithStep \in 0..k - 1
             /\ plan[event.pairWithStep + 1].pairWithStep = k
             /\ <<event.pairWithStep, k>> \in stepsBefore
             /\ event.minDuration = MinDuration[event.ref]
             /\ plan[event.pairWithStep + 1].minDuration = event.minDuration
       /\ event.getEffects <=> ~Withheld(k)
PlanInv ==
    /\ QueueInv
    /\ Len(plan) = planLength - Unwritten
    /\ NewSteps
    /\ \A k \in 0..Len(plan) - 1 : EventMatches(k)

-----------------------------------------------------------------------------
LEMMA LeastPlace ==
    ASSUME NEW S \in SUBSET Nat, S # {}
    PROVE  Min(S) \in S /\ \A x \in S : Min(S) <= x
<1> DEFINE less == OpToRel(<, Nat)
<1>1. IsWellFoundedOn(less, Nat)
  BY NatLessThanWellFounded
<1>2. \A x, y \in Nat : x < y => <<x, y>> \in less
  BY Zenon DEF OpToRel
<1> HIDE DEF less
<1>3. PICK e \in S : \A x \in S : ~(<<x, e>> \in less)
  BY <1>1, WFMin
<1>4. \A x \in S : ~(x < e)
  BY <1>2, <1>3, Zenon
<1>5. \A x \in S : e =< x
  BY <1>4
<1> QED BY <1>5 DEF Min

LEMMA QueueShape ==
    ASSUME NodeTypes
    PROVE  /\ Len(startEventQueue) \in Nat /\ Entries = 1..Len(startEventQueue)
           /\ \A i \in Entries : startEventQueue[i] \in EventRecords
           /\ \A i \in Entries : /\ startEventQueue[i].actID \in Durative
                                 /\ startEventQueue[i].stepID \in Nat
                                 /\ startEventQueue[i].terminated \in BOOLEAN
                                 /\ i \in Nat
<1>1. startEventQueue \in Seq(EventRecords)
  BY DEF NodeTypes
<1>2. Len(startEventQueue) \in Nat /\ Entries = 1..Len(startEventQueue)
  BY <1>1, LenProperties DEF Entries
<1>3. \A i \in Entries : startEventQueue[i] \in EventRecords
  BY <1>1, <1>2, ElementOfSeq
<1> QED BY <1>2, <1>3 DEF EventRecords

(* The place that an end takes is that of the oldest entry of the action.  *)
LEMMA FrontEntryIsOldest ==
    ASSUME NodeTypes, NEW i \in Entries
    PROVE  LET a == startEventQueue[i].actID
           IN /\ FrontEntry(a) \in Entries
              /\ startEventQueue[FrontEntry(a)].actID = a
              /\ \A j \in Entries : startEventQueue[j].actID = a => FrontEntry(a) <= j
<1> DEFINE a == startEventQueue[i].actID
           S == EntriesForAction(a)
<1>1. S \subseteq Nat /\ i \in S
  BY QueueShape DEF EntriesForAction, Entries
<1>2. Min(S) \in S /\ \A j \in S : Min(S) <= j
  BY <1>1, LeastPlace
<1> QED BY <1>2 DEF FrontEntry, EntriesForAction, Entries

(* Entries of different places are about different steps.                  *)
LEMMA EndsDiffer ==
    ASSUME NodeTypes, EntriesAreOrdered, NEW i \in Entries, NEW j \in Entries
    PROVE  /\ EndOf(i) = EndOf(j) => i = j
           /\ EndOf(i) <= EndOf(j) <=> i <= j
           /\ EndOf(i) \in Nat
<1>1. i \in Nat /\ j \in Nat /\ startEventQueue[i].stepID \in Nat
      /\ startEventQueue[j].stepID \in Nat
  BY QueueShape
<1>2. /\ i < j => startEventQueue[i].stepID < startEventQueue[j].stepID
      /\ j < i => startEventQueue[j].stepID < startEventQueue[i].stepID
  BY DEF EntriesAreOrdered
<1> QED BY <1>1, <1>2 DEF EndOf, PendingEnd

(* Once evaluated, a node has nothing on its queue but what runs.          *)
LEMMA EvaluatedRuns ==
    ASSUME QueueInv, pending = Evaluated
    PROVE  \A i \in Entries : Runs(i)
<1>1. pending.timeSpec = "NONE"
  BY DEF Evaluated
<1> QED BY <1>1 DEF QueueInv, OthersArePending, SkipPending, EndPending, Runs

LEMMA EvaluatedMatches ==
    ASSUME QueueInv, pending = Evaluated, NEW a \in Actions
    PROVE  /\ \A e : e \in startedActions[a] <=>
                        \E i \in Entries : startEventQueue[i].actID = a /\ EndOf(i) = e
           /\ startedActions[a] # {} =>
                 /\ FrontEntry(a) \in Entries
                 /\ startEventQueue[FrontEntry(a)].actID = a
                 /\ ~CanSkipToEnd(a) /\ a \in Durative
                 /\ EndOf(FrontEntry(a)) = Earliest(startedActions[a])
                 /\ \A j \in Entries : startEventQueue[j].actID = a => FrontEntry(a) <= j
<1>1. startedActions[a] \subseteq Nat
  BY DEF QueueInv, TypeInv, TypeOK
<1>2. \A i \in Entries : Runs(i) /\ EndOf(i) \in Nat
  BY EvaluatedRuns, EndsDiffer DEF QueueInv
<1>3. \A e \in Nat : e \in startedActions[a] <=>
          \E i \in Entries : Runs(i) /\ startEventQueue[i].actID = a /\ EndOf(i) = e
  BY DEF QueueInv, EntriesAreRunning
<1>4. \A e : e \in startedActions[a] <=>
          \E i \in Entries : startEventQueue[i].actID = a /\ EndOf(i) = e
  BY <1>1, <1>2, <1>3
<1>5. ASSUME startedActions[a] # {}
      PROVE  /\ FrontEntry(a) \in Entries
             /\ startEventQueue[FrontEntry(a)].actID = a
             /\ ~CanSkipToEnd(a) /\ a \in Durative
             /\ EndOf(FrontEntry(a)) = Earliest(startedActions[a])
             /\ \A j \in Entries : startEventQueue[j].actID = a => FrontEntry(a) <= j
  <2>1. PICK i \in Entries : startEventQueue[i].actID = a
    BY <1>4, <1>5
  <2>2. /\ FrontEntry(a) \in Entries /\ startEventQueue[FrontEntry(a)].actID = a
        /\ \A j \in Entries : startEventQueue[j].actID = a => FrontEntry(a) <= j
    BY <2>1, FrontEntryIsOldest DEF QueueInv
  <2>3. ~CanSkipToEnd(a) /\ a \in Durative
    BY <1>2, <2>1, QueueShape DEF Runs, QueueInv
  <2> DEFINE e == EndOf(FrontEntry(a))
  <2>4. e \in startedActions[a] /\ \A x \in startedActions[a] : e <= x
    BY <1>4, <2>2, EndsDiffer DEF QueueInv
  <2> HIDE DEF e
  <2>5. ASSUME NEW y \in startedActions[a], \A x \in startedActions[a] : y <= x
        PROVE  y = e
    <3>1. y <= e /\ e <= y /\ y \in Nat /\ e \in Nat
      BY <1>1, <2>4, <2>5
    <3> QED BY <3>1
  <2>6. Earliest(startedActions[a]) = e
    BY <2>4, <2>5 DEF Earliest
  <2> QED BY <2>2, <2>3, <2>6 DEF e
<1> QED BY <1>4, <1>5

(* The queue is that of the parent until something starts or ends.         *)
LEMMA QueueKept ==
    ASSUME QueueInv, TypeInv', NodeTypes', UNCHANGED <<startEventQueue, startedActions>>,
           StepIDs \subseteq StepIDs', \A k \in StepIDs : StepOf(k)' = StepOf(k),
           \A i \in Entries : Runs(i),
           pending'.timeSpec # "AT_END",
           pending'.timeSpec = "AT_START" => pending'.ref \notin Durative
    PROVE  QueueInv'
<1>1. EntriesAreOrdered'
  <2>1. \A i \in Entries : StepOf(EndOf(i))' = StepOf(EndOf(i)) /\ EndOf(i)' = EndOf(i)
    BY DEF EndOf, QueueInv, EntriesAreOrdered, PendingEnd, StepOf
  <2> QED BY <2>1 DEF QueueInv, EntriesAreOrdered, Entries
<1>2. EntriesAreRunning'
  BY DEF QueueInv, EntriesAreRunning, Entries, Runs, EndOf
<1>3. OthersArePending'
  BY DEF OthersArePending, Runs, Entries, EndPending
<1>4. NewEntryIsLast' /\ EndedEntryIsThere'
  BY DEF NewEntryIsLast, EndedEntryIsThere
<1> QED BY <1>1, <1>2, <1>3, <1>4 DEF QueueInv

-----------------------------------------------------------------------------
(* Taking an entry out of a list.                                          *)
LEMMA FrontProperties ==
    ASSUME NEW S, NEW s \in Seq(S), s # <<>>
    PROVE  /\ Front(s) \in Seq(S) /\ Len(Front(s)) = Len(s) - 1
           /\ \A j \in 1..Len(s) - 1 : Front(s)[j] = s[j]
<1>1. Len(s) \in Nat \ {0} /\ Len(s) - 1 \in Int /\ 1 \in Int
  BY EmptySeq
<1>2. \A j \in 1..Len(s) - 1 : s[j] \in S
  BY <1>1, ElementOfSeq
<1>3. /\ SubSeq(s, 1, Len(s) - 1) \in Seq(S)
      /\ Len(SubSeq(s, 1, Len(s) - 1)) =
            IF 1 <= Len(s) - 1 THEN (Len(s) - 1) - 1 + 1 ELSE 0
      /\ \A j \in 1..(Len(s) - 1) - 1 + 1 : SubSeq(s, 1, Len(s) - 1)[j] = s[1 + j - 1]
  BY <1>1, <1>2, SubSeqProperties
<1>4. \A j \in 1..Len(s) - 1 : j \in 1..(Len(s) - 1) - 1 + 1 /\ 1 + j - 1 = j
  BY <1>1
<1> DEFINE front == SubSeq(s, 1, Len(s) - 1)
<1>5. Front(s) = front
  BY DEF Front
<1>6. Len(s) - 1 = IF 1 <= Len(s) - 1 THEN (Len(s) - 1) - 1 + 1 ELSE 0
  <2>1. \A n \in Nat \ {0} : n - 1 = IF 1 <= n - 1 THEN (n - 1) - 1 + 1 ELSE 0
    OBVIOUS
  <2> QED BY <1>1, <2>1, Zenon
<1>7. front \in Seq(S) /\ Len(front) = Len(s) - 1
  BY <1>3, <1>6
<1>8. \A j \in 1..Len(s) - 1 : front[j] = s[j]
  BY <1>3, <1>4
<1> HIDE DEF front
<1> QED BY <1>5, <1>7, <1>8

LEMMA RemoveAtProperties ==
    ASSUME NEW S, NEW s \in Seq(S), NEW i \in 1..Len(s)
    PROVE  /\ RemoveAt(s, i) \in Seq(S) /\ Len(RemoveAt(s, i)) = Len(s) - 1
           /\ \A j \in 1..Len(s) - 1 :
                 RemoveAt(s, i)[j] = IF j < i THEN s[j] ELSE s[j + 1]
<1> DEFINE l == SubSeq(s, 1, i - 1)
           r == SubSeq(s, i + 1, Len(s))
<1>1. Len(s) \in Nat /\ Len(s) \in Int /\ i \in Int /\ i - 1 \in Int /\ i + 1 \in Int /\ 1 \in Int
  BY LenProperties
<1>2. /\ \A j \in 1..i - 1 : s[j] \in S
      /\ \A j \in i + 1..Len(s) : s[j] \in S
  BY <1>1, ElementOfSeq
<1>3. /\ l \in Seq(S)
      /\ Len(l) = IF 1 <= i - 1 THEN (i - 1) - 1 + 1 ELSE 0
      /\ \A j \in 1..(i - 1) - 1 + 1 : l[j] = s[1 + j - 1]
  BY <1>1, <1>2, SubSeqProperties
<1>4. /\ r \in Seq(S)
      /\ Len(r) = IF i + 1 <= Len(s) THEN Len(s) - (i + 1) + 1 ELSE 0
      /\ \A j \in 1..Len(s) - (i + 1) + 1 : r[j] = s[i + 1 + j - 1]
  BY <1>1, <1>2, SubSeqProperties
<1> HIDE DEF l, r
<1>5. Len(l) = i - 1 /\ Len(r) = Len(s) - i
  BY <1>1, <1>3, <1>4
<1>6. /\ l \o r \in Seq(S) /\ Len(l \o r) = Len(l) + Len(r)
      /\ \A j \in 1..Len(l) + Len(r) :
            (l \o r)[j] = IF j <= Len(l) THEN l[j] ELSE r[j - Len(l)]
  BY <1>3, <1>4, ConcatProperties
<1>7. ASSUME NEW j \in 1..Len(s) - 1
      PROVE  (l \o r)[j] = IF j < i THEN s[j] ELSE s[j + 1]
  <2>1. (l \o r)[j] = IF j <= i - 1 THEN l[j] ELSE r[j - (i - 1)]
    BY <1>1, <1>5, <1>6
  <2>2. CASE j < i
    <3>1. j \in 1..(i - 1) - 1 + 1 /\ 1 + j - 1 = j
      BY <1>1, <2>2
    <3>2. l[j] = s[j]
      BY <1>3, <3>1
    <3> QED BY <1>1, <2>1, <2>2, <3>2
  <2>3. CASE ~(j < i)
    <3>1. j - (i - 1) \in 1..Len(s) - (i + 1) + 1 /\ i + 1 + (j - (i - 1)) - 1 = j + 1
      BY <1>1, <2>3
    <3>2. r[j - (i - 1)] = s[j + 1]
      BY <1>4, <3>1
    <3> QED BY <1>1, <2>1, <2>3, <3>2
  <2> QED BY <2>2, <2>3
<1>8. RemoveAt(s, i) = l \o r
  BY DEF RemoveAt, l, r
<1>9. Len(l \o r) = Len(s) - 1
  BY <1>1, <1>5, <1>6
<1> QED BY <1>6, <1>7, <1>8, <1>9

-----------------------------------------------------------------------------
(* Making a child.                                                         *)
LEMMA InitQueue == NodeInit => QueueInv
<1> SUFFICES ASSUME NodeInit PROVE QueueInv
  OBVIOUS
<1>1. TypeInv
  BY InitTypes DEF NodeInit
<1>2. NodeTypes
  BY EmptySeq DEF NodeInit, NodeTypes, Snaps
<1>3. Entries = {}
  BY DEF NodeInit, Entries
<1>4. \A a \in Actions : startedActions[a] = {}
  BY DEF NodeInit, Init
<1>5. pending.timeSpec = "NONE"
  BY DEF NodeInit, Evaluated
<1> QED BY <1>1, <1>2, <1>3, <1>4, <1>5
        DEF QueueInv, EntriesAreOrdered, EntriesAreRunning, OthersArePending,
            NewEntryIsLast, EndedEntryIsThere

(* A step of the state keeps the steps there are.                          *)
LEMMA ApplyingKeepsSteps ==
    ASSUME TypeInv, NEW k, NEW pre, NEW dels, NEW adds, NEW more, NEW recs,
           Applies(k, pre, dels, adds, more, recs)
    PROVE  StepIDs \subseteq StepIDs' /\ \A i \in StepIDs : StepOf(i)' = StepOf(i)
BY AppliesTypes

LEMMA TILKeepsQueue ==
    ASSUME QueueInv, ChildOfTIL
    PROVE  QueueInv'
<1>1. ApplyTIL /\ pending = Evaluated /\ UNCHANGED <<plan, startEventQueue>>
      /\ pending' = [timeSpec |-> "AT", ref |-> nextTIL + 1]
  BY DEF ChildOfTIL, Child
<1>2. TypeInv
  BY DEF QueueInv
<1>3. TypeInv'
  BY <1>1, <1>2, NextTypes DEF Next
<1>4. NodeTypes'
  <2>1. nextTIL + 1 \in Nat
    BY <1>2, DomainAssumption, LenProperties DEF TypeInv, TypeOK
  <2>2. pending' \in Snaps
    BY <1>1, <2>1 DEF Snaps
  <2> QED BY <1>1, <2>2 DEF NodeTypes, QueueInv
<1>5. StepIDs \subseteq StepIDs' /\ \A k \in StepIDs : StepOf(k)' = StepOf(k)
  BY <1>1, <1>2, TILApplies, ApplyingKeepsSteps
<1>6. \A i \in Entries : Runs(i)
  BY <1>1, EvaluatedRuns
<1>7. UNCHANGED <<startEventQueue, startedActions>>
  BY <1>1 DEF ApplyTIL
<1>8. pending'.timeSpec = "AT"
  BY <1>1
<1> QED BY <1>3, <1>4, <1>5, <1>6, <1>7, <1>8, QueueKept

LEMMA InstantKeepsQueue ==
    ASSUME QueueInv, NEW a \in Actions, ChildOfInstant(a)
    PROVE  QueueInv'
<1>1. ApplyInstant(a) /\ pending = Evaluated /\ UNCHANGED <<plan, startEventQueue>>
      /\ pending' = [timeSpec |-> "AT_START", ref |-> a]
  BY DEF ChildOfInstant, Child
<1>2. TypeInv
  BY DEF QueueInv
<1>3. TypeInv'
  BY <1>1, <1>2, NextTypes DEF Next
<1>4. NodeTypes'
  <2>2. pending' \in Snaps
    BY <1>1 DEF Snaps
  <2> QED BY <1>1, <2>2 DEF NodeTypes, QueueInv
<1>5. StepIDs \subseteq StepIDs' /\ \A k \in StepIDs : StepOf(k)' = StepOf(k)
  BY <1>1, <1>2, InstantApplies, ApplyingKeepsSteps
<1>6. \A i \in Entries : Runs(i)
  BY <1>1, EvaluatedRuns
<1>7. UNCHANGED <<startEventQueue, startedActions>> /\ a \notin Durative
  BY <1>1 DEF ApplyInstant
<1>8. pending'.timeSpec = "AT_START" /\ pending'.ref = a
  BY <1>1
<1> QED BY <1>3, <1>4, <1>5, <1>6, <1>7, <1>8, QueueKept

(* A start queues an entry for itself, of which the state has the end,     *)
(* unless the action is compression safe.                                  *)
LEMMA StartKeepsQueue ==
    ASSUME QueueInv, NEW a \in Actions, ChildOfStart(a)
    PROVE  QueueInv' /\ \A k \in StepIDs : Withheld(k)' <=> Withheld(k)
<1>n. PICK n : n = Len(startEventQueue)
  OBVIOUS
<1>p. PICK p : p = planLength
  OBVIOUS
<1> DEFINE entry == StartEvent(a, p)
<1>1. /\ StartAction(a) \/ StartSkippable(a)
      /\ pending = Evaluated /\ UNCHANGED plan
      /\ startEventQueue' = Append(startEventQueue, StartEvent(a, planLength' - 2))
      /\ pending' = [timeSpec |-> "AT_START", ref |-> a]
  BY DEF ChildOfStart, Child
<1>2. TypeInv /\ NodeTypes /\ EntriesAreOrdered
  BY DEF QueueInv
<1>3. TypeInv'
  BY <1>1, <1>2, NextTypes DEF Next
<1>4. a \in Durative
  BY <1>1, DomainAssumption DEF StartAction, StartSkippable, CanSkipToEnd
<1>5. Applies(p, ProcessedStartPre(a), Op[a].startDel, Op[a].startAdd,
              {<<p, p + 1>>}, StartRecords(a))
  BY <1>1, <1>2, <1>p, StartApplies
<1>6. /\ p \in Nat /\ planLength' = p + 2
      /\ p + 1 \in StepIDs' /\ steps'[p + 2] = [spec |-> "END", act |-> a]
  <2>1. p + 1 \in StepIDs' /\ steps'[p + 2] = [spec |-> "END", act |-> a]
    BY <1>2, <1>5, <1>p, StartRecordsEnd
  <2>2. planLength' = planLength + Len(StartRecords(a))
    BY <1>5, <1>p DEF Applies
  <2> QED BY <1>2, <2>1, <2>2, <1>p DEF TypeInv, TypeOK, StartRecords
<1>7. /\ StepIDs \subseteq StepIDs'
      /\ \A k \in StepIDs : StepOf(k)' = StepOf(k)
      /\ \A k \in StepIDs : k < p
  BY <1>2, <1>5, <1>6, <1>p, ApplyingKeepsSteps DEF StepIDs
<1>8. /\ entry \in EventRecords
      /\ entry.actID = a /\ entry.stepID = p /\ entry.minDuration = MinDuration[a]
      /\ entry.terminated = FALSE
  BY <1>4, <1>6, DurationAssumption DEF StartEvent, EventRecords
<1>9. startEventQueue' = Append(startEventQueue, entry)
  <2>1. planLength' - 2 = p
    BY <1>6
  <2> QED BY <1>1, <2>1
<1>10. /\ n \in Nat /\ Entries = 1..n
       /\ \A i \in Entries : /\ startEventQueue[i].actID \in Durative
                             /\ startEventQueue[i].stepID \in Nat
                             /\ startEventQueue[i].terminated \in BOOLEAN
  BY <1>2, <1>n, QueueShape
<1>11. startEventQueue \in Seq(EventRecords)
  BY <1>2 DEF NodeTypes
<1> HIDE DEF entry, EventRecords
<1>12. /\ startEventQueue' \in Seq(EventRecords)
       /\ Len(startEventQueue') = n + 1
       /\ \A i \in 1..n : startEventQueue'[i] = startEventQueue[i]
       /\ startEventQueue'[n + 1] = entry
  BY <1>8, <1>9, <1>11, <1>n, AppendProperties
<1>13. /\ Entries' = 1..n + 1
       /\ \A i \in Entries' : i \in Entries \/ i = n + 1
       /\ n + 1 \in Entries'
       /\ \A i \in Entries : i \in Entries' /\ i < n + 1
  <2>1. Entries' = 1..n + 1
    BY <1>12, LenProperties DEF Entries
  <2> QED BY <1>10, <2>1
<1>14. \A i \in Entries : startEventQueue'[i] = startEventQueue[i]
  BY <1>10, <1>12
<1>15. /\ \A i \in Entries : /\ EndOf(i)' = EndOf(i) /\ EndOf(i) \in StepIDs
                             /\ startEventQueue[i].stepID < p
       /\ EndOf(n + 1)' = p + 1
  <2>1. ASSUME NEW i \in Entries
        PROVE  EndOf(i)' = EndOf(i) /\ EndOf(i) \in StepIDs /\ startEventQueue[i].stepID < p
    <3>1. EndOf(i)' = EndOf(i) /\ EndOf(i) \in StepIDs
      BY <1>2, <1>14 DEF EndOf, PendingEnd, EntriesAreOrdered
    <3>2. startEventQueue[i].stepID + 1 < p
      BY <1>7, <3>1 DEF EndOf, PendingEnd
    <3> QED BY <1>6, <1>10, <3>1, <3>2
  <2>2. EndOf(n + 1)' = p + 1
    BY <1>8, <1>12 DEF EndOf, PendingEnd
  <2> QED BY <2>1, <2>2
<1>16. EntriesAreOrdered'
  <2>1. ASSUME NEW i \in Entries', NEW j \in Entries', i < j
        PROVE  startEventQueue'[i].stepID < startEventQueue'[j].stepID
    <3>1. CASE j = n + 1
      <4>1. i \in Entries
        BY <1>10, <1>13, <2>1, <3>1
      <4> QED BY <1>8, <1>12, <1>14, <1>15, <3>1, <4>1
    <3>2. CASE j \in Entries
      <4>1. i \in Entries
        <5>1. n \in Nat /\ j \in 1..n /\ i \in 1..n + 1
          BY <1>10, <1>13, <2>1, <3>2
        <5>2. i \in 1..n
          BY <5>1, <2>1
        <5> QED BY <1>10, <5>2
      <4> QED BY <1>2, <1>14, <2>1, <3>2, <4>1 DEF EntriesAreOrdered
    <3> QED BY <1>13, <2>1, <3>1, <3>2
  <2>2. ASSUME NEW i \in Entries'
        PROVE  /\ EndOf(i)' \in StepIDs'
               /\ StepOf(EndOf(i))' = [spec |-> "END", act |-> startEventQueue'[i].actID]
               /\ startEventQueue'[i].minDuration = MinDuration[startEventQueue'[i].actID]
    <3>1. CASE i = n + 1
      <4>1. StepOf(p + 1)' = steps'[p + 2]
        BY <1>6 DEF StepOf
      <4>2. StepOf(EndOf(i))' = steps'[p + 2]
        BY <1>15, <3>1, <4>1 DEF StepOf
      <4> QED BY <1>6, <1>8, <1>12, <1>15, <3>1, <4>2
    <3>2. CASE i \in Entries
      <4>1. StepOf(EndOf(i))' = StepOf(EndOf(i))
        BY <1>7, <1>15, <3>2 DEF StepOf
      <4> QED BY <1>2, <1>7, <1>14, <1>15, <3>2, <4>1 DEF EntriesAreOrdered
    <3> QED BY <1>13, <3>1, <3>2
  <2> QED BY <2>1, <2>2 DEF EntriesAreOrdered
<1>17. /\ \A i \in Entries : Runs(i) /\ (Runs(i)' <=> Runs(i))
       /\ Runs(n + 1)' <=> ~CanSkipToEnd(a)
  <2>1. \A i \in Entries : Runs(i)
    BY <1>1, EvaluatedRuns
  <2> QED BY <1>8, <1>12, <1>14, <2>1 DEF Runs
<1>18. EntriesAreRunning'
  <2> SUFFICES ASSUME NEW b \in Actions, NEW e \in Nat
               PROVE  e \in startedActions'[b] <=>
                         \E i \in Entries' : Runs(i)' /\ startEventQueue'[i].actID = b
                                             /\ EndOf(i)' = e
    BY DEF EntriesAreRunning
  <2>1. e \in startedActions[b] <=>
           \E i \in Entries : Runs(i) /\ startEventQueue[i].actID = b /\ EndOf(i) = e
    BY DEF QueueInv, EntriesAreRunning
  <2>2. e \in startedActions'[b] <=>
           e \in startedActions[b] \/ (~CanSkipToEnd(a) /\ b = a /\ e = p + 1)
    <3>1. startedActions \in [Actions -> SUBSET Nat]
      BY <1>2 DEF TypeInv, TypeOK
    <3>2. CASE StartAction(a)
      BY <3>1, <3>2, <1>p DEF StartAction
    <3>3. CASE StartSkippable(a)
      BY <3>3 DEF StartSkippable
    <3> QED BY <1>1, <3>2, <3>3
  <2>3. (\E i \in Entries' : Runs(i)' /\ startEventQueue'[i].actID = b /\ EndOf(i)' = e)
        <=> \/ \E i \in Entries : Runs(i)' /\ startEventQueue'[i].actID = b /\ EndOf(i)' = e
            \/ Runs(n + 1)' /\ startEventQueue'[n + 1].actID = b /\ EndOf(n + 1)' = e
    BY <1>13
  <2>4. (\E i \in Entries : Runs(i)' /\ startEventQueue'[i].actID = b /\ EndOf(i)' = e)
        <=> e \in startedActions[b]
    BY <1>14, <1>15, <1>17, <2>1
  <2>5. Runs(n + 1)' /\ startEventQueue'[n + 1].actID = b /\ EndOf(n + 1)' = e
        <=> ~CanSkipToEnd(a) /\ b = a /\ e = p + 1
    BY <1>8, <1>12, <1>15, <1>17
  <2> QED BY <2>2, <2>3, <2>4, <2>5
<1>19. OthersArePending'
  <2>1. pending'.timeSpec = "AT_START" /\ pending'.ref = a
    BY <1>1
  <2>2. \A i \in Entries' : ~EndPending(i)'
    BY <2>1 DEF EndPending
  <2>3. SkipPending(n + 1)'
    BY <1>8, <1>12, <2>1 DEF SkipPending
  <2>4. \A i \in Entries : ~CanSkipToEnd(startEventQueue'[i].actID)
                           /\ ~startEventQueue'[i].terminated
    BY <1>14, <1>17 DEF Runs
  <2> QED BY <1>8, <1>12, <1>13, <2>2, <2>3, <2>4 DEF OthersArePending
<1>20. NewEntryIsLast' /\ EndedEntryIsThere'
  <2>1. n \in Nat
    BY <1>10
  <2>2. startEventQueue' # <<>>
    BY <1>12, <2>1
  <2>3. Len(startEventQueue)' = n + 1
    BY <1>12
  <2> QED BY <1>1, <1>6, <1>8, <1>12, <2>2, <2>3 DEF NewEntryIsLast, EndedEntryIsThere
<1>21. NodeTypes'
  <2>1. pending' \in Snaps
    BY <1>1 DEF Snaps
  <2> QED BY <1>1, <1>2, <1>12, <2>1 DEF NodeTypes
<1>22. ASSUME NEW k \in StepIDs PROVE Withheld(k)' <=> Withheld(k)
  <2>1. k # p + 1
    BY <1>6, <1>7
  <2>2. (\E i \in Entries' : EndOf(i)' = k) <=> (\E i \in Entries : EndOf(i)' = k)
    BY <1>13, <1>15, <2>1
  <2> QED BY <1>15, <2>2 DEF Withheld
<1> QED BY <1>3, <1>16, <1>18, <1>19, <1>20, <1>21, <1>22 DEF QueueInv

(* An end terminates the entry that the state forgets.                     *)
LEMMA EndKeepsQueue ==
    ASSUME QueueInv, NEW a \in Actions, ChildOfEnd(a)
    PROVE  QueueInv' /\ \A k \in StepIDs : Withheld(k)' <=> Withheld(k)
<1>n. PICK n : n = FrontEntry(a)
  OBVIOUS
<1>e. PICK e : e = Earliest(startedActions[a])
  OBVIOUS
<1>1. /\ EndAction(a) /\ pending = Evaluated /\ UNCHANGED plan
      /\ startEventQueue' = [startEventQueue EXCEPT ![n].terminated = TRUE]
      /\ pending' = [timeSpec |-> "AT_END", ref |-> a]
  BY <1>n DEF ChildOfEnd, Child
<1>2. TypeInv /\ NodeTypes /\ EntriesAreOrdered
  BY DEF QueueInv
<1>3. TypeInv'
  BY <1>1, <1>2, NextTypes DEF Next
<1>4. startedActions[a] # {}
  BY <1>1 DEF EndAction, EndApplicable
<1>5. /\ n \in Entries /\ startEventQueue[n].actID = a
      /\ a \in Durative /\ EndOf(n) = e
      /\ \A j \in Entries : startEventQueue[j].actID = a => n <= j
  BY <1>1, <1>4, <1>n, <1>e, EvaluatedMatches
<1>6. /\ StepIDs \subseteq StepIDs' /\ \A k \in StepIDs : StepOf(k)' = StepOf(k)
  BY <1>1, <1>2, EndApplies, ApplyingKeepsSteps
<1>7. \A i \in Entries : /\ startEventQueue[i] \in EventRecords
                         /\ startEventQueue[i].actID \in Durative
                         /\ startEventQueue[i].stepID \in Nat
                         /\ startEventQueue[i].terminated \in BOOLEAN
                         /\ i \in Nat
  BY <1>2, QueueShape
<1>8. startEventQueue \in Seq(EventRecords) /\ Entries = 1..Len(startEventQueue)
  BY <1>2, QueueShape DEF NodeTypes
<1>9. /\ startEventQueue' \in Seq(EventRecords)
      /\ Len(startEventQueue)' = Len(startEventQueue)
      /\ \A i \in Entries : startEventQueue'[i] =
            IF i = n THEN [startEventQueue[n] EXCEPT !.terminated = TRUE]
            ELSE startEventQueue[i]
  <2> DEFINE r == [startEventQueue[n] EXCEPT !.terminated = TRUE]
  <2>1. r \in EventRecords
    BY <1>5, <1>7 DEF EventRecords
  <2>2. startEventQueue' = [startEventQueue EXCEPT ![n] = r]
    BY <1>1
  <2> HIDE DEF r, EventRecords
  <2> QED BY <1>5, <1>8, <2>1, <2>2, ExceptSeq DEF r
<1>10. Entries' = Entries
  BY <1>8, <1>9, LenProperties DEF Entries
<1>11. \A i \in Entries : /\ startEventQueue'[i].actID = startEventQueue[i].actID
                          /\ startEventQueue'[i].stepID = startEventQueue[i].stepID
                          /\ startEventQueue'[i].minDuration = startEventQueue[i].minDuration
                          /\ startEventQueue'[i].terminated <=>
                                startEventQueue[i].terminated \/ i = n
  <2> SUFFICES ASSUME NEW i \in Entries
               PROVE  /\ startEventQueue'[i].actID = startEventQueue[i].actID
                      /\ startEventQueue'[i].stepID = startEventQueue[i].stepID
                      /\ startEventQueue'[i].minDuration = startEventQueue[i].minDuration
                      /\ startEventQueue'[i].terminated <=>
                            startEventQueue[i].terminated \/ i = n
    OBVIOUS
  <2>1. CASE i = n
    <3>1. startEventQueue'[i] = [startEventQueue[i] EXCEPT !.terminated = TRUE]
      BY <1>9, <2>1
    <3>2. startEventQueue[i] \in EventRecords
      BY <1>7
    <3> QED BY <2>1, <3>1, <3>2 DEF EventRecords
  <2>2. CASE i # n
    BY <1>9, <2>2
  <2> QED BY <2>1, <2>2
<1>12. \A i \in Entries : EndOf(i)' = EndOf(i)
  BY <1>11 DEF EndOf
<1>13. EntriesAreOrdered'
  <2>1. ASSUME NEW i \in Entries PROVE StepOf(EndOf(i))' = StepOf(EndOf(i))
    <3>1. EndOf(i) \in StepIDs /\ EndOf(i)' = EndOf(i)
      BY <1>2, <1>12 DEF EntriesAreOrdered
    <3> QED BY <1>6, <3>1 DEF StepOf
  <2>2. \A i \in Entries : EndOf(i) \in StepIDs'
    BY <1>2, <1>6 DEF EntriesAreOrdered
  <2> QED BY <1>2, <1>10, <1>11, <1>12, <2>1, <2>2 DEF EntriesAreOrdered
<1>14. \A i \in Entries : Runs(i) /\ (Runs(i)' <=> i # n)
  <2>1. \A i \in Entries : Runs(i)
    BY <1>1, EvaluatedRuns
  <2> QED BY <1>11, <2>1 DEF Runs
<1>15. EntriesAreRunning'
  <2> SUFFICES ASSUME NEW b \in Actions, NEW x \in Nat
               PROVE  x \in startedActions'[b] <=>
                         \E i \in Entries : i # n /\ startEventQueue[i].actID = b
                                            /\ EndOf(i) = x
    BY <1>10, <1>11, <1>12, <1>14 DEF EntriesAreRunning
  <2>1. x \in startedActions[b] <=>
           \E i \in Entries : startEventQueue[i].actID = b /\ EndOf(i) = x
    BY <1>14 DEF QueueInv, EntriesAreRunning
  <2>2. x \in startedActions'[b] <=> x \in startedActions[b] /\ ~(b = a /\ x = e)
    BY <1>1, <1>2, <1>e DEF EndAction, Deregister, TypeInv, TypeOK
  <2>3. \A i \in Entries : EndOf(i) = e => i = n
    BY <1>2, <1>5, EndsDiffer
  <2> QED BY <1>5, <2>1, <2>2, <2>3
<1>16. \A i \in Entries : EndPending(i)' <=> i = n
  <2>1. pending'.timeSpec = "AT_END" /\ pending'.ref = a
    BY <1>1
  <2>2. \A i \in Entries : EndPending(i)' <=>
           startEventQueue[i].actID = a
           /\ \A j \in Entries : startEventQueue[j].actID = a => i <= j
    BY <1>10, <1>11, <2>1 DEF EndPending
  <2>3. \A i \in Entries : i <= n /\ n <= i => i = n
    BY <1>5, <1>7
  <2> QED BY <1>5, <2>2, <2>3
<1>17. OthersArePending'
  <2>1. \A i \in Entries : ~CanSkipToEnd(startEventQueue[i].actID)
                           /\ ~startEventQueue[i].terminated
    BY <1>14 DEF Runs
  <2> QED BY <1>10, <1>11, <1>16, <2>1 DEF OthersArePending
<1>18. NewEntryIsLast' /\ EndedEntryIsThere'
  <2>1. pending'.timeSpec = "AT_END"
    BY <1>1
  <2> QED BY <1>5, <1>10, <1>16, <2>1 DEF NewEntryIsLast, EndedEntryIsThere
<1>19. NodeTypes'
  <2>1. pending' \in Snaps
    BY <1>1, <1>5 DEF Snaps
  <2> QED BY <1>1, <1>2, <1>9, <2>1 DEF NodeTypes
<1>20. \A k \in StepIDs : Withheld(k)' <=> Withheld(k)
  BY <1>10, <1>12 DEF Withheld
<1> QED BY <1>3, <1>13, <1>15, <1>17, <1>18, <1>19, <1>20 DEF QueueInv

-----------------------------------------------------------------------------
(* Evaluating a child.                                                     *)

(* What does not run leaves the queue; the rest moves up.                  *)
LEMMA RemovalKeepsQueue ==
    ASSUME QueueInv, NEW n \in Entries, ~Runs(n), \A i \in Entries : i # n => Runs(i),
           UNCHANGED vars, pending' = Evaluated, plan' \in Seq(PlannedEvents),
           startEventQueue' \in Seq(EventRecords),
           Len(startEventQueue') = Len(startEventQueue) - 1,
           \A j \in 1..Len(startEventQueue) - 1 :
              startEventQueue'[j] = IF j < n THEN startEventQueue[j]
                                    ELSE startEventQueue[j + 1]
    PROVE  QueueInv' /\ \A k \in Nat : Withheld(k)' <=> Withheld(k) /\ k # EndOf(n)
<1>l. PICK l : l = Len(startEventQueue)
  OBVIOUS
<1>1. TypeInv /\ NodeTypes /\ EntriesAreOrdered /\ EntriesAreRunning
  BY DEF QueueInv
<1>2. TypeInv'
  BY <1>1, NextTypes
<1>3. /\ l \in Nat /\ Entries = 1..l /\ n \in 1..l
      /\ \A i \in Entries : startEventQueue[i].stepID \in Nat
  BY <1>1, <1>l, QueueShape
<1>4. Entries' = 1..l - 1
  <2>1. DOMAIN startEventQueue' = 1..Len(startEventQueue')
    BY LenProperties
  <2> QED BY <1>l, <2>1 DEF Entries
<1> DEFINE from(j) == IF j < n THEN j ELSE j + 1
<1>5. \A j \in Entries' : /\ from(j) \in Entries /\ from(j) # n
                          /\ startEventQueue'[j] = startEventQueue[from(j)]
  <2>1. ASSUME NEW j \in 1..l - 1 PROVE from(j) \in 1..l /\ from(j) # n
    <3>1. CASE j < n
      BY <1>3, <3>1
    <3>2. CASE ~(j < n)
      BY <1>3, <3>2
    <3> QED BY <3>1, <3>2
  <2>2. \A j \in 1..l - 1 : startEventQueue'[j] = startEventQueue[from(j)]
    BY <1>l
  <2> QED BY <1>3, <1>4, <2>1, <2>2
<1>6. \A i \in Entries : i # n => \E j \in Entries' : from(j) = i
  <2> SUFFICES ASSUME NEW i \in 1..l, i # n PROVE \E j \in 1..l - 1 : from(j) = i
    BY <1>3, <1>4
  <2>1. CASE i < n
    <3>1. i \in 1..l - 1 /\ from(i) = i
      BY <1>3, <2>1
    <3> QED BY <3>1, Zenon
  <2>2. CASE n < i
    <3>1. i - 1 \in 1..l - 1 /\ from(i - 1) = i
      BY <1>3, <2>2
    <3> QED BY <3>1, Zenon
  <2> QED BY <1>3, <2>1, <2>2
<1>7. \A i, j \in Entries' : i < j => from(i) < from(j)
  BY <1>3, <1>4
<1> HIDE DEF from
<1>8. \A j \in Entries' : EndOf(j)' = EndOf(from(j)) /\ (Runs(j)' <=> Runs(from(j)))
  BY <1>5 DEF EndOf, Runs
<1>9. EntriesAreOrdered'
  <2>1. \A i, j \in Entries' : i < j => startEventQueue'[i].stepID < startEventQueue'[j].stepID
    BY <1>1, <1>5, <1>7 DEF EntriesAreOrdered
  <2>2. ASSUME NEW i \in Entries'
        PROVE  /\ EndOf(i)' \in StepIDs'
               /\ StepOf(EndOf(i))' = [spec |-> "END", act |-> startEventQueue'[i].actID]
               /\ startEventQueue'[i].minDuration = MinDuration[startEventQueue'[i].actID]
    <3>1. planLength' = planLength /\ steps' = steps
      BY DEF vars, stateVars
    <3>2. StepIDs' = StepIDs
      BY <3>1 DEF StepIDs
    <3>3. StepOf(EndOf(i))' = StepOf(EndOf(from(i)))
      BY <1>8, <3>1 DEF StepOf
    <3> QED BY <1>1, <1>5, <1>8, <3>2, <3>3 DEF EntriesAreOrdered
  <2> QED BY <2>1, <2>2 DEF EntriesAreOrdered
<1>10. EntriesAreRunning'
  <2> SUFFICES ASSUME NEW a \in Actions, NEW e \in Nat
               PROVE  e \in startedActions[a] <=>
                         \E j \in Entries' : Runs(j)' /\ startEventQueue'[j].actID = a
                                             /\ EndOf(j)' = e
    BY DEF EntriesAreRunning, vars, stateVars
  <2>1. e \in startedActions[a] <=>
           \E i \in Entries : Runs(i) /\ startEventQueue[i].actID = a /\ EndOf(i) = e
    BY <1>1 DEF EntriesAreRunning
  <2>2. ASSUME NEW i \in Entries, Runs(i), startEventQueue[i].actID = a, EndOf(i) = e
        PROVE  \E j \in Entries' : Runs(j)' /\ startEventQueue'[j].actID = a /\ EndOf(j)' = e
    BY <1>5, <1>6, <1>8, <2>2
  <2>3. ASSUME NEW j \in Entries', Runs(j)', startEventQueue'[j].actID = a, EndOf(j)' = e
        PROVE  \E i \in Entries : Runs(i) /\ startEventQueue[i].actID = a /\ EndOf(i) = e
    BY <1>5, <1>8, <2>3
  <2> QED BY <2>1, <2>2, <2>3
<1>11. pending'.timeSpec = "NONE"
  BY DEF Evaluated
<1>12. OthersArePending'
  <2>1. \A j \in Entries' : Runs(j)'
    BY <1>5, <1>8
  <2> QED BY <1>11, <2>1 DEF OthersArePending, Runs, EndPending
<1>13. NewEntryIsLast' /\ EndedEntryIsThere'
  BY <1>11 DEF NewEntryIsLast, EndedEntryIsThere
<1>14. NodeTypes'
  BY DEF NodeTypes, Snaps
<1>15. ASSUME NEW k \in Nat PROVE Withheld(k)' <=> Withheld(k) /\ k # EndOf(n)
  <2>1. \A i \in Entries : EndOf(i) = EndOf(n) => i = n
    BY <1>1, EndsDiffer
  <2>2. ASSUME NEW j \in Entries', EndOf(j)' = k
        PROVE  Withheld(k) /\ k # EndOf(n)
    BY <1>5, <1>8, <2>1, <2>2 DEF Withheld
  <2>3. ASSUME NEW i \in Entries, EndOf(i) = k, k # EndOf(n)
        PROVE  \E j \in Entries' : EndOf(j)' = k
    BY <1>6, <1>8, <2>3
  <2> QED BY <2>2, <2>3 DEF Withheld
<1> QED BY <1>2, <1>9, <1>10, <1>12, <1>13, <1>14, <1>15 DEF QueueInv

LEMMA EvaluationKeepsQueue ==
    ASSUME QueueInv, \A i \in Entries : Runs(i), Evaluate, UNCHANGED startEventQueue,
           plan' \in Seq(PlannedEvents)
    PROVE  QueueInv'
<1>1. UNCHANGED <<startEventQueue, startedActions, steps, planLength, vars>>
      /\ pending' = Evaluated
  BY DEF Evaluate, vars, stateVars
<1>2. TypeInv'
  BY <1>1, NextTypes DEF QueueInv
<1>3. NodeTypes'
  BY <1>1 DEF NodeTypes, Snaps, QueueInv
<1>4. StepIDs' = StepIDs /\ \A k \in StepIDs : StepOf(k)' = StepOf(k)
  BY <1>1 DEF StepIDs, StepOf
<1>5. pending'.timeSpec = "NONE"
  BY <1>1 DEF Evaluated
<1> QED BY <1>1, <1>2, <1>3, <1>4, <1>5, QueueKept

(* The events that evaluation appends are of the plan's type.              *)
LEMMA EventTypes ==
    ASSUME NEW t \in {"AT", "AT_START", "AT_END"}, NEW ref \in Actions \cup Nat,
           NEW pair \in Nat \cup {-1}, NEW d \in Nat \cup {-1}, NEW g \in BOOLEAN
    PROVE  Event(t, ref, pair, d, g) \in PlannedEvents
BY DEF Event, PlannedEvents

LEMMA SingleKeepsQueue ==
    ASSUME QueueInv, EvaluateTIL \/ EvaluateInstant
    PROVE  QueueInv' /\ \A i \in Entries : Runs(i)
<1>1. NodeTypes /\ OthersArePending
  BY DEF QueueInv
<1>2. \A i \in Entries : startEventQueue[i].actID \in Durative
                         /\ startEventQueue[i].minDuration \in Nat
  BY <1>1, QueueShape DEF EventRecords
<1>3. pending.timeSpec # "AT_END"
      /\ (pending.timeSpec = "AT_START" => pending.ref \notin Durative)
  BY DEF EvaluateTIL, EvaluateInstant
<1>4. \A i \in Entries : Runs(i)
  BY <1>1, <1>2, <1>3 DEF OthersArePending, SkipPending, EndPending, Runs
<1>5. plan \in Seq(PlannedEvents) /\ pending \in Snaps
  BY <1>1 DEF NodeTypes
<1>6. plan' \in Seq(PlannedEvents)
  <2>1. CASE EvaluateTIL
    <3>1. pending.ref \in Nat
      BY <1>5, <2>1 DEF EvaluateTIL, Snaps, Evaluated
    <3>2. Event("AT", pending.ref, -1, -1, TRUE) \in PlannedEvents
      BY <3>1, EventTypes
    <3>3. plan' = Append(plan, Event("AT", pending.ref, -1, -1, TRUE))
      BY <2>1 DEF EvaluateTIL
    <3> HIDE DEF PlannedEvents
    <3> QED BY <1>5, <3>2, <3>3, AppendProperties
  <2>2. CASE EvaluateInstant
    <3>1. pending.ref \in Actions
      BY <1>5, <2>2 DEF EvaluateInstant, Snaps, Evaluated
    <3>2. PICK d \in BackDurations :
             plan' = Append(plan, Event("AT_START", pending.ref, -1, d, TRUE))
      BY <2>2 DEF EvaluateInstant
    <3>3. d \in Nat
      <4>1. CASE startEventQueue = <<>>
        BY <3>2, <4>1, DurationAssumption DEF BackDurations
      <4>2. CASE startEventQueue # <<>>
        <5>1. Len(startEventQueue) \in Entries
          BY <1>1, <4>2, QueueShape, EmptySeq DEF NodeTypes
        <5> QED BY <1>2, <3>2, <4>2, <5>1 DEF BackDurations, NewestEvent, Last
      <4> QED BY <4>1, <4>2
    <3>4. Event("AT_START", pending.ref, -1, d, TRUE) \in PlannedEvents
      BY <3>1, <3>3, EventTypes
    <3> HIDE DEF PlannedEvents
    <3> QED BY <1>5, <3>2, <3>4, AppendProperties
  <2> QED BY <2>1, <2>2
<1>7. Evaluate /\ UNCHANGED startEventQueue
  BY DEF EvaluateTIL, EvaluateInstant
<1>8. QueueInv'
  BY <1>4, <1>6, <1>7, EvaluationKeepsQueue
<1> QED BY <1>4, <1>8

(* The two events of a start.                                              *)
StartEvents(a) ==
    <<Event("AT_START", a, planLength - 1, MinDuration[a], TRUE),
      Event("AT_END", a, planLength - 2, MinDuration[a], CanSkipToEnd(a))>>

(* The back of the queue is the entry of the action that starts.           *)
LEMMA StartReadsItsOwnEntry ==
    ASSUME QueueInv, NewSteps, EvaluateStart
    PROVE  /\ pending.ref \in Durative /\ pending.timeSpec = "AT_START"
           /\ Len(startEventQueue) \in Entries
           /\ startEventQueue[Len(startEventQueue)].actID = pending.ref
           /\ EndOf(Len(startEventQueue)) = planLength - 1
           /\ \A i \in Entries : i # Len(startEventQueue) => Runs(i)
           /\ ~startEventQueue[Len(startEventQueue)].terminated
           /\ plan' = plan \o StartEvents(pending.ref)
           /\ StartEvents(pending.ref) \in Seq(PlannedEvents)
           /\ Len(StartEvents(pending.ref)) = 2
<1> DEFINE a == pending.ref
           n == Len(startEventQueue)
<1>1. NodeTypes /\ OthersArePending /\ NewEntryIsLast /\ EntriesAreOrdered
      /\ planLength \in Nat
  BY DEF QueueInv, TypeInv, TypeOK
<1>2. a \in Durative /\ pending.timeSpec = "AT_START"
  BY DEF EvaluateStart
<1>3. startEventQueue # <<>> /\ startEventQueue[n].actID = a
      /\ startEventQueue[n].stepID = planLength - 2
  BY <1>1, <1>2 DEF NewEntryIsLast
<1>4. n \in Entries
  BY <1>1, <1>3, QueueShape, EmptySeq DEF NodeTypes
<1>5. EndOf(n) = planLength - 1
  BY <1>1, <1>3 DEF EndOf, PendingEnd
<1>6. \A i \in Entries : i # n => Runs(i)
  <2>1. \A i \in Entries : ~EndPending(i)
    BY <1>2 DEF EndPending
  <2> QED BY <1>1, <2>1 DEF OthersArePending, SkipPending, Runs
<1>7. ~startEventQueue[n].terminated
  BY <1>1, <1>2, <1>4 DEF OthersArePending, EndPending
<1>8. NewestEvent.minDuration = MinDuration[a]
  BY <1>1, <1>3, <1>4 DEF NewestEvent, Last, EntriesAreOrdered
<1>9. plan' = plan \o StartEvents(a)
  BY <1>8 DEF EvaluateStart, StartEvents
<1>10. planLength - 1 \in Nat /\ planLength - 2 \in Nat
  BY <1>1, <1>2 DEF NewSteps
<1>11. StartEvents(a) \in Seq(PlannedEvents)
  <2>1. a \in Actions \cup Nat /\ MinDuration[a] \in Nat \cup {-1}
    BY <1>2, DomainAssumption, DurationAssumption
  <2>2. CanSkipToEnd(a) \in BOOLEAN /\ TRUE \in BOOLEAN
    BY DEF CanSkipToEnd
  <2>3. /\ Event("AT_START", a, planLength - 1, MinDuration[a], TRUE) \in PlannedEvents
        /\ Event("AT_END", a, planLength - 2, MinDuration[a], CanSkipToEnd(a)) \in PlannedEvents
    BY <1>10, <2>1, <2>2, EventTypes
  <2>4. \A r, q \in PlannedEvents : <<r, q>> \in Seq(PlannedEvents)
    OBVIOUS
  <2> QED BY <2>3, <2>4, Zenon DEF StartEvents
<1>12. Len(StartEvents(a)) = 2
  BY DEF StartEvents
<1> QED BY <1>2, <1>3, <1>4, <1>5, <1>6, <1>7, <1>9, <1>11, <1>12

LEMMA StartSettlesQueue ==
    ASSUME QueueInv, NewSteps, EvaluateStart
    PROVE  /\ QueueInv'
           /\ \A k \in Nat : Withheld(k)' <=>
                 Withheld(k) /\ ~(CanSkipToEnd(pending.ref) /\ k = planLength - 1)
<1> DEFINE a == pending.ref
           n == Len(startEventQueue)
<1>1. /\ n \in Entries /\ startEventQueue[n].actID = a /\ EndOf(n) = planLength - 1
      /\ \A i \in Entries : i # n => Runs(i)
      /\ ~startEventQueue[n].terminated
      /\ plan' = plan \o StartEvents(a) /\ StartEvents(a) \in Seq(PlannedEvents)
  BY StartReadsItsOwnEntry
<1>2. startEventQueue \in Seq(EventRecords) /\ plan \in Seq(PlannedEvents)
  BY DEF QueueInv, NodeTypes
<1>3. plan' \in Seq(PlannedEvents)
  <2> HIDE DEF PlannedEvents
  <2> QED BY <1>1, <1>2, ConcatProperties
<1>4. Evaluate
  BY DEF EvaluateStart
<1>5. CASE CanSkipToEnd(a)
  <2>1. startEventQueue' = Front(startEventQueue)
    BY <1>5 DEF EvaluateStart
  <2>2. n \in Nat /\ n \in 1..n /\ startEventQueue # <<>>
    BY <1>1, QueueShape, EmptySeq DEF QueueInv
  <2>3. /\ startEventQueue' \in Seq(EventRecords) /\ Len(startEventQueue') = n - 1
        /\ \A j \in 1..n - 1 : startEventQueue'[j] = startEventQueue[j]
    <3> HIDE DEF EventRecords
    <3> QED BY <1>2, <2>1, <2>2, FrontProperties
  <2>4. \A j \in 1..n - 1 : j < n
    BY <2>2
  <2>5. ~Runs(n)
    BY <1>1, <1>5 DEF Runs
  <2>6. UNCHANGED vars /\ pending' = Evaluated
    BY <1>4 DEF Evaluate
  <2>7. \A j \in 1..n - 1 : startEventQueue'[j] = IF j < n THEN startEventQueue[j]
                                                  ELSE startEventQueue[j + 1]
    BY <2>3, <2>4
  <2>8. QueueInv' /\ \A k \in Nat : Withheld(k)' <=> Withheld(k) /\ k # EndOf(n)
    BY <1>1, <1>3, <2>3, <2>5, <2>6, <2>7, RemovalKeepsQueue
  <2> QED BY <1>1, <1>5, <2>8
<1>6. CASE ~CanSkipToEnd(a)
  <2>1. Runs(n)
    BY <1>1, <1>6 DEF Runs
  <2>2. \A i \in Entries : Runs(i)
    BY <1>1, <2>1
  <2>3. UNCHANGED startEventQueue
    BY <1>6 DEF EvaluateStart
  <2>4. QueueInv'
    BY <1>3, <1>4, <2>2, <2>3, EvaluationKeepsQueue
  <2>5. \A k \in Nat : Withheld(k)' <=> Withheld(k)
    BY <2>3 DEF Withheld, Entries, EndOf
  <2> QED BY <1>6, <2>4, <2>5
<1> QED BY <1>5, <1>6

(* Plan t is plan s, with the effects of the event at place i.             *)
EffectsGiven(s, i, t) ==
    /\ t \in Seq(PlannedEvents) /\ Len(t) = Len(s)
    /\ \A j \in 1..Len(s) :
          /\ t[j].timeSpec = s[j].timeSpec /\ t[j].ref = s[j].ref
          /\ t[j].pairWithStep = s[j].pairWithStep
          /\ t[j].minDuration = s[j].minDuration
          /\ j # i => t[j].getEffects = s[j].getEffects
          /\ j = i => t[j].getEffects = TRUE
LEMMA GivingEffects ==
    ASSUME NEW s \in Seq(PlannedEvents), NEW i
    PROVE  EffectsGiven(s, i, [s EXCEPT ![i].getEffects = TRUE])
<1> DEFINE t == [s EXCEPT ![i].getEffects = TRUE]
           r == [s[i] EXCEPT !.getEffects = TRUE]
<1>1. Len(s) \in Nat /\ s \in [1..Len(s) -> PlannedEvents]
  BY LenProperties
<1>2. CASE i \in 1..Len(s)
  <2>1. s[i] \in PlannedEvents
    BY <1>1, <1>2
  <2>2. /\ r \in PlannedEvents
        /\ r.timeSpec = s[i].timeSpec /\ r.ref = s[i].ref
        /\ r.pairWithStep = s[i].pairWithStep /\ r.minDuration = s[i].minDuration
        /\ r.getEffects = TRUE
    BY <2>1 DEF PlannedEvents
  <2>3. t = [s EXCEPT ![i] = r]
    OBVIOUS
  <2> HIDE DEF t, r, PlannedEvents
  <2>4. t \in Seq(PlannedEvents) /\ Len(t) = Len(s)
        /\ \A j \in 1..Len(s) : t[j] = IF j = i THEN r ELSE s[j]
    BY <1>2, <2>2, <2>3, ExceptSeq
  <2> QED BY <2>2, <2>4 DEF t, EffectsGiven
<1>3. CASE i \notin 1..Len(s)
  <2>1. t = s
    <3>1. t = [j \in 1..Len(s) |-> s[j]]
      BY <1>1, <1>3
    <3> HIDE DEF t
    <3> QED BY <1>1, <3>1
  <2> QED BY <1>3, <2>1 DEF EffectsGiven
<1> QED BY <1>2, <1>3

(* The entry that is removed is the one terminated before.                 *)
LEMMA EndedEntryIsOldest ==
    ASSUME QueueInv, pending.timeSpec = "AT_END"
    PROVE  /\ FrontEntry(pending.ref) \in Entries /\ EndPending(FrontEntry(pending.ref))
           /\ \A i \in Entries : EndPending(i) => i = FrontEntry(pending.ref)
<1>1. NodeTypes /\ OthersArePending /\ EndedEntryIsThere
  BY DEF QueueInv
<1>3. PICK m \in Entries : EndPending(m)
  BY <1>1 DEF EndedEntryIsThere
<1>4. /\ FrontEntry(pending.ref) \in Entries
      /\ startEventQueue[FrontEntry(pending.ref)].actID = pending.ref
      /\ \A j \in Entries : startEventQueue[j].actID = pending.ref
                            => FrontEntry(pending.ref) <= j
  BY <1>1, <1>3, FrontEntryIsOldest DEF EndPending
<1>5. \A i \in Entries : i \in Nat
  BY <1>1, QueueShape
<1>6. EndPending(FrontEntry(pending.ref))
  BY <1>4 DEF EndPending
<1>7. ASSUME NEW i \in Entries, EndPending(i)
      PROVE  i = FrontEntry(pending.ref)
  <2>1. i <= FrontEntry(pending.ref) /\ FrontEntry(pending.ref) <= i
    BY <1>4, <1>7 DEF EndPending
  <2> QED BY <1>4, <1>5, <2>1
<1> QED BY <1>4, <1>6, <1>7

LEMMA EndReadsItsOwnEntry ==
    ASSUME QueueInv, EvaluateEnd
    PROVE  /\ pending.timeSpec = "AT_END"
           /\ FrontEntry(pending.ref) \in Entries
           /\ ~Runs(FrontEntry(pending.ref))
           /\ \A i \in Entries : i # FrontEntry(pending.ref) => Runs(i)
<1>1. OthersArePending /\ pending.timeSpec = "AT_END"
  BY DEF QueueInv, EvaluateEnd
<1>2. \A i \in Entries : ~SkipPending(i)
  BY <1>1 DEF SkipPending
<1> QED BY <1>1, <1>2, EndedEntryIsOldest DEF OthersArePending, Runs

LEMMA EndSettlesQueue ==
    ASSUME QueueInv, EvaluateEnd
    PROVE  /\ QueueInv'
           /\ \A k \in Nat : Withheld(k)' <=>
                 Withheld(k) /\ k # EndOf(FrontEntry(pending.ref))
<1>n. PICK n : n = FrontEntry(pending.ref)
  OBVIOUS
<1>1. n \in Entries /\ ~Runs(n) /\ \A i \in Entries : i # n => Runs(i)
  BY <1>n, EndReadsItsOwnEntry
<1>2. startEventQueue \in Seq(EventRecords) /\ plan \in Seq(PlannedEvents)
      /\ n \in 1..Len(startEventQueue)
  BY <1>1, QueueShape DEF QueueInv, NodeTypes
<1>3. plan' \in Seq(PlannedEvents)
  <2>1. plan' = [plan EXCEPT ![startEventQueue[n].stepID + 2].getEffects = TRUE]
    BY <1>n DEF EvaluateEnd
  <2> HIDE DEF PlannedEvents
  <2>2. EffectsGiven(plan, startEventQueue[n].stepID + 2, plan')
    BY <1>2, <2>1, GivingEffects
  <2> QED BY <2>2 DEF EffectsGiven
<1>4. startEventQueue' = RemoveAt(startEventQueue, n)
      /\ UNCHANGED vars /\ pending' = Evaluated
  BY <1>n DEF EvaluateEnd, Evaluate
<1>5. /\ startEventQueue' \in Seq(EventRecords)
      /\ Len(startEventQueue') = Len(startEventQueue) - 1
      /\ \A j \in 1..Len(startEventQueue) - 1 :
            startEventQueue'[j] = IF j < n THEN startEventQueue[j]
                                  ELSE startEventQueue[j + 1]
  <2> HIDE DEF EventRecords
  <2> QED BY <1>2, <1>4, RemoveAtProperties
<1>6. QueueInv' /\ \A k \in Nat : Withheld(k)' <=> Withheld(k) /\ k # EndOf(n)
  BY <1>1, <1>3, <1>4, <1>5, RemovalKeepsQueue
<1> QED BY <1>n, <1>6

-----------------------------------------------------------------------------
(* The plan. Making a child leaves the events alone, and their steps.      *)
LEMMA ChildKeepsEvents ==
    ASSUME PlanInv, pending = Evaluated, UNCHANGED plan,
           NEW k, NEW pre, NEW dels, NEW adds, NEW more, NEW recs,
           Applies(k, pre, dels, adds, more, recs),
           \A i \in StepIDs : Withheld(i)' <=> Withheld(i)
    PROVE  \A i \in 0..Len(plan) - 1 : EventMatches(i)'
<1>1. TypeInv
  BY DEF PlanInv, QueueInv
<1>2. Len(plan) = planLength /\ 0..Len(plan) - 1 = StepIDs
  <2>1. pending.timeSpec = "NONE" /\ planLength \in Nat
    BY <1>1 DEF Evaluated, TypeInv, TypeOK
  <2>2. Unwritten = 0
    BY <2>1 DEF Unwritten
  <2>3. Len(plan) = planLength - 0
    BY <2>2 DEF PlanInv
  <2> QED BY <2>1, <2>3 DEF StepIDs
<1>3. \A i \in StepIDs : StepOf(i)' = StepOf(i)
  BY <1>1, ApplyingKeepsSteps
<1>4. stepsBefore \subseteq stepsBefore'
  BY DEF Applies, Order
<1> SUFFICES ASSUME NEW i \in StepIDs PROVE EventMatches(i)'
  BY <1>2
<1>5. EventMatches(i)
  BY <1>2 DEF PlanInv
<1>6. StepOf(i)' = StepOf(i) /\ (Withheld(i)' <=> Withheld(i)) /\ plan' = plan
  BY <1>3
<1> QED BY <1>4, <1>5, <1>6 DEF EventMatches

(* An event whose step, record and end stay as they are still matches.     *)
LEMMA EvaluationKeepsEvent ==
    ASSUME UNCHANGED vars, NEW k \in Nat, EventMatches(k),
           Withheld(k)' <=> Withheld(k),
           \A i \in 0..k : plan'[i + 1] = plan[i + 1]
    PROVE  EventMatches(k)'
<1>1. StepOf(k)' = StepOf(k) /\ stepsBefore' = stepsBefore
  BY DEF vars, stateVars, StepOf
<1>2. plan'[k + 1] = plan[k + 1]
  OBVIOUS
<1>3. ASSUME plan[k + 1].timeSpec = "AT_END"
      PROVE  plan'[plan[k + 1].pairWithStep + 1] = plan[plan[k + 1].pairWithStep + 1]
  <2>1. plan[k + 1].pairWithStep \in 0..k - 1
    BY <1>3 DEF EventMatches
  <2>2. plan[k + 1].pairWithStep \in 0..k
    BY <2>1
  <2> QED BY <2>2
<1> QED BY <1>1, <1>2, <1>3 DEF EventMatches

(* Only ends are withheld.                                                 *)
LEMMA WithheldAreEnds ==
    ASSUME QueueInv, NEW k, Withheld(k)
    PROVE  k \in StepIDs /\ StepOf(k).spec = "END"
<1>1. PICK i \in Entries : EndOf(i) = k
  BY DEF Withheld
<1>2. EndOf(i) \in StepIDs /\ StepOf(EndOf(i)).spec = "END"
  BY DEF QueueInv, EntriesAreOrdered
<1> QED BY <1>1, <1>2

LEMMA SingleKeepsPlan ==
    ASSUME PlanInv, EvaluateTIL \/ EvaluateInstant
    PROVE  PlanInv'
<1>p. PICK p : p = planLength
  OBVIOUS
<1>1. QueueInv /\ QueueInv' /\ NewSteps /\ plan \in Seq(PlannedEvents) /\ plan' \in Seq(PlannedEvents)
  <2>1. QueueInv /\ NewSteps
    BY DEF PlanInv
  <2> QED BY <2>1, SingleKeepsQueue DEF QueueInv, NodeTypes
<1>2. /\ UNCHANGED vars /\ UNCHANGED startEventQueue /\ pending' = Evaluated
      /\ p \in Nat /\ planLength' = p /\ \A k : StepOf(k)' = StepOf(k)
  BY <1>1, <1>p DEF EvaluateTIL, EvaluateInstant, Evaluate, vars, stateVars, QueueInv,
     TypeInv, TypeOK, StepOf
<1>3. PICK event : /\ plan' = Append(plan, event)
                   /\ event.getEffects = TRUE /\ event.timeSpec # "AT_END"
                   /\ event.timeSpec = "AT" <=> pending.timeSpec = "AT"
  <2>1. CASE EvaluateTIL
    <3>1. pending.timeSpec = "AT"
          /\ plan' = Append(plan, Event("AT", pending.ref, -1, -1, TRUE))
      BY <2>1 DEF EvaluateTIL
    <3> QED BY <3>1 DEF Event
  <2>2. CASE EvaluateInstant
    <3>1. PICK d : pending.timeSpec = "AT_START"
                   /\ plan' = Append(plan, Event("AT_START", pending.ref, -1, d, TRUE))
      BY <2>2 DEF EvaluateInstant
    <3>2. LET e == Event("AT_START", pending.ref, -1, d, TRUE)
          IN e.getEffects = TRUE /\ e.timeSpec = "AT_START"
      BY DEF Event
    <3> QED BY <3>1, <3>2
  <2> QED BY <2>1, <2>2
<1>4. /\ Len(plan) = p - 1 /\ p - 1 \in Nat
      /\ StepOf(p - 1).spec = "TIL" <=> pending.timeSpec = "AT"
      /\ StepOf(p - 1).spec # "END"
  <2>1. CASE EvaluateTIL
    <3>1. Unwritten = 1 /\ p > 0 /\ StepOf(p - 1).spec = "TIL" /\ pending.timeSpec = "AT"
      BY <1>1, <1>p, <2>1 DEF EvaluateTIL, Unwritten, NewSteps
    <3> QED BY <1>2, <1>p, <3>1 DEF PlanInv
  <2>2. CASE EvaluateInstant
    <3>1. /\ Unwritten = 1 /\ p > 0 /\ StepOf(p - 1).spec = "INSTANT"
          /\ pending.timeSpec # "AT"
      BY <1>1, <1>p, <2>2 DEF EvaluateInstant, Unwritten, NewSteps
    <3> QED BY <1>2, <1>p, <3>1 DEF PlanInv
  <2> QED BY <2>1, <2>2
<1>5. /\ Len(plan') = p /\ plan'[p] = event
      /\ \A i \in 1..p - 1 : plan'[i] = plan[i]
  <2>1. plan \o <<event>> = plan'
    BY <1>1, <1>3, AppendIsConcat
  <2>2. Len(plan') = Len(plan) + 1 /\ plan'[Len(plan) + 1] = event
        /\ \A i \in 1..Len(plan) : plan'[i] = plan[i]
    BY <1>1, <1>3
  <2> QED BY <1>2, <1>4, <2>2
<1>6. \A k : Withheld(k)' <=> Withheld(k)
  BY <1>2 DEF Withheld, Entries, EndOf
<1>7. ASSUME NEW k \in 0..p - 2 PROVE EventMatches(k)'
  <2>1. k \in Nat /\ EventMatches(k) /\ \A i \in 0..k : i + 1 \in 1..p - 1
    <3>1. k \in 0..Len(plan) - 1
      BY <1>2, <1>4
    <3> QED BY <1>2, <3>1 DEF PlanInv
  <2>2. \A i \in 0..k : plan'[i + 1] = plan[i + 1]
    BY <1>5, <2>1
  <2> QED BY <1>2, <1>6, <2>1, <2>2, EvaluationKeepsEvent
<1>8. EventMatches(p - 1)'
  <2>1. plan'[(p - 1) + 1] = event
    BY <1>2, <1>5
  <2>2. ~Withheld(p - 1)'
    BY <1>1, <1>4, <1>6, WithheldAreEnds
  <2>3. StepOf(p - 1)' = StepOf(p - 1)
    BY <1>2
  <2> QED BY <1>3, <1>4, <2>1, <2>2, <2>3 DEF EventMatches
<1>9. pending'.timeSpec = "NONE"
  BY <1>2 DEF Evaluated
<1>10. Unwritten' = 0 /\ NewSteps'
  BY <1>9 DEF Unwritten, NewSteps
<1>11. \A k \in 0..p - 1 : EventMatches(k)'
  <2>1. \A k \in 0..p - 1 : k \in 0..p - 2 \/ k = p - 1
    BY <1>2
  <2> QED BY <1>7, <1>8, <2>1
<1>12. Len(plan)' = planLength' - Unwritten' /\ 0..Len(plan)' - 1 = 0..p - 1
  BY <1>2, <1>5, <1>10
<1> QED BY <1>1, <1>10, <1>11, <1>12 DEF PlanInv

LEMMA StartKeepsPlan ==
    ASSUME PlanInv, EvaluateStart
    PROVE  PlanInv'
<1>a. PICK a : a = pending.ref
  OBVIOUS
<1>m. PICK m : m = planLength - 2
  OBVIOUS
<1>1. QueueInv /\ NewSteps /\ plan \in Seq(PlannedEvents) /\ planLength \in Nat
  BY DEF PlanInv, QueueInv, NodeTypes, TypeInv, TypeOK
<1>2. /\ a \in Durative /\ pending.timeSpec = "AT_START"
      /\ Len(startEventQueue) \in Entries
      /\ EndOf(Len(startEventQueue)) = planLength - 1
      /\ plan' = plan \o StartEvents(a) /\ StartEvents(a) \in Seq(PlannedEvents)
      /\ Len(StartEvents(a)) = 2
  BY <1>1, <1>a, StartReadsItsOwnEntry
<1>3. QueueInv' /\ \A k \in Nat : Withheld(k)' <=>
                      Withheld(k) /\ ~(CanSkipToEnd(a) /\ k = planLength - 1)
  BY <1>1, <1>a, StartSettlesQueue
<1>4. /\ m \in Nat /\ planLength = m + 2 /\ planLength - 1 = m + 1
      /\ StepOf(m) = [spec |-> "START", act |-> a]
      /\ StepOf(m + 1) = [spec |-> "END", act |-> a]
      /\ <<m, m + 1>> \in stepsBefore
  <2>1. /\ planLength > 1
        /\ StepOf(planLength - 2) = [spec |-> "START", act |-> a]
        /\ StepOf(planLength - 1) = [spec |-> "END", act |-> a]
        /\ <<planLength - 2, planLength - 1>> \in stepsBefore
    BY <1>1, <1>2, <1>a DEF NewSteps
  <2>2. planLength = m + 2 /\ planLength - 1 = m + 1 /\ m \in Nat
    BY <1>1, <1>m, <2>1
  <2> QED BY <1>m, <2>1, <2>2
<1>5. /\ UNCHANGED vars /\ pending' = Evaluated /\ planLength' = m + 2
      /\ \A k : StepOf(k)' = StepOf(k)
      /\ stepsBefore' = stepsBefore
  BY <1>4 DEF EvaluateStart, Evaluate, vars, stateVars, StepOf
<1>6. Len(plan) = m
  <2>1. Unwritten = 2
    BY <1>2, <1>a DEF Unwritten
  <2> QED BY <1>1, <1>4, <2>1 DEF PlanInv
<1>7. /\ StartEvents(a)[1] = Event("AT_START", a, m + 1, MinDuration[a], TRUE)
      /\ StartEvents(a)[2] = Event("AT_END", a, m, MinDuration[a], CanSkipToEnd(a))
  BY <1>4, <1>m DEF StartEvents
<1>8. /\ Len(plan') = m + 2
      /\ \A i \in 1..m : plan'[i] = plan[i]
      /\ plan'[m + 1] = StartEvents(a)[1] /\ plan'[m + 2] = StartEvents(a)[2]
  <2>1. /\ Len(plan') = m + 2
        /\ \A i \in 1..m + 2 :
              plan'[i] = IF i <= m THEN plan[i] ELSE StartEvents(a)[i - m]
    <3> DEFINE new == StartEvents(a)
    <3> HIDE DEF PlannedEvents, new
    <3>1. /\ Len(plan \o new) = Len(plan) + Len(new)
          /\ \A i \in 1..Len(plan) + Len(new) : (plan \o new)[i] =
                IF i <= Len(plan) THEN plan[i] ELSE new[i - Len(plan)]
      BY <1>1, <1>2, ConcatProperties DEF new
    <3>2. plan' = plan \o new /\ Len(new) = 2
      BY <1>2 DEF new
    <3>3. /\ Len(plan') = m + 2
          /\ \A i \in 1..m + 2 : plan'[i] = IF i <= m THEN plan[i] ELSE new[i - m]
      BY <1>6, <3>1, <3>2
    <3> QED BY <3>3 DEF new
  <2> QED BY <1>4, <2>1
<1>9. ASSUME NEW k \in 0..m - 1 PROVE EventMatches(k)'
  <2>1. k \in Nat /\ EventMatches(k) /\ k # planLength - 1 /\ \A i \in 0..k : i + 1 \in 1..m
    BY <1>4, <1>6 DEF PlanInv
  <2>2. \A i \in 0..k : plan'[i + 1] = plan[i + 1]
    BY <1>8, <2>1
  <2>3. Withheld(k)' <=> Withheld(k)
    BY <1>3, <2>1
  <2> QED BY <1>5, <2>1, <2>2, <2>3, EvaluationKeepsEvent
<1>10. EventMatches(m)'
  <2>1. plan'[m + 1].timeSpec = "AT_START" /\ plan'[m + 1].getEffects = TRUE
    BY <1>7, <1>8 DEF Event
  <2>2. ~Withheld(m)'
    <3>1. ~Withheld(m)
      BY <1>1, <1>4, WithheldAreEnds
    <3> QED BY <1>3, <1>4, <3>1
  <2>3. StepOf(m)'.spec = "START"
    BY <1>4, <1>5
  <2> QED BY <2>1, <2>2, <2>3 DEF EventMatches
<1>11. EventMatches(m + 1)'
  <2>1. /\ plan'[(m + 1) + 1].timeSpec = "AT_END" /\ plan'[(m + 1) + 1].ref = a
        /\ plan'[(m + 1) + 1].pairWithStep = m
        /\ plan'[(m + 1) + 1].minDuration = MinDuration[a]
        /\ plan'[(m + 1) + 1].getEffects = CanSkipToEnd(a)
        /\ plan'[m + 1].pairWithStep = m + 1
        /\ plan'[m + 1].minDuration = MinDuration[a]
    <3>1. (m + 1) + 1 = m + 2
      BY <1>4
    <3> QED BY <1>7, <1>8, <3>1 DEF Event
  <2>2. Withheld(m + 1)' <=> ~CanSkipToEnd(a)
    <3>1. Withheld(m + 1)
      BY <1>2, <1>4 DEF Withheld
    <3> QED BY <1>3, <1>4, <3>1
  <2>3. StepOf(m + 1)'.spec = "END" /\ StepOf(m + 1)'.act = a
    BY <1>4, <1>5
  <2>4. m \in 0..(m + 1) - 1 /\ <<m, m + 1>> \in stepsBefore'
    BY <1>4, <1>5
  <2>5. plan'[(m + 1) + 1].getEffects <=> ~Withheld(m + 1)'
    BY <2>1, <2>2
  <2> QED BY <1>2, <2>1, <2>3, <2>4, <2>5 DEF EventMatches
<1>12. pending'.timeSpec = "NONE"
  BY <1>5 DEF Evaluated
<1>13. Unwritten' = 0 /\ NewSteps'
  BY <1>12 DEF Unwritten, NewSteps
<1>14. \A k \in 0..m + 1 : EventMatches(k)'
  <2>1. \A k \in 0..m + 1 : k \in 0..m - 1 \/ k = m \/ k = m + 1
    BY <1>4
  <2> QED BY <1>9, <1>10, <1>11, <2>1
<1>15. Len(plan)' = planLength' - Unwritten' /\ 0..Len(plan)' - 1 = 0..m + 1
  BY <1>4, <1>5, <1>8, <1>13
<1> QED BY <1>3, <1>13, <1>14, <1>15 DEF PlanInv

(* The effects that an end gives are those of the entry it settles.        *)
LEMMA EndKeepsPlan ==
    ASSUME PlanInv, EvaluateEnd
    PROVE  PlanInv'
<1>e. PICK e : e = EndOf(FrontEntry(pending.ref))
  OBVIOUS
<1>1. QueueInv /\ plan \in Seq(PlannedEvents) /\ planLength \in Nat
      /\ pending.timeSpec = "AT_END"
  BY DEF PlanInv, QueueInv, NodeTypes, TypeInv, TypeOK, EvaluateEnd
<1>2. QueueInv' /\ \A k \in Nat : Withheld(k)' <=> Withheld(k) /\ k # e
  BY <1>1, <1>e, EndSettlesQueue
<1>3. e \in Nat /\ plan' = [plan EXCEPT ![e + 1].getEffects = TRUE]
  <2>1. FrontEntry(pending.ref) \in Entries
    BY <1>1, EndReadsItsOwnEntry
  <2>2. startEventQueue[FrontEntry(pending.ref)].stepID \in Nat
    BY <1>1, <2>1, QueueShape DEF QueueInv
  <2>3. startEventQueue[FrontEntry(pending.ref)].stepID + 2 = e + 1 /\ e \in Nat
    BY <1>e, <2>2 DEF EndOf, PendingEnd
  <2>4. plan' = [plan EXCEPT ![startEventQueue[FrontEntry(pending.ref)].stepID + 2].getEffects
                                = TRUE]
    BY DEF EvaluateEnd
  <2> QED BY <2>3, <2>4
<1>4. /\ Len(plan') = Len(plan) /\ Len(plan) \in Nat
      /\ \A j \in 1..Len(plan) :
            /\ plan'[j].timeSpec = plan[j].timeSpec /\ plan'[j].ref = plan[j].ref
            /\ plan'[j].pairWithStep = plan[j].pairWithStep
            /\ plan'[j].minDuration = plan[j].minDuration
            /\ j # e + 1 => plan'[j].getEffects = plan[j].getEffects
            /\ j = e + 1 => plan'[j].getEffects = TRUE
  <2> HIDE DEF PlannedEvents
  <2>1. Len(plan) \in Nat
    BY <1>1, LenProperties
  <2>2. EffectsGiven(plan, e + 1, plan')
    BY <1>1, <1>3, GivingEffects
  <2> QED BY <2>1, <2>2 DEF EffectsGiven
<1>5. /\ UNCHANGED vars /\ pending' = Evaluated /\ planLength' = planLength
      /\ \A k : StepOf(k)' = StepOf(k)
      /\ stepsBefore' = stepsBefore
  BY DEF EvaluateEnd, Evaluate, vars, stateVars, StepOf
<1>6. ASSUME NEW k \in 0..Len(plan) - 1 PROVE EventMatches(k)'
  <2>1. EventMatches(k)
    BY DEF PlanInv
  <2>2. k \in Nat /\ k + 1 \in 1..Len(plan)
    BY <1>4
  <2>3. /\ plan'[k + 1].timeSpec = plan[k + 1].timeSpec /\ plan'[k + 1].ref = plan[k + 1].ref
        /\ plan'[k + 1].pairWithStep = plan[k + 1].pairWithStep
        /\ plan'[k + 1].minDuration = plan[k + 1].minDuration
    BY <1>4, <2>2
  <2>4. ASSUME plan[k + 1].timeSpec = "AT_END"
        PROVE  LET i == plan[k + 1].pairWithStep + 1
               IN /\ plan'[i].pairWithStep = plan[i].pairWithStep
                  /\ plan'[i].minDuration = plan[i].minDuration
    <3>1. plan[k + 1].pairWithStep \in 0..k - 1
      BY <2>1, <2>4 DEF EventMatches
    <3>2. plan[k + 1].pairWithStep + 1 \in 1..Len(plan)
      BY <1>4, <2>2, <3>1
    <3> QED BY <1>4, <3>2
  <2>5. plan'[k + 1].getEffects <=> ~Withheld(k)'
    <3>1. CASE k = e
      <4>1. plan'[k + 1].getEffects = TRUE
        BY <1>4, <2>2, <3>1
      <4> QED BY <1>2, <2>2, <3>1, <4>1
    <3>2. CASE k # e
      <4>1. k + 1 # e + 1
        BY <1>3, <2>2, <3>2
      <4>2. plan'[k + 1].getEffects = plan[k + 1].getEffects
        BY <1>4, <2>2, <4>1
      <4>3. plan[k + 1].getEffects <=> ~Withheld(k)
        BY <2>1 DEF EventMatches
      <4> QED BY <1>2, <2>2, <3>2, <4>2, <4>3
    <3> QED BY <3>1, <3>2
  <2>6. StepOf(k)' = StepOf(k)
    BY <1>5
  <2> QED BY <1>5, <2>1, <2>3, <2>4, <2>5, <2>6 DEF EventMatches
<1>7. pending'.timeSpec = "NONE"
  BY <1>5 DEF Evaluated
<1>8. Unwritten' = 0 /\ NewSteps' /\ Unwritten = 0
  BY <1>1, <1>7 DEF Unwritten, NewSteps
<1>9. Len(plan)' = planLength' - Unwritten'
  BY <1>4, <1>5, <1>8 DEF PlanInv
<1>10. \A k \in 0..Len(plan)' - 1 : EventMatches(k)'
  BY <1>4, <1>6
<1> QED BY <1>2, <1>8, <1>9, <1>10 DEF PlanInv

-----------------------------------------------------------------------------
(* A child brings the steps that evaluation is to write.                   *)
LEMMA ChildKeepsPlan ==
    ASSUME PlanInv,
           \/ ChildOfTIL
           \/ \E a \in Actions : ChildOfInstant(a) \/ ChildOfStart(a) \/ ChildOfEnd(a)
    PROVE  PlanInv'
<1>p. PICK p : p = planLength
  OBVIOUS
<1>1. QueueInv /\ TypeInv /\ p \in Nat /\ plan \in Seq(PlannedEvents)
      /\ pending = Evaluated /\ UNCHANGED plan
  BY <1>p DEF PlanInv, QueueInv, NodeTypes, TypeInv, TypeOK, ChildOfTIL, ChildOfInstant,
     ChildOfStart, ChildOfEnd, Child
<1>2. Len(plan) = p
  <2>1. pending.timeSpec = "NONE"
    BY <1>1 DEF Evaluated
  <2>2. Unwritten = 0
    BY <2>1 DEF Unwritten
  <2> QED BY <1>1, <1>p, <2>2 DEF PlanInv
<1>3. CASE ChildOfTIL
  <2> DEFINE r == [spec |-> "TIL", til |-> nextTIL + 1]
  <2>1. ApplyTIL /\ pending'.timeSpec = "AT" /\ UNCHANGED startEventQueue
    BY <1>3 DEF ChildOfTIL
  <2>2. Applies(p, <<>>, TILs[nextTIL + 1].dels, TILs[nextTIL + 1].adds, {}, <<r>>)
    BY <1>1, <1>p, <2>1, TILApplies
  <2>3. QueueInv' /\ \A k \in StepIDs : Withheld(k)' <=> Withheld(k)
    BY <1>1, <1>3, <2>1, TILKeepsQueue DEF Withheld, Entries, EndOf
  <2>4. \A i \in 0..Len(plan) - 1 : EventMatches(i)'
    BY <1>1, <2>2, <2>3, ChildKeepsEvents
  <2>5. planLength' = p + 1 /\ steps'[p + 1] = r
    <3>1. Len(<<r>>) = 1 /\ <<r>>[1] = r
      OBVIOUS
    <3>2. /\ planLength' = planLength + Len(<<r>>)
          /\ <<r>> \in Seq(StepRecords) /\ steps' = steps \o <<r>>
      BY <2>2 DEF Applies
    <3> HIDE DEF r
    <3>3. Len(<<r>>) >= 1 => steps'[planLength + 1] = <<r>>[1]
      BY <1>1, <3>2, Recording, Zenon DEF TypeInv
    <3>4. steps'[planLength + 1] = r
      BY <3>1, <3>3
    <3>5. planLength' = planLength + 1
      BY <3>1, <3>2
    <3> QED BY <1>p, <3>4, <3>5
  <2>6. Unwritten' = 1 /\ NewSteps'
    <3>1. planLength' - 1 = p /\ planLength' > 0
      BY <1>1, <2>5
    <3>2. StepOf(planLength - 1)' = steps'[p + 1]
      BY <3>1 DEF StepOf
    <3>3. StepOf(planLength - 1)'.spec = "TIL"
      BY <2>5, <3>2
    <3> QED BY <2>1, <3>1, <3>3 DEF Unwritten, NewSteps
  <2>7. Len(plan)' = planLength' - Unwritten'
    BY <1>1, <1>2, <2>5, <2>6
  <2> QED BY <1>1, <2>3, <2>4, <2>6, <2>7 DEF PlanInv
<1>4. ASSUME NEW a \in Actions, ChildOfInstant(a) PROVE PlanInv'
  <2> DEFINE r == [spec |-> "INSTANT", act |-> a]
  <2>1. ApplyInstant(a) /\ a \notin Durative /\ pending'.timeSpec = "AT_START"
        /\ pending'.ref = a /\ UNCHANGED startEventQueue
    BY <1>4 DEF ChildOfInstant, ApplyInstant
  <2>2. Applies(p, Op[a].startPre, Op[a].startDel, Op[a].startAdd, {}, <<r>>)
    BY <1>1, <1>p, <2>1, InstantApplies
  <2>3. QueueInv' /\ \A k \in StepIDs : Withheld(k)' <=> Withheld(k)
    BY <1>1, <1>4, <2>1, InstantKeepsQueue DEF Withheld, Entries, EndOf
  <2>4. \A i \in 0..Len(plan) - 1 : EventMatches(i)'
    BY <1>1, <2>2, <2>3, ChildKeepsEvents
  <2>5. planLength' = p + 1 /\ steps'[p + 1] = r
    <3>1. Len(<<r>>) = 1 /\ <<r>>[1] = r
      OBVIOUS
    <3>2. /\ planLength' = planLength + Len(<<r>>)
          /\ <<r>> \in Seq(StepRecords) /\ steps' = steps \o <<r>>
      BY <2>2 DEF Applies
    <3> HIDE DEF r
    <3>3. Len(<<r>>) >= 1 => steps'[planLength + 1] = <<r>>[1]
      BY <1>1, <3>2, Recording, Zenon DEF TypeInv
    <3>4. steps'[planLength + 1] = r
      BY <3>1, <3>3
    <3>5. planLength' = planLength + 1
      BY <3>1, <3>2
    <3> QED BY <1>p, <3>4, <3>5
  <2>6. Unwritten' = 1 /\ NewSteps'
    <3>1. planLength' - 1 = p /\ planLength' > 0
      BY <1>1, <2>5
    <3>2. StepOf(planLength - 1)' = steps'[p + 1]
      BY <3>1 DEF StepOf
    <3>3. StepOf(planLength - 1)'.spec = "INSTANT"
      BY <2>5, <3>2
    <3> QED BY <2>1, <3>1, <3>3 DEF Unwritten, NewSteps
  <2>7. Len(plan)' = planLength' - Unwritten'
    BY <1>1, <1>2, <2>5, <2>6
  <2> QED BY <1>1, <2>3, <2>4, <2>6, <2>7 DEF PlanInv
<1>5. ASSUME NEW a \in Actions, ChildOfStart(a) PROVE PlanInv'
  <2>1. (StartAction(a) \/ StartSkippable(a)) /\ a \in Durative
        /\ pending'.timeSpec = "AT_START" /\ pending'.ref = a
    BY <1>5, DomainAssumption DEF ChildOfStart, StartAction, StartSkippable, CanSkipToEnd
  <2>2. Applies(p, ProcessedStartPre(a), Op[a].startDel, Op[a].startAdd,
                {<<p, p + 1>>}, StartRecords(a))
    BY <1>1, <1>p, <2>1, StartApplies
  <2>3. QueueInv' /\ \A k \in StepIDs : Withheld(k)' <=> Withheld(k)
    BY <1>1, <1>5, StartKeepsQueue
  <2>4. \A i \in 0..Len(plan) - 1 : EventMatches(i)'
    BY <1>1, <2>2, <2>3, ChildKeepsEvents
  <2>5. /\ planLength' = p + 2 /\ <<p, p + 1>> \in stepsBefore'
        /\ steps'[p + 1] = [spec |-> "START", act |-> a]
        /\ steps'[p + 2] = [spec |-> "END", act |-> a]
    <3>1. Len(StartRecords(a)) = 2
      BY DEF StartRecords
    <3>2. planLength' = p + 2 /\ <<p, p + 1>> \in stepsBefore'
      BY <1>p, <2>2, <3>1 DEF Applies, Order
    <3> QED BY <1>1, <1>p, <2>2, <3>2, StartRecordsEnd
  <2>6. Unwritten' = 2 /\ NewSteps'
    <3>1. planLength' - 1 = p + 1 /\ planLength' - 2 = p /\ planLength' > 1
          /\ p + 1 + 1 = p + 2
      BY <1>1, <2>5
    <3>2. StepOf(planLength - 1)' = steps'[p + 2] /\ StepOf(planLength - 2)' = steps'[p + 1]
      BY <3>1 DEF StepOf
    <3> QED BY <2>1, <2>5, <3>1, <3>2 DEF Unwritten, NewSteps
  <2>7. Len(plan)' = planLength' - Unwritten'
    BY <1>1, <1>2, <2>5, <2>6
  <2> QED BY <1>1, <2>3, <2>4, <2>6, <2>7 DEF PlanInv
<1>6. ASSUME NEW a \in Actions, ChildOfEnd(a) PROVE PlanInv'
  <2>1. EndAction(a) /\ pending'.timeSpec = "AT_END"
    BY <1>6 DEF ChildOfEnd
  <2>2. Applies(Earliest(startedActions[a]), Op[a].endPre, Op[a].endDel, Op[a].endAdd,
                {}, <<>>)
    BY <1>1, <2>1, EndApplies
  <2>3. QueueInv' /\ \A k \in StepIDs : Withheld(k)' <=> Withheld(k)
    BY <1>1, <1>6, EndKeepsQueue
  <2>4. \A i \in 0..Len(plan) - 1 : EventMatches(i)'
    BY <1>1, <2>2, <2>3, ChildKeepsEvents
  <2>5. planLength' = p
    BY <1>p, <2>1 DEF EndAction
  <2>6. Unwritten' = 0 /\ NewSteps'
    BY <2>1 DEF Unwritten, NewSteps
  <2>7. Len(plan)' = planLength' - Unwritten'
    BY <1>1, <1>2, <2>5, <2>6
  <2> QED BY <1>1, <2>3, <2>4, <2>6, <2>7 DEF PlanInv
<1> QED BY <1>3, <1>4, <1>5, <1>6

LEMMA StutterKeepsPlan ==
    ASSUME PlanInv, UNCHANGED <<vars, nodeVars>>
    PROVE  PlanInv'
<1>1. /\ UNCHANGED vars /\ startEventQueue' = startEventQueue /\ plan' = plan
      /\ pending' = pending /\ planLength' = planLength /\ steps' = steps
      /\ stepsBefore' = stepsBefore /\ startedActions' = startedActions
  BY DEF nodeVars, vars, stateVars
<1>2. TypeInv'
  BY <1>1, NextTypes DEF PlanInv, QueueInv
<1>3. NodeTypes'
  BY <1>1 DEF PlanInv, QueueInv, NodeTypes
<1>4. Entries' = Entries /\ StepIDs' = StepIDs
      /\ \A i : EndOf(i)' = EndOf(i) /\ StepOf(i)' = StepOf(i)
  BY <1>1 DEF Entries, EndOf, StepIDs, StepOf
<1>5. EntriesAreOrdered'
  <2>1. \A i \in Entries : StepOf(EndOf(i))' = StepOf(EndOf(i))
    BY <1>1, <1>4 DEF StepOf
  <2> QED BY <1>1, <1>4, <2>1 DEF PlanInv, QueueInv, EntriesAreOrdered
<1>6. EntriesAreRunning'
  BY <1>1, <1>4 DEF PlanInv, QueueInv, EntriesAreRunning, Runs
<1>7. \A i : (SkipPending(i)' <=> SkipPending(i)) /\ (EndPending(i)' <=> EndPending(i))
  BY <1>1, <1>4 DEF SkipPending, EndPending
<1>8. OthersArePending' /\ EndedEntryIsThere'
  BY <1>1, <1>4, <1>7 DEF PlanInv, QueueInv, OthersArePending, EndedEntryIsThere
<1>9. NewEntryIsLast'
  BY <1>1 DEF PlanInv, QueueInv, NewEntryIsLast
<1>10. QueueInv'
  BY <1>2, <1>3, <1>5, <1>6, <1>8, <1>9 DEF QueueInv
<1>11. Unwritten' = Unwritten /\ NewSteps'
  <2>1. NewSteps
    BY DEF PlanInv
  <2> QED BY <1>1, <2>1 DEF Unwritten, NewSteps, StepOf
<1>12. ASSUME NEW k \in 0..Len(plan) - 1 PROVE EventMatches(k)'
  <2>1. EventMatches(k)
    BY DEF PlanInv
  <2>2. Withheld(k)' <=> Withheld(k)
    BY <1>4 DEF Withheld
  <2> QED BY <1>1, <1>4, <2>1, <2>2 DEF EventMatches
<1>13. Len(plan)' = planLength' - Unwritten'
  BY <1>1, <1>11 DEF PlanInv
<1> QED BY <1>1, <1>10, <1>11, <1>12, <1>13 DEF PlanInv

LEMMA InitPlan == NodeInit => PlanInv
<1> SUFFICES ASSUME NodeInit PROVE PlanInv
  OBVIOUS
<1>1. pending.timeSpec = "NONE" /\ planLength = 0 /\ Len(plan) = 0
  BY DEF NodeInit, Init, Evaluated
<1>2. Unwritten = 0 /\ NewSteps
  BY <1>1 DEF Unwritten, NewSteps
<1> QED BY <1>1, <1>2, InitQueue DEF PlanInv

LEMMA NextPlan == PlanInv /\ [NodeNext]_<<vars, nodeVars>> => PlanInv'
<1> SUFFICES ASSUME PlanInv, [NodeNext]_<<vars, nodeVars>> PROVE PlanInv'
  OBVIOUS
<1>1. CASE UNCHANGED <<vars, nodeVars>>
  BY <1>1, StutterKeepsPlan
<1>2. CASE EvaluateTIL \/ EvaluateInstant
  BY <1>2, SingleKeepsPlan
<1>3. CASE EvaluateStart
  BY <1>3, StartKeepsPlan
<1>4. CASE EvaluateEnd
  BY <1>4, EndKeepsPlan
<1>5. CASE \/ ChildOfTIL
           \/ \E a \in Actions : ChildOfInstant(a) \/ ChildOfStart(a) \/ ChildOfEnd(a)
  BY <1>5, ChildKeepsPlan
<1> QED BY <1>1, <1>2, <1>3, <1>4, <1>5 DEF NodeNext

-----------------------------------------------------------------------------
(* What the invariant says of evaluated nodes, and of plans.               *)
LEMMA QueuesAgree == PlanInv => QueueMatchesState
<1> SUFFICES ASSUME PlanInv, pending = Evaluated, NEW a \in Actions
             PROVE  /\ {PendingEnd(startEventQueue[i].stepID) : i \in EntriesForAction(a)}
                          = startedActions[a]
                    /\ startedActions[a] # {} =>
                          PendingEnd(startEventQueue[FrontEntry(a)].stepID)
                              = Earliest(startedActions[a])
  BY DEF QueueMatchesState
<1>1. /\ \A e : e \in startedActions[a] <=>
                   \E i \in Entries : startEventQueue[i].actID = a /\ EndOf(i) = e
      /\ startedActions[a] # {} => EndOf(FrontEntry(a)) = Earliest(startedActions[a])
  BY EvaluatedMatches DEF PlanInv
<1> QED BY <1>1 DEF EntriesForAction, Entries, EndOf

(* Once a node is evaluated its queue has the entries of what runs in the  *)
(* state, and the entry that an end of an action would take there is that  *)
(* of the instance whose end the state would take, whatever instances of   *)
(* whatever actions were started and ended before, in whatever order.      *)
THEOREM QueuesMatchStates == NodeSpec => []QueueMatchesState
BY InitPlan, NextPlan, QueuesAgree, PTL DEF NodeSpec

LEMMA PlansAgree == PlanInv => PlanMatchesState
<1> SUFFICES ASSUME PlanInv, pending = Evaluated
             PROVE  /\ Len(plan) = planLength
                    /\ \A k \in StepIDs :
                          LET event == plan[k + 1]
                          IN /\ StepOf(k).spec = "TIL" <=> event.timeSpec = "AT"
                             /\ event.timeSpec = "AT_END" =>
                                   /\ event.ref = StepOf(k).act
                                   /\ plan[event.pairWithStep + 1].pairWithStep = k
                                   /\ <<event.pairWithStep, k>> \in stepsBefore
                             /\ event.getEffects = ~(\E a \in Actions : k \in startedActions[a])
  BY DEF PlanMatchesState
<1>1. QueueInv /\ planLength \in Nat /\ plan \in Seq(PlannedEvents)
      /\ startEventQueue \in Seq(EventRecords)
  BY DEF PlanInv, QueueInv, TypeInv, TypeOK, NodeTypes
<1>2. pending.timeSpec = "NONE"
  BY DEF Evaluated
<1>3. Unwritten = 0
  BY <1>2 DEF Unwritten
<1>4. Len(plan) = planLength /\ 0..Len(plan) - 1 = StepIDs
  BY <1>1, <1>3 DEF PlanInv, StepIDs
<1>5. ASSUME NEW k \in StepIDs
      PROVE  Withheld(k) <=> \E a \in Actions : k \in startedActions[a]
  <2>1. \A a \in Actions : k \in startedActions[a] <=>
           \E i \in Entries : startEventQueue[i].actID = a /\ EndOf(i) = k
    BY <1>1, EvaluatedMatches
  <2>2. \A i \in Entries : startEventQueue[i].actID \in Actions
    BY <1>1, QueueShape, DomainAssumption DEF QueueInv
  <2> QED BY <2>1, <2>2 DEF Withheld
<1>6. ASSUME NEW k \in StepIDs
      PROVE  plan[k + 1].getEffects = ~(\E a \in Actions : k \in startedActions[a])
  <2> DEFINE running == \E a \in Actions : k \in startedActions[a]
  <2>1. EventMatches(k)
    BY <1>4 DEF PlanInv
  <2>2. plan[k + 1].getEffects <=> ~running
    BY <1>5, <2>1 DEF EventMatches
  <2>3. plan[k + 1] \in PlannedEvents
    <3>1. k + 1 \in 1..Len(plan)
      BY <1>1, <1>4 DEF StepIDs
    <3> HIDE DEF PlannedEvents
    <3> QED BY <1>1, <3>1, ElementOfSeq
  <2>4. plan[k + 1].getEffects \in BOOLEAN
    BY <2>3 DEF PlannedEvents
  <2> HIDE DEF running
  <2>5. plan[k + 1].getEffects = ~running
    BY <2>2, <2>4, Zenon
  <2> QED BY <2>5 DEF running
<1>7. ASSUME NEW k \in StepIDs
      PROVE  LET event == plan[k + 1]
             IN /\ StepOf(k).spec = "TIL" <=> event.timeSpec = "AT"
                /\ event.timeSpec = "AT_END" =>
                      /\ event.ref = StepOf(k).act
                      /\ plan[event.pairWithStep + 1].pairWithStep = k
                      /\ <<event.pairWithStep, k>> \in stepsBefore
  <2>1. EventMatches(k)
    BY <1>4 DEF PlanInv
  <2> QED BY <2>1 DEF EventMatches
<1> QED BY <1>4, <1>6, <1>7

(* Once a node is evaluated, its plan has an event for each step of the    *)
(* state, the ends point at their starts and the starts at their ends, and *)
(* exactly the ends of what still runs are withheld their effects.         *)
THEOREM PlansMatchStates == NodeSpec => []PlanMatchesState
BY InitPlan, NextPlan, PlansAgree, PTL DEF NodeSpec

LEMMA PairsAgree == PlanInv => PairsCarryTheirDuration
<1> SUFFICES ASSUME PlanInv, NEW k \in DOMAIN plan, plan[k].timeSpec = "AT_END"
             PROVE  /\ plan[k].minDuration = MinDuration[plan[k].ref]
                    /\ plan[plan[k].pairWithStep + 1].minDuration = plan[k].minDuration
  BY DEF PairsCarryTheirDuration
<1>1. plan \in Seq(PlannedEvents)
  BY DEF PlanInv, QueueInv, NodeTypes
<1>2. k \in 1..Len(plan) /\ Len(plan) \in Nat
  <2> HIDE DEF PlannedEvents
  <2> QED BY <1>1, LenProperties
<1>3. k - 1 \in 0..Len(plan) - 1 /\ (k - 1) + 1 = k
  BY <1>2
<1>4. EventMatches(k - 1)
  BY <1>3 DEF PlanInv
<1>5. /\ plan[(k - 1) + 1].minDuration = MinDuration[plan[(k - 1) + 1].ref]
      /\ plan[plan[(k - 1) + 1].pairWithStep + 1].minDuration = plan[(k - 1) + 1].minDuration
  BY <1>3, <1>4 DEF EventMatches
<1> QED BY <1>3, <1>5

(* At all times, also between the halves of an edge, an end in the plan    *)
(* and its start have the duration of their own action, although it is     *)
(* read from the back of a queue that holds entries of others.             *)
THEOREM PairsKeepTheirDuration == NodeSpec => []PairsCarryTheirDuration
BY InitPlan, NextPlan, PairsAgree, PTL DEF NodeSpec

-----------------------------------------------------------------------------
(* A node is a state of the transformer: what holds of every state that it *)
(* builds holds of every node of the search.                               *)
THEOREM NodesAreStates == NodeSpec => Spec
<1>1. NodeInit => Init
  BY DEF NodeInit
<1>2. [NodeNext]_<<vars, nodeVars>> => [Next]_vars
  BY DEF NodeNext, ChildOfTIL, ChildOfInstant, ChildOfStart, ChildOfEnd, EvaluateTIL,
     EvaluateInstant, EvaluateStart, EvaluateEnd, Evaluate, Next
<1> QED BY <1>1, <1>2, PTL DEF NodeSpec, Spec

(* The number by which HTrio ranks states, the plan length less the        *)
(* actions executing, counts the snap-actions applied: the two counters    *)
(* move apart and together again by different amounts at starts and ends.  *)
THEOREM RanksCountSteps == NodeSpec => []RankCountsAppliedSteps
<1>1. Init => TypeInv /\ RankCountsAppliedSteps
  BY InitTypes DEF Init, RankCountsAppliedSteps
<1>2. TypeInv /\ RankCountsAppliedSteps /\ [Next]_vars => (TypeInv /\ RankCountsAppliedSteps)'
  <2> SUFFICES ASSUME TypeInv, RankCountsAppliedSteps, [Next]_vars
               PROVE  RankCountsAppliedSteps'
    BY NextTypes
  <2>1. planLength \in Nat /\ actionsExecuting \in Int /\ applied \in Seq(StepIDs)
    BY DEF TypeInv, TypeOK
  <2>2. Len(applied) \in Nat
    BY <2>1, LenProperties
  <2>3. ASSUME NEW n \in Nat, NEW d \in Int, planLength' = planLength + n,
               actionsExecuting' = actionsExecuting + d, n - d = 1,
               Len(applied') = Len(applied) + 1
        PROVE  RankCountsAppliedSteps'
    BY <2>1, <2>2, <2>3 DEF RankCountsAppliedSteps
  <2>4. ASSUME NEW k, NEW pre, NEW dels, NEW adds, NEW more, NEW recs,
               Applies(k, pre, dels, adds, more, recs)
        PROVE  planLength' = planLength + Len(recs) /\ Len(applied') = Len(applied) + 1
    <3>1. applied' = Append(applied, k)
      BY <2>4 DEF Applies, Order
    <3>2. Len(applied') = Len(applied) + 1
      BY <2>1, <3>1
    <3> QED BY <2>4, <3>2 DEF Applies
  <2>5. CASE ApplyTIL
    <3>1. planLength' = planLength + 1 /\ Len(applied') = Len(applied) + 1
      <4> DEFINE recs == <<[spec |-> "TIL", til |-> nextTIL + 1]>>
      <4>1. Len(recs) = 1
        OBVIOUS
      <4>2. Applies(planLength, <<>>, TILs[nextTIL + 1].dels, TILs[nextTIL + 1].adds,
                    {}, recs)
        BY <2>5, TILApplies
      <4> HIDE DEF recs
      <4>3. planLength' = planLength + Len(recs) /\ Len(applied') = Len(applied) + 1
        BY <2>4, <4>2
      <4> QED BY <4>1, <4>3
    <3>2. actionsExecuting' = actionsExecuting + 0
      BY <2>1, <2>5 DEF ApplyTIL
    <3> QED BY <2>3, <3>1, <3>2
  <2>6. ASSUME NEW a \in Actions, ApplyInstant(a) PROVE RankCountsAppliedSteps'
    <3>1. planLength' = planLength + 1 /\ Len(applied') = Len(applied) + 1
      <4> DEFINE recs == <<[spec |-> "INSTANT", act |-> a]>>
      <4>1. Len(recs) = 1
        OBVIOUS
      <4>2. Applies(planLength, Op[a].startPre, Op[a].startDel, Op[a].startAdd, {}, recs)
        BY <2>6, InstantApplies
      <4> HIDE DEF recs
      <4>3. planLength' = planLength + Len(recs) /\ Len(applied') = Len(applied) + 1
        BY <2>4, <4>2
      <4> QED BY <4>1, <4>3
    <3>2. actionsExecuting' = actionsExecuting + 0
      BY <2>1, <2>6 DEF ApplyInstant
    <3> QED BY <2>3, <3>1, <3>2
  <2>7. ASSUME NEW a \in Actions, StartAction(a) \/ StartSkippable(a)
        PROVE  RankCountsAppliedSteps'
    <3>1. planLength' = planLength + 2 /\ Len(applied') = Len(applied) + 1
      <4>1. Len(StartRecords(a)) = 2
        BY DEF StartRecords
      <4> QED BY <2>4, <2>7, <4>1, StartApplies
    <3>2. actionsExecuting' = actionsExecuting + 1
      BY <2>7 DEF StartAction, StartSkippable, RecordStart
    <3> QED BY <2>3, <3>1, <3>2
  <2>8. ASSUME NEW a \in Actions, EndAction(a) PROVE RankCountsAppliedSteps'
    <3>1. planLength' = planLength + 0 /\ Len(applied') = Len(applied) + 1
      BY <2>1, <2>4, <2>8, EndApplies
    <3>2. actionsExecuting' = actionsExecuting + (-1)
      BY <2>1, <2>8 DEF EndAction, Deregister
    <3> QED BY <2>3, <3>1, <3>2
  <2>9. CASE UNCHANGED vars
    BY <2>9 DEF vars, stateVars, RankCountsAppliedSteps
  <2> QED BY <2>5, <2>6, <2>7, <2>8, <2>9 DEF Next
<1> QED BY <1>1, <1>2, NodesAreStates, PTL DEF Spec
=============================================================================
