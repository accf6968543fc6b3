--------------------------- MODULE SchedulerTheorems ---------------------------
(***************************************************************************)
(* What the sweeps of the compression-safe scheduler compute, for every    *)
(* problem whose actions are all compression safe and every plan.  No end  *)
(* is ever applied then, so every ordering leads to a higher step; a step  *)
(* is placed once, when all its predecessors are, and never moves again.   *)
(***************************************************************************)
EXTENDS CompressionSafeScheduler, TotalOrderTransformer_proofs

NoRepeats(s) == \A i, j \in DOMAIN s : s[i] = s[j] => i = j

-----------------------------------------------------------------------------
(* A set of numbers that is not empty has a least one.                     *)
LEMMA LeastNumber ==
    ASSUME NEW ns \in SUBSET Nat, ns # {}
    PROVE  \E n \in ns : \A m \in ns : n <= m
<1> DEFINE less == OpToRel(<, Nat)
<1>1. IsWellFoundedOn(less, Nat)
  BY NatLessThanWellFounded
<1>2. \A x, y \in Nat : x < y => <<x, y>> \in less
  BY Zenon DEF OpToRel
<1> HIDE DEF less
<1>3. PICK e \in ns : \A x \in ns : ~(<<x, e>> \in less)
  BY <1>1, WFMin
<1>4. \A x \in ns : ~(x < e)
  BY <1>2, <1>3, Zenon
<1> QED BY <1>4

(* A finite set of integers that is not empty has a greatest one.          *)
LEMMA MaxIsGreatest ==
    ASSUME NEW S \in SUBSET Int, IsFiniteSet(S), S # {}
    PROVE  Max(S) \in S /\ \A x \in S : Max(S) >= x
<1> DEFINE HasMax(T) == \E x \in T : \A y \in T : x >= y
           Bad == {n \in Nat : \E T \in SUBSET Int :
                      IsFiniteSet(T) /\ T # {} /\ Cardinality(T) = n /\ ~HasMax(T)}
<1>1. Bad = {}
  <2> SUFFICES ASSUME Bad # {} PROVE FALSE
    OBVIOUS
  <2>1. PICK n \in Bad : \A m \in Bad : n <= m
    BY LeastNumber
  <2>2. PICK T \in SUBSET Int :
           IsFiniteSet(T) /\ T # {} /\ Cardinality(T) = n /\ ~HasMax(T)
    BY <2>1
  <2>3. PICK x : x \in T
    BY <2>2
  <2> DEFINE U == T \ {x}
  <2>4. IsFiniteSet(U) /\ Cardinality(U) = n - 1 /\ Cardinality(U) \in Nat /\ n \in Nat
    BY <2>2, <2>3, FS_RemoveElement, FS_CardinalityType
  <2>5. U # {}
    BY <2>2, <2>3
  <2>6. HasMax(U)
    <3>1. n - 1 \notin Bad
      BY <2>1, <2>4
    <3> QED BY <2>4, <2>5, <3>1
  <2>7. PICK u \in U : \A y \in U : u >= y
    BY <2>6
  <2>8. \A y \in T : y = x \/ u >= y
    BY <2>7
  <2>9. u \in T /\ x \in Int /\ u \in Int
    BY <2>3, <2>7
  <2> QED BY <2>2, <2>3, <2>8, <2>9
<1>2. HasMax(S)
  BY <1>1, FS_CardinalityType
<1> QED BY <1>2 DEF Max

(* s lists the c numbers of ks in ascending order.                         *)
Lists(s, c, ks) ==
    /\ s \in [1..c -> ks]
    /\ \A i, j \in 1..c : i < j => s[i] < s[j]
    /\ \A k \in ks : \E i \in 1..c : k = s[i]
Listed(ks) == \E c \in Nat : \E s : Lists(s, c, ks)

(* Putting a greater number at the end of a list.                          *)
LEMMA ListOneMore ==
    ASSUME NEW k \in Nat, NEW ks \in SUBSET (0..k - 1), Listed(ks)
    PROVE  Listed(ks \cup {k})
<1>1. PICK c \in Nat : \E s : Lists(s, c, ks)
  BY DEF Listed
<1>2. PICK s : Lists(s, c, ks)
  BY <1>1
<1> DEFINE r == [i \in 1..c + 1 |-> IF i = c + 1 THEN k ELSE s[i]]
<1>3. \A i \in 1..c : s[i] \in ks /\ r[i] = s[i] /\ s[i] < k /\ s[i] \in Nat
  <2>1. \A x \in ks : x \in Nat /\ x < k
    OBVIOUS
  <2>2. \A i \in 1..c : s[i] \in ks
    BY <1>2 DEF Lists
  <2>3. \A i \in 1..c : r[i] = s[i]
    OBVIOUS
  <2> QED BY <2>1, <2>2, <2>3
<1>4. \A i, j \in 1..c : i < j => s[i] < s[j]
  BY <1>2 DEF Lists
<1>5. r \in [1..c + 1 -> ks \cup {k}] /\ r[c + 1] = k
  BY <1>3
<1>6. \A i, j \in 1..c + 1 : i < j => r[i] < r[j]
  <2> SUFFICES ASSUME NEW i \in 1..c + 1, NEW j \in 1..c + 1, i < j PROVE r[i] < r[j]
    OBVIOUS
  <2>1. i \in 1..c /\ (j \in 1..c \/ j = c + 1)
    OBVIOUS
  <2> HIDE DEF r
  <2> QED BY <1>3, <1>4, <1>5, <2>1
<1>7. \A x \in ks \cup {k} : \E i \in 1..c + 1 : x = r[i]
  <2>1. c + 1 \in 1..c + 1 /\ \A i \in 1..c : i \in 1..c + 1
    OBVIOUS
  <2>2. \A x \in ks : \E i \in 1..c : x = r[i]
    <3>1. \A x \in ks : \E i \in 1..c : x = s[i]
      BY <1>2 DEF Lists
    <3> HIDE DEF r
    <3> QED BY <1>3, <3>1
  <2> HIDE DEF r
  <2> QED BY <1>5, <2>1, <2>2
<1> HIDE DEF r
<1>8. Lists(r, c + 1, ks \cup {k})
  BY <1>5, <1>6, <1>7 DEF Lists
<1>9. c + 1 \in Nat
  OBVIOUS
<1> QED BY <1>8, <1>9 DEF Listed

LEMMA AllListed ==
    ASSUME NEW n \in Nat, NEW ks \in SUBSET (0..n - 1)
    PROVE  Listed(ks)
<1> DEFINE Bad == {m \in Nat : \E T \in SUBSET (0..m - 1) : ~Listed(T)}
<1>1. ASSUME Bad # {} PROVE FALSE
  <2>1. PICK m \in Bad : \A l \in Bad : m <= l
    BY <1>1, LeastNumber
  <2>2. PICK T \in SUBSET (0..m - 1) : ~Listed(T)
    BY <2>1
  <2>3. m # 0
    <3> SUFFICES ASSUME m = 0 PROVE FALSE
      OBVIOUS
    <3>1. T = {} /\ 1..0 = {}
      OBVIOUS
    <3>2. Lists([i \in 1..0 |-> i], 0, {})
      BY <3>1 DEF Lists
    <3> QED BY <2>2, <3>1, <3>2 DEF Listed
  <2>4. m - 1 \in Nat /\ m - 1 \notin Bad
    BY <2>1, <2>3
  <2>5. T \ {m - 1} \in SUBSET (0..(m - 1) - 1)
    BY <2>1
  <2>6. Listed(T \ {m - 1})
    BY <2>4, <2>5
  <2>7. Listed((T \ {m - 1}) \cup {m - 1})
    BY <2>4, <2>5, <2>6, ListOneMore
  <2>8. T = T \ {m - 1} \/ T = (T \ {m - 1}) \cup {m - 1}
    OBVIOUS
  <2> QED BY <2>2, <2>6, <2>7, <2>8
<1> QED BY <1>1

(* The steps a sweep appends to its list are those that are meant, once.   *)
LEMMA AscendingLists ==
    ASSUME NEW n \in Nat, NEW ks \in SUBSET (0..n - 1)
    PROVE  /\ Ascending(ks) \in Seq(0..n - 1)
           /\ NoRepeats(Ascending(ks)) /\ Range(Ascending(ks)) = ks
<1>1. PICK c \in Nat : \E s : Lists(s, c, ks)
  BY AllListed DEF Listed
<1>2. PICK s : Lists(s, c, ks)
  BY <1>1
<1>3. ASSUME NEW t, t \in [1..c -> ks], \A i, j \in 1..c : i < j => t[i] < t[j]
      PROVE  \A i, j \in 1..c : t[i] = t[j] => i = j
  <2>1. \A i \in 1..c : t[i] \in Int
    <3>1. \A x \in ks : x \in Int
      OBVIOUS
    <3> QED BY <1>3, <3>1
  <2>2. ASSUME NEW i \in 1..c, NEW j \in 1..c, t[i] = t[j] PROVE i = j
    <3>1. ~(i < j) /\ ~(j < i)
      BY <1>3, <2>1, <2>2
    <3> QED BY <3>1
  <2> QED BY <2>2
<1>4. IsFiniteSet(ks) /\ Cardinality(ks) = c
  <2>1. s \in Bijection(1..c, ks)
    BY <1>2, <1>3 DEF Bijection, Injection, Surjection, IsInjective, Lists
  <2>2. ExistsBijection(1..c, ks)
    BY <2>1 DEF ExistsBijection
  <2> QED BY <2>2, FS_NatBijection, FS_CountingElements
<1> DEFINE q == Ascending(ks)
<1>5. q \in [1..c -> ks] /\ \A i, j \in 1..c : i < j => q[i] < q[j]
  <2>1. s \in [1..c -> ks] /\ \A i, j \in 1..c : i < j => s[i] < s[j]
    BY <1>2 DEF Lists
  <2> QED BY <1>4, <2>1 DEF Ascending
<1> HIDE DEF q
<1>6. \A i, j \in 1..c : q[i] = q[j] => i = j
  BY <1>3, <1>5
<1>7. q \in Injection(1..c, ks)
  BY <1>5, <1>6 DEF Injection, IsInjective
<1>8. Cardinality(1..c) = c
  BY FS_Interval
<1>9. q \in Surjection(1..c, ks)
  BY <1>4, <1>7, <1>8, FS_Injection
<1>10. q \in Seq(0..n - 1) /\ DOMAIN q = 1..c
  <2>1. q \in [1..c -> 0..n - 1]
    BY <1>5
  <2> QED BY <2>1
<1>11. Range(q) = ks
  BY <1>9, <1>10 DEF Surjection, Range
<1> QED BY <1>6, <1>10, <1>11 DEF NoRepeats, q

(* Taking the first of a list without repeats and appending others to it   *)
(* leaves a list without repeats.                                          *)
LEMMA Queueing ==
    ASSUME NEW S, NEW s \in Seq(S), s # <<>>, NoRepeats(s),
           NEW t \in Seq(S), NoRepeats(t), Range(t) \cap Range(s) = {}
    PROVE  /\ Tail(s) \o t \in Seq(S) /\ NoRepeats(Tail(s) \o t)
           /\ Range(Tail(s) \o t) = (Range(s) \ {Head(s)}) \cup Range(t)
           /\ Head(s) \in Range(s) /\ Head(s) \in S
<1> DEFINE u == Tail(s)
<1>1. /\ u \in Seq(S) /\ Head(s) = s[1] /\ Len(u) = Len(s) - 1
      /\ \A i \in 1..Len(u) : u[i] = s[i + 1]
      /\ Len(s) \in Nat /\ Len(s) >= 1 /\ DOMAIN s = 1..Len(s)
  BY HeadTailProperties, LenProperties, EmptySeq
<1>2. DOMAIN u = 1..Len(u) /\ DOMAIN t = 1..Len(t) /\ Len(t) \in Nat /\ Len(u) \in Nat
  BY <1>1, LenProperties
<1> HIDE DEF u
<1>3. /\ u \o t \in Seq(S) /\ Len(u \o t) = Len(u) + Len(t)
      /\ DOMAIN (u \o t) = 1..Len(u) + Len(t)
      /\ \A i \in 1..Len(u) + Len(t) :
            (u \o t)[i] = IF i <= Len(u) THEN u[i] ELSE t[i - Len(u)]
  <2>1. /\ u \o t \in Seq(S) /\ Len(u \o t) = Len(u) + Len(t)
        /\ \A i \in 1..Len(u) + Len(t) :
              (u \o t)[i] = IF i <= Len(u) THEN u[i] ELSE t[i - Len(u)]
    BY <1>1, ConcatProperties
  <2> QED BY <2>1, LenProperties
<1> DEFINE r == u \o t
<1> HIDE DEF r
<1>4. \A i \in 1..Len(t) : t[i] \in Range(t) /\ t[i] \notin Range(s)
  BY <1>2 DEF Range
<1>5. \A i \in 1..Len(s) : s[i] \in Range(s)
  BY <1>1 DEF Range
<1>6. \A i \in 1..Len(u) : u[i] \in Range(s) /\ i + 1 \in 1..Len(s) /\ u[i] # s[1]
  <2> SUFFICES ASSUME NEW i \in 1..Len(u)
               PROVE  u[i] \in Range(s) /\ i + 1 \in 1..Len(s) /\ u[i] # s[1]
    OBVIOUS
  <2>1. i + 1 \in 1..Len(s) /\ u[i] = s[i + 1] /\ i + 1 # 1 /\ 1 \in 1..Len(s)
    BY <1>1
  <2> QED BY <1>1, <1>5, <2>1 DEF NoRepeats
<1>7. NoRepeats(r)
  <2> SUFFICES ASSUME NEW i \in 1..Len(u) + Len(t), NEW j \in 1..Len(u) + Len(t),
                      r[i] = r[j]
               PROVE  i = j
    BY <1>3 DEF NoRepeats, r
  <2>1. CASE i <= Len(u) /\ j <= Len(u)
    <3>1. i \in 1..Len(u) /\ j \in 1..Len(u)
      BY <1>2, <2>1
    <3>2. s[i + 1] = s[j + 1] /\ i + 1 \in DOMAIN s /\ j + 1 \in DOMAIN s
      BY <1>1, <1>3, <1>6, <2>1, <3>1 DEF r
    <3>3. i + 1 = j + 1
      BY <3>2 DEF NoRepeats
    <3> QED BY <3>3
  <2>2. CASE i > Len(u) /\ j > Len(u)
    <3>1. i - Len(u) \in DOMAIN t /\ j - Len(u) \in DOMAIN t
          /\ t[i - Len(u)] = t[j - Len(u)]
      BY <1>2, <1>3, <2>2 DEF r
    <3>2. i - Len(u) = j - Len(u)
      BY <3>1 DEF NoRepeats
    <3> QED BY <1>2, <3>2
  <2>3. CASE i <= Len(u) /\ j > Len(u)
    <3>1. r[i] = u[i] /\ r[j] = t[j - Len(u)] /\ i \in 1..Len(u) /\ j - Len(u) \in 1..Len(t)
      BY <1>2, <1>3, <2>3 DEF r
    <3> QED BY <1>4, <1>6, <3>1
  <2>4. CASE i > Len(u) /\ j <= Len(u)
    <3>1. r[j] = u[j] /\ r[i] = t[i - Len(u)] /\ j \in 1..Len(u) /\ i - Len(u) \in 1..Len(t)
      BY <1>2, <1>3, <2>4 DEF r
    <3> QED BY <1>4, <1>6, <3>1
  <2> QED BY <1>2, <2>1, <2>2, <2>3, <2>4
<1>8. Range(r) = (Range(s) \ {s[1]}) \cup Range(t)
  <2>1. ASSUME NEW x \in Range(r) PROVE x \in (Range(s) \ {s[1]}) \cup Range(t)
    <3>1. PICK i \in 1..Len(u) + Len(t) : x = r[i]
      BY <1>3, <2>1 DEF Range, r
    <3>2. CASE i <= Len(u)
      BY <1>2, <1>3, <1>6, <3>1, <3>2 DEF r
    <3>3. CASE i > Len(u)
      <4>1. i - Len(u) \in 1..Len(t) /\ x = t[i - Len(u)]
        BY <1>2, <1>3, <3>1, <3>3 DEF r
      <4> QED BY <1>4, <4>1
    <3> QED BY <1>2, <3>2, <3>3
  <2>2. ASSUME NEW x \in Range(s) \ {s[1]} PROVE x \in Range(r)
    <3>1. PICK i \in 1..Len(s) : x = s[i]
      BY <1>1, <2>2 DEF Range
    <3>2. i - 1 \in 1..Len(u)
      BY <1>1, <2>2, <3>1
    <3>3. x = r[i - 1] /\ i - 1 \in DOMAIN r
      BY <1>1, <1>2, <1>3, <3>1, <3>2 DEF r
    <3> QED BY <3>3 DEF Range
  <2>3. ASSUME NEW x \in Range(t) PROVE x \in Range(r)
    <3>1. PICK i \in 1..Len(t) : x = t[i]
      BY <1>2, <2>3 DEF Range
    <3>2. x = r[i + Len(u)] /\ i + Len(u) \in DOMAIN r
      BY <1>2, <1>3, <3>1 DEF r
    <3> QED BY <3>2 DEF Range
  <2> QED BY <2>1, <2>2, <2>3
<1>9. s[1] \in Range(s) /\ s[1] \in S
  BY <1>1, <1>5, ElementOfSeq
<1> QED BY <1>1, <1>3, <1>7, <1>8, <1>9 DEF r, u

-----------------------------------------------------------------------------
(* With compression-safe actions only, no instance is ever registered as   *)
(* running; the steps of an action are a start and, next to it, the end it *)
(* comes before; and orderings lead to higher steps.                       *)
Shape ==
    /\ SafeToUseThis
    /\ \A a \in Actions : startedActions[a] = {}
    /\ \A edge \in stepsBefore : edge[1] < edge[2]
    /\ \A k \in StepIDs : StepOf(k).spec = "START" =>
          /\ k + 1 \in StepIDs
          /\ StepOf(k + 1) = [spec |-> "END", act |-> StepOf(k).act]
    /\ \A k \in StepIDs : StepOf(k).spec = "END" =>
          /\ k - 1 \in StepsBefore(k) /\ StepOf(k).act \in Durative
          /\ StepOf(k - 1) = [spec |-> "START", act |-> StepOf(k).act]

(* A step with a timestamp has the least one that its placed predecessors  *)
(* and, if it is an end, its duration allow.                               *)
Gap(b, k) == IF <<b, k>> \in epsilonBefore THEN 1 ELSE 0
HeldBack(k) ==
    \/ Time(k) = 0
    \/ \E b \in StepsBefore(k) : Time(k) = Time(b) + Gap(b, k)
    \/ /\ StepOf(k).spec = "END"
       /\ Time(k) = Time(k - 1) + MinDuration[StepOf(k).act]
Settled(k) ==
    /\ Time(k) >= 0
    /\ StepsBefore(k) = {} => Time(k) = 0
    /\ \A b \in StepsBefore(k) : Time(b) # -1 /\ Time(b) + Gap(b, k) <= Time(k)
    /\ StepOf(k).spec = "END" => Time(k - 1) + MinDuration[StepOf(k).act] <= Time(k)
    /\ HeldBack(k)
Times ==
    /\ lpTimestamp \in Seq(Int) /\ Len(lpTimestamp) = planLength
    /\ \A k \in StepIDs : Time(k) = -1 \/ Settled(k)
    /\ ~sweeping => \A k \in StepIDs : Time(k) # -1

(* During a sweep: a step counts the predecessors not yet visited, and is  *)
(* listed, once, when there are none; a visited step has a timestamp.      *)
Visited == {k \in StepIDs : fanIn[k + 1] = 0 /\ k \notin Range(visit)}
Unvisited(k) == {b \in StepsBefore(k) : b \notin Visited}
Sweep ==
    /\ visit \in Seq(StepIDs) /\ NoRepeats(visit)
    /\ fanIn \in [1..planLength -> Nat]
    /\ \A k \in StepIDs : fanIn[k + 1] = Cardinality(Unvisited(k))
    /\ \A k \in Range(visit) : fanIn[k + 1] = 0
    /\ \A k \in Visited : Time(k) # -1

SchedInv == TypeInv /\ Shape /\ Times /\ (sweeping => Sweep)

(* Every action is durative, so that a step of search either applies a     *)
(* timed initial literal or starts a compression-safe action.              *)
LEMMA SafeApplies ==
    ASSUME TypeInv, Shape, Next
    PROVE  /\ startedActions' = startedActions
           /\ \E pre, dels, adds :
                 \/ \E r \in StepRecords :
                       /\ r.spec = "TIL"
                       /\ Applies(planLength, pre, dels, adds, {}, <<r>>)
                 \/ \E a \in Actions :
                       Applies(planLength, pre, dels, adds,
                               {<<planLength, planLength + 1>>}, StartRecords(a))
<1>1. CASE ApplyTIL
  <2> DEFINE r == [spec |-> "TIL", til |-> nextTIL + 1]
  <2>1. Applies(planLength, <<>>, TILs[nextTIL + 1].dels, TILs[nextTIL + 1].adds, {}, <<r>>)
    BY <1>1, TILApplies
  <2>2. r \in StepRecords
    BY <1>1, LenProperties, DomainAssumption DEF ApplyTIL, TypeInv, TypeOK, StepRecords
  <2>3. r.spec = "TIL"
    OBVIOUS
  <2>4. startedActions' = startedActions
    BY <1>1 DEF ApplyTIL
  <2> HIDE DEF r
  <2> QED BY <2>1, <2>2, <2>3, <2>4
<1>2. ASSUME NEW a \in Actions, StartSkippable(a)
      PROVE  /\ startedActions' = startedActions
             /\ Applies(planLength, ProcessedStartPre(a), Op[a].startDel, Op[a].startAdd,
                        {<<planLength, planLength + 1>>}, StartRecords(a))
  BY <1>2, StartApplies DEF StartSkippable
<1>3. ASSUME NEW a \in Actions PROVE ~ApplyInstant(a) /\ ~StartAction(a) /\ ~EndAction(a)
  <2>1. CanSkipToEnd(a) /\ a \in Durative /\ startedActions[a] = {}
    BY DomainAssumption DEF Shape, SafeToUseThis, CanSkipToEnd
  <2> QED BY <2>1 DEF ApplyInstant, StartAction, EndAction, EndApplicable
<1> QED BY <1>1, <1>2, <1>3 DEF Next

LEMMA SafeOrderings ==
    ASSUME TypeInv, Shape, Next
    PROVE  /\ planLength \in Nat /\ planLength' \in Nat /\ planLength < planLength'
           /\ \A i \in StepIDs : i \in StepIDs' /\ StepOf(i)' = StepOf(i)
           /\ stepsBefore \subseteq stepsBefore' /\ epsilonBefore \subseteq epsilonBefore'
           /\ \A edge \in stepsBefore' : edge \in stepsBefore \/ edge[2] >= planLength
           /\ \A edge \in epsilonBefore' : edge \in epsilonBefore \/ edge[2] >= planLength
           /\ \A edge \in stepsBefore' : edge[1] < edge[2]
<1>1. PICK pre, dels, adds, more, recs :
         /\ Applies(planLength, pre, dels, adds, more, recs)
         /\ more \subseteq {<<planLength, planLength + 1>>}
         /\ recs \in Seq(StepRecords) /\ Len(recs) >= 1
  <2>1. \A r : Len(<<r>>) >= 1
    OBVIOUS
  <2>2. \A a : Len(StartRecords(a)) >= 1
    BY DEF StartRecords
  <2>3. PICK pre, dels, adds, more, recs :
           /\ Applies(planLength, pre, dels, adds, more, recs)
           /\ more \subseteq {<<planLength, planLength + 1>>} /\ Len(recs) >= 1
    BY <2>1, <2>2, SafeApplies
  <2> QED BY <2>3 DEF Applies
<1> DEFINE met == PendingEndsMet(firstAnnotations, pre, dels, adds)
           new == {<<b, planLength>> : b \in met \cup ({mostRecentStep} \ {-1})}
<1>2. /\ stepsBefore' = stepsBefore \cup new \cup more
      /\ epsilonBefore' = epsilonBefore \cup new
      /\ planLength' = planLength + Len(recs)
  BY <1>1 DEF Applies, Order
<1>3. /\ planLength' \in Nat /\ met \subseteq StepIDs
      /\ \A i \in StepIDs : StepOf(i)' = StepOf(i)
  BY <1>1, AppliesTypes
<1>4. planLength \in Nat /\ mostRecentStep \in {-1} \cup StepIDs
  BY DEF TypeInv, TypeOK
<1>5. planLength < planLength'
  BY <1>1, <1>2, <1>4, LenProperties
<1>6. \A edge \in new : edge[2] = planLength /\ edge[1] < edge[2]
  BY <1>3, <1>4 DEF StepIDs
<1>7. \A edge \in more : edge[2] = planLength + 1 /\ edge[1] < edge[2]
  BY <1>1, <1>4
<1>8. \A edge \in stepsBefore : edge[1] < edge[2]
  BY DEF Shape
<1> HIDE DEF met, new
<1>9. \A i \in StepIDs : i \in StepIDs'
  <2>1. planLength \in Nat /\ planLength' \in Nat /\ planLength < planLength'
    BY <1>3, <1>4, <1>5
  <2>2. \A m, n \in Nat : m < n => \A i \in 0..m - 1 : i \in 0..n - 1
    OBVIOUS
  <2> QED BY <2>1, <2>2 DEF StepIDs
<1> QED BY <1>2, <1>3, <1>4, <1>5, <1>6, <1>7, <1>8, <1>9

(* The orderings before a step that was there, and what it is, stay.       *)
LEMMA HeaderStays ==
    ASSUME TypeInv, Shape, Next, NEW k \in StepIDs
    PROVE  /\ k \in StepIDs' /\ StepOf(k)' = StepOf(k)
           /\ StepsBefore(k)' = StepsBefore(k) /\ StepsBefore(k) \subseteq StepIDs
           /\ \A b : Gap(b, k)' = Gap(b, k)
<1>1. /\ stepsBefore \subseteq stepsBefore' /\ epsilonBefore \subseteq epsilonBefore'
      /\ \A edge \in stepsBefore' : edge \in stepsBefore \/ edge[2] >= planLength
      /\ \A edge \in epsilonBefore' : edge \in epsilonBefore \/ edge[2] >= planLength
      /\ k \in StepIDs' /\ StepOf(k)' = StepOf(k)
  BY SafeOrderings
<1>2. k \in Int /\ k < planLength /\ planLength \in Nat
  BY DEF TypeInv, TypeOK, StepIDs
<1>3. stepsBefore \subseteq StepIDs \X StepIDs
  BY DEF TypeInv, TypeOK
<1>4. \A b : <<b, k>> \in epsilonBefore' <=> <<b, k>> \in epsilonBefore
  BY <1>1, <1>2
<1>5. \A edge : edge[2] = k => (edge \in stepsBefore' <=> edge \in stepsBefore)
  BY <1>1, <1>2
<1>6. StepsBefore(k)' = StepsBefore(k)
  BY <1>5 DEF StepsBefore
<1>7. StepsBefore(k) \subseteq StepIDs
  BY <1>3 DEF StepsBefore
<1> QED BY <1>1, <1>4, <1>6, <1>7 DEF Gap

LEMMA KeepsShape == ASSUME TypeInv, Shape, Next PROVE Shape'
<1>1. SafeToUseThis /\ \A a \in Actions : startedActions'[a] = {}
  BY SafeApplies DEF Shape
<1>2. \A edge \in stepsBefore' : edge[1] < edge[2]
  BY SafeOrderings
<1>3. planLength \in Nat
  BY DEF TypeInv, TypeOK
<1>4. ASSUME NEW k \in StepIDs
      PROVE  /\ StepOf(k)'.spec = "START" =>
                   /\ k + 1 \in StepIDs'
                   /\ StepOf(k + 1)' = [spec |-> "END", act |-> StepOf(k)'.act]
             /\ StepOf(k)'.spec = "END" =>
                   /\ k - 1 \in StepsBefore(k)' /\ StepOf(k)'.act \in Durative
                   /\ StepOf(k - 1)' = [spec |-> "START", act |-> StepOf(k)'.act]
  <2>1. StepOf(k)' = StepOf(k) /\ StepsBefore(k)' = StepsBefore(k)
        /\ StepsBefore(k) \subseteq StepIDs
    BY HeaderStays
  <2>2. \A i \in StepIDs : i \in StepIDs' /\ StepOf(i)' = StepOf(i)
    BY HeaderStays
  <2> QED BY <2>1, <2>2 DEF Shape
<1>5. \/ /\ planLength' = planLength + 1
         /\ steps'[planLength + 1].spec = "TIL"
      \/ /\ planLength' = planLength + 2
         /\ <<planLength, planLength + 1>> \in stepsBefore'
         /\ \E a \in Durative :
               /\ steps'[planLength + 1] = [spec |-> "START", act |-> a]
               /\ steps'[planLength + 2] = [spec |-> "END", act |-> a]
  <2>1. PICK pre, dels, adds :
           \/ \E r \in StepRecords :
                 r.spec = "TIL" /\ Applies(planLength, pre, dels, adds, {}, <<r>>)
           \/ \E a \in Actions :
                 Applies(planLength, pre, dels, adds,
                         {<<planLength, planLength + 1>>}, StartRecords(a))
    BY SafeApplies
  <2>2. ASSUME NEW r \in StepRecords, r.spec = "TIL",
               Applies(planLength, pre, dels, adds, {}, <<r>>)
        PROVE  planLength' = planLength + 1 /\ steps'[planLength + 1].spec = "TIL"
    <3>1. <<r>> \in Seq(StepRecords) /\ steps' = steps \o <<r>>
          /\ planLength' = planLength + Len(<<r>>)
      BY <2>2 DEF Applies
    <3>2. Len(<<r>>) = 1 /\ <<r>>[1] = r
      OBVIOUS
    <3>3. PICK recs : recs = <<r>>
      OBVIOUS
    <3>4. steps'[planLength + 1] = recs[1]
      <4>1. recs \in Seq(StepRecords) /\ steps' = steps \o recs /\ Len(recs) >= 1
        BY <3>1, <3>2, <3>3
      <4> QED BY <4>1, Recording DEF TypeInv
    <3> QED BY <2>2, <3>1, <3>2, <3>3, <3>4
  <2>3. ASSUME NEW a \in Actions,
               Applies(planLength, pre, dels, adds,
                       {<<planLength, planLength + 1>>}, StartRecords(a))
        PROVE  /\ planLength' = planLength + 2 /\ a \in Durative
               /\ <<planLength, planLength + 1>> \in stepsBefore'
               /\ steps'[planLength + 1] = [spec |-> "START", act |-> a]
               /\ steps'[planLength + 2] = [spec |-> "END", act |-> a]
    <3>1. /\ steps'[planLength + 1] = [spec |-> "START", act |-> a]
          /\ steps'[planLength + 2] = [spec |-> "END", act |-> a]
      BY <2>3, StartRecordsEnd
    <3>2. planLength' = planLength + Len(StartRecords(a)) /\ Len(StartRecords(a)) = 2
      BY <2>3 DEF Applies, StartRecords
    <3>3. <<planLength, planLength + 1>> \in stepsBefore'
      BY <2>3 DEF Applies, Order
    <3>4. a \in Durative
      BY DomainAssumption DEF Shape, SafeToUseThis, CanSkipToEnd
    <3> QED BY <3>1, <3>2, <3>3, <3>4
  <2> QED BY <2>1, <2>2, <2>3
<1>6. ASSUME NEW k \in StepIDs', k \notin StepIDs
      PROVE  /\ StepOf(k)'.spec = "START" =>
                   /\ k + 1 \in StepIDs'
                   /\ StepOf(k + 1)' = [spec |-> "END", act |-> StepOf(k)'.act]
             /\ StepOf(k)'.spec = "END" =>
                   /\ k - 1 \in StepsBefore(k)' /\ StepOf(k)'.act \in Durative
                   /\ StepOf(k - 1)' = [spec |-> "START", act |-> StepOf(k)'.act]
  <2>1. CASE planLength' = planLength + 1 /\ steps'[planLength + 1].spec = "TIL"
    <3>1. k = planLength
      BY <1>3, <1>6, <2>1 DEF StepIDs
    <3> QED BY <2>1, <3>1 DEF StepOf
  <2>2. ASSUME planLength' = planLength + 2,
               <<planLength, planLength + 1>> \in stepsBefore', NEW a \in Durative,
               steps'[planLength + 1] = [spec |-> "START", act |-> a],
               steps'[planLength + 2] = [spec |-> "END", act |-> a]
        PROVE  /\ StepOf(k)'.spec = "START" =>
                     /\ k + 1 \in StepIDs'
                     /\ StepOf(k + 1)' = [spec |-> "END", act |-> StepOf(k)'.act]
               /\ StepOf(k)'.spec = "END" =>
                     /\ k - 1 \in StepsBefore(k)' /\ StepOf(k)'.act \in Durative
                     /\ StepOf(k - 1)' = [spec |-> "START", act |-> StepOf(k)'.act]
    <3>1. PICK p \in Nat : p = planLength
      BY <1>3
    <3>2. k = p \/ k = p + 1
      BY <1>3, <1>6, <2>2, <3>1 DEF StepIDs
    <3>3. p \in StepsBefore(p + 1)'
      BY <2>2, <3>1 DEF StepsBefore
    <3>4. p + 1 \in StepIDs' /\ (p + 1) - 1 = p
      BY <2>2, <3>1 DEF StepIDs
    <3>5. /\ StepOf(p)' = [spec |-> "START", act |-> a]
          /\ StepOf(p + 1)' = [spec |-> "END", act |-> a]
      <4>1. (p + 1) + 1 = planLength + 2 /\ p + 1 = planLength + 1
        BY <3>1
      <4> QED BY <2>2, <4>1 DEF StepOf
    <3>6. CASE k = p
      BY <3>4, <3>5, <3>6
    <3>7. CASE k = p + 1
      BY <3>3, <3>4, <3>5, <3>7
    <3> QED BY <3>2, <3>6, <3>7
  <2> QED BY <1>5, <2>1, <2>2
<1> QED BY <1>1, <1>2, <1>4, <1>6 DEF Shape

-----------------------------------------------------------------------------
(* The steps that the orderings E over n steps put before step k.          *)
LEMMA PredecessorsOf ==
    ASSUME NEW n \in Nat, NEW E \in SUBSET ((0..n - 1) \X (0..n - 1)), NEW k
    PROVE  /\ {edge[1] : edge \in {x \in E : x[2] = k}} = {b \in 0..n - 1 : <<b, k>> \in E}
           /\ {edge[2] : edge \in {x \in E : x[1] = k}} = {b \in 0..n - 1 : <<k, b>> \in E}
           /\ \A T \in SUBSET (0..n - 1) : IsFiniteSet(T)
<1>1. \A edge \in E : /\ edge = <<edge[1], edge[2]>>
                      /\ edge[1] \in 0..n - 1 /\ edge[2] \in 0..n - 1
  OBVIOUS
<1>2. {edge[1] : edge \in {x \in E : x[2] = k}} = {b \in 0..n - 1 : <<b, k>> \in E}
  <2>1. ASSUME NEW b \in 0..n - 1, <<b, k>> \in E
        PROVE  b \in {edge[1] : edge \in {x \in E : x[2] = k}}
    <3>1. <<b, k>>[1] = b /\ <<b, k>>[2] = k
      OBVIOUS
    <3> QED BY <2>1, <3>1
  <2> QED BY <1>1, <2>1
<1>3. {edge[2] : edge \in {x \in E : x[1] = k}} = {b \in 0..n - 1 : <<k, b>> \in E}
  <2>1. ASSUME NEW b \in 0..n - 1, <<k, b>> \in E
        PROVE  b \in {edge[2] : edge \in {x \in E : x[1] = k}}
    <3>1. <<k, b>>[1] = k /\ <<k, b>>[2] = b
      OBVIOUS
    <3> QED BY <2>1, <3>1
  <2> QED BY <1>1, <2>1
<1>4. \A T \in SUBSET (0..n - 1) : IsFiniteSet(T)
  <2>1. IsFiniteSet(0..n - 1)
    BY FS_Interval
  <2> QED BY <2>1, FS_Subset
<1> QED BY <1>2, <1>3, <1>4

LEMMA Predecessors ==
    ASSUME TypeInv, NEW k
    PROVE  /\ planLength \in Nat /\ StepIDs = 0..planLength - 1
           /\ StepsBefore(k) = {b \in StepIDs : <<b, k>> \in stepsBefore}
           /\ FanOut(k) = {b \in StepIDs : <<k, b>> \in stepsBefore}
           /\ \A T \in SUBSET StepIDs : IsFiniteSet(T)
<1>1. planLength \in Nat /\ stepsBefore \in SUBSET (StepIDs \X StepIDs)
  BY DEF TypeInv, TypeOK
<1>2. StepIDs = 0..planLength - 1
  BY DEF StepIDs
<1>3. stepsBefore \in SUBSET ((0..planLength - 1) \X (0..planLength - 1))
  BY <1>1, <1>2
<1>4. /\ StepsBefore(k) = {b \in 0..planLength - 1 : <<b, k>> \in stepsBefore}
      /\ FanOut(k) = {b \in 0..planLength - 1 : <<k, b>> \in stepsBefore}
      /\ \A T \in SUBSET (0..planLength - 1) : IsFiniteSet(T)
  BY <1>1, <1>3, PredecessorsOf, Zenon DEF StepsBefore, FanOut
<1> QED BY <1>1, <1>2, <1>4

LEMMA NextPredecessors ==
    ASSUME TypeInv', NEW k
    PROVE  /\ planLength' \in Nat /\ StepIDs' = 0..planLength' - 1
           /\ StepsBefore(k)' = {b \in StepIDs' : <<b, k>> \in stepsBefore'}
           /\ \A T \in SUBSET StepIDs' : IsFiniteSet(T)
<1>1. planLength' \in Nat /\ stepsBefore' \in SUBSET (StepIDs' \X StepIDs')
  BY DEF TypeInv, TypeOK
<1>2. StepIDs' = 0..planLength' - 1
  BY DEF StepIDs
<1> QED BY <1>1, <1>2, PredecessorsOf DEF StepsBefore

(* What a sweep found for a step stays right as long as no timestamp it    *)
(* found is changed and no ordering before that step is added.             *)
LEMMA SettledStays ==
    ASSUME TypeInv, Shape, NEW k \in StepIDs, Settled(k),
           StepOf(k)' = StepOf(k), StepsBefore(k)' = StepsBefore(k),
           \A b : Gap(b, k)' = Gap(b, k),
           \A i \in StepIDs : Time(i) # -1 => Time(i)' = Time(i)
    PROVE  Settled(k)'
<1>1. StepsBefore(k) \subseteq StepIDs
  BY Predecessors
<1>2. Time(k)' = Time(k)
  BY DEF Settled
<1>3. \A b \in StepsBefore(k) : Time(b)' = Time(b) /\ Time(b) # -1
  BY <1>1 DEF Settled
<1>4. StepOf(k).spec = "END" => k - 1 \in StepsBefore(k)
  BY DEF Shape
<1>5. StepOf(k).spec = "END" => Time(k - 1)' = Time(k - 1)
  BY <1>3, <1>4
<1>6. HeldBack(k)'
  <2>1. HeldBack(k)
    BY DEF Settled
  <2> QED BY <1>2, <1>3, <1>5, <2>1 DEF HeldBack
<1> QED BY <1>2, <1>3, <1>5, <1>6 DEF Settled

-----------------------------------------------------------------------------
LEMMA BeginsSweep ==
    ASSUME SchedInv, BeginSweep
    PROVE  SchedInv' /\ \A i \in DOMAIN lpTimestamp : lpTimestamp'[i] = lpTimestamp[i]
<1>1. TypeInv /\ Shape /\ Times /\ Next /\ sweeping' = TRUE
  BY DEF SchedInv, BeginSweep
<1>2. TypeInv' /\ Shape'
  BY <1>1, NextTypes, KeepsShape
<1>3. PICK n \in Nat, m \in Nat :
         /\ n = planLength /\ m = planLength' /\ n < m
         /\ StepIDs = 0..n - 1 /\ StepIDs' = 0..m - 1
  <2>1. planLength \in Nat /\ planLength' \in Nat /\ planLength < planLength'
    BY <1>1, SafeOrderings
  <2>2. StepIDs = 0..planLength - 1 /\ StepIDs' = 0..planLength' - 1
    BY DEF StepIDs
  <2> QED BY <2>1, <2>2
<1>n. n < m
  BY <1>3
<1>4. /\ lpTimestamp' \in Seq(Int) /\ Len(lpTimestamp') = m /\ DOMAIN lpTimestamp = 1..n
      /\ \A i \in 1..n : lpTimestamp'[i] = lpTimestamp[i]
      /\ \A i \in n + 1..m : lpTimestamp'[i] = -1
  <2> DEFINE new == [i \in 1..m - n |-> -1]
  <2>1. new \in Seq(Int) /\ Len(new) = m - n /\ \A i \in 1..m - n : new[i] = -1
    <3>1. m - n \in Nat
      BY <1>n
    <3> QED BY <3>1
  <2>2. lpTimestamp' = lpTimestamp \o new
    BY <1>3 DEF BeginSweep
  <2>3. lpTimestamp \in Seq(Int) /\ Len(lpTimestamp) = n
    BY <1>1, <1>3 DEF Times
  <2> HIDE DEF new
  <2>4. /\ lpTimestamp' \in Seq(Int) /\ Len(lpTimestamp') = n + (m - n)
        /\ \A i \in 1..n + (m - n) :
              lpTimestamp'[i] = IF i <= n THEN lpTimestamp[i] ELSE new[i - n]
    <3>1. lpTimestamp \o new \in Seq(Int)
      BY <2>1, <2>3, ConcatProperties
    <3>2. Len(lpTimestamp \o new) = Len(lpTimestamp) + Len(new)
      BY <2>1, <2>3, ConcatProperties
    <3>3. \A i \in 1..Len(lpTimestamp) + Len(new) :
             (lpTimestamp \o new)[i] = IF i <= Len(lpTimestamp) THEN lpTimestamp[i]
                                       ELSE new[i - Len(lpTimestamp)]
      BY <2>1, <2>3, ConcatProperties
    <3> QED BY <2>1, <2>2, <2>3, <3>1, <3>2, <3>3
  <2>5. n + (m - n) = m /\ \A i \in n + 1..m : i - n \in 1..m - n /\ ~(i <= n) /\ i \in 1..m
    BY <1>n
  <2>6. \A i \in 1..n : i \in 1..m /\ i <= n
    BY <1>n
  <2> QED BY <2>1, <2>3, <2>4, <2>5, <2>6, LenProperties
<1>5. Times'
  <2> SUFFICES ASSUME NEW k \in 0..m - 1 PROVE Time(k)' = -1 \/ Settled(k)'
    BY <1>1, <1>3, <1>4 DEF Times
  <2>1. CASE k \notin 0..n - 1
    <3>1. k + 1 \in n + 1..m
      BY <1>n, <2>1
    <3> QED BY <1>4, <3>1 DEF Time
  <2>2. CASE k \in 0..n - 1
    <3>1. \A i \in StepIDs : Time(i)' = Time(i)
      <4>1. \A i \in 0..n - 1 : i + 1 \in 1..n
        OBVIOUS
      <4> QED BY <1>3, <1>4, <4>1 DEF Time
    <3>2. Settled(k)
      BY <1>1, <1>3, <2>2 DEF Times, BeginSweep
    <3>3. /\ StepOf(k)' = StepOf(k) /\ StepsBefore(k)' = StepsBefore(k)
          /\ \A b : Gap(b, k)' = Gap(b, k)
      BY <1>1, <1>3, <2>2, HeaderStays
    <3> QED BY <1>1, <1>3, <2>2, <3>1, <3>2, <3>3, SettledStays
  <2> QED BY <2>1, <2>2
<1> DEFINE before(k) == {b \in 0..m - 1 : <<b, k>> \in stepsBefore'}
           firsts == {k \in 0..m - 1 : before(k) = {}}
<1>6. /\ fanIn' = [i \in 1..m |-> Cardinality(before(i - 1))]
      /\ visit' = Ascending(firsts)
  BY <1>3 DEF BeginSweep
<1>7. \A k : StepsBefore(k)' = before(k) /\ IsFiniteSet(before(k))
  <2> SUFFICES ASSUME NEW k PROVE StepsBefore(k)' = before(k) /\ IsFiniteSet(before(k))
    OBVIOUS
  <2>1. StepsBefore(k)' = before(k)
    BY <1>2, <1>3, NextPredecessors
  <2>2. before(k) \in SUBSET StepIDs'
    BY <1>3
  <2> QED BY <1>2, <2>1, <2>2, NextPredecessors
<1>8. visit' \in Seq(0..m - 1) /\ NoRepeats(visit') /\ Range(visit') = firsts
  <2>1. firsts \in SUBSET (0..m - 1)
    OBVIOUS
  <2> HIDE DEF firsts
  <2> QED BY <1>6, <2>1, AscendingLists
<1>9. \A k \in 0..m - 1 : /\ fanIn'[k + 1] = Cardinality(before(k))
                          /\ fanIn'[k + 1] \in Nat /\ (fanIn'[k + 1] = 0 <=> k \in firsts)
  <2> SUFFICES ASSUME NEW k \in 0..m - 1
               PROVE  /\ fanIn'[k + 1] = Cardinality(before(k))
                      /\ fanIn'[k + 1] \in Nat /\ (fanIn'[k + 1] = 0 <=> k \in firsts)
    OBVIOUS
  <2>1. k + 1 \in 1..m /\ (k + 1) - 1 = k
    OBVIOUS
  <2>2. fanIn'[k + 1] = Cardinality(before(k))
    BY <1>6, <2>1
  <2>3. Cardinality(before(k)) \in Nat /\ (Cardinality(before(k)) = 0 <=> before(k) = {})
    BY <1>7, FS_CardinalityType, FS_EmptySet
  <2> QED BY <2>2, <2>3
<1>10. \A k \in firsts : k \in 0..m - 1
  OBVIOUS
<1>11. fanIn' \in [1..m -> Nat]
  <2>1. \A i \in 1..m : i - 1 \in 0..m - 1 /\ (i - 1) + 1 = i
    OBVIOUS
  <2> HIDE DEF before, firsts
  <2>2. \A i \in 1..m : fanIn'[i] \in Nat
    BY <1>9, <2>1
  <2> QED BY <1>6, <2>2
<1> HIDE DEF firsts
<1>12. Visited' = {}
  <2>1. \A k \in StepIDs' : ~(fanIn'[k + 1] = 0 /\ k \notin Range(visit'))
    BY <1>3, <1>8, <1>9
  <2> QED BY <2>1 DEF Visited
<1>13. \A k : Unvisited(k)' = before(k)
  BY <1>7, <1>12 DEF Unvisited
<1>14. Sweep'
  BY <1>3, <1>8, <1>9, <1>10, <1>11, <1>12, <1>13 DEF Sweep
<1> QED BY <1>2, <1>4, <1>5, <1>14 DEF SchedInv

-----------------------------------------------------------------------------
(* The timestamp a visit gives to step k.                                  *)
VisitTime(k) == IF StepsBefore(k) = {} THEN 0 ELSE EarliestAfter(k)

(* It is the least one that the step's predecessors and its duration       *)
(* allow, which for a step of the header is the one that it has.           *)
LEMMA VisitTimeIsEarliest ==
    ASSUME TypeInv, Shape, Times, NEW k \in StepIDs,
           \A b \in StepsBefore(k) : Time(b) # -1
    PROVE  /\ VisitTime(k) \in Int /\ VisitTime(k) >= 0
           /\ Time(k) # -1 => VisitTime(k) = Time(k)
           /\ StepsBefore(k) = {} => VisitTime(k) = 0
           /\ \A b \in StepsBefore(k) : Time(b) + Gap(b, k) <= VisitTime(k)
           /\ StepOf(k).spec = "END" =>
                 Time(k - 1) + MinDuration[StepOf(k).act] <= VisitTime(k)
           /\ \/ VisitTime(k) = 0
              \/ \E b \in StepsBefore(k) : VisitTime(k) = Time(b) + Gap(b, k)
              \/ /\ StepOf(k).spec = "END"
                 /\ VisitTime(k) = Time(k - 1) + MinDuration[StepOf(k).act]
<1>1. PICK n \in Nat : n = planLength /\ StepIDs = 0..n - 1
  BY Predecessors
<1>2. StepsBefore(k) \subseteq StepIDs /\ IsFiniteSet(StepsBefore(k))
  BY Predecessors
<1>3. \A i \in StepIDs : Time(i) \in Int /\ (Time(i) # -1 => Settled(i))
  <2>1. \A i \in 0..n - 1 : i + 1 \in 1..n
    OBVIOUS
  <2>2. \A i \in 1..n : lpTimestamp[i] \in Int
    BY <1>1, ElementOfSeq DEF Times
  <2> QED BY <1>1, <2>1, <2>2 DEF Time, Times
<1>4. \A b \in StepsBefore(k) : /\ Time(b) \in Int /\ Time(b) >= 0
                                /\ Time(b) + Gap(b, k) \in Int /\ Time(b) + Gap(b, k) >= 0
  <2>1. \A b : Gap(b, k) \in {0, 1}
    BY DEF Gap
  <2>2. \A b \in StepsBefore(k) : Time(b) \in Int /\ Time(b) >= 0
    BY <1>2, <1>3 DEF Settled
  <2> QED BY <2>1, <2>2
<1>5. StepOf(k).spec = "END" =>
         /\ k - 1 \in StepsBefore(k) /\ MinDuration[StepOf(k).act] \in Nat
         /\ Time(k - 1) \in Int /\ Time(k - 1) >= 0
  <2> SUFFICES ASSUME StepOf(k).spec = "END"
               PROVE  /\ k - 1 \in StepsBefore(k) /\ MinDuration[StepOf(k).act] \in Nat
                      /\ Time(k - 1) \in Int /\ Time(k - 1) >= 0
    OBVIOUS
  <2>1. k - 1 \in StepsBefore(k) /\ StepOf(k).act \in Durative
    BY DEF Shape
  <2>2. MinDuration[StepOf(k).act] \in Nat
    BY <2>1, DurationAssumption
  <2> QED BY <1>4, <2>1, <2>2
<1>6. CASE StepsBefore(k) = {}
  <2>1. VisitTime(k) = 0 /\ StepOf(k).spec # "END"
    BY <1>5, <1>6 DEF VisitTime
  <2>2. Time(k) # -1 => Time(k) = 0
    BY <1>3, <1>6 DEF Settled
  <2> QED BY <1>6, <2>1, <2>2
<1>7. CASE StepsBefore(k) # {}
  <2> DEFINE befores == {Time(b) + Gap(b, k) : b \in StepsBefore(k)}
             bounds  == {Time(k)} \cup befores \cup AfterPairedStart(k)
  <2>1. AfterPairedStart(k) = IF StepOf(k).spec = "END"
                              THEN {Time(k - 1) + MinDuration[StepOf(k).act]} ELSE {}
    <3>1. (k - 1) + 1 = k
      BY <1>1
    <3> QED BY <3>1 DEF AfterPairedStart, Time
  <2>2. VisitTime(k) = Max(bounds)
    BY <1>7 DEF VisitTime, EarliestAfter, Time, Gap
  <2>3. bounds \in SUBSET Int /\ bounds # {}
    <3>1. befores \subseteq Int
      BY <1>4
    <3>2. AfterPairedStart(k) \subseteq Int
      BY <1>5, <2>1
    <3>3. Time(k) \in Int
      BY <1>3
    <3> HIDE DEF befores
    <3> QED BY <3>1, <3>2, <3>3
  <2>4. IsFiniteSet(bounds)
    <3>1. IsFiniteSet(befores)
      <4> DEFINE f == [b \in StepsBefore(k) |-> Time(b) + Gap(b, k)]
      <4>1. f \in Surjection(StepsBefore(k), befores)
        BY DEF Surjection
      <4> HIDE DEF f, befores
      <4> QED BY <1>2, <4>1, FS_Surjection
    <3>2. IsFiniteSet(AfterPairedStart(k)) /\ IsFiniteSet({Time(k)})
      BY <2>1, FS_Singleton, FS_EmptySet
    <3> HIDE DEF befores
    <3> QED BY <3>1, <3>2, FS_Union
  <2> DEFINE t == Max(bounds)
  <2>5. t \in bounds /\ \A x \in bounds : t >= x
    BY <2>3, <2>4, MaxIsGreatest
  <2> HIDE DEF t
  <2>6. \A b \in StepsBefore(k) : t >= Time(b) + Gap(b, k)
    BY <2>5
  <2>7. t >= Time(k)
    BY <2>5
  <2>8. StepOf(k).spec = "END" => t >= Time(k - 1) + MinDuration[StepOf(k).act]
    BY <2>1, <2>5
  <2>9. t \in Int /\ t >= 0
    <3>1. PICK b \in StepsBefore(k) : t >= Time(b) + Gap(b, k)
      BY <1>7, <2>6
    <3>2. t \in Int
      BY <2>3, <2>5
    <3> QED BY <1>4, <3>1, <3>2
  <2>10. Time(k) # -1 => t = Time(k)
    <3> SUFFICES ASSUME Time(k) # -1 PROVE t <= Time(k)
      BY <1>3, <2>7, <2>9
    <3>1. Settled(k)
      BY <1>3
    <3>2. \A x \in bounds : x <= Time(k)
      BY <1>3, <2>1, <3>1 DEF Settled
    <3> QED BY <2>5, <3>2
  <2>11. \/ t = Time(k)
         \/ \E b \in StepsBefore(k) : t = Time(b) + Gap(b, k)
         \/ StepOf(k).spec = "END" /\ t = Time(k - 1) + MinDuration[StepOf(k).act]
    BY <2>1, <2>5
  <2>12. \/ t = 0
         \/ \E b \in StepsBefore(k) : t = Time(b) + Gap(b, k)
         \/ StepOf(k).spec = "END" /\ t = Time(k - 1) + MinDuration[StepOf(k).act]
    <3>1. CASE t = Time(k)
      <4>1. Settled(k)
        BY <1>3, <2>9, <3>1
      <4> QED BY <3>1, <4>1 DEF Settled, HeldBack
    <3> QED BY <2>11, <3>1
  <2>13. /\ \A b \in StepsBefore(k) : Time(b) + Gap(b, k) <= t
         /\ StepOf(k).spec = "END" => Time(k - 1) + MinDuration[StepOf(k).act] <= t
    BY <1>4, <1>5, <2>6, <2>8, <2>9
  <2>14. VisitTime(k) = t
    BY <2>2 DEF t
  <2> HIDE DEF bounds
  <2> QED BY <1>7, <2>9, <2>10, <2>12, <2>13, <2>14
<1> QED BY <1>6, <1>7

(* The listed step is ready; after the visit it is visited, the steps that *)
(* it was the last predecessor of are listed.                              *)
LEMMA VisitsListed ==
    ASSUME TypeInv, Shape, Sweep, visit # <<>>,
           NEW k, k = Head(visit)
    PROVE  /\ k \in StepIDs /\ k \in Range(visit)
           /\ \A b \in StepsBefore(k) : b \in Visited
<1>1. Range(<<>>) = {} /\ <<>> \in Seq(StepIDs) /\ NoRepeats(<<>>)
  BY DEF Range, NoRepeats
<1>2. k \in StepIDs /\ k \in Range(visit)
  BY <1>1, Queueing DEF Sweep
<1>3. Cardinality(Unvisited(k)) = 0
  BY <1>2 DEF Sweep
<1>4. Unvisited(k) \subseteq StepIDs
  BY Predecessors DEF Unvisited
<1>5. Unvisited(k) = {}
  BY <1>3, <1>4, Predecessors, FS_EmptySet
<1> QED BY <1>2, <1>5 DEF Unvisited

LEMMA VisitsSweep ==
    ASSUME TypeInv, Shape, Sweep, VisitStep,
           \A i \in StepIDs : Time(i) # -1 => Time(i)' # -1,
           NEW k, k = Head(visit), Time(k)' # -1
    PROVE  Sweep'
<1>1. /\ k \in StepIDs /\ k \in Range(visit)
      /\ \A b \in StepsBefore(k) : b \in Visited
  BY VisitsListed DEF VisitStep
<1>2. PICK n \in Nat : n = planLength /\ StepIDs = 0..n - 1
  BY Predecessors
<1>3. /\ StepIDs' = StepIDs /\ planLength' = planLength /\ stepsBefore' = stepsBefore
      /\ \A i : StepsBefore(i)' = StepsBefore(i)
  BY DEF VisitStep, vars, stateVars, StepIDs, StepsBefore
<1>4. /\ fanIn \in [1..n -> Nat] /\ NoRepeats(visit) /\ visit \in Seq(0..n - 1)
      /\ \A i \in 0..n - 1 : i + 1 \in 1..n /\ fanIn[i + 1] \in Nat
                             /\ fanIn[i + 1] = Cardinality(Unvisited(i))
      /\ \A i \in Range(visit) : fanIn[i + 1] = 0
  <2>1. \A i \in 0..n - 1 : i + 1 \in 1..n
    OBVIOUS
  <2>2. fanIn \in [1..n -> Nat]
    BY <1>2 DEF Sweep
  <2> QED BY <1>2, <2>1, <2>2 DEF Sweep
<1>5. /\ Unlocked(k) \in SUBSET (0..n - 1)
      /\ \A i \in 0..n - 1 : i \in FanOut(k) <=> k \in StepsBefore(i)
      /\ \A i : i \in Unlocked(k) <=> i \in FanOut(k) /\ fanIn[i + 1] = 1
      /\ FanOut(k) \subseteq 0..n - 1
  <2>1. \A i \in 0..n - 1 : i \in FanOut(k) <=> k \in StepsBefore(i)
    <3>1. FanOut(k) = {b \in StepIDs : <<k, b>> \in stepsBefore}
      BY Predecessors
    <3>2. \A i : StepsBefore(i) = {b \in StepIDs : <<b, i>> \in stepsBefore}
      BY Predecessors
    <3> QED BY <1>1, <1>2, <3>1, <3>2
  <2>2. FanOut(k) \subseteq 0..n - 1
    BY <1>2, Predecessors
  <2> QED BY <2>1, <2>2 DEF Unlocked
<1>6. /\ visit' \in Seq(0..n - 1) /\ NoRepeats(visit')
      /\ Range(visit') = (Range(visit) \ {k}) \cup Unlocked(k)
  <2>1. /\ Ascending(Unlocked(k)) \in Seq(0..n - 1)
        /\ NoRepeats(Ascending(Unlocked(k))) /\ Range(Ascending(Unlocked(k))) = Unlocked(k)
    BY <1>5, AscendingLists
  <2>2. Unlocked(k) \cap Range(visit) = {}
    <3>1. \A i \in Range(visit) : fanIn[i + 1] # 1
      BY <1>4
    <3>2. \A i \in Unlocked(k) : fanIn[i + 1] = 1
      BY <1>5
    <3> QED BY <3>1, <3>2
  <2>3. visit' = Tail(visit) \o Ascending(Unlocked(k)) /\ visit # <<>>
    BY DEF VisitStep
  <2> QED BY <1>4, <2>1, <2>2, <2>3, Queueing
<1>7. \A i \in 0..n - 1 :
         fanIn'[i + 1] = IF i \in FanOut(k) THEN fanIn[i + 1] - 1 ELSE fanIn[i + 1]
  <2>1. fanIn' = [i \in DOMAIN fanIn |-> IF i - 1 \in FanOut(k) THEN fanIn[i] - 1 ELSE fanIn[i]]
    BY DEF VisitStep
  <2>2. \A i \in 0..n - 1 : (i + 1) - 1 = i
    OBVIOUS
  <2> QED BY <1>4, <2>1, <2>2
<1>8. k \notin Visited /\ \A i \in FanOut(k) : k \in Unvisited(i)
  BY <1>1, <1>5 DEF Visited, Unvisited
<1>9. \A i \in 0..n - 1 : /\ IsFiniteSet(Unvisited(i))
                          /\ k \in Unvisited(i) <=> i \in FanOut(k)
  <2>1. \A i : Unvisited(i) \subseteq StepsBefore(i)
    BY DEF Unvisited
  <2>2. \A i : StepsBefore(i) \subseteq StepIDs /\ \A T \in SUBSET StepIDs : IsFiniteSet(T)
    BY Predecessors
  <2>3. \A i : IsFiniteSet(Unvisited(i))
    BY <2>1, <2>2
  <2> QED BY <1>5, <1>8, <2>1, <2>3
<1>10. \A i \in 0..n - 1 : /\ fanIn'[i + 1] = Cardinality(Unvisited(i) \ {k})
                           /\ fanIn'[i + 1] \in Nat
  <2> SUFFICES ASSUME NEW i \in 0..n - 1
               PROVE  /\ fanIn'[i + 1] = Cardinality(Unvisited(i) \ {k})
                      /\ fanIn'[i + 1] \in Nat
    OBVIOUS
  <2>1. /\ Cardinality(Unvisited(i) \ {k}) =
             IF k \in Unvisited(i) THEN Cardinality(Unvisited(i)) - 1
                                   ELSE Cardinality(Unvisited(i))
        /\ Cardinality(Unvisited(i) \ {k}) \in Nat
    BY <1>9, FS_RemoveElement, FS_CardinalityType
  <2>2. fanIn[i + 1] = Cardinality(Unvisited(i))
    BY <1>4
  <2> QED BY <1>7, <1>9, <2>1, <2>2
<1>11. \A i \in 0..n - 1 : fanIn'[i + 1] = 0 <=> fanIn[i + 1] = 0 \/ i \in Unlocked(k)
  <2> SUFFICES ASSUME NEW i \in 0..n - 1
               PROVE  fanIn'[i + 1] = 0 <=> fanIn[i + 1] = 0 \/ i \in Unlocked(k)
    OBVIOUS
  <2>1. fanIn[i + 1] \in Nat /\ fanIn'[i + 1] \in Nat
    BY <1>4, <1>10
  <2>2. CASE i \in FanOut(k)
    BY <1>5, <1>7, <2>1, <2>2
  <2>3. CASE i \notin FanOut(k)
    BY <1>5, <1>7, <2>1, <2>3
  <2> QED BY <2>2, <2>3
<1>12. \A i \in 0..n - 1 : i \in Visited' <=> i \in Visited \/ i = k
  <2> SUFFICES ASSUME NEW i \in 0..n - 1
               PROVE  i \in Visited' <=> i \in Visited \/ i = k
    OBVIOUS
  <2>1. i \in Visited' <=> fanIn'[i + 1] = 0 /\ i \notin Range(visit')
    BY <1>2, <1>3 DEF Visited
  <2>2. i \in Visited <=> fanIn[i + 1] = 0 /\ i \notin Range(visit)
    BY <1>2 DEF Visited
  <2>3. i \in Unlocked(k) => fanIn[i + 1] = 1
    BY <1>5
  <2>4. fanIn[k + 1] = 0
    BY <1>1, <1>4
  <2> QED BY <1>1, <1>6, <1>11, <2>1, <2>2, <2>3, <2>4
<1>13. \A i \in 0..n - 1 : Unvisited(i)' = Unvisited(i) \ {k}
  <2>1. \A i : StepsBefore(i) \subseteq 0..n - 1
    BY <1>2, Predecessors
  <2> QED BY <1>3, <1>12, <2>1 DEF Unvisited
<1>14. fanIn' \in [1..n -> Nat]
  <2>1. \A i \in 1..n : i - 1 \in 0..n - 1 /\ (i - 1) + 1 = i
    OBVIOUS
  <2>2. \A i \in 1..n : fanIn'[i] \in Nat
    BY <1>10, <2>1
  <2>3. fanIn' = [i \in 1..n |-> fanIn'[i]]
    BY <1>4 DEF VisitStep
  <2> QED BY <2>2, <2>3
<1>15. \A i \in Range(visit') : fanIn'[i + 1] = 0
  <2>1. \A i \in Range(visit) : i \in 0..n - 1
    BY <1>4, RangeOfSeq
  <2> QED BY <1>4, <1>5, <1>6, <1>11, <2>1
<1>16. \A i \in Visited' : Time(i)' # -1
  <2>1. \A i \in Visited : Time(i) # -1
    BY DEF Sweep
  <2>2. \A i \in Visited' : i \in 0..n - 1
    BY <1>2, <1>3 DEF Visited
  <2> QED BY <1>2, <1>12, <2>1, <2>2
<1> QED BY <1>2, <1>3, <1>6, <1>10, <1>13, <1>14, <1>15, <1>16 DEF Sweep

LEMMA VisitsTimes ==
    ASSUME SchedInv, VisitStep, NEW k, k = Head(visit)
    PROVE  /\ Times' /\ Time(k)' # -1
           /\ \A i \in DOMAIN lpTimestamp :
                 lpTimestamp[i] # -1 => lpTimestamp'[i] = lpTimestamp[i]
<1>1. TypeInv /\ Shape /\ Times /\ Sweep /\ visit # <<>> /\ sweeping /\ sweeping'
  BY DEF SchedInv, VisitStep
<1>2. k \in StepIDs /\ \A b \in StepsBefore(k) : b \in Visited
  BY <1>1, VisitsListed
<1>3. PICK n \in Nat : n = planLength /\ StepIDs = 0..n - 1
  BY <1>1, Predecessors
<1>4. /\ StepIDs' = StepIDs /\ planLength' = planLength
      /\ \A i : /\ StepsBefore(i)' = StepsBefore(i) /\ StepOf(i)' = StepOf(i)
                /\ \A b : Gap(b, i)' = Gap(b, i)
  BY DEF VisitStep, vars, stateVars, StepIDs, StepsBefore, StepOf, Gap
<1>5. lpTimestamp \in Seq(Int) /\ Len(lpTimestamp) = n /\ DOMAIN lpTimestamp = 1..n
  BY <1>1, <1>3, LenProperties DEF Times
<1> DEFINE t == VisitTime(k)
<1>6. lpTimestamp' = [lpTimestamp EXCEPT ![k + 1] = t]
  BY DEF VisitStep, VisitTime
<1>7. /\ t \in Int /\ t >= 0
      /\ Time(k) # -1 => t = Time(k)
      /\ StepsBefore(k) = {} => t = 0
      /\ \A b \in StepsBefore(k) : Time(b) + Gap(b, k) <= t
      /\ StepOf(k).spec = "END" => Time(k - 1) + MinDuration[StepOf(k).act] <= t
      /\ \/ t = 0
         \/ \E b \in StepsBefore(k) : t = Time(b) + Gap(b, k)
         \/ StepOf(k).spec = "END" /\ t = Time(k - 1) + MinDuration[StepOf(k).act]
  <2>1. \A b \in StepsBefore(k) : Time(b) # -1
    BY <1>1, <1>2 DEF Sweep
  <2> QED BY <1>1, <1>2, <2>1, VisitTimeIsEarliest
<1> HIDE DEF t
<1>8. /\ k + 1 \in 1..n /\ \A i \in 0..n - 1 : i + 1 \in 1..n /\ (i # k => i + 1 # k + 1)
  BY <1>2, <1>3
<1>9. /\ lpTimestamp' \in Seq(Int) /\ Len(lpTimestamp') = n
      /\ \A i \in 1..n : lpTimestamp'[i] = IF i = k + 1 THEN t ELSE lpTimestamp[i]
  BY <1>5, <1>6, <1>7, <1>8, ExceptSeq
<1>10. Time(k)' = t /\ \A i \in 0..n - 1 : i # k => Time(i)' = Time(i)
  BY <1>8, <1>9 DEF Time
<1>11. \A i \in StepIDs : Time(i) # -1 => Time(i)' = Time(i)
  BY <1>3, <1>7, <1>10
<1>12. Settled(k)'
  <2>1. \A b \in StepsBefore(k) : b \in 0..n - 1 /\ b # k /\ Time(b) # -1
    <3>1. \A b \in StepsBefore(k) : b \in StepIDs /\ <<b, k>> \in stepsBefore
      BY <1>1, Predecessors
    <3>2. \A b : <<b, k>> \in stepsBefore => b < k
      BY <1>1 DEF Shape
    <3>3. ~(k < k)
      BY <1>2, <1>3
    <3> QED BY <1>1, <1>2, <1>3, <3>1, <3>2, <3>3 DEF Sweep
  <2>2. \A b \in StepsBefore(k) : Time(b)' = Time(b)
    BY <1>10, <2>1
  <2>3. StepOf(k).spec = "END" => k - 1 \in StepsBefore(k)
    BY <1>1, <1>2 DEF Shape
  <2>4. StepOf(k).spec = "END" => Time(k - 1)' = Time(k - 1)
    BY <2>2, <2>3
  <2>5. HeldBack(k)'
    BY <1>4, <1>7, <1>10, <2>2, <2>4 DEF HeldBack
  <2> QED BY <1>4, <1>7, <1>10, <2>1, <2>2, <2>4, <2>5 DEF Settled
<1>13. \A i \in StepIDs : Time(i)' = -1 \/ Settled(i)'
  <2> SUFFICES ASSUME NEW i \in StepIDs, i # k, Time(i) # -1 PROVE Settled(i)'
    BY <1>3, <1>10, <1>12
  <2>1. Settled(i)
    BY <1>1 DEF Times
  <2> QED BY <1>1, <1>4, <1>11, <2>1, SettledStays
<1>14. Times'
  BY <1>1, <1>3, <1>4, <1>9, <1>13 DEF Times
<1>15. Time(k)' # -1
  BY <1>7, <1>10
<1>16. \A i \in 1..n : lpTimestamp[i] # -1 => lpTimestamp'[i] = lpTimestamp[i]
  BY <1>7, <1>9 DEF Time
<1> QED BY <1>5, <1>14, <1>15, <1>16

-----------------------------------------------------------------------------
(* A step that no visit reached would have a predecessor that none reached,*)
(* and that is a lower step: there is no lowest one.                       *)
LEMMA EndsWhenAllVisited ==
    ASSUME SchedInv, EndSweep
    PROVE  \A k \in StepIDs : k \in Visited /\ Time(k) # -1
<1>1. TypeInv /\ Shape /\ Sweep /\ visit = <<>>
  BY DEF SchedInv, EndSweep
<1>2. PICK n \in Nat : StepIDs = 0..n - 1
  BY <1>1, Predecessors
<1>3. Range(visit) = {}
  BY <1>1 DEF Range
<1> DEFINE missed == {k \in 0..n - 1 : k \notin Visited}
<1>4. ASSUME missed # {} PROVE FALSE
  <2>1. missed \in SUBSET Nat
    OBVIOUS
  <2>2. PICK k \in missed : \A j \in missed : k <= j
    BY <1>4, <2>1, LeastNumber
  <2>3. k \in StepIDs /\ k \notin Visited
    BY <1>2
  <2>4. \A b \in StepsBefore(k) : b \in StepIDs /\ b < k
    <3>1. \A b \in StepsBefore(k) : b \in StepIDs /\ <<b, k>> \in stepsBefore
      BY <1>1, Predecessors
    <3>2. \A b : <<b, k>> \in stepsBefore => b < k
      BY <1>1 DEF Shape
    <3> QED BY <3>1, <3>2
  <2>5. \A b \in StepsBefore(k) : b \in Visited
    <3> SUFFICES ASSUME NEW b \in StepsBefore(k), b \notin Visited PROVE FALSE
      OBVIOUS
    <3>1. b \in missed /\ b < k
      BY <1>2, <2>4
    <3>2. b \in Int /\ k \in Int /\ k <= b
      BY <2>1, <2>2, <3>1
    <3> QED BY <3>1, <3>2
  <2>6. Unvisited(k) = {}
    BY <2>5 DEF Unvisited
  <2>7. fanIn[k + 1] = 0
    BY <1>1, <2>3, <2>6, FS_EmptySet DEF Sweep
  <2> QED BY <1>3, <2>3, <2>7 DEF Visited
<1>5. \A k \in StepIDs : k \in Visited
  BY <1>2, <1>4
<1> QED BY <1>1, <1>5 DEF Sweep

LEMMA InitSched == SchedInit => SchedInv
<1> SUFFICES ASSUME SchedInit PROVE SchedInv
  OBVIOUS
<1>1. TypeInv
  BY InitTypes DEF SchedInit
<1>2. StepIDs = {} /\ planLength = 0 /\ stepsBefore = {} /\ SafeToUseThis
      /\ startedActions = [a \in Actions |-> {}] /\ lpTimestamp = <<>> /\ sweeping = FALSE
  BY DEF SchedInit, Init, StepIDs
<1>3. Shape
  BY <1>2 DEF Shape
<1>4. Times
  BY <1>2 DEF Times
<1> QED BY <1>1, <1>2, <1>3, <1>4 DEF SchedInv

LEMMA NextSched ==
    SchedInv /\ [SchedNext]_<<vars, schedVars>> =>
        /\ SchedInv'
        /\ \A i \in DOMAIN lpTimestamp : lpTimestamp[i] # -1 => lpTimestamp'[i] = lpTimestamp[i]
<1> SUFFICES ASSUME SchedInv, [SchedNext]_<<vars, schedVars>>
             PROVE  /\ SchedInv'
                    /\ \A i \in DOMAIN lpTimestamp :
                          lpTimestamp[i] # -1 => lpTimestamp'[i] = lpTimestamp[i]
  OBVIOUS
<1>1. TypeInv /\ Shape /\ Times
  BY DEF SchedInv
<1>2. CASE BeginSweep
  BY <1>2, BeginsSweep
<1>3. UNCHANGED vars => /\ TypeInv' /\ Shape' /\ StepIDs' = StepIDs
                        /\ planLength' = planLength
  <2> SUFFICES ASSUME UNCHANGED vars
               PROVE  TypeInv' /\ Shape' /\ StepIDs' = StepIDs /\ planLength' = planLength
    OBVIOUS
  <2>1. TypeInv'
    BY <1>1, NextTypes
  <2>2. StepIDs' = StepIDs /\ planLength' = planLength
    BY DEF vars, stateVars, StepIDs
  <2>3. Shape'
    BY <1>1, <2>2 DEF vars, stateVars, Shape, StepOf, StepsBefore
  <2> QED BY <2>1, <2>2, <2>3
<1>4. CASE VisitStep
  <2>1. PICK k : k = Head(visit)
    OBVIOUS
  <2>2. /\ Times' /\ Time(k)' # -1
        /\ \A i \in DOMAIN lpTimestamp : lpTimestamp[i] # -1 => lpTimestamp'[i] = lpTimestamp[i]
    BY <1>4, <2>1, VisitsTimes
  <2>3. Sweep /\ sweeping
    BY <1>4 DEF SchedInv, VisitStep
  <2>4. \A i \in StepIDs : i + 1 \in DOMAIN lpTimestamp
    <3>1. PICK n \in Nat : n = planLength /\ StepIDs = 0..n - 1
      BY <1>1, Predecessors
    <3>2. DOMAIN lpTimestamp = 1..n
      BY <1>1, <3>1, LenProperties DEF Times
    <3>3. \A i \in 0..n - 1 : i + 1 \in 1..n
      OBVIOUS
    <3> QED BY <3>1, <3>2, <3>3
  <2>5. \A i \in StepIDs : Time(i) # -1 => Time(i)' # -1
    BY <2>2, <2>4 DEF Time
  <2>6. Sweep'
    BY <1>1, <1>4, <2>1, <2>2, <2>3, <2>5, VisitsSweep
  <2>7. UNCHANGED <<vars, sweeping>>
    BY <1>4 DEF VisitStep
  <2> QED BY <1>3, <2>2, <2>6, <2>7 DEF SchedInv
<1>5. CASE EndSweep
  <2>1. \A k \in StepIDs : Time(k) # -1
    BY <1>5, EndsWhenAllVisited
  <2>2. UNCHANGED <<vars, visit, fanIn, lpTimestamp>> /\ sweeping' = FALSE
    BY <1>5 DEF EndSweep
  <2>3. Times'
    BY <1>1, <1>3, <2>1, <2>2
       DEF Times, Time, Settled, HeldBack, Gap, StepOf, StepsBefore, vars, stateVars
  <2> QED BY <1>3, <2>2, <2>3 DEF SchedInv
<1>6. CASE UNCHANGED <<vars, schedVars>>
  <2>1. UNCHANGED <<vars, sweeping, visit, fanIn, lpTimestamp>>
    BY <1>6 DEF schedVars
  <2>2. Times'
    BY <1>1, <1>3, <2>1
       DEF Times, Time, Settled, HeldBack, Gap, StepOf, StepsBefore, vars, stateVars
  <2>3. Sweep => Sweep'
    BY <1>3, <2>1
       DEF Sweep, Visited, Unvisited, Time, StepsBefore, vars, stateVars
  <2> QED BY <1>3, <2>1, <2>2, <2>3 DEF SchedInv
<1> QED BY <1>2, <1>4, <1>5, <1>6 DEF SchedNext

-----------------------------------------------------------------------------
(* CompressionSafeScheduler::assignTimestamps gives timestamps that satisfy*)
(* every ordering of the state and the minimum duration of every action.   *)
THEOREM SchedulesAreConsistent == SchedSpec => []ScheduleIsConsistent
<1>1. SchedInv => ScheduleIsConsistent
  <2> SUFFICES ASSUME SchedInv, Scheduled PROVE
        /\ \A edge \in stepsBefore :
              Time(edge[1]) + (IF edge \in epsilonBefore THEN 1 ELSE 0) <= Time(edge[2])
        /\ \A k \in StepIDs : StepOf(k).spec = "START" =>
              Time(PendingEnd(k)) >= Time(k) + MinDuration[StepOf(k).act]
    BY DEF ScheduleIsConsistent
  <2>1. TypeInv /\ Shape /\ \A k \in StepIDs : Settled(k)
    BY DEF SchedInv, Times, Scheduled
  <2>2. ASSUME NEW edge \in stepsBefore
        PROVE  Time(edge[1]) + (IF edge \in epsilonBefore THEN 1 ELSE 0) <= Time(edge[2])
    <3>1. edge = <<edge[1], edge[2]>> /\ edge[1] \in StepIDs /\ edge[2] \in StepIDs
      BY <2>1 DEF TypeInv, TypeOK
    <3>2. edge[1] \in StepsBefore(edge[2])
      BY <3>1 DEF StepsBefore
    <3> QED BY <2>1, <3>1, <3>2 DEF Settled, Gap
  <2>3. ASSUME NEW k \in StepIDs, StepOf(k).spec = "START"
        PROVE  Time(PendingEnd(k)) >= Time(k) + MinDuration[StepOf(k).act]
    <3>1. k + 1 \in StepIDs /\ StepOf(k + 1) = [spec |-> "END", act |-> StepOf(k).act]
      BY <2>1, <2>3 DEF Shape
    <3>2. StepOf(k + 1).spec = "END" /\ StepOf(k + 1).act = StepOf(k).act /\ (k + 1) - 1 = k
      BY <2>1, <3>1, Predecessors
    <3> QED BY <2>1, <3>1, <3>2 DEF Settled, PendingEnd
  <2> QED BY <2>2, <2>3
<1> QED BY InitSched, NextSched, <1>1, PTL DEF SchedSpec

(* They are the earliest: what the sweep puts later than 0 is held back by *)
(* a predecessor or by the duration of the action it ends.                 *)
THEOREM SchedulesAreEarliest == SchedSpec => []ScheduleIsEarliest
<1>1. SchedInv => ScheduleIsEarliest
  BY DEF SchedInv, Times, Settled, HeldBack, Gap, Scheduled, ScheduleIsEarliest
<1> QED BY InitSched, NextSched, <1>1, PTL DEF SchedSpec

(* The steps of the header, swept again, get the timestamps they have.     *)
THEOREM HeadersAreNeverMoved == SchedSpec => HeaderKeepsItsTimes
<1> DEFINE Kept == \A i \in DOMAIN lpTimestamp :
                      lpTimestamp[i] # -1 => lpTimestamp'[i] = lpTimestamp[i]
<1>1. SchedInv /\ [SchedNext]_<<vars, schedVars>> => [Kept]_lpTimestamp
  BY NextSched
<1> QED BY InitSched, NextSched, <1>1, PTL DEF SchedSpec, HeaderKeepsItsTimes

(* The visits leave no step out: when assignTimestamps returns, all of the *)
(* steps have a timestamp (that it returns is left to the runs).           *)
SweptStepsAreTimed == Scheduled => \A k \in StepIDs : Time(k) >= 0
THEOREM SweepsMissNoStep == SchedSpec => []SweptStepsAreTimed
<1>1. SchedInv => SweptStepsAreTimed
  BY DEF SchedInv, Times, Settled, Scheduled, SweptStepsAreTimed
<1> QED BY InitSched, NextSched, <1>1, PTL DEF SchedSpec

(* The sweeps only come between steps of search: with the scheduler, the   *)
(* state transformer does nothing it would not do without.                 *)
THEOREM SweepsLeaveTheSearchAlone == SchedSpec => Spec
<1>1. SchedInit => Init
  BY DEF SchedInit
<1>2. [SchedNext]_<<vars, schedVars>> => [Next]_vars
  BY DEF SchedNext, BeginSweep, VisitStep, EndSweep
<1> QED BY <1>1, <1>2, PTL DEF SchedSpec, Spec

(* In the timestamps a sweep leaves, a step that concerns an action started*)
(* before it is strictly after the end of that action.                     *)
THEOREM SweptSchedulesRespectPendingEnds == SchedSpec => []ScheduleRespectsPendingEnds
<1>1. SchedInv /\ ScheduleIsConsistent /\ EveryScheduleRespectsPendingEnds
         => ScheduleRespectsPendingEnds
  <2> SUFFICES ASSUME SchedInv, ScheduleIsConsistent, EveryScheduleRespectsPendingEnds,
                      Scheduled, NEW i \in DOMAIN applied, NEW j \in DOMAIN applied, i < j,
                      SkippedStart(applied[i]),
                      Concerns(StepOf(applied[j]), StepOf(applied[i]).act)
               PROVE  Time(PendingEnd(applied[i])) < Time(applied[j])
    BY DEF ScheduleRespectsPendingEnds
  <2>1. TypeInv /\ Shape /\ Times
    BY DEF SchedInv
  <2>2. PICK n \in Nat : n = planLength /\ StepIDs = 0..n - 1
    BY <2>1, Predecessors
  <2> DEFINE ts == [x \in Nat |-> IF x \in StepIDs THEN Time(x) ELSE 0]
  <2>3. \A x \in StepIDs : Time(x) \in Int /\ x \in Nat
    <3>1. \A x \in 0..n - 1 : x + 1 \in 1..n /\ x \in Nat
      OBVIOUS
    <3>2. \A x \in 1..n : lpTimestamp[x] \in Int
      BY <2>1, <2>2, ElementOfSeq DEF Times
    <3> QED BY <2>2, <3>1, <3>2 DEF Time
  <2>4. ts \in [Nat -> Int] /\ \A x \in StepIDs : ts[x] = Time(x)
    BY <2>3
  <2> HIDE DEF ts
  <2>5. Satisfies(ts)
    <3> SUFFICES ASSUME NEW edge \in stepsBefore
                 PROVE  ts[edge[1]] + (IF edge \in epsilonBefore THEN 1 ELSE 0) <= ts[edge[2]]
      BY DEF Satisfies
    <3>1. edge[1] \in StepIDs /\ edge[2] \in StepIDs
      BY <2>1 DEF TypeInv, TypeOK
    <3>2. Time(edge[1]) + (IF edge \in epsilonBefore THEN 1 ELSE 0) <= Time(edge[2])
      BY DEF ScheduleIsConsistent
    <3> QED BY <2>4, <3>1, <3>2
  <2>6. ts[PendingEnd(applied[i])] < ts[applied[j]]
    BY <2>4, <2>5 DEF EveryScheduleRespectsPendingEnds
  <2>7. applied[j] \in StepIDs /\ applied[i] \in StepIDs
    BY <2>1, LenProperties, ElementOfSeq DEF TypeInv, TypeOK
  <2>8. PendingEnd(applied[i]) \in StepIDs
    BY <2>1, <2>7 DEF Shape, SkippedStart, PendingEnd
  <2> QED BY <2>4, <2>6, <2>7, <2>8
<1>2. SchedSpec => []ScheduleIsConsistent
  BY SchedulesAreConsistent
<1>3. SchedSpec => []EveryScheduleRespectsPendingEnds
  BY SweepsLeaveTheSearchAlone, SchedulesRespectPendingEnds
<1> QED BY InitSched, NextSched, <1>1, <1>2, <1>3, PTL DEF SchedSpec
=============================================================================
