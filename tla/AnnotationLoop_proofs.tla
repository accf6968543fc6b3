------------------------- MODULE AnnotationLoop_proofs -------------------------
(***************************************************************************)
(* That the loops of the helpers do what the closed forms of Annotations   *)
(* say, whatever annotations, conditions and effects they are called with. *)
(* Before each literal of a list, the annotations are those that the part  *)
(* of the list handled so far would leave; while a literal is handled, the *)
(* ends visited so far have been erased from the other facts.              *)
(***************************************************************************)
EXTENDS AnnotationLoop, WellFoundedInduction, TLAPS

AnnotationsOf(F) == [F -> [first : SUBSET Nat, second : SUBSET Nat]]

(* The first n literals of a list.                                         *)
Prefix(l, n) == [j \in 1..n |-> l[j]]

(* The annotations and the ends ordered before the literal at index.       *)
Met     == MeetPreconditions(entry, pre)
Deleted == ForgetDeleted(Met, Range(dels))
Before ==
    CASE loop = "meet"   -> MeetPreconditions(entry, Prefix(pre, index - 1))
      [] loop = "delete" -> ForgetDeleted(Met, Range(Prefix(dels, index - 1)))
      [] loop = "add"    -> ForgetAdded(Deleted, Range(Prefix(adds, index - 1)))
      [] OTHER           -> Reannotated(entry, pre, Range(dels), Range(adds))
OrderedBefore ==
    CASE loop = "meet"   -> Awaited(entry, Range(Prefix(pre, index - 1)))
      [] loop = "delete" -> Awaited(entry, Range(pre))
                            \cup Interested(Met, Range(Prefix(dels, index - 1)))
      [] loop = "add"    -> Awaited(entry, Range(pre)) \cup Interested(Met, Range(dels))
                            \cup Awaited(Deleted, Range(Prefix(adds, index - 1)))
      [] OTHER           -> PendingEndsMet(entry, pre, Range(dels), Range(adds))

(* What visiting the ends in visited makes of annotations, for a literal,  *)
(* and what the first pass of the literal leaves.                          *)
Erased(old, f, visited) ==
    [g \in DOMAIN old |-> [first  |-> IF g = f THEN old[g].first ELSE old[g].first \ visited,
                           second |-> old[g].second \ visited]]
FirstPass(old, f) == Erased(old, f, old[f].first)
ErasedElsewhere(old, f, visited) ==
    [g \in DOMAIN old |-> IF g = f THEN old[g]
                          ELSE [first  |-> old[g].first \ visited,
                                second |-> old[g].second \ visited]]

(* What the loops make of annotations with a literal.                      *)
SecondPass(old, f) ==
    LET mid == FirstPass(old, f) IN ErasedElsewhere(mid, f, mid[f].second)
AfterMeeting(old, f) ==
    LET mid == FirstPass(old, f)
    IN [mid EXCEPT ![f] = IF @.second = {} THEN Unannotated ELSE @]
AfterDeleting(old, f) == [SecondPass(old, f) EXCEPT ![f] = Unannotated]
AfterAdding(old, f) == [FirstPass(old, f) EXCEPT ![f] = [@ EXCEPT !.first = {}]]

Walk == IF pass = 0 THEN Before[Literal].first ELSE FirstPass(Before, Literal)[Literal].second
Visited == IF ends = NotVisiting THEN {} ELSE Walk \ ends
Settled == ends = NotVisiting /\ pass = 0 /\ ann = Before /\ ordered = OrderedBefore
Handling ==
    IF loop = "done" \/ index \notin DOMAIN List THEN Settled
    ELSE /\ ends # NotVisiting => ends \subseteq Walk
         /\ pass = 1 => loop = "delete"
         /\ ann = IF pass = 0 THEN Erased(Before, Literal, Visited)
                  ELSE ErasedElsewhere(FirstPass(Before, Literal), Literal, Visited)
         /\ ordered = OrderedBefore \cup Visited
                      \cup IF pass = 0 THEN {} ELSE Before[Literal].first

LoopTypes ==
    /\ entry \in Entries /\ pre \in PreLists /\ dels \in EffectLists /\ adds \in EffectLists
    /\ loop \in {"meet", "delete", "add", "done"} /\ pass \in {0, 1}
    /\ loop # "done" => index \in 1..Len(List) + 1
LoopInv == LoopTypes /\ Handling

-----------------------------------------------------------------------------
(* The closed forms, a literal at a time.                                  *)
LEMMA PrefixGrows ==
    ASSUME NEW F, NEW l \in Seq(F), NEW i \in DOMAIN l
    PROVE  /\ Prefix(l, i) \in Seq(F) /\ Prefix(l, i - 1) \in Seq(F)
           /\ Prefix(l, 0) = <<>> /\ Prefix(l, Len(l)) = l
           /\ Range(Prefix(l, i)) = Range(Prefix(l, i - 1)) \cup {l[i]}
<1>1. i \in 1..Len(l) /\ Len(l) \in Nat /\ DOMAIN l = 1..Len(l) /\ l[i] \in F
  OBVIOUS
<1>2. \A n \in 0..Len(l) : Prefix(l, n) \in Seq(F)
  BY DEF Prefix
<1>3. Range(Prefix(l, i)) = {l[j] : j \in 1..i}
      /\ Range(Prefix(l, i - 1)) = {l[j] : j \in 1..i - 1}
  BY DEF Range, Prefix
<1>4. 1..i = 1..(i - 1) \cup {i}
  BY <1>1
<1>5. Prefix(l, 0) = <<>> /\ Prefix(l, Len(l)) = l
  BY <1>1 DEF Prefix
<1> QED BY <1>1, <1>2, <1>3, <1>4, <1>5

LEMMA EmptyPrefix ==
    ASSUME NEW F, NEW l \in Seq(F)
    PROVE  /\ Range(Prefix(l, 0)) = {} /\ Prefix(l, 0) \in Seq(F)
           /\ Prefix(l, Len(l)) = l /\ Range(l) \subseteq F
BY DEF Prefix, Range

LEMMA ClosedFormsAreTyped ==
    ASSUME NEW F, NEW a \in AnnotationsOf(F)
    PROVE  /\ \A l \in Seq(F) : MeetPreconditions(a, l) \in AnnotationsOf(F)
           /\ \A D : ForgetDeleted(a, D) \in AnnotationsOf(F)
           /\ \A A : ForgetAdded(a, A) \in AnnotationsOf(F)
<1>1. DOMAIN a = F /\ \A f \in F : a[f].first \subseteq Nat /\ a[f].second \subseteq Nat
  BY DEF AnnotationsOf
<1>2. ASSUME NEW l \in Seq(F)  PROVE MeetPreconditions(a, l) \in AnnotationsOf(F)
  <2>1. \A f \in F : Retained(a, l, f) \subseteq a[f].first
    BY DEF Retained
  <2> DEFINE met == Awaited(a, Range(l))
  <2>2. MeetPreconditions(a, l) =
          [f \in F |-> [first |-> (a[f].first \ met) \cup Retained(a, l, f),
                        second |-> a[f].second \ met]]
    BY <1>1 DEF MeetPreconditions
  <2> HIDE DEF met
  <2> QED BY <1>1, <2>1, <2>2 DEF AnnotationsOf
<1>3. ASSUME NEW D  PROVE ForgetDeleted(a, D) \in AnnotationsOf(F)
  <2> DEFINE met == Interested(a, D)
  <2>1. ForgetDeleted(a, D) =
          [f \in F |-> IF f \in D THEN Unannotated
                       ELSE [first |-> a[f].first \ met, second |-> a[f].second \ met]]
    BY <1>1 DEF ForgetDeleted
  <2> HIDE DEF met
  <2> QED BY <1>1, <2>1 DEF AnnotationsOf, Unannotated
<1>4. ASSUME NEW A  PROVE ForgetAdded(a, A) \in AnnotationsOf(F)
  <2> DEFINE met == Awaited(a, A)
  <2>1. ForgetAdded(a, A) =
          [f \in F |-> [first |-> IF f \in A THEN {} ELSE a[f].first \ met,
                        second |-> a[f].second \ met]]
    BY <1>1 DEF ForgetAdded
  <2> HIDE DEF met
  <2> QED BY <1>1, <2>1 DEF AnnotationsOf
<1> QED BY <1>2, <1>3, <1>4

(* With no literal handled nothing has changed.                            *)
LEMMA NothingHandled ==
    ASSUME NEW F, NEW a \in AnnotationsOf(F)
    PROVE  /\ MeetPreconditions(a, <<>>) = a /\ ForgetDeleted(a, {}) = a
           /\ ForgetAdded(a, {}) = a
           /\ Awaited(a, {}) = {} /\ Interested(a, {}) = {}
<1>1. /\ DOMAIN a = F /\ a = [f \in F |-> a[f]]
      /\ \A f \in F : a[f] = [first |-> a[f].first, second |-> a[f].second]
  BY DEF AnnotationsOf
<1>2. Awaited(a, {}) = {} /\ Interested(a, {}) = {} /\ Range(<<>>) = {}
  BY DEF Awaited, Interested, Holding, Range
<1>3. \A f \in F : Retained(a, <<>>, f) = {}
  BY DEF Retained
<1>4. MeetPreconditions(a, <<>>) = [f \in F |-> a[f]]
  BY <1>1, <1>2, <1>3 DEF MeetPreconditions
<1>5. ForgetDeleted(a, {}) = [f \in F |-> a[f]] /\ ForgetAdded(a, {}) = [f \in F |-> a[f]]
  BY <1>1, <1>2 DEF ForgetDeleted, ForgetAdded
<1> QED BY <1>1, <1>2, <1>4, <1>5

(* A literal stands in some places of a list, the last of them included.   *)
LEMMA LastPlace ==
    ASSUME NEW n \in Nat, NEW P \in SUBSET (1..n), P # {}
    PROVE  \E m \in P : \A k \in P : k <= m
<1> DEFINE less == OpToRel(<, Nat)
           below == {k \in Nat : \E j \in P : k = n - j}
<1>1. IsWellFoundedOn(less, Nat)
  BY NatLessThanWellFounded
<1>2. \A x, y \in Nat : x < y => <<x, y>> \in less
  BY Zenon DEF OpToRel
<1>3. \A j \in P : j \in 1..n /\ n - j \in below
  OBVIOUS
<1>4. below \subseteq Nat /\ below # {}
  BY <1>3
<1>5. PICK b \in below : \A x \in below : ~(<<x, b>> \in less)
  <2> HIDE DEF below, less
  <2> QED BY <1>1, <1>4, WFMin
<1>6. \A x \in below : b <= x
  <2> HIDE DEF less, below
  <2>1. \A x \in below : x \in Nat /\ b \in Nat
    BY <1>4
  <2>2. \A x \in below : ~(x < b)
    BY <1>2, <1>5, <2>1, Zenon
  <2> QED BY <2>1, <2>2
<1>7. PICK m \in P : b = n - m
  OBVIOUS
<1>8. ASSUME NEW k \in P  PROVE k <= m
  BY <1>3, <1>6, <1>7
<1> QED BY <1>8

(* An end that the list has met stays on the first of its facts that await *)
(* it: so the ends that a literal finds are those met there first, and     *)
(* those that an earlier place of the same literal has kept.               *)
LEMMA MeetingOneMore ==
    ASSUME NEW F, NEW a \in AnnotationsOf(F), NEW l \in Seq(F), NEW i \in DOMAIN l
    PROVE  /\ MeetPreconditions(a, Prefix(l, i)) =
                 AfterMeeting(MeetPreconditions(a, Prefix(l, i - 1)), l[i])
           /\ Awaited(a, Range(Prefix(l, i))) =
                 Awaited(a, Range(Prefix(l, i - 1)))
                 \cup MeetPreconditions(a, Prefix(l, i - 1))[l[i]].first
<1> DEFINE f    == l[i]
           n    == i - 1
           M(j) == UNION {a[l[k]].first : k \in 1..j}
           R(k, g) == Retained(a, Prefix(l, k), g)
           old  == MeetPreconditions(a, Prefix(l, n))
           W    == old[f].first
           mid  == FirstPass(old, f)
<1>1. /\ i \in 1..Len(l) /\ Len(l) \in Nat /\ DOMAIN l = 1..Len(l)
      /\ n \in 0..Len(l) /\ i \in 0..Len(l) /\ n + 1 = i /\ f \in F
      /\ DOMAIN a = F
  BY DEF AnnotationsOf
<1>2. ASSUME NEW k \in 0..Len(l), NEW j \in 0..k
      PROVE  MetUpTo(a, Prefix(l, k), j) = M(j)
  <2>0. \A m \in 1..j : Prefix(l, k)[m] = l[m]
    BY DEF Prefix
  <2>1. {Prefix(l, k)[m] : m \in 1..j} = {l[m] : m \in 1..j}
    BY <2>0, Zenon
  <2>2. MetUpTo(a, Prefix(l, k), j) = UNION {a[g].first : g \in {l[m] : m \in 1..j}}
    BY <2>1 DEF MetUpTo, Awaited
  <2> QED BY <2>2
<1>3. ASSUME NEW k \in 0..Len(l)  PROVE Awaited(a, Range(Prefix(l, k))) = M(k)
  <2>1. Range(Prefix(l, k)) = {l[m] : m \in 1..k}
    BY DEF Range, Prefix
  <2>2. Awaited(a, Range(Prefix(l, k))) = UNION {a[g].first : g \in {l[m] : m \in 1..k}}
    BY <2>1 DEF Awaited
  <2> QED BY <2>2
<1>4. ASSUME NEW k \in 0..Len(l), NEW g \in F, NEW x
      PROVE  x \in R(k, g) <=>
                /\ x \in a[g].first
                /\ \E j, m \in 1..k :
                      /\ l[j] = g /\ x \notin M(j - 1)
                      /\ l[m] = g /\ \A p \in 1..k : l[p] = g => p <= m
                      /\ a[g].second \ M(m) # {}
  <2>1. DOMAIN Prefix(l, k) = 1..k /\ \A p \in 1..k : Prefix(l, k)[p] = l[p]
    BY DEF Prefix
  <2>2. \A j \in 1..k : /\ MetUpTo(a, Prefix(l, k), j) = M(j)
                        /\ MetUpTo(a, Prefix(l, k), j - 1) = M(j - 1)
    <3> SUFFICES ASSUME NEW j \in 1..k
                 PROVE  /\ MetUpTo(a, Prefix(l, k), j) = M(j)
                        /\ MetUpTo(a, Prefix(l, k), j - 1) = M(j - 1)
      OBVIOUS
    <3>1. j \in 0..k /\ j - 1 \in 0..k
      OBVIOUS
    <3> HIDE DEF M
    <3> QED BY <1>2, <3>1
  <2> HIDE DEF M
  <2> QED BY <2>1, <2>2 DEF Retained
<1>5. \A j, k \in 0..Len(l) : j <= k => M(j) \subseteq M(k)
  <2> SUFFICES ASSUME NEW j \in 0..Len(l), NEW k \in 0..Len(l), j <= k
               PROVE  M(j) \subseteq M(k)
    OBVIOUS
  <2>1. 1..j \subseteq 1..k
    OBVIOUS
  <2> QED BY <2>1
<1>6. \A k \in 0..Len(l) : \A j \in 1..k : a[l[j]].first \subseteq M(k)
  OBVIOUS
<1>7. M(i) = M(n) \cup a[f].first
  <2>1. 1..i = 1..n \cup {i}
    BY <1>1
  <2> QED BY <2>1
<1>8. \A g \in F : /\ old[g].first = (a[g].first \ M(n)) \cup R(n, g)
                   /\ old[g].second = a[g].second \ M(n)
  <2> HIDE DEF M, R
  <2> QED BY <1>1, <1>3 DEF MeetPreconditions, R
<1>9. DOMAIN old = F
  BY <1>1 DEF MeetPreconditions
<1> HIDE DEF M, R, old
<1>10. \A g \in F : R(n, g) \subseteq M(n)
  BY <1>1, <1>4, <1>6
<1>11. M(i) = M(n) \cup W
  BY <1>1, <1>7, <1>8, <1>10
<1>12. ASSUME NEW g \in F, g # f  PROVE R(i, g) = R(n, g) /\ R(n, g) \cap W = {}
  <2>1. \A p \in 1..i : l[p] = g => p \in 1..n
    BY <1>1, <1>12
  <2>2. 1..n \subseteq 1..i
    BY <1>1
  <2>3. \A x : x \in R(i, g) <=> x \in R(n, g)
    <3> TAKE x
    <3>1. ASSUME x \in R(i, g)  PROVE x \in R(n, g)
      <4>1. PICK j, m \in 1..i :
                /\ l[j] = g /\ x \notin M(j - 1)
                /\ l[m] = g /\ \A p \in 1..i : l[p] = g => p <= m
                /\ a[g].second \ M(m) # {}
        BY <1>1, <1>4, <3>1
      <4>2. j \in 1..n /\ m \in 1..n /\ x \in a[g].first
        BY <1>1, <1>4, <2>1, <3>1, <4>1
      <4>3. \A p \in 1..n : l[p] = g => p <= m
        BY <2>2, <4>1
      <4>4. n \in 0..Len(l)
        BY <1>1
      <4> HIDE DEF n
      <4> QED BY <1>4, <4>1, <4>2, <4>3, <4>4
    <3>2. ASSUME x \in R(n, g)  PROVE x \in R(i, g)
      <4>1. PICK j, m \in 1..n :
                /\ l[j] = g /\ x \notin M(j - 1)
                /\ l[m] = g /\ \A p \in 1..n : l[p] = g => p <= m
                /\ a[g].second \ M(m) # {}
        BY <1>1, <1>4, <3>2
      <4>2. j \in 1..i /\ m \in 1..i /\ x \in a[g].first
        BY <1>1, <1>4, <2>2, <3>2
      <4> QED BY <1>1, <1>4, <2>1, <4>1, <4>2
    <3> QED BY <3>1, <3>2
  <2>4. ASSUME NEW x \in R(n, g), x \in W  PROVE FALSE
    <3>1. x \in M(n)
      BY <1>10, <2>4
    <3>2. x \in R(n, f)
      BY <1>1, <1>8, <2>4, <3>1
    <3>0. \A h \in F : x \in R(n, h) =>
             \E j \in 1..n : l[j] = h /\ x \notin M(j - 1) /\ x \in a[h].first
      <4> SUFFICES ASSUME NEW h \in F, x \in R(n, h)
                   PROVE  \E j \in 1..n : l[j] = h /\ x \notin M(j - 1) /\ x \in a[h].first
        OBVIOUS
      <4>1. n \in 0..Len(l)
        BY <1>1
      <4> HIDE DEF n
      <4>2. /\ x \in a[h].first
            /\ \E j, m \in 1..n : l[j] = h /\ x \notin M(j - 1)
        BY <1>4, <4>1
      <4> QED BY <4>2
    <3>3. PICK j \in 1..n : l[j] = g /\ x \notin M(j - 1) /\ x \in a[g].first
      BY <2>4, <3>0, Zenon
    <3>4. PICK q \in 1..n : l[q] = f /\ x \notin M(q - 1) /\ x \in a[f].first
      BY <1>1, <3>0, <3>2, Zenon
    <3>5. j # q /\ j \in Nat /\ q \in Nat
      BY <1>12, <3>3, <3>4
    <3>6. CASE j < q
      <4>1. j \in 1..(q - 1) /\ q - 1 \in 0..Len(l)
        BY <1>1, <3>5, <3>6
      <4> QED BY <1>6, <3>3, <3>4, <4>1
    <3>7. CASE q < j
      <4>1. q \in 1..(j - 1) /\ j - 1 \in 0..Len(l)
        BY <1>1, <3>5, <3>7
      <4> QED BY <1>6, <3>3, <3>4, <4>1
    <3> QED BY <3>5, <3>6, <3>7
  <2> QED BY <2>3, <2>4
<1>13. a[f].second \ M(i) = {} => R(i, f) = {}
  <2> SUFFICES ASSUME a[f].second \ M(i) = {}, NEW x \in R(i, f)  PROVE FALSE
    OBVIOUS
  <2>1. PICK m \in 1..i : /\ \A p \in 1..i : l[p] = f => p <= m
                          /\ a[f].second \ M(m) # {}
    BY <1>1, <1>4
  <2>2. m = i
    BY <1>1, <2>1
  <2> QED BY <2>1, <2>2
<1>14. a[f].second \ M(i) # {} => R(i, f) = W
  <2> SUFFICES ASSUME a[f].second \ M(i) # {}  PROVE R(i, f) = W
    OBVIOUS
  <2>1. i \in 1..i /\ l[i] = f /\ \A p \in 1..i : l[p] = f => p <= i
    BY <1>1
  <2>2. \A x : x \in R(i, f) <=>
                x \in a[f].first /\ \E j \in 1..i : l[j] = f /\ x \notin M(j - 1)
    BY <1>1, <1>4, <2>1
  <2>3. ASSUME NEW x \in R(i, f)  PROVE x \in W
    <3>1. PICK j \in 1..i : l[j] = f /\ x \notin M(j - 1)
      BY <2>2
    <3>2. x \in a[f].first
      BY <2>2
    <3>3. CASE x \notin M(n)
      BY <1>1, <1>8, <3>2, <3>3
    <3>4. CASE x \in M(n)
      <4>1. j \in 1..n
        BY <1>1, <3>1, <3>4
      <4>2. PICK m \in {p \in 1..n : l[p] = f} : \A p \in {q \in 1..n : l[q] = f} : p <= m
        <5> DEFINE P == {p \in 1..n : l[p] = f}
        <5>1. n \in Nat /\ P \in SUBSET (1..n) /\ j \in P
          BY <1>1, <3>1, <4>1
        <5> HIDE DEF P
        <5>2. \E m \in P : \A p \in P : p <= m
          BY <5>1, LastPlace
        <5> QED BY <5>2 DEF P
      <4>3. M(m) \subseteq M(i)
        BY <1>1, <1>5, <4>2
      <4>4. x \in R(n, f)
        BY <1>1, <1>4, <3>1, <3>2, <4>1, <4>2, <4>3
      <4> QED BY <1>1, <1>8, <4>4
    <3> QED BY <3>3, <3>4
  <2>4. ASSUME NEW x \in W  PROVE x \in R(i, f)
    <3>1. CASE x \in a[f].first /\ x \notin M(n)
      BY <1>1, <2>1, <2>2, <3>1
    <3>2. CASE x \in R(n, f)
      <4>1. x \in a[f].first /\ \E j \in 1..n : l[j] = f /\ x \notin M(j - 1)
        BY <1>1, <1>4, <3>2
      <4>2. 1..n \subseteq 1..i
        BY <1>1
      <4> QED BY <2>2, <4>1, <4>2
    <3> QED BY <1>1, <1>8, <2>4, <3>1, <3>2
  <2> QED BY <2>3, <2>4
<1>15. mid = [g \in F |-> [first  |-> IF g = f THEN W ELSE old[g].first \ W,
                           second |-> old[g].second \ W]]
  BY <1>9, Zenon DEF FirstPass, Erased
<1>16. MeetPreconditions(a, Prefix(l, i)) =
         [g \in F |-> [first  |-> (a[g].first \ M(i)) \cup R(i, g),
                       second |-> a[g].second \ M(i)]]
  BY <1>1, <1>3 DEF MeetPreconditions, R
<1> DEFINE new == [mid EXCEPT ![f] = IF @.second = {} THEN Unannotated ELSE @]
<1>17. /\ new = [g \in F |-> IF g = f /\ mid[g].second = {} THEN Unannotated ELSE mid[g]]
       /\ f \in F
  <2>1. f \in F
    BY <1>1
  <2>2. DOMAIN mid = F
    BY <1>15
  <2> HIDE DEF mid, f
  <2> QED BY <2>1, <2>2
<1>18. ASSUME NEW g \in F
       PROVE  (IF g = f /\ mid[g].second = {} THEN Unannotated ELSE mid[g])
                = [first  |-> (a[g].first \ M(i)) \cup R(i, g), second |-> a[g].second \ M(i)]
  <2>1. mid[g] = [first  |-> IF g = f THEN W ELSE old[g].first \ W,
                  second |-> old[g].second \ W]
    BY <1>15
  <2>2. old[g].second \ W = a[g].second \ M(i)
    BY <1>8, <1>11
  <2>3. CASE g # f
    <3>1. old[g].first \ W = (a[g].first \ M(i)) \cup R(i, g)
      BY <1>8, <1>11, <1>12, <2>3
    <3> QED BY <2>1, <2>2, <2>3, <3>1
  <2>4. CASE g = f
    <3>1. a[f].first \ M(i) = {}
      BY <1>7
    <3>2. mid[g].second = a[g].second \ M(i) /\ mid[g].first = W
      BY <2>1, <2>2, <2>4
    <3>3. CASE mid[g].second = {}
      BY <1>13, <2>4, <3>1, <3>2, <3>3 DEF Unannotated
    <3>4. CASE mid[g].second # {}
      BY <1>14, <2>1, <2>4, <3>1, <3>2, <3>4
    <3> QED BY <3>3, <3>4
  <2> QED BY <2>3, <2>4
<1>19. new = MeetPreconditions(a, Prefix(l, i))
  <2> HIDE DEF mid, W, new
  <2> QED BY <1>16, <1>17, <1>18
<1>20. Awaited(a, Range(Prefix(l, i))) = Awaited(a, Range(Prefix(l, n))) \cup W
  BY <1>1, <1>3, <1>11
<1> QED BY <1>19, <1>20, Zenon DEF old, AfterMeeting

(* A delete meets the ends whose action adds the fact, then those whose    *)
(* action holds it, and clears both sets.                                  *)
LEMMA DeletingOneMore ==
    ASSUME NEW F, NEW a \in AnnotationsOf(F), NEW D \in SUBSET F, NEW f \in F
    PROVE  /\ ForgetDeleted(a, D \cup {f}) = AfterDeleting(ForgetDeleted(a, D), f)
           /\ Interested(a, D \cup {f}) =
                 Interested(a, D) \cup ForgetDeleted(a, D)[f].first
                 \cup FirstPass(ForgetDeleted(a, D), f)[f].second
<1> DEFINE met  == Interested(a, D)
           met2 == Interested(a, D \cup {f})
           old  == ForgetDeleted(a, D)
           mid  == FirstPass(old, f)
           late == ErasedElsewhere(mid, f, mid[f].second)
<1>1. DOMAIN a = F
  BY DEF AnnotationsOf
<1>2. met2 = met \cup a[f].first \cup a[f].second
  BY DEF Interested, Awaited, Holding
<1>3. f \in D => a[f].first \subseteq met /\ a[f].second \subseteq met
  BY DEF Interested, Awaited, Holding
<1>4. ForgetDeleted(a, D \cup {f}) =
        [g \in F |-> IF g \in D \cup {f} THEN Unannotated
                     ELSE [first |-> a[g].first \ met2, second |-> a[g].second \ met2]]
  BY <1>1 DEF ForgetDeleted
<1>5. old = [g \in F |-> IF g \in D THEN Unannotated
                         ELSE [first |-> a[g].first \ met, second |-> a[g].second \ met]]
  BY <1>1 DEF ForgetDeleted
<1> HIDE DEF met, met2, old
<1>6. DOMAIN old = F
  BY <1>5
<1>7. mid = [g \in F |-> [first  |-> IF g = f THEN old[g].first
                                     ELSE old[g].first \ old[f].first,
                          second |-> old[g].second \ old[f].first]]
  BY <1>6, Zenon DEF FirstPass, Erased
<1> HIDE DEF mid
<1>8. DOMAIN mid = F
  BY <1>7
<1>9. late = [g \in F |-> IF g = f THEN mid[g]
                          ELSE [first  |-> mid[g].first \ mid[f].second,
                                second |-> mid[g].second \ mid[f].second]]
  BY <1>8, Zenon DEF ErasedElsewhere
<1>10. met2 = met \cup old[f].first \cup mid[f].second
  <2>1. mid[f].second = old[f].second \ old[f].first
    BY <1>7
  <2>2. CASE f \in D
    BY <1>2, <1>3, <1>5, <2>1, <2>2 DEF Unannotated
  <2>3. CASE f \notin D
    BY <1>2, <1>5, <2>1, <2>3
  <2> QED BY <2>2, <2>3
<1>11. [late EXCEPT ![f] = Unannotated]
         = [g \in F |-> IF g = f THEN Unannotated ELSE late[g]]
  BY <1>9
<1> HIDE DEF late
<1>12. ASSUME NEW g \in F
       PROVE  (IF g = f THEN Unannotated ELSE late[g])
                = IF g \in D \cup {f} THEN Unannotated
                  ELSE [first |-> a[g].first \ met2, second |-> a[g].second \ met2]
  <2>1. g # f => late[g] = [first  |-> mid[g].first \ mid[f].second,
                            second |-> mid[g].second \ mid[f].second]
    BY <1>9
  <2>2. g # f => /\ mid[g].first = old[g].first \ old[f].first
                 /\ mid[g].second = old[g].second \ old[f].first
    BY <1>7
  <2>3. CASE g \in D /\ g # f
    <3>1. old[g].first = {} /\ old[g].second = {}
      BY <1>5, <2>3 DEF Unannotated
    <3>2. late[g].first = {} /\ late[g].second = {}
      BY <2>1, <2>2, <2>3, <3>1
    <3> QED BY <2>1, <2>3, <3>2 DEF Unannotated
  <2>4. CASE g \notin D /\ g # f
    <3>1. old[g].first = a[g].first \ met /\ old[g].second = a[g].second \ met
      BY <1>5, <2>4
    <3>2. /\ mid[g].first \ mid[f].second = a[g].first \ met2
          /\ mid[g].second \ mid[f].second = a[g].second \ met2
      BY <1>10, <2>2, <2>4, <3>1
    <3> QED BY <2>1, <2>4, <3>2
  <2> QED BY <2>3, <2>4
<1>13. ForgetDeleted(a, D \cup {f}) = [late EXCEPT ![f] = Unannotated]
  BY <1>4, <1>11, <1>12
<1> QED BY <1>10, <1>13, Zenon DEF late, mid, old, met, met2, AfterDeleting, SecondPass

(* An add meets the ends whose action adds the fact as well, and clears    *)
(* the first set only.                                                     *)
LEMMA AddingOneMore ==
    ASSUME NEW F, NEW a \in AnnotationsOf(F), NEW A \in SUBSET F, NEW f \in F
    PROVE  /\ ForgetAdded(a, A \cup {f}) = AfterAdding(ForgetAdded(a, A), f)
           /\ Awaited(a, A \cup {f}) = Awaited(a, A) \cup ForgetAdded(a, A)[f].first
<1> DEFINE met  == Awaited(a, A)
           met2 == Awaited(a, A \cup {f})
           old  == ForgetAdded(a, A)
           mid  == FirstPass(old, f)
           new  == [mid EXCEPT ![f] = [@ EXCEPT !.first = {}]]
<1>1. DOMAIN a = F
  BY DEF AnnotationsOf
<1>2. met2 = met \cup a[f].first
  BY DEF Awaited
<1>3. f \in A => a[f].first \subseteq met
  BY DEF Awaited
<1>4. ForgetAdded(a, A \cup {f}) =
        [g \in F |-> [first  |-> IF g \in A \cup {f} THEN {} ELSE a[g].first \ met2,
                      second |-> a[g].second \ met2]]
  BY <1>1 DEF ForgetAdded
<1>5. old = [g \in F |-> [first  |-> IF g \in A THEN {} ELSE a[g].first \ met,
                          second |-> a[g].second \ met]]
  BY <1>1 DEF ForgetAdded
<1> HIDE DEF met, met2, old
<1>6. DOMAIN old = F
  BY <1>5
<1>7. mid = [g \in F |-> [first  |-> IF g = f THEN old[g].first
                                     ELSE old[g].first \ old[f].first,
                          second |-> old[g].second \ old[f].first]]
  BY <1>6, Zenon DEF FirstPass, Erased
<1> HIDE DEF mid
<1>8. met2 = met \cup old[f].first
  <2>1. CASE f \in A
    BY <1>2, <1>3, <1>5, <2>1
  <2>2. CASE f \notin A
    BY <1>2, <1>5, <2>2
  <2> QED BY <2>1, <2>2
<1>9. new = [g \in F |-> IF g = f THEN [first |-> {}, second |-> mid[f].second] ELSE mid[g]]
  <2>1. mid = [g \in F |-> mid[g]]
    BY <1>7
  <2>2. mid[f] = [first |-> mid[f].first, second |-> mid[f].second]
    BY <1>7
  <2>3. [mid[f] EXCEPT !.first = {}] = [first |-> {}, second |-> mid[f].second]
    BY <2>2
  <2>4. new = [mid EXCEPT ![f] = [first |-> {}, second |-> mid[f].second]]
    BY <2>3
  <2> HIDE DEF new
  <2> QED BY <2>1, <2>4
<1> HIDE DEF new
<1>10. ASSUME NEW g \in F
       PROVE  new[g] = [first  |-> IF g \in A \cup {f} THEN {} ELSE a[g].first \ met2,
                        second |-> a[g].second \ met2]
  <2>1. old[g].second \ old[f].first = a[g].second \ met2
    BY <1>5, <1>8
  <2>2. CASE g = f
    BY <1>7, <1>9, <2>1, <2>2
  <2>3. CASE g # f
    <3>1. old[g].first \ old[f].first = IF g \in A \cup {f} THEN {} ELSE a[g].first \ met2
      BY <1>5, <1>8, <2>3
    <3> QED BY <1>7, <1>9, <2>1, <2>3, <3>1
  <2> QED BY <2>2, <2>3
<1>11. ForgetAdded(a, A \cup {f}) = new
  BY <1>4, <1>9, <1>10
<1> QED BY <1>8, <1>11, Zenon DEF new, mid, old, met, met2, AfterAdding

-----------------------------------------------------------------------------
(* The loops.                                                              *)
LEMMA ListsAreOfFacts ==
    LoopTypes =>
        /\ entry \in AnnotationsOf(DOMAIN entry)
        /\ pre \in Seq(DOMAIN entry) /\ dels \in Seq(DOMAIN entry)
        /\ adds \in Seq(DOMAIN entry) /\ List \in Seq(DOMAIN entry)
        /\ loop # "done" /\ index \in DOMAIN List => Literal \in DOMAIN entry
<1> SUFFICES ASSUME LoopTypes
             PROVE  /\ entry \in AnnotationsOf(DOMAIN entry)
                    /\ pre \in Seq(DOMAIN entry) /\ dels \in Seq(DOMAIN entry)
                    /\ adds \in Seq(DOMAIN entry) /\ List \in Seq(DOMAIN entry)
                    /\ loop # "done" /\ index \in DOMAIN List => Literal \in DOMAIN entry
  OBVIOUS
<1>1. /\ entry \in AnnotationsOf(DOMAIN entry)
      /\ pre \in Seq(DOMAIN entry) /\ dels \in Seq(DOMAIN entry) /\ adds \in Seq(DOMAIN entry)
  BY LoopAssumption DEF LoopTypes, AnnotationsOf
<1>2. List \in Seq(DOMAIN entry)
  BY <1>1 DEF List
<1>3. index \in DOMAIN List => Literal \in DOMAIN entry
  <2> HIDE DEF List
  <2> QED BY <1>2 DEF Literal
<1> QED BY <1>1, <1>2, <1>3

LEMMA BeforeIsTyped == LoopTypes => Before \in AnnotationsOf(DOMAIN entry)
<1> SUFFICES ASSUME LoopTypes  PROVE Before \in AnnotationsOf(DOMAIN entry)
  OBVIOUS
<1> DEFINE F == DOMAIN entry
<1>1. entry \in AnnotationsOf(F) /\ pre \in Seq(F)
  BY ListsAreOfFacts
<1> HIDE DEF F
<1>2. Met \in AnnotationsOf(F)
  BY <1>1, ClosedFormsAreTyped DEF Met
<1>3. Deleted \in AnnotationsOf(F)
  BY <1>2, ClosedFormsAreTyped DEF Deleted
<1>4. CASE loop = "meet"
  <2>1. index - 1 \in 0..Len(pre)
    BY <1>1, <1>4 DEF LoopTypes, List
  <2>2. Prefix(pre, index - 1) \in Seq(F)
    BY <1>1, <2>1 DEF Prefix
  <2> QED BY <1>1, <1>4, <2>2, ClosedFormsAreTyped DEF Before, F
<1>5. CASE loop = "delete"
  BY <1>2, <1>5, ClosedFormsAreTyped DEF Before, F
<1>6. CASE loop = "add"
  BY <1>3, <1>6, ClosedFormsAreTyped DEF Before, F
<1>7. CASE loop = "done"
  BY <1>3, <1>7, ClosedFormsAreTyped DEF Before, F, Reannotated, Deleted, Met
<1> QED BY <1>4, <1>5, <1>6, <1>7 DEF LoopTypes

(* Nothing visited, nothing erased.                                        *)
LEMMA NothingErased ==
    ASSUME NEW F, NEW a \in AnnotationsOf(F), NEW f
    PROVE  Erased(a, f, {}) = a /\ ErasedElsewhere(a, f, {}) = a
<1>1. /\ DOMAIN a = F /\ a = [g \in F |-> a[g]]
      /\ \A g \in F : a[g] = [first |-> a[g].first, second |-> a[g].second]
  BY DEF AnnotationsOf
<1>2. Erased(a, f, {}) = [g \in F |-> a[g]] /\ ErasedElsewhere(a, f, {}) = [g \in F |-> a[g]]
  BY <1>1 DEF Erased, ErasedElsewhere
<1> QED BY <1>1, <1>2

LEMMA PassesAreTyped ==
    ASSUME NEW F, NEW a \in AnnotationsOf(F), NEW f \in F, NEW visited
    PROVE  /\ Erased(a, f, visited) \in AnnotationsOf(F)
           /\ ErasedElsewhere(a, f, visited) \in AnnotationsOf(F)
           /\ FirstPass(a, f) \in AnnotationsOf(F)
           /\ Erased(a, f, visited)[f].first = a[f].first
           /\ ErasedElsewhere(a, f, visited)[f] = a[f]
<1>1. DOMAIN a = F /\ \A g \in F : a[g].first \subseteq Nat /\ a[g].second \subseteq Nat
  BY DEF AnnotationsOf
<1>2. ASSUME NEW v  PROVE Erased(a, f, v) \in AnnotationsOf(F)
  BY <1>1 DEF Erased, AnnotationsOf
<1>3. ErasedElsewhere(a, f, visited) \in AnnotationsOf(F)
  BY <1>1 DEF ErasedElsewhere, AnnotationsOf
<1>4. FirstPass(a, f) \in AnnotationsOf(F)
  BY <1>2 DEF FirstPass
<1> QED BY <1>1, <1>2, <1>3, <1>4 DEF Erased, ErasedElsewhere

LEMMA SettledIsHandled == LoopTypes /\ Settled => Handling
<1> SUFFICES ASSUME LoopTypes, Settled  PROVE Handling
  OBVIOUS
<1>1. Before \in AnnotationsOf(DOMAIN entry)
  BY BeforeIsTyped
<1>2. Erased(Before, Literal, {}) = Before
  BY <1>1, NothingErased
<1>3. Visited = {} /\ OrderedBefore \cup Visited \cup {} = OrderedBefore
  BY DEF Visited, Settled
<1>4. ann = Erased(Before, Literal, Visited) /\ pass # 1
  BY <1>2, <1>3 DEF Settled
<1>5. pass = 0 /\ ends = NotVisiting /\ ordered = OrderedBefore
  BY DEF Settled
<1> QED BY <1>3, <1>4, <1>5, Zenon DEF Handling

LEMMA SmallestEnd ==
    ASSUME NEW S \in SUBSET Nat, S # {}
    PROVE  Min(S) \in S
<1> DEFINE less == OpToRel(<, Nat)
<1>1. IsWellFoundedOn(less, Nat)
  BY NatLessThanWellFounded
<1>2. \A x, y \in Nat : x < y => <<x, y>> \in less
  BY Zenon DEF OpToRel
<1> HIDE DEF less
<1>3. PICK n \in S : \A x \in S : ~(<<x, n>> \in less)
  BY <1>1, WFMin
<1>4. \A x \in S : ~(x < n)
  BY <1>2, <1>3, Zenon
<1>5. \A x \in S : n <= x
  BY <1>4
<1> QED BY <1>5, Zenon DEF Min

(* Once a literal is handled, what the loop has done is what the closed    *)
(* form does with one literal more.                                        *)
LEMMA OneLiteralMore ==
    ASSUME LoopTypes, loop # "done", index \in DOMAIN List,
           UNCHANGED <<lists, loop>>, index' = index + 1
    PROVE  /\ Before' = CASE loop = "meet"   -> AfterMeeting(Before, Literal)
                           [] loop = "delete" -> AfterDeleting(Before, Literal)
                           [] OTHER           -> AfterAdding(Before, Literal)
           /\ OrderedBefore' = OrderedBefore \cup Before[Literal].first
                 \cup IF loop = "delete" THEN FirstPass(Before, Literal)[Literal].second ELSE {}
<1> DEFINE F == DOMAIN entry
<1>1. /\ entry \in AnnotationsOf(F) /\ pre \in Seq(F) /\ dels \in Seq(F) /\ adds \in Seq(F)
      /\ List \in Seq(F) /\ Literal \in F /\ index \in 1..Len(List)
  BY ListsAreOfFacts
<1>2. Met' = Met /\ Deleted' = Deleted /\ index' - 1 = index
  BY <1>1 DEF Met, Deleted, lists
<1> HIDE DEF F
<1>3. Met \in AnnotationsOf(F)
  BY <1>1, ClosedFormsAreTyped DEF Met
<1>4. Deleted \in AnnotationsOf(F)
  BY <1>3, ClosedFormsAreTyped DEF Deleted
<1>5. CASE loop = "meet"
  <2>1. List = pre /\ Literal = pre[index] /\ index \in DOMAIN pre
    BY <1>1, <1>5 DEF List, Literal
  <2>2. /\ Before = MeetPreconditions(entry, Prefix(pre, index - 1))
        /\ Before' = MeetPreconditions(entry, Prefix(pre, index))
        /\ OrderedBefore = Awaited(entry, Range(Prefix(pre, index - 1)))
        /\ OrderedBefore' = Awaited(entry, Range(Prefix(pre, index)))
    BY <1>2, <1>5 DEF Before, OrderedBefore, lists
  <2>3. /\ Before' = AfterMeeting(Before, Literal)
        /\ OrderedBefore' = OrderedBefore \cup Before[Literal].first
    <3>1. /\ MeetPreconditions(entry, Prefix(pre, index)) =
                AfterMeeting(MeetPreconditions(entry, Prefix(pre, index - 1)), pre[index])
          /\ Awaited(entry, Range(Prefix(pre, index))) =
                Awaited(entry, Range(Prefix(pre, index - 1)))
                \cup MeetPreconditions(entry, Prefix(pre, index - 1))[pre[index]].first
      BY <1>1, <2>1, MeetingOneMore
    <3> QED BY <2>1, <2>2, <3>1
  <2> QED BY <1>5, <2>3
<1>6. CASE loop = "delete"
  <2>1. List = dels /\ Literal = dels[index] /\ index \in DOMAIN dels
    BY <1>1, <1>6 DEF List, Literal
  <2> DEFINE gone == Range(Prefix(dels, index - 1))
  <2>2. Range(Prefix(dels, index)) = gone \cup {Literal} /\ gone \in SUBSET F
    <3>1. Prefix(dels, index - 1) \in Seq(F)
      BY <1>1, <2>1, PrefixGrows
    <3>2. gone \subseteq F
      BY <3>1 DEF Range
    <3> QED BY <1>1, <2>1, <3>2, PrefixGrows
  <2>3. /\ Before = ForgetDeleted(Met, gone)
        /\ Before' = ForgetDeleted(Met, gone \cup {Literal})
        /\ OrderedBefore = Awaited(entry, Range(pre)) \cup Interested(Met, gone)
        /\ OrderedBefore' = Awaited(entry, Range(pre)) \cup Interested(Met, gone \cup {Literal})
    BY <1>2, <1>6, <2>2 DEF Before, OrderedBefore, lists
  <2> HIDE DEF gone
  <2>4. /\ Before' = AfterDeleting(Before, Literal)
        /\ Interested(Met, gone \cup {Literal}) =
              Interested(Met, gone) \cup Before[Literal].first
              \cup FirstPass(Before, Literal)[Literal].second
    <3>1. /\ ForgetDeleted(Met, gone \cup {Literal}) =
                AfterDeleting(ForgetDeleted(Met, gone), Literal)
          /\ Interested(Met, gone \cup {Literal}) =
                Interested(Met, gone) \cup ForgetDeleted(Met, gone)[Literal].first
                \cup FirstPass(ForgetDeleted(Met, gone), Literal)[Literal].second
      <4>1. Literal \in F /\ gone \in SUBSET F /\ Met \in AnnotationsOf(F)
        BY <1>1, <1>3, <2>2
      <4> QED BY <4>1, DeletingOneMore
    <3> QED BY <2>3, <3>1
  <2> QED BY <1>6, <2>3, <2>4
<1>7. CASE loop = "add"
  <2>1. List = adds /\ Literal = adds[index] /\ index \in DOMAIN adds
    BY <1>1, <1>7 DEF List, Literal
  <2> DEFINE given == Range(Prefix(adds, index - 1))
  <2>2. Range(Prefix(adds, index)) = given \cup {Literal} /\ given \in SUBSET F
    <3>1. Prefix(adds, index - 1) \in Seq(F)
      BY <1>1, <2>1, PrefixGrows
    <3>2. given \subseteq F
      BY <3>1 DEF Range
    <3> QED BY <1>1, <2>1, <3>2, PrefixGrows
  <2> DEFINE earlier == Awaited(entry, Range(pre)) \cup Interested(Met, Range(dels))
  <2>3. /\ Before = ForgetAdded(Deleted, given)
        /\ Before' = ForgetAdded(Deleted, given \cup {Literal})
        /\ OrderedBefore = earlier \cup Awaited(Deleted, given)
        /\ OrderedBefore' = earlier \cup Awaited(Deleted, given \cup {Literal})
    BY <1>2, <1>7, <2>2 DEF Before, OrderedBefore, lists
  <2> HIDE DEF given
  <2>4. /\ Before' = AfterAdding(Before, Literal)
        /\ Awaited(Deleted, given \cup {Literal}) =
              Awaited(Deleted, given) \cup Before[Literal].first
    <3>1. /\ ForgetAdded(Deleted, given \cup {Literal}) =
                AfterAdding(ForgetAdded(Deleted, given), Literal)
          /\ Awaited(Deleted, given \cup {Literal}) =
                Awaited(Deleted, given) \cup ForgetAdded(Deleted, given)[Literal].first
      <4>1. Literal \in F /\ given \in SUBSET F /\ Deleted \in AnnotationsOf(F)
        BY <1>1, <1>4, <2>2
      <4> HIDE DEF earlier
      <4> QED BY <4>1, AddingOneMore
    <3> QED BY <2>3, <3>1
  <2> QED BY <1>7, <2>3, <2>4
<1> QED BY <1>5, <1>6, <1>7 DEF LoopTypes

(* At the end of a list, its closed form is complete.                      *)
LEMMA ListsFollowEachOther ==
    ASSUME LoopTypes, EndOfList
    PROVE  Before' = Before /\ OrderedBefore' = OrderedBefore
<1> DEFINE F == DOMAIN entry
<1>1. /\ entry \in AnnotationsOf(F) /\ pre \in Seq(F) /\ dels \in Seq(F) /\ adds \in Seq(F)
  BY ListsAreOfFacts
<1>2. /\ Met' = Met /\ Deleted' = Deleted /\ index' - 1 = 0
      /\ pre' = pre /\ dels' = dels /\ adds' = adds /\ entry' = entry
  BY DEF EndOfList, Met, Deleted, lists
<1>3. index - 1 = Len(List)
  <2>1. List \in Seq(F)
    BY <1>1 DEF List
  <2>2. index \in 1..Len(List) + 1 /\ index \notin DOMAIN List
    BY DEF EndOfList, LoopTypes
  <2> HIDE DEF F
  <2>3. Len(List) \in Nat /\ DOMAIN List = 1..Len(List)
    BY <2>1
  <2> QED BY <2>2, <2>3
<1> HIDE DEF F
<1>4. Met \in AnnotationsOf(F)
  BY <1>1, ClosedFormsAreTyped DEF Met
<1>5. Deleted \in AnnotationsOf(F)
  BY <1>4, ClosedFormsAreTyped DEF Deleted
<1>6. CASE loop = "meet"
  <2>1. loop' = "delete" /\ Prefix(pre, index - 1) = pre
    BY <1>1, <1>3, <1>6, EmptyPrefix DEF EndOfList, List
  <2>2. Range(Prefix(dels, 0)) = {}
    BY <1>1, EmptyPrefix
  <2>3. ForgetDeleted(Met, {}) = Met /\ Interested(Met, {}) = {}
    BY <1>4, NothingHandled
  <2> QED BY <1>2, <1>6, <2>1, <2>2, <2>3 DEF Before, OrderedBefore, Met
<1>7. CASE loop = "delete"
  <2>1. loop' = "add" /\ Prefix(dels, index - 1) = dels
    BY <1>1, <1>3, <1>7, EmptyPrefix DEF EndOfList, List
  <2>2. Range(Prefix(adds, 0)) = {}
    BY <1>1, EmptyPrefix
  <2>3. ForgetAdded(Deleted, {}) = Deleted /\ Awaited(Deleted, {}) = {}
    BY <1>5, NothingHandled
  <2> QED BY <1>2, <1>7, <2>1, <2>2, <2>3 DEF Before, OrderedBefore, Deleted
<1>8. CASE loop = "add"
  <2>1. loop' = "done" /\ Prefix(adds, index - 1) = adds
    BY <1>1, <1>3, <1>8, EmptyPrefix DEF EndOfList, List
  <2> QED BY <1>2, <1>8, <2>1 DEF Before, OrderedBefore, Deleted, Met, Reannotated, PendingEndsMet
<1> QED BY <1>6, <1>7, <1>8 DEF LoopTypes, EndOfList

LEMMA FindEntryIsHandled ==
    ASSUME LoopInv, FindEntry
    PROVE  LoopInv'
<1> DEFINE F == DOMAIN entry
<1>1. /\ loop # "done" /\ index \in DOMAIN List /\ ends = NotVisiting
      /\ loop' = loop /\ index' = index /\ pass' = pass /\ ann' = ann /\ ordered' = ordered
      /\ entry' = entry /\ pre' = pre /\ dels' = dels /\ adds' = adds
  BY DEF FindEntry, lists
<1>2. LoopTypes /\ Handling /\ Before \in AnnotationsOf(F) /\ Literal \in F
  BY <1>1, BeforeIsTyped, ListsAreOfFacts DEF LoopInv
<1>3. /\ LoopTypes' /\ List' = List /\ Literal' = Literal
      /\ Before' = Before /\ OrderedBefore' = OrderedBefore /\ Walk' = Walk
  BY <1>1, <1>2 DEF LoopTypes, List, Literal, Before, OrderedBefore, Walk, Met, Deleted
<1>4. /\ Visited = {}
      /\ pass = 1 => loop = "delete"
      /\ ann = IF pass = 0 THEN Erased(Before, Literal, {})
               ELSE ErasedElsewhere(FirstPass(Before, Literal), Literal, {})
      /\ ordered = OrderedBefore \cup {} \cup IF pass = 0 THEN {} ELSE Before[Literal].first
  BY <1>1, <1>2 DEF Visited, Handling
<1>5. ends' = Walk
  BY <1>1, <1>2, <1>4, PassesAreTyped DEF FindEntry, Walk
<1>6. Visited' = {} /\ ends' \subseteq Walk'
  BY <1>3, <1>5 DEF Visited
<1>7. Handling'
  <2>1. ~(loop' = "done" \/ index' \notin DOMAIN List')
    BY <1>1, <1>3
  <2>2. (pass' = 1 => loop' = "delete")
        /\ ann' = (IF pass' = 0 THEN Erased(Before', Literal', Visited')
                   ELSE ErasedElsewhere(FirstPass(Before', Literal'), Literal', Visited'))
        /\ ordered' = OrderedBefore' \cup Visited'
                         \cup IF pass' = 0 THEN {} ELSE Before'[Literal'].first
    BY <1>1, <1>3, <1>4, <1>6
  <2> QED BY <1>6, <2>1, <2>2, Zenon DEF Handling
<1> QED BY <1>3, <1>7 DEF LoopInv

LEMMA VisitEndIsHandled ==
    ASSUME LoopInv, VisitEnd
    PROVE  LoopInv'
<1> DEFINE F == DOMAIN entry
           e == Min(ends)
<1>1. /\ ends # NotVisiting /\ ends # {}
      /\ loop' = loop /\ index' = index /\ pass' = pass
      /\ entry' = entry /\ pre' = pre /\ dels' = dels /\ adds' = adds
      /\ ends' = ends \ {e} /\ ordered' = ordered \cup {e}
  BY Zenon DEF VisitEnd, lists
<1>2. ann' = [f \in DOMAIN ann |->
                [first  |-> IF f = Literal THEN ann[f].first ELSE ann[f].first \ {e},
                 second |-> IF f = Literal /\ pass = 1 THEN ann[f].second
                            ELSE ann[f].second \ {e}]]
  BY Zenon DEF VisitEnd
<1>3. loop # "done" /\ index \in DOMAIN List
  BY <1>1 DEF LoopInv, Handling, Settled
<1>4. LoopTypes /\ Handling /\ Before \in AnnotationsOf(F) /\ Literal \in F
  BY <1>3, BeforeIsTyped, ListsAreOfFacts DEF LoopInv
<1>5. /\ LoopTypes' /\ List' = List /\ Literal' = Literal
      /\ Before' = Before /\ OrderedBefore' = OrderedBefore /\ Walk' = Walk
  BY <1>1, <1>4 DEF LoopTypes, List, Literal, Before, OrderedBefore, Walk, Met, Deleted
<1>6. /\ ends \subseteq Walk
      /\ pass = 1 => loop = "delete"
      /\ Visited = Walk \ ends
      /\ ann = IF pass = 0 THEN Erased(Before, Literal, Visited)
               ELSE ErasedElsewhere(FirstPass(Before, Literal), Literal, Visited)
      /\ ordered = OrderedBefore \cup Visited
                   \cup IF pass = 0 THEN {} ELSE Before[Literal].first
  BY <1>1, <1>3, <1>4 DEF Visited, Handling
<1> DEFINE mid == FirstPass(Before, Literal)
<1>7. mid \in AnnotationsOf(F)
  BY <1>4, PassesAreTyped
<1>8. Walk \subseteq Nat
  BY <1>4, <1>7 DEF Walk, AnnotationsOf
<1>9. e \in ends
  BY <1>1, <1>6, <1>8, SmallestEnd
<1> HIDE DEF e, mid
<1>10. ends' # NotVisiting /\ ends' \subseteq Walk' /\ Visited' = Visited \cup {e}
  <2>1. ends' \subseteq Nat
    BY <1>1, <1>6, <1>8
  <2>2. ends' # NotVisiting
    <3> SUFFICES ASSUME ends' = NotVisiting  PROVE FALSE
      OBVIOUS
    <3>1. -1 \in ends'
      BY DEF NotVisiting
    <3>2. \A k \in ends' : k >= 0
      BY <2>1
    <3> QED BY <3>1, <3>2
  <2> QED BY <1>1, <1>5, <1>6, <1>9, <2>2 DEF Visited
<1>11. ann' = IF pass = 0 THEN Erased(Before, Literal, Visited \cup {e})
              ELSE ErasedElsewhere(mid, Literal, Visited \cup {e})
  <2>1. CASE pass = 0
    <3>1. ann = [f \in F |->
             [first  |-> IF f = Literal THEN Before[f].first ELSE Before[f].first \ Visited,
              second |-> Before[f].second \ Visited]]
      BY <1>4, <1>6, <2>1 DEF Erased, AnnotationsOf
    <3>2. ann' = [f \in F |->
             [first  |-> IF f = Literal THEN ann[f].first ELSE ann[f].first \ {e},
              second |-> ann[f].second \ {e}]]
      BY <1>2, <2>1, <3>1
    <3>3. Erased(Before, Literal, Visited \cup {e}) = [f \in F |->
             [first  |-> IF f = Literal THEN Before[f].first
                         ELSE Before[f].first \ (Visited \cup {e}),
              second |-> Before[f].second \ (Visited \cup {e})]]
      BY <1>4 DEF Erased, AnnotationsOf
    <3>4. ASSUME NEW f \in F
          PROVE  /\ ann[f].first = IF f = Literal THEN Before[f].first
                                   ELSE Before[f].first \ Visited
                 /\ ann[f].second = Before[f].second \ Visited
      BY <3>1
    <3> QED BY <2>1, <3>2, <3>3, <3>4
  <2>2. CASE pass = 1
    <3>1. /\ DOMAIN mid = F
          /\ \A f \in F : mid[f] = [first |-> mid[f].first, second |-> mid[f].second]
      BY <1>7 DEF AnnotationsOf
    <3>2. ann = [f \in F |->
             IF f = Literal THEN mid[f]
             ELSE [first |-> mid[f].first \ Visited, second |-> mid[f].second \ Visited]]
      <4>1. ann = ErasedElsewhere(mid, Literal, Visited)
        BY <1>6, <2>2 DEF mid
      <4> QED BY <3>1, <4>1, Zenon DEF ErasedElsewhere
    <3>3. ann' = [f \in F |->
             [first  |-> IF f = Literal THEN ann[f].first ELSE ann[f].first \ {e},
              second |-> IF f = Literal THEN ann[f].second ELSE ann[f].second \ {e}]]
      BY <1>2, <2>2, <3>2
    <3>4. ErasedElsewhere(mid, Literal, Visited \cup {e}) = [f \in F |->
             IF f = Literal THEN mid[f]
             ELSE [first  |-> mid[f].first \ (Visited \cup {e}),
                   second |-> mid[f].second \ (Visited \cup {e})]]
      BY <3>1 DEF ErasedElsewhere
    <3>5. ASSUME NEW f \in F
          PROVE  [first  |-> IF f = Literal THEN ann[f].first ELSE ann[f].first \ {e},
                  second |-> IF f = Literal THEN ann[f].second ELSE ann[f].second \ {e}]
                   = IF f = Literal THEN mid[f]
                     ELSE [first  |-> mid[f].first \ (Visited \cup {e}),
                           second |-> mid[f].second \ (Visited \cup {e})]
      <4>1. CASE f = Literal
        BY <3>1, <3>2, <4>1
      <4>2. CASE f # Literal
        <5>1. /\ ann[f].first = mid[f].first \ Visited
              /\ ann[f].second = mid[f].second \ Visited
          BY <3>2, <4>2
        <5>2. /\ ann[f].first \ {e} = mid[f].first \ (Visited \cup {e})
              /\ ann[f].second \ {e} = mid[f].second \ (Visited \cup {e})
          BY <5>1
        <5> QED BY <4>2, <5>2
      <4> QED BY <4>1, <4>2
    <3>6. ann' = ErasedElsewhere(mid, Literal, Visited \cup {e})
      BY <3>3, <3>4, <3>5
    <3> QED BY <2>2, <3>6
  <2>3. pass = 0 \/ pass = 1
    BY <1>4 DEF LoopTypes
  <2> QED BY <2>1, <2>2, <2>3, Zenon
<1>12. Handling'
  <2>1. ~(loop' = "done" \/ index' \notin DOMAIN List')
    BY <1>1, <1>3, <1>5
  <2>2. (ends' # NotVisiting => ends' \subseteq Walk') /\ (pass' = 1 => loop' = "delete")
    BY <1>1, <1>6, <1>10
  <2>3. ann' = (IF pass' = 0 THEN Erased(Before', Literal', Visited')
                ELSE ErasedElsewhere(FirstPass(Before', Literal'), Literal', Visited'))
    BY <1>1, <1>5, <1>10, <1>11 DEF mid
  <2>4. ordered' = OrderedBefore' \cup Visited'
                      \cup IF pass' = 0 THEN {} ELSE Before'[Literal'].first
    BY <1>1, <1>5, <1>6, <1>10
  <2> QED BY <2>1, <2>2, <2>3, <2>4, Zenon DEF Handling
<1> QED BY <1>5, <1>12 DEF LoopInv

LEMMA CloseLiteralIsHandled ==
    ASSUME LoopInv, CloseLiteral
    PROVE  LoopInv'
<1> DEFINE F   == DOMAIN entry
           mid == FirstPass(Before, Literal)
<1>1. /\ ends = {} /\ ends # NotVisiting /\ ends' = NotVisiting
      /\ entry' = entry /\ pre' = pre /\ dels' = dels /\ adds' = adds
      /\ ordered' = ordered /\ loop' = loop
  BY DEF CloseLiteral, lists, NotVisiting
<1>2. ann' = [ann EXCEPT ![Literal] =
                 CASE loop = "meet" /\ @.second = {} -> Unannotated
                   [] loop = "delete" /\ pass = 1    -> Unannotated
                   [] loop = "add"                   -> [@ EXCEPT !.first = {}]
                   [] OTHER                          -> @]
  BY Zenon DEF CloseLiteral
<1>3. /\ (loop = "delete" /\ pass = 0) => pass' = 1 /\ index' = index
      /\ ~(loop = "delete" /\ pass = 0) => pass' = 0 /\ index' = index + 1
  BY DEF CloseLiteral, Advance
<1>4. loop # "done" /\ index \in DOMAIN List
  BY <1>1 DEF LoopInv, Handling, Settled
<1>5. /\ LoopTypes /\ Handling /\ Before \in AnnotationsOf(F) /\ Literal \in F
      /\ List \in Seq(F) /\ List' = List
  BY <1>1, <1>4, BeforeIsTyped, ListsAreOfFacts DEF LoopInv, List
<1>6. /\ pass = 1 => loop = "delete"
      /\ Visited = Walk
      /\ ann = IF pass = 0 THEN Erased(Before, Literal, Visited)
               ELSE ErasedElsewhere(mid, Literal, Visited)
      /\ ordered = OrderedBefore \cup Visited
                   \cup IF pass = 0 THEN {} ELSE Before[Literal].first
  BY <1>1, <1>4, <1>5 DEF Visited, Handling
<1>7. /\ pass = 0 => ann = mid /\ ordered = OrderedBefore \cup Before[Literal].first
      /\ pass = 1 => /\ ann = SecondPass(Before, Literal)
                     /\ ordered = OrderedBefore \cup mid[Literal].second
                                  \cup Before[Literal].first
  BY <1>6 DEF Walk, FirstPass, SecondPass
<1>8. mid \in AnnotationsOf(F)
  BY <1>5, PassesAreTyped
<1>9. pass \in {0, 1} /\ loop \in {"meet", "delete", "add"}
  BY <1>4, <1>5 DEF LoopTypes
<1> HIDE DEF F, mid
<1>10. CASE loop = "delete" /\ pass = 0
  <2>1. pass' = 1 /\ index' = index /\ ann = mid
    BY <1>3, <1>7, <1>10
  <2>2. /\ LoopTypes' /\ Literal' = Literal
        /\ Before' = Before /\ OrderedBefore' = OrderedBefore
    BY <1>1, <1>5, <2>1 DEF LoopTypes, List, Literal, Before, OrderedBefore, Met, Deleted
  <2>3. ann' = mid
    <3>1. ann' = [mid EXCEPT ![Literal] = mid[Literal]]
      BY <1>2, <1>10, <2>1
    <3> QED BY <1>8, <3>1 DEF AnnotationsOf
  <2>4. Visited' = {}
    BY <1>1 DEF Visited
  <2>5. ann' = ErasedElsewhere(FirstPass(Before', Literal'), Literal', Visited')
    BY <1>8, <2>2, <2>3, <2>4, NothingErased DEF mid
  <2>6. ordered' = OrderedBefore' \cup Visited' \cup Before'[Literal'].first
    BY <1>1, <1>7, <1>10, <2>2, <2>4
  <2>7. ~(loop' = "done" \/ index' \notin DOMAIN List')
    BY <1>1, <1>4, <1>5, <2>1
  <2>8. pass' # 0 /\ loop' = "delete"
    BY <1>1, <1>10, <2>1
  <2>9. Handling'
    BY <1>1, <2>5, <2>6, <2>7, <2>8, Zenon DEF Handling
  <2> QED BY <2>2, <2>9 DEF LoopInv
<1>11. CASE ~(loop = "delete" /\ pass = 0)
  <2>1. pass' = 0 /\ index' = index + 1
    BY <1>3, <1>11
  <2>2. LoopTypes'
    BY <1>1, <1>4, <1>5, <1>9, <2>1 DEF LoopTypes
  <2>3. /\ Before' = CASE loop = "meet"   -> AfterMeeting(Before, Literal)
                       [] loop = "delete" -> AfterDeleting(Before, Literal)
                       [] OTHER           -> AfterAdding(Before, Literal)
        /\ OrderedBefore' = OrderedBefore \cup Before[Literal].first
                            \cup IF loop = "delete" THEN mid[Literal].second ELSE {}
    BY <1>1, <1>4, <1>5, <2>1, OneLiteralMore DEF lists, mid
  <2>4. ann' = Before'
    <3>1. CASE loop = "meet"
      <4>1. ann = mid
        BY <1>6, <1>7, <1>9, <3>1
      <4>2. ann' = [mid EXCEPT ![Literal] =
                       IF mid[Literal].second = {} THEN Unannotated ELSE mid[Literal]]
        BY <1>2, <3>1, <4>1
      <4> QED BY <2>3, <3>1, <4>2 DEF AfterMeeting, mid
    <3>2. CASE loop = "delete"
      <4>1. ann = SecondPass(Before, Literal) /\ pass = 1
        BY <1>7, <1>9, <1>11, <3>2
      <4>2. ann' = [ann EXCEPT ![Literal] = Unannotated]
        BY <1>2, <3>2, <4>1
      <4> QED BY <2>3, <3>2, <4>1, <4>2 DEF AfterDeleting
    <3>3. CASE loop = "add"
      <4>1. ann = mid
        BY <1>6, <1>7, <1>9, <3>3
      <4>2. ann' = [mid EXCEPT ![Literal] = [mid[Literal] EXCEPT !.first = {}]]
        BY <1>2, <3>3, <4>1
      <4> QED BY <2>3, <3>3, <4>2 DEF AfterAdding, mid
    <3> QED BY <1>9, <3>1, <3>2, <3>3
  <2>5. ordered' = OrderedBefore'
    <3>1. CASE loop = "delete"
      BY <1>1, <1>7, <1>9, <1>11, <2>3, <3>1
    <3>2. CASE loop # "delete"
      BY <1>1, <1>6, <1>7, <1>9, <2>3, <3>2
    <3> QED BY <3>1, <3>2
  <2>6. Settled'
    BY <1>1, <2>1, <2>4, <2>5 DEF Settled
  <2>7. (LoopTypes /\ Settled => Handling)'
    BY SettledIsHandled, PTL
  <2> QED BY <2>2, <2>6, <2>7 DEF LoopInv
<1> QED BY <1>10, <1>11

LEMMA EndOfListIsHandled ==
    ASSUME LoopInv, EndOfList
    PROVE  LoopInv'
<1>1. LoopTypes /\ Handling
  BY DEF LoopInv
<1>2. /\ loop # "done" /\ index \notin DOMAIN List
      /\ loop' = CASE loop = "meet" -> "delete" [] loop = "delete" -> "add" [] OTHER -> "done"
      /\ index' = 1 /\ pass' = pass /\ ends' = ends /\ ann' = ann /\ ordered' = ordered
      /\ entry' = entry /\ pre' = pre /\ dels' = dels /\ adds' = adds
  BY DEF EndOfList, lists
<1>3. Settled
  BY <1>1, <1>2 DEF Handling
<1>4. Before' = Before /\ OrderedBefore' = OrderedBefore
  BY <1>1, ListsFollowEachOther
<1>5. LoopTypes'
  <2>1. loop' \in {"delete", "add", "done"}
    BY <1>1, <1>2 DEF LoopTypes
  <2>2. /\ dels \in Seq(DOMAIN entry) /\ adds \in Seq(DOMAIN entry)
    BY <1>1, ListsAreOfFacts
  <2>3. loop' # "done" => 1 \in 1..Len(List') + 1
    BY <1>2, <2>1, <2>2 DEF List
  <2> QED BY <1>1, <1>2, <2>1, <2>3 DEF LoopTypes
<1>6. Settled'
  BY <1>2, <1>3, <1>4 DEF Settled
<1>7. (LoopTypes /\ Settled => Handling)'
  BY SettledIsHandled, PTL
<1> QED BY <1>5, <1>6, <1>7 DEF LoopInv

LEMMA InitLoops == Init => LoopInv
<1> SUFFICES ASSUME Init  PROVE LoopInv
  OBVIOUS
<1>1. LoopTypes
  <2>1. pre \in Seq(DOMAIN entry)
    BY LoopAssumption DEF Init
  <2> QED BY <2>1 DEF Init, LoopTypes, List
<1>2. entry \in AnnotationsOf(DOMAIN entry) /\ pre \in Seq(DOMAIN entry)
  BY <1>1, ListsAreOfFacts
<1>3. Prefix(pre, index - 1) = <<>> /\ Range(Prefix(pre, index - 1)) = {}
  BY <1>2, EmptyPrefix DEF Init, Range, Prefix
<1>4. MeetPreconditions(entry, <<>>) = entry /\ Awaited(entry, {}) = {}
  BY <1>2, NothingHandled
<1>5. Settled
  BY <1>3, <1>4 DEF Init, Settled, Before, OrderedBefore
<1> QED BY <1>1, <1>5, SettledIsHandled DEF LoopInv

LEMMA NextLoops == LoopInv /\ [Next]_vars => LoopInv'
<1> SUFFICES ASSUME LoopInv, [Next]_vars  PROVE LoopInv'
  OBVIOUS
<1>1. ASSUME UNCHANGED vars  PROVE LoopInv'
  BY <1>1 DEF vars, lists, LoopInv, LoopTypes, Handling, Settled, Before, OrderedBefore,
              Walk, Visited, List, Literal, Met, Deleted
<1> QED BY <1>1, FindEntryIsHandled, VisitEndIsHandled, CloseLiteralIsHandled,
           EndOfListIsHandled DEF Next

(* AnnotationUpdate uses the closed forms of Annotations too.              *)
LEMMA TheClosedFormsAreThose ==
    ASSUME NEW a, NEW l, NEW D, NEW A
    PROVE  /\ Atomic!Range(l) = Range(l)
           /\ Atomic!PendingEndsMet(a, l, D, A) = PendingEndsMet(a, l, D, A)
           /\ Atomic!Reannotated(a, l, D, A) = Reannotated(a, l, D, A)
<1>1. /\ \A f : Atomic!Range(f) = Range(f)
      /\ Atomic!Unannotated = Unannotated
      /\ \A x, fs : Atomic!Awaited(x, fs) = Awaited(x, fs)
      /\ \A x, fs : Atomic!Holding(x, fs) = Holding(x, fs)
  BY DEF Range, Atomic!Range, Unannotated, Atomic!Unannotated, Awaited, Atomic!Awaited,
         Holding, Atomic!Holding
<1>2. /\ \A x, p, i : Atomic!MetUpTo(x, p, i) = MetUpTo(x, p, i)
      /\ \A x, fs : Atomic!Interested(x, fs) = Interested(x, fs)
  BY <1>1 DEF MetUpTo, Atomic!MetUpTo, Interested, Atomic!Interested
<1>3. \A x, p, f : Atomic!Retained(x, p, f) = Retained(x, p, f)
  BY <1>2 DEF Retained, Atomic!Retained
<1>4. /\ \A x, p : Atomic!MeetPreconditions(x, p) = MeetPreconditions(x, p)
      /\ \A x, fs : Atomic!ForgetDeleted(x, fs) = ForgetDeleted(x, fs)
      /\ \A x, fs : Atomic!ForgetAdded(x, fs) = ForgetAdded(x, fs)
  BY <1>1, <1>2, <1>3 DEF MeetPreconditions, Atomic!MeetPreconditions, ForgetDeleted,
         Atomic!ForgetDeleted, ForgetAdded, Atomic!ForgetAdded
<1> QED BY <1>1, <1>2, <1>4 DEF PendingEndsMet, Atomic!PendingEndsMet, Reannotated,
         Atomic!Reannotated

(* TOTHelper_meetPreconditions and TOTHelper_updateForInstantaneousEffects *)
(* implement the update that the transformer's actions make in one step:   *)
(* for all annotations, conditions and effects, the loops leave what the   *)
(* closed forms say, and order the ends that PendingEndsMet names.         *)
THEOREM LoopsImplementTheUpdate == Spec => ImplementsUpdate
<1>1. Init => Atomic!Init
  BY DEF Init, Atomic!Init
<1>2. LoopInv /\ LoopInv' /\ [Next]_vars
        => [Atomic!Update]_<<IF loop = "done" THEN ann ELSE entry,
                             IF loop = "done" THEN ordered ELSE {},
                             pre, dels, adds, loop = "done">>
  <2> SUFFICES ASSUME LoopInv, LoopInv', [Next]_vars
               PROVE  [Atomic!Update]_<<IF loop = "done" THEN ann ELSE entry,
                                        IF loop = "done" THEN ordered ELSE {},
                                        pre, dels, adds, loop = "done">>
    OBVIOUS
  <2>1. pre' = pre /\ dels' = dels /\ adds' = adds /\ entry' = entry
    BY DEF Next, FindEntry, VisitEnd, CloseLiteral, EndOfList, vars, lists
  <2>2. CASE loop' = loop /\ loop # "done"
    BY <2>1, <2>2
  <2>3. CASE loop = "done"
    <3>1. ends = NotVisiting
      BY <2>3 DEF LoopInv, Handling, Settled
    <3>2. UNCHANGED vars
      BY <2>3, <3>1 DEF Next, FindEntry, VisitEnd, CloseLiteral, EndOfList, NotVisiting
    <3> QED BY <3>2 DEF vars, lists
  <2>4. CASE loop' # loop /\ loop # "done" /\ loop' # "done"
    BY <2>1, <2>4
  <2>5. CASE loop' # loop /\ loop # "done" /\ loop' = "done"
    <3>1. Settled'
      BY <2>5 DEF LoopInv, Handling
    <3>2. /\ ann' = Reannotated(entry, pre, Range(dels), Range(adds))
          /\ ordered' = PendingEndsMet(entry, pre, Range(dels), Range(adds))
      BY <2>1, <2>5, <3>1 DEF Settled, Before, OrderedBefore
    <3>3. /\ (IF loop = "done" THEN ann ELSE entry) = entry
          /\ (IF loop = "done" THEN ann ELSE entry)' = ann'
          /\ (IF loop = "done" THEN ordered ELSE {})' = ordered'
          /\ ~(loop = "done") /\ (loop = "done")' = TRUE
      BY <2>5
    <3>4. /\ ordered' = Atomic!PendingEndsMet(entry, pre, Atomic!Range(dels), Atomic!Range(adds))
          /\ ann' = Atomic!Reannotated(entry, pre, Atomic!Range(dels), Atomic!Range(adds))
      BY <3>2, TheClosedFormsAreThose
    <3>5. Atomic!Update
      BY <2>1, <3>3, <3>4 DEF Atomic!Update
    <3> QED BY <3>5
  <2> QED BY <2>2, <2>3, <2>4, <2>5
<1> QED BY <1>1, <1>2, InitLoops, NextLoops, PTL DEF Spec, ImplementsUpdate, Atomic!Spec
=============================================================================
