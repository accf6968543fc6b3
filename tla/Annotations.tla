----------------------------- MODULE Annotations -----------------------------
(***************************************************************************)
(* The annotations of a state's facts (MinimalState::firstAnnotations) and *)
(* what the helpers of the total-order transformer do to them.  A fact has *)
(* the ends pending on it: in first, those whose effect adds it; in second,*)
(* those whose action holds it as an invariant.  A fact without an entry   *)
(* in the map has both sets empty.                                         *)
(*                                                                         *)
(* The code walks its lists and, for each pending end it meets, orders the *)
(* end before the new step and erases it from every other fact.  These are *)
(* the closed forms of its loops; AnnotationLoop runs the loops.           *)
(***************************************************************************)
EXTENDS Integers, Sequences, Functions

Unannotated == [first |-> {}, second |-> {}]

Awaited(ann, fs)  == UNION {ann[f].first : f \in fs}
Holding(ann, fs)  == UNION {ann[f].second : f \in fs}

(* TOTHelper_meetPreconditions never clears the first-set it iterates: an  *)
(* end stays on the first fact of the list that awaits it, unless the      *)
(* entry of that fact is erased because no invariant is left on it.        *)
MetUpTo(ann, pre, i) == Awaited(ann, {pre[j] : j \in 1..i})
RetainedNever(ann, pre, f) == {}   \* broken: clears the set it iterates
Retained(ann, pre, f) ==
    {e \in ann[f].first :
        \E i, l \in DOMAIN pre :
            /\ pre[i] = f /\ e \notin MetUpTo(ann, pre, i - 1)
            /\ pre[l] = f /\ \A m \in DOMAIN pre : pre[m] = f => m <= l
            /\ ann[f].second \ MetUpTo(ann, pre, l) # {}}
MeetPreconditions(ann, pre) ==
    LET met == Awaited(ann, Range(pre))
    IN [f \in DOMAIN ann |->
          [first |-> (ann[f].first \ met) \cup Retained(ann, pre, f),
           second |-> ann[f].second \ met]]

(* The two halves of TOTHelper_updateForInstantaneousEffects.              *)
Interested(ann, dels) == Awaited(ann, dels) \cup Holding(ann, dels)
ForgetDeleted(ann, dels) ==
    LET met == Interested(ann, dels)
    IN [f \in DOMAIN ann |->
          IF f \in dels THEN Unannotated
          ELSE [first |-> ann[f].first \ met, second |-> ann[f].second \ met]]
ForgetAdded(ann, adds) ==
    LET met == Awaited(ann, adds)
    IN [f \in DOMAIN ann |->
          [first |-> IF f \in adds THEN {} ELSE ann[f].first \ met,
           second |-> ann[f].second \ met]]

(* A snap-action: preconditions, then deletes, then adds.                  *)
Reannotated(ann, pre, dels, adds) ==
    ForgetAdded(ForgetDeleted(MeetPreconditions(ann, pre), dels), adds)
PendingEndsOfEffects(ann, pre, dels, adds) ==   \* broken: skips conditions
    Interested(ann, dels) \cup Awaited(ForgetDeleted(ann, dels), adds)
PendingEndsOfConditions(ann, pre, dels, adds) ==   \* broken: skips effects
    Awaited(ann, Range(pre))
PendingEndsMet(ann, pre, dels, adds) ==
    LET met == MeetPreconditions(ann, pre)
    IN Awaited(ann, Range(pre)) \cup Interested(met, dels)
       \cup Awaited(ForgetDeleted(met, dels), adds)
=============================================================================
