-------------------------- MODULE AnnotationUpdate --------------------------
(***************************************************************************)
(* What one snap-action does to the annotations, as a single step.         *)
(***************************************************************************)
EXTENDS Annotations

CONSTANTS Entries,       \* the annotated states to start from
          PreLists,      \* lists of preconditions
          EffectLists    \* lists of delete and of add effects

VARIABLES ann, ordered, pre, dels, adds, finished

Init ==
    /\ ann \in Entries /\ ordered = {}
    /\ pre \in PreLists /\ dels \in EffectLists /\ adds \in EffectLists
    /\ finished = FALSE

Update ==
    /\ ~finished
    /\ ordered' = PendingEndsMet(ann, pre, Range(dels), Range(adds))
    /\ ann' = Reannotated(ann, pre, Range(dels), Range(adds))
    /\ finished' = TRUE
    /\ UNCHANGED <<pre, dels, adds>>

Spec == Init /\ [][Update]_<<ann, ordered, pre, dels, adds, finished>>
=============================================================================
