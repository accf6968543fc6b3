--------------------------- MODULE AnnotationLoop ---------------------------
(***************************************************************************)
(* The loops of TOTHelper_meetPreconditions and                            *)
(* TOTHelper_updateForInstantaneousEffects, a pending end at a time, shown *)
(* to implement AnnotationUpdate: the closed forms used by the transformer *)
(* are what the loops leave behind.                                        *)
(***************************************************************************)
EXTENDS Annotations, FiniteSetsExt

CONSTANTS Entries, PreLists, EffectLists

(* Ends are step numbers; the lists are of facts that have annotations.    *)
ASSUME LoopAssumption ==
    \A a \in Entries : /\ a \in [DOMAIN a -> [first : SUBSET Nat, second : SUBSET Nat]]
                       /\ PreLists \cup EffectLists \subseteq Seq(DOMAIN a)

VARIABLES
    entry,             \* the annotations the helpers are called with
    pre, dels, adds,   \* the lists they are called with
    ann,               \* firstAnnotations as the loops change it
    ordered,           \* ends given an ordering so far
    loop,              \* "meet", "delete", "add", then "done"
    index,             \* the literal being handled
    pass,              \* 0 or 1: a delete visits first, then second
    ends               \* epItr..epEnd, or NotVisiting before the literal

lists == <<entry, pre, dels, adds>>
vars  == <<lists, ann, ordered, loop, index, pass, ends>>

NotVisiting == {-1}

Init ==
    /\ entry \in Entries
    /\ pre \in PreLists /\ dels \in EffectLists /\ adds \in EffectLists
    /\ ann = entry /\ ordered = {}
    /\ loop = "meet" /\ index = 1 /\ pass = 0 /\ ends = NotVisiting

List == CASE loop = "meet" -> pre [] loop = "delete" -> dels [] OTHER -> adds
Literal == List[index]

FindEntry ==
    /\ loop # "done" /\ index \in DOMAIN List /\ ends = NotVisiting
    /\ ends' = IF pass = 0 THEN ann[Literal].first ELSE ann[Literal].second
    /\ UNCHANGED <<lists, ann, ordered, loop, index, pass>>

(* Order the end before the step and erase it from the other facts; on the *)
(* second pass of a delete the set being walked is left alone.             *)
VisitEnd ==
    /\ ends \notin {NotVisiting, {}}
    /\ LET e == Min(ends)
       IN /\ ends' = ends \ {e}
          /\ ordered' = ordered \cup {e}
          /\ ann' = [f \in DOMAIN ann |->
                [first  |-> IF f = Literal THEN ann[f].first ELSE ann[f].first \ {e},
                 second |-> IF f = Literal /\ pass = 1 THEN ann[f].second
                            ELSE ann[f].second \ {e}]]
    /\ UNCHANGED <<lists, loop, index, pass>>

(* After the walk: meeting a fact erases its entry if no invariant is left,*)
(* a delete erases it after both passes, an add clears its first-set.      *)
AdvanceStuck ==   \* broken: a delete never leaves its second pass
    IF loop = "delete" THEN pass' = 1 /\ UNCHANGED index
    ELSE pass' = 0 /\ index' = index + 1
Advance ==
    IF loop = "delete" /\ pass = 0 THEN pass' = 1 /\ UNCHANGED index
    ELSE pass' = 0 /\ index' = index + 1
CloseLiteral ==
    /\ ends = {}
    /\ ends' = NotVisiting
    /\ ann' = [ann EXCEPT ![Literal] =
          CASE loop = "meet" /\ @.second = {} -> Unannotated
            [] loop = "delete" /\ pass = 1    -> Unannotated
            [] loop = "add"                   -> [@ EXCEPT !.first = {}]
            [] OTHER                          -> @]
    /\ Advance
    /\ UNCHANGED <<lists, ordered, loop>>

EndOfList ==
    /\ loop # "done" /\ index \notin DOMAIN List
    /\ loop' = CASE loop = "meet" -> "delete" [] loop = "delete" -> "add"
                 [] OTHER -> "done"
    /\ index' = 1
    /\ UNCHANGED <<lists, ann, ordered, pass, ends>>

Next == FindEntry \/ VisitEnd \/ CloseLiteral \/ EndOfList
Spec == Init /\ [][Next]_vars /\ WF_vars(Next)

-----------------------------------------------------------------------------
(* The loops take the annotations, in one visible step, to what the closed *)
(* forms say, and order exactly the ends the closed forms name.            *)
Atomic == INSTANCE AnnotationUpdate WITH
              ann <- IF loop = "done" THEN ann ELSE entry,
              ordered <- IF loop = "done" THEN ordered ELSE {},
              finished <- loop = "done"
ImplementsUpdate == Atomic!Spec

(* The walks end, although they shrink the map they are walking.           *)
LoopsTerminate == <>(loop = "done")
=============================================================================
