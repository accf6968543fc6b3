-------------------------- MODULE MCAnnotationLoop --------------------------
(* Every annotation of two facts by two pending ends, every list of        *)
(* preconditions up to three long, with repetitions, every order of effects.*)
EXTENDS AnnotationLoop, SequencesExt

MCFacts == {"p", "q"}
MCEnds  == {1, 2}
MCEntries == [MCFacts -> [first : SUBSET MCEnds, second : SUBSET MCEnds]]
MCPreLists == BoundedSeq(MCFacts, 3)
MCEffectLists == {<<>>, <<"p">>, <<"q", "p">>}
=============================================================================
