------------------------------ MODULE MCSearch ------------------------------
(* Problems with some of eleven moves: ways to "a", "b" and "d" at several *)
(* times, cycles, deadlines, two timed literals, a compression-safe action.*)
EXTENDS Search, Sequences

MCBases == {"r", "a", "b", "c", "d", "g"}
MCKin == [x \in MCBases |-> IF x \in {"a", "b", "c"} THEN "abc" ELSE x]
MCLevels == [r |-> <<0, 0>>, a |-> <<1, 2>>, b |-> <<3, 1>>, c |-> <<0, 2>>,
             d |-> <<0, 0>>, g |-> <<0, 0>>]

Move(from, to, kind, dt, by, h, est) ==
    [from |-> from, to |-> to, kind |-> kind, act |-> from \o to, dt |-> dt,
     by |-> by, h |-> h, est |-> est, helpful |-> TRUE, leap |-> FALSE]

MCGraph ==
    {Move("r", "a", "INSTANT", 9, 99, 3, 1),
     [Move("r", "b", "START", 1, 99, 3, 0) EXCEPT !.helpful = FALSE],
     Move("a", "b", "INSTANT", 3, 99, 3, 0),
     Move("b", "a", "END", 2, 99, 2, 0),
     [Move("b", "c", "TIL", 0, 6, 2, 1) EXCEPT !.leap = TRUE],
     Move("c", "d", "TIL", 0, 8, 1, 0),
     Move("d", "g", "INSTANT", 1, 9, 0, 0),
     Move("b", "d", "INSTANT", 4, 6, 2, 0),
     Move("d", "r", "SAFE", 1, 12, 4, 0),
     Move("c", "a", "INSTANT", 1, 99, 2, 0),
     Move("a", "c", "INSTANT", 1, 99, -1, 0)}

Default == [dominance |-> FALSE, zealous |-> TRUE, steepest |-> FALSE, helpful |-> TRUE,
            skipEHC |-> FALSE, bestFirst |-> TRUE, tieBreak |-> TRUE]
MCCommandLines ==
    {Default,
     [Default EXCEPT !.dominance = TRUE],
     [Default EXCEPT !.zealous = FALSE, !.tieBreak = FALSE, !.bestFirst = FALSE],
     [Default EXCEPT !.skipEHC = TRUE],
     [Default EXCEPT !.steepest = TRUE, !.helpful = FALSE]}

(* "a" improves on "c" by refilling, say; the goal is beyond "d", for both.*)
RefillGraph ==
    {Move("r", "c", "INSTANT", 1, 99, 3, 0),
     Move("c", "a", "INSTANT", 1, 99, 3, 0),
     Move("c", "d", "INSTANT", 1, 99, 3, 0),
     Move("a", "d", "INSTANT", 1, 99, 3, 0),
     Move("d", "g", "INSTANT", 1, 99, 0, 0)}
WithDominance == {[Default EXCEPT !.dominance = TRUE]}
=============================================================================
