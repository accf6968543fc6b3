----------------------------- MODULE MCHeuristic -----------------------------
(* A forge that has power from one timed literal to the next.              *)
EXTENDS TemporalHeuristic, MCDomains

MCFacts == {"cold", "power", "light", "dark", "hot", "iron", "done"}
(* Takes the iron; needs the power, a little longer than there is power.   *)
(* Power and light are one predicate of two arguments, the second of which *)
(* they share: at the end the set may take their links for the same.       *)
Heat == [Idle EXCEPT !.startPre = <<"iron">>, !.startDel = {"iron"},
                     !.inv = <<"power">>, !.endPre = <<"light">>, !.endAdd = {"hot"}]
(* Uses the heat while there is power.                                     *)
Weld == [Idle EXCEPT !.startPre = <<"hot">>, !.endPre = <<"light", "power">>,
                     !.endAdd = {"done"}]
(* Begins before the power comes and ends after it has gone.               *)
Span == [Idle EXCEPT !.startPre = <<"cold">>, !.endPre = <<"dark">>]
(* Instantaneous: what it uses is what others add.  KK does not see that   *)
(* the power must be off.                                                  *)
Cool == [Idle EXCEPT !.startPre = <<"hot">>, !.startNeg = {"power"}, !.startDel = {"hot"}]
MCOp == [heat |-> Heat, weld |-> Weld, span |-> Span, cool |-> Cool]
MCActions == DOMAIN MCOp
MCDurative == {"heat", "weld", "span"}
MCMinDuration == [heat |-> 72, weld |-> 20, span |-> 20]
MCMaxDuration == [heat |-> 72, weld |-> 30, span |-> 140]
MCTILs == <<[at |-> 50, adds |-> {"power", "light"}, dels |-> {"cold"}],
            [at |-> 140, adds |-> {"dark"}, dels |-> {"power"}]>>
MCInit == {"cold", "iron"}
MCPredicate ==
    [cold |-> 1, dark |-> 2, done |-> 3, hot |-> 4, iron |-> 5,
     power |-> 6, light |-> 6]
MCArguments ==
    [f \in MCFacts |-> CASE f = "power" -> <<1, 3>>
                         [] f = "light" -> <<2, 3>>
                         [] OTHER -> <<>>]

PowerOn == [timeSpec |-> "AT", ref |-> 1, pairWithStep |-> -1]
HeatFrom(k) ==
    <<[timeSpec |-> "AT_START", ref |-> "heat", pairWithStep |-> k + 1],
      [timeSpec |-> "AT_END", ref |-> "heat", pairWithStep |-> k]>>
MCHeaders == {<<>>, <<PowerOn>> \o HeatFrom(1)}

(* The problem meets what HeuristicTheorems assume: EvenTimes and          *)
(* DurationsArePositive.                                                   *)
ASSUME ProblemAssumption ==
    /\ \A a \in Durative : /\ MinDuration[a] > 0 /\ MinDuration[a] % 2 = 0
                          /\ MaxDuration[a] % 2 = 0
    /\ \A k \in DOMAIN TILs : TILs[k].at % 2 = 0
    /\ (MaxSeparation \div 2) % 2 = 0
=============================================================================
