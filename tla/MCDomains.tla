----------------------------- MODULE MCDomains -----------------------------
(* Small planning problems for TLC.  Each is given by the set of its       *)
(* actions; their operators are shared.                                    *)
EXTENDS Integers, Sequences

Idle ==
    [startPre |-> <<>>, inv |-> <<>>, endPre |-> <<>>,
     startNeg |-> {}, invNeg |-> {}, endNeg |-> {},
     startAdd |-> {}, startDel |-> {}, endAdd |-> {}, endDel |-> {}]

(* Compression safe: hold a tool throughout, make a part at the end.       *)
Load  == [Idle EXCEPT !.startPre = <<"tool">>, !.inv = <<"tool">>,
                      !.endAdd = {"part"}]
(* Compression safe: needs the part throughout, finishes at the end.       *)
Fit   == [Idle EXCEPT !.startPre = <<"tool">>, !.inv = <<"part">>,
                      !.endAdd = {"done", "tool"}]
(* Instantaneous: uses both, takes the tool away, brings the lamp.         *)
Strip == [Idle EXCEPT !.startPre = <<"done", "part">>, !.startDel = {"tool"},
                      !.startAdd = {"lamp"}]
(* Not compression safe: it needs the part, but only at its end.  Two      *)
(* instances may overlap.                                                  *)
Watch == [Idle EXCEPT !.inv = <<"tool">>, !.endPre = <<"part">>,
                      !.endDel = {"done"}, !.endAdd = {"lamp"}]
(* Not compression safe: holds the part until its own end deletes it.      *)
Pack  == [Idle EXCEPT !.inv = <<"part">>, !.endPre = <<"lamp">>,
                      !.endDel = {"part"}]
(* Compression safe by the hold-throughout, delete-at-end idiom.           *)
Spend == [Idle EXCEPT !.startPre = <<"token">>, !.inv = <<"token">>,
                      !.endDel = {"token"}, !.endAdd = {"part"}]

(* Compression safe, takes the tool for its duration.                      *)
Grind == [Idle EXCEPT !.startPre = <<"done", "tool">>, !.startDel = {"tool"},
                      !.endAdd = {"lamp", "tool"}]

Workshop ==
    [load |-> Load, fit |-> Fit, strip |-> Strip, watch |-> Watch, pack |-> Pack,
     spend |-> Spend]
WorkshopFacts == {"tool", "part", "done", "lamp", "token"}
(* Only compression-safe actions.                                          *)
Bench == [load |-> Load, fit |-> Fit, grind |-> Grind, spend |-> Spend]
WorkshopTILs  == <<[at |-> 5, adds |-> {"tool"}, dels |-> {"part"}]>>
=============================================================================
