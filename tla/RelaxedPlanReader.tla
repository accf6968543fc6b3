-------------------------- MODULE RelaxedPlanReader --------------------------
(***************************************************************************)
(* PlannerExecutionReader and TRH::addRelaxedPlan: the answer of the child *)
(* planner is a list of lines, one per action, in the order of their start *)
(* times.  Ends wait in a backlog until a line comes that starts late      *)
(* enough; they join the list in the order in which they began to wait.    *)
(***************************************************************************)
EXTENDS TimedPlans, SequencesExt

(* A line names an action, or a timed literal, or neither: the rest of an  *)
(* action under way, which search has in its plan already.                 *)
NoOperator == "no operator"
NoLiteral == 0
Lines == [op : Actions \cup {NoOperator}, til : {NoLiteral} \cup DOMAIN TILs,
          at : Nat, duration : Nat]

Snap(timeSpec, ref, pair, at) ==
    [timeSpec |-> timeSpec, ref |-> ref, pairWithStep |-> pair, at |-> at]

(* backlogItr->start->pairWithStep = rPlan.size(); push_back(end); erase    *)
EndMoved(reader, n) ==
    LET end == reader.backlog[n]
    IN [events |-> Append(
           [reader.events EXCEPT ![end.pairWithStep + 1].pairWithStep = Len(reader.events)],
           end),
        backlog |-> RemoveAt(reader.backlog, n),
        length |-> reader.length + 1]

(* The positions in the backlog of the ends that go before a line.         *)
Due(reader, line) ==
    {n \in DOMAIN reader.backlog : reader.backlog[n].at <= line.at + Epsilon}
IsFirst(n, positions) == n \in positions /\ \A m \in positions : n <= m

ReadLine(reader, line) ==
    IF line.op # NoOperator
    THEN [events |-> Append(reader.events, Snap("AT_START", line.op, -1, line.at)),
          backlog |-> IF line.op \in Durative
                      THEN Append(reader.backlog,
                              Snap("AT_END", line.op, Len(reader.events),
                                   line.at + line.duration))
                      ELSE reader.backlog,
          length |-> reader.length + 1]
    ELSE IF line.til # NoLiteral
    THEN [reader EXCEPT !.events = Append(@, Snap("AT", line.til, -1, line.at)),
                        !.length = @ + 1]
    ELSE [reader EXCEPT !.length = @ + 1]

Unread == [events |-> <<>>, backlog |-> <<>>, length |-> 0]

(* addRelaxedPlan: pairs are renumbered, for the relaxed plan comes after  *)
(* the steps of the header.                                                *)
Untimed(event, shift) ==
    [timeSpec |-> event.timeSpec, ref |-> event.ref,
     pairWithStep |-> event.pairWithStep + shift]
NotRenumbered(header, relaxed) ==   \* broken: pairs as they were
    header \o [i \in DOMAIN relaxed |-> Untimed(relaxed[i], 0)]
AddRelaxedPlan(header, relaxed) ==
    header \o [i \in DOMAIN relaxed |->
        Untimed(relaxed[i], IF relaxed[i].pairWithStep < 0 THEN 0 ELSE Len(header))]
=============================================================================
