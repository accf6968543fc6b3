----------------------------- MODULE TimedPlans -----------------------------
(***************************************************************************)
(* Plans with times, and when they are valid.  External: the semantics of  *)
(* PDDL 2.1, not code of the repository.  Times are counted in units of    *)
(* ColinSTNImpl::ACCURACY.                                                 *)
(***************************************************************************)
EXTENDS Deordering

CONSTANTS MinDuration, MaxDuration     \* getOpMinDuration, getOpMaxDuration

ASSUME DurationAssumption ==
    /\ MinDuration \in [Durative -> Nat] /\ MaxDuration \in [Durative -> Nat]
    /\ \A a \in Durative : MinDuration[a] <= MaxDuration[a]

Accuracy == 1
Epsilon == 10

-----------------------------------------------------------------------------
(* A step of a plan p takes place at the time that at gives it.            *)
Touches(e, f) == f \in Effects(e, TRUE) \cup Effects(e, FALSE)
Leaves(e, l)  == l.positive <=> l.fact \in Effects(e, TRUE)
Touching(p, l) == {j \in DOMAIN p : Touches(p[j], l.fact)}

HoldsBefore(p, at, init, l, x) ==
    LET earlier == {j \in Touching(p, l) : at[j] < x}
    IN IF earlier = {} THEN l.positive <=> l.fact \in init
       ELSE \A j \in earlier : (\A k \in earlier : at[k] <= at[j]) => Leaves(p[j], l)

(* All conditions of a step, what must be false among them.                *)
OwnConditions(e) ==
    IF e.timeSpec = "AT_START" THEN LiteralsOf(Range(Op[e.ref].startPre), Op[e.ref].startNeg)
    ELSE IF e.timeSpec = "AT_END" THEN LiteralsOf(Range(Op[e.ref].endPre), Op[e.ref].endNeg)
    ELSE {}
OverAllConditions(a) == LiteralsOf(Range(Op[a].inv), Op[a].invNeg)

(* A condition must have been true for some time when it is used, and no   *)
(* other step may touch it at that very time.                              *)
ConditionsMet(p, at, init) ==
    \A i \in DOMAIN p : \A l \in OwnConditions(p[i]) :
        /\ HoldsBefore(p, at, init, l, at[i])
        /\ \A j \in Touching(p, l) \ {i} : at[j] # at[i]

Pairs(p) ==
    {o \in (DOMAIN p) \X (DOMAIN p) :
        p[o[1]].timeSpec = "AT_START" /\ p[o[1]].pairWithStep + 1 = o[2]}

InvariantsKept(p, at, init) ==
    \A o \in Pairs(p) : \A l \in OverAllConditions(p[o[1]].ref) :
        /\ HoldsBefore(p, at, init, l, at[o[1]] + 1)
        /\ \A j \in Touching(p, l) :
              at[o[1]] < at[j] /\ at[j] < at[o[2]] => Leaves(p[j], l)

DurationsKept(p, at) ==
    \A o \in Pairs(p) :
        at[o[2]] - at[o[1]] \in MinDuration[p[o[1]].ref]..MaxDuration[p[o[1]].ref]

LiteralsOnTime(p, at) ==
    \A i \in DOMAIN p : p[i].timeSpec = "AT" => at[i] = TILs[p[i].ref].at

Executable(p, at, init) ==
    ConditionsMet(p, at, init) /\ InvariantsKept(p, at, init) /\ DurationsKept(p, at)
=============================================================================
