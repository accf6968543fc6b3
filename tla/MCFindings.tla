----------------------------- MODULE MCFindings -----------------------------
(* Problems on which the code does not do what its comments say.           *)
EXTENDS PlanExecution, MCDomains

MCFacts == WorkshopFacts

(* The idiom's fact is added again while its holder still runs.            *)
Mint == [Idle EXCEPT !.startAdd = {"token"}]
MintActions == {"spend", "mint"}
MintOp == [spend |-> Spend, mint |-> Mint]

(* The idiom's fact is also an invariant of an action that is not          *)
(* compression safe.                                                       *)
Guard == [Idle EXCEPT !.inv = <<"token">>, !.endPre = <<"part">>,
                      !.endDel = {"token"}]
GuardActions == {"spend", "guard"}
GuardOp == [spend |-> Spend, guard |-> Guard]

MCInit == {"token"}
MintDurative  == {"spend"}
GuardDurative == {"spend", "guard"}
NoTILs == <<>>
=============================================================================
