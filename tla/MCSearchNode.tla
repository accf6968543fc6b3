---------------------------- MODULE MCSearchNode ----------------------------
(* Search nodes of the workshop problem; durations tell actions apart.     *)
EXTENDS SearchNode, MCDomains

MCFacts   == WorkshopFacts
MCActions == DOMAIN Workshop
MCDurative == MCActions \ {"strip"}
MCGoals   == {"lamp"}
MCInit    == {"tool", "token"}
MCMinDuration == [load |-> 2, fit |-> 3, watch |-> 5, pack |-> 4, spend |-> 7]
=============================================================================
