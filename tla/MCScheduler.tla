---------------------------- MODULE MCScheduler ----------------------------
(* The compression-safe scheduler on a problem it may be used for.         *)
EXTENDS CompressionSafeScheduler, MCDomains

MCFacts   == WorkshopFacts
MCActions == DOMAIN Bench
MCGoals   == {"lamp"}
MCInit    == {"tool", "token"}
MCMinDuration == [load |-> 2, fit |-> 1, grind |-> 4, spend |-> 7]
=============================================================================
