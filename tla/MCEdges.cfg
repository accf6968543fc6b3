CONSTANTS
    Facts <- MCFacts
    Actions <- MCActions
    Op <- MCOp
    Durative <- MCDurative
    SkipCandidates <- MCDurative
    NoNumericBenefit = {}
    TILs <- MCTILs
    Goals <- MCGoals
    InitFacts <- MCInit
    NoSelfOverlaps = FALSE
    MaxPlanLength = 8
    MinDuration <- MCMinDuration
    MaxDuration <- MCMaxDuration
    EndOneShots <- MCEndOneShots
    NoLimit = 1000
    MaxVisits = 40
SPECIFICATION ScheduledSpec
INVARIANT ContainsAllTheseEdges
CHECK_DEADLOCK FALSE
