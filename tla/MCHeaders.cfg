CONSTANTS
    Facts <- MCFacts
    Actions <- MCActions
    Op <- Workshop
    Durative <- MCDurative
    SkipCandidates <- MCDurative
    NoNumericBenefit = {}
    TILs <- WorkshopTILs
    Goals <- MCGoals
    InitFacts <- MCInit
    NoSelfOverlaps = FALSE
    MaxPlanLength = 10
    MinDuration <- MCMinDuration
SPECIFICATION NodeSpec
INVARIANT PlanCanBeOrdered
CHECK_DEADLOCK FALSE
