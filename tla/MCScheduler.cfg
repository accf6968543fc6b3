CONSTANTS
    Facts <- MCFacts
    Actions <- MCActions
    Op <- Bench
    Durative <- MCActions
    SkipCandidates <- MCActions
    NoNumericBenefit = {}
    TILs <- WorkshopTILs
    Goals <- MCGoals
    InitFacts <- MCInit
    NoSelfOverlaps = FALSE
    MaxPlanLength = 11
    MinDuration <- MCMinDuration
SPECIFICATION SchedSpec
INVARIANTS
    ScheduleIsConsistent
    ScheduleIsEarliest
    ScheduleRespectsPendingEnds
PROPERTIES
    HeaderKeepsItsTimes
    SweepsReachEveryStep
CHECK_DEADLOCK FALSE
