CONSTANTS
    Facts <- MCFacts
    Actions <- MCActions
    Op <- Workshop
    Durative <- MCDurative
    SkipCandidates <- MCDurative
    NoNumericBenefit = {}
    TILs <- WorkshopTILs
    Goals <- MCGoals
    InitFacts <- MCInit
    NoSelfOverlaps = FALSE
    MaxPlanLength = 11
    MinDuration <- MCMinDuration
SPECIFICATION NodeSpec
INVARIANTS
    TypeOK
    OrderingsFollowApplication
    AppliedStepsAreAChain
    PendingEndsRespected
    CountersMatchRunningActions
    AnnotationsAreAccurate
    QueueMatchesState
    PlanMatchesState
    PairsCarryTheirDuration
    RankCountsAppliedSteps
CHECK_DEADLOCK FALSE
