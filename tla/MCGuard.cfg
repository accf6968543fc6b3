CONSTANTS
    Facts <- MCFacts
    Actions <- GuardActions
    Op <- GuardOp
    Durative <- GuardDurative
    SkipCandidates <- GuardDurative
    NoNumericBenefit = {}
    TILs <- NoTILs
    Goals = {}
    InitFacts <- MCInit
    NoSelfOverlaps = FALSE
    MaxPlanLength = 6
SPECIFICATION ExecSpec
INVARIANT RunningInvariantsHold
CHECK_DEADLOCK FALSE
