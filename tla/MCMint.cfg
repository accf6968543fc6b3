CONSTANTS
    Facts <- MCFacts
    Actions <- MintActions
    Op <- MintOp
    Durative <- MintDurative
    SkipCandidates <- MintDurative
    NoNumericBenefit = {}
    TILs <- NoTILs
    Goals = {}
    InitFacts <- MCInit
    NoSelfOverlaps = FALSE
    MaxPlanLength = 6
SPECIFICATION ExecSpec
INVARIANT ReadyStepsAreApplicable
CHECK_DEADLOCK FALSE
