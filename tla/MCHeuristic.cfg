CONSTANTS
    Facts <- MCFacts
    Actions <- MCActions
    Op <- MCOp
    Durative <- MCDurative
    Predicate <- MCPredicate
    Arguments <- MCArguments
    SkipCandidates = {}
    NoNumericBenefit = {}
    TILs <- MCTILs
    Goals = {}
    InitFacts <- MCInit
    NoSelfOverlaps = FALSE
    MinDuration <- MCMinDuration
    MaxDuration <- MCMaxDuration
    MaxSeparation = 4000
    Headers <- MCHeaders
    MaxLines = 3
    MaxIterations = 3
    LineTimes = {0, 10, 20, 30, 100, 140}
    Slacks = {0, 2, 32}
SPECIFICATION HeuristicSpec
INVARIANTS
    PairsPointBack
    AbortsOnlyWhenMisread
    VerdictsAreCertified
    ValueIsNeededRelaxation
    SolutionIsExecutable
    DispatchTimesAreEarliest
    ZeroMeansSolved
    ReadyStepsFindTheirConditions
    RunningActionsKeepTheirInvariants
PROPERTY RelaxationEnds
CHECK_DEADLOCK FALSE
