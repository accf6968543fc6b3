CONSTANTS
    Facts <- MCFacts
    Actions <- MCActions
    Op <- MCOp
    Durative <- MCActions
    Predicate <- MCPredicate
    Arguments <- MCArguments
    SkipCandidates = {}
    NoNumericBenefit = {}
    TILs <- MCTILs
    Goals <- MCGoals
    InitFacts = {}
    NoSelfOverlaps = FALSE
    MinDuration <- MCMinDuration
    MaxDuration <- MCMinDuration
    MaxSeparation = 4000
    Headers <- MCHeaders
    MaxLines = 2
    MaxIterations = 6
    LineTimes = {0, 10, 70}
    Slacks = {0}
SPECIFICATION HeuristicSpec
INVARIANT SolutionReachesGoals
CHECK_DEADLOCK FALSE
