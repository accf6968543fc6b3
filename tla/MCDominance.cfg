SPECIFICATION SearchSpec
CHECK_DEADLOCK FALSE
CONSTANTS
    Bases <- MCBases
    Kin <- MCKin
    Levels <- MCLevels
    Root = "r"
    NoAction = "none"
    Graph <- RefillGraph
    CommandLines <- WithDominance
    RootH = 4
    MaxStates = 25
INVARIANT
    VerdictJustifiedUnderDominance
