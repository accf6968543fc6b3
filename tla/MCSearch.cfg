SPECIFICATION SearchSpec
CHECK_DEADLOCK FALSE
CONSTANTS
    Bases <- MCBases
    Kin <- MCKin
    Levels <- MCLevels
    Root = "r"
    NoAction = "none"
    Graph <- MCGraph
    CommandLines <- MCCommandLines
    RootH = 4
    MaxStates = 18
INVARIANTS
    SearchTypes
    VerdictJustified
    VisitedOnce
    UndominatedCoverStored
PROPERTIES
    SearchEnds
    LosesNothingBetter
