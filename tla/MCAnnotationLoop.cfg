CONSTANTS
    Entries <- MCEntries
    PreLists <- MCPreLists
    EffectLists <- MCEffectLists
SPECIFICATION Spec
PROPERTIES
    ImplementsUpdate
    LoopsTerminate
CHECK_DEADLOCK FALSE
