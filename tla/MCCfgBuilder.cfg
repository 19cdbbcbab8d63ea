CONSTANTS
    Val = {0, 1, 2}
    Functions <- MCFunctions
    IncludeUselessHavoc = TRUE

SPECIFICATION SimSpec

INVARIANTS
    NoDeadEnd
    Sound
    TakenEdgesAreFeasible
    Exact
    FailsIffReturns

CHECK_DEADLOCK FALSE
