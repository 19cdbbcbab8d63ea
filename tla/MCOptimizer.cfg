CONSTANTS
    Val = {0, 1, 2}
    Functions <- MCFunctions
    IncludeUselessHavoc = TRUE
    Jobs <- MCJobs

SPECIFICATION OptSpec

INVARIANTS
    SameSteps
    PhisMatchPreds
    DefsDominateUses
    DeadCodeIsGone

CHECK_DEADLOCK FALSE
