CONSTANTS
    Val = {0, 1}
    Jobs <- MCJobs
SPECIFICATION Spec
INVARIANTS
    RefutedIsInfeasible
    CoreExplains
    CoreIsMinimal
    CoreBlocksOtherPaths
    PostIsStrongest
CHECK_DEADLOCK FALSE
