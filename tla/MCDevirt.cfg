SPECIFICATION Spec
CONSTANTS
    MaxCalls = 3
    Programs <- MCPrograms
INVARIANTS
    SameCalls
    PhisMatchPreds
    StatsAreTrue
CHECK_DEADLOCK FALSE
