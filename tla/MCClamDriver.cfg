CONSTANTS
    Stages <- FromBitcode
    Limits <- WithOrWithout
    MaxSignals = 1

SPECIFICATION Spec

INVARIANTS
    StartsAfterSuccess
    NoOrphans
    SigtermStopsPipeline

PROPERTY
    Terminates

CHECK_DEADLOCK FALSE
