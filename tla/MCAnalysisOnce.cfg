CONSTANTS
    Functions <- Module
    Trackable <- Bodies
    MaxLive <- Lives
    Threshold = 5
    Domain <- Domains
    Relational <- Zones
    Intervals = "intervals"
    Assumption <- Assumptions
    NoAssumption = "none"
    Outcome <- Outcomes
    Analysers <- Both
    Reanalysis = FALSE
    MaxAnalyses = 1

SPECIFICATION Spec

INVARIANT
    VerdictIsJustified

PROPERTY
    ImplementsUncached
