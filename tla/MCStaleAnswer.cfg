CONSTANTS
    Functions <- Module
    Trackable <- Bodies
    MaxLive <- Lives
    Threshold = 5
    Domain <- Domains
    Relational <- Zones
    Intervals = "intervals"
    Assumption <- Assumptions
    NoAssumption = "none"
    Outcome <- Outcomes
    Analysers <- OnlyIntra
    Reanalysis = TRUE
    MaxAnalyses = 2

SPECIFICATION Spec

PROPERTY AnswersAreCurrent
