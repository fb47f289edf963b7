SPECIFICATION Spec
CONSTANTS
    Sessions <- MCSessions
    Limit = 4
    Torn = Torn
    MaxSessions = 4
    MaxAdopted = 0
INVARIANT TrendTruthful
CHECK_DEADLOCK FALSE
